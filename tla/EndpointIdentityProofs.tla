----------------------- MODULE EndpointIdentityProofs -----------------------
(***************************************************************************)
(* Theorems about EndpointIdentity, for any number of processes and        *)
(* generations.                                                            *)
(***************************************************************************)
EXTENDS EndpointIdentity, TLAPS

\* Who is inside a section holds the lease; the vault's key seals the secret and is
\* the key of whoever has one.
Entered == \A p \in Proc : at[p] \in Opening => identityLease = p
Sealed ==
    /\ secret # None => secret.sealed = masterKey
    /\ \A p \in Proc : at[p] \in {"keyed"} \cup Opening =>
           masterKey # None /\ key[p] = masterKey

\* Metadata is never ahead of the secret, and what a process works with between its
\* writes is what the secret says.
Published == metadata # None => secret # None /\ Repairable
Writers ==
    \A p \in Proc :
        /\ at[p] \in {"publishing", "validated"} => secret # None /\ loaded[p] = secret.identity
        /\ at[p] = "validated" => metadata = secret.identity
        /\ at[p] = "ready" => loaded[p] # None
        /\ rotating[p] => at[p] \in Opening /\ Generation < MaxGeneration

IdentityInvariant == IdentityTypeOK /\ Entered /\ Sealed /\ Published /\ Writers

LEMMA SecretFields ==
    ASSUME NEW s \in Secret
    PROVE  /\ s # None /\ s.identity \in Identity /\ s.sealed \in Proc
           /\ s.identity # None /\ s.identity.endpoint \in Proc
           /\ s.identity.generation \in 1 .. MaxGeneration
  BY IdentityAssumption DEF Secret, Identity

LEMMA FirstIsIdentity ==
    ASSUME NEW p \in Proc
    PROVE  First(p) \in Identity /\ First(p) # None /\ First(p).generation = 1
  <1>1. 1 \in 1 .. MaxGeneration
    BY IdentityAssumption
  <1> QED
    BY <1>1, IdentityAssumption DEF First, Identity

LEMMA SuccessorIsIdentity ==
    ASSUME NEW p \in Proc, secret \in Secret, Generation < MaxGeneration
    PROVE  /\ Successor(p) \in Identity /\ Successor(p) # None
           /\ Successor(p).endpoint = secret.identity.endpoint
           /\ Successor(p).generation = secret.identity.generation + 1
  <1>1. /\ secret.identity \in Identity
        /\ secret.identity.generation < MaxGeneration
        /\ secret.identity.generation \in 1 .. MaxGeneration
    BY SecretFields DEF Generation
  <1>2. secret.identity.generation + 1 \in 1 .. MaxGeneration
    BY <1>1, IdentityAssumption
  <1> QED
    BY <1>1, <1>2, IdentityAssumption DEF Successor, Identity

LEMMA IdentityInvariantInit == IdentityInit => IdentityInvariant
  BY IdentityAssumption
  DEF IdentityInit, IdentityInvariant, IdentityTypeOK, Entered, Sealed, Published,
      Writers, Opening

\* A process that enters, leaves or stops without writing a file.
LEMMA MoveKeeps ==
    ASSUME IdentityInvariant, NEW p \in Proc,
           NEW there \in {"off", "keyed", "entered", "ready"}, Enter(p, there),
           UNCHANGED identityFiles,
           identityLease' \in Proc \cup {Free, Orphan},
           there = "entered" => identityLease = Free /\ identityLease' = p,
           there # "entered" => identityLease' = identityLease \/ at[p] \in Opening,
           key' \in [Proc -> Proc \cup {None}],
           loaded' \in [Proc -> Identity \cup {None}],
           rotating' \in [Proc -> BOOLEAN],
           \A q \in Proc : q # p => /\ key'[q] = key[q] /\ loaded'[q] = loaded[q]
                                    /\ rotating'[q] = rotating[q],
           there \in {"keyed", "entered"} => masterKey # None /\ key'[p] = masterKey,
           there = "ready" => loaded'[p] # None,
           rotating'[p] => there = "entered" /\ Generation < MaxGeneration
    PROVE  IdentityInvariant'
  <1> USE DEF IdentityInvariant, Enter, identityFiles
  <1>1. IdentityTypeOK'
    BY DEF IdentityTypeOK, Opening
  <1>2. Entered'
    BY IdentityAssumption DEF Entered, IdentityTypeOK, Opening
  <1>3. Sealed'
    BY DEF Sealed, IdentityTypeOK, Opening
  <1>4. Published'
    BY DEF Published, Repairable, OlderPublication
  <1>5. Writers'
    BY DEF Writers, Generation, IdentityTypeOK, Opening
  <1> QED
    BY <1>1, <1>2, <1>3, <1>4, <1>5

\* A secret is written by the holder of the lease, for a first identity or for the
\* successor of the current one.
LEMMA PersistKeeps ==
    ASSUME IdentityInvariant, NEW p \in Proc, at[p] \in Opening,
           NEW identity \in Identity, PersistSecret(p, identity),
           \/ metadata = None /\ secret = None
           \/ /\ metadata = secret.identity /\ secret # None
              /\ identity.endpoint = secret.identity.endpoint
              /\ identity.generation = secret.identity.generation + 1,
           rotating' \in [Proc -> BOOLEAN],
           \A q \in Proc : q # p => rotating'[q] = rotating[q],
           rotating'[p] => identity.generation < MaxGeneration
    PROVE  IdentityInvariant'
  <1> USE DEF IdentityInvariant, Enter, PersistSecret
  <1>0. /\ at' = [at EXCEPT ![p] = "publishing"] /\ at'[p] = "publishing"
        /\ \A q \in Proc : q # p => at[q] \notin Opening /\ at'[q] = at[q]
    BY DEF IdentityTypeOK, Entered
  <1>1. secret' \in Secret /\ secret' # None /\ secret'.identity = identity
        /\ secret'.sealed = key[p] /\ key[p] = masterKey
    <2>1. key[p] = masterKey /\ masterKey # None /\ key[p] \in Proc
      BY DEF Sealed, IdentityTypeOK
    <2> QED
      BY <2>1, IdentityAssumption DEF Secret
  <1>2. IdentityTypeOK'
    BY <1>0, <1>1 DEF IdentityTypeOK, Opening
  <1>3. Entered'
    BY <1>0 DEF Entered, Opening
  <1>4. Sealed'
    BY <1>0, <1>1 DEF Sealed, Opening
  <1>5. Published'
    <2>1. CASE metadata = None
      BY <2>1 DEF Published
    <2>2. CASE metadata # None
      <3>1. metadata = secret.identity /\ secret # None /\ secret \in Secret
        BY <2>2 DEF IdentityTypeOK
      <3>2. metadata.generation \in Nat
        BY <3>1, SecretFields
      <3> QED
        BY <1>1, <2>2, <3>1, <3>2 DEF Published, Repairable, OlderPublication
    <2> QED
      BY <2>1, <2>2
  <1>6. Writers'
    BY <1>0, <1>1 DEF Writers, Generation, IdentityTypeOK, Opening
  <1> QED
    BY <1>2, <1>3, <1>4, <1>5, <1>6

\* Metadata is written from the secret.
LEMMA PublishKeeps ==
    ASSUME IdentityInvariant, NEW p \in Proc, at[p] \in Opening, secret # None,
           metadata' = secret.identity, loaded' = [loaded EXCEPT ![p] = secret.identity],
           Enter(p, "validated"),
           UNCHANGED <<masterKey, secret, identityLease, key, rotating>>
    PROVE  IdentityInvariant'
  <1> USE DEF IdentityInvariant, Enter
  <1>0. /\ at'[p] = "validated"
        /\ \A q \in Proc : q # p => at[q] \notin Opening /\ at'[q] = at[q]
    BY DEF IdentityTypeOK, Entered
  <1>1. secret.identity \in Identity /\ secret.identity # None
    BY SecretFields DEF IdentityTypeOK
  <1>2. IdentityTypeOK'
    BY <1>1 DEF IdentityTypeOK, Opening
  <1>3. Entered' /\ Sealed'
    BY <1>0 DEF Entered, Sealed, Opening
  <1>4. Published'
    BY DEF Published, Repairable
  <1>5. Writers'
    BY <1>0 DEF Writers, Generation, IdentityTypeOK, Opening
  <1> QED
    BY <1>2, <1>3, <1>4, <1>5

LEMMA FailKeeps ==
    ASSUME IdentityInvariant, NEW p \in Proc, at[p] \in Opening, Fail(p)
    PROVE  IdentityInvariant'
  <1>1. /\ key' \in [Proc -> Proc \cup {None}]
        /\ loaded' \in [Proc -> Identity \cup {None}]
        /\ rotating' \in [Proc -> BOOLEAN] /\ rotating'[p] = FALSE
    BY DEF Fail, Leave, IdentityInvariant, IdentityTypeOK
  <1> QED
    BY <1>1, MoveKeeps, IdentityAssumption DEF Fail, Leave

LEMMA IdentityInvariantStep ==
    ASSUME IdentityInvariant, [IdentityNext]_identityVars
    PROVE  IdentityInvariant'
  <1> USE DEF IdentityInvariant
  <1>1. ASSUME NEW p \in Proc, LoadMasterKey(p) PROVE IdentityInvariant'
    <2>1. /\ masterKey' \in Proc /\ masterKey' # None
          /\ masterKey # None => masterKey' = masterKey
      BY <1>1, IdentityAssumption DEF LoadMasterKey, IdentityTypeOK
    <2>2. secret # None => masterKey # None
      BY SecretFields, IdentityAssumption DEF Sealed, IdentityTypeOK
    <2>3. IdentityTypeOK'
      BY <1>1, <2>1 DEF LoadMasterKey, Enter, IdentityTypeOK
    <2>4. Entered'
      BY <1>1 DEF LoadMasterKey, Enter, Entered, IdentityTypeOK, Opening
    <2>5. Sealed'
      BY <1>1, <2>1, <2>2 DEF LoadMasterKey, Enter, Sealed, IdentityTypeOK, Opening
    <2>6. Published'
      BY <1>1 DEF LoadMasterKey, Published, Repairable, OlderPublication
    <2>7. Writers'
      BY <1>1 DEF LoadMasterKey, Enter, Writers, Generation, IdentityTypeOK, Opening
    <2> QED
      BY <2>3, <2>4, <2>5, <2>6, <2>7
  <1>2. ASSUME NEW p \in Proc, NEW rotate \in BOOLEAN, BeginOpen(p, rotate)
        PROVE  IdentityInvariant'
    <2>1. key[p] = masterKey /\ masterKey # None
      BY <1>2 DEF BeginOpen, Sealed
    <2>2. rotating' \in [Proc -> BOOLEAN] /\ rotating'[p] = rotate
          /\ \A q \in Proc : q # p => rotating'[q] = rotating[q]
      BY <1>2 DEF BeginOpen, IdentityTypeOK
    <2> QED
      BY <1>2, <2>1, <2>2, MoveKeeps DEF BeginOpen, IdentityTypeOK
  <1>3. ASSUME NEW p \in Proc, CreateIdentity(p) PROVE IdentityInvariant'
    <2>1. rotating[p] => First(p).generation < MaxGeneration
      BY <1>3, FirstIsIdentity DEF CreateIdentity, Writers, Generation
    <2> QED
      BY <1>3, <2>1, FirstIsIdentity, PersistKeeps
      DEF CreateIdentity, Opening, IdentityTypeOK
  <1>4. ASSUME NEW p \in Proc, PublishMetadata(p) PROVE IdentityInvariant'
    <2>1. secret # None /\ loaded[p] = secret.identity
      BY <1>4 DEF PublishMetadata, Writers
    <2>2. loaded' = [loaded EXCEPT ![p] = secret.identity]
      BY <1>4, <2>1 DEF PublishMetadata, IdentityTypeOK
    <2> QED
      BY <1>4, <2>1, <2>2, PublishKeeps DEF PublishMetadata, Opening
  <1>5. ASSUME NEW p \in Proc, LoadIdentity(p) PROVE IdentityInvariant'
    <2>1. CASE Decryptable(p) /\ Repairable
      BY <1>5, <2>1, PublishKeeps DEF LoadIdentity, Decryptable, Opening
    <2>2. CASE ~(Decryptable(p) /\ Repairable)
      BY <1>5, <2>2, FailKeeps DEF LoadIdentity, Opening
    <2> QED
      BY <2>1, <2>2
  <1>6. ASSUME NEW p \in Proc, RotateIdentity(p) PROVE IdentityInvariant'
    <2>1. secret \in Secret /\ metadata = secret.identity /\ Generation < MaxGeneration
      BY <1>6 DEF RotateIdentity, Writers, IdentityTypeOK
    <2>2. rotating' \in [Proc -> BOOLEAN] /\ rotating'[p] = FALSE
          /\ \A q \in Proc : q # p => rotating'[q] = rotating[q]
      BY <1>6 DEF RotateIdentity, IdentityTypeOK
    <2>3. at[p] \in Opening /\ PersistSecret(p, Successor(p)) /\ secret # None
      BY <1>6, <2>1, SecretFields DEF RotateIdentity, Opening
    <2> QED
      BY <2>1, <2>2, <2>3, SuccessorIsIdentity, PersistKeeps
  <1>7. ASSUME NEW p \in Proc, ReturnIdentity(p) PROVE IdentityInvariant'
    <2>1. loaded[p] # None
      BY <1>7, SecretFields DEF ReturnIdentity, Writers, IdentityTypeOK
    <2>2. /\ key' \in [Proc -> Proc \cup {None}]
          /\ rotating' \in [Proc -> BOOLEAN] /\ rotating'[p] = FALSE
          /\ \A q \in Proc : q # p => key'[q] = key[q] /\ rotating'[q] = rotating[q]
      BY <1>7 DEF ReturnIdentity, Leave, IdentityTypeOK
    <2> QED
      BY <1>7, <2>1, <2>2, MoveKeeps DEF ReturnIdentity, Leave, IdentityTypeOK, Opening
  <1>8. ASSUME NEW p \in Proc, IdentityWriteFails(p) PROVE IdentityInvariant'
    BY <1>8, FailKeeps DEF IdentityWriteFails
  <1>9. ASSUME NEW p \in Proc, CloseIdentity(p) PROVE IdentityInvariant'
    <2>1. /\ key' \in [Proc -> Proc \cup {None}]
          /\ loaded' \in [Proc -> Identity \cup {None}]
          /\ ~rotating[p]
          /\ \A q \in Proc : q # p => key'[q] = key[q] /\ loaded'[q] = loaded[q]
      BY <1>9 DEF CloseIdentity, IdentityTypeOK, Writers, Opening
    <2> QED
      BY <1>9, <2>1, MoveKeeps DEF CloseIdentity, IdentityTypeOK
  <1>10. ASSUME NEW p \in Proc, CrashInOpen(p) PROVE IdentityInvariant'
    <2>1. /\ key' \in [Proc -> Proc \cup {None}]
          /\ loaded' \in [Proc -> Identity \cup {None}]
          /\ rotating' \in [Proc -> BOOLEAN] /\ rotating'[p] = FALSE
          /\ \A q \in Proc : q # p => /\ key'[q] = key[q] /\ loaded'[q] = loaded[q]
                                      /\ rotating'[q] = rotating[q]
      BY <1>10 DEF CrashInOpen, IdentityTypeOK
    <2> QED
      BY <1>10, <2>1, MoveKeeps DEF CrashInOpen
  <1>11. CASE TakeOverIdentity
    BY <1>11, IdentityAssumption
    DEF TakeOverIdentity, identityFiles, IdentityTypeOK, Entered, Sealed, Published,
        Repairable, OlderPublication, Writers, Generation
  <1>12. CASE UNCHANGED identityVars
    BY <1>12
    DEF identityVars, identityFiles, IdentityTypeOK, Entered, Sealed, Published,
        Repairable, OlderPublication, Writers, Generation
  <1> QED
    BY <1>1, <1>2, <1>3, <1>4, <1>5, <1>6, <1>7, <1>8, <1>9, <1>10, <1>11, <1>12
    DEF IdentityNext, OpenStep

\* Types, and: however creation and rotation are interrupted, by failing writes or
\* crashes, the secret opens with the key in the vault and the metadata can be
\* repaired from it.
THEOREM IdentityStaysRecoverable == IdentitySpec => [](IdentityTypeOK /\ IdentityRecoverable)
  <1>1. IdentityInvariant => IdentityTypeOK /\ IdentityRecoverable
    BY DEF IdentityInvariant, IdentityRecoverable, Sealed, Published
  <1> QED
    BY IdentityInvariantInit, IdentityInvariantStep, <1>1, PTL DEF IdentitySpec

-----------------------------------------------------------------------------
(* The files implement KeyLineage *)

Current == IF secret = None THEN None ELSE secret.identity
InUse == {loaded[p] : p \in {q \in Proc : at[q] = "ready"}}

\* A step that leaves the secret alone and gives no caller an identity.
LEMMA QuietStep ==
    ASSUME UNCHANGED secret,
           \A p \in Proc : at'[p] = "ready" => at[p] = "ready" /\ loaded'[p] = loaded[p]
    PROVE  Lineage!Forget
  BY DEF Lineage!Forget

LEMMA LineageStep ==
    ASSUME IdentityInvariant, [IdentityNext]_identityVars
    PROVE  [Lineage!Next]_(Lineage!lineage)
  <1> USE DEF IdentityInvariant
  <1>1. ASSUME NEW p \in Proc, CreateIdentity(p) PROVE Lineage!Create
    <2>1. secret' # None /\ secret'.identity = First(p)
      <3>1. key[p] \in Proc /\ secret' \in Secret
        BY <1>1, FirstIsIdentity, IdentityAssumption
        DEF CreateIdentity, PersistSecret, Sealed, IdentityTypeOK, Opening, Secret
      <3> QED
        BY <1>1, <3>1, SecretFields DEF CreateIdentity, PersistSecret
    <2>2. InUse' = InUse
      BY <1>1 DEF CreateIdentity, PersistSecret, Enter, InUse, IdentityTypeOK
    <2> QED
      BY <1>1, <2>1, <2>2, FirstIsIdentity DEF CreateIdentity, Lineage!Create, InUse
  <1>2. ASSUME NEW p \in Proc, RotateIdentity(p) PROVE Lineage!Rotate
    <2>1. secret \in Secret /\ secret # None /\ Generation < MaxGeneration
      BY <1>2, SecretFields DEF RotateIdentity, Writers, IdentityTypeOK
    <2>2. secret' # None /\ secret'.identity = Successor(p)
      <3>1. key[p] \in Proc /\ secret' \in Secret
        BY <1>2, <2>1, SuccessorIsIdentity, IdentityAssumption
        DEF RotateIdentity, PersistSecret, Sealed, IdentityTypeOK, Opening, Secret
      <3> QED
        BY <1>2, <3>1, SecretFields DEF RotateIdentity, PersistSecret
    <2>3. InUse' = InUse
      BY <1>2 DEF RotateIdentity, PersistSecret, Enter, InUse, IdentityTypeOK
    <2> QED
      BY <2>1, <2>2, <2>3, SuccessorIsIdentity, SecretFields DEF Lineage!Rotate, InUse
  <1>3. ASSUME NEW p \in Proc, ReturnIdentity(p) PROVE Lineage!Learn
    <2>1. secret # None /\ loaded[p] = secret.identity /\ secret \in Secret
      BY <1>3 DEF ReturnIdentity, Writers, IdentityTypeOK
    <2>2. InUse' = InUse \cup {loaded[p]}
      BY <1>3 DEF ReturnIdentity, Leave, Enter, InUse, IdentityTypeOK
    <2> QED
      BY <1>3, <2>1, <2>2, SecretFields
      DEF ReturnIdentity, Leave, identityFiles, Lineage!Learn, InUse
  <1>4. ASSUME NEW p \in Proc,
               \/ LoadMasterKey(p) \/ \E rotate \in BOOLEAN : BeginOpen(p, rotate)
               \/ PublishMetadata(p) \/ CloseIdentity(p) \/ CrashInOpen(p)
               \/ IdentityWriteFails(p)
        PROVE  Lineage!Forget
    BY <1>4, QuietStep
    DEF LoadMasterKey, BeginOpen, PublishMetadata, CloseIdentity, CrashInOpen,
        IdentityWriteFails, Fail, Leave, Enter, identityFiles, IdentityTypeOK, Opening
  <1>5. ASSUME NEW p \in Proc, LoadIdentity(p) PROVE Lineage!Forget
    BY <1>5, QuietStep
    DEF LoadIdentity, Fail, Leave, Enter, identityFiles, IdentityTypeOK, Opening
  <1>6. ASSUME TakeOverIdentity \/ UNCHANGED identityVars
        PROVE  Lineage!Forget
    BY <1>6, QuietStep DEF TakeOverIdentity, identityVars, identityFiles
  <1>7. Lineage!Create \/ Lineage!Rotate \/ Lineage!Learn \/ Lineage!Forget
    <2> HIDE DEF IdentityInvariant
    <2>1. CASE TakeOverIdentity \/ UNCHANGED identityVars
      BY <2>1, <1>6
    <2>2. ASSUME NEW p \in Proc,
                 \/ LoadMasterKey(p) \/ \E rotate \in BOOLEAN : BeginOpen(p, rotate)
                 \/ OpenStep(p) \/ CloseIdentity(p) \/ CrashInOpen(p)
          PROVE  Lineage!Create \/ Lineage!Rotate \/ Lineage!Learn \/ Lineage!Forget
      BY <2>2, <1>1, <1>2, <1>3, <1>4, <1>5 DEF OpenStep
    <2> QED
      BY <2>1, <2>2 DEF IdentityNext
  <1> QED
    BY <1>7 DEF Lineage!Next

\* The endpoint is one line of key generations, each drawn once, and a caller is only
\* given the current one, whatever processes race, fail or crash.
THEOREM IdentityImplementsLineage == IdentitySpec => LineageSpec
  <1>1. IdentityInit => Lineage!Init
    BY DEF IdentityInit, Lineage!Init
  <1> QED
    BY <1>1, IdentityInvariantInit, IdentityInvariantStep, LineageStep, PTL
    DEF IdentitySpec, LineageSpec, Lineage!Spec
=============================================================================
