---------------------- MODULE WorkspaceProductionProofs ----------------------
(***************************************************************************)
(* Theorems about WorkspaceProduction, and through it about LocalWorkspace *)
(* and EndpointIdentity as they are composed there, for any number of      *)
(* processes, calls, rotations, mode changes and crashes.                  *)
(***************************************************************************)
EXTENDS WorkspaceProduction, EndpointIdentityProofs, FiniteSetTheorems

-----------------------------------------------------------------------------
(* Identities that the secret has or had *)

Known(i) ==
    /\ secret # None
    /\ i.endpoint = secret.identity.endpoint
    /\ i.generation <= secret.identity.generation
    /\ i.generation = secret.identity.generation => i = secret.identity

\* What a process holds is known, and only who opens the identity has its lease.
Remembers ==
    \A p \in Proc : /\ loaded[p] # None => Known(loaded[p])
                    /\ identityLease = p => at[p] \in Opening

\* The secret stays, is the first one, or is a successor; a process keeps what it
\* holds, loses it, or gets what the secret then says.
LEMMA SecretMoves ==
    ASSUME IdentityInvariant, Remembers, [IdentityNext]_identityVars
    PROVE  /\ \/ secret' = secret
              \/ secret = None
              \/ /\ secret \in Secret /\ secret' \in Secret
                 /\ secret'.identity.endpoint = secret.identity.endpoint
                 /\ secret'.identity.generation = secret.identity.generation + 1
           /\ \A q \in Proc : \/ loaded'[q] = loaded[q] \/ loaded'[q] = None
                              \/ secret' # None /\ loaded'[q] = secret'.identity
           /\ \A q \in Proc : identityLease' = q => at'[q] \in Opening
  <1> DEFINE Goal ==
        /\ \/ secret' = secret
           \/ secret = None
           \/ /\ secret \in Secret /\ secret' \in Secret
              /\ secret'.identity.endpoint = secret.identity.endpoint
              /\ secret'.identity.generation = secret.identity.generation + 1
        /\ \A q \in Proc : \/ loaded'[q] = loaded[q] \/ loaded'[q] = None
                           \/ secret' # None /\ loaded'[q] = secret'.identity
        /\ \A q \in Proc : identityLease' = q => at'[q] \in Opening
  <1> USE IdentityAssumption DEF IdentityInvariant, IdentityTypeOK, Remembers, Enter, identityFiles
  <1>1. ASSUME NEW p \in Proc, LoadMasterKey(p) PROVE Goal
    BY <1>1 DEF LoadMasterKey, Opening
  <1>2. ASSUME NEW p \in Proc, NEW rotate \in BOOLEAN, BeginOpen(p, rotate) PROVE Goal
    BY <1>2 DEF BeginOpen, Opening
  <1>3. ASSUME NEW p \in Proc, CreateIdentity(p) PROVE Goal
    <2>1. secret' # None /\ secret'.identity = First(p)
      <3>1. key[p] \in Proc /\ First(p) \in Identity
        BY <1>3, FirstIsIdentity DEF CreateIdentity, Sealed, Opening
      <3>2. secret' = [identity |-> First(p), sealed |-> key[p]]
        BY <1>3 DEF CreateIdentity, PersistSecret
      <3> QED
        BY <3>1, <3>2 DEF Secret
    <2>2. loaded' = [loaded EXCEPT ![p] = First(p)] /\ secret = None
          /\ at' = [at EXCEPT ![p] = "publishing"] /\ identityLease' = identityLease
      BY <1>3 DEF CreateIdentity, PersistSecret
    <2> QED
      BY <2>1, <2>2 DEF Opening
  <1>4. ASSUME NEW p \in Proc, PublishMetadata(p) PROVE Goal
    BY <1>4 DEF PublishMetadata, Opening
  <1>5. ASSUME NEW p \in Proc, LoadIdentity(p) PROVE Goal
    BY <1>5 DEF LoadIdentity, Decryptable, Fail, Leave, Opening
  <1>6. ASSUME NEW p \in Proc, RotateIdentity(p) PROVE Goal
    <2>1. secret \in Secret /\ Generation < MaxGeneration /\ key[p] \in Proc
      BY <1>6 DEF RotateIdentity, Writers, Sealed, Opening
    <2>2. secret' = [identity |-> Successor(p), sealed |-> key[p]]
      BY <1>6 DEF RotateIdentity, PersistSecret
    <2>3. secret' \in Secret /\ secret' # None /\ secret'.identity = Successor(p)
      BY <2>1, <2>2, SuccessorIsIdentity DEF Secret
    <2>4. loaded' = [loaded EXCEPT ![p] = Successor(p)] /\ identityLease' = identityLease
          /\ at' = [at EXCEPT ![p] = "publishing"]
      BY <1>6 DEF RotateIdentity, PersistSecret
    <2> QED
      BY <2>1, <2>3, <2>4, SuccessorIsIdentity DEF Opening
  <1>7. ASSUME NEW p \in Proc, ReturnIdentity(p) PROVE Goal
    BY <1>7 DEF ReturnIdentity, Leave, Opening
  <1>8. ASSUME NEW p \in Proc, IdentityWriteFails(p) PROVE Goal
    BY <1>8 DEF IdentityWriteFails, Fail, Leave
  <1>9. ASSUME NEW p \in Proc, CloseIdentity(p) PROVE Goal
    BY <1>9 DEF CloseIdentity, Opening
  <1>10. ASSUME NEW p \in Proc, CrashInOpen(p) PROVE Goal
    BY <1>10 DEF CrashInOpen
  <1>11. CASE TakeOverIdentity
    BY <1>11 DEF TakeOverIdentity
  <1>12. CASE UNCHANGED identityVars
    BY <1>12 DEF identityVars
  <1> QED
    BY <1>1, <1>2, <1>3, <1>4, <1>5, <1>6, <1>7, <1>8, <1>9, <1>10, <1>11, <1>12
    DEF IdentityNext, OpenStep

LEMMA KnownStaysKnown ==
    ASSUME IdentityInvariant, Remembers, [IdentityNext]_identityVars
    PROVE  /\ Remembers'
           /\ \A i \in Identity : Known(i) => Known(i)'
  <1>1. \A i \in Identity : Known(i) => Known(i)'
    <2> SUFFICES ASSUME NEW i \in Identity, Known(i) PROVE Known(i)'
      OBVIOUS
    <2>1. secret # None /\ secret \in Secret
      BY DEF Known, IdentityInvariant, IdentityTypeOK
    <2>2. i.generation \in Nat /\ secret.identity.generation \in Nat
      BY <2>1, SecretFields DEF Identity
    <2>3. CASE secret' = secret
      BY <2>3 DEF Known
    <2>4. CASE secret' # secret
      <3>1. /\ secret' \in Secret
            /\ secret'.identity.endpoint = secret.identity.endpoint
            /\ secret'.identity.generation = secret.identity.generation + 1
        BY <2>1, <2>4, SecretMoves
      <3> QED
        BY <2>2, <3>1, SecretFields DEF Known
    <2> QED
      BY <2>3, <2>4
  <1>2. ASSUME NEW p \in Proc, loaded'[p] # None PROVE Known(loaded[p])'
    <2>1. CASE loaded'[p] = loaded[p]
      <3>1. loaded[p] \in Identity /\ Known(loaded[p])
        BY <1>2, <2>1 DEF IdentityInvariant, IdentityTypeOK, Remembers
      <3> QED
        BY <2>1, <3>1, <1>1 DEF Known
    <2>2. CASE secret' # None /\ loaded'[p] = secret'.identity
      <3>1. secret' \in Secret
        BY <2>2, IdentityInvariantStep DEF IdentityInvariant, IdentityTypeOK
      <3>2. secret'.identity.generation <= secret'.identity.generation
        BY <3>1, SecretFields
      <3> QED
        BY <2>2, <3>2 DEF Known
    <2> QED
      BY <1>2, <2>1, <2>2, SecretMoves
  <1> QED
    BY <1>1, <1>2, SecretMoves DEF Remembers

-----------------------------------------------------------------------------
(* What a step does to the identity and to the workspace *)

Loads(p) == LoadWorkspace(p) /\ verified' \subseteq verified \cup {p}
Creates(p) == /\ Ready(p) /\ workspace = None
              /\ workspace' = [id |-> p, identity |-> loaded[p], software |-> p]
              /\ verified' = verified

\* A step of the composition is one of the identity that leaves the workspace
\* alone, or one of the workspace that leaves the identity alone.  A crash is the
\* identity's own crash or close, by whether it comes while the identity opens.
LEMMA ComposedStep ==
    ASSUME IdentityInvariant, Remembers, [Next]_vars
    PROVE  /\ [IdentityNext]_identityVars
           /\ \/ workspace' = workspace /\ verified' \subseteq verified
              \/ /\ UNCHANGED identityVars
                 /\ \E p \in Proc : Loads(p) \/ Creates(p) \/ UpdateSoftware(p)
  <1> DEFINE Alone == workspace' = workspace /\ verified' \subseteq verified
             Quietly == UNCHANGED identityVars
             Uses == \E p \in Proc : Loads(p) \/ Creates(p) \/ UpdateSoftware(p)
             Goal == [IdentityNext]_identityVars /\ (Alone \/ (Quietly /\ Uses))
  <1>1. ASSUME NEW p \in Proc, IdentityStep(p) PROVE Goal
    <2>1. IdentityNext
      BY <1>1 DEF IdentityStep, IdentityNext
    <2>2. Alone
      BY <1>1 DEF IdentityStep, workspaceVars
    <2> QED
      BY <2>1, <2>2
  <1>2. ASSUME NEW p \in Proc, WorkspaceStep(p) PROVE Goal
    BY <1>2
    DEF WorkspaceStep, CreateWorkspace, VerifyForSoftware, Loads, Creates
  <1>3. ASSUME NEW p \in Proc, UseWorkspace(p) PROVE Goal
    BY <1>3 DEF UseWorkspace, WithWorkspace, Loads
  <1>4. ASSUME UNCHANGED <<identityVars, workspaceVars>> PROVE Goal
    <2>1. UNCHANGED identityVars /\ Alone
      BY <1>4 DEF workspaceVars
    <2> QED
      BY <2>1
  <1>5. ASSUME NEW p \in Proc, OperationStep(p) PROVE Goal
    <2>1. UseWorkspace(p) \/ UNCHANGED <<identityVars, workspaceVars>>
      BY <1>5
      DEF OperationStep, PassStep, RecoveryStep, ChangeMode, PauseStopsPass, PassMayScan,
          Scan, ProduceOne, ProduceInterrupted, FinishPass, LookAtEvidence, LookAtMode,
          Look, CountEvents, ListReceipts, RepairReceipt, Recount, OperationFails, Return,
          Throw
    <2> QED
      BY <2>1, <1>3, <1>4
  <1>6. ASSUME NEW p \in Proc, BeginPass(p) PROVE Goal
    BY <1>6, <1>4 DEF BeginPass, Begin
  <1>7. ASSUME NEW p \in Proc, BeginRecover(p) PROVE Goal
    BY <1>7 DEF BeginRecover, Loads
  <1>8. ASSUME NEW p \in Proc, NEW mode \in Mode, BeginSetMode(p, mode) PROVE Goal
    BY <1>8, <1>4 DEF BeginSetMode, Begin
  <1>9. ASSUME NEW p \in Proc, Crash(p) PROVE Goal
    <2>1. Alone
      BY <1>9 DEF Crash
    <2>2. CASE at[p] \in Opening
      <3>1. identityLease = p
        BY <2>2 DEF IdentityInvariant, Entered
      <3>2. CrashInOpen(p)
        BY <1>9, <2>2, <3>1 DEF Crash, CrashInOpen, Enter
      <3> QED
        BY <2>1, <3>2 DEF IdentityNext
    <2>3. CASE at[p] \notin Opening
      <3>1. /\ at[p] \in {"keyed", "ready"} /\ identityLease # p /\ ~rotating[p]
            /\ rotating \in [Proc -> BOOLEAN]
        BY <1>9, <2>3 DEF Crash, Remembers, IdentityInvariant, IdentityTypeOK, Writers
      <3>2. rotating' = rotating
        BY <1>9, <3>1 DEF Crash
      <3>3. CloseIdentity(p)
        BY <1>9, <3>1, <3>2 DEF Crash, CloseIdentity, Enter
      <3> QED
        BY <2>1, <3>3 DEF IdentityNext
    <2> QED
      BY <2>2, <2>3
  <1>10. CASE TakeOvers
    BY <1>10, <1>4 DEF TakeOvers, TakeOverControl, IdentityNext, workspaceVars
  <1>11. CASE Quarantine
    BY <1>11, <1>4 DEF Quarantine
  <1>12. CASE UNCHANGED vars
    BY <1>12, <1>4 DEF vars
  <1> QED
    BY <1>1, <1>2, <1>5, <1>6, <1>7, <1>8, <1>9, <1>10, <1>11, <1>12 DEF Next

-----------------------------------------------------------------------------
(* The workspace follows the identity *)

\* Who is between the sections of a software update has loaded a workspace.
WorkspaceInvariant ==
    /\ IdentityInvariant /\ Remembers /\ WorkspaceTypeOK
    /\ workspace # None => Known(workspace.identity)
    /\ verified # {} => workspace # None

LEMMA WorkspaceFields ==
    ASSUME NEW w \in Workspace
    PROVE  w # None /\ w.identity \in Identity /\ w.id \in Proc /\ w.software \in Proc
  BY WorkspaceAssumption DEF Workspace

\* What is loaded, or created, is of an identity that is known.
LEMMA LoadedWorkspace ==
    ASSUME WorkspaceInvariant, NEW p \in Proc,
           \/ LoadWorkspace(p)
           \/ Creates(p)
    PROVE  /\ workspace' \in Workspace /\ Known(loaded[p])
           /\ workspace'.identity = loaded[p]
  <1>1. loaded[p] \in Identity /\ loaded[p] # None /\ Known(loaded[p])
    BY DEF WorkspaceInvariant, IdentityInvariant, IdentityTypeOK, Writers, Remembers, Ready,
           LoadWorkspace, Creates
  <1>2. CASE LoadWorkspace(p)
    <2>1. workspace \in Workspace
      BY <1>2 DEF LoadWorkspace, Acceptable, WorkspaceInvariant, WorkspaceTypeOK
    <2> QED
      BY <1>1, <1>2, <2>1 DEF LoadWorkspace, Workspace
  <1>3. CASE Creates(p)
    BY <1>1, <1>3 DEF Creates, Workspace
  <1> QED
    BY <1>2, <1>3

LEMMA WorkspaceInvariantInit == Init => WorkspaceInvariant
  <1> SUFFICES ASSUME Init PROVE WorkspaceInvariant
    OBVIOUS
  <1>1. IdentityInvariant
    BY IdentityInvariantInit DEF Init
  <1> QED
    BY <1>1, IdentityAssumption
    DEF Init, IdentityInit, WorkspaceInit, WorkspaceInvariant, Remembers, WorkspaceTypeOK

LEMMA WorkspaceInvariantStep ==
    ASSUME WorkspaceInvariant, [Next]_vars
    PROVE  WorkspaceInvariant'
  <1> USE DEF WorkspaceInvariant
  <1>1. /\ IdentityInvariant' /\ Remembers'
        /\ \A i \in Identity : Known(i) => Known(i)'
    BY ComposedStep, IdentityInvariantStep, KnownStaysKnown
  <1>2. CASE workspace' = workspace /\ verified' \subseteq verified
    <2>1. workspace # None => workspace.identity \in Identity
      BY WorkspaceFields DEF WorkspaceTypeOK
    <2>2. workspace' # None => Known(workspace.identity)'
      BY <1>1, <1>2, <2>1 DEF Known
    <2> QED
      BY <1>1, <1>2, <2>2 DEF WorkspaceTypeOK
  <1>3. ASSUME UNCHANGED identityVars, NEW p \in Proc, Loads(p) \/ Creates(p)
        PROVE  WorkspaceInvariant'
    <2>1. /\ workspace' \in Workspace /\ workspace'.identity = loaded[p] /\ Known(loaded[p])
          /\ verified' \subseteq verified \cup {p}
      BY <1>3, LoadedWorkspace DEF Loads, Creates
    <2>2. Known(workspace.identity)'
      BY <1>3, <2>1 DEF Known, identityVars, identityFiles
    <2> QED
      BY <1>1, <2>1, <2>2, WorkspaceFields DEF WorkspaceTypeOK
  <1>4. ASSUME UNCHANGED identityVars, NEW p \in Proc, UpdateSoftware(p)
        PROVE  WorkspaceInvariant'
    <2>1. workspace \in Workspace /\ Known(workspace.identity)
      BY <1>4 DEF UpdateSoftware, WorkspaceTypeOK
    <2>2. workspace' \in Workspace /\ workspace'.identity = workspace.identity
      BY <1>4, <2>1 DEF UpdateSoftware, Workspace
    <2>3. Known(workspace.identity)'
      BY <1>4, <2>1, <2>2 DEF Known, identityVars, identityFiles
    <2> QED
      BY <1>1, <1>4, <2>2, <2>3, WorkspaceFields DEF UpdateSoftware, WorkspaceTypeOK
  <1> QED
    BY <1>2, <1>3, <1>4, ComposedStep

LEMMA WorkspaceAlways == Spec => []WorkspaceInvariant
  BY WorkspaceInvariantInit, WorkspaceInvariantStep, PTL DEF Spec

\* What is kept of the workspace by one step.
LEMMA WorkspaceKeeps ==
    ASSUME WorkspaceInvariant, [Next]_vars, workspace # None
    PROVE  /\ workspace' # None
           /\ workspace'.id = workspace.id
           /\ workspace'.identity.endpoint = workspace.identity.endpoint
           /\ \/ workspace'.identity = workspace.identity
              \/ workspace'.identity.generation > workspace.identity.generation
  <1> USE DEF WorkspaceInvariant
  <1>1. workspace \in Workspace /\ workspace.identity.generation \in Nat
    BY WorkspaceFields DEF WorkspaceTypeOK, Identity
  <1>2. ASSUME NEW p \in Proc, LoadWorkspace(p)
        PROVE  /\ workspace'.id = workspace.id
               /\ workspace'.identity.endpoint = workspace.identity.endpoint
               /\ \/ workspace'.identity = workspace.identity
                  \/ workspace'.identity.generation > workspace.identity.generation
    <2>1. loaded[p] \in Identity /\ loaded[p].generation \in Nat
      BY <1>2 DEF LoadWorkspace, Ready, IdentityInvariant, IdentityTypeOK, Writers, Identity
    <2>2. workspace' = [workspace EXCEPT !.identity = loaded[p]] /\ Acceptable(p)
      BY <1>2 DEF LoadWorkspace
    <2>3. workspace'.id = workspace.id /\ workspace'.identity = loaded[p]
      BY <1>1, <2>2 DEF Workspace
    <2> QED
      BY <1>1, <2>1, <2>2, <2>3 DEF Acceptable
  <1>3. ASSUME NEW p \in Proc, UpdateSoftware(p)
        PROVE  workspace'.id = workspace.id /\ workspace'.identity = workspace.identity
    BY <1>1, <1>3 DEF UpdateSoftware, Workspace
  <1>4. workspace' # None
    BY WorkspaceInvariantStep, ComposedStep, LoadedWorkspace, WorkspaceFields, <1>1, <1>3
    DEF Loads, UpdateSoftware, Workspace, Creates
  <1> QED
    BY <1>2, <1>3, <1>4, ComposedStep DEF Loads, Creates

-----------------------------------------------------------------------------
(* Theorems about identity and workspace *)

\* The composition is a behaviour of the endpoint identity, and of its abstract
\* lineage: workspace, production and the crashes of whole processes do nothing
\* to the identity that EndpointIdentity does not allow.
THEOREM ProductionUsesLineage == Spec => IdentitySpec /\ LineageSpec
  <1>1. Init => IdentityInit
    BY DEF Init
  <1>2. WorkspaceInvariant /\ [Next]_vars => [IdentityNext]_identityVars
    BY ComposedStep DEF WorkspaceInvariant
  <1>3. Spec => IdentitySpec
    BY <1>1, <1>2, WorkspaceAlways, PTL DEF Spec, IdentitySpec
  <1> QED
    BY <1>3, IdentityImplementsLineage

\* In the composition as well, the next start can open the identity.
THEOREM ComposedIdentityRecoverable == Spec => []IdentityRecoverable
  <1>1. IdentityTypeOK /\ IdentityRecoverable => IdentityRecoverable
    OBVIOUS
  <1> QED
    BY <1>1, ProductionUsesLineage, IdentityStaysRecoverable, PTL

\* The workspace file is bound to the endpoint and to an identity that the secret
\* has or had, although processes with an old identity go on working on it.
THEOREM WorkspaceStaysBound == Spec => []WorkspaceBoundToIdentity
  <1>1. WorkspaceInvariant => WorkspaceBoundToIdentity
    BY DEF WorkspaceInvariant, WorkspaceBoundToIdentity, Known
  <1> QED
    BY <1>1, WorkspaceAlways, PTL

\* The workspace file keeps its id and endpoint and never goes back to an older
\* generation or to another key pair of its generation.
THEOREM WorkspaceOnlyAdvances == Spec => WorkspaceNeverGoesBack
  <1>1. WorkspaceInvariant /\ [Next]_vars =>
          [workspace # None =>
            /\ workspace' # None
            /\ workspace'.id = workspace.id
            /\ workspace'.identity.endpoint = workspace.identity.endpoint
            /\ workspace'.identity = workspace.identity
                  \/ workspace'.identity.generation > workspace.identity.generation]_workspace
    BY WorkspaceKeeps
  <1> QED
    BY <1>1, WorkspaceAlways, PTL DEF Spec, WorkspaceNeverGoesBack

-----------------------------------------------------------------------------
(* Production: where a process is in its operation, and what it then holds *)

ProductionTypes ==
    /\ lifecycle \in [mode : Mode, revision : 1 .. MaxRevision] \cup {None}
    /\ control \in Proc \cup {Free, Orphan}
    /\ events \subseteq receipts /\ receipts \subseteq Call
    /\ quarantined \in BOOLEAN
    /\ step \in [Proc -> Step]
    /\ job \in [Proc -> Job]
    /\ crashes \in 0 .. MaxCrashes

Controlled == {"change", "inspect", "scan", "produce"}
Recovering == {"snapshot", "count", "list", "repair", "wait"}

\* A mode change and a pass have the control lease from their first section to
\* their last, and what a pass found active stays active until it ends.
Controls(p) ==
    /\ step[p] \in Controlled => control = p
    /\ step[p] \in {"scan", "produce"} => ~Paused

\* The operation that a step belongs to.
Belongs(p) ==
    /\ step[p] = "change" => job[p].op \in Mode
    /\ step[p] \in {"inspect", "scan", "produce"} => job[p].op \in {"produce", "recover"}
    /\ step[p] \in Recovering => job[p].op = "recover"

\* What a recovery has published itself is counted: by the difference of the two
\* counts while it repairs, whatever others publish meanwhile, and by its result after.
Counted(p) ==
    /\ step[p] \in {"snapshot", "count"} => job[p].wrote = 0 /\ job[p].repaired = 0
    /\ step[p] \in {"list", "repair"} =>
           job[p].before + job[p].wrote <= Cardinality(events)
    /\ step[p] = "repair" => job[p].todo \subseteq receipts
    /\ step[p] \in {"wait", "inspect", "scan", "produce", "done"} =>
           job[p].wrote <= job[p].repaired
    /\ step[p] \notin {"produce", "done"} => ~job[p].existing
    /\ step[p] = "done" /\ job[p].op = "recover" /\ job[p].outcome # "reconciled" =>
           job[p].wrote = 0 /\ ~job[p].existing

Fit(p) == Controls(p) /\ Belongs(p) /\ Counted(p)

ProductionInvariant ==
    /\ ProductionTypes
    /\ RevisionCountsTransitions
    /\ \A p \in Proc : Fit(p)

LEMMA JobFields ==
    ASSUME NEW j \in Job
    PROVE  /\ j.op \in Operation /\ j.seen \in SUBSET Sight /\ j.todo \in SUBSET Call
           /\ j.before \in Nat /\ j.repaired \in Nat /\ j.wrote \in Nat
           /\ j.existing \in BOOLEAN /\ j.outcome \in Outcome
  BY DEF Job

LEMMA JobIsJob ==
    ASSUME NEW op \in Operation
    PROVE  /\ NoJob \in Job /\ [NoJob EXCEPT !.op = op] \in Job
           /\ [NoJob EXCEPT !.op = op].op = op
           /\ [NoJob EXCEPT !.op = op].wrote = 0 /\ [NoJob EXCEPT !.op = op].repaired = 0
           /\ ~[NoJob EXCEPT !.op = op].existing
  BY DEF NoJob, Job, Operation, Outcome

\* More events have no smaller count.
LEMMA EventsCounted ==
    ASSUME ProductionTypes
    PROVE  IsFiniteSet(events) /\ Cardinality(events) \in Nat
  BY ProductionAssumption, FS_Subset, FS_CardinalityType DEF ProductionTypes

LEMMA EventsGrow ==
    ASSUME ProductionTypes', events \subseteq events'
    PROVE  /\ Cardinality(events) \in Nat /\ Cardinality(events') \in Nat
           /\ Cardinality(events) <= Cardinality(events')
  <1>1. IsFiniteSet(events')
    BY ProductionAssumption, FS_Subset DEF ProductionTypes
  <1>2. IsFiniteSet(events) /\ Cardinality(events) <= Cardinality(events')
    BY <1>1, FS_Subset
  <1> QED
    BY <1>1, <1>2, FS_CardinalityType

\* A step of p leaves to the others what they hold.
Spares(p) ==
    /\ \A q \in Proc \ {p} : /\ step'[q] = step[q] /\ job'[q] = job[q]
                             /\ control = q => control' = q /\ lifecycle' = lifecycle
    /\ events \subseteq events' /\ receipts \subseteq receipts'

LEMMA OthersFit ==
    ASSUME ProductionTypes, ProductionTypes', NEW p \in Proc, Spares(p),
           NEW q \in Proc \ {p}, Fit(q)
    PROVE  Fit(q)'
  <1>1. step'[q] = step[q] /\ job'[q] = job[q] /\ job[q] \in Job
    BY DEF Spares, ProductionTypes
  <1>2. Controls(q)'
    <2>1. Paused' = Paused \/ control # q
      BY DEF Spares, Paused
    <2> QED
      BY <1>1, <2>1 DEF Fit, Controls, Spares, Controlled
  <1>3. Belongs(q)'
    BY <1>1 DEF Fit, Belongs
  <1>4. Counted(q)'
    <2>1. Cardinality(events) <= Cardinality(events') /\ Cardinality(events) \in Nat
          /\ Cardinality(events') \in Nat /\ receipts \subseteq receipts'
      BY EventsGrow DEF Spares
    <2>2. job[q].before \in Nat /\ job[q].wrote \in Nat
      BY <1>1, JobFields
    <2>3. step[q] \in {"list", "repair"} => job[q].before + job[q].wrote <= Cardinality(events')
      BY <2>1, <2>2 DEF Fit, Counted
    <2> QED
      BY <1>1, <2>1, <2>3 DEF Fit, Counted
  <1> QED
    BY <1>2, <1>3, <1>4 DEF Fit

Moves(p, s, j) ==
    /\ step' = [step EXCEPT ![p] = s]
    /\ job' = [job EXCEPT ![p] = j]

LEMMA Moved ==
    ASSUME ProductionTypes, NEW p \in Proc, NEW s \in Step, NEW j \in Job, Moves(p, s, j)
    PROVE  /\ step' \in [Proc -> Step] /\ job' \in [Proc -> Job]
           /\ step'[p] = s /\ job'[p] = j
           /\ \A q \in Proc \ {p} : step'[q] = step[q] /\ job'[q] = job[q]
  BY DEF ProductionTypes, Moves

\* What a step of p has to keep.
Keeps(p) == ProductionTypes' /\ RevisionCountsTransitions' /\ Spares(p) /\ Fit(p)'

LEMMA BeginKeeps ==
    ASSUME ProductionInvariant, NEW p \in Proc,
           \/ BeginPass(p) \/ BeginRecover(p)
           \/ \E mode \in Mode : BeginSetMode(p, mode)
    PROVE  Keeps(p)
  <1> USE DEF ProductionInvariant
  <1>1. UNCHANGED <<lifecycle, outbox, crashes>>
    BY DEF BeginPass, BeginRecover, BeginSetMode, Begin
  <1>2. /\ lifecycle' = lifecycle /\ Paused' = Paused /\ RevisionCountsTransitions'
        /\ receipts' = receipts /\ events' = events /\ quarantined' = quarantined
        /\ crashes' = crashes
    BY <1>1 DEF outbox, Paused, RevisionCountsTransitions
  <1>3. ASSUME NEW op \in Operation, NEW s \in {"change", "inspect"},
               control = Free, control' = p, Begin(p, op, s),
               s = "change" => op \in Mode, s = "inspect" => op = "produce"
        PROVE  Keeps(p)
    <2>1. Moves(p, s, [NoJob EXCEPT !.op = op])
      BY <1>3 DEF Begin, Moves, Goto
    <2>2. [NoJob EXCEPT !.op = op] \in Job /\ s \in Step
      BY JobIsJob DEF Step
    <2>3. /\ step' \in [Proc -> Step] /\ job' \in [Proc -> Job]
          /\ step'[p] = s /\ job'[p] = [NoJob EXCEPT !.op = op]
          /\ \A q \in Proc \ {p} : step'[q] = step[q] /\ job'[q] = job[q]
      BY <2>1, <2>2, Moved
    <2>4. ProductionTypes'
      BY <1>2, <1>3, <2>3 DEF ProductionTypes
    <2>5. Spares(p)
      BY <1>2, <1>3, <2>3, IdentityAssumption DEF Spares
    <2>6. Controls(p)'
      BY <1>3, <2>3 DEF Controls
    <2>7. Belongs(p)'
      BY <1>3, <2>3, JobIsJob DEF Belongs, Recovering
    <2>8. Counted(p)'
      BY <1>3, <2>3, JobIsJob DEF Counted
    <2> QED
      BY <1>2, <2>4, <2>5, <2>6, <2>7, <2>8 DEF Keeps, Fit
  <1>4. ASSUME BeginPass(p), step[p] = "wait" PROVE Keeps(p)
    <2>1. control = Free /\ control' = p /\ job' = job
          /\ step' = [step EXCEPT ![p] = "inspect"]
      BY <1>4 DEF BeginPass, Begin, Goto
    <2>2. /\ step' \in [Proc -> Step] /\ step'[p] = "inspect"
          /\ \A q \in Proc \ {p} : step'[q] = step[q]
      BY <2>1 DEF ProductionTypes, Step
    <2>3. ProductionTypes'
      BY <1>2, <2>1, <2>2 DEF ProductionTypes
    <2>4. Spares(p)
      BY <1>2, <2>1, <2>2, IdentityAssumption DEF Spares
    <2>5. Fit(p)
      OBVIOUS
    <2>6. Fit(p)'
      BY <1>4, <2>1, <2>2, <2>5 DEF Fit, Controls, Belongs, Counted, Recovering
    <2> QED
      BY <1>2, <2>3, <2>4, <2>6 DEF Keeps
  <1>5. ASSUME BeginRecover(p) PROVE Keeps(p)
    <2>1. Moves(p, "snapshot", [NoJob EXCEPT !.op = "recover"]) /\ control' = control
      BY <1>5 DEF BeginRecover, Moves, Goto
    <2>2. [NoJob EXCEPT !.op = "recover"] \in Job /\ "snapshot" \in Step
          /\ "recover" \in Operation
      BY JobIsJob DEF Step, Operation
    <2>3. /\ step' \in [Proc -> Step] /\ job' \in [Proc -> Job]
          /\ step'[p] = "snapshot" /\ job'[p] = [NoJob EXCEPT !.op = "recover"]
          /\ \A q \in Proc \ {p} : step'[q] = step[q] /\ job'[q] = job[q]
      BY <2>1, <2>2, Moved
    <2>4. ProductionTypes'
      BY <1>2, <2>1, <2>3 DEF ProductionTypes
    <2>5. Spares(p)
      BY <1>2, <2>1, <2>3 DEF Spares
    <2>6. Controls(p)'
      BY <2>3 DEF Controls, Controlled
    <2>7. Belongs(p)'
      BY <2>2, <2>3, JobIsJob DEF Belongs
    <2>8. Counted(p)'
      BY <2>2, <2>3, JobIsJob DEF Counted
    <2> QED
      BY <1>2, <2>4, <2>5, <2>6, <2>7, <2>8 DEF Keeps, Fit
  <1>6. ASSUME NEW mode \in Mode, BeginSetMode(p, mode) PROVE Keeps(p)
    BY <1>6, <1>3 DEF BeginSetMode, Operation
  <1>7. ASSUME BeginPass(p), step[p] # "wait" PROVE Keeps(p)
    BY <1>7, <1>3 DEF BeginPass, Operation
  <1> QED
    BY <1>4, <1>5, <1>6, <1>7

LEMMA RevisionParity ==
    ASSUME NEW n \in Nat
    PROVE  (n + 1) % 2 = 1 <=> n % 2 # 1
  OBVIOUS

\* An error, an answer and the end of a mode change.
LEMMA LeaveKeeps ==
    ASSUME ProductionInvariant, NEW p \in Proc, LeaveControl(p),
           \/ /\ step[p] = "change"
              /\ ChangeMode(p)
           \/ UNCHANGED <<lifecycle, crashes>>,
           events \subseteq events', receipts \subseteq receipts',
           events' \subseteq receipts', receipts' \subseteq Call, quarantined' = quarantined
    PROVE  Keeps(p)
  <1> USE DEF ProductionInvariant
  <1>1. /\ lifecycle' \in [mode : Mode, revision : 1 .. MaxRevision] \cup {None}
        /\ crashes' = crashes /\ RevisionCountsTransitions'
        /\ lifecycle' = lifecycle \/ control = p
    <2>1. CASE UNCHANGED <<lifecycle, crashes>>
      BY <2>1 DEF ProductionTypes, RevisionCountsTransitions
    <2>2. CASE step[p] = "change" /\ ChangeMode(p)
      <3>1. control = p /\ job[p].op \in Mode
        BY <2>2 DEF Fit, Controls, Belongs, Controlled
      <3>2. CASE lifecycle' = lifecycle
        BY <2>2, <3>1, <3>2 DEF ChangeMode, ProductionTypes, RevisionCountsTransitions
      <3>3. CASE lifecycle' # lifecycle /\ lifecycle = None
        <4>1. /\ job[p].op = "paused" /\ lifecycle' = [mode |-> "paused", revision |-> 1]
              /\ 1 <= MaxRevision
          BY <2>2, <3>1, <3>3, ProductionAssumption DEF ChangeMode, InMode, Mode
        <4>2. lifecycle' # None /\ lifecycle'.mode = "paused" /\ lifecycle'.revision % 2 = 1
          BY <3>3, <4>1
        <4> QED
          BY <2>2, <3>1, <4>1, <4>2, ProductionAssumption
          DEF ChangeMode, RevisionCountsTransitions, Mode
      <3>4. CASE lifecycle' # lifecycle /\ lifecycle # None
        <4> DEFINE n == lifecycle.revision
        <4>1. n \in 1 .. MaxRevision /\ n \in Nat /\ lifecycle.mode \in Mode
          BY <3>4, ProductionAssumption DEF ProductionTypes
        <4>2. /\ lifecycle' = [mode |-> job[p].op, revision |-> n + 1]
              /\ job[p].op # lifecycle.mode /\ n < MaxRevision
          BY <2>2, <3>4 DEF ChangeMode, InMode
        <4>3. lifecycle'.mode = "paused" <=> lifecycle.mode # "paused"
          BY <3>1, <4>1, <4>2 DEF Mode
        <4>4. lifecycle'.revision % 2 = 1 <=> lifecycle.revision % 2 # 1
          BY <4>1, <4>2, RevisionParity
        <4>5. RevisionCountsTransitions'
          BY <3>4, <4>3, <4>4 DEF RevisionCountsTransitions
        <4>6. n + 1 \in 1 .. MaxRevision
          BY <4>1, <4>2, ProductionAssumption
        <4> QED
          BY <2>2, <3>1, <4>2, <4>5, <4>6 DEF ChangeMode
      <3> QED
        BY <3>2, <3>3, <3>4
    <2> QED
      BY <2>1, <2>2
  <1>2. Moves(p, "idle", NoJob) /\ control' = IF control = p THEN Free ELSE control
    BY DEF LeaveControl, Goto, Moves
  <1>3. NoJob \in Job /\ "idle" \in Step /\ ~NoJob.existing
    BY DEF NoJob, Job, Step, Operation, Outcome
  <1>4. /\ step' \in [Proc -> Step] /\ job' \in [Proc -> Job]
        /\ step'[p] = "idle" /\ job'[p] = NoJob
        /\ \A q \in Proc \ {p} : step'[q] = step[q] /\ job'[q] = job[q]
    BY <1>2, <1>3, Moved
  <1>5. ProductionTypes'
    BY <1>1, <1>2, <1>4 DEF ProductionTypes
  <1>6. Spares(p)
    BY <1>1, <1>2, <1>4 DEF Spares
  <1>7. Fit(p)'
    BY <1>3, <1>4 DEF Fit, Controls, Belongs, Counted, Controlled, Recovering
  <1> QED
    BY <1>1, <1>5, <1>6, <1>7 DEF Keeps

\* A step that only moves p, within what it controls, and keeps the outbox.
LEMMA QuietMoveKeeps ==
    ASSUME ProductionInvariant, NEW p \in Proc, NEW s \in Step, NEW j \in Job, Moves(p, s, j),
           UNCHANGED <<lifecycle, outbox, crashes>>,
           control' = control \/ (control = p /\ control' = Free)
    PROVE  /\ ProductionTypes' /\ RevisionCountsTransitions' /\ Spares(p)
           /\ step'[p] = s /\ job'[p] = j
           /\ lifecycle' = lifecycle /\ receipts' = receipts /\ events' = events
  <1> USE DEF ProductionInvariant
  <1>1. /\ step' \in [Proc -> Step] /\ job' \in [Proc -> Job] /\ step'[p] = s /\ job'[p] = j
        /\ \A q \in Proc \ {p} : step'[q] = step[q] /\ job'[q] = job[q]
    BY Moved
  <1>2. /\ lifecycle' = lifecycle /\ receipts' = receipts /\ events' = events
        /\ quarantined' = quarantined /\ crashes' = crashes /\ RevisionCountsTransitions'
    BY DEF outbox, RevisionCountsTransitions
  <1>3. ProductionTypes'
    BY <1>1, <1>2 DEF ProductionTypes
  <1>4. Spares(p)
    BY <1>1, <1>2 DEF Spares
  <1> QED
    BY <1>1, <1>2, <1>3, <1>4

LEMMA PassKeeps ==
    ASSUME ProductionInvariant, NEW p \in Proc,
           \/ PauseStopsPass(p) \/ PassMayScan(p) \/ FinishPass(p)
           \/ \E candidates \in SUBSET Call : Scan(p, candidates)
    PROVE  Keeps(p)
  <1> DEFINE j == job[p]
  <1>1. Fit(p) /\ j \in Job
    BY DEF ProductionInvariant, ProductionTypes
  <1> HIDE DEF j
  <1>2. step[p] \in {"inspect", "scan", "produce"} /\ control = p
    BY <1>1 DEF PauseStopsPass, PassMayScan, FinishPass, Scan, Fit, Controls, Controlled
  <1>3. /\ j.op \in {"produce", "recover"} /\ j.wrote <= j.repaired
        /\ j.wrote \in Nat /\ j.repaired \in Nat
    BY <1>1, <1>2, JobFields DEF Fit, Belongs, Counted, j
  <1>4. CASE PauseStopsPass(p)
    <2> DEFINE after == [j EXCEPT !.outcome = PausedOutcome(j)]
    <2>1. after \in Job /\ after.op = j.op /\ after.wrote = j.wrote /\ after.repaired = j.repaired
          /\ after.outcome = PausedOutcome(j) /\ after.existing = j.existing
      BY <1>1 DEF Job, PausedOutcome, Outcome
    <2>2. Moves(p, "done", after) /\ control' = Free /\ UNCHANGED <<lifecycle, outbox, crashes>>
      BY <1>4 DEF PauseStopsPass, Moves, Goto, j
    <2> HIDE DEF after
    <2>3. /\ ProductionTypes' /\ RevisionCountsTransitions' /\ Spares(p)
          /\ step'[p] = "done" /\ job'[p] = after
      BY <1>2, <2>1, <2>2, QuietMoveKeeps DEF Step
    <2>4. ~j.existing
      BY <1>1, <1>4 DEF PauseStopsPass, Fit, Counted, j
    <2>5. Counted(p)'
      BY <1>3, <2>1, <2>3, <2>4 DEF Counted, PausedOutcome
    <2> QED
      BY <2>3, <2>5 DEF Keeps, Fit, Controls, Belongs, Controlled, Recovering
  <1>5. CASE PassMayScan(p)
    <2>1. Moves(p, "scan", j) /\ control' = control /\ UNCHANGED <<lifecycle, outbox, crashes>>
      BY <1>5 DEF PassMayScan, Moves, Goto, ProductionInvariant, ProductionTypes, j
    <2>2. /\ ProductionTypes' /\ RevisionCountsTransitions' /\ Spares(p)
          /\ step'[p] = "scan" /\ job'[p] = j /\ lifecycle' = lifecycle
      BY <1>1, <2>1, QuietMoveKeeps DEF Step
    <2>3. ~j.existing /\ ~Paused
      BY <1>1, <1>5 DEF PassMayScan, Fit, Counted, j
    <2>4. Counted(p)' /\ Belongs(p)'
      BY <1>3, <2>2, <2>3 DEF Counted, Belongs, Recovering
    <2>5. Controls(p)'
      BY <1>2, <2>1, <2>2, <2>3 DEF Controls, Paused
    <2> QED
      BY <2>2, <2>4, <2>5 DEF Keeps, Fit
  <1>6. ASSUME NEW candidates \in SUBSET Call, Scan(p, candidates) PROVE Keeps(p)
    <2> DEFINE after == [j EXCEPT !.todo = candidates]
    <2>1. after \in Job /\ after.op = j.op /\ after.wrote = j.wrote /\ after.repaired = j.repaired
          /\ after.existing = j.existing
      BY <1>1 DEF Job
    <2>2. Moves(p, "produce", after) /\ control' = control
          /\ UNCHANGED <<lifecycle, outbox, crashes>>
      BY <1>6 DEF Scan, Moves, Goto, j
    <2> HIDE DEF after
    <2>3. /\ ProductionTypes' /\ RevisionCountsTransitions' /\ Spares(p)
          /\ step'[p] = "produce" /\ job'[p] = after /\ lifecycle' = lifecycle
      BY <2>1, <2>2, QuietMoveKeeps DEF Step
    <2>4. ~Paused
      BY <1>1, <1>6 DEF Scan, Fit, Controls
    <2>5. Counted(p)' /\ Belongs(p)'
      BY <1>3, <2>1, <2>3 DEF Counted, Belongs, Recovering
    <2>6. Controls(p)'
      BY <1>2, <2>2, <2>3, <2>4 DEF Controls, Paused
    <2> QED
      BY <2>3, <2>5, <2>6 DEF Keeps, Fit
  <1>7. CASE FinishPass(p)
    <2> DEFINE verdict == IF j.op = "produce" THEN "completed"
                          ELSE IF j.repaired > 0 \/ j.existing THEN "reconciled" ELSE "healthy"
               after == [j EXCEPT !.outcome = verdict]
    <2>1. after \in Job /\ after.op = j.op /\ after.wrote = j.wrote /\ after.repaired = j.repaired
          /\ after.outcome = verdict /\ after.existing = j.existing
      <3>1. verdict \in Outcome
        BY DEF Outcome
      <3> HIDE DEF verdict
      <3> QED
        BY <1>1, <3>1 DEF Job
    <2>2. job' = [job EXCEPT ![p] = after]
      BY <1>3, <1>7 DEF FinishPass, j
    <2>3. Moves(p, "done", after) /\ control' = Free /\ UNCHANGED <<lifecycle, outbox, crashes>>
      BY <1>7, <2>2 DEF FinishPass, Moves, Goto
    <2> HIDE DEF after
    <2>4. /\ ProductionTypes' /\ RevisionCountsTransitions' /\ Spares(p)
          /\ step'[p] = "done" /\ job'[p] = after
      BY <1>2, <2>1, <2>3, QuietMoveKeeps DEF Step
    <2>5. Counted(p)'
      BY <1>3, <2>1, <2>4 DEF Counted
    <2> QED
      BY <2>4, <2>5 DEF Keeps, Fit, Controls, Belongs, Controlled, Recovering
  <1> QED
    BY <1>4, <1>5, <1>6, <1>7

LEMMA ProduceKeeps ==
    ASSUME ProductionInvariant, NEW p \in Proc, NEW c \in Call, ProduceOne(p, c)
    PROVE  Keeps(p)
  <1> DEFINE j == job[p]
             after == [j EXCEPT !.todo = @ \ {c},
                                !.existing = @ \/ (j.op = "recover" /\ c \in receipts)]
  <1>1. Fit(p) /\ j \in Job
    BY DEF ProductionInvariant, ProductionTypes
  <1>2. after \in Job /\ after.op = j.op /\ after.wrote = j.wrote /\ after.repaired = j.repaired
    <2>1. j.existing \in BOOLEAN /\ j.todo \in SUBSET Call
      BY <1>1, JobFields
    <2> DEFINE found == j.existing \/ (j.op = "recover" /\ c \in receipts)
    <2>2. after = [j EXCEPT !.todo = j.todo \ {c}, !.existing = found]
      OBVIOUS
    <2>3. found \in BOOLEAN
      OBVIOUS
    <2> HIDE DEF found
    <2> QED
      BY <1>1, <2>1, <2>2, <2>3 DEF Job
  <1>3. job' = [job EXCEPT ![p] = after]
    BY DEF ProduceOne
  <1>4. job' \in [Proc -> Job] /\ job'[p] = after /\ \A q \in Proc \ {p} : job'[q] = job[q]
    BY <1>2, <1>3 DEF ProductionInvariant, ProductionTypes
  <1> HIDE DEF j, after
  <1>5. /\ step' = step /\ lifecycle' = lifecycle /\ control' = control /\ crashes' = crashes
        /\ quarantined' = quarantined /\ receipts' = receipts \cup {c}
        /\ events' = events \cup {c} /\ step[p] = "produce"
    BY DEF ProduceOne
  <1>6. ProductionTypes' /\ RevisionCountsTransitions'
    BY <1>4, <1>5 DEF ProductionInvariant, ProductionTypes, RevisionCountsTransitions
  <1>7. Spares(p)
    BY <1>4, <1>5 DEF Spares
  <1>8. Controls(p)'
    BY <1>1, <1>5 DEF Fit, Controls, Paused
  <1>9. Belongs(p)'
    BY <1>1, <1>2, <1>4, <1>5 DEF Fit, Belongs, j
  <1>10. Counted(p)'
    BY <1>1, <1>2, <1>4, <1>5 DEF Fit, Counted, j
  <1> QED
    BY <1>6, <1>7, <1>8, <1>9, <1>10 DEF Keeps, Fit

LEMMA LookKeeps ==
    ASSUME ProductionInvariant, NEW p \in Proc, NEW sight \in SUBSET Sight, Look(p, sight)
    PROVE  Keeps(p)
  <1> DEFINE j == job[p]
             seen == j.seen \cup sight
             more == [j EXCEPT !.seen = seen]
             goes == [j EXCEPT !.seen = {}]
             ends(o) == [j EXCEPT !.seen = {}, !.outcome = o]
  <1>1. Fit(p) /\ j \in Job /\ step[p] = "snapshot"
    BY DEF ProductionInvariant, ProductionTypes, Look
  <1>2. /\ j.op = "recover" /\ j.wrote = 0 /\ j.repaired = 0 /\ ~j.existing
        /\ seen \in SUBSET Sight
    BY <1>1, JobFields DEF Fit, Belongs, Counted, Recovering
  <1>3. UNCHANGED <<lifecycle, outbox, crashes>> /\ control' = control
    BY DEF Look
  <1>4. PICK s \in Step, k \in Job :
          /\ Moves(p, s, k) /\ s \in {"snapshot", "count", "done"}
          /\ k.op = "recover" /\ k.wrote = 0 /\ k.repaired = 0 /\ ~k.existing
    <2> HIDE DEF seen
    <2>1. /\ more \in Job /\ more.op = j.op /\ more.wrote = j.wrote
          /\ more.repaired = j.repaired /\ more.existing = j.existing
      BY <1>1, <1>2 DEF Job
    <2>2. /\ goes \in Job /\ goes.op = j.op /\ goes.wrote = j.wrote
          /\ goes.repaired = j.repaired /\ goes.existing = j.existing
      BY <1>1 DEF Job
    <2>3. ASSUME NEW o \in Outcome
          PROVE  /\ ends(o) \in Job /\ ends(o).op = j.op /\ ends(o).wrote = j.wrote
                 /\ ends(o).repaired = j.repaired /\ ends(o).existing = j.existing
      BY <1>1 DEF Job
    <2>4. CASE ~({"evidence", "mode"} \subseteq seen)
      <3>1. job' = [job EXCEPT ![p] = more] /\ step' = step
        BY <2>4 DEF Look, seen
      <3>2. Moves(p, "snapshot", more)
        BY <1>1, <3>1 DEF Moves, ProductionInvariant, ProductionTypes
      <3> HIDE DEF more
      <3> QED
        BY <1>2, <2>1, <3>2 DEF Step
    <2>5. CASE {"evidence", "mode"} \subseteq seen /\ seen \cap {"paused", "blocked"} = {}
      <3>1. Moves(p, "count", goes)
        BY <2>5 DEF Look, seen, Moves, Goto
      <3> HIDE DEF goes
      <3> QED
        BY <1>2, <2>2, <3>1 DEF Step
    <2>6. CASE {"evidence", "mode"} \subseteq seen /\ seen \cap {"paused", "blocked"} # {}
      <3> DEFINE o == IF "paused" \in seen THEN "paused" ELSE "blocked"
      <3>1. o \in Outcome
        BY DEF Outcome
      <3>2. Moves(p, "done", ends(o))
        BY <2>6 DEF Look, seen, Moves, Goto
      <3> HIDE DEF ends, o
      <3> QED
        BY <1>2, <2>3, <3>1, <3>2 DEF Step
    <2> QED
      BY <2>4, <2>5, <2>6
  <1>5. /\ ProductionTypes' /\ RevisionCountsTransitions' /\ Spares(p)
        /\ step'[p] = s /\ job'[p] = k
    BY <1>3, <1>4, QuietMoveKeeps
  <1> QED
    BY <1>4, <1>5 DEF Keeps, Fit, Controls, Belongs, Counted, Controlled, Recovering

LEMMA RecoveryKeeps ==
    ASSUME ProductionInvariant, NEW p \in Proc, RecoveryStep(p)
    PROVE  Keeps(p)
  <1> DEFINE j == job[p]
  <1>1. /\ Fit(p) /\ j \in Job /\ IsFiniteSet(events) /\ Cardinality(events) \in Nat
        /\ events \subseteq receipts /\ receipts \subseteq Call
    BY EventsCounted DEF ProductionInvariant, ProductionTypes
  <1>2. j.wrote \in Nat /\ j.before \in Nat /\ j.todo \in SUBSET Call
    BY <1>1, JobFields
  <1> HIDE DEF j
  <1>3. CASE LookAtEvidence(p) \/ LookAtMode(p)
    <2>1. /\ {"evidence"} \cup (IF quarantined THEN {"blocked"} ELSE {}) \in SUBSET Sight
          /\ {"mode"} \cup (IF Paused THEN {"paused"} ELSE {}) \in SUBSET Sight
      BY DEF Sight
    <2> QED
      BY <1>3, <2>1, LookKeeps DEF LookAtEvidence, LookAtMode
  <1>4. CASE CountEvents(p)
    <2> DEFINE k == [j EXCEPT !.before = Cardinality(events)]
    <2>1. Moves(p, "list", k) /\ control' = control /\ UNCHANGED <<lifecycle, outbox, crashes>>
      BY <1>4 DEF CountEvents, Moves, Goto, j
    <2>2. /\ k \in Job /\ k.op = j.op /\ k.wrote = j.wrote /\ k.existing = j.existing
          /\ k.before = Cardinality(events)
      BY <1>1 DEF Job
    <2> HIDE DEF k
    <2>3. /\ ProductionTypes' /\ RevisionCountsTransitions' /\ Spares(p)
          /\ step'[p] = "list" /\ job'[p] = k /\ events' = events
      BY <2>1, <2>2, QuietMoveKeeps DEF Step
    <2>4. j.wrote = 0 /\ ~j.existing /\ j.op = "recover"
      BY <1>1, <1>4 DEF CountEvents, Fit, Counted, Belongs, Recovering, j
    <2>5. Counted(p)'
      BY <1>1, <2>2, <2>3, <2>4 DEF Counted
    <2> QED
      BY <2>2, <2>3, <2>4, <2>5 DEF Keeps, Fit, Controls, Belongs, Controlled
  <1>5. CASE ListReceipts(p)
    <2> DEFINE k == [j EXCEPT !.todo = receipts]
    <2>1. Moves(p, "repair", k) /\ control' = control /\ UNCHANGED <<lifecycle, outbox, crashes>>
      BY <1>5 DEF ListReceipts, Moves, Goto, j
    <2>2. /\ k \in Job /\ k.op = j.op /\ k.wrote = j.wrote /\ k.existing = j.existing
          /\ k.before = j.before /\ k.todo = receipts
      BY <1>1 DEF Job
    <2> HIDE DEF k
    <2>3. /\ ProductionTypes' /\ RevisionCountsTransitions' /\ Spares(p)
          /\ step'[p] = "repair" /\ job'[p] = k /\ events' = events /\ receipts' = receipts
      BY <2>1, <2>2, QuietMoveKeeps DEF Step
    <2>4. j.before + j.wrote <= Cardinality(events) /\ ~j.existing /\ j.op = "recover"
      BY <1>1, <1>5 DEF ListReceipts, Fit, Counted, Belongs, Recovering, j
    <2>5. Counted(p)'
      BY <1>1, <2>2, <2>3, <2>4 DEF Counted
    <2> QED
      BY <2>2, <2>3, <2>4, <2>5 DEF Keeps, Fit, Controls, Belongs, Controlled
  <1>6. CASE Recount(p)
    <2> DEFINE n == Cardinality(events) - j.before
               k == [j EXCEPT !.repaired = n, !.before = 0]
    <2>1. Moves(p, "wait", k) /\ control' = control /\ UNCHANGED <<lifecycle, outbox, crashes>>
      BY <1>6 DEF Recount, Moves, Goto, j
    <2>2. j.before + j.wrote <= Cardinality(events) /\ ~j.existing /\ j.op = "recover"
      BY <1>1, <1>6 DEF Recount, Fit, Counted, Belongs, Recovering, j
    <2>3. n \in Nat /\ j.wrote <= n
      BY <1>1, <1>2, <2>2
    <2> HIDE DEF n
    <2>4. /\ k \in Job /\ k.op = j.op /\ k.wrote = j.wrote /\ k.existing = j.existing
          /\ k.repaired = n
      BY <1>1, <2>3 DEF Job
    <2> HIDE DEF k
    <2>5. /\ ProductionTypes' /\ RevisionCountsTransitions' /\ Spares(p)
          /\ step'[p] = "wait" /\ job'[p] = k
      BY <2>1, <2>4, QuietMoveKeeps DEF Step
    <2>6. Counted(p)'
      BY <2>2, <2>3, <2>4, <2>5 DEF Counted
    <2> QED
      BY <2>2, <2>4, <2>5, <2>6 DEF Keeps, Fit, Controls, Belongs, Controlled
  <1>7. ASSUME NEW c \in Call, RepairReceipt(p, c) PROVE Keeps(p)
    <2> DEFINE n == IF c \in events THEN j.wrote ELSE j.wrote + 1
               k == [j EXCEPT !.todo = j.todo \ {c}, !.wrote = n]
    <2>1. job' = [job EXCEPT ![p] = k]
      BY <1>7 DEF RepairReceipt, j
    <2>2. n \in Nat
      BY <1>2
    <2>3. /\ j.before + j.wrote <= Cardinality(events) /\ ~j.existing /\ j.op = "recover"
          /\ c \in j.todo /\ j.todo \subseteq receipts /\ step[p] = "repair"
      BY <1>1, <1>7 DEF RepairReceipt, Fit, Counted, Belongs, Recovering, j
    <2>4. /\ events' = events \cup {c} /\ receipts' = receipts /\ control' = control
          /\ lifecycle' = lifecycle /\ quarantined' = quarantined /\ crashes' = crashes
          /\ step' = step
      BY <1>7 DEF RepairReceipt
    <2>5. Cardinality(events') = IF c \in events THEN Cardinality(events)
                                 ELSE Cardinality(events) + 1
      BY <1>1, <2>4, FS_AddElement
    <2>6. j.before + n <= Cardinality(events')
      BY <1>1, <1>2, <2>3, <2>5
    <2> HIDE DEF n
    <2>7. /\ k \in Job /\ k.op = j.op /\ k.wrote = n /\ k.existing = j.existing
          /\ k.before = j.before /\ k.todo = j.todo \ {c}
      BY <1>1, <1>2, <2>2 DEF Job
    <2> HIDE DEF k
    <2>8. job' \in [Proc -> Job] /\ job'[p] = k /\ \A q \in Proc \ {p} : job'[q] = job[q]
      BY <2>1, <2>7 DEF ProductionInvariant, ProductionTypes
    <2>9. ProductionTypes' /\ RevisionCountsTransitions'
      BY <2>3, <2>4, <2>8 DEF ProductionInvariant, ProductionTypes, RevisionCountsTransitions
    <2>10. Spares(p)
      BY <2>4, <2>8 DEF Spares
    <2>11. Counted(p)'
      BY <2>3, <2>4, <2>6, <2>7, <2>8 DEF Counted
    <2> QED
      BY <2>3, <2>4, <2>7, <2>8, <2>9, <2>10, <2>11
      DEF Keeps, Fit, Controls, Belongs, Controlled
  <1> QED
    BY <1>3, <1>4, <1>5, <1>6, <1>7 DEF RecoveryStep

LEMMA CrashKeeps ==
    ASSUME ProductionInvariant, NEW p \in Proc, Crash(p)
    PROVE  Keeps(p)
  <1>1. Moves(p, "idle", NoJob)
    BY DEF Crash, Moves
  <1>2. NoJob \in Job /\ "idle" \in Step /\ ~NoJob.existing
    BY DEF NoJob, Job, Step, Operation, Outcome
  <1>3. /\ step' \in [Proc -> Step] /\ job' \in [Proc -> Job] /\ step'[p] = "idle"
        /\ job'[p] = NoJob /\ \A q \in Proc \ {p} : step'[q] = step[q] /\ job'[q] = job[q]
    BY <1>1, <1>2, Moved DEF ProductionInvariant
  <1>4. receipts \subseteq receipts' /\ receipts' \subseteq Call
    <2>1. job[p].todo \subseteq Call /\ receipts \subseteq Call
      BY JobFields DEF ProductionInvariant, ProductionTypes
    <2> QED
      BY <2>1 DEF Crash
  <1>5. /\ lifecycle' = lifecycle /\ events' = events /\ quarantined' = quarantined
        /\ control' = IF control = p THEN Orphan ELSE control
        /\ crashes' \in 0 .. MaxCrashes
    BY ProductionAssumption DEF Crash, ProductionInvariant, ProductionTypes
  <1>6. ProductionTypes' /\ RevisionCountsTransitions'
    BY <1>3, <1>4, <1>5 DEF ProductionInvariant, ProductionTypes, RevisionCountsTransitions
  <1>7. Spares(p)
    BY <1>3, <1>4, <1>5 DEF Spares
  <1> QED
    BY <1>2, <1>3, <1>6, <1>7
    DEF Keeps, Fit, Controls, Belongs, Counted, Controlled, Recovering

LEMMA OperationKeeps ==
    ASSUME ProductionInvariant, NEW p \in Proc, OperationStep(p)
    PROVE  Keeps(p)
  <1>1. events \subseteq receipts /\ receipts \subseteq Call
    BY DEF ProductionInvariant, ProductionTypes
  <1>2. CASE ChangeMode(p)
    <2>1. /\ LeaveControl(p) /\ step[p] = "change"
          /\ events' = events /\ receipts' = receipts /\ quarantined' = quarantined
      BY <1>2 DEF ChangeMode, outbox
    <2> QED
      BY <1>1, <1>2, <2>1, LeaveKeeps
  <1>3. ASSUME Throw(p), UNCHANGED <<events, quarantined>>,
               receipts' = receipts \/ \E c \in Call : receipts' = receipts \cup {c}
        PROVE  Keeps(p)
    <2>1. /\ LeaveControl(p) /\ UNCHANGED <<lifecycle, crashes>>
          /\ events' = events /\ quarantined' = quarantined
      BY <1>3 DEF Throw, LeaveControl
    <2>2. receipts \subseteq receipts' /\ receipts' \subseteq Call
      BY <1>1, <1>3
    <2> QED
      BY <1>1, <2>1, <2>2, LeaveKeeps
  <1>4. ASSUME NEW c \in Call, ProduceInterrupted(p, c) PROVE Keeps(p)
    BY <1>3, <1>4 DEF ProduceInterrupted
  <1>5. CASE OperationFails(p) \/ Return(p)
    BY <1>3, <1>5 DEF OperationFails, Return, outbox
  <1> QED
    BY <1>2, <1>4, <1>5, PassKeeps, ProduceKeeps, RecoveryKeeps DEF OperationStep, PassStep

LEMMA ProductionInvariantInit == Init => ProductionInvariant
  <1> SUFFICES ASSUME Init PROVE ProductionInvariant
    OBVIOUS
  <1>1. NoJob \in Job /\ ~NoJob.existing /\ "idle" \in Step
    BY DEF NoJob, Job, Step, Operation, Outcome
  <1>2. ProductionTypes
    <2>1. step \in [Proc -> Step] /\ job \in [Proc -> Job]
      BY <1>1 DEF Init
    <2>2. quarantined \in BOOLEAN
      BY DEF Init
    <2>3. crashes \in 0 .. MaxCrashes
      BY ProductionAssumption DEF Init
    <2> QED
      BY <2>1, <2>2, <2>3 DEF Init, ProductionTypes
  <1>3. ASSUME NEW p \in Proc PROVE Fit(p)
    BY <1>1 DEF Init, Fit, Controls, Belongs, Counted, Controlled, Recovering
  <1> QED
    BY <1>2, <1>3 DEF Init, ProductionInvariant, RevisionCountsTransitions

LEMMA ProductionInvariantStep ==
    ASSUME ProductionInvariant, [Next]_vars
    PROVE  ProductionInvariant'
  <1>1. ASSUME NEW p \in Proc, Keeps(p) PROVE ProductionInvariant'
    BY <1>1, OthersFit DEF Keeps, ProductionInvariant
  <1>2. ASSUME UNCHANGED productionVars PROVE ProductionInvariant'
    <2>1. /\ lifecycle' = lifecycle /\ control' = control /\ receipts' = receipts
          /\ events' = events /\ quarantined' = quarantined /\ step' = step /\ job' = job
          /\ crashes' = crashes
      BY <1>2 DEF productionVars, outbox, jobs
    <2>2. ProductionTypes' /\ RevisionCountsTransitions'
      BY <2>1 DEF ProductionInvariant, ProductionTypes, RevisionCountsTransitions
    <2>3. ASSUME NEW p \in Proc PROVE Fit(p)'
      BY <2>1 DEF ProductionInvariant, Fit, Controls, Belongs, Counted, Paused
    <2> QED
      BY <2>2, <2>3 DEF ProductionInvariant
  <1>3. ASSUME TakeOverControl \/ Quarantine PROVE ProductionInvariant'
    <2>1. /\ lifecycle' = lifecycle /\ receipts' = receipts /\ quarantined' \in BOOLEAN
          /\ events' = events /\ step' = step /\ job' = job /\ crashes' = crashes
          /\ control' = control \/ (control = Orphan /\ control' = Free)
      BY <1>3
      DEF TakeOverControl, Quarantine, outbox, jobs, ProductionInvariant, ProductionTypes
    <2>2. ProductionTypes' /\ RevisionCountsTransitions'
      BY <2>1 DEF ProductionInvariant, ProductionTypes, RevisionCountsTransitions
    <2>3. ASSUME NEW p \in Proc PROVE Fit(p)'
      BY <2>1, IdentityAssumption
      DEF ProductionInvariant, Fit, Controls, Belongs, Counted, Paused
    <2> QED
      BY <2>2, <2>3 DEF ProductionInvariant
  <1>4. ASSUME NEW p \in Proc, OperationStep(p) PROVE ProductionInvariant'
    BY <1>1, <1>4, OperationKeeps
  <1>5. ASSUME NEW p \in Proc, BeginPass(p) \/ BeginRecover(p) PROVE ProductionInvariant'
    BY <1>1, <1>5, BeginKeeps
  <1>6. ASSUME NEW p \in Proc, NEW mode \in Mode, BeginSetMode(p, mode)
        PROVE  ProductionInvariant'
    BY <1>1, <1>6, BeginKeeps
  <1>7. ASSUME NEW p \in Proc, Crash(p) PROVE ProductionInvariant'
    BY <1>1, <1>7, CrashKeeps
  <1>8. ASSUME NEW p \in Proc, IdentityStep(p) \/ WorkspaceStep(p)
        PROVE  ProductionInvariant'
    BY <1>2, <1>8 DEF IdentityStep, WorkspaceStep
  <1>9. CASE TakeOvers
    BY <1>2, <1>3, <1>9 DEF TakeOvers
  <1>10. CASE UNCHANGED vars
    BY <1>2, <1>10 DEF vars
  <1> QED
    BY <1>3, <1>4, <1>5, <1>6, <1>7, <1>8, <1>9, <1>10 DEF Next

LEMMA ProductionAlways == Spec => []ProductionInvariant
  BY ProductionInvariantInit, ProductionInvariantStep, PTL DEF Spec

\* A receipt is written in a pass, or by the crash of one.
LEMMA ReceiptsNeedPass ==
    ASSUME ProductionInvariant, [Next]_vars, receipts' # receipts
    PROVE  \E p \in Proc : step[p] = "produce"
  <1>1. ASSUME UNCHANGED productionVars PROVE FALSE
    BY <1>1 DEF productionVars, outbox
  <1>2. ASSUME NEW p \in Proc, OperationStep(p) PROVE step[p] = "produce"
    BY <1>2
    DEF OperationStep, PassStep, RecoveryStep, ChangeMode, PauseStopsPass, PassMayScan,
        Scan, ProduceOne, ProduceInterrupted, FinishPass, LookAtEvidence, LookAtMode, Look,
        CountEvents, ListReceipts, RepairReceipt, Recount, OperationFails, Return, outbox
  <1>3. ASSUME NEW p \in Proc, Crash(p) PROVE step[p] = "produce"
    BY <1>3 DEF Crash
  <1>4. ASSUME NEW p \in Proc, BeginPass(p) \/ BeginRecover(p) PROVE FALSE
    BY <1>4 DEF BeginPass, BeginRecover, Begin, outbox
  <1>5. ASSUME NEW p \in Proc, NEW mode \in Mode, BeginSetMode(p, mode) PROVE FALSE
    BY <1>5 DEF BeginSetMode, Begin, outbox
  <1>6. ASSUME NEW p \in Proc, IdentityStep(p) \/ WorkspaceStep(p) PROVE FALSE
    BY <1>1, <1>6 DEF IdentityStep, WorkspaceStep
  <1>7. ASSUME TakeOvers \/ Quarantine PROVE FALSE
    BY <1>1, <1>7 DEF TakeOvers, TakeOverControl, Quarantine, outbox
  <1>8. ~UNCHANGED vars
    BY <1>1 DEF vars
  <1> QED
    BY <1>2, <1>3, <1>4, <1>5, <1>6, <1>7, <1>8 DEF Next

-----------------------------------------------------------------------------
(* Theorems about production *)

\* The identity, the workspace and every operation keep their types; what is
\* published always has its receipt.
THEOREM ProductionTypeCorrect == Spec => []TypeOK
  <1>1. WorkspaceInvariant /\ ProductionInvariant => TypeOK
    BY DEF WorkspaceInvariant, IdentityInvariant, ProductionInvariant, ProductionTypes, TypeOK
  <1> QED
    BY <1>1, WorkspaceAlways, ProductionAlways, PTL

\* The revision of the lifecycle file counts the transitions, for any number of
\* concurrent and repeated requests, and crashes of those who made them.
THEOREM RevisionAlwaysCounts == Spec => []RevisionCountsTransitions
  <1>1. ProductionInvariant => RevisionCountsTransitions
    BY DEF ProductionInvariant
  <1> QED
    BY <1>1, ProductionAlways, PTL

\* While production is paused no receipt is added, although a pass decides at its
\* start only: a pause waits for the pass that has the control lease.
THEOREM PauseHolds == Spec => PauseStopsProduction
  <1>1. ProductionInvariant /\ [Next]_vars => [Paused => receipts' = receipts]_receipts
    BY ReceiptsNeedPass DEF ProductionInvariant, Fit, Controls
  <1> QED
    BY <1>1, ProductionAlways, PTL DEF Spec, PauseStopsProduction

\* A recovery reports what it has repaired, although it counts before and after
\* without a lease, while passes and other recoveries publish.
THEOREM RecoveryStaysHonest == Spec => []RecoveryHonest
  <1>1. ProductionInvariant => RecoveryHonest
    BY DEF ProductionInvariant, Fit, Counted, RecoveryHonest
  <1> QED
    BY <1>1, ProductionAlways, PTL
=============================================================================
