-------------------------- MODULE EndpointIdentity --------------------------
(***************************************************************************)
(* The endpoint identity (src/local-state/endpoint-identity.ts) as the     *)
(* desktop host opens it (src/local-state/desktop-host.ts): a master key   *)
(* in the operating system's vault seals the secret, and public metadata   *)
(* is derived from the secret.                                             *)
(*                                                                         *)
(* A section under a lease that writes one file at most is one action; the *)
(* sections that write secret and metadata hold `identityLease` across     *)
(* their steps, and a process may stop between any two.  Random values are *)
(* named after the process that drew them.                                 *)
(* Definitions named Faulty... are bugs that the checks must find.         *)
(***************************************************************************)
EXTENDS Naturals

CONSTANTS
    Proc,
    MaxGeneration,  \* bound on the rotations of one behaviour
    Free, Orphan,   \* lease values that are no process
    None            \* a missing file, or nothing in memory

Identity == [endpoint : Proc, generation : 1 .. MaxGeneration, by : Proc]
Secret == [identity : Identity, sealed : Proc]

ASSUME IdentityAssumption ==
    /\ MaxGeneration \in Nat \ {0}
    /\ Free \notin Proc /\ Orphan \notin Proc /\ Free # Orphan
    /\ None \notin Proc /\ None \notin Identity /\ None \notin Secret

VARIABLES
    masterKey,      \* host-secrets: the key in the vault
    secret,         \* identity: the sealed secret
    metadata,       \* identity: the public metadata
    identityLease,  \* owner of the lease on the identity directory
    at,             \* how far each process is with opening the identity
    key,            \* the master key it holds
    loaded,         \* the identity it holds
    rotating        \* whether it still has to rotate

identityFiles == <<masterKey, secret, metadata>>
identityVars == <<identityFiles, identityLease, at, key, loaded, rotating>>

Opening == {"entered", "publishing", "validated"}

IdentityTypeOK ==
    /\ masterKey \in Proc \cup {None}
    /\ secret \in Secret \cup {None}
    /\ metadata \in Identity \cup {None}
    /\ identityLease \in Proc \cup {Free, Orphan}
    /\ at \in [Proc -> {"off", "keyed", "ready"} \cup Opening]
    /\ key \in [Proc -> Proc \cup {None}]
    /\ loaded \in [Proc -> Identity \cup {None}]
    /\ rotating \in [Proc -> BOOLEAN]

IdentityInit ==
    /\ masterKey = None /\ secret = None /\ metadata = None
    /\ identityLease = Free
    /\ at = [p \in Proc |-> "off"]
    /\ key = [p \in Proc |-> None]
    /\ loaded = [p \in Proc |-> None]
    /\ rotating = [p \in Proc |-> FALSE]

Enter(p, here) == at' = [at EXCEPT ![p] = here]

-----------------------------------------------------------------------------
(* loadOrCreateMasterKey *)

FaultyLoadMasterKey(p) ==
    /\ at[p] = "off"
    /\ key' = [key EXCEPT ![p] = IF masterKey = None THEN p ELSE masterKey]
    /\ Enter(p, "keyed")
    /\ UNCHANGED <<identityFiles, identityLease, loaded, rotating>>

\* A rewrapped envelope holds the same key.
LoadMasterKey(p) ==
    /\ at[p] = "off"
    /\ masterKey' = IF masterKey = None THEN p ELSE masterKey
    /\ key' = [key EXCEPT ![p] = masterKey']
    /\ Enter(p, "keyed")
    /\ UNCHANGED <<secret, metadata, identityLease, loaded, rotating>>

-----------------------------------------------------------------------------
(* loadOrCreateLocalEndpointIdentityV1, rotateLocalEndpointIdentityV1 *)

Generation == IF secret = None THEN 1 ELSE secret.identity.generation

BeginOpen(p, rotate) ==
    /\ at[p] = "keyed"
    /\ rotate => Generation < MaxGeneration
    /\ identityLease = Free
    /\ identityLease' = p
    /\ rotating' = [rotating EXCEPT ![p] = rotate]
    /\ Enter(p, "entered")
    /\ UNCHANGED <<identityFiles, key, loaded>>

\* The key pairs of a first identity and of a successor, drawn by p.
First(p) == [endpoint |-> p, generation |-> 1, by |-> p]
Successor(p) == [secret.identity EXCEPT !.generation = @ + 1, !.by = p]

\* persistIdentity: the secret is written before the metadata.
PersistSecret(p, identity) ==
    /\ secret' = [identity |-> identity, sealed |-> key[p]]
    /\ loaded' = [loaded EXCEPT ![p] = identity]
    /\ Enter(p, "publishing")
    /\ UNCHANGED <<masterKey, metadata, identityLease, key>>

FaultyCreateIdentity(p) ==
    /\ at[p] = "entered"
    /\ metadata = None
    /\ PersistSecret(p, First(p))
    /\ UNCHANGED rotating

CreateIdentity(p) ==
    /\ at[p] = "entered"
    /\ metadata = None /\ secret = None
    /\ PersistSecret(p, First(p))
    /\ UNCHANGED rotating

PublishMetadata(p) ==
    /\ at[p] = "publishing"
    /\ metadata' = loaded[p]
    /\ Enter(p, "validated")
    /\ UNCHANGED <<masterKey, secret, identityLease, key, loaded, rotating>>

Decryptable(p) == secret # None /\ secret.sealed = key[p]

\* metadataIsInterruptedOlderPublication
OlderPublication ==
    /\ metadata # None
    /\ metadata.endpoint = secret.identity.endpoint
    /\ metadata.generation < secret.identity.generation

Repairable == metadata = None \/ metadata = secret.identity \/ OlderPublication

Leave(p, there) ==
    /\ identityLease' = Free
    /\ Enter(p, there)
    /\ rotating' = [rotating EXCEPT ![p] = FALSE]
    /\ UNCHANGED identityFiles

Fail(p) ==
    /\ Leave(p, "off")
    /\ key' = [key EXCEPT ![p] = None]
    /\ loaded' = [loaded EXCEPT ![p] = None]

\* Metadata that is missing or old is written anew, equal metadata stays, and
\* anything else is EndpointIdentityRecoveryRequiredError.
LoadIdentity(p) ==
    /\ at[p] = "entered"
    /\ metadata # None \/ secret # None
    /\ IF Decryptable(p) /\ Repairable
       THEN /\ metadata' = secret.identity
            /\ loaded' = [loaded EXCEPT ![p] = secret.identity]
            /\ Enter(p, "validated")
            /\ UNCHANGED <<masterKey, secret, identityLease, key, rotating>>
       ELSE Fail(p)

FaultyRotateIdentity(p) ==
    /\ at[p] = "validated" /\ rotating[p]
    /\ loaded' = [loaded EXCEPT ![p] = Successor(p)]
    /\ Enter(p, "publishing")
    /\ rotating' = [rotating EXCEPT ![p] = FALSE]
    /\ UNCHANGED <<identityFiles, identityLease, key>>

\* The secret is read again, and its successor persisted.
RotateIdentity(p) ==
    /\ at[p] = "validated" /\ rotating[p]
    /\ PersistSecret(p, Successor(p))
    /\ rotating' = [rotating EXCEPT ![p] = FALSE]

\* The host erases its copy of the master key.
ReturnIdentity(p) ==
    /\ at[p] = "validated" /\ ~rotating[p]
    /\ Leave(p, "ready")
    /\ key' = [key EXCEPT ![p] = None]
    /\ UNCHANGED loaded

\* The write that is next throws.
IdentityWriteFails(p) ==
    /\ at[p] \in Opening
    /\ at[p] = "validated" => rotating[p]
    /\ Fail(p)

OpenStep(p) ==
    \/ CreateIdentity(p) \/ PublishMetadata(p) \/ LoadIdentity(p)
    \/ RotateIdentity(p) \/ ReturnIdentity(p) \/ IdentityWriteFails(p)

-----------------------------------------------------------------------------
(* Processes that stop *)

\* The runtime is disposed, or the process exits between two operations.
CloseIdentity(p) ==
    /\ at[p] \in {"keyed", "ready"}
    /\ Enter(p, "off")
    /\ key' = [key EXCEPT ![p] = None]
    /\ loaded' = [loaded EXCEPT ![p] = None]
    /\ UNCHANGED <<identityFiles, identityLease, rotating>>

CrashInOpen(p) ==
    /\ at[p] \in Opening
    /\ identityLease' = Orphan
    /\ Enter(p, "off")
    /\ key' = [key EXCEPT ![p] = None]
    /\ loaded' = [loaded EXCEPT ![p] = None]
    /\ rotating' = [rotating EXCEPT ![p] = FALSE]
    /\ UNCHANGED identityFiles

TakeOverIdentity ==
    /\ identityLease = Orphan
    /\ identityLease' = Free
    /\ UNCHANGED <<identityFiles, at, key, loaded, rotating>>

IdentityNext ==
    \/ \E p \in Proc :
        \/ LoadMasterKey(p)
        \/ \E rotate \in BOOLEAN : BeginOpen(p, rotate)
        \/ OpenStep(p) \/ CloseIdentity(p) \/ CrashInOpen(p)
    \/ TakeOverIdentity

IdentitySpec == IdentityInit /\ [][IdentityNext]_identityVars

-----------------------------------------------------------------------------
(* Properties *)

\* Whatever stopped half way, the next start finds an identity it can open: the
\* secret is sealed with the key in the vault, and the metadata is missing,
\* current or that of an interrupted rotation ("Secret first: a crash can repair
\* public metadata from the protected source").
IdentityRecoverable ==
    /\ secret # None => secret.sealed = masterKey
    /\ metadata # None => secret # None /\ Repairable

\* The files implement one endpoint with growing key generations: no two key
\* pairs share a generation, and a caller is given the current one.
Lineage == INSTANCE KeyLineage WITH
    current <- IF secret = None THEN None ELSE secret.identity,
    inUse <- {loaded[p] : p \in {q \in Proc : at[q] = "ready"}}
LineageSpec == Lineage!Spec
=============================================================================
