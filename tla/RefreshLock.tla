----------------------------- MODULE RefreshLock -----------------------------
(***************************************************************************)
(* The lease under every local store (src/cache-refresh-lock.ts), as       *)
(* withLocalStateLease uses it (src/local-state/local-state-lease.ts).     *)
(*                                                                         *)
(* Two files: the lock, and a takeover guard that serializes whoever wants *)
(* to remove or refresh the lock.  Each action is one file operation.  A   *)
(* file is `aged` once its mtime is more than staleMs old.  A process has  *)
(* one attempt at a time (enterSingleFlight); a process that crashed may   *)
(* come back as a new one under the same name.                             *)
(* Definitions named Faulty... are bugs that the checks must find.         *)
(***************************************************************************)
EXTENDS Naturals

CONSTANTS
    Contender,
    Stalls,        \* an owner may be suspended for longer than staleMs
    GuardLeaks,    \* a guard may be left behind: a crash, or an unlink that fails
    MaxCrashes,    \* bound on the crashes of one behaviour
    Missing           \* a file that does not exist

ASSUME LockAssumption ==
    /\ Stalls \in BOOLEAN /\ GuardLeaks \in BOOLEAN /\ MaxCrashes \in Nat

File == [owner : Contender, aged : BOOLEAN]

ASSUME MissingAssumption == Missing \notin File

VARIABLES
    lock,      \* session-refresh.lock
    guard,     \* session-refresh.lock.takeover
    pc,        \* where each process is
    purpose,   \* what it wants the guard for
    owns,      \* whether it created the lock and has not let it go
    released,  \* whether some owner released since the process began to wait
    crashes    \* how many crashes there have been

lockVars == <<lock, guard, pc, purpose, owns, released, crashes>>

Guarded == {"inspect", "evict", "succeed", "drop", "beat", "unguard"}
Pc == {"idle", "creating", "waiting", "missing", "completed", "owner",
       "guard", "breaking", "regrab"} \cup Guarded
Purpose == {"takeover", "release", "heartbeat", "verify"}

LockTypeOK ==
    /\ lock \in File \cup {Missing}
    /\ guard \in File \cup {Missing}
    /\ pc \in [Contender -> Pc]
    /\ purpose \in [Contender -> Purpose \cup {Missing}]
    /\ owns \in [Contender -> BOOLEAN]
    /\ released \in [Contender -> BOOLEAN]
    /\ crashes \in 0 .. MaxCrashes

LockInit ==
    /\ lock = Missing
    /\ guard = Missing
    /\ pc = [p \in Contender |-> "idle"]
    /\ purpose = [p \in Contender |-> Missing]
    /\ owns = [p \in Contender |-> FALSE]
    /\ released = [p \in Contender |-> FALSE]
    /\ crashes = 0

FileOf(p) == [owner |-> p, aged |-> FALSE]
At(p, here) == pc[p] = here
Go(p, there) == pc' = [pc EXCEPT ![p] = there]

\* The part of a process's life in which it believes it has the lease.
Holds(p) ==
    /\ owns[p]
    /\ \/ pc[p] = "owner"
       \/ purpose[p] \in {"heartbeat", "verify"}
       \/ purpose[p] = "takeover" /\ pc[p] = "unguard"

-----------------------------------------------------------------------------
(* acquireCacheRefreshLock *)

Begin(p) ==
    /\ At(p, "idle")
    /\ released' = [released EXCEPT ![p] = FALSE]
    /\ Go(p, "creating")
    /\ UNCHANGED <<lock, guard, purpose, owns, crashes>>

\* tryCreateOwner
Create(p) ==
    /\ At(p, "creating")
    /\ IF lock = Missing
       THEN /\ lock' = FileOf(p)
            /\ owns' = [owns EXCEPT ![p] = TRUE]
            /\ Go(p, "owner")
       ELSE /\ Go(p, "waiting")
            /\ UNCHANGED <<lock, owns>>
    /\ UNCHANGED <<guard, purpose, released, crashes>>

\* One round of the wait loop: a missing lock, or one gone stale.
SeeMissing(p) ==
    /\ At(p, "waiting")
    /\ lock = Missing
    /\ Go(p, "missing")
    /\ UNCHANGED <<lock, guard, purpose, owns, released, crashes>>

SeeStale(p) ==
    /\ At(p, "waiting")
    /\ lock # Missing /\ lock.aged
    /\ purpose' = [purpose EXCEPT ![p] = "takeover"]
    /\ Go(p, "guard")
    /\ UNCHANGED <<lock, guard, owns, released, crashes>>

\* A guard means that a taker is between its two writes: wait on.
SeeGuard(p) ==
    /\ At(p, "missing")
    /\ Go(p, IF guard = Missing THEN "completed" ELSE "waiting")
    /\ UNCHANGED <<lock, guard, purpose, owns, released, crashes>>

\* 'completed-by-other' makes withLocalStateLease try again.
Retry(p) ==
    /\ At(p, "completed")
    /\ Go(p, "idle")
    /\ UNCHANGED <<lock, guard, purpose, owns, released, crashes>>

FaultyTimesOut(p) ==
    /\ At(p, "waiting")
    /\ Go(p, "timed-out")
    /\ UNCHANGED <<lock, guard, purpose, owns, released, crashes>>

TimesOut(p) ==
    /\ At(p, "waiting")
    /\ Go(p, "idle")
    /\ UNCHANGED <<lock, guard, purpose, owns, released, crashes>>

-----------------------------------------------------------------------------
(* acquireTakeoverGuard *)

NoGuard(p) ==
    /\ Go(p, CASE purpose[p] = "takeover" -> "waiting"
               [] purpose[p] \in {"heartbeat", "verify"} -> "owner"
               [] purpose[p] = "release" -> "guard")
    /\ purpose' = [purpose EXCEPT ![p] = IF @ = "release" THEN @ ELSE Missing]
    /\ UNCHANGED guard

FaultyGrab(p) ==
    /\ guard' = FileOf(p)
    /\ Go(p, "inspect")
    /\ UNCHANGED purpose

Grab(p) ==
    /\ guard = Missing
    /\ guard' = FileOf(p)
    /\ Go(p, "inspect")
    /\ UNCHANGED purpose

TakeGuard(p) ==
    /\ At(p, "guard")
    /\ \/ Grab(p)
       \/ guard # Missing /\ ~guard.aged /\ NoGuard(p)
    /\ UNCHANGED <<lock, owns, released, crashes>>

FaultyRespectStaleGuard(p) ==
    /\ At(p, "guard")
    /\ guard # Missing /\ guard.aged
    /\ NoGuard(p)
    /\ UNCHANGED <<lock, owns, released, crashes>>

\* Two equal observations of an aged guard decide to remove it.
SeeStaleGuard(p) ==
    /\ At(p, "guard")
    /\ guard # Missing /\ guard.aged
    /\ Go(p, "breaking")
    /\ UNCHANGED <<lock, guard, purpose, owns, released, crashes>>

\* The unlink is by path: it removes whatever guard is there by now.
BreakGuard(p) ==
    /\ At(p, "breaking")
    /\ guard' = Missing
    /\ Go(p, "regrab")
    /\ UNCHANGED <<lock, purpose, owns, released, crashes>>

RegrabGuard(p) ==
    /\ At(p, "regrab")
    /\ \/ Grab(p)
       \/ guard # Missing /\ NoGuard(p)
    /\ UNCHANGED <<lock, owns, released, crashes>>

-----------------------------------------------------------------------------
(* What is done under the guard *)

MyLock(p) == lock # Missing /\ lock.owner = p /\ owns[p]

FaultyInspect(p) ==
    /\ At(p, "inspect")
    /\ Go(p, CASE purpose[p] = "takeover" -> "evict"
               [] purpose[p] = "heartbeat" -> "beat"
               [] purpose[p] = "verify" -> "unguard"
               [] purpose[p] = "release" -> "drop")
    /\ UNCHANGED <<lock, guard, purpose, owns, released, crashes>>

\* The re-verification under the guard, by purpose.
Inspect(p) ==
    /\ At(p, "inspect")
    /\ Go(p, CASE purpose[p] = "takeover" ->
                      IF lock # Missing /\ lock.aged THEN "evict" ELSE "unguard"
               [] purpose[p] = "heartbeat" ->
                      IF MyLock(p) THEN "beat" ELSE "unguard"
               [] purpose[p] = "verify" -> "unguard"
               [] purpose[p] = "release" ->
                      IF MyLock(p) THEN "drop" ELSE "unguard")
    /\ UNCHANGED <<lock, guard, purpose, owns, released, crashes>>

\* tryTakeover: unlink the stale lock, then create the successor.
Evict(p) ==
    /\ At(p, "evict")
    /\ lock' = Missing
    /\ Go(p, "succeed")
    /\ UNCHANGED <<guard, purpose, owns, released, crashes>>

Succeed(p) ==
    /\ At(p, "succeed")
    /\ IF lock = Missing
       THEN lock' = FileOf(p) /\ owns' = [owns EXCEPT ![p] = TRUE]
       ELSE UNCHANGED <<lock, owns>>
    /\ Go(p, "unguard")
    /\ UNCHANGED <<guard, purpose, released, crashes>>

\* removeIfOwned: unlink the lock.
Drop(p) ==
    /\ At(p, "drop")
    /\ lock' = Missing
    /\ owns' = [owns EXCEPT ![p] = FALSE]
    /\ released' = [q \in Contender |-> TRUE]
    /\ Go(p, "unguard")
    /\ UNCHANGED <<guard, purpose, crashes>>

Beat(p) ==
    /\ At(p, "beat")
    /\ lock' = IF lock = Missing THEN Missing ELSE [lock EXCEPT !.aged = FALSE]
    /\ Go(p, "unguard")
    /\ UNCHANGED <<guard, purpose, owns, released, crashes>>

\* `finally`: the guard file is removed, whoever's it is by now.
Unguard(p) ==
    /\ At(p, "unguard")
    /\ guard' \in IF GuardLeaks THEN {Missing, guard} ELSE {Missing}
    /\ purpose' = [purpose EXCEPT ![p] = Missing]
    /\ owns' = [owns EXCEPT ![p] = @ /\ purpose[p] # "release"]
    /\ Go(p, CASE purpose[p] = "release" -> "idle"
               [] purpose[p] \in {"heartbeat", "verify"} -> "owner"
               [] purpose[p] = "takeover" -> IF owns[p] THEN "owner" ELSE "waiting")
    /\ UNCHANGED <<lock, released, crashes>>

-----------------------------------------------------------------------------
(* The owner *)

\* The heartbeat, or verifyStillOwner: one at a time (serializeOwnerOp).
UseLease(p) ==
    /\ At(p, "owner")
    /\ purpose' \in {[purpose EXCEPT ![p] = use] : use \in {"heartbeat", "verify"}}
    /\ Go(p, "guard")
    /\ UNCHANGED <<lock, guard, owns, released, crashes>>

StartRelease(p) ==
    /\ At(p, "owner")
    /\ purpose' = [purpose EXCEPT ![p] = "release"]
    /\ Go(p, "guard")
    /\ UNCHANGED <<lock, guard, owns, released, crashes>>

\* Twenty failed attempts at the guard: the lock is left to go stale.
GiveUpRelease(p) ==
    /\ At(p, "guard") /\ purpose[p] = "release"
    /\ guard # Missing /\ ~guard.aged
    /\ owns' = [owns EXCEPT ![p] = FALSE]
    /\ purpose' = [purpose EXCEPT ![p] = Missing]
    /\ Go(p, "idle")
    /\ UNCHANGED <<lock, guard, released, crashes>>

-----------------------------------------------------------------------------
(* Time and crashes *)

InGuard(p) == pc[p] \in Guarded

LockAges ==
    /\ lock # Missing /\ ~lock.aged
    /\ Stalls \/ ~owns[lock.owner]
    /\ lock' = [lock EXCEPT !.aged = TRUE]
    /\ UNCHANGED <<guard, pc, purpose, owns, released, crashes>>

\* A guard is held for milliseconds: it ages when its holder is gone.
GuardAges ==
    /\ guard # Missing /\ ~guard.aged
    /\ ~InGuard(guard.owner)
    /\ guard' = [guard EXCEPT !.aged = TRUE]
    /\ UNCHANGED <<lock, pc, purpose, owns, released, crashes>>

Dies(p) ==
    /\ ~At(p, "idle")
    /\ InGuard(p) => GuardLeaks
    /\ crashes < MaxCrashes
    /\ crashes' = crashes + 1
    /\ owns' = [owns EXCEPT ![p] = FALSE]
    /\ purpose' = [purpose EXCEPT ![p] = Missing]
    /\ Go(p, "idle")
    /\ UNCHANGED <<lock, guard, released>>

ProcStep(p) ==
    \/ Create(p) \/ SeeMissing(p) \/ SeeStale(p) \/ SeeGuard(p) \/ Retry(p)
    \/ TimesOut(p) \/ TakeGuard(p) \/ SeeStaleGuard(p) \/ BreakGuard(p)
    \/ RegrabGuard(p) \/ Inspect(p) \/ Evict(p) \/ Succeed(p) \/ Drop(p)
    \/ Beat(p) \/ Unguard(p) \/ GiveUpRelease(p)

LockNext ==
    \/ \E p \in Contender : Begin(p) \/ ProcStep(p) \/ UseLease(p) \/ StartRelease(p) \/ Dies(p)
    \/ LockAges
    \/ GuardAges

LockSpec == LockInit /\ [][LockNext]_lockVars

\* A started attempt goes on, the loop looks at the lock before it looks at its
\* deadline, transactions end, clocks advance and callers come back.
FairLockSpec ==
    /\ LockSpec
    /\ \A p \in Contender : /\ WF_lockVars(Begin(p) \/ ProcStep(p))
                            /\ SF_lockVars(SeeStale(p)) /\ SF_lockVars(StartRelease(p))
    /\ WF_lockVars(LockAges) /\ WF_lockVars(GuardAges)

-----------------------------------------------------------------------------
(* Properties *)

\* No two callers are inside the transaction that the lease protects ("Strict
\* gate for the warm session-cache read/reconcile/parse/save transaction").
MutualExclusion == \A p, q \in Contender : Holds(p) /\ Holds(q) => p = q

\* 'completed-by-other' is reported only when an owner did complete ("Do not
\* misreport that narrow gap as a clean completion by the previous owner").
CompletedMeansReleased == \A p \in Contender : pc[p] = "completed" => released[p]

\* The lock of a dead owner does not block its store for ever, even if a guard
\* was left behind with it.
StaleLockRecovered ==
    (lock # Missing /\ ~owns[lock.owner]) ~> (lock = Missing \/ owns[lock.owner])

\* The two files implement the abstract lease that the local stores rely on: a
\* process is given the lease only when nobody has it, and nobody else's action
\* takes it away.
AbstractLease == INSTANCE Lease WITH
    Proc <- Contender, holders <- {p \in Contender : owns[p]},
    orphaned <- lock # Missing /\ ~owns[lock.owner]
LeaseSpec == AbstractLease!Spec
=============================================================================
