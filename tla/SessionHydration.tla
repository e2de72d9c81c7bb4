-------------------------- MODULE SessionHydration --------------------------
(***************************************************************************)
(* Cold starts of the session cache: the hydration lock of                 *)
(* src/session-cache.ts and the parse of src/parser.ts that it wraps.      *)
(*                                                                         *)
(* Processes that find the cache incomplete share one advisory lock file.  *)
(* Whoever cannot get it parses anyway, so the lock promises little; what  *)
(* it must never do is keep a cold start waiting or stay behind.  A        *)
(* complete cache is refreshed under the lock of RefreshLock instead.      *)
(***************************************************************************)
EXTENDS Naturals, FiniteSets

CONSTANTS
    Starter,    \* processes, each with one cold start
    Source,     \* session sources to parse
    MaxDeaths   \* bound on the processes that are killed

ASSUME HydrationAssumption ==
    IsFiniteSet(Starter) /\ IsFiniteSet(Source) /\ MaxDeaths \in Nat

VARIABLES
    hydrating,     \* hydrating.lock: no file, or the one file: its pid, whether the
                   \* record is `written` and whether it is LOCK_FRESH_MS old, `stale`
    sessionCache,  \* the session cache on disk: its `files`, and if it is `complete`
    coldStep,      \* where each process is
    attempt,       \* which of the three attempts to create the lock it makes
    diskCache,     \* the cache it has loaded and extends
    dirty,         \* whether that holds work not saved
    holds          \* whether its handle releases the lock

coldVars == <<hydrating, sessionCache, coldStep, attempt, diskCache, dirty, holds>>

EmptyCache == [complete |-> FALSE, files |-> {}]

ColdInit ==
    /\ hydrating = {}
    /\ sessionCache = EmptyCache
    /\ coldStep = [p \in Starter |-> "idle"]
    /\ attempt = [p \in Starter |-> "first"]
    /\ diskCache = [p \in Starter |-> EmptyCache]
    /\ dirty = [p \in Starter |-> FALSE]
    /\ holds = [p \in Starter |-> FALSE]

MoveTo(p, there) == coldStep' = [coldStep EXCEPT ![p] = there]

\* A process in the middle of its cold start.
Starting(p) == coldStep[p] \notin {"idle", "returned", "dead"}

-----------------------------------------------------------------------------
(* The lock file *)

Own(p) == \E l \in hydrating : l.pid = p

\* readLockRecord: an unwritten file reads as no record.
Record == {l \in hydrating : l.written}

\* pidLooksAlive; the own pid never does.
LooksAlive(p, l) == l.pid # p /\ coldStep[l.pid] # "dead"

\* What comes after a lock that could not be created.
Refused(p) == CASE attempt[p] = "first"    -> "judge"
                [] attempt[p] = "waited"   -> "reload"
                [] attempt[p] = "replaced" -> "parse"

\* writeOurLock creates the file, which is visible before its record is.
CreateLock(p) ==
    /\ coldStep[p] = "create"
    /\ IF hydrating = {}
       THEN /\ hydrating' = {[pid |-> p, written |-> FALSE, stale |-> FALSE]}
            /\ MoveTo(p, "write")
       ELSE MoveTo(p, Refused(p)) /\ UNCHANGED hydrating
    /\ UNCHANGED <<sessionCache, attempt, diskCache, dirty, holds>>

FaultyWriteLock(p) ==
    /\ coldStep[p] = "write"
    /\ hydrating' = {[l EXCEPT !.written = @ \/ l.pid = p] : l \in hydrating}
    /\ holds' = [holds EXCEPT ![p] = attempt[p] # "waited"]
    /\ MoveTo(p, IF attempt[p] = "waited" THEN "reload" ELSE "parse")
    /\ UNCHANGED <<sessionCache, attempt, diskCache, dirty>>

\* The record goes into the created file, which another process may have
\* unlinked meanwhile; a write that fails leaves the file empty.
WriteLock(p) ==
    /\ coldStep[p] = "write"
    /\ \/ /\ hydrating' = {[l EXCEPT !.written = @ \/ l.pid = p] : l \in hydrating}
          /\ holds' = [holds EXCEPT ![p] = TRUE]
          /\ MoveTo(p, "parse")
       \/ /\ MoveTo(p, Refused(p))
          /\ UNCHANGED <<hydrating, holds>>
    /\ UNCHANGED <<sessionCache, attempt, diskCache, dirty>>

-----------------------------------------------------------------------------
(* beginColdHydration *)

\* parseAllSessionsWithHistoricalContext goes this way with an incomplete cache.
BeginCold(p) ==
    /\ coldStep[p] = "idle"
    /\ ~sessionCache.complete
    /\ diskCache' = [diskCache EXCEPT ![p] = sessionCache]
    /\ MoveTo(p, "create")
    /\ UNCHANGED <<hydrating, sessionCache, attempt, dirty, holds>>

\* Wait for a fresh lock of another live process; replace any other.
Judge(p) ==
    /\ coldStep[p] = "judge"
    /\ IF \E l \in Record : ~l.stale /\ LooksAlive(p, l)
       THEN MoveTo(p, "wait") /\ UNCHANGED attempt
       ELSE MoveTo(p, "unlink") /\ attempt' = [attempt EXCEPT ![p] = "replaced"]
    /\ UNCHANGED <<hydrating, sessionCache, diskCache, dirty, holds>>

FaultyWaitForLock(p) ==
    /\ coldStep[p] = "wait"
    /\ Record = {}
    /\ MoveTo(p, "reload")
    /\ UNCHANGED <<hydrating, sessionCache, attempt, diskCache, dirty, holds>>

\* The wait ends when the lock is gone, or at its deadline; a lock that has
\* become stale or whose owner has died is taken over.
WaitForLock(p) ==
    /\ coldStep[p] = "wait"
    /\ \/ MoveTo(p, "reload") /\ UNCHANGED attempt
       \/ /\ \E l \in Record : l.stale \/ ~LooksAlive(p, l)
          /\ MoveTo(p, "unlink") /\ attempt' = [attempt EXCEPT ![p] = "waited"]
    /\ UNCHANGED <<hydrating, sessionCache, diskCache, dirty, holds>>

\* By path, whichever lock is there by now.
UnlinkLock(p) ==
    /\ coldStep[p] = "unlink"
    /\ hydrating' = {}
    /\ MoveTo(p, "create")
    /\ UNCHANGED <<sessionCache, attempt, diskCache, dirty, holds>>

\* After a wait the cache is read again.
Reload(p) ==
    /\ coldStep[p] = "reload"
    /\ diskCache' = [diskCache EXCEPT ![p] = sessionCache]
    /\ MoveTo(p, "parse")
    /\ UNCHANGED <<hydrating, sessionCache, attempt, dirty, holds>>

-----------------------------------------------------------------------------
(* runParse *)

ParseSource(p) ==
    /\ coldStep[p] = "parse"
    /\ \E s \in Source \ diskCache[p].files :
           diskCache' = [diskCache EXCEPT ![p].files = @ \cup {s}]
    /\ dirty' = [dirty EXCEPT ![p] = TRUE]
    /\ UNCHANGED <<hydrating, sessionCache, coldStep, attempt, holds>>

\* saveProgress: only in a cold parse, and only when something is new.
SaveProgress(p) ==
    /\ coldStep[p] = "parse"
    /\ dirty[p] /\ ~diskCache[p].complete
    /\ sessionCache' = diskCache[p]
    /\ dirty' = [dirty EXCEPT ![p] = FALSE]
    /\ UNCHANGED <<hydrating, coldStep, attempt, diskCache, holds>>

FaultyFinishParse(p) ==
    /\ coldStep[p] = "parse"
    /\ diskCache[p].files = Source
    /\ IF dirty[p]
       THEN sessionCache' = [diskCache[p] EXCEPT !.complete = TRUE]
       ELSE UNCHANGED sessionCache
    /\ dirty' = [dirty EXCEPT ![p] = FALSE]
    /\ MoveTo(p, "release")
    /\ UNCHANGED <<hydrating, attempt, diskCache, holds>>

\* The scan has reached its end: the cache is marked, and saved even when only
\* the mark is new.
FinishParse(p) ==
    /\ coldStep[p] = "parse"
    /\ diskCache[p].files = Source
    /\ IF dirty[p] \/ ~diskCache[p].complete
       THEN sessionCache' = [diskCache[p] EXCEPT !.complete = TRUE]
       ELSE UNCHANGED sessionCache
    /\ dirty' = [dirty EXCEPT ![p] = FALSE]
    /\ MoveTo(p, "release")
    /\ UNCHANGED <<hydrating, attempt, diskCache, holds>>

\* A parse that throws, or whose last save fails, leaves its work unsaved; the
\* lock is released all the same.
ParseFails(p) ==
    /\ coldStep[p] = "parse"
    /\ dirty' = [dirty EXCEPT ![p] = TRUE]
    /\ MoveTo(p, "release")
    /\ UNCHANGED <<hydrating, sessionCache, attempt, diskCache, holds>>

-----------------------------------------------------------------------------
(* The end of a cold start *)

\* removeOurLock reads the record, then unlinks by path.
ReleaseLock(p) ==
    /\ coldStep[p] = "release"
    /\ MoveTo(p, IF holds[p] /\ \E l \in Record : l.pid = p THEN "remove" ELSE "returned")
    /\ UNCHANGED <<hydrating, sessionCache, attempt, diskCache, dirty, holds>>

RemoveLock(p) ==
    /\ coldStep[p] = "remove"
    /\ hydrating' = {}
    /\ MoveTo(p, "returned")
    /\ UNCHANGED <<sessionCache, attempt, diskCache, dirty, holds>>

Deaths == Cardinality({p \in Starter : coldStep[p] = "dead"})

\* A kill, or a signal: the handler for those removes the own lock, but it is not
\* armed for a lock that replaced another one.
Killed(p) ==
    /\ Starting(p)
    /\ Deaths < MaxDeaths
    /\ \/ UNCHANGED hydrating
       \/ /\ holds[p] /\ attempt[p] # "replaced"
          /\ hydrating' = {l \in hydrating : ~(l.written /\ l.pid = p)}
    /\ MoveTo(p, "dead")
    /\ UNCHANGED <<sessionCache, attempt, diskCache, dirty, holds>>

\* Fifteen minutes pass for the holder of the lock.
LockBecomesStale ==
    /\ hydrating # {}
    /\ hydrating' = {[l EXCEPT !.stale = TRUE] : l \in hydrating}
    /\ UNCHANGED <<sessionCache, coldStep, attempt, diskCache, dirty, holds>>

ColdStartStep(p) ==
    \/ CreateLock(p) \/ WriteLock(p)
    \/ Judge(p) \/ WaitForLock(p) \/ UnlinkLock(p) \/ Reload(p)
    \/ ParseSource(p) \/ FinishParse(p) \/ ParseFails(p)
    \/ ReleaseLock(p) \/ RemoveLock(p)

ColdNext ==
    \/ \E p \in Starter : \/ BeginCold(p) \/ ColdStartStep(p)
                          \/ SaveProgress(p) \/ Killed(p)
    \/ LockBecomesStale

ColdSpec == ColdInit /\ [][ColdNext]_coldVars

-----------------------------------------------------------------------------
(* Properties *)

\* Every cold start comes to its end whatever the others do, be they suspended,
\* killed, or taking the lock one after the other ("it can never wedge a cold
\* start", session-cache.ts:756).  Only the process itself need go on.
ColdStartReturns == \A p \in Starter : Starting(p) ~> ~Starting(p)

\* A record that another process would wait for belongs to a process that is
\* still in its cold start or was killed in it; nobody returns and leaves a lock
\* behind, although locks are unlinked by path and replaced under their owners.
LockLeftOnlyByDead ==
    \A l \in Record : Starting(l.pid) \/ coldStep[l.pid] = "dead"

\* Cold starts that race each other unlocked still end in a complete cache: when
\* all have come to an end and none was killed or lost its work, the last save
\* was a marked one, so a partial save cannot be what stays.
CompleteAtRest ==
    (/\ \A p \in Starter : coldStep[p] \in {"idle", "returned"} /\ ~dirty[p]
     /\ \E p \in Starter : coldStep[p] = "returned")
        => sessionCache = [complete |-> TRUE, files |-> Source]
=============================================================================
