--------------------------- MODULE ServiceProofs ----------------------------
(***************************************************************************)
(* Theorems about the services of MCServices that are safe as well as      *)
(* live: a push of the action ledger (SyncPush) and a cold start of the    *)
(* session cache (SessionHydration), for any number of processes, calls,   *)
(* retries, sources and deaths.                                            *)
(***************************************************************************)
EXTENDS MCServices, TLAPS


-----------------------------------------------------------------------------
(***************************************************************************)
(* SyncPush                                                                *)
(***************************************************************************)

\* What a push carries to the ledger has been accepted, at every step between the
\* answer and the rename.
CarriesAccepted ==
    \A u \in Pusher :
        /\ pushStep[u] = "read" => batch[u] \subseteq accepted
        /\ pushStep[u] \in {"write", "rename"} => entries[u] \subseteq accepted

PushInvariant == PushTypeOK /\ LedgerOnlyAccepted /\ CarriesAccepted

LEMMA FirstIsPart ==
    ASSUME NEW n, NEW S
    PROVE  First(n, S) \subseteq S
  BY DEF First

LEMMA PushInvariantInit == PushInit => PushInvariant
  BY PushAssumption
  DEF PushInit, PushInvariant, PushTypeOK, LedgerOnlyAccepted, CarriesAccepted

\* A push that ends carries nothing, and leaves the others alone.
LEMMA EndPushKeeps ==
    ASSUME PushInvariant, NEW u \in Pusher, EndPush(u),
           accepted \subseteq accepted', accepted' \subseteq Span,
           ledger' = ledger, ledgerTmp' = ledgerTmp, calls' = calls,
           resets' \in 0 .. MaxResets, stops' \in 0 .. MaxStops
    PROVE  PushInvariant'
  <1> USE DEF PushInvariant
  <1>1. PushTypeOK'
    BY PushAssumption DEF PushTypeOK, EndPush
  <1>2. LedgerOnlyAccepted'
    BY DEF LedgerOnlyAccepted
  <1>3. CarriesAccepted'
    BY DEF CarriesAccepted, EndPush, PushTypeOK
  <1> QED
    BY <1>1, <1>2, <1>3

LEMMA PushInvariantStep ==
    ASSUME PushInvariant, [PushNext]_pushVars
    PROVE  PushInvariant'
  <1> USE PushAssumption DEF PushInvariant
  <1>1. CASE NewCall
    BY <1>1 DEF NewCall, PushTypeOK, LedgerOnlyAccepted, CarriesAccepted
  <1>2. CASE Reset
    BY <1>2 DEF Reset, PushTypeOK, LedgerOnlyAccepted, CarriesAccepted
  <1>3. ASSUME NEW u \in Pusher, Collect(u) PROVE PushInvariant'
    <2>1. First(MaxPerPush, calls \ ledger) \subseteq Span
      BY FirstIsPart DEF PushTypeOK
    <2> QED
      BY <1>3, <2>1 DEF Collect, PushTypeOK, LedgerOnlyAccepted, CarriesAccepted
  <1>4. ASSUME NEW u \in Pusher, NextBatch(u) PROVE PushInvariant'
    <2>1. First(MaxBatch, unsent[u]) \subseteq Span
      BY FirstIsPart DEF PushTypeOK
    <2>2. PushTypeOK'
      BY <1>4, <2>1 DEF NextBatch, PushTypeOK
    <2>3. LedgerOnlyAccepted'
      BY <1>4 DEF NextBatch, LedgerOnlyAccepted
    <2>4. CarriesAccepted'
      BY <1>4 DEF NextBatch, CarriesAccepted, PushTypeOK
    <2> QED
      BY <2>2, <2>3, <2>4
  <1>5. ASSUME NEW u \in Pusher, Accept(u) PROVE PushInvariant'
    <2>1. PushTypeOK'
      BY <1>5 DEF Accept, PushTypeOK
    <2>2. LedgerOnlyAccepted' /\ CarriesAccepted'
      BY <1>5 DEF Accept, LedgerOnlyAccepted, CarriesAccepted, PushTypeOK
    <2> QED
      BY <2>1, <2>2
  <1>6. ASSUME NEW u \in Pusher, AcceptPart(u) PROVE PushInvariant'
    <2>1. PICK part \in SUBSET batch[u] : accepted' = accepted \cup part
      BY <1>6 DEF AcceptPart
    <2>2. PushTypeOK'
      BY <1>6, <2>1 DEF AcceptPart, PushTypeOK
    <2>3. LedgerOnlyAccepted' /\ CarriesAccepted'
      BY <1>6, <2>1 DEF AcceptPart, LedgerOnlyAccepted, CarriesAccepted, PushTypeOK
    <2> QED
      BY <2>2, <2>3
  <1>7. ASSUME NEW u \in Pusher, RateLimited(u) PROVE PushInvariant'
    <2>1. CASE retries[u] = Max429
      BY <1>7, <2>1, EndPushKeeps DEF RateLimited, PushTypeOK
    <2>2. CASE retries[u] # Max429
      <3>1. retries'[u] \in 0 .. Max429
        BY <1>7, <2>2 DEF RateLimited, PushTypeOK
      <3>2. PushTypeOK'
        BY <1>7, <2>2, <3>1 DEF RateLimited, PushTypeOK
      <3> QED
        BY <1>7, <2>2, <3>2 DEF RateLimited, LedgerOnlyAccepted, CarriesAccepted
    <2> QED
      BY <2>1, <2>2
  <1>8. ASSUME NEW u \in Pusher, SendFails(u) PROVE PushInvariant'
    BY <1>8, EndPushKeeps DEF SendFails, PushTypeOK
  <1>9. ASSUME NEW u \in Pusher, ReadLedger(u) PROVE PushInvariant'
    <2>1. PushTypeOK'
      BY <1>9 DEF ReadLedger, PushTypeOK
    <2>2. LedgerOnlyAccepted' /\ CarriesAccepted'
      BY <1>9 DEF ReadLedger, LedgerOnlyAccepted, CarriesAccepted, PushTypeOK
    <2> QED
      BY <2>1, <2>2
  <1>10. ASSUME NEW u \in Pusher, WriteLedgerTmp(u) PROVE PushInvariant'
    <2>1. PushTypeOK'
      BY <1>10 DEF WriteLedgerTmp, PushTypeOK
    <2>2. LedgerOnlyAccepted' /\ CarriesAccepted'
      BY <1>10 DEF WriteLedgerTmp, LedgerOnlyAccepted, CarriesAccepted, PushTypeOK
    <2> QED
      BY <2>1, <2>2
  <1>11. ASSUME NEW u \in Pusher, RenameLedger(u) PROVE PushInvariant'
    <2>1. CASE ledgerTmp = {}
      BY <1>11, <2>1, EndPushKeeps DEF RenameLedger, PushTypeOK
    <2>2. CASE ledgerTmp # {}
      <3>1. PICK tmp \in ledgerTmp : ledger' = tmp
        BY <1>11, <2>2 DEF RenameLedger
      <3>2. tmp \subseteq Span /\ tmp \subseteq accepted
        BY DEF PushTypeOK, LedgerOnlyAccepted
      <3>3. PushTypeOK'
        BY <1>11, <2>2, <3>1, <3>2 DEF RenameLedger, PushTypeOK
      <3>4. LedgerOnlyAccepted' /\ CarriesAccepted'
        BY <1>11, <2>2, <3>1, <3>2
        DEF RenameLedger, LedgerOnlyAccepted, CarriesAccepted, PushTypeOK
      <3> QED
        BY <3>3, <3>4
    <2> QED
      BY <2>1, <2>2
  <1>12. ASSUME NEW u \in Pusher, PushCompletes(u) \/ PushStops(u) PROVE PushInvariant'
    <2>1. CASE PushCompletes(u)
      BY <2>1, EndPushKeeps DEF PushCompletes, PushTypeOK
    <2>2. CASE PushStops(u)
      <3>1. stops' \in 0 .. MaxStops /\ resets' \in 0 .. MaxResets
        BY <2>2 DEF PushStops, PushTypeOK
      <3>2. accepted' = accepted /\ accepted \subseteq Span
        BY <2>2 DEF PushStops, PushTypeOK
      <3> QED
        BY <2>2, <3>1, <3>2, EndPushKeeps DEF PushStops
    <2> QED
      BY <1>12, <2>1, <2>2
  <1>13. CASE UNCHANGED pushVars
    BY <1>13 DEF pushVars, PushTypeOK, LedgerOnlyAccepted, CarriesAccepted
  <1> QED
    BY <1>1, <1>2, <1>3, <1>4, <1>5, <1>6, <1>7, <1>8, <1>9, <1>10, <1>11, <1>12, <1>13
    DEF PushNext, Advances, EndpointAnswers

\* The ledger names nothing that the endpoint has not stored, whatever pushes race,
\* fail, stop or reset it: a call that later pushes skip has been delivered.
THEOREM LedgerIsHonest == PushSpec => [](PushTypeOK /\ LedgerOnlyAccepted)
  <1>1. PushInvariant => PushTypeOK /\ LedgerOnlyAccepted
    BY DEF PushInvariant
  <1> QED
    BY PushInvariantInit, PushInvariantStep, <1>1, PTL DEF PushSpec

-----------------------------------------------------------------------------
(***************************************************************************)
(* SessionHydration                                                        *)
(***************************************************************************)

LockFile == [pid : Starter, written : BOOLEAN, stale : BOOLEAN]
ColdCache == [complete : BOOLEAN, files : SUBSET Source]
ColdSteps == {"idle", "create", "write", "judge", "wait", "unlink", "reload",
              "parse", "release", "remove", "returned", "dead"}

ColdTypes ==
    /\ hydrating \subseteq LockFile
    /\ sessionCache \in ColdCache
    /\ coldStep \in [Starter -> ColdSteps]
    /\ attempt \in [Starter -> {"first", "waited", "replaced"}]
    /\ diskCache \in [Starter -> ColdCache]
    /\ dirty \in [Starter -> BOOLEAN] /\ holds \in [Starter -> BOOLEAN]

\* A record is that of a process whose handle releases the lock, and which has not
\* come to the end of its release.
Recorded ==
    \A l \in hydrating : l.written =>
        holds[l.pid] /\ coldStep[l.pid] \in {"parse", "release", "remove", "dead"}

\* A cache that is marked has all sources.
Marked(cache) == cache.complete => cache.files = Source

\* Whoever is killed, keeps work unsaved, or has still to mark the cache.
Pending(p) ==
    \/ coldStep[p] = "dead" \/ dirty[p]
    \/ coldStep[p] \notin {"idle", "release", "remove", "returned"} /\ ~diskCache[p].complete

Settled == sessionCache.complete \/ \E p \in Starter : Pending(p)

\* Who has parsed, or met a marked cache, leaves a marked cache or one that
\* somebody else will mark.
Saved ==
    /\ Marked(sessionCache) /\ \A p \in Starter : Marked(diskCache[p])
    /\ \A p \in Starter :
          \/ coldStep[p] \in {"release", "remove", "returned"}
          \/ coldStep[p] # "idle" /\ diskCache[p].complete
          => Settled

ColdInvariant == ColdTypes /\ Recorded /\ Saved

LEMMA ColdInvariantInit == ColdInit => ColdInvariant
  BY DEF ColdInit, ColdInvariant, ColdTypes, Recorded, Saved, EmptyCache, ColdCache,
         ColdSteps, Marked

\* A step of p that writes neither a cache nor `dirty` and goes on before the end
\* of the parse leaves open what was open.
LEMMA StillSaved ==
    ASSUME ColdInvariant, NEW p \in Starter, ColdTypes',
           sessionCache' = sessionCache, diskCache' = diskCache, dirty' = dirty,
           \E there \in ColdSteps : coldStep' = [coldStep EXCEPT ![p] = there],
           coldStep[p] \notin {"idle", "release", "remove", "returned", "dead"},
           coldStep'[p] \notin {"idle", "release", "remove", "returned"}
    PROVE  Saved'
  <1> USE DEF ColdInvariant, ColdTypes
  <1>1. \A q \in Starter : Pending(q) => Pending(q)'
    BY DEF Pending
  <1>2. Settled => Settled'
    BY <1>1 DEF Settled
  <1> QED
    BY <1>2 DEF Saved, Marked

\* The lock file changes at most its age or vanishes, and p does not leave the
\* steps in which its record may stand, unless it has none.
LEMMA StillRecorded ==
    ASSUME ColdInvariant, NEW p \in Starter,
           \A l \in hydrating' : l.written => \E o \in hydrating : o.written /\ o.pid = l.pid,
           holds' = holds,
           \E there \in ColdSteps : coldStep' = [coldStep EXCEPT ![p] = there],
           \/ coldStep'[p] \in {"parse", "release", "remove", "dead"}
           \/ coldStep[p] \notin {"parse", "release", "remove", "dead"}
           \/ \A l \in hydrating' : l.written => l.pid # p
    PROVE  Recorded'
  BY DEF ColdInvariant, ColdTypes, LockFile, Recorded

LEMMA RefusedGoesOn ==
    ASSUME ColdTypes, NEW p \in Starter
    PROVE  Refused(p) \in {"judge", "reload", "parse"}
  <1>1. attempt[p] \in {"first", "waited", "replaced"}
    BY DEF ColdTypes
  <1> QED
    BY <1>1 DEF Refused

LEMMA ColdInvariantStep ==
    ASSUME ColdInvariant, [ColdNext]_coldVars
    PROVE  ColdInvariant'
  <1> USE DEF ColdInvariant, MoveTo
  <1>1. ASSUME NEW p \in Starter, CreateLock(p) PROVE ColdInvariant'
    <2>1. ColdTypes'
      <3>1. coldStep' \in [Starter -> ColdSteps]
        BY <1>1, RefusedGoesOn DEF CreateLock, ColdTypes, ColdSteps
      <3>2. [pid |-> p, written |-> FALSE, stale |-> FALSE] \in LockFile
        BY DEF LockFile
      <3>3. hydrating' \subseteq LockFile
        BY <1>1, <3>2 DEF CreateLock, ColdTypes
      <3> QED
        BY <1>1, <3>1, <3>3 DEF CreateLock, ColdTypes
    <2>2. Recorded'
      BY <1>1, RefusedGoesOn, StillRecorded DEF CreateLock, ColdSteps, ColdTypes
    <2>3. Saved'
      BY <1>1, RefusedGoesOn, <2>1, StillSaved DEF CreateLock, ColdSteps, ColdTypes
    <2> QED
      BY <2>1, <2>2, <2>3
  <1>2. ASSUME NEW p \in Starter, WriteLock(p) PROVE ColdInvariant'
    <2>1. ColdTypes'
      <3>1. coldStep' \in [Starter -> ColdSteps] /\ holds' \in [Starter -> BOOLEAN]
        BY <1>2, RefusedGoesOn DEF WriteLock, ColdTypes, ColdSteps
      <3>2. \A l \in LockFile : [l EXCEPT !.written = @ \/ l.pid = p] \in LockFile
        BY DEF LockFile
      <3>3. hydrating' \subseteq LockFile
        BY <1>2, <3>2 DEF WriteLock, ColdTypes
      <3> QED
        BY <1>2, <3>1, <3>3 DEF WriteLock, ColdTypes
    <2>2. Recorded'
      <3>1. CASE UNCHANGED <<hydrating, holds>>
        BY <1>2, RefusedGoesOn, <3>1, StillRecorded DEF WriteLock, ColdSteps, ColdTypes
      <3>2. CASE /\ hydrating' = {[l EXCEPT !.written = @ \/ l.pid = p] : l \in hydrating}
                 /\ holds' = [holds EXCEPT ![p] = TRUE]
                 /\ coldStep' = [coldStep EXCEPT ![p] = "parse"]
        <4>1. \A l \in hydrating' : l.written =>
                  \E o \in hydrating : o.pid = l.pid /\ (o.written \/ o.pid = p)
          BY <3>2 DEF ColdTypes, LockFile
        <4> QED
          BY <3>2, <4>1 DEF ColdTypes, LockFile, Recorded
      <3> QED
        BY <1>2, RefusedGoesOn, <3>1, <3>2 DEF WriteLock
    <2>3. Saved'
      BY <1>2, RefusedGoesOn, <2>1, StillSaved DEF WriteLock, ColdSteps, ColdTypes
    <2> QED
      BY <2>1, <2>2, <2>3
  <1>3. ASSUME NEW p \in Starter, BeginCold(p) PROVE ColdInvariant'
    <2>1. ColdTypes'
      BY <1>3 DEF BeginCold, ColdTypes, ColdSteps
    <2>2. Recorded'
      BY <1>3, StillRecorded DEF BeginCold, ColdTypes, ColdSteps
    <2>3. Pending(p)'
      BY <1>3 DEF BeginCold, Pending, ColdTypes
    <2>4. Saved'
      BY <1>3, <2>3 DEF BeginCold, Saved, Settled, Marked, ColdTypes
    <2> QED
      BY <2>1, <2>2, <2>4
  <1>4. ASSUME NEW p \in Starter, Judge(p) PROVE ColdInvariant'
    <2>1. ColdTypes'
      BY <1>4 DEF Judge, ColdTypes, ColdSteps
    <2>2. Recorded'
      BY <1>4, StillRecorded DEF Judge, ColdTypes, ColdSteps
    <2>3. Saved'
      BY <1>4, <2>1, StillSaved DEF Judge, ColdTypes, ColdSteps
    <2> QED
      BY <2>1, <2>2, <2>3
  <1>5. ASSUME NEW p \in Starter, WaitForLock(p) PROVE ColdInvariant'
    <2>1. ColdTypes'
      BY <1>5 DEF WaitForLock, ColdTypes, ColdSteps
    <2>2. Recorded'
      BY <1>5, StillRecorded DEF WaitForLock, ColdTypes, ColdSteps
    <2>3. Saved'
      BY <1>5, <2>1, StillSaved DEF WaitForLock, ColdTypes, ColdSteps
    <2> QED
      BY <2>1, <2>2, <2>3
  <1>6. ASSUME NEW p \in Starter, UnlinkLock(p) PROVE ColdInvariant'
    <2>1. ColdTypes'
      BY <1>6 DEF UnlinkLock, ColdTypes, ColdSteps
    <2>2. Recorded'
      BY <1>6 DEF UnlinkLock, Recorded
    <2>3. Saved'
      BY <1>6, <2>1, StillSaved DEF UnlinkLock, ColdTypes, ColdSteps
    <2> QED
      BY <2>1, <2>2, <2>3
  <1>7. ASSUME NEW p \in Starter, Reload(p) PROVE ColdInvariant'
    <2>1. ColdTypes'
      BY <1>7 DEF Reload, ColdTypes, ColdSteps
    <2>2. Recorded'
      BY <1>7, StillRecorded DEF Reload, ColdTypes, ColdSteps
    <2>3. Settled'
      BY <1>7 DEF Reload, Settled, Pending, ColdTypes
    <2>4. Saved'
      BY <1>7, <2>3 DEF Reload, Saved, Marked, ColdTypes
    <2> QED
      BY <2>1, <2>2, <2>4
  <1>8. ASSUME NEW p \in Starter, ParseSource(p) PROVE ColdInvariant'
    <2>1. PICK s \in Source : diskCache' = [diskCache EXCEPT ![p].files = @ \cup {s}]
                              /\ s \notin diskCache[p].files
      BY <1>8 DEF ParseSource
    <2>2. ColdTypes'
      BY <1>8, <2>1 DEF ParseSource, ColdTypes, ColdCache
    <2>3. Recorded'
      BY <1>8 DEF ParseSource, Recorded
    <2>4. Settled'
      BY <1>8 DEF ParseSource, Settled, Pending, ColdTypes
    <2>5. Saved'
      BY <1>8, <2>1, <2>4 DEF ParseSource, Saved, Marked, ColdTypes, ColdCache
    <2> QED
      BY <2>2, <2>3, <2>5
  <1>9. ASSUME NEW p \in Starter, SaveProgress(p) PROVE ColdInvariant'
    <2>1. ColdTypes'
      BY <1>9 DEF SaveProgress, ColdTypes
    <2>2. Recorded'
      BY <1>9 DEF SaveProgress, Recorded
    <2>3. Settled'
      BY <1>9 DEF SaveProgress, Settled, Pending, ColdTypes
    <2>4. Saved'
      BY <1>9, <2>3 DEF SaveProgress, Saved, Marked, ColdTypes
    <2> QED
      BY <2>1, <2>2, <2>4
  <1>10. ASSUME NEW p \in Starter, FinishParse(p) PROVE ColdInvariant'
    <2>1. ColdTypes'
      <3>1. diskCache[p] \in ColdCache
        BY DEF ColdTypes
      <3>2. [diskCache[p] EXCEPT !.complete = TRUE] \in ColdCache
        BY <3>1 DEF ColdCache
      <3>3. sessionCache' \in ColdCache
        BY <1>10, <3>2 DEF FinishParse, ColdTypes
      <3>4. coldStep' \in [Starter -> ColdSteps] /\ dirty' \in [Starter -> BOOLEAN]
        BY <1>10 DEF FinishParse, MoveTo, ColdTypes, ColdSteps
      <3> QED
        BY <1>10, <3>3, <3>4 DEF FinishParse, ColdTypes
    <2>2. Recorded'
      BY <1>10, StillRecorded DEF FinishParse, ColdTypes, ColdSteps
    <2>3. Settled'
      <3>1. CASE dirty[p] \/ ~diskCache[p].complete
        BY <1>10, <3>1 DEF FinishParse, Settled, ColdTypes, ColdCache
      <3>2. CASE ~dirty[p] /\ diskCache[p].complete
        <4>1. Settled /\ ~Pending(p)
          BY <1>10, <3>2 DEF FinishParse, Saved, Pending
        <4> QED
          BY <1>10, <3>2, <4>1 DEF FinishParse, Settled, Pending, ColdTypes
      <3> QED
        BY <3>1, <3>2 DEF ColdTypes, ColdCache
    <2>4. Saved'
      BY <1>10, <2>3 DEF FinishParse, Saved, Marked, ColdTypes, ColdCache
    <2> QED
      BY <2>1, <2>2, <2>4
  <1>11. ASSUME NEW p \in Starter, ParseFails(p) PROVE ColdInvariant'
    <2>1. ColdTypes'
      BY <1>11 DEF ParseFails, ColdTypes, ColdSteps
    <2>2. Recorded'
      BY <1>11, StillRecorded DEF ParseFails, ColdTypes, ColdSteps
    <2>3. Settled'
      BY <1>11 DEF ParseFails, Settled, Pending, ColdTypes
    <2>4. Saved'
      BY <1>11, <2>3 DEF ParseFails, Saved, Marked
    <2> QED
      BY <2>1, <2>2, <2>4
  <1>12. ASSUME NEW p \in Starter, ReleaseLock(p) \/ RemoveLock(p) PROVE ColdInvariant'
    <2>1. ColdTypes'
      BY <1>12 DEF ReleaseLock, RemoveLock, ColdTypes, ColdSteps
    <2>2. Recorded'
      BY <1>12 DEF ReleaseLock, RemoveLock, ColdTypes, LockFile, Recorded, Record
    <2>3. \A q \in Starter : Pending(q) => Pending(q)'
      BY <1>12 DEF ReleaseLock, RemoveLock, Pending, ColdTypes
    <2>4. Saved'
      BY <1>12, <2>3 DEF ReleaseLock, RemoveLock, Saved, Settled, Marked, ColdTypes
    <2> QED
      BY <2>1, <2>2, <2>4
  <1>13. ASSUME NEW p \in Starter, Killed(p) PROVE ColdInvariant'
    <2>1. ColdTypes'
      BY <1>13 DEF Killed, ColdTypes, ColdSteps
    <2>2. Recorded'
      BY <1>13, StillRecorded DEF Killed, ColdTypes, ColdSteps
    <2>3. Settled'
      BY <1>13 DEF Killed, Settled, Pending, ColdTypes
    <2>4. Saved'
      BY <1>13, <2>3 DEF Killed, Saved, Marked
    <2> QED
      BY <2>1, <2>2, <2>4
  <1>14. CASE LockBecomesStale
    <2>1. ColdTypes'
      <3>1. hydrating' \subseteq LockFile
        <4>1. \A l \in LockFile : [l EXCEPT !.stale = TRUE] \in LockFile
          BY DEF LockFile
        <4> QED
          BY <1>14, <4>1 DEF LockBecomesStale, ColdTypes
      <3> QED
        BY <1>14, <3>1 DEF LockBecomesStale, ColdTypes
    <2>2. \A l \in hydrating' : l.written => \E o \in hydrating : o.written /\ o.pid = l.pid
      BY <1>14 DEF LockBecomesStale, ColdTypes, LockFile
    <2>3. Recorded'
      BY <1>14, <2>2 DEF LockBecomesStale, Recorded
    <2>4. Saved'
      BY <1>14 DEF LockBecomesStale, Saved, Settled, Pending, Marked
    <2> QED
      BY <2>1, <2>3, <2>4
  <1>15. CASE UNCHANGED coldVars
    BY <1>15 DEF coldVars, ColdTypes, Recorded, Saved, Settled, Pending, Marked
  <1> QED
    BY <1>1, <1>2, <1>3, <1>4, <1>5, <1>6, <1>7, <1>8, <1>9, <1>10, <1>11, <1>12, <1>13,
       <1>14, <1>15
    DEF ColdNext, ColdStartStep

LEMMA ColdAlways == ColdSpec => []ColdInvariant
  BY ColdInvariantInit, ColdInvariantStep, PTL DEF ColdSpec

-----------------------------------------------------------------------------
(* Theorems *)

\* Nobody returns and leaves a lock behind that others would wait for, whoever
\* unlinks or replaces locks by path meanwhile (beginColdHydration).
THEOREM LockLeftByDead == ColdSpec => []LockLeftOnlyByDead
  <1>1. ColdInvariant => LockLeftOnlyByDead
    BY DEF ColdInvariant, ColdTypes, LockFile, Recorded, LockLeftOnlyByDead, Record, Starting
  <1> QED
    BY <1>1, ColdAlways, PTL

\* Unlocked cold starts may overwrite a marked cache with a partial one, but not
\* for good: when all have ended well, the cache is marked and complete.
THEOREM RestsComplete == ColdSpec => []CompleteAtRest
  <1>1. ColdInvariant => CompleteAtRest
    <2> SUFFICES ASSUME ColdInvariant,
                        \A p \in Starter : coldStep[p] \in {"idle", "returned"} /\ ~dirty[p],
                        NEW p \in Starter, coldStep[p] = "returned"
                 PROVE  sessionCache = [complete |-> TRUE, files |-> Source]
      BY DEF CompleteAtRest
    <2>1. \A q \in Starter : ~Pending(q)
      BY DEF Pending
    <2>2. sessionCache.complete
      BY <2>1 DEF ColdInvariant, Saved, Settled
    <2> QED
      BY <2>2 DEF ColdInvariant, Saved, Marked, ColdTypes, ColdCache
  <1> QED
    BY <1>1, ColdAlways, PTL

-----------------------------------------------------------------------------
(***************************************************************************)
(* The composition of MCServices                                           *)
(***************************************************************************)

\* The services share no variable, so the behaviours of the run are behaviours of
\* each of them: whatever is proved of a service holds in the run.
THEOREM ServicesAreIndependent == Spec => ColdSpec /\ PushSpec /\ ShareSpec
  <1>1. Init => ColdInit /\ PushInit /\ ShareInit
    BY DEF Init
  <1>2. [Next]_vars => [ColdNext]_coldVars /\ [PushNext]_pushVars /\ [ShareNext]_shareVars
    BY DEF Next, Hydration, Pushes, Shares, vars
  <1> QED
    BY <1>1, <1>2, PTL DEF Spec, ColdSpec, PushSpec, ShareSpec
=============================================================================
