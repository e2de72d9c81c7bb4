-------------------------- MODULE RefreshLockProofs --------------------------
(***************************************************************************)
(* Theorems about RefreshLock, for any number of processes and crashes, in *)
(* the environment where the lock is meant to work: nobody is suspended    *)
(* for longer than staleMs and no guard is left behind.                    *)
(***************************************************************************)
EXTENDS RefreshLock, TLAPS

Quiet == ~Stalls /\ ~GuardLeaks

\* The guard is its holder's; an owner's lock is there and fresh; a taker about
\* to evict still sees the stale lock.
Guarding ==
    /\ guard # Missing => ~guard.aged /\ InGuard(guard.owner)
    /\ \A p \in Contender :
          /\ InGuard(p) => guard # Missing /\ guard.owner = p
          /\ pc[p] \notin {"breaking", "regrab"}
          /\ InGuard(p) \/ pc[p] = "guard" => purpose[p] \in Purpose
Owning ==
    \A p \in Contender :
        /\ owns[p] => lock # Missing /\ lock.owner = p /\ ~lock.aged
        /\ pc[p] = "evict" => lock # Missing /\ lock.aged
        /\ pc[p] \in {"drop", "beat"} => owns[p]

LockInvariant == LockTypeOK /\ Guarding /\ Owning

LEMMA FileFields ==
    ASSUME NEW f \in File
    PROVE  f # Missing /\ f.owner \in Contender /\ f.aged \in BOOLEAN
  BY MissingAssumption DEF File

LEMMA FileOfIsFile ==
    ASSUME NEW p \in Contender
    PROVE  FileOf(p) \in File /\ FileOf(p) # Missing
           /\ FileOf(p).owner = p /\ ~FileOf(p).aged
  <1>1. FileOf(p) \in File
    BY DEF File, FileOf
  <1> QED
    BY <1>1, FileFields DEF FileOf

LEMMA LockInvariantInit == LockInit => LockInvariant
  BY LockAssumption DEF LockInit, LockInvariant, LockTypeOK, Guarding, Owning, InGuard,
     Guarded, Pc

\* Steps that move one process, outside the guard, and touch no file.
LEMMA MoveInvariant ==
    ASSUME LockInvariant, NEW p \in Contender, NEW there \in Pc \ Guarded,
           ~InGuard(p), there \notin {"breaking", "regrab"}, Go(p, there),
           UNCHANGED <<lock, guard>>,
           purpose' \in [Contender -> Purpose \cup {Missing}],
           \A q \in Contender : q # p => purpose'[q] = purpose[q],
           there = "guard" => purpose'[p] \in Purpose,
           owns' \in {owns, [owns EXCEPT ![p] = FALSE]},
           released' \in [Contender -> BOOLEAN],
           crashes' \in 0 .. MaxCrashes
    PROVE  LockInvariant'
  <1> USE DEF LockInvariant, Go, InGuard
  <1>1. LockTypeOK'
    BY DEF LockTypeOK
  <1>2. Guarding'
    BY FileFields DEF Guarding, LockTypeOK, Guarded
  <1>3. Owning'
    BY DEF Owning, LockTypeOK, Guarded
  <1> QED
    BY <1>1, <1>2, <1>3

LEMMA CreateInvariant ==
    ASSUME LockInvariant, NEW p \in Contender, Create(p)
    PROVE  LockInvariant'
  <1> USE DEF LockInvariant, Create, Go, At, InGuard
  <1>1. LockTypeOK'
    BY FileOfIsFile DEF LockTypeOK, Pc, Guarded
  <1>2. Guarding'
    BY FileFields DEF Guarding, LockTypeOK, Guarded
  <1>3. Owning'
    BY FileOfIsFile DEF Owning, LockTypeOK, Guarded
  <1> QED
    BY <1>1, <1>2, <1>3

LEMMA TakeGuardInvariant ==
    ASSUME LockInvariant, NEW p \in Contender, TakeGuard(p)
    PROVE  LockInvariant'
  <1> USE DEF LockInvariant, TakeGuard, Go, At, InGuard
  <1>1. purpose[p] \in Purpose
    BY DEF Guarding
  <1>2. CASE Grab(p)
    <2> USE DEF Grab
    <2>1. LockTypeOK'
      BY <1>2, FileOfIsFile DEF LockTypeOK, Pc, Guarded
    <2>2. Guarding'
      BY <1>1, <1>2, FileOfIsFile DEF Guarding, LockTypeOK, Guarded
    <2>3. Owning'
      BY <1>2 DEF Owning, LockTypeOK, Guarded
    <2> QED
      BY <2>1, <2>2, <2>3
  <1>3. CASE NoGuard(p)
    <2>1. \E there \in {"waiting", "owner", "guard"} :
             Go(p, there) /\ (there = "guard" => purpose[p] = "release")
      BY <1>1, <1>3 DEF NoGuard, Purpose
    <2>2. /\ purpose' \in [Contender -> Purpose \cup {Missing}]
          /\ \A q \in Contender : q # p => purpose'[q] = purpose[q]
          /\ purpose[p] = "release" => purpose'[p] \in Purpose
      BY <1>1, <1>3 DEF NoGuard, LockTypeOK
    <2>3. UNCHANGED <<lock, guard, owns, released, crashes>> /\ ~InGuard(p)
      BY <1>3 DEF NoGuard, Guarded
    <2> QED
      BY <2>1, <2>2, <2>3, MoveInvariant DEF LockTypeOK, Pc, Guarded
  <1> QED
    BY <1>2, <1>3

LEMMA InspectInvariant ==
    ASSUME LockInvariant, NEW p \in Contender, Inspect(p)
    PROVE  LockInvariant'
  <1> USE DEF LockInvariant, Go, InGuard
  <1>1. purpose[p] \in Purpose /\ pc[p] \in Guarded
    BY DEF Guarding, Guarded, Inspect, At
  <1>2. UNCHANGED <<lock, guard, purpose, owns, released, crashes>>
    BY DEF Inspect
  <1>3. PICK there \in {"evict", "beat", "drop", "unguard"} :
           /\ Go(p, there)
           /\ there = "evict" => lock # Missing /\ lock.aged
           /\ there \in {"beat", "drop"} => owns[p]
    BY <1>1 DEF Purpose, MyLock, Inspect
  <1>4. LockTypeOK'
    BY <1>2, <1>3 DEF LockTypeOK, Pc, Guarded
  <1>5. Guarding'
    BY <1>1, <1>2, <1>3 DEF Guarding, LockTypeOK, Guarded
  <1>6. Owning'
    BY <1>2, <1>3 DEF Owning, LockTypeOK, Guarded
  <1> QED
    BY <1>4, <1>5, <1>6

\* Steps of the guard's holder that write the lock and keep the guard.
LEMMA GuardedWriteInvariant ==
    ASSUME LockInvariant, NEW p \in Contender, NEW there \in Guarded \ {"evict", "drop", "beat"},
           InGuard(p), Go(p, there), lock' \in File \cup {Missing},
           owns' \in [Contender -> BOOLEAN], released' \in [Contender -> BOOLEAN],
           UNCHANGED <<guard, purpose, crashes>>,
           \A q \in Contender : owns'[q] => lock' # Missing /\ lock'.owner = q /\ ~lock'.aged
    PROVE  LockInvariant'
  <1> USE DEF LockInvariant, Go, InGuard
  <1>1. LockTypeOK'
    BY DEF LockTypeOK, Pc
  <1>2. Guarding'
    BY DEF Guarding, LockTypeOK, Guarded
  <1>3. \A q \in Contender : q # p => pc'[q] = pc[q] /\ pc[q] \notin Guarded
    BY DEF LockTypeOK, Guarding
  <1>4. Owning'
    BY <1>3 DEF Owning, LockTypeOK, Guarded
  <1> QED
    BY <1>1, <1>2, <1>4

LEMMA EvictInvariant ==
    ASSUME LockInvariant, NEW p \in Contender, Evict(p)
    PROVE  LockInvariant'
  <1>1. \A q \in Contender : ~owns[q]
    BY DEF LockInvariant, Owning, Evict, At
  <1> QED
    BY <1>1, GuardedWriteInvariant
    DEF Evict, At, InGuard, Guarded, LockInvariant, LockTypeOK

LEMMA SucceedInvariant ==
    ASSUME LockInvariant, NEW p \in Contender, Succeed(p)
    PROVE  LockInvariant'
  <1> USE DEF LockInvariant, LockTypeOK
  <1>1. /\ InGuard(p) /\ Go(p, "unguard") /\ "unguard" \in Guarded \ {"evict", "drop", "beat"}
        /\ UNCHANGED <<guard, purpose, released, crashes>>
    BY DEF Succeed, At, InGuard, Guarded
  <1>2. CASE lock = Missing
    <2>1. \A q \in Contender : ~owns[q]
      BY <1>2 DEF Owning
    <2>2. \A q \in Contender : owns'[q] => q = p
      BY <1>2, <2>1 DEF Succeed
    <2>3. lock' = FileOf(p) /\ owns' \in [Contender -> BOOLEAN]
      BY <1>2 DEF Succeed
    <2> QED
      BY <1>1, <2>2, <2>3, FileOfIsFile, GuardedWriteInvariant
  <1>3. CASE lock # Missing
    BY <1>1, <1>3, GuardedWriteInvariant DEF Succeed, Owning
  <1> QED
    BY <1>2, <1>3

LEMMA DropInvariant ==
    ASSUME LockInvariant, NEW p \in Contender, Drop(p)
    PROVE  LockInvariant'
  <1>1. \A q \in Contender : ~owns'[q]
    BY DEF LockInvariant, LockTypeOK, Owning, Drop, At
  <1> QED
    BY <1>1, GuardedWriteInvariant
    DEF Drop, At, InGuard, Guarded, LockInvariant, LockTypeOK

LEMMA BeatInvariant ==
    ASSUME LockInvariant, NEW p \in Contender, Beat(p)
    PROVE  LockInvariant'
  <1>1. lock' \in File \cup {Missing}
    BY DEF LockInvariant, LockTypeOK, Beat, File
  <1>2. \A q \in Contender : owns'[q] => lock' # Missing /\ lock'.owner = q /\ ~lock'.aged
    BY <1>1, MissingAssumption DEF LockInvariant, LockTypeOK, Owning, Beat, File
  <1> QED
    BY <1>1, <1>2, GuardedWriteInvariant
    DEF Beat, At, InGuard, Guarded, LockInvariant, LockTypeOK

LEMMA UnguardInvariant ==
    ASSUME Quiet, LockInvariant, NEW p \in Contender, Unguard(p)
    PROVE  LockInvariant'
  <1> USE DEF LockInvariant, Unguard, Go, At, InGuard
  <1>1. purpose[p] \in Purpose /\ guard' = Missing
    BY DEF Guarding, Guarded, Quiet
  <1>2. \E there \in {"idle", "owner", "waiting"} : Go(p, there)
    BY <1>1 DEF Purpose
  <1>3. LockTypeOK'
    BY <1>1, <1>2 DEF LockTypeOK, Pc, Guarded
  <1>4. Guarding'
    BY <1>1, <1>2 DEF Guarding, LockTypeOK, Guarded
  <1>5. Owning'
    BY <1>2 DEF Owning, LockTypeOK, Guarded
  <1> QED
    BY <1>3, <1>4, <1>5

LEMMA AgesInvariant ==
    ASSUME Quiet, LockInvariant, LockAges
    PROVE  LockInvariant'
  <1> USE DEF LockInvariant, LockAges, InGuard
  <1>1. LockTypeOK' /\ Guarding'
    BY DEF LockTypeOK, Guarding, File
  <1>2. Owning'
    BY DEF Owning, LockTypeOK, Quiet, File
  <1> QED
    BY <1>1, <1>2

LEMMA LockInvariantStep ==
    ASSUME Quiet, LockInvariant, [LockNext]_lockVars
    PROVE  LockInvariant'
  <1>0. LockTypeOK
    BY DEF LockInvariant
  <1>1. CASE UNCHANGED lockVars
    BY <1>1 DEF lockVars, LockInvariant, LockTypeOK, Guarding, Owning, InGuard
  <1>2. ASSUME NEW p \in Contender,
               \/ Begin(p) \/ SeeMissing(p) \/ SeeStale(p) \/ SeeGuard(p) \/ Retry(p)
               \/ TimesOut(p) \/ GiveUpRelease(p) \/ UseLease(p) \/ StartRelease(p)
        PROVE  LockInvariant'
    <2>1. \E there \in {"idle", "creating", "waiting", "missing", "completed", "guard"} :
             Go(p, there) /\ (there = "guard" => purpose'[p] \in Purpose)
      BY <1>0, <1>2 DEF LockTypeOK, Begin, SeeMissing, SeeStale, SeeGuard, Retry, TimesOut,
         GiveUpRelease, UseLease, StartRelease, Purpose
    <2>2. /\ purpose' \in [Contender -> Purpose \cup {Missing}]
          /\ \A q \in Contender : q # p => purpose'[q] = purpose[q]
          /\ owns' \in {owns, [owns EXCEPT ![p] = FALSE]}
          /\ released' \in [Contender -> BOOLEAN]
          /\ UNCHANGED <<lock, guard, crashes>>
          /\ ~InGuard(p)
      BY <1>0, <1>2 DEF LockTypeOK, Begin, SeeMissing, SeeStale, SeeGuard, Retry, TimesOut,
         GiveUpRelease, UseLease, StartRelease, At, InGuard, Guarded, Purpose
    <2> QED
      BY <1>0, <2>1, <2>2, MoveInvariant DEF LockTypeOK, Pc, Guarded
  <1>3. ASSUME NEW p \in Contender, SeeStaleGuard(p) \/ BreakGuard(p) \/ RegrabGuard(p)
        PROVE  FALSE
    BY <1>3 DEF LockInvariant, Guarding, SeeStaleGuard, BreakGuard, RegrabGuard, At
  <1>4. ASSUME NEW p \in Contender, Dies(p) PROVE LockInvariant'
    <2>1. crashes' \in 0 .. MaxCrashes
      BY <1>0, <1>4, LockAssumption DEF Dies, LockTypeOK
    <2>2. "idle" \in Pc \ Guarded /\ ~InGuard(p)
      BY <1>4 DEF Dies, Quiet, Pc, Guarded
    <2> QED
      BY <1>0, <1>4, <2>1, <2>2, MoveInvariant DEF Dies, LockTypeOK
  <1>5. CASE GuardAges
    BY <1>5 DEF GuardAges, LockInvariant, Guarding
  <1> QED
    BY <1>1, <1>2, <1>3, <1>4, <1>5, CreateInvariant, TakeGuardInvariant, InspectInvariant,
       EvictInvariant, SucceedInvariant, DropInvariant, BeatInvariant, UnguardInvariant, AgesInvariant DEF LockNext, ProcStep

\* The gate is strict: whatever processes crash outside the guard, two callers
\* are never inside the transaction the lease protects.
THEOREM StrictGate ==
    ASSUME Quiet
    PROVE  LockSpec => []MutualExclusion
  <1>1. LockInvariant /\ [LockNext]_lockVars => LockInvariant'
    BY LockInvariantStep
  <1>2. LockInvariant => MutualExclusion
    BY DEF LockInvariant, Owning, MutualExclusion, Holds
  <1> QED
    BY <1>1, <1>2, LockInvariantInit, PTL DEF LockSpec

-----------------------------------------------------------------------------
(* The refinement of Lease *)

Live == {p \in Contender : owns[p]}
Dead == lock # Missing /\ ~owns[lock.owner]

\* A live owner is the only one, and the lock is its own.
LEMMA OwnerIsOnlyOne ==
    ASSUME LockInvariant, NEW p \in Contender, owns[p]
    PROVE  Live = {p} /\ ~Dead /\ lock # Missing /\ lock.owner = p
  BY DEF LockInvariant, Owning, Live, Dead

LEMMA NobodyOwns ==
    ASSUME LockInvariant, lock = Missing \/ lock.aged
    PROVE  Live = {}
  BY DEF LockInvariant, Owning, Live

\* Steps that change neither the lock's owner nor who owns it are stutters.
LEMMA SameOwner ==
    ASSUME UNCHANGED owns, lock' = Missing <=> lock = Missing,
           lock # Missing => lock'.owner = lock.owner
    PROVE  UNCHANGED AbstractLease!lease
  BY DEF AbstractLease!lease

LEMMA AcquireRefines ==
    ASSUME LockInvariant, NEW p \in Contender, lock = Missing,
           lock' = FileOf(p), owns' = [owns EXCEPT ![p] = TRUE]
    PROVE  AbstractLease!Acquire(p)
  <1>1. Live = {} /\ ~Dead
    BY NobodyOwns DEF Dead
  <1>2. owns'[p] /\ Live' = {p}
    BY <1>1 DEF Live, LockInvariant, LockTypeOK
  <1>3. Dead' = FALSE
    BY <1>2, FileOfIsFile DEF Dead
  <1> QED
    BY <1>1, <1>2, <1>3 DEF AbstractLease!Acquire, Live, Dead

\* The owner lets go of the lease, or dies, with its lock left in place.
LEMMA AbandonRefines ==
    ASSUME LockInvariant, NEW p \in Contender, UNCHANGED lock,
           owns' = [owns EXCEPT ![p] = FALSE]
    PROVE  AbstractLease!Abandon(p) \/ UNCHANGED AbstractLease!lease
  <1>1. CASE owns[p]
    <2>1. Live' = {}
      BY <1>1, OwnerIsOnlyOne DEF Live, LockInvariant, LockTypeOK
    <2>2. Dead' = TRUE
      BY <1>1, OwnerIsOnlyOne DEF Dead, LockInvariant, LockTypeOK
    <2> QED
      BY <1>1, <2>1, <2>2, OwnerIsOnlyOne DEF AbstractLease!Abandon, Live, Dead
  <1>2. CASE ~owns[p]
    <2>1. UNCHANGED owns
      BY <1>2 DEF LockInvariant, LockTypeOK
    <2> QED
      BY <2>1, SameOwner
  <1> QED
    BY <1>1, <1>2

LEMMA EvictRefines ==
    ASSUME LockInvariant, NEW p \in Contender, Evict(p)
    PROVE  AbstractLease!Break
  <1>1. lock # Missing /\ lock.aged /\ lock.owner \in Contender
    BY FileFields DEF LockInvariant, LockTypeOK, Owning, Evict, At
  <1>2. Live = {} /\ Dead
    BY <1>1, NobodyOwns DEF Live, Dead
  <1>3. Dead' = FALSE /\ Live' = Live
    BY DEF Evict, Dead, Live
  <1> QED
    BY <1>2, <1>3 DEF AbstractLease!Break, Live, Dead

LEMMA DropRefines ==
    ASSUME LockInvariant, NEW p \in Contender, Drop(p)
    PROVE  AbstractLease!GiveBack(p)
  <1>1. owns[p]
    BY DEF LockInvariant, Owning, Drop, At
  <1>2. Live' = {}
    BY <1>1, OwnerIsOnlyOne DEF Drop, Live, LockInvariant, LockTypeOK
  <1>3. Dead' = FALSE
    BY DEF Drop, Dead
  <1> QED
    BY <1>1, <1>2, <1>3, OwnerIsOnlyOne DEF AbstractLease!GiveBack, Live, Dead

LEMMA LeaseStep ==
    ASSUME LockInvariant, [LockNext]_lockVars
    PROVE  [AbstractLease!Next]_(AbstractLease!lease)
  <1> USE DEF AbstractLease!Next
  <1>1. CASE UNCHANGED lockVars \/ GuardAges
    <2>1. UNCHANGED <<lock, owns>>
      BY <1>1 DEF lockVars, GuardAges
    <2> QED
      BY <2>1, SameOwner
  <1>2. CASE LockAges
    <2>1. lock \in File /\ owns' = owns /\ lock' = [lock EXCEPT !.aged = TRUE]
      BY <1>2 DEF LockAges, LockInvariant, LockTypeOK
    <2>2. lock' \in File /\ lock'.owner = lock.owner
      BY <2>1 DEF File
    <2> QED
      BY <2>1, <2>2, FileFields, SameOwner
  <1>3. ASSUME NEW p \in Contender,
               \/ Begin(p) \/ SeeMissing(p) \/ SeeStale(p) \/ SeeGuard(p) \/ Retry(p)
               \/ TimesOut(p) \/ TakeGuard(p) \/ SeeStaleGuard(p) \/ BreakGuard(p)
               \/ RegrabGuard(p) \/ Inspect(p) \/ UseLease(p) \/ StartRelease(p)
        PROVE  UNCHANGED AbstractLease!lease
    <2>1. UNCHANGED <<lock, owns>>
      BY <1>3 DEF Begin, SeeMissing, SeeStale, SeeGuard, Retry, TimesOut, TakeGuard,
         SeeStaleGuard, BreakGuard, RegrabGuard, Inspect, UseLease, StartRelease
    <2> QED
      BY <2>1, SameOwner
  <1>4. ASSUME NEW p \in Contender, Create(p) \/ Succeed(p)
        PROVE  AbstractLease!Acquire(p) \/ UNCHANGED AbstractLease!lease
    <2>1. \/ lock = Missing /\ lock' = FileOf(p) /\ owns' = [owns EXCEPT ![p] = TRUE]
          \/ UNCHANGED <<lock, owns>>
      BY <1>4 DEF Create, Succeed
    <2> QED
      BY <2>1, AcquireRefines, SameOwner
  <1>5. ASSUME NEW p \in Contender, Beat(p)
        PROVE  UNCHANGED AbstractLease!lease
    <2>1. owns' = owns /\ lock # Missing /\ lock \in File
      BY <1>5, FileFields DEF Beat, At, LockInvariant, LockTypeOK, Owning
    <2>2. lock' = [lock EXCEPT !.aged = FALSE]
      BY <1>5, <2>1 DEF Beat
    <2>3. lock' \in File /\ lock'.owner = lock.owner
      BY <2>1, <2>2 DEF File
    <2> QED
      BY <2>1, <2>3, FileFields, SameOwner
  <1>6. ASSUME NEW p \in Contender, GiveUpRelease(p) \/ Dies(p) \/ Unguard(p)
        PROVE  AbstractLease!Abandon(p) \/ UNCHANGED AbstractLease!lease
    <2>1. UNCHANGED lock
      BY <1>6 DEF GiveUpRelease, Dies, Unguard
    <2>2. owns \in [Contender -> BOOLEAN]
      BY DEF LockInvariant, LockTypeOK
    <2>3. CASE Unguard(p)
      <3>1. owns' = [owns EXCEPT ![p] = @ /\ purpose[p] # "release"]
        BY <2>3 DEF Unguard
      <3>2. owns' = [owns EXCEPT ![p] = FALSE] \/ owns' = owns
        BY <2>2, <3>1
      <3> QED
        BY <2>1, <3>2, AbandonRefines, SameOwner
    <2>4. CASE GiveUpRelease(p) \/ Dies(p)
      <3>1. owns' = [owns EXCEPT ![p] = FALSE]
        BY <2>4 DEF GiveUpRelease, Dies
      <3> QED
        BY <2>1, <3>1, AbandonRefines
    <2> QED
      BY <1>6, <2>3, <2>4
  <1> QED
    BY <1>1, <1>2, <1>3, <1>4, <1>5, <1>6, EvictRefines, DropRefines
    DEF LockNext, ProcStep

\* The two files of the refresh lock implement one lease: it is given out only
\* when it is free, and nobody but its holder ends a holder's tenure.
THEOREM LockImplementsLease ==
    ASSUME Quiet
    PROVE  LockSpec => LeaseSpec
  <1>1. LockInit => AbstractLease!Init
    BY DEF LockInit, AbstractLease!Init
  <1>2. LockInvariant /\ [LockNext]_lockVars => LockInvariant'
    BY LockInvariantStep
  <1>3. LockInvariant /\ [LockNext]_lockVars => [AbstractLease!Next]_(AbstractLease!lease)
    BY LeaseStep
  <1> QED
    BY <1>1, <1>2, <1>3, LockInvariantInit, PTL
    DEF LockSpec, LeaseSpec, AbstractLease!Spec
=============================================================================
