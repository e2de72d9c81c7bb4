--------------------------- MODULE DesktopProofs ----------------------------
(***************************************************************************)
(* Theorems about the components of MCDesktop: the daily history, the quota*)
(* cache and the action journal, for any number of processes, days,        *)
(* accounts, actions and plans; the workspace is WorkspaceProductionProofs.*)
(* They share no state, and the last theorems put them together.           *)
(***************************************************************************)
EXTENDS MCDesktop, WorkspaceProductionProofs, FiniteSetTheorems, SequenceTheorems,
    WellFoundedInduction, TLAPS


-----------------------------------------------------------------------------
(***************************************************************************)
(* DailyHistory                                                            *)
(***************************************************************************)

\* Every recorded slice lies on a day, and there is a newest one.
LEMMA NewestDay ==
    ASSUME NEW days \in SUBSET Slice
    PROVE  /\ NewestOf(days) \in 0 .. LastDay
           /\ \A s \in days : s[1] \in Nat /\ s[1] <= NewestOf(days)
           /\ IF days = {} THEN NewestOf(days) = 0
                           ELSE \E s \in days : s[1] = NewestOf(days)
  <1>1. CASE days = {}
    BY <1>1, DailyAssumption DEF NewestOf
  <1>2. CASE days # {}
    <2> DEFINE Left == {LastDay - s[1] : s \in days}
    <2>1. \A s \in days : s[1] \in Day /\ s[1] \in Nat /\ LastDay - s[1] \in Nat
      BY DailyAssumption DEF Slice, Day
    <2>2. PICK least \in Left : \A n \in Left : <<n, least>> \notin OpToRel(<, Nat)
      <3>1. Left \subseteq Nat /\ Left # {}
        BY <1>2, <2>1
      <3> HIDE DEF Left
      <3> QED
        BY <3>1, NatLessThanWellFounded, WFMin, Zenon
    <2>3. PICK t \in days : least = LastDay - t[1]
      OBVIOUS
    <2>4. ASSUME NEW s \in days PROVE ~(LastDay - s[1] < LastDay - t[1])
      <3>1. LastDay - s[1] \in Left
        OBVIOUS
      <3>2. <<LastDay - s[1], LastDay - t[1]>> \notin OpToRel(<, Nat)
        BY <2>2, <2>3, <3>1, Zenon
      <3> QED
        BY <2>1, <3>2, Zenon DEF OpToRel
    <2>5. \A s \in days : s[1] <= t[1]
      BY <2>1, <2>4, DailyAssumption
    <2>6. /\ NewestOf(days) \in Day
          /\ \E s \in days : s[1] = NewestOf(days)
          /\ \A s \in days : s[1] <= NewestOf(days)
      BY <1>2, <2>1, <2>5 DEF NewestOf
    <2> QED
      BY <2>1, <2>6, DailyAssumption DEF Day
  <1> QED
    BY <1>1, <1>2

-----------------------------------------------------------------------------
(* The inductive invariant *)

\* A trusted cache is complete, has recorded nothing after its watermark, and has
\* all that is left of the sources up to it.
Sound(cache) ==
    /\ cache.complete => cache.trusted
    /\ cache.trusted =>
           /\ \A s \in cache.days : s[1] <= cache.lastComputed
           /\ \A s \in source : s[1] <= cache.lastComputed => s \in cache.days
    /\ cache.lastComputed < today

\* What a hydration works on was sound when it looked, and still is: the sources
\* of past days only shrink.
Hydrating(c) ==
    /\ dailyStep[c] \in {"parse", "save"} =>
           /\ Sound(base[c])
           /\ \A s \in base[c].days : s[1] < asOf[c]
    /\ dailyStep[c] = "save" =>
           /\ \A s \in parsed[c].days :
                 s[1] < asOf[c] /\ (Rebuilds(c) \/ s[1] > base[c].lastComputed)
           /\ parsed[c].whole => Wanted(c) \subseteq parsed[c].days

DailyInvariant ==
    /\ DailyTypeOK
    /\ \A s \in source : s[1] <= today
    /\ Sound(daily)
    /\ \A c \in Hydrator : asOf[c] <= today /\ Hydrating(c)

\* Numbers, for the arithmetic below.
LEMMA DailyNumbers ==
    ASSUME DailyTypeOK
    PROVE  /\ today \in Nat /\ today \in Day
           /\ \A s \in Slice : s[1] \in Nat
           /\ \A cache \in DailyCache : cache.lastComputed \in Nat
           /\ \A c \in Hydrator : /\ asOf[c] \in Nat /\ asOf[c] > 0
                                  /\ base[c] \in DailyCache /\ parsed[c] \in Parse
           /\ daily \in DailyCache /\ source \subseteq Slice
  BY DailyAssumption DEF DailyTypeOK, Day, DailyCache, Slice

LEMMA DailyInvariantInit == DailyInit => DailyInvariant
  <1> SUFFICES ASSUME DailyInit PROVE DailyInvariant
    OBVIOUS
  <1>1. EmptyDaily \in DailyCache /\ EmptyDaily.config \in Config
    BY DailyAssumption DEF EmptyDaily, DailyCache
  <1>2. DailyTypeOK
    BY <1>1, DailyAssumption DEF DailyInit, DailyTypeOK, Day, NoParse, Parse
  <1> QED
    BY <1>2 DEF DailyInit, DailyInvariant, Sound, Hydrating, EmptyDaily

LEMMA DailyTypeStep ==
    ASSUME DailyTypeOK, [DailyNext]_dailyVars
    PROVE  DailyTypeOK'
  <1> USE DEF DailyTypeOK
  <1>1. CASE Use \/ DeleteSource \/ Midnight \/ Reconfigure \/ UNCHANGED dailyVars
    BY <1>1, DailyAssumption DEF Use, DeleteSource, Midnight, Reconfigure, dailyVars, Day, Slice
  <1>2. ASSUME NEW c \in Hydrator, CallHydrate(c) \/ TakeTurn(c) PROVE DailyTypeOK'
    BY <1>2 DEF CallHydrate, TakeTurn, Advance
  <1>3. ASSUME NEW c \in Hydrator, LoadDaily(c) PROVE DailyTypeOK'
    <2>1. Before(daily.days, asOf[c]) \in SUBSET Slice
      BY DEF Before, DailyCache
    <2>2. Trimmed(daily, asOf[c]) \in DailyCache
      <3>1. NewestOf(Before(daily.days, asOf[c])) \in 0 .. LastDay
        BY <2>1, NewestDay
      <3>2. daily \in DailyCache
        OBVIOUS
      <3> DEFINE days == Before(daily.days, asOf[c])
                 mark == IF days = daily.days THEN daily.lastComputed ELSE NewestOf(days)
                 last == IF daily.trusted \/ mark <= NewestOf(days) THEN mark
                         ELSE NewestOf(days)
      <3>3. last \in 0 .. LastDay
        BY <3>1, <3>2 DEF DailyCache
      <3>4. Trimmed(daily, asOf[c]) = [daily EXCEPT !.days = days, !.lastComputed = last]
        BY DEF Trimmed
      <3> HIDE DEF last
      <3> QED
        BY <2>1, <3>2, <3>3, <3>4 DEF DailyCache
    <2> QED
      BY <1>3, <2>2 DEF LoadDaily, Advance
  <1>4. ASSUME NEW c \in Hydrator, ParseSessions(c) PROVE DailyTypeOK'
    <2>1. Wanted(c) \subseteq Slice
      BY DEF Wanted, Before
    <2>2. parsed' = parsed \/ \E part \in SUBSET Slice, whole \in BOOLEAN :
             parsed' = [parsed EXCEPT ![c] = [days |-> part, whole |-> whole]]
      BY <1>4, <2>1 DEF ParseSessions
    <2>3. parsed' \in [Hydrator -> Parse]
      BY <2>2 DEF Parse
    <2>4. dailyStep' \in [Hydrator -> {"idle", "queued", "load", "parse", "save", "done"}]
      BY <1>4 DEF ParseSessions, Advance
    <2> QED
      BY <1>4, <2>3, <2>4 DEF ParseSessions
  <1>5. ASSUME NEW c \in Hydrator, SaveDaily(c) PROVE DailyTypeOK'
    <2>1. asOf[c] - 1 \in 0 .. LastDay
      BY DailyAssumption DEF Day
    <2>2. Rebuilt(c) \in DailyCache /\ Extended(c) \in DailyCache
      <3>1. base[c] \in DailyCache /\ parsed[c] \in Parse /\ hash[c] \in Config
        OBVIOUS
      <3>2. Rebuilt(c) \in DailyCache
        BY <2>1, <3>1 DEF Rebuilt, MergeDayEntries, DailyCache, Parse
      <3>3. Extended(c) \in DailyCache
        BY <2>1, <3>1 DEF Extended, DailyCache, Parse
      <3> QED
        BY <3>2, <3>3
    <2>3. daily' \in DailyCache
      BY <1>5, <2>2 DEF SaveDaily
    <2> QED
      BY <1>5, <2>3 DEF SaveDaily, Advance
  <1> QED
    BY <1>1, <1>2, <1>3, <1>4, <1>5 DEF DailyNext

LEMMA TrimmedSound ==
    ASSUME DailyInvariant, NEW c \in Hydrator
    PROVE  /\ Sound(Trimmed(daily, asOf[c]))
           /\ \A s \in Trimmed(daily, asOf[c]).days : s[1] < asOf[c]
  <1> USE DEF DailyInvariant
  <1> DEFINE days == Before(daily.days, asOf[c])
             cache == Trimmed(daily, asOf[c])
             mark == IF days = daily.days THEN daily.lastComputed ELSE NewestOf(days)
  <1>1. days \in SUBSET Slice /\ \A s \in days : s[1] < asOf[c]
    BY DailyNumbers DEF Before, DailyCache
  <1>2. NewestOf(days) \in Nat /\ NewestOf(days) < asOf[c]
    <2>1. asOf[c] \in Nat /\ asOf[c] > 0
      BY DailyNumbers
    <2> HIDE DEF days
    <2>2. NewestOf(days) \in Nat
      BY <1>1, NewestDay, DailyAssumption
    <2>3. NewestOf(days) = 0 \/ \E s \in days : s[1] = NewestOf(days)
      BY <1>1, NewestDay
    <2> QED
      BY <1>1, <2>1, <2>2, <2>3
  <1>3. /\ cache.days = days /\ cache.trusted = daily.trusted /\ cache.complete = daily.complete
        /\ cache.lastComputed = IF daily.trusted \/ mark <= NewestOf(days)
                                THEN mark ELSE NewestOf(days)
    BY DailyNumbers DEF Trimmed, DailyCache
  <1>4. cache.lastComputed < today
    BY <1>2, <1>3, DailyNumbers DEF Sound
  <1>5. ASSUME daily.trusted
        PROVE  /\ \A s \in days : s[1] <= mark
               /\ \A s \in source : s[1] <= mark => s \in days
    <2>1. CASE days = daily.days
      BY <1>5, <2>1 DEF Sound
    <2>2. CASE days # daily.days
      <3>1. mark = NewestOf(days) /\ \A s \in days : s[1] <= mark
        BY <1>1, <2>2, NewestDay
      <3>2. mark <= daily.lastComputed
        <4>1. CASE days = {}
          BY <3>1, <4>1, DailyNumbers DEF NewestOf
        <4>2. CASE days # {}
          <5>1. PICK s \in days : s[1] = mark
            BY <1>1, <3>1, <4>2, NewestDay
          <5> QED
            BY <1>5, <5>1 DEF Sound, Before
        <4> QED
          BY <4>1, <4>2
      <3>3. ASSUME NEW s \in source, s[1] <= mark PROVE s \in days
        <4>1. s[1] \in Nat /\ s[1] < asOf[c] /\ s[1] <= daily.lastComputed
          BY <1>2, <3>1, <3>2, <3>3, DailyNumbers
        <4> QED
          BY <1>5, <4>1 DEF Sound, Before
      <3> QED
        BY <3>1, <3>3
    <2> QED
      BY <2>1, <2>2
  <1> QED
    BY <1>1, <1>3, <1>4, <1>5 DEF Sound

LEMMA SavedSound ==
    ASSUME DailyInvariant, NEW c \in Hydrator, dailyStep[c] = "save"
    PROVE  /\ Rebuilds(c) => Sound(Rebuilt(c))
           /\ ~Rebuilds(c) => Sound(Extended(c))
  <1> USE DEF DailyInvariant
  <1>1. /\ Sound(base[c]) /\ \A s \in base[c].days : s[1] < asOf[c]
        /\ \A s \in parsed[c].days :
              s[1] < asOf[c] /\ (Rebuilds(c) \/ s[1] > base[c].lastComputed)
        /\ parsed[c].whole => Wanted(c) \subseteq parsed[c].days
    BY DEF Hydrating
  <1>2. /\ asOf[c] \in Nat /\ asOf[c] > 0 /\ asOf[c] <= today /\ today \in Nat
        /\ base[c].lastComputed \in Nat
        /\ \A s \in source \cup base[c].days \cup parsed[c].days : s[1] \in Nat
    BY DailyNumbers DEF DailyCache, Parse
  <1>3. ASSUME parsed[c].whole, Rebuilds(c), NEW s \in source, s[1] <= asOf[c] - 1
        PROVE  s \in parsed[c].days
    BY <1>1, <1>2, <1>3 DEF Wanted, Before
  <1>4. ASSUME Rebuilds(c) PROVE Sound(Rebuilt(c))
    BY <1>1, <1>2, <1>3, <1>4 DEF Sound, Rebuilt, MergeDayEntries
  <1>5. ASSUME ~Rebuilds(c) PROVE Sound(Extended(c))
    <2> DEFINE fresh == {s[1] : s \in parsed[c].days}
    <2>1. base[c].trusted
      BY <1>1, <1>5 DEF Rebuilds, Sound
    <2>2. /\ Extended(c).days = {s \in base[c].days : s[1] \notin fresh} \cup parsed[c].days
          /\ Extended(c).lastComputed = IF parsed[c].whole THEN asOf[c] - 1
                                        ELSE base[c].lastComputed
          /\ Extended(c).complete = parsed[c].whole /\ Extended(c).trusted = parsed[c].whole
      BY DailyNumbers DEF Extended, DailyCache
    <2>3. ASSUME parsed[c].whole, NEW s \in source, s[1] <= asOf[c] - 1
          PROVE  s \in Extended(c).days
      <3>1. CASE s[1] <= base[c].lastComputed
        <4>1. s \in base[c].days
          BY <1>1, <2>1, <3>1 DEF Sound
        <4>2. s[1] \notin fresh
          BY <1>1, <1>2, <1>5, <3>1
        <4> QED
          BY <2>2, <4>1, <4>2
      <3>2. CASE ~(s[1] <= base[c].lastComputed)
        <4>1. s \in Wanted(c)
          BY <1>2, <2>3, <3>2 DEF Wanted, Before
        <4> QED
          BY <1>1, <2>2, <2>3, <4>1
      <3> QED
        BY <3>1, <3>2
    <2>4. \A s \in Extended(c).days : s[1] < asOf[c]
      BY <1>1, <2>2
    <2> HIDE DEF fresh
    <2>5. Extended(c).lastComputed < today
      BY <1>1, <1>2, <2>2 DEF Sound
    <2>6. \A s \in Extended(c).days : s[1] \in Nat
      BY <1>2, <2>2
    <2> QED
      BY <1>2, <2>2, <2>3, <2>4, <2>5, <2>6 DEF Sound
  <1> QED
    BY <1>4, <1>5

\* Sources of past days only shrink, so what was sound stays sound.
LEMMA StillSound ==
    ASSUME DailyInvariant, NEW cache \in DailyCache, Sound(cache), today' \in Nat,
           today <= today', \A s \in source' : s \in source \/ s[1] = today
    PROVE  Sound(cache)'
  BY DailyNumbers DEF Sound, DailyInvariant

\* What happens to the sources and the clock leaves hydrations as they are.
LEMMA WorldStep ==
    ASSUME DailyInvariant, Use \/ DeleteSource \/ Midnight \/ Reconfigure
    PROVE  DailyInvariant'
  <1> USE DEF DailyInvariant
  <1>1. DailyTypeOK'
    BY DailyTypeStep DEF DailyNext
  <1>2. UNCHANGED <<daily, host, dailyStep, asOf, hash, base, parsed>>
    BY DEF Use, DeleteSource, Midnight, Reconfigure
  <1>3. /\ today' \in Nat /\ today <= today'
        /\ \A s \in source' : s \in source \/ s[1] = today
    BY DailyNumbers DEF Use, DeleteSource, Midnight, Reconfigure
  <1>4. \A s \in source' : s[1] <= today'
    BY <1>3, DailyNumbers
  <1>5. ASSUME NEW c \in Hydrator PROVE asOf'[c] <= today'
    BY <1>2, <1>3, DailyNumbers
  <1>6. ASSUME NEW c \in Hydrator PROVE Hydrating(c)'
    <2>1. Hydrating(c) /\ base[c] \in DailyCache
      BY DailyNumbers
    <2>2. Sound(base[c]) => Sound(base[c])'
      BY <1>2, <1>3, <2>1, StillSound DEF Sound
    <2>3. Rebuilds(c)' = Rebuilds(c)
      BY <1>2 DEF Rebuilds
    <2>4. Wanted(c)' \subseteq Wanted(c)
      BY <1>2, <1>3, <2>3, DailyNumbers DEF Wanted, Before
    <2> QED
      BY <1>2, <2>1, <2>2, <2>3, <2>4 DEF Hydrating
  <1>7. Sound(daily)'
    BY <1>2, <1>3, StillSound, DailyNumbers DEF Sound
  <1> QED
    BY <1>1, <1>4, <1>5, <1>6, <1>7

\* A step of one hydration leaves the others as they are.
LEMMA OthersHydrating ==
    ASSUME DailyInvariant, NEW c \in Hydrator, UNCHANGED <<today, source>>,
           \A o \in Hydrator : o # c =>
               UNCHANGED <<dailyStep[o], asOf[o], hash[o], base[o], parsed[o]>>
    PROVE  \A o \in Hydrator : o # c => Hydrating(o)'
  BY DEF DailyInvariant, Hydrating, Sound, Rebuilds, Wanted, Before

LEMMA HydrationStep ==
    ASSUME DailyInvariant, NEW c \in Hydrator,
           CallHydrate(c) \/ TakeTurn(c) \/ LoadDaily(c) \/ ParseSessions(c) \/ SaveDaily(c)
    PROVE  DailyInvariant'
  <1> USE DEF DailyInvariant
  <1>0. DailyTypeOK /\ DailyTypeOK'
    BY DailyTypeStep DEF DailyNext
  <1>1. /\ UNCHANGED <<today, source>>
        /\ \A o \in Hydrator : o # c =>
               UNCHANGED <<dailyStep[o], asOf[o], hash[o], base[o], parsed[o]>>
    BY <1>0 DEF CallHydrate, TakeTurn, LoadDaily, ParseSessions, SaveDaily, Advance, DailyTypeOK
  <1>2. \A o \in Hydrator : o # c => Hydrating(o)'
    BY <1>1, OthersHydrating
  <1>3. \A o \in Hydrator : asOf'[o] <= today'
    BY <1>0, <1>1, DailyNumbers
    DEF CallHydrate, TakeTurn, LoadDaily, ParseSessions, SaveDaily, DailyTypeOK
  <1>4. ASSUME Hydrating(c)', Sound(daily)' PROVE DailyInvariant'
    BY <1>0, <1>1, <1>2, <1>3, <1>4
  <1>5. CASE CallHydrate(c) \/ TakeTurn(c)
    <2>1. dailyStep'[c] \notin {"parse", "save"} /\ daily' = daily
      BY <1>0, <1>5 DEF CallHydrate, TakeTurn, Advance, DailyTypeOK
    <2> QED
      BY <1>1, <1>4, <2>1 DEF Hydrating, Sound
  <1>6. CASE LoadDaily(c)
    <2>1. /\ dailyStep'[c] = "parse" /\ base'[c] = Trimmed(daily, asOf[c])
          /\ daily' = daily /\ asOf' = asOf
      BY <1>0, <1>6 DEF LoadDaily, Advance, DailyTypeOK
    <2> QED
      BY <1>1, <1>4, <2>1, TrimmedSound DEF Hydrating, Sound
  <1>7. CASE ParseSessions(c)
    <2>1. UNCHANGED <<daily, base, asOf, hash>> /\ dailyStep[c] = "parse"
      BY <1>7 DEF ParseSessions
    <2>2. Rebuilds(c)' = Rebuilds(c) /\ Wanted(c)' = Wanted(c)
      BY <1>1, <2>1 DEF Rebuilds, Wanted, Before
    <2>3. \A s \in Wanted(c) : s[1] < asOf[c] /\ (Rebuilds(c) \/ s[1] > base[c].lastComputed)
      BY DEF Wanted, Before
    <2>4. \/ dailyStep'[c] = "done"
          \/ parsed'[c].days \subseteq Wanted(c)
             /\ (parsed'[c].whole => Wanted(c) \subseteq parsed'[c].days)
      BY <1>0, <1>7 DEF ParseSessions, Advance, DailyTypeOK
    <2>5. Sound(base[c])' /\ Sound(daily)' /\ \A s \in base'[c].days : s[1] < asOf'[c]
      BY <1>1, <2>1 DEF Hydrating, Sound
    <2>6. Hydrating(c)'
      BY <2>1, <2>2, <2>3, <2>4, <2>5 DEF Hydrating
    <2> QED
      BY <1>4, <2>5, <2>6
  <1>8. CASE SaveDaily(c)
    <2>1. /\ dailyStep[c] = "save" /\ dailyStep'[c] = "done"
          /\ daily' = IF Rebuilds(c) THEN Rebuilt(c) ELSE Extended(c)
      BY <1>0, <1>8 DEF SaveDaily, Advance, DailyTypeOK
    <2>2. \/ Sound(Rebuilt(c)) /\ daily' = Rebuilt(c)
          \/ Sound(Extended(c)) /\ daily' = Extended(c)
      BY <2>1, SavedSound
    <2> QED
      BY <1>1, <1>4, <2>1, <2>2 DEF Hydrating, Sound
  <1> QED
    BY <1>5, <1>6, <1>7, <1>8

LEMMA DailyInvariantStep == DailyInvariant /\ [DailyNext]_dailyVars => DailyInvariant'
  <1> SUFFICES ASSUME DailyInvariant, [DailyNext]_dailyVars PROVE DailyInvariant'
    OBVIOUS
  <1>1. CASE UNCHANGED dailyVars
    <2> USE <1>1 DEF dailyVars, DailyInvariant
    <2>1. DailyTypeOK'
      BY DailyTypeStep
    <2>2. \A c \in Hydrator : Hydrating(c)'
      BY DEF Hydrating, Sound, Rebuilds, Wanted, Before
    <2> QED
      BY <2>1, <2>2 DEF Sound
  <1> QED
    BY <1>1, WorldStep, HydrationStep DEF DailyNext

LEMMA DailyAlways == DailySpec => []DailyInvariant
  BY DailyInvariantInit, DailyInvariantStep, PTL DEF DailySpec

\* Hydrations of one process take turns, so none finds a newer cache under it.
Busy(c) == dailyStep[c] \in {"load", "parse", "save"}
OneHost == \A c, o \in Hydrator : host[c] = host[o]
TakingTurns ==
    OneHost =>
        /\ \A c, o \in Hydrator : Busy(c) /\ Busy(o) => c = o
        /\ \A c \in Hydrator : dailyStep[c] \in {"parse", "save"} =>
               Before(daily.days, asOf[c]) \subseteq base[c].days

\* A save keeps every slice that it loaded.
LEMMA SaveKeeps ==
    ASSUME DailyInvariant, NEW c \in Hydrator, SaveDaily(c)
    PROVE  base[c].days \subseteq daily'.days
  <1> USE DEF DailyInvariant
  <1>1. dailyStep[c] = "save" /\ base[c] \in DailyCache
    BY DailyNumbers DEF SaveDaily
  <1>2. CASE Rebuilds(c)
    BY <1>2 DEF SaveDaily, Rebuilt, MergeDayEntries
  <1>3. CASE ~Rebuilds(c)
    <2>1. \A s \in base[c].days : s[1] <= base[c].lastComputed /\ s[1] \in Nat
      BY <1>1, <1>3, DailyNumbers DEF Hydrating, Sound, Rebuilds, DailyCache
    <2>2. \A s \in parsed[c].days : s[1] > base[c].lastComputed /\ s[1] \in Nat
      BY <1>1, <1>3, DailyNumbers DEF Hydrating, Parse
    <2>3. base[c].lastComputed \in Nat
      BY <1>1, DailyNumbers
    <2>4. \A s \in base[c].days : s[1] \notin {q[1] : q \in parsed[c].days}
      BY <2>1, <2>2, <2>3
    <2>5. daily'.days = {s \in base[c].days : s[1] \notin {q[1] : q \in parsed[c].days}}
                        \cup parsed[c].days
      BY <1>1, <1>3 DEF SaveDaily, Extended, DailyCache
    <2> QED
      BY <2>4, <2>5
  <1> QED
    BY <1>2, <1>3

LEMMA TurnsStep ==
    ASSUME DailyInvariant, TakingTurns, [DailyNext]_dailyVars
    PROVE  TakingTurns'
  <1> SUFFICES ASSUME OneHost' PROVE
        /\ \A c, o \in Hydrator : Busy(c)' /\ Busy(o)' => c = o
        /\ \A c \in Hydrator : dailyStep'[c] \in {"parse", "save"} =>
               Before(daily'.days, asOf'[c]) \subseteq base'[c].days
    BY DEF TakingTurns, Before
  <1> USE DEF DailyInvariant
  <1>0. DailyTypeOK
    OBVIOUS
  <1>1. host' = host /\ OneHost
    BY DEF DailyNext, Use, DeleteSource, Midnight, Reconfigure, CallHydrate, TakeTurn,
       LoadDaily, ParseSessions, SaveDaily, dailyVars, OneHost
  <1>2. /\ \A c, o \in Hydrator : Busy(c) /\ Busy(o) => c = o
        /\ \A c \in Hydrator : dailyStep[c] \in {"parse", "save"} =>
               Before(daily.days, asOf[c]) \subseteq base[c].days
    BY <1>1 DEF TakingTurns
  <1>3. CASE Use \/ DeleteSource \/ Midnight \/ Reconfigure \/ UNCHANGED dailyVars
    BY <1>2, <1>3 DEF Use, DeleteSource, Midnight, Reconfigure, dailyVars, Busy
  <1>4. ASSUME NEW c \in Hydrator, CallHydrate(c)
        PROVE  /\ UNCHANGED <<daily, base>> /\ dailyStep'[c] = "queued"
               /\ \A o \in Hydrator : o # c => dailyStep'[o] = dailyStep[o] /\ asOf'[o] = asOf[o]
    BY <1>0, <1>4 DEF CallHydrate, Advance, DailyTypeOK
  <1>5. ASSUME NEW c \in Hydrator, TakeTurn(c)
        PROVE  /\ UNCHANGED <<daily, base, asOf>> /\ dailyStep'[c] = "load"
               /\ \A o \in Hydrator : o # c => dailyStep'[o] = dailyStep[o] /\ ~Busy(o)
    BY <1>0, <1>1, <1>5 DEF TakeTurn, Advance, DailyTypeOK, OneHost, Busy
  <1>6. ASSUME NEW c \in Hydrator, LoadDaily(c)
        PROVE  /\ UNCHANGED <<daily, asOf>> /\ dailyStep'[c] = "parse" /\ Busy(c)
               /\ base'[c].days = Before(daily.days, asOf[c])
               /\ \A o \in Hydrator : o # c => dailyStep'[o] = dailyStep[o] /\ base'[o] = base[o]
    BY <1>0, <1>6, DailyNumbers
    DEF LoadDaily, Advance, DailyTypeOK, Busy, Trimmed, DailyCache
  <1>7. ASSUME NEW c \in Hydrator, ParseSessions(c)
        PROVE  /\ UNCHANGED <<daily, asOf, base>> /\ dailyStep[c] = "parse"
               /\ dailyStep'[c] \in {"save", "done"}
               /\ \A o \in Hydrator : o # c => dailyStep'[o] = dailyStep[o]
    BY <1>0, <1>7 DEF ParseSessions, Advance, DailyTypeOK
  <1>8. ASSUME NEW c \in Hydrator, SaveDaily(c)
        PROVE  /\ dailyStep'[c] = "done" /\ Busy(c)
               /\ \A o \in Hydrator : o # c => dailyStep'[o] = dailyStep[o]
    BY <1>0, <1>8 DEF SaveDaily, Advance, DailyTypeOK, Busy
  <1> QED
    BY <1>2, <1>3, <1>4, <1>5, <1>6, <1>7, <1>8 DEF DailyNext, Busy

-----------------------------------------------------------------------------
(* Theorems *)

\* A trusted watermark never runs ahead of what is recorded, with any number of
\* processes that overwrite each other's file, parses that are cut short and
\* hydrations that wait past midnight (ensureCacheHydrated of daily-cache.ts).
THEOREM WatermarkStaysHonest == DailySpec => []WatermarkCoversDays
  <1>1. DailyInvariant => WatermarkCoversDays
    BY DailyNumbers DEF DailyInvariant, Sound, WatermarkCoversDays, Before
  <1> QED
    BY <1>1, DailyAlways, PTL

\* In one process no hydration loses a recorded day before its own today, also
\* when the sources of that day have been deleted.
THEOREM HistoryStaysKept == DailySpec => HistoryKept
  <1>1. DailyInit => TakingTurns
    BY DEF DailyInit, TakingTurns, Busy
  <1>2. DailyInvariant /\ TakingTurns /\ [DailyNext]_dailyVars => TakingTurns'
    BY TurnsStep
  <1>3. ASSUME DailyInvariant, TakingTurns, [DailyNext]_dailyVars, daily' # daily, OneHost
        PROVE  \E c \in Hydrator :
                  /\ dailyStep[c] = "save" /\ dailyStep'[c] = "done"
                  /\ Before(daily.days, asOf[c]) \subseteq daily'.days
    <2>1. PICK c \in Hydrator : SaveDaily(c)
      BY <1>3 DEF DailyNext, Use, DeleteSource, Midnight, Reconfigure, CallHydrate, TakeTurn,
         LoadDaily, ParseSessions, dailyVars
    <2>2. dailyStep[c] = "save" /\ dailyStep'[c] = "done"
      BY <1>3, <2>1 DEF SaveDaily, Advance, DailyInvariant, DailyTypeOK
    <2>3. Before(daily.days, asOf[c]) \subseteq base[c].days
      BY <1>3, <2>2 DEF TakingTurns
    <2> QED
      BY <1>3, <2>1, <2>2, <2>3, SaveKeeps
  <1>4. DailyInvariant /\ TakingTurns /\ [DailyNext]_dailyVars =>
          [(\A c, o \in Hydrator : host[c] = host[o]) =>
              \E c \in Hydrator :
                  /\ dailyStep[c] = "save" /\ dailyStep'[c] = "done"
                  /\ Before(daily.days, asOf[c]) \subseteq daily'.days]_daily
    BY <1>3 DEF OneHost
  <1> QED
    BY <1>1, <1>2, <1>4, DailyAlways, PTL DEF DailySpec, HistoryKept

-----------------------------------------------------------------------------
(***************************************************************************)
(* QuotaService                                                            *)
(***************************************************************************)

Account == 1 .. LastAccount
Flight == [starting : Nat, prior : [QuotaProvider -> Quota],
           keychain : BOOLEAN, read : BOOLEAN]
Fetch == [generation : Nat, asked : SUBSET Account, value : Quota, written : Until]

QuotaTypes ==
    /\ account \in [QuotaProvider -> Account]
    /\ signedIn \in [QuotaProvider -> SUBSET Account]
    /\ generations \in Nat
    /\ quotaCache \subseteq [value : [QuotaProvider -> Quota], fresh : BOOLEAN]
    /\ flight \subseteq Flight
    /\ fetchStep \in [QuotaProvider -> {"idle", "fetching", "asked", "saving", "done"}]
    /\ fetch \in [QuotaProvider -> Fetch]
    /\ backoff \in Until /\ blocked \in Until

\* One flight.  While no invalidation came after it started, the quota it would
\* keep, what it was told to ask about and what it will return are of accounts
\* signed in to since the last one.
FlightCurrent ==
    /\ \A fl, other \in flight : fl = other
    /\ \A fl \in flight : fl.starting <= generations
    /\ \A p \in QuotaProvider :
          /\ account[p] \in signedIn[p]
          /\ fetch[p].generation <= generations
          /\ fetch[p].generation = generations => fetch[p].asked \subseteq signedIn[p]
          /\ \A fl \in flight : fl.starting = generations =>
                fl.prior[p].about \cup fetch[p].value.about \subseteq signedIn[p]
          /\ flight = {} => fetchStep[p] = "idle" /\ fetch[p].value.about = {}

QuotaInvariant == QuotaTypes /\ FlightCurrent /\ QuotaSinceInvalidated

LEMMA QuotaValues ==
    /\ Unavailable("disconnected") \in Quota /\ Unavailable("transientFailure") \in Quota
    /\ NoFetch \in Fetch
  BY DEF Unavailable, Quota, NoFetch, Fetch, Account, Until

LEMMA RetainedAbout ==
    ASSUME NEW fl \in Flight, NEW p \in QuotaProvider, NEW next \in Quota
    PROVE  /\ Retained(fl, p, next) \in Quota
           /\ Retained(fl, p, next).about \in {fl.prior[p].about, next.about}
  <1>1. fl.prior[p] \in Quota
    BY DEF Flight
  <1>2. CASE fl.prior[p].connection # "connected"
    BY <1>2 DEF Retained
  <1>3. CASE fl.prior[p].connection = "connected"
    <2> DEFINE previous == fl.prior[p]
               failed == [previous EXCEPT !.connection = "transientFailure"]
    <2>1. failed \in Quota /\ failed.about = previous.about
      BY <1>1 DEF Quota
    <2>2. Retained(fl, p, next) \in {previous, failed, next}
      BY <1>3 DEF Retained
    <2> QED
      BY <1>1, <2>1, <2>2
  <1> QED
    BY <1>2, <1>3

LEMMA QuotaInvariantInit == QuotaInit => QuotaInvariant
  <1> SUFFICES ASSUME QuotaInit PROVE QuotaInvariant
    OBVIOUS
  <1>1. QuotaTypes
    BY QuotaValues, QuotaAssumption DEF QuotaInit, QuotaTypes, Account, Until
  <1>2. \A p \in QuotaProvider : fetch[p].asked = {} /\ fetch[p].generation = 0
    BY DEF QuotaInit, NoFetch
  <1>3. FlightCurrent /\ QuotaSinceInvalidated
    BY <1>2 DEF QuotaInit, FlightCurrent, QuotaSinceInvalidated, NoFetch, Unavailable
  <1> QED
    BY <1>1, <1>3 DEF QuotaInvariant

LEMMA SignInStep ==
    ASSUME QuotaInvariant, NEW p \in QuotaProvider, SignIn(p)
    PROVE  QuotaInvariant'
  <1> USE DEF QuotaInvariant
  <1>1. account[p] + 1 \in Account
    BY QuotaAssumption DEF SignIn, QuotaTypes, Account
  <1>2. QuotaTypes'
    BY <1>1 DEF SignIn, QuotaTypes
  <1>3. /\ UNCHANGED <<generations, quotaCache, flight, fetch>>
        /\ \A q \in QuotaProvider : signedIn[q] \subseteq signedIn'[q] /\ account'[q] \in signedIn'[q]
    BY DEF SignIn, QuotaTypes, FlightCurrent
  <1>4. FlightCurrent'
    <2>1. \A fl, other \in flight' : fl = other
      BY <1>3 DEF FlightCurrent
    <2>2. \A fl \in flight' : fl.starting <= generations'
      BY <1>3 DEF FlightCurrent
    <2>3. ASSUME NEW q \in QuotaProvider
          PROVE  /\ fetch'[q].generation <= generations'
                 /\ fetch'[q].generation = generations' => fetch'[q].asked \subseteq signedIn'[q]
                 /\ \A fl \in flight' : fl.starting = generations' =>
                       fl.prior[q].about \cup fetch'[q].value.about \subseteq signedIn'[q]
                 /\ flight' = {} => fetchStep'[q] = "idle" /\ fetch'[q].value.about = {}
      BY <1>3 DEF FlightCurrent, SignIn
    <2> QED
      BY <1>3, <2>1, <2>2, <2>3 DEF FlightCurrent
  <1>5. QuotaSinceInvalidated'
    BY <1>3 DEF QuotaSinceInvalidated
  <1> QED
    BY <1>2, <1>4, <1>5

LEMMA ClockStep ==
    ASSUME QuotaInvariant, CacheAges \/ \E p \in QuotaProvider : BackoffPasses(p)
    PROVE  QuotaInvariant'
  <1> USE DEF QuotaInvariant
  <1>1. CASE CacheAges
    <2>1. \A c \in quotaCache' : c \in [value : [QuotaProvider -> Quota], fresh : BOOLEAN]
                                 /\ \E d \in quotaCache : c.value = d.value
      BY <1>1 DEF CacheAges, QuotaTypes
    <2>2. UNCHANGED <<account, generations, flight, fetchStep, fetch, backoff, blocked, signedIn>>
      BY <1>1 DEF CacheAges
    <2> QED
      BY <2>1, <2>2 DEF QuotaTypes, FlightCurrent, QuotaSinceInvalidated
  <1>2. ASSUME NEW p \in QuotaProvider, BackoffPasses(p) PROVE QuotaInvariant'
    <2>1. \A f \in Until : Passed(f, p) \in Until
      BY DEF Passed, Until
    <2>2. \A q \in QuotaProvider :
             /\ fetch'[q] \in Fetch /\ fetch'[q].generation = fetch[q].generation
             /\ fetch'[q].asked = fetch[q].asked /\ fetch'[q].value = fetch[q].value
      BY <1>2, <2>1 DEF BackoffPasses, QuotaTypes, Fetch
    <2>3. fetch' \in [QuotaProvider -> Fetch] /\ backoff' \in Until /\ blocked' \in Until
      BY <1>2, <2>1, <2>2 DEF BackoffPasses, QuotaTypes
    <2>4. UNCHANGED <<account, generations, quotaCache, flight, fetchStep, signedIn>>
      BY <1>2 DEF BackoffPasses
    <2> QED
      BY <2>2, <2>3, <2>4 DEF QuotaTypes, FlightCurrent, QuotaSinceInvalidated
  <1> QED
    BY <1>1, <1>2

\* What a new flight would keep is the cached quota, or about no account.
LEMMA Prior ==
    ASSUME QuotaInvariant, NEW cached \in SUBSET quotaCache
    PROVE  /\ PriorQuota(cached) \in [QuotaProvider -> Quota]
           /\ \A p \in QuotaProvider : PriorQuota(cached)[p].about \subseteq
                                           IF cached = {} THEN {} ELSE signedIn[p]
  <1>1. CASE cached = {}
    BY <1>1, QuotaValues DEF PriorQuota, Unavailable
  <1>2. CASE cached # {}
    <2>1. (CHOOSE c \in cached : TRUE) \in cached
      BY <1>2
    <2> QED
      BY <1>2, <2>1 DEF PriorQuota, QuotaInvariant, QuotaTypes, QuotaSinceInvalidated
  <1> QED
    BY <1>1, <1>2

LEMMA PollStep ==
    ASSUME QuotaInvariant, Poll
    PROVE  QuotaInvariant'
  <1> USE DEF QuotaInvariant
  <1> DEFINE fl == [starting |-> generations, prior |-> PriorQuota(quotaCache),
                    keychain |-> FALSE, read |-> FALSE]
  <1>1. /\ flight = {} /\ flight' = {fl}
        /\ UNCHANGED <<account, generations, quotaCache, fetchStep, fetch, backoff, blocked, signedIn>>
    BY DEF Poll, Join
  <1>2. fl \in Flight /\ \A p \in QuotaProvider : fl.prior[p].about \subseteq signedIn[p]
    BY Prior DEF Flight, QuotaTypes
  <1>3. \A p \in QuotaProvider : fetch[p].value.about = {}
    BY <1>1 DEF FlightCurrent
  <1>4. fl.starting = generations /\ generations \in Nat
    BY DEF QuotaTypes
  <1> HIDE DEF fl
  <1>5. QuotaTypes'
    BY <1>1, <1>2 DEF QuotaTypes
  <1>6. FlightCurrent'
    BY <1>1, <1>2, <1>3, <1>4 DEF FlightCurrent
  <1> QED
    BY <1>1, <1>5, <1>6 DEF QuotaSinceInvalidated

\* After an invalidation only a flight that starts with it counts.
LEMMA ForceRefreshStep ==
    ASSUME QuotaInvariant, ForceRefresh
    PROVE  QuotaInvariant'
  <1> USE DEF QuotaInvariant
  <1> DEFINE fl == [starting |-> generations + 1, prior |-> PriorQuota({}),
                    keychain |-> TRUE, read |-> FALSE]
  <1>1. /\ flight' = IF flight # {} THEN flight ELSE {fl}
        /\ quotaCache' = {} /\ generations' = generations + 1
        /\ UNCHANGED <<account, fetchStep, fetch, backoff, blocked>>
        /\ \A p \in QuotaProvider : signedIn'[p] = {account[p]}
    BY DEF ForceRefresh, Join
  <1>2. fl \in Flight /\ \A p \in QuotaProvider : fl.prior[p].about = {}
    BY Prior DEF Flight, QuotaTypes
  <1>3. /\ generations \in Nat /\ fl.starting = generations + 1
        /\ \A other \in flight : other.starting \in Nat /\ other.starting <= generations
        /\ \A p \in QuotaProvider : fetch[p].generation \in Nat /\ fetch[p].generation <= generations
    BY DEF QuotaTypes, FlightCurrent, Flight, Fetch
  <1> HIDE DEF fl
  <1>4. QuotaTypes'
    BY <1>1, <1>2, <1>3 DEF QuotaTypes, ForceRefresh
  <1>5. FlightCurrent'
    <2>1. CASE flight # {}
      BY <1>1, <1>3, <2>1 DEF FlightCurrent
    <2>2. CASE flight = {}
      <3>1. flight' = {fl}
        BY <1>1, <2>2
      <3>2. \A p \in QuotaProvider :
               /\ fetchStep'[p] = "idle" /\ fetch'[p].value.about = {}
               /\ fetch'[p].generation < generations'
        <4>1. \A p \in QuotaProvider : fetchStep[p] = "idle" /\ fetch[p].value.about = {}
          BY <2>2 DEF FlightCurrent
        <4>2. fetchStep' = fetchStep /\ fetch' = fetch
          BY <1>1
        <4> QED
          BY <1>1, <1>3, <4>1, <4>2
      <3>3. \A p \in QuotaProvider : account'[p] \in signedIn'[p]
        BY <1>1
      <3>4. \A p \in QuotaProvider : fetch'[p].generation # generations'
                                     /\ fetch'[p].generation <= generations'
        BY <1>1, <1>3
      <3>5. fl.starting = generations'
        BY <1>1, <1>3
      <3> QED
        BY <1>2, <1>3, <3>1, <3>2, <3>3, <3>4, <3>5 DEF FlightCurrent
    <2> QED
      BY <2>1, <2>2
  <1> QED
    BY <1>1, <1>4, <1>5 DEF QuotaSinceInvalidated

\* A new value of one fetch, of an account that may be spoken of.
LEMMA FetchStep ==
    ASSUME QuotaInvariant, NEW p \in QuotaProvider, NEW f \in Fetch,
           fetch' = [fetch EXCEPT ![p] = f], flight # {},
           fetchStep' \in [QuotaProvider -> {"idle", "fetching", "asked", "saving", "done"}],
           UNCHANGED <<account, generations, quotaCache, flight, signedIn>>,
           backoff' \in Until, blocked' \in Until,
           f.generation <= generations,
           f.generation = generations => f.asked \subseteq signedIn[p],
           \A fl \in flight : fl.starting = generations => f.value.about \subseteq signedIn[p]
    PROVE  QuotaInvariant'
  <1>1. \A q \in QuotaProvider : fetch'[q] = IF q = p THEN f ELSE fetch[q]
    BY DEF QuotaInvariant, QuotaTypes
  <1>2. QuotaTypes'
    BY DEF QuotaInvariant, QuotaTypes
  <1>3. FlightCurrent'
    BY <1>1 DEF QuotaInvariant, FlightCurrent
  <1> QED
    BY <1>2, <1>3 DEF QuotaInvariant, QuotaSinceInvalidated

LEMMA ReadBlockedStep ==
    ASSUME QuotaInvariant, ReadBlocked
    PROVE  QuotaInvariant'
  <1> USE DEF QuotaInvariant
  <1>1. PICK fl \in flight, read \in {backoff, [p \in QuotaProvider |-> "none"]} :
           /\ flight' = {[fl EXCEPT !.read = TRUE]}
           /\ blocked' = read
           /\ fetchStep' = [p \in QuotaProvider |->
                                IF read[p] = "future" THEN "done" ELSE "fetching"]
           /\ fetch' = [p \in QuotaProvider |->
                            [NoFetch EXCEPT
                                !.generation = IF read[p] = "future" THEN @ ELSE generations,
                                !.value = IF read[p] = "future"
                                          THEN Retained(fl, p, Unavailable("transientFailure"))
                                          ELSE @]]
    BY DEF ReadBlocked
  <1>2. fl \in Flight /\ generations \in Nat /\ read \in Until
    BY DEF QuotaTypes, Until
  <1>3. \A p \in QuotaProvider :
           LET kept == Retained(fl, p, Unavailable("transientFailure")) IN
           kept \in Quota /\ kept.about \in {fl.prior[p].about, {}}
    BY <1>2, QuotaValues, RetainedAbout DEF Unavailable
  <1>4. \A p \in QuotaProvider :
           /\ fetch'[p] \in Fetch /\ fetch'[p].generation \in {0, generations}
           /\ fetch'[p].asked = {} /\ fetch'[p].value.about \in {fl.prior[p].about, {}}
    <2>1. NoFetch \in Fetch /\ NoFetch.generation = 0 /\ NoFetch.asked = {}
          /\ NoFetch.value.about = {}
      BY QuotaValues DEF NoFetch, Unavailable
    <2> QED
      BY <1>1, <1>2, <1>3, <2>1 DEF Fetch
  <1>5. /\ fetch' \in [QuotaProvider -> Fetch] /\ blocked' \in Until
        /\ fetchStep' \in [QuotaProvider -> {"idle", "fetching", "asked", "saving", "done"}]
    BY <1>1, <1>2, <1>4
  <1>6. \E other \in Flight : /\ flight' = {other} /\ other.starting = fl.starting
                              /\ other.prior = fl.prior
    <2>1. /\ [fl EXCEPT !.read = TRUE] \in Flight
          /\ [fl EXCEPT !.read = TRUE].starting = fl.starting
          /\ [fl EXCEPT !.read = TRUE].prior = fl.prior
      BY <1>2 DEF Flight
    <2> QED
      BY <1>1, <2>1
  <1>7. UNCHANGED <<account, generations, quotaCache, backoff, signedIn>>
    BY DEF ReadBlocked
  <1>8. QuotaTypes'
    BY <1>5, <1>6, <1>7 DEF QuotaTypes
  <1>9. FlightCurrent'
    <2>1. PICK other \in Flight : /\ flight' = {other} /\ other.starting = fl.starting
                                   /\ other.prior = fl.prior
      BY <1>6
    <2>2. other.starting <= generations'
      BY <1>7, <2>1 DEF FlightCurrent
    <2>3. ASSUME NEW p \in QuotaProvider
          PROVE  /\ account'[p] \in signedIn'[p]
                 /\ fetch'[p].generation <= generations' /\ fetch'[p].asked \subseteq signedIn'[p]
                 /\ other.starting = generations' =>
                       other.prior[p].about \cup fetch'[p].value.about \subseteq signedIn'[p]
      <3>1. account'[p] \in signedIn'[p] /\ fetch'[p].asked \subseteq signedIn'[p]
        BY <1>4, <1>7 DEF FlightCurrent
      <3>2. fetch'[p].generation <= generations'
        BY <1>2, <1>4, <1>7
      <3>3. other.starting = generations' => fl.prior[p].about \subseteq signedIn[p]
        BY <1>7, <2>1 DEF FlightCurrent
      <3> QED
        BY <1>4, <1>7, <2>1, <3>1, <3>2, <3>3
    <2> QED
      BY <2>1, <2>2, <2>3 DEF FlightCurrent
  <1> QED
    BY <1>7, <1>8, <1>9 DEF QuotaSinceInvalidated

LEMMA CredentialsStep ==
    ASSUME QuotaInvariant, NEW p \in QuotaProvider, ReadCredentials(p) \/ SaveBackoff(p)
    PROVE  QuotaInvariant'
  <1> USE DEF QuotaInvariant
  <1>1. fetch[p] \in Fetch /\ account[p] \in Account /\ backoff \in Until /\ flight # {}
    BY DEF QuotaTypes, ReadCredentials, SaveBackoff, FlightCurrent
  <1>2. CASE ReadCredentials(p)
    <2> DEFINE f == [fetch[p] EXCEPT !.asked = {account[p]}]
    <2>1. /\ f \in Fetch /\ f.generation = fetch[p].generation /\ f.value = fetch[p].value
          /\ f.asked \subseteq signedIn[p]
      BY <1>1 DEF Fetch, FlightCurrent
    <2>2. /\ fetch' = [fetch EXCEPT ![p] = f]
          /\ fetchStep' \in [QuotaProvider -> {"idle", "fetching", "asked", "saving", "done"}]
          /\ UNCHANGED <<account, generations, quotaCache, flight, signedIn, backoff, blocked>>
      BY <1>2 DEF ReadCredentials, At, QuotaTypes
    <2> HIDE DEF f
    <2>3. /\ f.generation <= generations
          /\ \A fl \in flight : fl.starting = generations => f.value.about \subseteq signedIn[p]
      BY <2>1 DEF FlightCurrent
    <2>4. backoff' \in Until /\ blocked' \in Until
      BY <2>2 DEF QuotaTypes
    <2> QED
      BY <1>1, <2>1, <2>2, <2>3, <2>4, FetchStep
  <1>3. CASE SaveBackoff(p)
    <2> DEFINE f == [fetch[p] EXCEPT !.written = NoFetch.written]
    <2>1. /\ f \in Fetch /\ f.generation = fetch[p].generation /\ f.value = fetch[p].value
          /\ f.asked = fetch[p].asked
      BY <1>1, QuotaValues DEF Fetch
    <2>2. /\ fetch' = [fetch EXCEPT ![p] = f]
          /\ fetchStep' \in [QuotaProvider -> {"idle", "fetching", "asked", "saving", "done"}]
          /\ UNCHANGED <<account, generations, quotaCache, flight, signedIn, blocked>>
          /\ backoff' \in Until
      BY <1>1, <1>3 DEF SaveBackoff, At, QuotaTypes, Fetch
    <2> HIDE DEF f
    <2>3. /\ f.generation <= generations
          /\ f.generation = generations => f.asked \subseteq signedIn[p]
          /\ \A fl \in flight : fl.starting = generations => f.value.about \subseteq signedIn[p]
      BY <2>1 DEF FlightCurrent
    <2>4. blocked' \in Until
      BY <2>2 DEF QuotaTypes
    <2> QED
      BY <1>1, <2>1, <2>2, <2>3, <2>4, FetchStep
  <1> QED
    BY <1>2, <1>3

\* An answer speaks of what was asked about, or of what the flight would keep; an
\* invalidated one of nothing.
LEMMA AnsweredStep ==
    ASSUME QuotaInvariant, NEW p \in QuotaProvider, NEW next \in Quota, NEW limited \in BOOLEAN,
           next.about \subseteq fetch[p].asked, Answered(p, next, limited)
    PROVE  QuotaInvariant'
  <1> USE DEF QuotaInvariant
  <1> DEFINE current == fetch[p].generation = generations
             changes == current /\ (limited \/ blocked[p] # "none")
  <1>1. PICK fl \in flight :
           fetch' = [fetch EXCEPT
                        ![p] = [NoFetch EXCEPT
                                   !.value = IF current THEN Retained(fl, p, next)
                                             ELSE Unavailable("disconnected"),
                                   !.written = IF changes THEN blocked' ELSE @]]
    BY DEF Answered
  <1>2. fl \in Flight /\ generations \in Nat /\ blocked \in Until /\ backoff \in Until
    BY DEF QuotaTypes
  <1>3. /\ UNCHANGED <<account, generations, quotaCache, flight, backoff, signedIn>>
        /\ fetchStep' \in [QuotaProvider -> {"idle", "fetching", "asked", "saving", "done"}]
        /\ blocked' = IF changes
                      THEN [blocked EXCEPT ![p] = IF limited THEN "future" ELSE "none"]
                      ELSE blocked
    BY DEF Answered, At, QuotaTypes
  <1>4. blocked' \in Until
    BY <1>2, <1>3 DEF Until
  <1> DEFINE value == IF current THEN Retained(fl, p, next) ELSE Unavailable("disconnected")
             f == [NoFetch EXCEPT !.value = value, !.written = IF changes THEN blocked' ELSE @]
  <1>5. value \in Quota /\ (~current \/ value.about \in {fl.prior[p].about, next.about})
        /\ (current \/ value.about = {})
    BY <1>2, QuotaValues, RetainedAbout DEF Unavailable
  <1>6. fl.starting = generations => value.about \subseteq signedIn[p]
    BY <1>1, <1>5 DEF FlightCurrent
  <1>7. /\ NoFetch \in Fetch /\ NoFetch.generation = 0 /\ NoFetch.asked = {}
    BY QuotaValues DEF NoFetch
  <1>8. fetch' = [fetch EXCEPT ![p] = f]
    BY <1>1
  <1> HIDE DEF value, current
  <1>9. f \in Fetch /\ f.generation = 0 /\ f.asked = {} /\ f.value = value
    BY <1>4, <1>5, <1>7 DEF Fetch
  <1> HIDE DEF f
  <1>10. \A other \in flight : other.starting = generations => f.value.about \subseteq signedIn[p]
    <2>1. \A other \in flight : other = fl
      BY DEF FlightCurrent
    <2> QED
      BY <1>6, <1>9, <2>1
  <1>11. flight # {} /\ backoff' \in Until
    BY <1>2, <1>3
  <1>12. f.generation <= generations /\ f.asked \subseteq signedIn[p]
    BY <1>2, <1>9
  <1> QED
    BY <1>3, <1>4, <1>8, <1>9, <1>10, <1>11, <1>12, FetchStep

LEMMA AnswerStep ==
    ASSUME QuotaInvariant, NEW p \in QuotaProvider, Answer(p)
    PROVE  QuotaInvariant'
  <1>1. fetch[p].asked \subseteq Account
    BY DEF QuotaInvariant, QuotaTypes, Fetch
  <1>2. /\ Connected(fetch[p].asked) \in Quota
        /\ Connected(fetch[p].asked).about \subseteq fetch[p].asked
    BY <1>1 DEF Connected, Quota, Account
  <1>3. \A why \in {"disconnected", "transientFailure"} :
           Unavailable(why) \in Quota /\ Unavailable(why).about \subseteq fetch[p].asked
    BY QuotaValues DEF Unavailable
  <1>4. CASE Answered(p, Connected(fetch[p].asked), FALSE)
    BY <1>2, <1>4, AnsweredStep
  <1>5. CASE Answered(p, Unavailable("disconnected"), FALSE)
    BY <1>3, <1>5, AnsweredStep
  <1>6. ASSUME NEW limited \in BOOLEAN, Answered(p, Unavailable("transientFailure"), limited)
        PROVE  QuotaInvariant'
    BY <1>3, <1>6, AnsweredStep
  <1> QED
    BY <1>4, <1>5, <1>6 DEF Answer

LEMMA LandStep ==
    ASSUME QuotaInvariant, Land
    PROVE  QuotaInvariant'
  <1> USE DEF QuotaInvariant
  <1>1. PICK fl \in flight :
           quotaCache' = IF fl.starting = generations
                         THEN {[value |-> [p \in QuotaProvider |-> fetch[p].value],
                                fresh |-> TRUE]}
                         ELSE quotaCache
    BY DEF Land
  <1>2. /\ flight' = {} /\ fetchStep' = [p \in QuotaProvider |-> "idle"]
        /\ fetch' = [p \in QuotaProvider |-> NoFetch]
        /\ blocked' = [p \in QuotaProvider |-> "none"]
        /\ UNCHANGED <<account, generations, backoff, signedIn>>
    BY DEF Land, Landed
  <1> DEFINE landed == [p \in QuotaProvider |-> fetch[p].value]
             entry == [value |-> landed, fresh |-> TRUE]
  <1>3. landed \in [QuotaProvider -> Quota] /\ \A p \in QuotaProvider : landed[p] = fetch[p].value
    BY DEF QuotaTypes, Fetch
  <1>4. quotaCache' \in {quotaCache, {entry}}
        /\ (quotaCache' = {entry} /\ quotaCache' # quotaCache => fl.starting = generations)
    BY <1>1
  <1> HIDE DEF landed
  <1>5. QuotaTypes'
    <2>1. quotaCache' \subseteq [value : [QuotaProvider -> Quota], fresh : BOOLEAN]
      <3>1. entry \in [value : [QuotaProvider -> Quota], fresh : BOOLEAN]
        BY <1>3
      <3> HIDE DEF entry
      <3> QED
        BY <1>4, <3>1 DEF QuotaTypes
    <2>2. fetch' \in [QuotaProvider -> Fetch] /\ blocked' \in Until
      BY <1>2, QuotaValues DEF Until
    <2> QED
      BY <1>2, <2>1, <2>2 DEF QuotaTypes
  <1>6. FlightCurrent'
    BY <1>2 DEF FlightCurrent, QuotaTypes, NoFetch, Unavailable
  <1>7. QuotaSinceInvalidated'
    BY <1>2, <1>3, <1>4 DEF QuotaSinceInvalidated, FlightCurrent
  <1> QED
    BY <1>5, <1>6, <1>7

LEMMA QuotaInvariantAlways == QuotaSpec => []QuotaInvariant
  <1>1. QuotaInvariant /\ [QuotaNext]_quotaVars => QuotaInvariant'
    <2> SUFFICES ASSUME QuotaInvariant, [QuotaNext]_quotaVars PROVE QuotaInvariant'
      OBVIOUS
    <2>1. CASE UNCHANGED quotaVars
      BY <2>1 DEF quotaVars, QuotaInvariant, QuotaTypes, FlightCurrent, QuotaSinceInvalidated
    <2> QED
      BY <2>1, ClockStep, PollStep, ForceRefreshStep, ReadBlockedStep, LandStep, SignInStep,
         CredentialsStep, AnswerStep DEF QuotaNext
  <1> QED
    BY <1>1, QuotaInvariantInit, PTL DEF QuotaSpec

\* The cached quota never speaks of an account left before the last forced
\* refresh, with any number of providers whose credentials change at any moment
\* of a flight (QuotaService.getQuota and fetchAll).
THEOREM QuotaStaysCurrent == QuotaSpec => []QuotaSinceInvalidated
  <1>1. QuotaInvariant => QuotaSinceInvalidated
    BY DEF QuotaInvariant
  <1> QED
    BY <1>1, QuotaInvariantAlways, PTL

-----------------------------------------------------------------------------
(***************************************************************************)
(* ActionJournal                                                           *)
(***************************************************************************)

Touched(plan, d, x) == \E i \in 1 .. d : x \in {plan[i].path, plan[i].to}

\* The bytes that the first d changes have moved are where they were moved to; what
\* was the first to happen to its path has moved the bytes of the snapshot.
Held(plan, backup, now, d) ==
    \A i \in 1 .. d : plan[i].op = "move" =>
        /\ now[plan[i].to] # Missing
        /\ ~Touched(plan, i - 1, plan[i].path) => now[plan[i].to] = backup[plan[i].path]

\* What the first d changes have not touched is as in the snapshot.
Back(plan, backup, now, d, scope) ==
    \A x \in scope : ~Touched(plan, d, x) => now[x] = backup[x]

ActRecord == [id : 0 .. MaxActions, plan : Plan \cup {<<>>}, backup : [Path -> Content],
              after : Seq(Content), done : Nat, torn : SUBSET Path, forced : BOOLEAN]

ActTypes ==
    /\ files \in [Path -> Content]
    /\ journal \in Seq(Record)
    /\ actStep \in [Actor -> ActStep]
    /\ act \in [Actor -> ActRecord]
    /\ actionLock \subseteq Actor

\* A journaled action could be taken back from the contents it has recorded.
Journaled(rec) ==
    /\ DOMAIN rec.after = DOMAIN rec.plan
    /\ \A i \in DOMAIN rec.plan : rec.plan[i].op = "move" =>
          /\ rec.after[i] # Missing
          /\ ~Touched(rec.plan, i - 1, rec.plan[i].path) =>
                 rec.after[i] = rec.backup[rec.plan[i].path]

Active(a) == actStep[a] \notin {"idle", "dead"}

\* One process at a time, with a plan of which it has `done` changes applied.
Exclusive(a) ==
    Active(a) => /\ actionLock = {a}
                 /\ act[a].plan \in Plan /\ act[a].done \in 0 .. Len(act[a].plan)

Applying(a) ==
    LET j == act[a] IN
    /\ actStep[a] = "apply" => j.id = Len(journal) + 1 /\ j.torn = {}
    /\ actStep[a] \in {"apply", "roll back", "rolled back"} =>
          /\ Held(j.plan, j.backup, files, j.done)
          /\ Back(j.plan, j.backup, files, j.done, Path \ j.torn)
    /\ actStep[a] = "rolled back" => j.done = 0

Undoing(a) ==
    LET j == act[a] IN
    /\ actStep[a] = "undo" => j.id \in DOMAIN journal
    /\ actStep[a] \in {"undo", "undone"} /\ ~j.forced =>
          /\ Held(j.plan, j.backup, files, j.done)
          /\ Back(j.plan, j.backup, files, j.done, Paths(j.plan))
    /\ actStep[a] = "undone" => j.done = 0

ActInvariant ==
    /\ ActTypes
    /\ Len(journal) <= MaxActions
    /\ actionLock = {} \/ \E a \in Actor : actionLock = {a}
    /\ \A n \in DOMAIN journal : Journaled(journal[n])
    /\ \A a \in Actor : Exclusive(a) /\ Applying(a) /\ Undoing(a)

-----------------------------------------------------------------------------
(* Plans and their changes *)

LEMMA PlanFacts ==
    ASSUME NEW plan \in Plan
    PROVE  /\ plan \in Seq(Change) /\ Len(plan) \in Nat \ {0} /\ DOMAIN plan = 1 .. Len(plan)
           /\ \A i \in 1 .. Len(plan) : plan[i] \in Change
           /\ Claimed(plan)
  BY JournalAssumption

LEMMA ChangeFields ==
    ASSUME NEW ch \in Change
    PROVE  /\ ch.path \in Path /\ ch.to \in Path /\ ch.op \in {"write", "move"}
           /\ ch.op = "write" <=> ch.path = ch.to
           /\ CurrentPath(ch) = ch.to
  BY DEF Change, CurrentPath

LEMMA TouchedNext ==
    ASSUME NEW plan, NEW d \in Nat, NEW x
    PROVE  Touched(plan, d + 1, x) <=>
               Touched(plan, d, x) \/ x \in {plan[d + 1].path, plan[d + 1].to}
  <1>1. \A i \in 1 .. (d + 1) : i \in 1 .. d \/ i = d + 1
    OBVIOUS
  <1>2. \A i \in 1 .. d : i \in 1 .. (d + 1)
    OBVIOUS
  <1>3. d + 1 \in 1 .. (d + 1)
    OBVIOUS
  <1> QED
    BY <1>1, <1>2, <1>3 DEF Touched

LEMMA NothingTouched == \A plan, x : ~Touched(plan, 0, x)
  BY DEF Touched

LEMMA ContentTypes ==
    /\ Missing \in Content /\ Torn \in Content /\ User(1) \in Content /\ User(2) \in Content
    /\ \A id \in 0 .. MaxActions : id \in Content
  BY JournalAssumption DEF Missing, Torn, User, Content

\* One more change applied to files that are as the first d have left them.
LEMMA ApplyHolds ==
    ASSUME NEW plan \in Plan, NEW d \in 0 .. (Len(plan) - 1), NEW ch, ch = plan[d + 1],
           NEW backup \in [Path -> Content], NEW now \in [Path -> Content],
           NEW next \in [Path -> Content],
           \A x \in Path \ {ch.path, ch.to} : next[x] = now[x],
           ch.op = "move" => now[ch.path] # Missing /\ next[ch.to] = now[ch.path],
           Held(plan, backup, now, d), Back(plan, backup, now, d, Path)
    PROVE  /\ Held(plan, backup, next, d + 1)
           /\ Back(plan, backup, next, d + 1, Path)
  <1>1. /\ d \in Nat /\ d + 1 \in 1 .. Len(plan) /\ DOMAIN plan = 1 .. Len(plan)
        /\ Len(plan) \in Nat /\ ch \in Change /\ Claimed(plan)
        /\ \A i \in 1 .. Len(plan) : plan[i] \in Change
    BY PlanFacts
  <1>2. Back(plan, backup, next, d + 1, Path)
    BY <1>1, TouchedNext DEF Back
  <1>3. ASSUME NEW i \in 1 .. (d + 1), plan[i].op = "move"
        PROVE  /\ next[plan[i].to] # Missing
               /\ ~Touched(plan, i - 1, plan[i].path) =>
                      next[plan[i].to] = backup[plan[i].path]
    <2>1. CASE i = d + 1
      <3>1. i - 1 = d /\ plan[i] = ch /\ ch.path \in Path
        BY <1>1, <2>1, ChangeFields
      <3>2. ~Touched(plan, d, ch.path) => now[ch.path] = backup[ch.path]
        BY <3>1 DEF Back
      <3> QED
        BY <1>3, <3>1, <3>2
    <2>2. CASE i # d + 1
      <3>1. i \in 1 .. d /\ i \in 1 .. Len(plan) /\ i < d + 1
        BY <1>1, <2>2
      <3>2. plan[i].to \in Path \ {ch.path, ch.to}
        BY <1>1, <1>3, <3>1, ChangeFields DEF Claimed
      <3> QED
        BY <1>3, <3>1, <3>2 DEF Held
    <2> QED
      BY <2>1, <2>2
  <1> QED
    BY <1>2, <1>3 DEF Held

\* The newest of d changes reverted: what only it has touched is as in the snapshot.
LEMMA RevertHolds ==
    ASSUME NEW plan \in Plan, NEW d \in 1 .. Len(plan), NEW scope \in SUBSET Path,
           NEW backup \in [Path -> Content], NEW now \in [Path -> Content],
           Held(plan, backup, now, d), Back(plan, backup, now, d, scope)
    PROVE  /\ Reverted(plan[d], backup, now) \in [Path -> Content]
           /\ Held(plan, backup, Reverted(plan[d], backup, now), d - 1)
           /\ Back(plan, backup, Reverted(plan[d], backup, now), d - 1, scope)
  <1> DEFINE ch == plan[d]
             next == Reverted(ch, backup, now)
  <1>1. /\ d \in Nat \ {0} /\ d - 1 \in Nat /\ DOMAIN plan = 1 .. Len(plan)
        /\ Len(plan) \in Nat /\ ch \in Change /\ Claimed(plan)
        /\ \A i \in 1 .. Len(plan) : plan[i] \in Change
    BY PlanFacts
  <1>2. /\ ch.path \in Path /\ ch.to \in Path /\ ch.op \in {"write", "move"}
        /\ ch.op = "write" <=> ch.path = ch.to
    BY <1>1, ChangeFields
  <1>3. /\ ch.op = "move" => now[ch.to] # Missing
        /\ ch.op = "move" /\ ~Touched(plan, d - 1, ch.path) => now[ch.to] = backup[ch.path]
    BY <1>1 DEF Held
  <1> HIDE DEF ch
  <1>4. /\ next \in [Path -> Content]
        /\ \A x \in Path \ {ch.path, ch.to} : next[x] = now[x]
        /\ next[ch.to] = backup[ch.to]
        /\ ~Touched(plan, d - 1, ch.path) => next[ch.path] = backup[ch.path]
    <2>1. CASE ch.op = "write"
      <3>1. next = [now EXCEPT ![ch.path] = backup[ch.path]]
        BY <2>1 DEF Reverted
      <3> QED
        BY <1>2, <2>1, <3>1
    <2>2. CASE ch.op = "move"
      <3>1. next = [now EXCEPT ![ch.path] = now[ch.to], ![ch.to] = backup[ch.to]]
        BY <1>3, <2>2 DEF Reverted
      <3> QED
        BY <1>2, <1>3, <2>2, <3>1
    <2> QED
      BY <1>2, <2>1, <2>2
  <1> HIDE DEF next
  <1>5. \A x : Touched(plan, d, x) <=> Touched(plan, d - 1, x) \/ x \in {ch.path, ch.to}
    <2> DEFINE e == d - 1
    <2>1. e + 1 = d /\ e \in Nat
      BY <1>1
    <2> HIDE DEF e
    <2>2. \A x : Touched(plan, e + 1, x) <=>
                   Touched(plan, e, x) \/ x \in {plan[e + 1].path, plan[e + 1].to}
      BY <2>1, TouchedNext
    <2> QED
      BY <2>1, <2>2 DEF ch, e
  <1>6. Back(plan, backup, next, d - 1, scope)
    BY <1>4, <1>5 DEF Back
  <1>7. Held(plan, backup, next, d - 1)
    <2> SUFFICES ASSUME NEW i \in 1 .. (d - 1), plan[i].op = "move"
                 PROVE  next[plan[i].to] = now[plan[i].to] /\ i \in 1 .. d
      BY DEF Held
    <2>1. i \in 1 .. d /\ i \in 1 .. Len(plan) /\ i < d
      BY <1>1
    <2>2. plan[i].to \in Path \ {ch.path, ch.to}
      BY <1>1, <2>1, ChangeFields DEF Claimed, ch
    <2> QED
      BY <1>4, <2>1, <2>2
  <1> QED
    BY <1>4, <1>6, <1>7 DEF next, ch

LEMMA RevertedTypes ==
    ASSUME NEW ch \in Change, NEW backup \in [Path -> Content], NEW now \in [Path -> Content]
    PROVE  Reverted(ch, backup, now) \in [Path -> Content]
  <1>1. /\ ch.path \in Path /\ ch.to \in Path /\ ch.op \in {"write", "move"}
    BY ChangeFields
  <1>2. CASE ch.op = "write"
    BY <1>1, <1>2 DEF Reverted
  <1>3. CASE ch.op = "move" /\ now[ch.to] # Missing
    BY <1>1, <1>3 DEF Reverted
  <1>4. CASE ch.op = "move" /\ now[ch.to] = Missing
    BY <1>1, <1>4 DEF Reverted
  <1> QED
    BY <1>1, <1>2, <1>3, <1>4

-----------------------------------------------------------------------------
(* Steps *)

LEMMA ActFields ==
    ASSUME NEW j \in ActRecord
    PROVE  /\ j.id \in 0 .. MaxActions /\ j.plan \in Plan \cup {<<>>}
           /\ j.backup \in [Path -> Content] /\ j.after \in Seq(Content) /\ j.done \in Nat
           /\ j.torn \in SUBSET Path /\ j.forced \in BOOLEAN
  BY DEF ActRecord

LEMMA NoActIsRecord == NoAct \in ActRecord
  <1>1. /\ [x \in Path |-> Missing] \in [Path -> Content] /\ <<>> \in Seq(Content)
        /\ 0 \in 0 .. MaxActions
    BY ContentTypes, JournalAssumption
  <1> QED
    BY <1>1 DEF NoAct, ActRecord

\* Whoever has the lock or takes it over is the only one who works.
LEMMA OnlyOne ==
    ASSUME ActInvariant, NEW a \in Actor, Active(a) \/ AcquireActionLock(a)
    PROVE  \A b \in Actor \ {a} : ~Active(b)
  BY DEF ActInvariant, Exclusive, AcquireActionLock, Active

\* What a step of a has to keep, when the others rest.
Steady(a) ==
    /\ ActTypes' /\ (Len(journal) <= MaxActions)'
    /\ (actionLock = {} \/ \E b \in Actor : actionLock = {b})'
    /\ (\A n \in DOMAIN journal : Journaled(journal[n]))'
    /\ Exclusive(a)' /\ Applying(a)' /\ Undoing(a)'
    /\ \A b \in Actor \ {a} : actStep'[b] = actStep[b]

LEMMA SteadySuffices ==
    ASSUME ActInvariant, NEW a \in Actor, Active(a) \/ AcquireActionLock(a), Steady(a)
    PROVE  ActInvariant'
  <1>1. ASSUME NEW b \in Actor \ {a} PROVE Exclusive(b)' /\ Applying(b)' /\ Undoing(b)'
    <2>1. actStep'[b] \in {"idle", "dead"}
      BY OnlyOne DEF Active, Steady
    <2> QED
      BY <2>1 DEF Exclusive, Applying, Undoing, Active
  <1> QED
    BY <1>1 DEF ActInvariant, Steady

\* A step that leaves the journal alone.
LEMMA JournalRests ==
    ASSUME ActInvariant, journal' = journal
    PROVE  /\ journal' \in Seq(Record) /\ Len(journal') <= MaxActions
           /\ \A n \in DOMAIN journal' : Journaled(journal'[n])
           /\ (Len(journal) <= MaxActions)'
           /\ (\A n \in DOMAIN journal : Journaled(journal[n]))'
  <1>1. \A rec : Journaled(rec)' <=> Journaled(rec)
    BY DEF Journaled, Touched
  <1> QED
    BY <1>1 DEF ActInvariant, ActTypes

LEMMA BeginActionSteady ==
    ASSUME ActInvariant, NEW a \in Actor, NEW plan \in Plan, BeginAction(a, plan)
    PROVE  Steady(a)
  <1> DEFINE j == [NoAct EXCEPT !.id = Len(journal) + 1, !.plan = plan, !.backup = files]
  <1>1. /\ Len(journal) \in Nat /\ Len(journal) + 1 \in 0 .. MaxActions
        /\ files \in [Path -> Content]
    BY JournalAssumption DEF BeginAction, ActInvariant, ActTypes
  <1>2. j \in ActRecord
    BY <1>1, NoActIsRecord DEF ActRecord
  <1>3. /\ j.id = Len(journal) + 1 /\ j.plan = plan /\ j.backup = files
        /\ j.done = 0 /\ j.torn = {}
    BY DEF NoAct
  <1>4. /\ act' = [act EXCEPT ![a] = j] /\ actStep' = [actStep EXCEPT ![a] = "apply"]
        /\ files' = files /\ journal' = journal /\ actionLock' = {a}
    BY DEF BeginAction, To, AcquireActionLock
  <1> HIDE DEF j
  <1>5. ActTypes' /\ act'[a] = j /\ actStep'[a] = "apply"
    BY <1>2, <1>4 DEF ActInvariant, ActTypes, ActStep
  <1>6. \A b \in Actor \ {a} : actStep'[b] = actStep[b]
    BY <1>4 DEF ActInvariant, ActTypes
  <1>7. Exclusive(a)'
    BY <1>3, <1>4, <1>5, PlanFacts DEF Exclusive
  <1>8. Applying(a)'
    <2>1. Held(plan, files, files, 0)
      BY DEF Held
    <2>2. Back(plan, files, files, 0, Path)
      BY DEF Back
    <2> QED
      BY <1>3, <1>4, <1>5, <2>1, <2>2 DEF Applying
  <1>9. Undoing(a)'
    BY <1>5 DEF Undoing
  <1> QED
    BY <1>4, <1>5, <1>6, <1>7, <1>8, <1>9, JournalRests DEF Steady

LEMMA ApplySteady ==
    ASSUME ActInvariant, NEW a \in Actor, ApplyChange(a)
    PROVE  Steady(a)
  <1> DEFINE j == act[a]
             k == [j EXCEPT !.done = @ + 1]
             ch == j.plan[j.done + 1]
  <1>1. /\ j \in ActRecord /\ actStep[a] = "apply" /\ actionLock = {a} /\ j.plan \in Plan
        /\ j.done \in 0 .. Len(j.plan) /\ j.done < Len(j.plan)
        /\ j.id = Len(journal) + 1 /\ j.torn = {}
        /\ Held(j.plan, j.backup, files, j.done)
        /\ Back(j.plan, j.backup, files, j.done, Path \ j.torn)
    BY DEF ApplyChange, ActInvariant, ActTypes, Exclusive, Applying, Active
  <1>2. /\ j.backup \in [Path -> Content] /\ files \in [Path -> Content] /\ j.id \in Content
        /\ Len(j.plan) \in Nat /\ j.done \in 0 .. (Len(j.plan) - 1) /\ Path \ j.torn = Path
    BY <1>1, ActFields, ContentTypes, PlanFacts DEF ActInvariant, ActTypes
  <1>3. /\ act' = [act EXCEPT ![a] = k] /\ actStep' = actStep
        /\ journal' = journal /\ actionLock' = actionLock
    BY DEF ApplyChange
  <1>4. /\ ch.op = "move" => files[ch.path] # Missing
        /\ files' = IF ch.op = "move"
                    THEN [files EXCEPT ![ch.to] = files[ch.path], ![ch.path] = Missing]
                    ELSE [files EXCEPT ![ch.path] = j.id]
    BY DEF ApplyChange
  <1>5. /\ k \in ActRecord /\ k.plan = j.plan /\ k.backup = j.backup /\ k.done = j.done + 1
        /\ k.id = j.id /\ k.torn = j.torn
    BY <1>1 DEF ActRecord
  <1> HIDE DEF k, j
  <1>0. ch = j.plan[j.done + 1]
    OBVIOUS
  <1> HIDE DEF ch
  <1>6. /\ files' \in [Path -> Content]
        /\ Held(j.plan, j.backup, files', j.done + 1)
        /\ Back(j.plan, j.backup, files', j.done + 1, Path)
    <2>1. Back(j.plan, j.backup, files, j.done, Path)
      BY <1>1, <1>2 DEF Back
    <2>2. /\ ch \in Change /\ ch.path \in Path /\ ch.to \in Path
          /\ ch.op = "write" <=> ch.path = ch.to
          /\ ch.op \in {"write", "move"}
      BY <1>0, <1>1, <1>2, PlanFacts, ChangeFields
    <2>3. files' \in [Path -> Content]
      BY <1>2, <1>4, <2>2, ContentTypes
    <2>4. \A x \in Path \ {ch.path, ch.to} : files'[x] = files[x]
      BY <1>2, <1>4, <2>2
    <2>5. ch.op = "move" => files[ch.path] # Missing /\ files'[ch.to] = files[ch.path]
      BY <1>2, <1>4, <2>2
    <2> QED
      BY <1>0, <1>1, <1>2, <2>1, <2>3, <2>4, <2>5, ApplyHolds
  <1>7. ActTypes' /\ act'[a] = k
    BY <1>3, <1>5, <1>6, JournalRests DEF ActInvariant, ActTypes
  <1>8. Exclusive(a)'
    BY <1>1, <1>2, <1>3, <1>5, <1>7 DEF Exclusive
  <1>9. Applying(a)'
    BY <1>1, <1>2, <1>3, <1>5, <1>6, <1>7 DEF Applying
  <1>10. Undoing(a)'
    BY <1>1, <1>3 DEF Undoing
  <1> QED
    BY <1>1, <1>3, <1>7, <1>8, <1>9, <1>10, JournalRests DEF Steady

LEMMA JournalSteady ==
    ASSUME ActInvariant, NEW a \in Actor, JournalAction(a)
    PROVE  Steady(a)
  <1> DEFINE j == act[a]
             after == [i \in DOMAIN j.plan |-> files[CurrentPath(j.plan[i])]]
             rec == [plan |-> j.plan, backup |-> j.backup, status |-> "applied",
                     after |-> after]
  <1>1. /\ j \in ActRecord /\ actStep[a] = "apply" /\ actionLock = {a} /\ j.plan \in Plan
        /\ j.done = Len(j.plan) /\ j.done \in 0 .. Len(j.plan) /\ j.id = Len(journal) + 1
        /\ Held(j.plan, j.backup, files, j.done)
    BY DEF JournalAction, ActInvariant, ActTypes, Exclusive, Applying, Active
  <1>2. /\ j.backup \in [Path -> Content] /\ files \in [Path -> Content]
        /\ j.id \in 0 .. MaxActions /\ j.id \in Nat /\ journal \in Seq(Record)
    BY <1>1, ActFields DEF ActInvariant, ActTypes
  <1>3. /\ journal' = Append(journal, rec) /\ actStep' = [actStep EXCEPT ![a] = "applied"]
        /\ files' = files /\ actionLock' = actionLock /\ act' = act
    BY DEF JournalAction, To
  <1> HIDE DEF j
  <1>4. /\ DOMAIN j.plan = 1 .. Len(j.plan) /\ Len(j.plan) \in Nat
        /\ \A i \in DOMAIN j.plan : /\ j.plan[i].to \in Path
                                    /\ CurrentPath(j.plan[i]) = j.plan[i].to
    BY <1>1, PlanFacts, ChangeFields
  <1>5. after \in Seq(Content) /\ DOMAIN after = DOMAIN j.plan
    BY <1>2, <1>4
  <1>6. \A i \in DOMAIN j.plan : after[i] = files[j.plan[i].to]
    BY <1>4
  <1> HIDE DEF after
  <1>7. rec \in Record /\ rec.plan = j.plan /\ rec.backup = j.backup /\ rec.after = after
    BY <1>1, <1>2, <1>5 DEF Record
  <1> HIDE DEF rec
  <1>8. Journaled(rec)
    BY <1>1, <1>4, <1>5, <1>6, <1>7 DEF Journaled, Held
  <1>9. /\ journal' \in Seq(Record) /\ Len(journal') = Len(journal) + 1
        /\ Len(journal) + 1 <= MaxActions
    <2>1. journal' \in Seq(Record) /\ Len(journal') = Len(journal) + 1
      BY <1>2, <1>3, <1>7, AppendProperties
    <2> QED
      BY <1>1, <1>2, <2>1, JournalAssumption
  <1>10. ASSUME NEW n \in DOMAIN journal' PROVE Journaled(journal'[n])
    <2>1. /\ \A m \in 1 .. Len(journal) : journal'[m] = journal[m]
          /\ journal'[Len(journal) + 1] = rec
      BY <1>2, <1>3, <1>7, AppendProperties
    <2>2. /\ DOMAIN journal = 1 .. Len(journal) /\ DOMAIN journal' = 1 .. Len(journal')
          /\ Len(journal) \in Nat
      BY <1>2, <1>9
    <2>3. n \in 1 .. Len(journal) \/ n = Len(journal) + 1
      BY <1>9, <2>2
    <2> QED
      BY <1>8, <2>1, <2>2, <2>3 DEF ActInvariant
  <1>11. (\A n \in DOMAIN journal : Journaled(journal[n]))'
    BY <1>10 DEF Journaled, Touched
  <1>12. ActTypes' /\ actStep'[a] = "applied"
    BY <1>3, <1>9 DEF ActInvariant, ActTypes, ActStep
  <1>13. \A b \in Actor \ {a} : actStep'[b] = actStep[b]
    BY <1>3 DEF ActInvariant, ActTypes
  <1>14. Exclusive(a)' /\ Applying(a)' /\ Undoing(a)'
    BY <1>1, <1>3, <1>12 DEF Exclusive, Applying, Undoing, j
  <1> QED
    BY <1>1, <1>3, <1>9, <1>11, <1>12, <1>13, <1>14 DEF Steady

LEMMA FailSteady ==
    ASSUME ActInvariant, NEW a \in Actor, ApplyFails(a)
    PROVE  Steady(a)
  <1> DEFINE j == act[a]
             x == j.plan[j.done + 1].path
  <1>1. /\ j \in ActRecord /\ actStep[a] = "apply" /\ actionLock = {a} /\ j.plan \in Plan
        /\ j.done \in 0 .. Len(j.plan) /\ j.torn = {}
        /\ Held(j.plan, j.backup, files, j.done)
        /\ Back(j.plan, j.backup, files, j.done, Path \ j.torn)
    BY DEF ApplyFails, ActInvariant, ActTypes, Exclusive, Applying, Active
  <1>2. /\ actStep' = [actStep EXCEPT ![a] = "roll back"]
        /\ journal' = journal /\ actionLock' = actionLock
    BY DEF ApplyFails, To
  <1>3. /\ actStep'[a] = "roll back" /\ actStep' \in [Actor -> ActStep]
        /\ \A b \in Actor \ {a} : actStep'[b] = actStep[b]
    BY <1>2 DEF ActInvariant, ActTypes, ActStep
  <1>4. /\ files' \in [Path -> Content] /\ act' \in [Actor -> ActRecord]
        /\ act'[a].plan = j.plan /\ act'[a].done = j.done /\ act'[a].backup = j.backup
        /\ Held(j.plan, j.backup, files', j.done)
        /\ Back(j.plan, j.backup, files', j.done, Path \ act'[a].torn)
    <2>1. CASE UNCHANGED <<files, act>>
      BY <1>1, <2>1 DEF ActInvariant, ActTypes
    <2>2. CASE /\ j.done < Len(j.plan) /\ j.plan[j.done + 1].op = "write"
               /\ files' = [files EXCEPT ![x] = Torn]
               /\ act' = [act EXCEPT ![a].torn = {x}]
      <3>1. /\ j.done + 1 \in 1 .. Len(j.plan) /\ DOMAIN j.plan = 1 .. Len(j.plan)
            /\ x \in Path /\ Claimed(j.plan) /\ j.done \in Nat /\ Len(j.plan) \in Nat
        BY <1>1, <2>2, PlanFacts, ChangeFields
      <3>2. /\ [j EXCEPT !.torn = {x}] \in ActRecord
            /\ [j EXCEPT !.torn = {x}].plan = j.plan
            /\ [j EXCEPT !.torn = {x}].done = j.done
            /\ [j EXCEPT !.torn = {x}].backup = j.backup
            /\ [j EXCEPT !.torn = {x}].torn = {x}
        BY <1>1, <3>1 DEF ActRecord
      <3>3. act' = [act EXCEPT ![a] = [j EXCEPT !.torn = {x}]]
        BY <2>2
      <3>4. act' \in [Actor -> ActRecord] /\ act'[a] = [j EXCEPT !.torn = {x}]
        BY <3>2, <3>3 DEF ActInvariant, ActTypes
      <3>5. /\ files' \in [Path -> Content] /\ \A y \in Path \ {x} : files'[y] = files[y]
        BY <2>2, <3>1, ContentTypes DEF ActInvariant, ActTypes
      <3>6. Held(j.plan, j.backup, files', j.done)
        <4> SUFFICES ASSUME NEW i \in 1 .. j.done, j.plan[i].op = "move"
                     PROVE  files'[j.plan[i].to] = files[j.plan[i].to]
          BY <1>1 DEF Held
        <4>1. i \in 1 .. Len(j.plan) /\ i < j.done + 1
          BY <3>1
        <4>2. j.plan[i].to # x /\ j.plan[i].to \in Path
          BY <1>1, <3>1, <4>1, PlanFacts, ChangeFields DEF Claimed
        <4> QED
          BY <3>5, <4>2
      <3>7. Back(j.plan, j.backup, files', j.done, Path \ {x})
        BY <1>1, <3>5 DEF Back
      <3> QED
        BY <3>2, <3>4, <3>5, <3>6, <3>7
    <2> QED
      BY <2>1, <2>2 DEF ApplyFails
  <1>5. ActTypes'
    BY <1>2, <1>3, <1>4, JournalRests DEF ActInvariant, ActTypes
  <1>6. Exclusive(a)' /\ Applying(a)' /\ Undoing(a)'
    BY <1>1, <1>2, <1>3, <1>4 DEF Exclusive, Applying, Undoing
  <1> QED
    BY <1>1, <1>2, <1>3, <1>5, <1>6, JournalRests DEF Steady

LEMMA RollBackSteady ==
    ASSUME ActInvariant, NEW a \in Actor, RollBack(a)
    PROVE  Steady(a)
  <1> DEFINE j == act[a]
             k == [j EXCEPT !.done = @ - 1]
  <1>1. /\ j \in ActRecord /\ actStep[a] = "roll back" /\ actionLock = {a} /\ j.plan \in Plan
        /\ j.done \in 0 .. Len(j.plan)
        /\ Held(j.plan, j.backup, files, j.done)
        /\ Back(j.plan, j.backup, files, j.done, Path \ j.torn)
    BY DEF RollBack, ActInvariant, ActTypes, Exclusive, Applying, Active
  <1>2. /\ journal' = journal /\ actionLock' = actionLock
        /\ files \in [Path -> Content] /\ j.backup \in [Path -> Content]
        /\ Path \ j.torn \in SUBSET Path
    BY <1>1, ActFields DEF RollBack, ActInvariant, ActTypes
  <1>3. CASE j.done = 0
    <2>1. actStep' = [actStep EXCEPT ![a] = "rolled back"] /\ files' = files /\ act' = act
      BY <1>3 DEF RollBack, To
    <2>2. ActTypes' /\ actStep'[a] = "rolled back"
          /\ \A b \in Actor \ {a} : actStep'[b] = actStep[b]
      BY <1>2, <2>1, JournalRests DEF ActInvariant, ActTypes, ActStep
    <2>3. Exclusive(a)' /\ Applying(a)' /\ Undoing(a)'
      BY <1>1, <1>2, <1>3, <2>1, <2>2 DEF Exclusive, Applying, Undoing
    <2> QED
      BY <1>1, <1>2, <2>2, <2>3, JournalRests DEF Steady
  <1>4. CASE j.done # 0
    <2>1. /\ files' = Reverted(j.plan[j.done], j.backup, files)
          /\ act' = [act EXCEPT ![a] = k] /\ actStep' = actStep
      BY <1>4 DEF RollBack
    <2> HIDE DEF j
    <2>2. /\ j.done \in 1 .. Len(j.plan) /\ j.done - 1 \in 0 .. Len(j.plan) /\ j.done - 1 \in Nat
      <3>1. Len(j.plan) \in Nat
        BY <1>1, PlanFacts
      <3>2. ASSUME NEW len \in Nat, NEW d \in 0 .. len, d # 0
            PROVE  d \in 1 .. len /\ d - 1 \in 0 .. len /\ d - 1 \in Nat
        BY <3>2
      <3> QED
        BY <1>1, <1>4, <3>1, <3>2
    <2>3. /\ k \in ActRecord /\ k.plan = j.plan /\ k.backup = j.backup
          /\ k.done = j.done - 1 /\ k.torn = j.torn
      BY <1>1, <2>2 DEF ActRecord
    <2> HIDE DEF k
    <2>4. /\ files' \in [Path -> Content]
          /\ Held(j.plan, j.backup, files', j.done - 1)
          /\ Back(j.plan, j.backup, files', j.done - 1, Path \ j.torn)
      BY <1>1, <1>2, <2>1, <2>2, RevertHolds
    <2>5. ActTypes' /\ act'[a] = k
      BY <1>2, <2>1, <2>3, <2>4, JournalRests DEF ActInvariant, ActTypes
    <2>6. Exclusive(a)' /\ Applying(a)' /\ Undoing(a)'
      BY <1>1, <1>2, <2>1, <2>2, <2>3, <2>4, <2>5 DEF Exclusive, Applying, Undoing
    <2> QED
      BY <1>1, <1>2, <2>1, <2>5, <2>6, JournalRests DEF Steady
  <1> QED
    BY <1>3, <1>4

\* An undo that is not refused starts from what the action left.
LEMMA UndriftedHeld ==
    ASSUME NEW rec \in Record, Journaled(rec), ~Drifted(rec), files \in [Path -> Content]
    PROVE  /\ Held(rec.plan, rec.backup, files, Len(rec.plan))
           /\ Back(rec.plan, rec.backup, files, Len(rec.plan), Paths(rec.plan))
  <1>1. /\ rec.plan \in Plan /\ DOMAIN rec.plan = 1 .. Len(rec.plan)
        /\ \A i \in 1 .. Len(rec.plan) : CurrentPath(rec.plan[i]) = rec.plan[i].to
    <2>1. rec.plan \in Plan
      BY DEF Record
    <2> QED
      BY <2>1, PlanFacts, ChangeFields
  <1>2. Held(rec.plan, rec.backup, files, Len(rec.plan))
    BY <1>1 DEF Held, Journaled, Drifted
  <1>3. \A x \in Paths(rec.plan) : Touched(rec.plan, Len(rec.plan), x)
    BY <1>1 DEF Paths, Touched
  <1> QED
    BY <1>2, <1>3 DEF Back

LEMMA BeginUndoSteady ==
    ASSUME ActInvariant, NEW a \in Actor, NEW n \in DOMAIN journal, NEW force \in BOOLEAN,
           BeginUndo(a, n, force)
    PROVE  Steady(a)
  <1> DEFINE rec == journal[n]
             there == IF rec.status = "undone" \/ (~force /\ Drifted(rec))
                      THEN "refused" ELSE "undo"
             j == [id |-> n, plan |-> rec.plan, backup |-> rec.backup, after |-> rec.after,
                   done |-> Len(rec.plan), torn |-> {}, forced |-> force]
  <1>1. /\ rec \in Record /\ Journaled(rec) /\ n \in 0 .. MaxActions
        /\ files \in [Path -> Content]
    <2>1. journal \in Seq(Record) /\ Len(journal) <= MaxActions
      BY DEF ActInvariant, ActTypes
    <2> QED
      BY <2>1, JournalAssumption DEF ActInvariant, ActTypes
  <1>2. /\ act' = [act EXCEPT ![a] = j] /\ actStep' = [actStep EXCEPT ![a] = there]
        /\ files' = files /\ journal' = journal /\ actionLock' = {a}
    BY DEF BeginUndo, To, AcquireActionLock
  <1>3. there = "undo" /\ ~force => ~Drifted(rec)
    OBVIOUS
  <1>4. there \in {"refused", "undo"}
    OBVIOUS
  <1> HIDE DEF rec, there
  <1>5. /\ rec.plan \in Plan /\ Len(rec.plan) \in Nat /\ rec.backup \in [Path -> Content]
        /\ rec.after \in Seq(Content)
    BY <1>1, PlanFacts DEF Record
  <1>6. j \in ActRecord
    BY <1>1, <1>5 DEF ActRecord
  <1>7. /\ j.id = n /\ j.plan = rec.plan /\ j.backup = rec.backup
        /\ j.done = Len(rec.plan) /\ j.forced = force
    OBVIOUS
  <1> HIDE DEF j
  <1>8. ActTypes' /\ act'[a] = j /\ actStep'[a] = there
    BY <1>2, <1>4, <1>6 DEF ActInvariant, ActTypes, ActStep
  <1>9. \A b \in Actor \ {a} : actStep'[b] = actStep[b]
    BY <1>2 DEF ActInvariant, ActTypes
  <1>10. Exclusive(a)' /\ Applying(a)'
    <2>1. Len(rec.plan) \in 0 .. Len(rec.plan)
      BY <1>5
    <2>2. Exclusive(a)'
      BY <1>2, <1>5, <1>7, <1>8, <2>1 DEF Exclusive
    <2>3. actStep'[a] \in {"refused", "undo"}
      BY <1>4, <1>8
    <2>4. Applying(a)'
      BY <2>3 DEF Applying
    <2> QED
      BY <2>2, <2>4
  <1>11. Undoing(a)'
    <2>1. ~Drifted(rec) => /\ Held(rec.plan, rec.backup, files, Len(rec.plan))
                           /\ Back(rec.plan, rec.backup, files, Len(rec.plan), Paths(rec.plan))
      BY <1>1, UndriftedHeld
    <2> QED
      BY <1>2, <1>3, <1>4, <1>7, <1>8, <2>1 DEF Undoing
  <1> QED
    BY <1>2, <1>8, <1>9, <1>10, <1>11, JournalRests DEF Steady

LEMMA UndoSteady ==
    ASSUME ActInvariant, NEW a \in Actor, UndoChange(a)
    PROVE  Steady(a)
  <1> DEFINE j == act[a]
             k == [j EXCEPT !.done = @ - 1]
  <1>1. /\ j \in ActRecord /\ actStep[a] = "undo" /\ actionLock = {a} /\ j.plan \in Plan
        /\ j.done \in 0 .. Len(j.plan) /\ j.id \in DOMAIN journal
        /\ ~j.forced => /\ Held(j.plan, j.backup, files, j.done)
                        /\ Back(j.plan, j.backup, files, j.done, Paths(j.plan))
    BY DEF UndoChange, ActInvariant, ActTypes, Exclusive, Undoing, Active
  <1>2. /\ journal' = journal /\ actionLock' = actionLock /\ actStep' = actStep
        /\ files \in [Path -> Content] /\ j.backup \in [Path -> Content]
        /\ files' = Reverted(j.plan[j.done], j.backup, files)
        /\ act' = [act EXCEPT ![a] = k]
    BY <1>1, ActFields DEF UndoChange, ActInvariant, ActTypes
  <1>3. /\ j.done \in 1 .. Len(j.plan) /\ j.done - 1 \in 0 .. Len(j.plan) /\ j.done - 1 \in Nat
        /\ Len(j.plan) \in Nat
    BY <1>1, PlanFacts DEF UndoChange
  <1>4. /\ k \in ActRecord /\ k.plan = j.plan /\ k.backup = j.backup
        /\ k.done = j.done - 1 /\ k.forced = j.forced /\ k.id = j.id
    BY <1>1, <1>3 DEF ActRecord
  <1> HIDE DEF k, j
  <1>5. Paths(j.plan) \in SUBSET Path
    BY <1>1, PlanFacts, ChangeFields DEF Paths
  <1>6. ~j.forced => /\ Held(j.plan, j.backup, files', j.done - 1)
                     /\ Back(j.plan, j.backup, files', j.done - 1, Paths(j.plan))
    BY <1>1, <1>2, <1>3, <1>5, RevertHolds
  <1>7. files' \in [Path -> Content]
    <2>1. j.plan[j.done] \in Change
      BY <1>1, <1>3, PlanFacts
    <2> QED
      BY <1>2, <2>1, RevertedTypes
  <1>8. ActTypes' /\ act'[a] = k
    BY <1>2, <1>4, <1>7, JournalRests DEF ActInvariant, ActTypes
  <1>9. Exclusive(a)' /\ Applying(a)' /\ Undoing(a)'
    BY <1>1, <1>2, <1>3, <1>4, <1>6, <1>8 DEF Exclusive, Applying, Undoing
  <1> QED
    BY <1>1, <1>2, <1>8, <1>9, JournalRests DEF Steady

LEMMA JournalUndoSteady ==
    ASSUME ActInvariant, NEW a \in Actor, JournalUndo(a)
    PROVE  Steady(a)
  <1> DEFINE n == act[a].id
             rec == [journal[n] EXCEPT !.status = "undone"]
  <1>1. /\ act[a] \in ActRecord /\ actStep[a] = "undo" /\ actionLock = {a}
        /\ n \in DOMAIN journal /\ journal \in Seq(Record) /\ Len(journal) <= MaxActions
        /\ act[a].plan \in Plan /\ act[a].done \in 0 .. Len(act[a].plan)
    BY DEF JournalUndo, ActInvariant, ActTypes, Exclusive, Undoing, Active
  <1>2. /\ journal' = [journal EXCEPT ![n] = rec]
        /\ actStep' = [actStep EXCEPT ![a] = "undone"]
        /\ files' = files /\ actionLock' = actionLock /\ act' = act /\ act[a].done = 0
    BY DEF JournalUndo, To
  <1>3. journal[n] \in Record
    BY <1>1
  <1>4. /\ rec \in Record /\ rec.plan = journal[n].plan /\ rec.backup = journal[n].backup
        /\ rec.after = journal[n].after
    BY <1>3 DEF Record
  <1> HIDE DEF rec, n
  <1>5. Journaled(rec)
    BY <1>1, <1>4 DEF ActInvariant, Journaled
  <1>6. journal' \in Seq(Record) /\ Len(journal') = Len(journal)
    BY <1>1, <1>2, <1>4, ExceptSeq
  <1>7. ASSUME NEW m \in DOMAIN journal' PROVE Journaled(journal'[m])
    BY <1>1, <1>2, <1>5 DEF ActInvariant
  <1>8. (\A m \in DOMAIN journal : Journaled(journal[m]))'
    BY <1>7 DEF Journaled, Touched
  <1>9. ActTypes' /\ actStep'[a] = "undone"
        /\ \A b \in Actor \ {a} : actStep'[b] = actStep[b]
    BY <1>2, <1>6 DEF ActInvariant, ActTypes, ActStep
  <1>10. Exclusive(a)' /\ Applying(a)'
    BY <1>1, <1>2, <1>9 DEF Exclusive, Applying
  <1>11. Undoing(a)'
    BY <1>1, <1>2, <1>9 DEF ActInvariant, Undoing
  <1> QED
    BY <1>1, <1>2, <1>6, <1>8, <1>9, <1>10, <1>11 DEF Steady

\* A restore that fails, the finally block, and the death of the process.
LEMMA EndSteady ==
    ASSUME ActInvariant, NEW a \in Actor, RevertFails(a) \/ Finish(a) \/ ActorDies(a)
    PROVE  Steady(a) /\ Active(a)
  <1>1. journal' = journal
    BY DEF RevertFails, Finish, ActorDies
  <1>2. CASE RevertFails(a)
    <2>1. /\ actionLock = {a} /\ act[a].plan \in Plan /\ Active(a)
          /\ act[a].done \in 1 .. Len(act[a].plan)
      <3>1. Active(a) /\ act[a].done > 0
        BY <1>2 DEF RevertFails, Active
      <3>2. /\ actionLock = {a} /\ act[a].plan \in Plan
            /\ act[a].done \in 0 .. Len(act[a].plan)
        BY <3>1 DEF ActInvariant, Exclusive
      <3>3. Len(act[a].plan) \in Nat
        BY <3>2, PlanFacts
      <3> QED
        BY <3>1, <3>2, <3>3
    <2>2. act[a].plan[act[a].done].path \in Path
      BY <2>1, PlanFacts, ChangeFields
    <2>3. /\ files' \in [Path -> Content] /\ actionLock' = actionLock /\ act' = act
          /\ actStep' = [actStep EXCEPT ![a] = "refused"]
      BY <1>2, <2>2, ContentTypes DEF RevertFails, To, ActInvariant, ActTypes
    <2>4. ActTypes' /\ actStep'[a] = "refused"
          /\ \A b \in Actor \ {a} : actStep'[b] = actStep[b]
      BY <1>1, <2>3, JournalRests DEF ActInvariant, ActTypes, ActStep
    <2>5. Exclusive(a)' /\ Applying(a)' /\ Undoing(a)'
      BY <2>1, <2>3, <2>4 DEF ActInvariant, Exclusive, Applying, Undoing, Active
    <2> QED
      BY <1>1, <2>1, <2>3, <2>4, <2>5, JournalRests DEF Steady
  <1>3. CASE Finish(a) \/ ActorDies(a)
    <2>1. /\ files' = files /\ act' = [act EXCEPT ![a] = NoAct] /\ Active(a)
          /\ actionLock' = {} \/ actionLock' = actionLock
      BY <1>3 DEF Finish, ActorDies, Active
    <2>2. PICK there \in {"idle", "dead"} : actStep' = [actStep EXCEPT ![a] = there]
      BY <1>3 DEF Finish, ActorDies, To
    <2>3. actionLock = {a}
      BY <2>1 DEF ActInvariant, Exclusive
    <2>4. ActTypes' /\ actStep'[a] = there
          /\ \A b \in Actor \ {a} : actStep'[b] = actStep[b]
      BY <1>1, <2>1, <2>2, NoActIsRecord, JournalRests DEF ActInvariant, ActTypes, ActStep
    <2>5. Exclusive(a)' /\ Applying(a)' /\ Undoing(a)'
      BY <2>4 DEF Exclusive, Applying, Undoing, Active
    <2>6. actionLock' = {} \/ actionLock' = {a}
      BY <2>1, <2>3
    <2> QED
      BY <1>1, <2>1, <2>4, <2>5, <2>6, JournalRests DEF Steady
  <1> QED
    BY <1>2, <1>3

LEMMA UserEditsKeep ==
    ASSUME ActInvariant, UserEdits
    PROVE  ActInvariant'
  <1>1. files' \in [Path -> Content] /\ UNCHANGED <<journal, actionLock, actStep, act>>
    BY ContentTypes DEF UserEdits, ActInvariant, ActTypes
  <1>2. ActTypes'
    BY <1>1 DEF ActInvariant, ActTypes
  <1>3. ASSUME NEW a \in Actor PROVE Exclusive(a)' /\ Applying(a)' /\ Undoing(a)'
    <2>1. actStep'[a] \in {"idle", "dead"}
      BY <1>1 DEF UserEdits
    <2> QED
      BY <2>1 DEF Exclusive, Applying, Undoing, Active
  <1> QED
    BY <1>1, <1>2, <1>3, JournalRests DEF ActInvariant

LEMMA ActInvariantInit == ActInit => ActInvariant
  <1> SUFFICES ASSUME ActInit PROVE ActInvariant
    OBVIOUS
  <1>1. journal \in Seq(Record) /\ Len(journal) = 0 /\ DOMAIN journal = {}
    BY DEF ActInit
  <1>2. files \in [Path -> Content] /\ actionLock = {}
    BY ContentTypes DEF ActInit
  <1>3. actStep \in [Actor -> ActStep] /\ act \in [Actor -> ActRecord]
    BY NoActIsRecord DEF ActInit, ActStep
  <1>4. ASSUME NEW a \in Actor PROVE Exclusive(a) /\ Applying(a) /\ Undoing(a)
    <2>1. actStep[a] = "idle"
      BY DEF ActInit
    <2> QED
      BY <2>1 DEF Exclusive, Applying, Undoing, Active
  <1> QED
    BY <1>1, <1>2, <1>3, <1>4, JournalAssumption DEF ActInvariant, ActTypes

LEMMA ActInvariantStep ==
    ASSUME ActInvariant, [ActNext]_actVars
    PROVE  ActInvariant'
  <1>1. ASSUME NEW a \in Actor, NEW plan \in Plan, BeginAction(a, plan) PROVE ActInvariant'
    <2>1. AcquireActionLock(a)
      BY <1>1 DEF BeginAction
    <2> QED
      BY <1>1, <2>1, BeginActionSteady, SteadySuffices
  <1>2. ASSUME NEW a \in Actor, NEW n \in DOMAIN journal, NEW force \in BOOLEAN,
               BeginUndo(a, n, force)
        PROVE  ActInvariant'
    <2>1. AcquireActionLock(a)
      BY <1>2 DEF BeginUndo
    <2> QED
      BY <1>2, <2>1, BeginUndoSteady, SteadySuffices
  <1>3. ASSUME NEW a \in Actor,
               \/ ApplyChange(a) \/ JournalAction(a) \/ ApplyFails(a) \/ RollBack(a)
               \/ UndoChange(a) \/ JournalUndo(a)
        PROVE  ActInvariant'
    <2>1. Active(a)
      BY <1>3
      DEF ApplyChange, JournalAction, ApplyFails, RollBack, UndoChange, JournalUndo, Active
    <2>2. Steady(a)
      BY <1>3, ApplySteady, JournalSteady, FailSteady, RollBackSteady, UndoSteady,
         JournalUndoSteady
    <2> QED
      BY <2>1, <2>2, SteadySuffices
  <1>4. ASSUME NEW a \in Actor, RevertFails(a) \/ Finish(a) \/ ActorDies(a)
        PROVE  ActInvariant'
    BY <1>4, EndSteady, SteadySuffices
  <1>5. CASE UNCHANGED actVars
    <2>1. /\ files' = files /\ journal' = journal /\ actionLock' = actionLock
          /\ actStep' = actStep /\ act' = act
      BY <1>5 DEF actVars
    <2>2. ASSUME NEW a \in Actor PROVE Exclusive(a)' /\ Applying(a)' /\ Undoing(a)'
      BY <2>1 DEF ActInvariant, Exclusive, Applying, Undoing, Active, Held, Back, Touched
    <2> QED
      BY <2>1, <2>2, JournalRests DEF ActInvariant, ActTypes
  <1> QED
    BY <1>1, <1>2, <1>3, <1>4, <1>5, UserEditsKeep DEF ActNext

LEMMA ActInvariantAlways == ActSpec => []ActInvariant
  BY ActInvariantInit, ActInvariantStep, PTL DEF ActSpec

-----------------------------------------------------------------------------
(* Theorems about actions *)

\* Files, journal and lock keep their types; never more than one process works on
\* files and journal, and those that have died are the only owners it replaces.
THEOREM ActionsTypeCorrect == ActSpec => []ActTypeOK
  <1>1. ActInvariant => ActTypeOK
    <2> SUFFICES ASSUME ActInvariant PROVE ActTypeOK
      OBVIOUS
    <2>1. Cardinality(actionLock) <= 1
      <3>1. Cardinality({}) = 0 /\ \A a \in Actor : Cardinality({a}) = 1
        BY FS_EmptySet, FS_Singleton
      <3> QED
        BY <3>1 DEF ActInvariant
    <2>2. ASSUME NEW a \in Actor
          PROVE  act[a].id \in 0 .. MaxActions /\ act[a].torn \subseteq Path
      BY ActFields DEF ActInvariant, ActTypes
    <2>3. \A n \in DOMAIN journal : journal[n] \in Record
      BY DEF ActInvariant, ActTypes
    <2> QED
      BY <2>1, <2>2, <2>3 DEF ActInvariant, ActTypes, ActTypeOK
  <1> QED
    BY <1>1, ActInvariantAlways, PTL

\* For any plan whose moves have their destinations to themselves: an action that
\* throws leaves every file as it was, but for the one it was writing.
THEOREM FailedActionTakenBack == ActSpec => []FailedActionRestores
  <1>1. ActInvariant => FailedActionRestores
    <2> SUFFICES ASSUME ActInvariant, NEW a \in Actor, actStep[a] = "rolled back"
                 PROVE  \A x \in Path \ act[a].torn : files[x] = act[a].backup[x]
      BY DEF FailedActionRestores
    <2>1. Back(act[a].plan, act[a].backup, files, 0, Path \ act[a].torn)
      BY DEF ActInvariant, Applying
    <2> QED
      BY <2>1, NothingTouched DEF Back
  <1> QED
    BY <1>1, ActInvariantAlways, PTL

\* An undo that was not forced gives every file of its action back as it was when
\* the action began, whatever came between: the contents that the drift check
\* compares are enough to know that the moved bytes are the ones to take back.
THEOREM UndoTakesBack == ActSpec => []UndoRestores
  <1>1. ActInvariant => UndoRestores
    BY NothingTouched DEF ActInvariant, Undoing, Back, UndoRestores
  <1> QED
    BY <1>1, ActInvariantAlways, PTL

-----------------------------------------------------------------------------
(***************************************************************************)
(* The composition of MCDesktop                                            *)
(***************************************************************************)

\* The quota service caches one answer at most.
OneAnswer ==
    /\ \A c, o \in quotaCache : c = o
    /\ generations \in 0 .. MaxInvalidations

LEMMA OneAnswerAlways == QuotaSpec => []OneAnswer
  <1>1. QuotaInit => OneAnswer
    BY QuotaAssumption DEF QuotaInit, OneAnswer
  <1>2. OneAnswer /\ [QuotaNext]_quotaVars => OneAnswer'
    <2> SUFFICES ASSUME OneAnswer, [QuotaNext]_quotaVars PROVE OneAnswer'
      OBVIOUS
    <2>1. CASE CacheAges
      <3>1. quotaCache' = {[c EXCEPT !.fresh = FALSE] : c \in quotaCache}
            /\ generations' = generations
        BY <2>1 DEF CacheAges
      <3> QED
        BY <3>1 DEF OneAnswer
    <2>2. CASE ForceRefresh
      BY <2>2, QuotaAssumption DEF ForceRefresh, OneAnswer
    <2>3. CASE Land
      BY <2>3 DEF Land, Landed, OneAnswer
    <2>4. CASE Poll \/ ReadBlocked \/ UNCHANGED quotaVars
      BY <2>4 DEF Poll, ReadBlocked, quotaVars, OneAnswer
    <2>5. ASSUME NEW p \in QuotaProvider,
                 \/ SignIn(p) \/ BackoffPasses(p) \/ ReadCredentials(p)
                 \/ Answer(p) \/ SaveBackoff(p)
          PROVE  OneAnswer'
      BY <2>5 DEF SignIn, BackoffPasses, ReadCredentials, Answer, Answered, SaveBackoff,
                  OneAnswer
    <2> QED
      BY <2>1, <2>2, <2>3, <2>4, <2>5 DEF QuotaNext
  <1> QED
    BY <1>1, <1>2, PTL DEF QuotaSpec

LEMMA AtMostOne ==
    ASSUME NEW S, \A x, y \in S : x = y
    PROVE  Cardinality(S) <= 1
  <1>1. CASE S = {}
    BY <1>1, FS_EmptySet
  <1>2. CASE S # {}
    <2>1. PICK x \in S : S = {x}
      BY <1>2
    <2> QED
      BY <2>1, FS_Singleton
  <1> QED
    BY <1>1, <1>2

\* The quota cache, the one flight and the back-off files keep their types, for any
\* number of providers, accounts and forced refreshes (quota/index.ts).
THEOREM QuotaTypeCorrect == QuotaSpec => []QuotaTypeOK
  <1>1. QuotaInvariant /\ OneAnswer => QuotaTypeOK
    <2> SUFFICES ASSUME QuotaInvariant, OneAnswer PROVE QuotaTypeOK
      OBVIOUS
    <2>1. Cardinality(quotaCache) <= 1 /\ Cardinality(flight) <= 1
      BY AtMostOne DEF QuotaInvariant, FlightCurrent, OneAnswer
    <2>2. \A p \in QuotaProvider : fetch[p].value \in Quota /\ fetch[p].written \in Until
      BY DEF QuotaInvariant, QuotaTypes, Fetch
    <2> QED
      BY <2>1, <2>2 DEF QuotaInvariant, QuotaTypes, OneAnswer, QuotaTypeOK, Account
  <1> QED
    BY <1>1, QuotaInvariantAlways, OneAnswerAlways, PTL

\* The components of the desktop run share no variable, so its behaviours are
\* behaviours of each of them: whatever is proved of a component holds in the run.
THEOREM DesktopIsItsComponents ==
    DesktopSpec => Spec /\ DailySpec /\ ActSpec /\ QuotaSpec
  <1>1. DesktopInit => Init /\ DailyInit /\ ActInit /\ QuotaInit
    BY DEF DesktopInit
  <1>2. [DesktopNext]_desktopVars =>
            [Next]_vars /\ [DailyNext]_dailyVars /\ [ActNext]_actVars /\ [QuotaNext]_quotaVars
    BY DEF DesktopNext, LocalState, History, Actions, Quotas, desktopVars
  <1> QED
    BY <1>1, <1>2, PTL DEF DesktopSpec, Spec, DailySpec, ActSpec, QuotaSpec

\* Every component of the desktop run is well typed at every moment, for any sets of
\* processes, calls, days, plans, providers and accounts.
THEOREM DesktopTypeCorrect == DesktopSpec => []DesktopTypeOK
  <1>1. TypeOK /\ DailyTypeOK /\ ActTypeOK /\ QuotaTypeOK => DesktopTypeOK
    BY DEF DesktopTypeOK
  <1>2. DailyInvariant => DailyTypeOK
    BY DEF DailyInvariant
  <1> QED
    BY <1>1, <1>2, DesktopIsItsComponents, ProductionTypeCorrect, DailyAlways,
       ActionsTypeCorrect, QuotaTypeCorrect, PTL
=============================================================================
