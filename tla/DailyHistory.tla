---------------------------- MODULE DailyHistory ----------------------------
(***************************************************************************)
(* The daily history cache (src/daily-cache.ts over daily-cache-core.ts).  *)
(*                                                                         *)
(* A slice is what one provider did on one day.  The session files it is   *)
(* derived from are deleted by their owners sooner or later; the cache is  *)
(* then the only record of it.  Hydrations are serialized inside a process *)
(* and not between processes.  What a day holds is abstracted to the       *)
(* slices that are recorded for it, so that merging is union.              *)
(***************************************************************************)
EXTENDS Naturals, FiniteSets

CONSTANTS
    Hydrator,   \* hydrations, each run at most once
    Host,       \* processes they run in
    Provider,   \* collectors
    Config,     \* values of the configuration hash
    LastDay     \* bound on the days that pass

ASSUME DailyAssumption ==
    /\ IsFiniteSet(Hydrator) /\ IsFiniteSet(Provider)
    /\ Config # {} /\ LastDay \in Nat \ {0}

VARIABLES
    today,         \* the current day
    source,        \* slices whose session files still exist
    daily,         \* the daily cache on disk
    config,        \* the configuration hash in force
    host,          \* the process of each hydration
    dailyStep,     \* where each hydration is
    asOf,          \* its `now`, taken before it waits for its turn
    hash,          \* the configuration hash it was called with
    base,          \* the cache it has loaded
    parsed         \* what its parse has returned

dailyVars == <<today, source, daily, config, host, dailyStep, asOf, hash, base, parsed>>

Day == 1 .. LastDay
Slice == Day \X Provider

\* Day 0 is no watermark at all (`lastComputedDate: null`).
DailyCache == [days : SUBSET Slice, lastComputed : 0 .. LastDay, config : Config,
               complete : BOOLEAN, trusted : BOOLEAN]
Parse == [days : SUBSET Slice, whole : BOOLEAN]
NoParse == [days |-> {}, whole |-> FALSE]

DailyTypeOK ==
    /\ today \in Day /\ source \subseteq Slice
    /\ daily \in DailyCache /\ config \in Config
    /\ host \in [Hydrator -> Host]
    /\ dailyStep \in [Hydrator -> {"idle", "queued", "load", "parse", "save", "done"}]
    /\ asOf \in [Hydrator -> Day] /\ hash \in [Hydrator -> Config]
    /\ base \in [Hydrator -> DailyCache]
    /\ parsed \in [Hydrator -> Parse]

EmptyDaily == [days |-> {}, lastComputed |-> 0, config |-> CHOOSE g \in Config : TRUE,
               complete |-> FALSE, trusted |-> FALSE]

DailyInit ==
    /\ today = 1
    /\ source = {}
    /\ daily = EmptyDaily
    /\ config = EmptyDaily.config
    /\ host \in [Hydrator -> Host]
    /\ dailyStep = [c \in Hydrator |-> "idle"]
    /\ asOf = [c \in Hydrator |-> 1]
    /\ hash = [c \in Hydrator |-> config]
    /\ base = [c \in Hydrator |-> EmptyDaily]
    /\ parsed = [c \in Hydrator |-> NoParse]

-----------------------------------------------------------------------------
(* The world *)

\* A provider is used today.
Use ==
    /\ \E p \in Provider : source' = source \cup {<<today, p>>}
    /\ UNCHANGED <<today, daily, config, host, dailyStep, asOf, hash, base, parsed>>

\* An agent deletes its old session files.
DeleteSource ==
    /\ \E s \in source : source' = source \ {s}
    /\ UNCHANGED <<today, daily, config, host, dailyStep, asOf, hash, base, parsed>>

Midnight ==
    /\ today < LastDay
    /\ today' = today + 1
    /\ UNCHANGED <<source, daily, config, host, dailyStep, asOf, hash, base, parsed>>

\* Prices or savings are reconfigured: getDailyCacheConfigHash changes.
Reconfigure ==
    /\ config' \in Config \ {config}
    /\ UNCHANGED <<today, source, daily, host, dailyStep, asOf, hash, base, parsed>>

-----------------------------------------------------------------------------
(* ensureCacheHydrated *)

Advance(c, there) == dailyStep' = [dailyStep EXCEPT ![c] = there]

\* `now` is taken before the turn in withDailyCacheLock.
CallHydrate(c) ==
    /\ dailyStep[c] = "idle"
    /\ Advance(c, "queued")
    /\ asOf' = [asOf EXCEPT ![c] = today]
    /\ hash' = [hash EXCEPT ![c] = config]
    /\ UNCHANGED <<today, source, daily, config, host, base, parsed>>

FaultyTakeTurn(c) ==
    /\ dailyStep[c] = "queued"
    /\ Advance(c, "load")
    /\ UNCHANGED <<today, source, daily, config, host, asOf, hash, base, parsed>>

\* withDailyCacheLock: one hydration of a process at a time.
TakeTurn(c) ==
    /\ dailyStep[c] = "queued"
    /\ \A o \in Hydrator \ {c} :
           host[o] = host[c] => dailyStep[o] \in {"idle", "queued", "done"}
    /\ Advance(c, "load")
    /\ UNCHANGED <<today, source, daily, config, host, asOf, hash, base, parsed>>

NewestOf(days) ==
    IF days = {} THEN 0 ELSE CHOOSE d \in Day : /\ \E s \in days : s[1] = d
                                                /\ \A s \in days : s[1] <= d

Before(days, d) == {s \in days : s[1] < d}

\* Days from today on are dropped with the watermark behind them; a watermark
\* without the trust stamp is pulled back to the newest day it has.
Trimmed(cache, d) ==
    LET days == Before(cache.days, d)
        mark == IF days = cache.days THEN cache.lastComputed ELSE NewestOf(days)
    IN [cache EXCEPT !.days = days,
                     !.lastComputed = IF cache.trusted \/ mark <= NewestOf(days)
                                      THEN mark ELSE NewestOf(days)]

LoadDaily(c) ==
    /\ dailyStep[c] = "load"
    /\ base' = [base EXCEPT ![c] = Trimmed(daily, asOf[c])]
    /\ Advance(c, "parse")
    /\ UNCHANGED <<today, source, daily, config, host, asOf, hash, parsed>>

\* The whole history is derived again, or only the days after the watermark.
Rebuilds(c) == base[c].config # hash[c] \/ ~base[c].complete

Wanted(c) == {s \in Before(source, asOf[c]) :
                 Rebuilds(c) \/ s[1] > base[c].lastComputed}

NothingMissing(c) == ~Rebuilds(c) /\ base[c].lastComputed + 1 >= asOf[c]

\* A parse that is not authoritative (parseIsAuthoritative) has seen any part.
ParseSessions(c) ==
    /\ dailyStep[c] = "parse"
    /\ IF NothingMissing(c)
       THEN Advance(c, "done") /\ UNCHANGED parsed
       ELSE /\ \/ parsed' = [parsed EXCEPT ![c] = [days |-> Wanted(c), whole |-> TRUE]]
               \/ \E part \in SUBSET Wanted(c) :
                      parsed' = [parsed EXCEPT ![c] = [days |-> part, whole |-> FALSE]]
            /\ Advance(c, "save")
    /\ UNCHANGED <<today, source, daily, config, host, asOf, hash, base>>

\* mergeDayEntries: the primary's slices, and what only the secondary has.
MergeDayEntries(primary, secondary) == primary \cup secondary

Rebuilt(c) ==
    [days |-> MergeDayEntries(parsed[c].days, base[c].days),
     lastComputed |-> IF parsed[c].whole THEN asOf[c] - 1 ELSE base[c].lastComputed,
     config |-> hash[c], complete |-> parsed[c].whole, trusted |-> parsed[c].whole]

FaultyExtended(c) ==
    LET fresh == {s[1] : s \in parsed[c].days}
    IN [base[c] EXCEPT
           !.days = {s \in base[c].days : s[1] \notin fresh} \cup parsed[c].days,
           !.lastComputed = asOf[c] - 1,
           !.trusted = TRUE]

\* addNewDays: a parsed day replaces a recorded one.
Extended(c) ==
    LET fresh == {s[1] : s \in parsed[c].days}
    IN [base[c] EXCEPT
           !.days = {s \in base[c].days : s[1] \notin fresh} \cup parsed[c].days,
           !.lastComputed = IF parsed[c].whole THEN asOf[c] - 1 ELSE @,
           !.complete = parsed[c].whole,
           !.trusted = parsed[c].whole]

SaveDaily(c) ==
    /\ dailyStep[c] = "save"
    /\ daily' = IF Rebuilds(c) THEN Rebuilt(c) ELSE Extended(c)
    /\ Advance(c, "done")
    /\ UNCHANGED <<today, source, config, host, asOf, hash, base, parsed>>

DailyNext ==
    \/ Use \/ DeleteSource \/ Midnight \/ Reconfigure
    \/ \E c \in Hydrator : \/ CallHydrate(c) \/ TakeTurn(c) \/ LoadDaily(c)
                           \/ ParseSessions(c) \/ SaveDaily(c)

DailySpec == DailyInit /\ [][DailyNext]_dailyVars

-----------------------------------------------------------------------------
(* Properties *)

\* A trusted watermark covers its days: whatever a session file up to it still
\* tells is recorded.  It holds although the processes overwrite each other's
\* file, parses are cut short and hydrations wait past midnight; a watermark that
\* ran ahead would leave those days out of the history for good.
WatermarkCoversDays ==
    daily.trusted => Before(source, daily.lastComputed + 1) \subseteq daily.days

\* A hydration never drops a recorded day before its own today, whatever its parse
\* has seen and whichever session files are gone, as long as all of them run in
\* one process (two processes may overwrite each other's record).
HistoryKept ==
    [][(\A c, o \in Hydrator : host[c] = host[o]) =>
          \E c \in Hydrator :
              /\ dailyStep[c] = "save" /\ dailyStep'[c] = "done"
              /\ Before(daily.days, asOf[c]) \subseteq daily'.days]_daily
=============================================================================
