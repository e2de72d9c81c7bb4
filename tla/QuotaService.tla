---------------------------- MODULE QuotaService ----------------------------
(***************************************************************************)
(* The quota service of the desktop application                            *)
(* (app/electron/quota/index.ts): one flight at a time asks both           *)
(* providers, what it returns is cached, and a forced refresh invalidates  *)
(* the cache and whatever is in flight.  Handlers run to their next await. *)
(*                                                                         *)
(* A quota is abstracted to its connection and the account it is about.    *)
(***************************************************************************)
EXTENDS Naturals, FiniteSets

CONSTANTS
    QuotaProvider,     \* claude and codex
    LastAccount,       \* accounts of a provider, numbered as they are signed in to
    MaxInvalidations   \* bound on the forced refreshes

ASSUME QuotaAssumption ==
    /\ IsFiniteSet(QuotaProvider)
    /\ LastAccount \in Nat \ {0} /\ MaxInvalidations \in Nat

VARIABLES
    account,       \* account each provider is signed in to (external)
    generations,   \* how often the service was invalidated
    quotaCache,    \* cached answer, as a set; `fresh`: less than refreshMs old
    flight,        \* the flight, as a set: its locals of fetchAll
    fetchStep,     \* where each provider's run is
    fetch,         \* its generation, the account asked about, and its value
    backoff,       \* quota-backoff.json
    blocked,       \* the flight's copy of it
    signedIn       \* ghost: accounts of each provider since the invalidation

quotaVars == <<account, generations, quotaCache, flight, fetchStep, fetch, backoff,
               blocked, signedIn>>

\* unavailable(): a quota about no account; otherwise `about` is a singleton.
Unavailable(connection) == [connection |-> connection, about |-> {}]
Connected(a) == [connection |-> "connected", about |-> a]
NoFetch == [generation |-> 0, asked |-> {}, value |-> Unavailable("disconnected"),
            written |-> [p \in QuotaProvider |-> "none"]]

Until == [QuotaProvider -> {"none", "future", "past"}]
Quota == [connection : {"connected", "disconnected", "transientFailure"},
          about : SUBSET (1 .. LastAccount)]

QuotaTypeOK ==
    /\ account \in [QuotaProvider -> 1 .. LastAccount]
    /\ generations \in 0 .. MaxInvalidations
    /\ \A c \in quotaCache : c.value \in [QuotaProvider -> Quota] /\ c.fresh \in BOOLEAN
    /\ Cardinality(quotaCache) <= 1 /\ Cardinality(flight) <= 1
    /\ fetchStep \in [QuotaProvider -> {"idle", "fetching", "asked", "saving", "done"}]
    /\ \A p \in QuotaProvider : fetch[p].value \in Quota /\ fetch[p].written \in Until
    /\ backoff \in Until /\ blocked \in Until

QuotaInit ==
    /\ account = [p \in QuotaProvider |-> 1]
    /\ generations = 0
    /\ quotaCache = {} /\ flight = {}
    /\ fetchStep = [p \in QuotaProvider |-> "idle"]
    /\ fetch = [p \in QuotaProvider |-> NoFetch]
    /\ backoff = [p \in QuotaProvider |-> "none"]
    /\ blocked = backoff
    /\ signedIn = [p \in QuotaProvider |-> {account[p]}]

At(p, there) == fetchStep' = [fetchStep EXCEPT ![p] = there]

-----------------------------------------------------------------------------
(* The user and the clock *)

SignIn(p) ==
    /\ account[p] < LastAccount
    /\ account' = [account EXCEPT ![p] = @ + 1]
    /\ signedIn' = [signedIn EXCEPT ![p] = @ \cup {account'[p]}]
    /\ UNCHANGED <<generations, quotaCache, flight, fetchStep, fetch, backoff, blocked>>

CacheAges ==
    /\ \E c \in quotaCache : c.fresh
    /\ quotaCache' = {[c EXCEPT !.fresh = FALSE] : c \in quotaCache}
    /\ UNCHANGED <<account, generations, flight, fetchStep, fetch, backoff, blocked,
                   signedIn>>

Passed(f, p) == [f EXCEPT ![p] = IF @ = "future" THEN "past" ELSE @]

BackoffPasses(p) ==
    /\ "future" \in {backoff[p], blocked[p]}
    /\ backoff' = Passed(backoff, p)
    /\ blocked' = Passed(blocked, p)
    /\ fetch' = [q \in QuotaProvider |-> [fetch[q] EXCEPT !.written = Passed(@, p)]]
    /\ UNCHANGED <<account, generations, quotaCache, flight, fetchStep, signedIn>>

-----------------------------------------------------------------------------
(* getQuota *)

PriorQuota(cached) == IF cached = {} THEN [p \in QuotaProvider |-> Unavailable("disconnected")]
                      ELSE (CHOOSE c \in cached : TRUE).value

\* A flight that has started is joined, not repeated.
Join(keychain, cached, generation) ==
    flight' = IF flight # {} THEN flight
              ELSE {[starting |-> generation, prior |-> PriorQuota(cached),
                     keychain |-> keychain, read |-> FALSE]}

\* A background poll.
Poll ==
    /\ \A c \in quotaCache : ~c.fresh
    /\ flight = {}
    /\ Join(FALSE, quotaCache, generations)
    /\ UNCHANGED <<account, generations, quotaCache, fetchStep, fetch, backoff, blocked,
                   signedIn>>

\* `force`: invalidate() first, which aborts what is in flight.
ForceRefresh ==
    /\ generations < MaxInvalidations
    /\ generations' = generations + 1
    /\ quotaCache' = {}
    /\ signedIn' = [p \in QuotaProvider |-> {account[p]}]
    /\ Join(TRUE, {}, generations + 1)
    /\ UNCHANGED <<account, fetchStep, fetch, backoff, blocked>>

-----------------------------------------------------------------------------
(* fetchAll *)

\* retainOnFailure: a connected quota outlives a failure, and a poll that could
\* not look into the keychain.
Retained(fl, p, next) ==
    LET previous == fl.prior[p] IN
    IF previous.connection # "connected" THEN next
    ELSE CASE ~fl.keychain /\ next.connection = "disconnected" -> previous
           [] next.connection = "transientFailure" ->
                  [previous EXCEPT !.connection = "transientFailure"]
           [] OTHER -> next

\* readBlocked returns (or fails: no back-off), and both runs go to their fetch.
ReadBlocked ==
    /\ \E fl \in flight, read \in {backoff, [p \in QuotaProvider |-> "none"]} :
           /\ ~fl.read
           /\ flight' = {[fl EXCEPT !.read = TRUE]}
           /\ blocked' = read
           /\ fetchStep' = [p \in QuotaProvider |->
                                IF read[p] = "future" THEN "done" ELSE "fetching"]
           /\ fetch' = [p \in QuotaProvider |->
                            [NoFetch EXCEPT
                                !.generation = IF read[p] = "future" THEN @ ELSE generations,
                                !.value = IF read[p] = "future"
                                          THEN Retained(fl, p, Unavailable("transientFailure"))
                                          ELSE @]]
    /\ UNCHANGED <<account, generations, quotaCache, backoff, signedIn>>

\* The provider reads its credentials before it asks.
ReadCredentials(p) ==
    /\ fetchStep[p] = "fetching"
    /\ fetch' = [fetch EXCEPT ![p].asked = {account[p]}]
    /\ At(p, "asked")
    /\ UNCHANGED <<account, generations, quotaCache, flight, backoff, blocked, signedIn>>

\* The answer of an invalidated run is dropped.  Otherwise a limit (`limited`) is
\* recorded and an expired one removed, which is saved before the run goes on.
Answered(p, next, limited) ==
    /\ fetchStep[p] = "asked"
    /\ LET current == fetch[p].generation = generations
           changes == current /\ (limited \/ blocked[p] # "none")
       IN /\ blocked' = IF changes
                        THEN [blocked EXCEPT ![p] = IF limited THEN "future" ELSE "none"]
                        ELSE blocked
          /\ At(p, IF changes THEN "saving" ELSE "done")
          /\ \E fl \in flight :
                 fetch' = [fetch EXCEPT
                              ![p] = [NoFetch EXCEPT
                                         !.value = IF current THEN Retained(fl, p, next)
                                                   ELSE Unavailable("disconnected"),
                                         !.written = IF changes THEN blocked' ELSE @]]
    /\ UNCHANGED <<account, generations, quotaCache, flight, backoff, signedIn>>

Answer(p) ==
    \/ Answered(p, Connected(fetch[p].asked), FALSE)
    \/ Answered(p, Unavailable("disconnected"), FALSE)
    \/ \E limited \in BOOLEAN : Answered(p, Unavailable("transientFailure"), limited)

\* The two writes of one flight come in any order, and each may fail.
SaveBackoff(p) ==
    /\ fetchStep[p] = "saving"
    /\ backoff' \in {backoff, fetch[p].written}
    /\ fetch' = [fetch EXCEPT ![p].written = NoFetch.written]
    /\ At(p, "done")
    /\ UNCHANGED <<account, generations, quotaCache, flight, blocked, signedIn>>

Landed(fl) ==
    /\ flight' = {}
    /\ fetchStep' = [p \in QuotaProvider |-> "idle"]
    /\ fetch' = [p \in QuotaProvider |-> NoFetch]
    /\ blocked' = [p \in QuotaProvider |-> "none"]
    /\ UNCHANGED <<account, generations, backoff, signedIn>>

FaultyLand ==
    /\ \A p \in QuotaProvider : fetchStep[p] = "done"
    /\ \E fl \in flight :
           /\ quotaCache' = {[value |-> [p \in QuotaProvider |-> fetch[p].value],
                              fresh |-> TRUE]}
           /\ Landed(fl)

\* The answer is cached only if nothing was invalidated since the flight began.
Land ==
    /\ \A p \in QuotaProvider : fetchStep[p] = "done"
    /\ \E fl \in flight :
           /\ quotaCache' = IF fl.starting = generations
                            THEN {[value |-> [p \in QuotaProvider |-> fetch[p].value],
                                   fresh |-> TRUE]}
                            ELSE quotaCache
           /\ Landed(fl)

QuotaNext ==
    \/ CacheAges \/ Poll \/ ForceRefresh \/ ReadBlocked \/ Land
    \/ \E p \in QuotaProvider : \/ SignIn(p) \/ BackoffPasses(p) \/ ReadCredentials(p)
                                \/ Answer(p) \/ SaveBackoff(p)

QuotaSpec == QuotaInit /\ [][QuotaNext]_quotaVars

-----------------------------------------------------------------------------
(* Properties *)

\* The cache never speaks of an account that the user had left before the last
\* invalidation, although failures keep the previous quota alive and a flight may
\* have asked one provider before the invalidation and the other one after it.
QuotaSinceInvalidated ==
    \A c \in quotaCache, p \in QuotaProvider :
        c.value[p].about \subseteq signedIn[p]
=============================================================================
