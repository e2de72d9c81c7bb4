------------------------------ MODULE SyncPush ------------------------------
(***************************************************************************)
(* `sync push` (src/sync/push.ts, ledger.ts, the push command of cli.ts):  *)
(* calls that are not in the sent-ledger go to the endpoint in batches,    *)
(* and a batch the endpoint has fully accepted goes to the ledger.         *)
(*                                                                         *)
(* Nothing orders two pushes: both write the ledger through one temporary  *)
(* file.  A file call of the ledger is one step; the ledger functions are  *)
(* synchronous, so only another process comes between.                     *)
(***************************************************************************)
EXTENDS Naturals, FiniteSets

CONSTANTS
    Pusher,       \* processes that push
    Span,         \* calls, numbered in the order they are sent
    MaxBatch,     \* max_batch_size of the endpoint's discovery document
    MaxPerPush,   \* calls one push sends at most
    Max429,       \* retries of a rate-limited batch
    MaxResets,    \* bound on the resets of the ledger
    MaxStops      \* bound on the pushes that are stopped

ASSUME PushAssumption ==
    /\ Span \subseteq Nat /\ IsFiniteSet(Span)
    /\ MaxBatch \in Nat \ {0} /\ MaxPerPush \in Nat \ {0}
    /\ Max429 \in Nat /\ MaxResets \in Nat /\ MaxStops \in Nat

VARIABLES
    calls,      \* calls the collectors have found
    ledger,     \* sync-ledger.json
    ledgerTmp,  \* sync-ledger.json.tmp: no file, or the one file
    accepted,   \* calls the endpoint has stored
    pushStep,   \* where each push is
    unsent,     \* what it has still to send
    batch,      \* the batch it is sending
    retries,    \* its 429 answers to this batch
    entries,    \* the ledger it is about to write
    resets,
    stops

pushVars == <<calls, ledger, ledgerTmp, accepted, pushStep, unsent, batch, retries,
              entries, resets, stops>>

PushTypeOK ==
    /\ calls \subseteq Span /\ ledger \subseteq Span /\ accepted \subseteq Span
    /\ ledgerTmp \in {{}} \cup {{S} : S \in SUBSET Span}
    /\ pushStep \in [Pusher -> {"idle", "batch", "send", "read", "write", "rename"}]
    /\ unsent \in [Pusher -> SUBSET Span] /\ batch \in [Pusher -> SUBSET Span]
    /\ retries \in [Pusher -> 0 .. Max429]
    /\ entries \in [Pusher -> SUBSET Span]
    /\ resets \in 0 .. MaxResets /\ stops \in 0 .. MaxStops

PushInit ==
    /\ calls = {} /\ ledger = {} /\ accepted = {}
    /\ ledgerTmp = {}
    /\ pushStep = [u \in Pusher |-> "idle"]
    /\ unsent = [u \in Pusher |-> {}] /\ batch = [u \in Pusher |-> {}]
    /\ retries = [u \in Pusher |-> 0]
    /\ entries = [u \in Pusher |-> {}]
    /\ resets = 0 /\ stops = 0

\* The first n of a set of calls (slice, batchCalls).
First(n, S) == {s \in S : Cardinality({o \in S : o < s}) < n}

\* A push ends, whatever its outcome; its locals are gone.
EndPush(u) ==
    /\ pushStep' = [pushStep EXCEPT ![u] = "idle"]
    /\ unsent' = [unsent EXCEPT ![u] = {}] /\ batch' = [batch EXCEPT ![u] = {}]
    /\ retries' = [retries EXCEPT ![u] = 0]
    /\ entries' = [entries EXCEPT ![u] = {}]

-----------------------------------------------------------------------------

NewCall ==
    /\ \E s \in Span \ calls : (\A o \in Span \ calls : s <= o) /\ calls' = calls \cup {s}
    /\ UNCHANGED <<ledger, ledgerTmp, accepted, pushStep, unsent, batch, retries,
                   entries, resets, stops>>

\* collectUnsentCalls, and the safety limit of one push.
Collect(u) ==
    /\ pushStep[u] = "idle"
    /\ calls \ ledger # {}
    /\ unsent' = [unsent EXCEPT ![u] = First(MaxPerPush, calls \ ledger)]
    /\ pushStep' = [pushStep EXCEPT ![u] = "batch"]
    /\ UNCHANGED <<calls, ledger, ledgerTmp, accepted, batch, retries, entries, resets, stops>>

NextBatch(u) ==
    /\ pushStep[u] = "batch" /\ unsent[u] # {}
    /\ batch' = [batch EXCEPT ![u] = First(MaxBatch, unsent[u])]
    /\ unsent' = [unsent EXCEPT ![u] = @ \ First(MaxBatch, @)]
    /\ retries' = [retries EXCEPT ![u] = 0]
    /\ pushStep' = [pushStep EXCEPT ![u] = "send"]
    /\ UNCHANGED <<calls, ledger, ledgerTmp, accepted, entries, resets, stops>>

PushCompletes(u) ==
    /\ pushStep[u] = "batch" /\ unsent[u] = {}
    /\ EndPush(u)
    /\ UNCHANGED <<calls, ledger, ledgerTmp, accepted, resets, stops>>

\* Every span is stored, and the answer arrives.
Accept(u) ==
    /\ pushStep[u] = "send"
    /\ accepted' = accepted \cup batch[u]
    /\ pushStep' = [pushStep EXCEPT ![u] = "read"]
    /\ UNCHANGED <<calls, ledger, ledgerTmp, unsent, batch, retries, entries, resets, stops>>

FaultyAcceptPart(u) ==
    /\ pushStep[u] = "send"
    /\ \E part \in SUBSET batch[u] \ {batch[u]} : accepted' = accepted \cup part
    /\ pushStep' = [pushStep EXCEPT ![u] = "read"]
    /\ UNCHANGED <<calls, ledger, ledgerTmp, unsent, batch, retries, entries, resets, stops>>

\* partialSuccess: some spans are rejected, and which ones is not said.  The
\* batch is left for the next push.
AcceptPart(u) ==
    /\ pushStep[u] = "send"
    /\ \E part \in SUBSET batch[u] \ {batch[u]} : accepted' = accepted \cup part
    /\ pushStep' = [pushStep EXCEPT ![u] = "batch"]
    /\ UNCHANGED <<calls, ledger, ledgerTmp, unsent, batch, retries, entries, resets, stops>>

\* 429: the same batch again, but not for ever.
RateLimited(u) ==
    /\ pushStep[u] = "send"
    /\ IF retries[u] = Max429
       THEN EndPush(u)
       ELSE /\ retries' = [retries EXCEPT ![u] = @ + 1]
            /\ UNCHANGED <<pushStep, unsent, batch, entries>>
    /\ UNCHANGED <<calls, ledger, ledgerTmp, accepted, resets, stops>>

\* 401, a server error or a lost connection; the spans may have been stored.
SendFails(u) ==
    /\ pushStep[u] = "send"
    /\ \/ UNCHANGED accepted
       \/ accepted' = accepted \cup batch[u]
    /\ EndPush(u)
    /\ UNCHANGED <<calls, ledger, ledgerTmp, resets, stops>>

FaultyReadLedger(u) ==
    /\ pushStep[u] = "read"
    /\ entries' = [entries EXCEPT ![u] = ledger \cup batch[u] \cup unsent[u]]
    /\ pushStep' = [pushStep EXCEPT ![u] = "write"]
    /\ UNCHANGED <<calls, ledger, ledgerTmp, accepted, unsent, batch, retries, resets, stops>>

\* appendToLedger: what is there, and the batch.
ReadLedger(u) ==
    /\ pushStep[u] = "read"
    /\ entries' = [entries EXCEPT ![u] = ledger \cup batch[u]]
    /\ pushStep' = [pushStep EXCEPT ![u] = "write"]
    /\ UNCHANGED <<calls, ledger, ledgerTmp, accepted, unsent, batch, retries, resets, stops>>

WriteLedgerTmp(u) ==
    /\ pushStep[u] = "write"
    /\ ledgerTmp' = {entries[u]}
    /\ pushStep' = [pushStep EXCEPT ![u] = "rename"]
    /\ UNCHANGED <<calls, ledger, accepted, unsent, batch, retries, entries, resets, stops>>

\* The temporary file may be another push's by now, or gone: then the rename
\* throws and the push ends.
RenameLedger(u) ==
    /\ pushStep[u] = "rename"
    /\ IF ledgerTmp = {}
       THEN EndPush(u) /\ UNCHANGED <<ledger, ledgerTmp>>
       ELSE /\ \E tmp \in ledgerTmp : ledger' = tmp
            /\ ledgerTmp' = {}
            /\ pushStep' = [pushStep EXCEPT ![u] = "batch"]
            /\ UNCHANGED <<unsent, batch, retries, entries>>
    /\ UNCHANGED <<calls, accepted, resets, stops>>

\* The process is stopped.
PushStops(u) ==
    /\ pushStep[u] # "idle"
    /\ stops < MaxStops
    /\ stops' = stops + 1
    /\ EndPush(u)
    /\ UNCHANGED <<calls, ledger, ledgerTmp, accepted, resets>>

\* `sync reset`; a ledger that cannot be read counts as empty, too.
Reset ==
    /\ resets < MaxResets
    /\ resets' = resets + 1
    /\ ledger' = {}
    /\ UNCHANGED <<calls, ledgerTmp, accepted, pushStep, unsent, batch, retries, entries,
                   stops>>

\* What a push does on its own, and what the endpoint answers.
Advances(u) ==
    \/ Collect(u) \/ NextBatch(u) \/ PushCompletes(u)
    \/ ReadLedger(u) \/ WriteLedgerTmp(u) \/ RenameLedger(u)

EndpointAnswers(u) == Accept(u) \/ AcceptPart(u) \/ RateLimited(u) \/ SendFails(u)

PushNext == \/ NewCall \/ Reset
            \/ \E u \in Pusher : Advances(u) \/ EndpointAnswers(u) \/ PushStops(u)

PushSpec == PushInit /\ [][PushNext]_pushVars

-----------------------------------------------------------------------------
(* Properties *)

\* What the ledger names has been stored by the endpoint: a call is skipped by
\* later pushes only then.  It holds although answers get lost, parts are
\* rejected, pushes stop anywhere and overwrite each other's ledger.
LedgerOnlyAccepted ==
    /\ ledger \subseteq accepted
    /\ \A tmp \in ledgerTmp : tmp \subseteq accepted

\* Every call is stored in the end, if pushes go on being made and each call is
\* again and again in a batch that is fully accepted; another push may race this
\* one, and a few of them may be stopped anywhere.
EveryCallDelivered == \A s \in Span : s \in calls ~> s \in accepted
=============================================================================
