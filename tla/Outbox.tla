------------------------------- MODULE Outbox -------------------------------
(***************************************************************************)
(* The durable measurement outbox (src/local-state/measurement-outbox.ts)  *)
(* and the reconciliation of its production receipts                       *)
(* (src/local-state/measurement-production-recovery.ts).                   *)
(*                                                                         *)
(* Every file of outbox/v1 is an entry of a function: `None` is a missing  *)
(* file.  One action is one atomicWritePrivateFile (temporary file, fsync, *)
(* rename), together with the reads that decide it: those reads happen     *)
(* under the outbox lease, and only lease holders write.  A process may    *)
(* crash between any two writes; its lease is then an orphan until another *)
(* process takes it over.                                                  *)
(*                                                                         *)
(* A definition named Faulty... is not part of the specification: it is a  *)
(* variant of the one below it with a bug that the checks must find.       *)
(***************************************************************************)
EXTENDS Naturals, FiniteSets

CONSTANTS
    Proc,          \* concurrent callers: processes, or async calls of one
    Call,          \* source calls: a source fingerprint and deduplication key
    Profile,       \* evidence profiles a call can be projected through
    Facts,         \* usage, cost and disclosure content of a projected event
    Release,       \* adapter versions
    Generation,    \* generations of the endpoint's event-identity key
    KeyChoices,    \* which enqueue calls carry a production key
    AckReceipt,    \* receipt ids an acknowledgement can carry
    Reason,        \* quarantine reasons
    MaxSequence,   \* Number.MAX_SAFE_INTEGER
    Crashes,       \* whether processes crash and writes fail
    Free, Orphan,  \* lease values that are no process
    None           \* a file that does not exist

Event == [call : Call, profile : Profile, facts : Facts,
          release : Release, generation : Generation]
Record == [event : Event, sequence : 1 .. MaxSequence]
Ack == [sequence : 1 .. MaxSequence, receipt : AckReceipt]
Request == [event : Event, keyed : KeyChoices]

ASSUME ConstantsAssumption ==
    /\ MaxSequence \in Nat \ {0}
    /\ IsFiniteSet(Call) /\ IsFiniteSet(Profile) /\ IsFiniteSet(Generation)
    /\ KeyChoices \subseteq BOOLEAN
    /\ Crashes \in BOOLEAN
    /\ Free \notin Proc /\ Orphan \notin Proc /\ Free # Orphan
    /\ None \notin Record /\ None \notin Ack /\ None \notin Reason
    /\ None \notin Request

\* The public id is an HMAC of the call under the rotating key: the profile is
\* not part of it.  The production key names the profile but not the rotating
\* key.  (One workspace and one endpoint per data directory.)
EventId == Call \X Generation
ProductionKey == Call \X Profile
IdOf(e) == <<e.call, e.generation>>
KeyOf(e) == <<e.call, e.profile>>

\* semanticEventDigest: everything but the event id and the adapter version.
Meaning(e) == <<e.call, e.profile, e.facts>>

VARIABLES
    lease,         \* owner of the outbox lease
    nextSequence,  \* next-sequence.json
    receipts,      \* production/<key>.json
    events,        \* events/<id>.json
    acks,          \* acks/<id>.json
    quarantine,    \* quarantine/<id>.json
    step,          \* where each caller is
    request,       \* the arguments of its enqueue
    record,        \* the record that enqueue made or found
    recovery       \* the receipts a reconciliation listed, and those left

files == <<nextSequence, receipts, events, acks, quarantine>>
callers == <<step, request, record, recovery>>
vars == <<lease, files, callers>>

NoRecovery == [listed |-> {}, todo |-> {}, before |-> 0]
Step == {"idle", "entered", "reserved", "receipted", "done", "failed",
         "scanned", "reconciling", "reconciled"}

TypeOK ==
    /\ lease \in Proc \cup {Free, Orphan}
    /\ nextSequence \in 1 .. MaxSequence
    /\ receipts \in [ProductionKey -> Record \cup {None}]
    /\ events \in [EventId -> Record \cup {None}]
    /\ acks \in [EventId -> Ack \cup {None}]
    /\ quarantine \in [EventId -> Reason \cup {None}]
    /\ step \in [Proc -> Step]
    /\ request \in [Proc -> Request \cup {None}]
    /\ record \in [Proc -> Record \cup {None}]
    /\ recovery \in [Proc -> [listed : SUBSET ProductionKey,
                              todo : SUBSET ProductionKey, before : Nat]]

Init ==
    /\ lease = Free
    /\ nextSequence = 1
    /\ receipts = [k \in ProductionKey |-> None]
    /\ events = [i \in EventId |-> None]
    /\ acks = [i \in EventId |-> None]
    /\ quarantine = [i \in EventId |-> None]
    /\ step = [p \in Proc |-> "idle"]
    /\ request = [p \in Proc |-> None]
    /\ record = [p \in Proc |-> None]
    /\ recovery = [p \in Proc |-> NoRecovery]

Published == {i \in EventId : events[i] # None}
Receipted == {k \in ProductionKey : receipts[k] # None}
Quarantined == {i \in EventId : quarantine[i] # None}

Goto(p, s) == step' = [step EXCEPT ![p] = s]

-----------------------------------------------------------------------------
(* enqueueMeasurementEventV1 *)

FaultyBeginWithoutLease(p, e, keyed) ==
    /\ step[p] = "idle"
    /\ Goto(p, "entered")
    /\ request' = [request EXCEPT ![p] = [event |-> e, keyed |-> keyed]]
    /\ UNCHANGED <<lease, files, record, recovery>>

BeginEnqueue(p, e, keyed) ==
    /\ step[p] = "idle"
    /\ lease = Free
    /\ lease' = p
    /\ Goto(p, "entered")
    /\ request' = [request EXCEPT ![p] = [event |-> e, keyed |-> keyed]]
    /\ UNCHANGED <<files, record, recovery>>

Wanted(p) == request[p].event
FaultyIgnoreReceipts(p) == FALSE
HasReceipt(p) == request[p].keyed /\ receipts[KeyOf(Wanted(p))] # None
Receipt(p) == receipts[KeyOf(Wanted(p))]
Existing(p) == events[IdOf(Wanted(p))]

FaultyAlwaysPublishable(r) == TRUE

\* The receipt's record can be published: its file is missing, or is that record.
Publishable(r) == events[IdOf(r.event)] \in {None, r}

\* The production key is taken by a measurement with another meaning.
RejectKeyCollision(p) ==
    /\ step[p] = "entered"
    /\ HasReceipt(p)
    /\ Meaning(Receipt(p).event) # Meaning(Wanted(p))
    /\ Goto(p, "failed")
    /\ UNCHANGED <<lease, files, request, record, recovery>>

FaultyReportDuplicateOnly(p) ==
    /\ step[p] = "entered"
    /\ HasReceipt(p)
    /\ Meaning(Receipt(p).event) = Meaning(Wanted(p))
    /\ record' = [record EXCEPT ![p] = Receipt(p)]
    /\ Goto(p, "done")
    /\ UNCHANGED <<lease, files, request, recovery>>

\* A duplicate: publish the receipt's own record if its event file is missing.
PublishFromReceipt(p) ==
    /\ step[p] = "entered"
    /\ HasReceipt(p)
    /\ Meaning(Receipt(p).event) = Meaning(Wanted(p))
    /\ Publishable(Receipt(p))
    /\ events' = [events EXCEPT ![IdOf(Receipt(p).event)] = Receipt(p)]
    /\ record' = [record EXCEPT ![p] = Receipt(p)]
    /\ Goto(p, "done")
    /\ UNCHANGED <<lease, nextSequence, receipts, acks, quarantine, request,
                   recovery>>

RejectReceiptConflict(p) ==
    /\ step[p] = "entered"
    /\ HasReceipt(p)
    /\ Meaning(Receipt(p).event) = Meaning(Wanted(p))
    /\ ~Publishable(Receipt(p))
    /\ Goto(p, "failed")
    /\ UNCHANGED <<lease, files, request, record, recovery>>

RejectEventCollision(p) ==
    /\ step[p] = "entered"
    /\ ~HasReceipt(p)
    /\ Existing(p) # None
    /\ Existing(p).event # Wanted(p)
    /\ Goto(p, "failed")
    /\ UNCHANGED <<lease, files, request, record, recovery>>

\* A duplicate by event id; a keyed call binds the existing record to its key.
AdoptPublished(p) ==
    /\ step[p] = "entered"
    /\ ~HasReceipt(p)
    /\ Existing(p) # None
    /\ Existing(p).event = Wanted(p)
    /\ receipts' = IF request[p].keyed
                   THEN [receipts EXCEPT ![KeyOf(Wanted(p))] = Existing(p)]
                   ELSE receipts
    /\ record' = [record EXCEPT ![p] = Existing(p)]
    /\ Goto(p, "done")
    /\ UNCHANGED <<lease, nextSequence, events, acks, quarantine, request,
                   recovery>>

FaultyIsNewByKey(p) == step[p] = "entered" /\ ~HasReceipt(p)
IsNew(p) == step[p] = "entered" /\ ~HasReceipt(p) /\ Existing(p) = None

RejectExhausted(p) ==
    /\ IsNew(p)
    /\ nextSequence >= MaxSequence
    /\ Goto(p, "failed")
    /\ UNCHANGED <<lease, files, request, record, recovery>>

FaultyReserveBeyondLimit(p) ==
    /\ IsNew(p)
    /\ nextSequence' = nextSequence + 1
    /\ record' = [record EXCEPT
                    ![p] = [event |-> Wanted(p), sequence |-> nextSequence]]
    /\ Goto(p, "reserved")
    /\ UNCHANGED <<lease, receipts, events, acks, quarantine, request, recovery>>

FaultyReserveUnsaved(p) ==
    /\ IsNew(p)
    /\ nextSequence < MaxSequence
    /\ record' = [record EXCEPT
                    ![p] = [event |-> Wanted(p), sequence |-> nextSequence]]
    /\ Goto(p, "reserved")
    /\ UNCHANGED <<lease, files, request, recovery>>

\* Reserve first: the counter is on disk before any record uses its value.
ReserveSequence(p) ==
    /\ IsNew(p)
    /\ nextSequence < MaxSequence
    /\ nextSequence' = nextSequence + 1
    /\ record' = [record EXCEPT
                    ![p] = [event |-> Wanted(p), sequence |-> nextSequence]]
    /\ Goto(p, "reserved")
    /\ UNCHANGED <<lease, receipts, events, acks, quarantine, request, recovery>>

WriteReceipt(p) ==
    /\ step[p] = "reserved"
    /\ request[p].keyed
    /\ receipts' = [receipts EXCEPT ![KeyOf(Wanted(p))] = record[p]]
    /\ Goto(p, "receipted")
    /\ UNCHANGED <<lease, nextSequence, events, acks, quarantine, request,
                   record, recovery>>

FaultyPublishFirst(p) ==
    /\ step[p] = "reserved"
    /\ events' = [events EXCEPT ![IdOf(record[p].event)] = record[p]]
    /\ Goto(p, "done")
    /\ UNCHANGED <<lease, nextSequence, receipts, acks, quarantine, request,
                   record, recovery>>

PublishEvent(p) ==
    /\ step[p] = IF request[p] # None /\ request[p].keyed
                 THEN "receipted" ELSE "reserved"
    /\ events' = [events EXCEPT ![IdOf(record[p].event)] = record[p]]
    /\ Goto(p, "done")
    /\ UNCHANGED <<lease, nextSequence, receipts, acks, quarantine, request,
                   record, recovery>>

FaultyReturnKeepsLease(p) ==
    /\ step[p] \in {"done", "failed", "reconciled"}
    /\ Goto(p, "idle")
    /\ request' = [request EXCEPT ![p] = None]
    /\ record' = [record EXCEPT ![p] = None]
    /\ recovery' = [recovery EXCEPT ![p] = NoRecovery]
    /\ UNCHANGED <<lease, files>>

\* The call returns or throws; `finally` releases the lease it holds.
Return(p) ==
    /\ step[p] \in {"done", "failed", "reconciled"}
    /\ lease' = IF lease = p THEN Free ELSE lease
    /\ Goto(p, "idle")
    /\ request' = [request EXCEPT ![p] = None]
    /\ record' = [record EXCEPT ![p] = None]
    /\ recovery' = [recovery EXCEPT ![p] = NoRecovery]
    /\ UNCHANGED files

EnqueueStep(p) ==
    \/ RejectKeyCollision(p)
    \/ PublishFromReceipt(p)
    \/ RejectReceiptConflict(p)
    \/ RejectEventCollision(p)
    \/ AdoptPublished(p)
    \/ RejectExhausted(p)
    \/ ReserveSequence(p)
    \/ WriteReceipt(p)
    \/ PublishEvent(p)

-----------------------------------------------------------------------------
(* acknowledgeMeasurementEventV1 and quarantineMeasurementOutboxFileV1: one  *)
(* write each, under the lease, so each is one step of whoever calls it.     *)

AckEvent(i, receipt) ==
    /\ lease = Free
    /\ events[i] # None
    /\ acks[i] = None
    /\ acks' = [acks EXCEPT ![i] = [sequence |-> events[i].sequence,
                                    receipt |-> receipt]]
    /\ UNCHANGED <<lease, nextSequence, receipts, events, quarantine, callers>>

QuarantineEvent(i, reason) ==
    /\ lease = Free
    /\ events[i] # None
    /\ quarantine[i] = None
    /\ quarantine' = [quarantine EXCEPT ![i] = reason]
    /\ UNCHANGED <<lease, nextSequence, receipts, events, acks, callers>>

-----------------------------------------------------------------------------
(* reconcileMeasurementProductionReceiptsV1: two scans and a directory       *)
(* listing without the lease, and between them one enqueue per receipt.      *)

ReconcileScan(p) ==
    /\ step[p] = "idle"
    /\ Quarantined = {}
    /\ recovery' = [recovery EXCEPT ![p].before = Cardinality(Published)]
    /\ Goto(p, "scanned")
    /\ UNCHANGED <<lease, files, request, record>>

ReconcileList(p) ==
    /\ step[p] = "scanned"
    /\ recovery' = [recovery EXCEPT ![p].listed = Receipted,
                                    ![p].todo = Receipted]
    /\ Goto(p, "reconciling")
    /\ UNCHANGED <<lease, files, request, record>>

FaultyReconcileWithoutWriting(p, k) ==
    /\ step[p] = "reconciling"
    /\ k \in recovery[p].todo
    /\ lease = Free
    /\ Publishable(receipts[k])
    /\ recovery' = [recovery EXCEPT ![p].todo = @ \ {k}]
    /\ UNCHANGED <<lease, files, step, request, record>>

\* enqueue(receipt.record.event) under the receipt's own key.
ReconcileReceipt(p, k) ==
    /\ step[p] = "reconciling"
    /\ k \in recovery[p].todo
    /\ lease = Free
    /\ Publishable(receipts[k])
    /\ events' = [events EXCEPT ![IdOf(receipts[k].event)] = receipts[k]]
    /\ recovery' = [recovery EXCEPT ![p].todo = @ \ {k}]
    /\ UNCHANGED <<lease, nextSequence, receipts, acks, quarantine, step,
                   request, record>>

ReconcileConflict(p, k) ==
    /\ step[p] = "reconciling"
    /\ k \in recovery[p].todo
    /\ lease = Free
    /\ ~Publishable(receipts[k])
    /\ Goto(p, "failed")
    /\ UNCHANGED <<lease, files, request, record, recovery>>

FaultyReconcilePolls(p) ==
    /\ step[p] = "reconciling"
    /\ recovery[p].todo # {}
    /\ lease # Free
    /\ UNCHANGED vars

\* 'timed out waiting for local-state lease', reported as a conflict.
ReconcileTimesOut(p) ==
    /\ step[p] = "reconciling"
    /\ recovery[p].todo # {}
    /\ lease # Free
    /\ Goto(p, "failed")
    /\ UNCHANGED <<lease, files, request, record, recovery>>

CountsAgree(p) ==
    /\ Cardinality(Published) >= recovery[p].before
    /\ Cardinality(Published) - recovery[p].before
         <= Cardinality(recovery[p].listed)

ReconcileFinish(p) ==
    /\ step[p] = "reconciling"
    /\ recovery[p].todo = {}
    /\ Goto(p, IF Quarantined = {} /\ CountsAgree(p)
               THEN "reconciled" ELSE "failed")
    /\ UNCHANGED <<lease, files, request, record, recovery>>

ReconcileStep(p) ==
    \/ ReconcileList(p)
    \/ \E k \in ProductionKey : ReconcileReceipt(p, k) \/ ReconcileConflict(p, k)
    \/ ReconcileTimesOut(p)
    \/ ReconcileFinish(p)

-----------------------------------------------------------------------------
(* Failures *)

\* A write throws after its retries (busy file, full disk): `finally` still
\* releases the lease.
WriteFails(p) ==
    /\ Crashes
    /\ step[p] \in {"entered", "reserved", "receipted"}
    /\ Goto(p, "failed")
    /\ UNCHANGED <<lease, files, request, record, recovery>>

\* The process stops: what is on disk stays, its lease has no living owner.
Crash(p) ==
    /\ Crashes
    /\ step[p] # "idle"
    /\ lease' = IF lease = p THEN Orphan ELSE lease
    /\ Goto(p, "idle")
    /\ request' = [request EXCEPT ![p] = None]
    /\ record' = [record EXCEPT ![p] = None]
    /\ recovery' = [recovery EXCEPT ![p] = NoRecovery]
    /\ UNCHANGED files

\* The lock file of a dead owner goes stale (30 s) and is taken over.
TakeOver ==
    /\ lease = Orphan
    /\ lease' = Free
    /\ UNCHANGED <<files, callers>>

-----------------------------------------------------------------------------
ProducerNext ==
    \/ \E p \in Proc :
         \/ \E e \in Event, keyed \in KeyChoices : BeginEnqueue(p, e, keyed)
         \/ EnqueueStep(p)
         \/ ReconcileScan(p)
         \/ ReconcileStep(p)
         \/ Return(p)
         \/ WriteFails(p)
         \/ Crash(p)
    \/ TakeOver

ReviewNext ==
    \/ \E i \in EventId, receipt \in AckReceipt : AckEvent(i, receipt)
    \/ \E i \in EventId, reason \in Reason : QuarantineEvent(i, reason)

Next == ProducerNext \/ ReviewNext

Spec == Init /\ [][Next]_vars

\* A started operation goes on unless its process crashes, and waiters of a
\* dead owner's lease do take it over (acquireCacheRefreshLock polls for it).
FairSpec ==
    /\ Spec
    /\ \A p \in Proc : WF_vars(EnqueueStep(p) \/ ReconcileStep(p) \/ Return(p))
    /\ WF_vars(TakeOver)

-----------------------------------------------------------------------------
(* Properties *)

Writing(p) == step[p] \in {"reserved", "receipted"}
InFlight == {record[p] : p \in {q \in Proc : Writing(q)}}
Durable == {receipts[k] : k \in Receipted} \cup {events[i] : i \in Published}

\* A sequence number names one record for ever, across crashes between the
\* counter, the receipt and the event, and the counter is ahead of all of them
\* ("sequence numbers are reserved before publication and never reused").
NoSequenceReuse ==
    /\ \A r \in Durable \cup InFlight : r.sequence < nextSequence
    /\ \A r, s \in Durable \cup InFlight : r.sequence = s.sequence => r = s

\* A production key is measured once: whatever generation of the event-identity
\* key a retry uses, and wherever an earlier attempt stopped, one published
\* event carries that key ("without creating a second semantic measurement").
OneMeasurementPerKey ==
    \A i, j \in Published : KeyOf(events[i].event) = KeyOf(events[j].event) => i = j

\* Every receipt can still be repaired: its event file is missing or is its own
\* record, so neither a retry nor a reconciliation stops at a conflict.
ReceiptsRepairable == \A k \in Receipted : Publishable(receipts[k])

\* What a successful enqueue returns is on disk: the record is published, and a
\* keyed call has it as its receipt.
EnqueueDurable ==
    \A p \in Proc : step[p] = "done" =>
        /\ events[IdOf(record[p].event)] = record[p]
        /\ request[p].keyed => receipts[KeyOf(Wanted(p))] = record[p]

\* An acknowledgement names the sequence of the event file it stands beside
\* (readAck treats any other as damage and the scan as blocked).
AcksMatchEvents ==
    \A i \in EventId : acks[i] # None =>
        events[i] # None /\ acks[i].sequence = events[i].sequence

\* A reconciliation that succeeds has healed every receipt it listed, whatever
\* other callers published or crashed in while it ran.
ReconcileHeals ==
    \A p \in Proc : step[p] = "reconciled" =>
        \A k \in recovery[p].listed : events[IdOf(receipts[k].event)] = receipts[k]

\* A file once written is never rewritten or removed: events, receipts,
\* acknowledgements and quarantine markers are immutable.
Kept(old, new) == \A x \in DOMAIN old : old[x] # None => new[x] = old[x]
FilesImmutable ==
    [][/\ Kept(receipts, receipts') /\ Kept(events, events')
       /\ Kept(acks, acks') /\ Kept(quarantine, quarantine')]_vars

\* No operation hangs: it returns, throws or its process dies, and the outbox
\* lease it held does not stay taken.
OperationsEnd == \A p \in Proc : step[p] # "idle" ~> step[p] = "idle"
LeaseFreed == lease # Free ~> lease = Free

\* The inductive strengthening of the invariants above: a file is stored under
\* the name its content has; a caller between two writes holds the lease, and
\* nothing it is about to write exists; its reserved number is in no file.
Naming ==
    /\ \A k \in Receipted : KeyOf(receipts[k].event) = k
    /\ \A i \in Published : IdOf(events[i].event) = i

Callers ==
    \A p \in Proc :
        /\ Writing(p) \/ step[p] \in {"entered", "done"} =>
               lease = p /\ request[p] \in Request
        /\ Writing(p) \/ step[p] = "done" => record[p] \in Record
        /\ Writing(p) => record[p].event = Wanted(p) /\ Existing(p) = None
        /\ step[p] = "reserved" => ~HasReceipt(p)
        /\ step[p] = "receipted" => request[p].keyed /\ Receipt(p) = record[p]

Fresh ==
    \A p \in Proc : step[p] = "reserved" =>
        \A r \in Durable : r.sequence # record[p].sequence

\* Keyed production publishes nothing but its receipts.
PublishedFromReceipts ==
    \A i \in Published : receipts[KeyOf(events[i].event)] = events[i]

Listing ==
    \A p \in Proc : step[p] \in {"reconciling", "reconciled"} =>
        /\ recovery[p].listed \subseteq Receipted
        /\ \A k \in recovery[p].listed \ recovery[p].todo :
               events[IdOf(receipts[k].event)] = receipts[k]
        /\ step[p] = "reconciled" => recovery[p].todo = {}

\* The abstract log that keyed production implements.
Log == INSTANCE MeasurementLog WITH
           Key <- ProductionKey, committed <- receipts,
           published <- {events[i] : i \in Published}, frontier <- nextSequence
LogSpec == Log!Spec
=============================================================================
