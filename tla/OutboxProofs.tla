---------------------------- MODULE OutboxProofs ----------------------------
(* Theorems about Outbox, for every value of its constants. *)
EXTENDS Outbox, FiniteSetTheorems, TLAPS

Base == TypeOK /\ Naming /\ Callers

\* The id and the key of an event are a file name of their directory.
LEMMA Names ==
    ASSUME NEW e \in Event
    PROVE  IdOf(e) \in EventId /\ KeyOf(e) \in ProductionKey
  BY DEF Event, EventId, ProductionKey, IdOf, KeyOf

\* A stored record is a record, and `None` is not one.
LEMMA RecordFields ==
    ASSUME NEW r \in Record
    PROVE  /\ r # None /\ r.event \in Event /\ r.sequence \in 1 .. MaxSequence
           /\ IdOf(r.event) \in EventId /\ KeyOf(r.event) \in ProductionKey
  BY ConstantsAssumption, Names DEF Record

LEMMA RequestFields ==
    ASSUME NEW r \in Request
    PROVE  /\ r # None /\ r.event \in Event /\ r.keyed \in BOOLEAN
           /\ IdOf(r.event) \in EventId /\ KeyOf(r.event) \in ProductionKey
  BY ConstantsAssumption, Names DEF Request

LEMMA BaseInit == Init => Base
  <1> SUFFICES ASSUME Init PROVE Base
    OBVIOUS
  <1>1. TypeOK
    BY ConstantsAssumption DEF Init, TypeOK, NoRecovery, Step
  <1>2. Naming /\ Callers
    BY DEF Init, Naming, Callers, Writing, Receipted, Published
  <1> QED
    BY <1>1, <1>2 DEF Base

LEMMA BeginEnqueueBase ==
    ASSUME Base, NEW p \in Proc, NEW e \in Event, NEW keyed \in KeyChoices,
           BeginEnqueue(p, e, keyed)
    PROVE  Base'
  <1> USE DEF Base, BeginEnqueue, files, Goto
  <1>1. TypeOK'
    BY DEF TypeOK, Request, Step
  <1>2. Naming'
    BY DEF Naming, Receipted, Published
  <1>3. Callers'
    BY ConstantsAssumption DEF TypeOK, Callers, Request, Writing, HasReceipt, Wanted, Existing, Receipt
  <1> QED
    BY <1>1, <1>2, <1>3

LEMMA PublishFromReceiptBase ==
    ASSUME Base, NEW p \in Proc, PublishFromReceipt(p)
    PROVE  Base'
  <1> USE DEF Base, PublishFromReceipt, Goto
  <1> DEFINE r == Receipt(p)
  <1>1. request[p] \in Request /\ lease = p
    BY DEF Callers
  <1>2. r \in Record
    BY <1>1, RequestFields DEF TypeOK, HasReceipt, Receipt, Wanted
  <1>3. TypeOK'
    BY <1>2, RecordFields DEF TypeOK, Step
  <1>4. Naming'
    BY <1>2, RecordFields DEF Naming, TypeOK, Receipted, Published
  <1>5. Callers'
    BY <1>1, <1>2 DEF Callers, TypeOK, Writing, HasReceipt, Wanted, Existing, Receipt
  <1> QED
    BY <1>3, <1>4, <1>5

LEMMA AdoptPublishedBase ==
    ASSUME Base, NEW p \in Proc, AdoptPublished(p)
    PROVE  Base'
  <1> USE DEF Base, AdoptPublished, Goto
  <1> DEFINE r == Existing(p)
  <1>1. request[p] \in Request /\ lease = p
    BY DEF Callers
  <1>2. r \in Record /\ r.event = Wanted(p)
    BY <1>1, RequestFields DEF TypeOK, Existing, Wanted
  <1>3. TypeOK'
    BY <1>2, RecordFields DEF TypeOK, Step
  <1>4. Naming'
    BY <1>2, RecordFields DEF Naming, TypeOK, Receipted, Published
  <1>5. Callers'
    BY <1>1, <1>2 DEF Callers, TypeOK, Writing, HasReceipt, Wanted, Existing, Receipt
  <1> QED
    BY <1>3, <1>4, <1>5

LEMMA ReserveSequenceBase ==
    ASSUME Base, NEW p \in Proc, ReserveSequence(p)
    PROVE  Base'
  <1> USE DEF Base, ReserveSequence, IsNew, Goto
  <1>1. request[p] \in Request /\ lease = p
    BY DEF Callers
  <1>2. [event |-> Wanted(p), sequence |-> nextSequence] \in Record
    BY <1>1, RequestFields DEF TypeOK, Record, Wanted
  <1>3. TypeOK'
    BY <1>2, ConstantsAssumption DEF TypeOK, Step
  <1>4. Naming'
    BY DEF Naming, Receipted, Published
  <1>5. Callers'
    BY <1>1, <1>2 DEF Callers, TypeOK, Writing, HasReceipt, Wanted, Existing, Receipt
  <1> QED
    BY <1>3, <1>4, <1>5

LEMMA WriteReceiptBase ==
    ASSUME Base, NEW p \in Proc, WriteReceipt(p)
    PROVE  Base'
  <1> USE DEF Base, WriteReceipt, Goto
  <1>1. request[p] \in Request /\ lease = p /\ record[p] \in Record
        /\ record[p].event = Wanted(p)
    BY DEF Callers, Writing
  <1>2. TypeOK'
    BY <1>1 DEF TypeOK, Step
  <1>3. Naming'
    BY <1>1 DEF Naming, TypeOK, Receipted, Published
  <1>4. Callers'
    BY <1>1, RequestFields DEF Callers, TypeOK, Writing, HasReceipt, Wanted, Existing, Receipt
  <1> QED
    BY <1>2, <1>3, <1>4

LEMMA PublishEventBase ==
    ASSUME Base, NEW p \in Proc, PublishEvent(p)
    PROVE  Base'
  <1> USE DEF Base, PublishEvent, Goto
  <1>1. request[p] \in Request /\ lease = p /\ record[p] \in Record
        /\ record[p].event = Wanted(p)
    BY DEF Callers, Writing
  <1>2. TypeOK'
    BY <1>1 DEF TypeOK, Step
  <1>3. Naming'
    BY <1>1 DEF Naming, TypeOK, Receipted, Published
  <1>4. Callers'
    BY <1>1 DEF Callers, TypeOK, Writing, HasReceipt, Wanted, Existing, Receipt
  <1> QED
    BY <1>2, <1>3, <1>4

\* A step that only moves a caller to a place where nothing is claimed of it.
LEMMA LeaveBase ==
    ASSUME Base, NEW p \in Proc, UNCHANGED files,
           \/ \E s \in {"failed", "scanned", "reconciling", "reconciled"} :
                /\ Goto(p, s)
                /\ UNCHANGED <<lease, request, record>>
           \/ /\ Goto(p, "idle")
              /\ lease' \in {lease, Free, Orphan}
              /\ lease' # lease => lease = p
              /\ request' = [request EXCEPT ![p] = None]
              /\ record' = [record EXCEPT ![p] = None],
           recovery' \in [Proc -> [listed : SUBSET ProductionKey,
                                   todo : SUBSET ProductionKey, before : Nat]]
    PROVE  Base'
  <1> USE DEF Base, Goto, files
  <1>1. TypeOK'
    BY DEF TypeOK, Step
  <1>2. Naming'
    BY DEF Naming, Receipted, Published
  <1>3. Callers'
    BY DEF Callers, TypeOK, Writing, HasReceipt, Wanted, Existing, Receipt
  <1> QED
    BY <1>1, <1>2, <1>3

LEMMA ReconcileReceiptBase ==
    ASSUME Base, NEW p \in Proc, NEW k \in ProductionKey, ReconcileReceipt(p, k)
    PROVE  Base'
  <1> USE DEF Base, ReconcileReceipt
  <1>1. lease = Free /\ \A q \in Proc : ~Writing(q) /\ step[q] \notin {"entered", "done"}
    BY ConstantsAssumption DEF Callers
  <1>2. receipts[k] \in Record \cup {None}
    BY DEF TypeOK
  <1>3. TypeOK'
    BY <1>2 DEF TypeOK
  <1>4. Naming'
    BY <1>2, RecordFields DEF Naming, TypeOK, Receipted, Published
  <1>5. Callers'
    BY <1>1 DEF Callers, Writing
  <1> QED
    BY <1>3, <1>4, <1>5

LEMMA ReviewBase ==
    ASSUME Base, NEW i \in EventId,
           \/ \E receipt \in AckReceipt : AckEvent(i, receipt)
           \/ \E reason \in Reason : QuarantineEvent(i, reason)
    PROVE  Base'
  <1> USE DEF Base, AckEvent, QuarantineEvent, callers
  <1>1. events[i] \in Record
    BY DEF TypeOK
  <1>2. TypeOK'
    BY <1>1, RecordFields DEF TypeOK, Ack
  <1>3. Naming'
    BY DEF Naming, Receipted, Published
  <1>4. Callers'
    BY DEF Callers, Writing, HasReceipt, Wanted, Existing, Receipt
  <1> QED
    BY <1>2, <1>3, <1>4

LEMMA BaseStep == Base /\ [Next]_vars => Base'
  <1> SUFFICES ASSUME Base, [Next]_vars PROVE Base'
    OBVIOUS
  <1> DEFINE Typed == recovery \in [Proc -> [listed : SUBSET ProductionKey,
                                   todo : SUBSET ProductionKey, before : Nat]]
  <1> USE DEF files
  <1>t. Typed
    BY DEF Base, TypeOK
  <1>1. CASE UNCHANGED vars
    BY <1>1 DEF vars, callers, Base, TypeOK, Naming, Callers, Writing,
       HasReceipt, Wanted, Existing, Receipt, Receipted, Published
  <1>2. ASSUME NEW p \in Proc, NEW e \in Event, NEW keyed \in KeyChoices,
               BeginEnqueue(p, e, keyed)
        PROVE  Base'
    BY <1>2, BeginEnqueueBase
  <1>3. ASSUME NEW p \in Proc, EnqueueStep(p) PROVE Base'
    <2>1. CASE RejectKeyCollision(p)
      BY <2>1, <1>t, LeaveBase DEF RejectKeyCollision
    <2>2. CASE PublishFromReceipt(p)
      BY <2>2, PublishFromReceiptBase
    <2>3. CASE RejectReceiptConflict(p)
      BY <2>3, <1>t, LeaveBase DEF RejectReceiptConflict
    <2>4. CASE RejectEventCollision(p)
      BY <2>4, <1>t, LeaveBase DEF RejectEventCollision
    <2>5. CASE AdoptPublished(p)
      BY <2>5, AdoptPublishedBase
    <2>6. CASE RejectExhausted(p)
      BY <2>6, <1>t, LeaveBase DEF RejectExhausted
    <2>7. CASE ReserveSequence(p)
      BY <2>7, ReserveSequenceBase
    <2>8. CASE WriteReceipt(p)
      BY <2>8, WriteReceiptBase
    <2>9. CASE PublishEvent(p)
      BY <2>9, PublishEventBase
    <2> QED
      BY <1>3, <2>1, <2>2, <2>3, <2>4, <2>5, <2>6, <2>7, <2>8, <2>9 DEF EnqueueStep
  <1>4. ASSUME NEW p \in Proc, ReconcileScan(p) PROVE Base'
    <2>1. Cardinality(Published) \in Nat
      BY ConstantsAssumption, FS_Product, FS_Subset, FS_CardinalityType
      DEF Published, EventId
    <2> QED
      BY <2>1, <1>4, <1>t, LeaveBase DEF ReconcileScan
  <1>5. ASSUME NEW p \in Proc, ReconcileStep(p) PROVE Base'
    <2>1. CASE ReconcileList(p)
      BY <2>1, <1>t, LeaveBase DEF ReconcileList, Receipted
    <2>2. ASSUME NEW k \in ProductionKey, ReconcileReceipt(p, k) PROVE Base'
      BY <2>2, ReconcileReceiptBase
    <2>3. ASSUME NEW k \in ProductionKey, ReconcileConflict(p, k) PROVE Base'
      BY <2>3, <1>t, LeaveBase DEF ReconcileConflict
    <2>4. CASE ReconcileTimesOut(p)
      BY <2>4, <1>t, LeaveBase DEF ReconcileTimesOut
    <2>5. CASE ReconcileFinish(p)
      BY <2>5, <1>t, LeaveBase DEF ReconcileFinish
    <2> QED
      BY <1>5, <2>1, <2>2, <2>3, <2>4, <2>5 DEF ReconcileStep
  <1>6. ASSUME NEW p \in Proc, Return(p) PROVE Base'
    BY <1>6, <1>t, LeaveBase DEF Return, NoRecovery
  <1>7. ASSUME NEW p \in Proc, WriteFails(p) PROVE Base'
    BY <1>7, <1>t, LeaveBase DEF WriteFails
  <1>8. ASSUME NEW p \in Proc, Crash(p) PROVE Base'
    BY <1>8, <1>t, LeaveBase DEF Crash, NoRecovery
  <1>9. CASE TakeOver
    BY <1>9, ConstantsAssumption DEF TakeOver, callers, Base, TypeOK, Naming, Callers,
       Writing, HasReceipt, Wanted, Existing, Receipt, Receipted, Published
  <1>10. CASE ReviewNext
    BY <1>10, ReviewBase DEF ReviewNext
  <1> QED
    BY <1>1, <1>2, <1>3, <1>4, <1>5, <1>6, <1>7, <1>8, <1>9, <1>10
    DEF Next, ProducerNext

LEMMA BaseInvariant == Spec => []Base
  BY BaseInit, BaseStep, PTL DEF Spec

\* Every variable keeps its type: in particular every file is missing or holds
\* a well-formed record, whatever crashes interrupt.
THEOREM TypeCorrect == Spec => []TypeOK
  BY BaseInvariant, PTL DEF Base

-----------------------------------------------------------------------------
(* Sequence numbers *)

Stored == Durable \cup InFlight

\* Every step but a reservation keeps the counter and stores no new record; a
\* caller that stays reserved keeps its record, and no file is written meanwhile.
OldRecords ==
    /\ nextSequence' = nextSequence
    /\ Stored' \subseteq Stored
    /\ \A p \in Proc : step'[p] = "reserved" =>
          /\ step[p] = "reserved" /\ record'[p] = record[p]
          /\ Durable' \subseteq Durable

LEMMA QuietOldRecords ==
    ASSUME Base, UNCHANGED <<nextSequence, receipts, events>>,
           \A p \in Proc : Writing(p)' => step'[p] = step[p] /\ record'[p] = record[p]
    PROVE  OldRecords
  BY DEF OldRecords, Stored, Durable, InFlight, Receipted, Published, Writing

LEMMA PublishFromReceiptOldRecords ==
    ASSUME Base, NEW p \in Proc, PublishFromReceipt(p)
    PROVE  OldRecords
  <1> USE DEF PublishFromReceipt, Goto
  <1> DEFINE r == Receipt(p)
  <1>1. request[p] \in Request /\ r \in Record /\ KeyOf(Wanted(p)) \in ProductionKey
    BY RequestFields DEF Base, TypeOK, Callers, HasReceipt, Receipt, Wanted
  <1>2. r \in Durable
    BY <1>1, RecordFields DEF Durable, Receipted, HasReceipt, Receipt
  <1>3. Durable' \subseteq Durable
    BY <1>1, <1>2, RecordFields DEF Durable, Receipted, Published, Base, TypeOK
  <1>4. InFlight' \subseteq InFlight
    BY DEF InFlight, Writing, Base, TypeOK
  <1> QED
    BY <1>3, <1>4 DEF OldRecords, Stored, Base, TypeOK

LEMMA AdoptPublishedOldRecords ==
    ASSUME Base, NEW p \in Proc, AdoptPublished(p)
    PROVE  OldRecords
  <1> USE DEF AdoptPublished, Goto
  <1> DEFINE r == Existing(p)
  <1>1. request[p] \in Request /\ r \in Record /\ IdOf(Wanted(p)) \in EventId
    BY RequestFields DEF Base, TypeOK, Callers, Existing, Wanted
  <1>2. r \in Durable
    BY <1>1, RecordFields DEF Durable, Published, Existing
  <1>3. Durable' \subseteq Durable
    BY <1>1, <1>2 DEF Durable, Receipted, Published, Base, TypeOK
  <1>4. InFlight' \subseteq InFlight
    BY DEF InFlight, Writing, Base, TypeOK
  <1> QED
    BY <1>3, <1>4 DEF OldRecords, Stored, Base, TypeOK

LEMMA ReconcileReceiptOldRecords ==
    ASSUME Base, NEW p \in Proc, NEW k \in ProductionKey, ReconcileReceipt(p, k)
    PROVE  OldRecords
  <1> USE DEF ReconcileReceipt
  <1>1. Durable' \subseteq Durable
    <2>1. CASE receipts[k] = None
      BY <2>1 DEF Durable, Receipted, Published, Base, TypeOK, Publishable
    <2>2. CASE receipts[k] # None
      BY <2>2 DEF Durable, Receipted, Published, Base, TypeOK
    <2> QED
      BY <2>1, <2>2
  <1>2. InFlight' \subseteq InFlight
    BY DEF InFlight, Writing
  <1> QED
    BY <1>1, <1>2 DEF OldRecords, Stored

LEMMA WriteReceiptOldRecords ==
    ASSUME Base, NEW p \in Proc, WriteReceipt(p)
    PROVE  OldRecords
  <1> USE DEF WriteReceipt, Goto
  <1>1. record[p] \in InFlight
    BY DEF InFlight, Writing
  <1>2. Durable' \subseteq Durable \cup {record[p]}
    BY DEF Durable, Receipted, Published, Base, TypeOK
  <1>3. InFlight' \subseteq InFlight
    BY DEF InFlight, Writing, Base, TypeOK
  <1>4. \A q \in Proc : step'[q] # "reserved"
    BY DEF Base, TypeOK, Callers, Writing
  <1> QED
    BY <1>1, <1>2, <1>3, <1>4 DEF OldRecords, Stored

LEMMA PublishEventOldRecords ==
    ASSUME Base, NEW p \in Proc, PublishEvent(p)
    PROVE  OldRecords
  <1> USE DEF PublishEvent, Goto
  <1>1. record[p] \in InFlight
    BY DEF InFlight, Writing
  <1>2. Durable' \subseteq Durable \cup {record[p]}
    BY DEF Durable, Receipted, Published, Base, TypeOK
  <1>3. InFlight' \subseteq InFlight
    BY DEF InFlight, Writing, Base, TypeOK
  <1>4. \A q \in Proc : step'[q] # "reserved"
    BY DEF Base, TypeOK, Callers, Writing
  <1> QED
    BY <1>1, <1>2, <1>3, <1>4 DEF OldRecords, Stored


LEMMA StepOldRecords ==
    ASSUME Base, [Next]_vars, ~\E p \in Proc : ReserveSequence(p)
    PROVE  OldRecords
  <1> USE DEF files
  <1>1. CASE UNCHANGED vars
    BY <1>1, QuietOldRecords DEF vars, callers, Writing
  <1>2. ASSUME NEW p \in Proc,
               NEW s \in Step \ {"reserved", "receipted"}, Goto(p, s),
               UNCHANGED files, record' \in {record, [record EXCEPT ![p] = None]}
        PROVE  OldRecords
    <2>1. \A q \in Proc : Writing(q)' => step'[q] = step[q] /\ record'[q] = record[q]
      BY <1>2 DEF Goto, Writing, Base, TypeOK, Step
    <2> QED
      BY <1>2, <2>1, QuietOldRecords
  <1>3. ASSUME NEW p \in Proc, EnqueueStep(p) PROVE OldRecords
    <2>1. CASE RejectKeyCollision(p) \/ RejectReceiptConflict(p)
                 \/ RejectEventCollision(p) \/ RejectExhausted(p)
      <3>1. Goto(p, "failed") /\ UNCHANGED files /\ record' = record
        BY <2>1 DEF RejectKeyCollision, RejectReceiptConflict,
           RejectEventCollision, RejectExhausted
      <3> QED
        BY <3>1, <1>2 DEF Step
    <2>2. CASE PublishFromReceipt(p)
      BY <2>2, PublishFromReceiptOldRecords
    <2>3. CASE AdoptPublished(p)
      BY <2>3, AdoptPublishedOldRecords
    <2>4. CASE WriteReceipt(p)
      BY <2>4, WriteReceiptOldRecords
    <2>5. CASE PublishEvent(p)
      BY <2>5, PublishEventOldRecords
    <2> QED
      BY <1>3, <2>1, <2>2, <2>3, <2>4, <2>5 DEF EnqueueStep
  <1>4. ASSUME NEW p \in Proc, ReconcileStep(p) PROVE OldRecords
    <2>1. CASE ReconcileList(p) \/ ReconcileTimesOut(p) \/ ReconcileFinish(p)
      BY <2>1, <1>2 DEF ReconcileList, ReconcileTimesOut, ReconcileFinish, Step
    <2>2. ASSUME NEW k \in ProductionKey, ReconcileReceipt(p, k) PROVE OldRecords
      BY <2>2, ReconcileReceiptOldRecords
    <2>3. ASSUME NEW k \in ProductionKey, ReconcileConflict(p, k) PROVE OldRecords
      BY <2>3, <1>2 DEF ReconcileConflict, Step
    <2> QED
      BY <1>4, <2>1, <2>2, <2>3 DEF ReconcileStep
  <1>5. ASSUME NEW p \in Proc,
               \/ \E e \in Event, keyed \in KeyChoices : BeginEnqueue(p, e, keyed)
               \/ ReconcileScan(p) \/ Return(p) \/ WriteFails(p) \/ Crash(p)
        PROVE  OldRecords
    BY <1>5, <1>2 DEF BeginEnqueue, ReconcileScan, Return, WriteFails, Crash, Step
  <1>6. CASE TakeOver \/ ReviewNext
    BY <1>6, QuietOldRecords
    DEF TakeOver, ReviewNext, AckEvent, QuarantineEvent, callers, Writing
  <1> QED
    BY <1>1, <1>3, <1>4, <1>5, <1>6 DEF Next, ProducerNext

LEMMA StoredRecords ==
    ASSUME TypeOK, Callers
    PROVE  Stored \subseteq Record
  BY DEF Stored, Durable, InFlight, Receipted, Published, TypeOK, Callers, Writing

SequenceInvariant == Base /\ NoSequenceReuse /\ Fresh

LEMMA SequenceInit == Init => SequenceInvariant
  BY BaseInit DEF Init, SequenceInvariant, NoSequenceReuse, Fresh, Durable,
     InFlight, Receipted, Published, Writing

LEMMA OldRecordsSequence ==
    ASSUME SequenceInvariant, OldRecords
    PROVE  (NoSequenceReuse /\ Fresh)'
  BY DEF SequenceInvariant, NoSequenceReuse, Fresh, OldRecords, Stored

LEMMA ReserveSequenceSequence ==
    ASSUME SequenceInvariant, NEW p \in Proc, ReserveSequence(p)
    PROVE  (NoSequenceReuse /\ Fresh)'
  <1> USE DEF ReserveSequence, Goto
  <1> DEFINE r == [event |-> Wanted(p), sequence |-> nextSequence]
  <1>1. Durable' = Durable
    BY DEF Durable, Receipted, Published
  <1>2. lease = p /\ \A q \in Proc : q # p => step'[q] # "reserved"
    BY DEF SequenceInvariant, Base, TypeOK, Callers, Writing, IsNew
  <1>3. InFlight' \subseteq InFlight \cup {r} /\ record'[p] = r
    BY DEF InFlight, Writing, SequenceInvariant, Base, TypeOK
  <1>4. \A s \in Stored : s.sequence \in Nat /\ s.sequence < nextSequence
    BY StoredRecords, RecordFields, ConstantsAssumption
    DEF SequenceInvariant, Base, NoSequenceReuse, Stored
  <1>5. nextSequence \in Nat /\ r.sequence = nextSequence
    BY ConstantsAssumption DEF SequenceInvariant, Base, TypeOK
  <1>6. \A s \in Stored' : s \in Stored \/ s = r
    BY <1>1, <1>3 DEF Stored
  <1>7. NoSequenceReuse'
    <2>1. \A s \in Stored' : s.sequence < nextSequence'
      BY <1>4, <1>5, <1>6
    <2>2. \A s, t \in Stored' : s.sequence = t.sequence => s = t
      BY <1>4, <1>5, <1>6 DEF SequenceInvariant, NoSequenceReuse, Stored
    <2> QED
      BY <2>1, <2>2 DEF NoSequenceReuse, Stored
  <1>8. Fresh'
    BY <1>1, <1>2, <1>3, <1>4, <1>5 DEF Fresh, Stored
  <1> QED
    BY <1>7, <1>8

LEMMA SequenceStep == SequenceInvariant /\ [Next]_vars => SequenceInvariant'
  <1> SUFFICES ASSUME SequenceInvariant, [Next]_vars PROVE SequenceInvariant'
    OBVIOUS
  <1>1. Base'
    BY BaseStep DEF SequenceInvariant
  <1>2. (NoSequenceReuse /\ Fresh)'
    BY StepOldRecords, OldRecordsSequence, ReserveSequenceSequence DEF SequenceInvariant
  <1> QED
    BY <1>1, <1>2 DEF SequenceInvariant

\* However callers interleave, crash and retry, and however many there are, a
\* sequence number is never given to two records.
THEOREM SequenceNumbersUnique == Spec => []NoSequenceReuse
  <1>1. Spec => []SequenceInvariant
    BY SequenceInit, SequenceStep, PTL DEF Spec
  <1> QED
    BY <1>1, PTL DEF SequenceInvariant

-----------------------------------------------------------------------------
(* Immutable files *)

AllKept ==
    /\ Kept(receipts, receipts') /\ Kept(events, events')
    /\ Kept(acks, acks') /\ Kept(quarantine, quarantine')

LEMMA AllKeptStep == Base /\ [Next]_vars => AllKept
  <1> SUFFICES ASSUME Base, [Next]_vars PROVE AllKept
    OBVIOUS
  <1> USE DEF AllKept, files
  <1>1. ASSUME UNCHANGED files PROVE AllKept
    BY <1>1 DEF Kept
  <1>2. ASSUME NEW p \in Proc, PublishFromReceipt(p) PROVE AllKept
    <2>1. Receipt(p) \in Record
      BY <1>2, RequestFields DEF PublishFromReceipt, HasReceipt, Receipt, Wanted,
         Base, TypeOK, Callers
    <2>2. Kept(events, events')
      BY <1>2, <2>1, RecordFields DEF PublishFromReceipt, Publishable, Kept, Base, TypeOK
    <2> QED
      BY <1>2, <2>2 DEF PublishFromReceipt, Kept
  <1>3. ASSUME NEW p \in Proc, AdoptPublished(p) PROVE AllKept
    <2>1. KeyOf(Wanted(p)) \in ProductionKey
      BY <1>3, RequestFields DEF AdoptPublished, Base, Callers, Wanted
    <2>2. Kept(receipts, receipts')
      BY <1>3, <2>1 DEF AdoptPublished, HasReceipt, Kept, Base, TypeOK
    <2> QED
      BY <1>3, <2>2 DEF AdoptPublished, Kept
  <1>4. ASSUME NEW p \in Proc, WriteReceipt(p) PROVE AllKept
    <2>1. KeyOf(Wanted(p)) \in ProductionKey /\ receipts[KeyOf(Wanted(p))] = None
      BY <1>4, RequestFields DEF WriteReceipt, Base, Callers, Writing, Wanted, HasReceipt
    <2>2. Kept(receipts, receipts')
      BY <1>4, <2>1 DEF WriteReceipt, Kept, Base, TypeOK
    <2> QED
      BY <1>4, <2>2 DEF WriteReceipt, Kept
  <1>5. ASSUME NEW p \in Proc, PublishEvent(p) PROVE AllKept
    <2>1. IdOf(record[p].event) \in EventId /\ events[IdOf(record[p].event)] = None
      BY <1>5, RequestFields DEF PublishEvent, Base, Callers, Writing, Wanted, Existing
    <2>2. Kept(events, events')
      BY <1>5, <2>1 DEF PublishEvent, Kept, Base, TypeOK
    <2> QED
      BY <1>5, <2>2 DEF PublishEvent, Kept
  <1>6. ASSUME NEW p \in Proc, NEW k \in ProductionKey, ReconcileReceipt(p, k)
        PROVE  AllKept
    <2>1. Kept(events, events')
      BY <1>6 DEF ReconcileReceipt, Publishable, Kept, Base, TypeOK
    <2> QED
      BY <1>6, <2>1 DEF ReconcileReceipt, Kept
  <1>7. ASSUME NEW i \in EventId, NEW receipt \in AckReceipt, AckEvent(i, receipt)
        PROVE  AllKept
    BY <1>7 DEF AckEvent, Kept, Base, TypeOK
  <1>8. ASSUME NEW i \in EventId, NEW reason \in Reason, QuarantineEvent(i, reason)
        PROVE  AllKept
    BY <1>8 DEF QuarantineEvent, Kept, Base, TypeOK
  <1>9. ASSUME NEW p \in Proc, ReserveSequence(p) PROVE AllKept
    BY <1>9 DEF ReserveSequence, Kept
  <1>10. ASSUME NEW p \in Proc, EnqueueStep(p) PROVE AllKept
    BY <1>10, <1>1, <1>2, <1>3, <1>4, <1>5, <1>9 DEF EnqueueStep, RejectKeyCollision,
       RejectReceiptConflict, RejectEventCollision, RejectExhausted
  <1>11. ASSUME NEW p \in Proc, ReconcileStep(p) PROVE AllKept
    BY <1>11, <1>1, <1>6 DEF ReconcileStep, ReconcileList, ReconcileConflict,
       ReconcileTimesOut, ReconcileFinish
  <1>12. ASSUME NEW p \in Proc,
                \/ \E e \in Event, keyed \in KeyChoices : BeginEnqueue(p, e, keyed)
                \/ ReconcileScan(p) \/ Return(p) \/ WriteFails(p) \/ Crash(p)
         PROVE  AllKept
    BY <1>12, <1>1 DEF BeginEnqueue, ReconcileScan, Return, WriteFails, Crash
  <1>13. CASE TakeOver \/ UNCHANGED vars
    BY <1>13, <1>1 DEF TakeOver, vars
  <1> QED
    BY <1>7, <1>8, <1>10, <1>11, <1>12, <1>13 DEF Next, ProducerNext, ReviewNext

\* No operation of any caller, and no failure, rewrites or removes an event, a
\* receipt, an acknowledgement or a quarantine marker.
THEOREM FilesNeverRewritten == Spec => FilesImmutable
  <1>1. Base /\ [Next]_vars =>
          [/\ Kept(receipts, receipts') /\ Kept(events, events')
           /\ Kept(acks, acks') /\ Kept(quarantine, quarantine')]_vars
    BY AllKeptStep DEF AllKept
  <1> QED
    BY <1>1, BaseInvariant, PTL DEF Spec, FilesImmutable

-----------------------------------------------------------------------------
(* Acknowledgements and reconciliation: both rest on files being kept. *)

LEMMA AcksStep ==
    Base /\ AcksMatchEvents /\ [Next]_vars => AcksMatchEvents'
  <1> SUFFICES ASSUME Base, AcksMatchEvents, [Next]_vars PROVE AcksMatchEvents'
    OBVIOUS
  <1> USE DEF files
  <1>1. Kept(events, events') /\ DOMAIN events = EventId
    BY AllKeptStep DEF AllKept, Base, TypeOK
  <1>2. ASSUME acks' = acks PROVE AcksMatchEvents'
    BY <1>1, <1>2 DEF AcksMatchEvents, Kept
  <1>3. ASSUME NEW i \in EventId, NEW receipt \in AckReceipt, AckEvent(i, receipt)
        PROVE  AcksMatchEvents'
    BY <1>3 DEF AckEvent, AcksMatchEvents, Base, TypeOK
  <1>4. ASSUME NEW p \in Proc, EnqueueStep(p) \/ ReconcileStep(p) PROVE acks' = acks
    BY <1>4 DEF EnqueueStep, ReconcileStep, RejectKeyCollision, PublishFromReceipt,
       RejectReceiptConflict, RejectEventCollision, AdoptPublished, RejectExhausted,
       ReserveSequence, WriteReceipt, PublishEvent, ReconcileList, ReconcileReceipt,
       ReconcileConflict, ReconcileTimesOut, ReconcileFinish
  <1>5. ASSUME NEW p \in Proc,
               \/ \E e \in Event, keyed \in KeyChoices : BeginEnqueue(p, e, keyed)
               \/ ReconcileScan(p) \/ Return(p) \/ WriteFails(p) \/ Crash(p)
        PROVE  acks' = acks
    BY <1>5 DEF BeginEnqueue, ReconcileScan, Return, WriteFails, Crash
  <1>6. ASSUME NEW i \in EventId, NEW reason \in Reason, QuarantineEvent(i, reason)
        PROVE  acks' = acks
    BY <1>6 DEF QuarantineEvent
  <1>7. CASE TakeOver \/ UNCHANGED vars
    BY <1>7, <1>2 DEF TakeOver, vars
  <1> QED
    BY <1>2, <1>3, <1>4, <1>5, <1>6, <1>7 DEF Next, ProducerNext, ReviewNext

\* An acknowledgement names the sequence of the event it stands beside, for ever:
\* no crash, retry or repair leaves one that a scan would refuse.
THEOREM AcknowledgementsMatch == Spec => []AcksMatchEvents
  <1>1. Init => AcksMatchEvents
    BY DEF Init, AcksMatchEvents
  <1> QED
    BY <1>1, AcksStep, BaseInvariant, PTL DEF Spec

LEMMA ListingStep == Base /\ Listing /\ [Next]_vars => Listing'
  <1> SUFFICES ASSUME Base, Listing, [Next]_vars PROVE Listing'
    OBVIOUS
  <1> DEFINE Recovering(p) == step[p] \in {"reconciling", "reconciled"}
  <1> USE DEF files, Goto
  <1>1. /\ Kept(events, events') /\ Kept(receipts, receipts')
        /\ DOMAIN events = EventId /\ DOMAIN receipts = ProductionKey
    BY AllKeptStep DEF AllKept, Base, TypeOK
  <1>2. \A k \in ProductionKey : receipts[k] # None =>
            receipts[k] \in Record /\ IdOf(receipts[k].event) \in EventId
    BY RecordFields DEF Base, TypeOK
  <1>3. ASSUME NEW p \in Proc, Recovering(p), Recovering(p)',
               step'[p] = step[p] \/ recovery[p].todo = {},
               recovery'[p] = recovery[p]
        PROVE  /\ recovery'[p].listed \subseteq Receipted'
               /\ \A k \in recovery'[p].listed \ recovery'[p].todo :
                     events'[IdOf(receipts'[k].event)] = receipts'[k]
               /\ step'[p] = "reconciled" => recovery'[p].todo = {}
    BY <1>1, <1>2, <1>3 DEF Listing, Kept, Receipted
  <1>4. ASSUME \A p \in Proc : Recovering(p)' =>
                  Recovering(p) /\ recovery'[p] = recovery[p]
                  /\ (step'[p] = step[p] \/ recovery[p].todo = {})
        PROVE  Listing'
    BY <1>3, <1>4 DEF Listing
  <1>5. ASSUME NEW p \in Proc, NEW s \in Step \ {"reconciling", "reconciled"}, Goto(p, s),
               recovery' = [recovery EXCEPT ![p] = recovery'[p]]
        PROVE  Listing'
    BY <1>4, <1>5 DEF Base, TypeOK, Step
  <1>6. ASSUME NEW p \in Proc, EnqueueStep(p) PROVE Listing'
    <2>1. recovery' = recovery /\ \E s \in Step \ {"reconciling", "reconciled"} : Goto(p, s)
      BY <1>6 DEF EnqueueStep, RejectKeyCollision, PublishFromReceipt,
         RejectReceiptConflict, RejectEventCollision, AdoptPublished, RejectExhausted,
         ReserveSequence, WriteReceipt, PublishEvent, Step
    <2> QED
      BY <2>1, <1>5 DEF Base, TypeOK
  <1>7. ASSUME NEW p \in Proc, ReconcileList(p) PROVE Listing'
    <2>1. /\ step'[p] = "reconciling" /\ receipts' = receipts
          /\ recovery'[p].listed = Receipted /\ recovery'[p].todo = Receipted
      BY <1>7 DEF ReconcileList, Base, TypeOK
    <2>2. \A q \in Proc \ {p} : step'[q] = step[q] /\ recovery'[q] = recovery[q]
      BY <1>7 DEF ReconcileList, Base, TypeOK
    <2>3. \A q \in Proc \ {p} : Recovering(q)' =>
            /\ recovery'[q].listed \subseteq Receipted'
            /\ \A j \in recovery'[q].listed \ recovery'[q].todo :
                  events'[IdOf(receipts'[j].event)] = receipts'[j]
            /\ step'[q] = "reconciled" => recovery'[q].todo = {}
      BY <1>3, <2>2
    <2> QED
      BY <2>1, <2>3 DEF Listing, Receipted
  <1>8. ASSUME NEW p \in Proc, NEW k \in ProductionKey, ReconcileReceipt(p, k)
        PROVE  Listing'
    <2>1. receipts' = receipts /\ step' = step
      BY <1>8 DEF ReconcileReceipt
    <2>2. \A q \in Proc : recovery'[q].listed = recovery[q].listed
      BY <1>8 DEF ReconcileReceipt, Base, TypeOK
    <2>3. \A q \in Proc \ {p} : recovery'[q] = recovery[q]
      BY <1>8 DEF ReconcileReceipt, Base, TypeOK
    <2>4. recovery'[p].todo = recovery[p].todo \ {k}
      BY <1>8 DEF ReconcileReceipt, Base, TypeOK
    <2>5. k \in recovery[p].todo => k \in Receipted \/ k \notin recovery[p].listed
      BY <1>8 DEF Listing, ReconcileReceipt
    <2>6. k \in Receipted => events'[IdOf(receipts[k].event)] = receipts[k]
      BY <1>8, <1>2 DEF ReconcileReceipt, Receipted, Base, TypeOK
    <2>7. \A q \in Proc \ {p} : Recovering(q)' =>
            /\ recovery'[q].listed \subseteq Receipted'
            /\ \A j \in recovery'[q].listed \ recovery'[q].todo :
                  events'[IdOf(receipts'[j].event)] = receipts'[j]
            /\ step'[q] = "reconciled" => recovery'[q].todo = {}
      BY <1>3, <2>1, <2>3
    <2>8. Recovering(p) /\ recovery[p].listed \subseteq Receipted /\ step[p] # "reconciled"
      BY <1>8 DEF ReconcileReceipt, Listing
    <2>9. \A j \in recovery'[p].listed \ recovery'[p].todo :
            events'[IdOf(receipts'[j].event)] = receipts'[j]
      BY <1>1, <1>2, <2>1, <2>2, <2>4, <2>6, <2>8 DEF Listing, Kept, Receipted
    <2> QED
      BY <2>1, <2>2, <2>7, <2>8, <2>9 DEF Listing, Receipted
  <1>9. ASSUME NEW p \in Proc, ReconcileStep(p) PROVE Listing'
    <2>1. ASSUME NEW k \in ProductionKey, ReconcileConflict(p, k) PROVE Listing'
      BY <2>1, <1>5 DEF ReconcileConflict, Step, Base, TypeOK
    <2>2. CASE ReconcileTimesOut(p)
      BY <2>2, <1>5 DEF ReconcileTimesOut, Step, Base, TypeOK
    <2>3. CASE ReconcileFinish(p)
      BY <2>3, <1>4 DEF ReconcileFinish, Base, TypeOK
    <2> QED
      BY <1>7, <1>8, <1>9, <2>1, <2>2, <2>3 DEF ReconcileStep
  <1>10. ASSUME NEW p \in Proc,
                \/ \E e \in Event, keyed \in KeyChoices : BeginEnqueue(p, e, keyed)
                \/ ReconcileScan(p) \/ Return(p) \/ WriteFails(p) \/ Crash(p)
         PROVE  Listing'
    <2>1. \E s \in Step \ {"reconciling", "reconciled"} : Goto(p, s)
      BY <1>10 DEF BeginEnqueue, ReconcileScan, Return, WriteFails, Crash, Step
    <2>2. recovery' = [recovery EXCEPT ![p] = recovery'[p]]
      BY <1>10 DEF BeginEnqueue, ReconcileScan, Return, WriteFails, Crash, Base, TypeOK
    <2> QED
      BY <2>1, <2>2, <1>5
  <1>11. CASE TakeOver \/ ReviewNext \/ UNCHANGED vars
    BY <1>11, <1>4 DEF TakeOver, ReviewNext, AckEvent, QuarantineEvent, callers, vars
  <1> QED
    BY <1>6, <1>9, <1>10, <1>11 DEF Next, ProducerNext

\* A reconciliation that reports success has repaired every receipt it listed.
THEOREM ReconciliationHeals == Spec => []ReconcileHeals
  <1>1. Init => Listing
    BY DEF Init, Listing
  <1>2. Listing => ReconcileHeals
    BY DEF Listing, ReconcileHeals
  <1> QED
    BY <1>1, <1>2, ListingStep, BaseInvariant, PTL DEF Spec

-----------------------------------------------------------------------------
(* What a finished enqueue leaves on disk *)

\* The only steps that write the counter, a receipt or an event.
LEMMA Writers ==
    ASSUME [Next]_vars
    PROVE  \/ UNCHANGED <<nextSequence, receipts, events>>
           \/ \E p \in Proc :
                \/ PublishFromReceipt(p) \/ AdoptPublished(p) \/ ReserveSequence(p)
                \/ WriteReceipt(p) \/ PublishEvent(p)
                \/ \E k \in ProductionKey : ReconcileReceipt(p, k)
  <1> DEFINE Idle == UNCHANGED <<nextSequence, receipts, events>>
  <1> USE DEF files
  <1>1. ASSUME NEW p \in Proc,
               \/ \E e \in Event, keyed \in KeyChoices : BeginEnqueue(p, e, keyed)
               \/ ReconcileScan(p) \/ Return(p) \/ WriteFails(p) \/ Crash(p)
        PROVE  Idle
    BY <1>1 DEF BeginEnqueue, ReconcileScan, Return, WriteFails, Crash
  <1>2. ASSUME NEW p \in Proc,
               \/ RejectKeyCollision(p) \/ RejectReceiptConflict(p)
               \/ RejectEventCollision(p) \/ RejectExhausted(p)
        PROVE  Idle
    BY <1>2 DEF RejectKeyCollision, RejectReceiptConflict, RejectEventCollision,
       RejectExhausted
  <1>3. ASSUME NEW p \in Proc,
               \/ ReconcileList(p) \/ ReconcileTimesOut(p) \/ ReconcileFinish(p)
               \/ \E k \in ProductionKey : ReconcileConflict(p, k)
        PROVE  Idle
    BY <1>3 DEF ReconcileList, ReconcileTimesOut, ReconcileFinish, ReconcileConflict
  <1>4. CASE TakeOver \/ ReviewNext \/ UNCHANGED vars
    BY <1>4 DEF TakeOver, ReviewNext, AckEvent, QuarantineEvent, vars
  <1> QED
    BY <1>1, <1>2, <1>3, <1>4 DEF Next, ProducerNext, EnqueueStep, ReconcileStep

\* EnqueueDurable, for one caller.
Delivered(p) ==
    /\ events[IdOf(record[p].event)] = record[p]
    /\ request[p].keyed => receipts[KeyOf(Wanted(p))] = record[p]

LEMMA StillDelivered ==
    ASSUME Base, [Next]_vars, NEW p \in Proc, step[p] = "done", Delivered(p),
           record'[p] = record[p], request'[p] = request[p]
    PROVE  Delivered(p)'
  <1>1. request[p] \in Request /\ record[p] \in Record
    BY DEF Base, Callers
  <1>2. /\ IdOf(record[p].event) \in EventId /\ KeyOf(Wanted(p)) \in ProductionKey
        /\ record[p] # None
    BY <1>1, RequestFields, RecordFields DEF Wanted
  <1>3. Kept(events, events') /\ Kept(receipts, receipts')
    BY AllKeptStep DEF AllKept
  <1>4. Wanted(p)' = Wanted(p)
    BY DEF Wanted
  <1> QED
    BY <1>2, <1>3, <1>4 DEF Delivered, Kept, Base, TypeOK

\* A caller that becomes "done" has just published, or found what was published.
LEMMA NowDelivered ==
    ASSUME Base, NEW p \in Proc,
           PublishFromReceipt(p) \/ AdoptPublished(p) \/ PublishEvent(p)
    PROVE  Delivered(p)'
  <1>1. request[p] \in Request /\ request' = request
    BY DEF Base, Callers, Writing, PublishFromReceipt, AdoptPublished, PublishEvent
  <1>2. Wanted(p)' = Wanted(p) /\ request[p] # None
        /\ IdOf(Wanted(p)) \in EventId /\ KeyOf(Wanted(p)) \in ProductionKey
    BY <1>1, RequestFields DEF Wanted
  <1> USE DEF Delivered, Base, TypeOK
  <1>3. CASE PublishFromReceipt(p)
    <2>1. Receipt(p) \in Record /\ IdOf(Receipt(p).event) \in EventId
      BY <1>2, <1>3, RecordFields DEF PublishFromReceipt, HasReceipt, Receipt
    <2> QED
      BY <1>1, <1>2, <1>3, <2>1 DEF PublishFromReceipt, Receipt
  <1>4. CASE AdoptPublished(p)
    BY <1>1, <1>2, <1>4 DEF AdoptPublished, Existing
  <1>5. CASE PublishEvent(p)
    <2>1. record[p] \in Record /\ IdOf(record[p].event) \in EventId
      BY <1>5, RecordFields DEF PublishEvent, Callers, Writing
    <2>2. request[p].keyed => Receipt(p) = record[p]
      BY <1>2, <1>5 DEF PublishEvent, Callers
    <2> QED
      BY <1>1, <1>2, <1>5, <2>1, <2>2 DEF PublishEvent, Receipt
  <1> QED
    BY <1>3, <1>4, <1>5

\* Whoever is "done" after a step either was, with the same call, or has just
\* taken one of the three steps that finish an enqueue.
LEMMA Finishing ==
    ASSUME Base, [Next]_vars, NEW p \in Proc, step'[p] = "done"
    PROVE  \/ step[p] = "done" /\ record'[p] = record[p] /\ request'[p] = request[p]
           \/ PublishFromReceipt(p) \/ AdoptPublished(p) \/ PublishEvent(p)
  <1> DEFINE Same(q) == /\ step'[q] = step[q] /\ record'[q] = record[q]
                        /\ request'[q] = request[q]
  <1> USE DEF files, Goto, Base, TypeOK
  <1>1. ASSUME NEW q \in Proc, q # p, EnqueueStep(q) PROVE Same(p)
    BY <1>1 DEF EnqueueStep, RejectKeyCollision, PublishFromReceipt,
       RejectReceiptConflict, RejectEventCollision, AdoptPublished, RejectExhausted,
       ReserveSequence, WriteReceipt, PublishEvent
  <1>2. ASSUME NEW q \in Proc,
               \/ \E e \in Event, keyed \in KeyChoices : BeginEnqueue(q, e, keyed)
               \/ ReconcileScan(q) \/ Return(q) \/ WriteFails(q) \/ Crash(q)
        PROVE  q # p /\ Same(p)
    BY <1>2 DEF BeginEnqueue, ReconcileScan, Return, WriteFails, Crash
  <1>3. ASSUME NEW q \in Proc, ReconcileStep(q) PROVE Same(p)
    BY <1>3 DEF ReconcileStep, ReconcileList, ReconcileReceipt, ReconcileConflict,
       ReconcileTimesOut, ReconcileFinish
  <1>4. CASE TakeOver \/ ReviewNext \/ UNCHANGED vars
    BY <1>4 DEF TakeOver, ReviewNext, AckEvent, QuarantineEvent, callers, vars
  <1>5. CASE EnqueueStep(p)
    BY <1>5 DEF EnqueueStep, RejectKeyCollision, RejectReceiptConflict,
       RejectEventCollision, RejectExhausted, ReserveSequence, WriteReceipt
  <1> QED
    BY <1>1, <1>2, <1>3, <1>4, <1>5 DEF Next, ProducerNext

LEMMA DurableStep == Base /\ EnqueueDurable /\ [Next]_vars => EnqueueDurable'
  BY Finishing, StillDelivered, NowDelivered DEF EnqueueDurable, Delivered

\* What a successful enqueue returned is on disk, under its id and its key, for
\* as long as its caller may look.
THEOREM EnqueueIsDurable == Spec => []EnqueueDurable
  <1>1. Init => EnqueueDurable
    BY DEF Init, EnqueueDurable
  <1> QED
    BY <1>1, DurableStep, BaseInvariant, PTL DEF Spec

-----------------------------------------------------------------------------
(* Keyed production: every enqueue carries its production key, as those of   *)
(* enqueueReviewedMeasurementV1 do.                                          *)

Keyed == KeyChoices = {TRUE}

LEMMA KeyedRequests ==
    ASSUME Keyed, NEW r \in Request
    PROVE  r.keyed
  BY DEF Keyed, Request

\* With receipts behind all events, finding no receipt means finding no event.
LEMMA NothingToAdopt ==
    ASSUME Keyed, Base, PublishedFromReceipts, NEW p \in Proc
    PROVE  ~AdoptPublished(p)
  <1> SUFFICES ASSUME AdoptPublished(p) PROVE FALSE
    OBVIOUS
  <1>1. request[p] \in Request /\ request[p].keyed
    BY KeyedRequests DEF AdoptPublished, Base, Callers
  <1>2. IdOf(Wanted(p)) \in Published
    BY <1>1, RequestFields DEF AdoptPublished, Published, Existing, Wanted
  <1>3. receipts[KeyOf(Wanted(p))] = Existing(p)
    BY <1>2 DEF AdoptPublished, PublishedFromReceipts, Existing
  <1> QED
    BY <1>1, <1>3 DEF AdoptPublished, HasReceipt

\* A step that publishes at most the record of a receipt.
PublishesReceipt(r) ==
    /\ r \in Record /\ receipts[KeyOf(r.event)] = r
    /\ Publishable(r)
    /\ events' = [events EXCEPT ![IdOf(r.event)] = r]
    /\ UNCHANGED <<receipts, nextSequence>>

LEMMA KeyedPublication ==
    ASSUME Keyed, Base, NEW p \in Proc,
           \/ PublishFromReceipt(p) \/ PublishEvent(p)
           \/ \E k \in ProductionKey : ReconcileReceipt(p, k)
    PROVE  \/ \E r \in Record : PublishesReceipt(r)
           \/ UNCHANGED <<nextSequence, receipts, events>>
  <1> USE DEF Base, TypeOK
  <1>1. CASE PublishFromReceipt(p)
    <2>1. KeyOf(Wanted(p)) \in Receipted /\ Receipt(p) \in Record
      BY <1>1, RequestFields DEF PublishFromReceipt, Callers, Wanted, HasReceipt,
         Receipt, Receipted
    <2> QED
      BY <1>1, <2>1 DEF PublishFromReceipt, PublishesReceipt, Naming, Receipt
  <1>2. CASE PublishEvent(p)
    <2>1. request[p] \in Request /\ request[p].keyed
      BY <1>2, KeyedRequests DEF PublishEvent, Callers, Writing
    <2>2. step[p] = "receipted" /\ record[p] \in Record
      BY <1>2, <2>1, RequestFields DEF PublishEvent, Callers, Writing
    <2>3. record[p].event = Wanted(p) /\ Existing(p) = None /\ Receipt(p) = record[p]
      BY <2>2 DEF Callers, Writing
    <2> QED
      BY <1>2, <2>2, <2>3
      DEF PublishEvent, PublishesReceipt, Publishable, Existing, Receipt
  <1>3. ASSUME NEW k \in ProductionKey, ReconcileReceipt(p, k)
        PROVE  \/ PublishesReceipt(receipts[k]) /\ receipts[k] \in Record
               \/ UNCHANGED <<nextSequence, receipts, events>>
    <2>1. CASE receipts[k] = None
      BY <1>3, <2>1 DEF ReconcileReceipt, Publishable
    <2>2. CASE receipts[k] # None
      BY <1>3, <2>2 DEF ReconcileReceipt, PublishesReceipt, Naming, Receipted
    <2> QED
      BY <2>1, <2>2
  <1> QED
    BY <1>1, <1>2, <1>3

LEMMA PublicationKeepsReceipts ==
    ASSUME Base, PublishedFromReceipts, NEW r \in Record, PublishesReceipt(r)
    PROVE  PublishedFromReceipts'
  <1>1. \A i \in Published' : \/ i = IdOf(r.event) /\ events'[i] = r
                              \/ i \in Published /\ events'[i] = events[i]
    BY DEF PublishesReceipt, Published, Base, TypeOK
  <1> QED
    BY <1>1 DEF PublishesReceipt, PublishedFromReceipts

LEMMA ReceiptBeforeEvent ==
    ASSUME Base, PublishedFromReceipts, NEW p \in Proc, WriteReceipt(p)
    PROVE  PublishedFromReceipts'
  <1>1. receipts[KeyOf(Wanted(p))] = None
    BY DEF WriteReceipt, Base, Callers, HasReceipt
  <1>2. \A i \in Published : KeyOf(events[i].event) # KeyOf(Wanted(p))
                             /\ KeyOf(events[i].event) \in ProductionKey
    BY <1>1, RecordFields DEF PublishedFromReceipts, Published, Base, TypeOK
  <1> QED
    BY <1>2 DEF WriteReceipt, PublishedFromReceipts, Published, Base, TypeOK

KeyedInvariant == SequenceInvariant /\ PublishedFromReceipts

LEMMA KeyedStep ==
    ASSUME Keyed
    PROVE  KeyedInvariant /\ [Next]_vars => KeyedInvariant'
  <1> SUFFICES ASSUME KeyedInvariant, [Next]_vars PROVE KeyedInvariant'
    OBVIOUS
  <1> USE DEF KeyedInvariant
  <1>0. Base
    BY DEF SequenceInvariant
  <1>1. ASSUME UNCHANGED <<receipts, events>> PROVE PublishedFromReceipts'
    BY <1>1 DEF PublishedFromReceipts, Published
  <1>2. ASSUME NEW p \in Proc,
               \/ PublishFromReceipt(p) \/ PublishEvent(p)
               \/ \E k \in ProductionKey : ReconcileReceipt(p, k)
        PROVE  PublishedFromReceipts'
    BY <1>0, <1>1, <1>2, KeyedPublication, PublicationKeepsReceipts
  <1>3. ASSUME NEW p \in Proc, ReserveSequence(p) PROVE PublishedFromReceipts'
    BY <1>1, <1>3 DEF ReserveSequence
  <1>4. ASSUME NEW p \in Proc, AdoptPublished(p) PROVE PublishedFromReceipts'
    BY <1>0, <1>4, NothingToAdopt
  <1>5. ASSUME NEW p \in Proc, WriteReceipt(p) PROVE PublishedFromReceipts'
    BY <1>0, <1>5, ReceiptBeforeEvent
  <1>6. PublishedFromReceipts'
    BY <1>1, <1>2, <1>3, <1>4, <1>5, Writers
  <1> QED
    BY <1>6, SequenceStep

LEMMA KeyedAlways ==
    ASSUME Keyed
    PROVE  Spec => []KeyedInvariant
  <1>1. Init => KeyedInvariant
    BY SequenceInit DEF Init, KeyedInvariant, PublishedFromReceipts, Published
  <1>2. KeyedInvariant /\ [Next]_vars => KeyedInvariant'
    BY KeyedStep
  <1> QED
    BY <1>1, <1>2, PTL DEF Spec

\* A keyed measurement is published once, whatever generation of the event key
\* its retries use and wherever its attempts were interrupted.
THEOREM KeyMeasuredOnce ==
    ASSUME Keyed
    PROVE  Spec => []OneMeasurementPerKey
  <1>1. KeyedInvariant => OneMeasurementPerKey
    BY DEF KeyedInvariant, SequenceInvariant, Base, Naming, PublishedFromReceipts,
       OneMeasurementPerKey
  <1> QED
    BY <1>1, KeyedAlways, PTL

\* When a call is projected through one profile, no receipt is ever in conflict
\* with an event: a retry and a reconciliation can always repair it.
THEOREM ReceiptsStayRepairable ==
    ASSUME Keyed, \A a, b \in Profile : a = b
    PROVE  Spec => []ReceiptsRepairable
  <1>1. ASSUME KeyedInvariant, NEW k \in Receipted PROVE Publishable(receipts[k])
    <2> DEFINE r == receipts[k]
    <2> DEFINE i == IdOf(r.event)
    <2>1. r \in Record /\ KeyOf(r.event) = k /\ i \in EventId
      BY <1>1, RecordFields
      DEF KeyedInvariant, SequenceInvariant, Base, TypeOK, Naming, Receipted
    <2>2. CASE i \in Published
      <3>1. events[i] \in Record /\ IdOf(events[i].event) = i
        BY <1>1, <2>1, <2>2
        DEF KeyedInvariant, SequenceInvariant, Base, TypeOK, Naming, Published
      <3>2. events[i].event \in Event /\ r.event \in Event
        BY <2>1, <3>1, RecordFields
      <3>3. events[i].event.call = r.event.call
        BY <3>1 DEF IdOf
      <3>4. KeyOf(events[i].event) = k
        BY <2>1, <3>2, <3>3 DEF KeyOf, Event
      <3>5. events[i] = r
        BY <1>1, <2>2, <3>4 DEF KeyedInvariant, PublishedFromReceipts
      <3> QED
        BY <3>5 DEF Publishable
    <2>3. CASE i \notin Published
      BY <2>1, <2>3 DEF Published, Publishable
    <2> QED
      BY <2>2, <2>3
  <1>2. KeyedInvariant => ReceiptsRepairable
    BY <1>1 DEF ReceiptsRepairable
  <1> QED
    BY <1>2, KeyedAlways, PTL

-----------------------------------------------------------------------------
(* Keyed production implements the measurement log. *)

LEMMA ReserveRefines ==
    ASSUME NEW p \in Proc, ReserveSequence(p)
    PROVE  Log!Reserve
  BY DEF ReserveSequence, Log!Reserve, Published

\* The record committed to a key has a reserved number no receipt has.
LEMMA ReceiptRefines ==
    ASSUME KeyedInvariant, NEW p \in Proc, WriteReceipt(p)
    PROVE  \E k \in ProductionKey, r \in Record : Log!Commit(k, r)
  <1> DEFINE r == record[p]
  <1> DEFINE k == KeyOf(Wanted(p))
  <1> USE DEF KeyedInvariant, SequenceInvariant
  <1>1. request[p] \in Request /\ r \in Record /\ r.event = Wanted(p) /\ ~HasReceipt(p)
    BY DEF Base, Callers, Writing, WriteReceipt
  <1>2. k \in ProductionKey /\ receipts[k] = None /\ Log!KeyOfRecord(r) = k
    BY <1>1, RequestFields
    DEF WriteReceipt, HasReceipt, Wanted, Log!KeyOfRecord, KeyOf
  <1>3. r.sequence < nextSequence
    BY DEF NoSequenceReuse, InFlight, Writing, WriteReceipt
  <1>4. \A j \in ProductionKey : receipts[j] # None => receipts[j].sequence # r.sequence
    BY DEF Fresh, Durable, Receipted, WriteReceipt
  <1>5. UNCHANGED <<events, nextSequence>> /\ receipts' = [receipts EXCEPT ![k] = r]
    BY DEF WriteReceipt
  <1>6. Log!Commit(k, r)
    BY <1>2, <1>3, <1>4, <1>5 DEF Log!Commit, Published
  <1> QED
    BY <1>1, <1>2, <1>6

LEMMA PublicationRefines ==
    ASSUME Base, NEW r \in Record, PublishesReceipt(r)
    PROVE  \E k \in ProductionKey : Log!Publish(k)
  <1> DEFINE k == KeyOf(r.event)
  <1> DEFINE i == IdOf(r.event)
  <1>1. k \in ProductionKey /\ receipts[k] = r /\ r # None /\ i \in EventId
        /\ events[i] \in {None, r}
    BY RecordFields DEF PublishesReceipt, Publishable
  <1>2. Published' = Published \cup {i} /\ events'[i] = r
        /\ \A j \in Published : events'[j] = events[j]
    BY <1>1 DEF PublishesReceipt, Published, Base, TypeOK
  <1>3. {events[j] : j \in Published}' = {events[j] : j \in Published} \cup {r}
    BY <1>2
  <1> QED
    BY <1>1, <1>3 DEF Log!Publish, PublishesReceipt

LEMMA LogStep ==
    ASSUME Keyed
    PROVE  KeyedInvariant /\ [Next]_vars => [Log!Next]_(Log!log)
  <1> SUFFICES ASSUME KeyedInvariant, [Next]_vars PROVE [Log!Next]_(Log!log)
    OBVIOUS
  <1>0. Base /\ PublishedFromReceipts
    BY DEF KeyedInvariant, SequenceInvariant
  <1>1. ASSUME UNCHANGED <<nextSequence, receipts, events>> PROVE UNCHANGED Log!log
    BY <1>1 DEF Log!log, Published
  <1>2. ASSUME NEW p \in Proc,
               \/ PublishFromReceipt(p) \/ PublishEvent(p)
               \/ \E k \in ProductionKey : ReconcileReceipt(p, k)
        PROVE  \/ \E k \in ProductionKey : Log!Publish(k)
               \/ UNCHANGED Log!log
    BY <1>0, <1>1, <1>2, KeyedPublication, PublicationRefines
  <1>3. ASSUME NEW p \in Proc, ReserveSequence(p) PROVE Log!Next
    BY <1>3, ReserveRefines DEF Log!Next
  <1>4. ASSUME NEW p \in Proc, WriteReceipt(p) PROVE Log!Next
    BY <1>4, ReceiptRefines DEF Log!Next
  <1> QED
    BY <1>0, <1>1, <1>2, <1>3, <1>4, Writers, NothingToAdopt DEF Log!Next

\* Keyed production, with any number of callers, crashes and reconciliations, is
\* an append-only log that commits each production key once.
THEOREM ProductionImplementsLog ==
    ASSUME Keyed
    PROVE  Spec => LogSpec
  <1>1. Init => Log!Init
    BY DEF Init, Log!Init, Published
  <1>2. KeyedInvariant /\ [Next]_vars => [Log!Next]_(Log!log)
    BY LogStep
  <1> QED
    BY <1>1, <1>2, KeyedAlways, PTL DEF Spec, LogSpec, Log!Spec
=============================================================================
