------------------------ MODULE EvidenceChainProofs ------------------------
(***************************************************************************)
(* Theorems about EvidenceChain, for any number of signers, producers,     *)
(* calls, receipts and crashes.  The outbox's own invariants carry over:   *)
(* every step of the chain is one of Outbox or leaves the outbox alone.    *)
(***************************************************************************)
EXTENDS EvidenceChain, OutboxProofs, WellFoundedInduction

-----------------------------------------------------------------------------
(* First and last records, and the head of a chain *)

LEMMA LeastNumber ==
    ASSUME NEW S, S \subseteq Nat, S # {}
    PROVE  \E m \in S : \A n \in S : m <= n
  <1>1. PICK m \in S : \A n \in S : <<n, m>> \notin OpToRel(<, Nat)
    BY NatLessThanWellFounded, WFMin, Zenon
  <1>2. \A n \in S : ~(n < m)
    BY <1>1, Zenon DEF OpToRel
  <1> QED
    BY <1>2

LEMMA GreatestNumber ==
    ASSUME NEW max \in Nat, NEW S, S \subseteq 0 .. max, S # {}
    PROVE  \E m \in S : \A n \in S : n <= m
  <1> DEFINE Rest == {max - n : n \in S}
  <1>1. PICK m \in Rest : \A n \in Rest : m <= n
    <2>1. \A n \in S : max - n \in Nat
      OBVIOUS
    <2>2. Rest \subseteq Nat /\ Rest # {}
      BY <2>1
    <2> HIDE DEF Rest
    <2> QED
      BY <2>2, LeastNumber
  <1>2. PICK k \in S : m = max - k
    OBVIOUS
  <1>3. \A n \in S : max - k <= max - n
    BY <1>1, <1>2
  <1> QED
    BY <1>3

LEMMA FirstAndLast ==
    ASSUME NEW rs, rs \subseteq Record, rs # {}
    PROVE  /\ FirstOf(rs) \in rs /\ \A r \in rs : FirstOf(rs).sequence <= r.sequence
           /\ LastOf(rs) \in rs /\ \A r \in rs : r.sequence <= LastOf(rs).sequence
  <1> DEFINE S == {r.sequence : r \in rs}
  <1>1. S \subseteq 1 .. MaxSequence /\ S # {}
    BY RecordFields
  <1>2. \A r \in rs : r.sequence \in S
    OBVIOUS
  <1>3. S \subseteq Nat /\ S \subseteq 0 .. MaxSequence
    BY <1>1, ConstantsAssumption
  <1>4. /\ \E m \in S : \A n \in S : m <= n
        /\ \E m \in S : \A n \in S : n <= m
    <2> HIDE DEF S
    <2> QED
      BY <1>1, <1>3, LeastNumber, GreatestNumber, ConstantsAssumption
  <1>5. \E r \in rs : \A q \in rs : r.sequence <= q.sequence
    BY <1>2, <1>4
  <1>6. \E r \in rs : \A q \in rs : q.sequence <= r.sequence
    BY <1>2, <1>4
  <1> QED
    BY <1>5, <1>6 DEF FirstOf, LastOf

\* The files of the store: batches of one record or more, all of them Batch.
Proper(bs) == bs \subseteq Batch /\ \A b \in bs : b.records # {}

LEMMA BatchRange ==
    ASSUME NEW bs, Proper(bs), NEW b \in bs
    PROVE  /\ b.records \subseteq Record
           /\ FirstSequence(b) \in 1 .. MaxSequence
           /\ LastSequence(b) \in 1 .. MaxSequence
           /\ FirstSequence(b) <= LastSequence(b)
           /\ \A r \in b.records : FirstSequence(b) <= r.sequence
                                   /\ r.sequence <= LastSequence(b)
  <1>1. b.records \subseteq Record /\ b.records # {}
    BY DEF Proper, Batch
  <1> QED
    BY <1>1, FirstAndLast, RecordFields, ConstantsAssumption DEF FirstSequence, LastSequence

LEMMA HeadIsLast ==
    ASSUME NEW bs, Proper(bs), bs # {}
    PROVE  Head(bs) \in bs /\ \A b \in bs : FirstSequence(b) <= FirstSequence(Head(bs))
  <1> DEFINE S == {FirstSequence(b) : b \in bs}
  <1>1. S \subseteq 0 .. MaxSequence /\ S # {}
    BY BatchRange, ConstantsAssumption
  <1>2. \A b \in bs : FirstSequence(b) \in S
    OBVIOUS
  <1>3. \E m \in S : \A n \in S : n <= m
    <2> HIDE DEF S
    <2> QED
      BY <1>1, GreatestNumber, ConstantsAssumption
  <1>4. \E b \in bs : \A c \in bs : FirstSequence(c) <= FirstSequence(b)
    BY <1>2, <1>3
  <1> QED
    BY <1>4 DEF Head

\* In a chain that verifies, nothing is signed beyond the head.
LEMMA SignedThroughHead ==
    ASSUME NEW bs, Proper(bs), Verifies(bs)
    PROVE  /\ SignedThrough(bs) \in Nat
           /\ \A b \in bs : LastSequence(b) <= SignedThrough(bs)
  <1>1. CASE bs = {}
    BY <1>1 DEF SignedThrough
  <1>2. CASE bs # {}
    <2>1. Head(bs) \in bs /\ \A b \in bs : FirstSequence(b) <= FirstSequence(Head(bs))
      BY <1>2, HeadIsLast
    <2>2. SignedThrough(bs) = LastSequence(Head(bs))
      BY <1>2 DEF SignedThrough
    <2>3. SignedThrough(bs) \in Nat
      BY <2>1, <2>2, BatchRange, ConstantsAssumption
    <2>4. ASSUME NEW b \in bs PROVE LastSequence(b) <= SignedThrough(bs)
      <3>1. b = Head(bs) \/ Precedes(b, Head(bs)) \/ Precedes(Head(bs), b)
        BY <2>1 DEF Verifies
      <3>2. FirstSequence(b) <= FirstSequence(Head(bs))
        BY <2>1
      <3>3. /\ LastSequence(b) \in Nat /\ FirstSequence(b) \in Nat
            /\ FirstSequence(Head(bs)) <= LastSequence(Head(bs))
            /\ FirstSequence(Head(bs)) \in Nat /\ LastSequence(Head(bs)) \in Nat
        BY <2>1, BatchRange, ConstantsAssumption
      <3> QED
        BY <2>2, <3>1, <3>2, <3>3 DEF Precedes
    <2> QED
      BY <2>3, <2>4
  <1> QED
    BY <1>1, <1>2

\* A batch of records beyond the head, linked to the head, extends the chain.
LEMMA Extension ==
    ASSUME NEW bs, Proper(bs), Verifies(bs),
           NEW new \in Batch, new.records # {},
           \A r \in new.records : r.sequence > SignedThrough(bs),
           new.previous = HeadLink(bs)
    PROVE  /\ Proper(bs \cup {new}) /\ Verifies(bs \cup {new})
           /\ FirstSequence(new) > SignedThrough(bs)
  <1> DEFINE all == bs \cup {new}
  <1>1. Proper(all)
    BY DEF Proper
  <1>2. FirstSequence(new) \in Nat /\ FirstSequence(new) > SignedThrough(bs)
    <2>1. FirstOf(new.records) \in new.records
      BY FirstAndLast DEF Batch
    <2> QED
      BY <2>1, <1>1, BatchRange, ConstantsAssumption DEF FirstSequence
  <1>3. \A b \in bs : /\ LastSequence(b) \in Nat /\ FirstSequence(b) \in Nat
                      /\ FirstSequence(b) <= LastSequence(b)
                      /\ LastSequence(b) < FirstSequence(new)
    BY <1>2, SignedThroughHead, BatchRange, ConstantsAssumption
  <1>4. \A b \in bs : Precedes(b, new) /\ Before(b, all) = Before(b, bs)
    BY <1>2, <1>3 DEF Precedes, Before
  <1>5. Before(new, all) = bs
    BY <1>2, <1>3 DEF Before
  <1>6. Verifies(all)
    BY <1>4, <1>5 DEF Verifies
  <1> QED
    BY <1>1, <1>2, <1>6

-----------------------------------------------------------------------------
(* The inductive invariant *)

PublishedRecords == {events[i] : i \in Published}

\* Whatever a signer has scanned and whatever is signed is published; and who is
\* about to sign holds the lease and knows the whole chain.
Holding(s) == at[s] \in {"listed", "clear", "signing"}
StoreInvariant ==
    /\ ChainTypeOK
    /\ Proper(batches) /\ Verifies(batches)
    /\ SignedRecords \subseteq PublishedRecords
    /\ \A s \in Signer :
          /\ scanned[s] \subseteq PublishedRecords
          /\ Holding(s) => batchLease = s /\ chain[s] = batches

\* An acknowledgement of a batch has come as far as the records it has left.
AckedAs(r, receipt) == acks[IdOf(r.event)] = [sequence |-> r.sequence, receipt |-> receipt]
Acking ==
    \A s \in Signer : at[s] = "acking" =>
        /\ ack[s] \in BatchAck /\ ack[s].batch \in batches
        /\ scanned[s] \subseteq ack[s].batch.records
        /\ \A r \in ack[s].batch.records \ scanned[s] : AckedAs(r, ack[s].receipt)

ChainInvariant == Base /\ AcksMatchEvents /\ StoreInvariant /\ Acking /\ BatchAckComplete

LEMMA ChainInvariantInit == ChainInit => ChainInvariant
  <1> SUFFICES ASSUME ChainInit PROVE ChainInvariant
    OBVIOUS
  <1> USE DEF ChainInit, StoreInit
  <1>1. Base /\ AcksMatchEvents
    BY BaseInit DEF Init, AcksMatchEvents
  <1>2. StoreInvariant
    BY DEF StoreInvariant, ChainTypeOK, At, Proper, Verifies, SignedRecords, Holding
  <1>3. Acking /\ BatchAckComplete
    BY DEF Acking, BatchAckComplete
  <1> QED
    BY <1>1, <1>2, <1>3 DEF ChainInvariant

LEMMA PublishedAreRecords ==
    ASSUME Base
    PROVE  /\ PublishedRecords \subseteq Record
           /\ \A r \in PublishedRecords :
                 IdOf(r.event) \in EventId /\ events[IdOf(r.event)] = r
  BY RecordFields DEF Base, TypeOK, Naming, PublishedRecords, Published

LEMMA PublishedKept ==
    ASSUME Base, AllKept
    PROVE  PublishedRecords \subseteq PublishedRecords'
  BY DEF Base, TypeOK, AllKept, Kept, PublishedRecords, Published

\* The next event of an acknowledgement is a published one, with its record.
LEMMA NextToAck ==
    ASSUME Base, StoreInvariant, Acking, NEW s \in Signer, at[s] = "acking", scanned[s] # {}
    PROVE  /\ FirstOf(scanned[s]) \in scanned[s]
           /\ NextEvent(s) \in EventId
           /\ events[NextEvent(s)] = FirstOf(scanned[s])
           /\ ack[s].receipt \in AckReceipt
  <1>1. scanned[s] \subseteq PublishedRecords /\ ack[s] \in BatchAck
    BY DEF StoreInvariant, Acking
  <1>2. FirstOf(scanned[s]) \in scanned[s]
    BY <1>1, PublishedAreRecords, FirstAndLast
  <1> QED
    BY <1>1, <1>2, PublishedAreRecords DEF NextEvent, BatchAck

\* Every step is one of the outbox, or leaves it alone.
LEMMA OutboxMoves ==
    ASSUME ChainInvariant, [ChainNext]_chainVars
    PROVE  [Next]_vars
  <1> USE DEF ChainInvariant
  <1>1. CASE OutboxNext
    BY <1>1 DEF OutboxNext, Next, ReviewNext
  <1>2. ASSUME NEW s \in Signer, AckNextEvent(s) PROVE [Next]_vars
    BY <1>2, NextToAck DEF AckNextEvent, Next, ReviewNext
  <1>3. ASSUME NEW s \in Signer, SignerStep(s) PROVE [Next]_vars
    BY <1>3, <1>2 DEF SignerStep, AcquireAndList, ScanQuarantine, ScanEvents, SignBatch,
       ExportInspect, Export, AckConflict, AckBatch, SignerReturns, LeaveStore, SignerTimesOut
  <1>4. CASE SignerNext
    BY <1>4, <1>3 DEF SignerNext, BeginSign, ExportScan, BeginAck, SignerWriteFails,
       SignerCrash, LeaveStore, TakeOverBatches
  <1>5. CASE UNCHANGED chainVars
    BY <1>5 DEF chainVars
  <1> QED
    BY <1>1, <1>4, <1>5 DEF ChainNext

\* What a signer is about to sign: published records beyond the head.
LEMMA SignsBeyondHead ==
    ASSUME Base, StoreInvariant, NEW s \in Signer, at[s] = "signing"
    PROVE  /\ NewRecords(s) \subseteq PublishedRecords
           /\ \A r \in NewRecords(s) : r.sequence > SignedThrough(batches)
  BY DEF StoreInvariant, Holding, NewRecords, Earliest, Beyond

LEMMA SignBatchStore ==
    ASSUME Base, StoreInvariant, NEW s \in Signer, SignBatch(s), NewRecords(s) # {}
    PROVE  \E new \in Batch :
              /\ batches' = batches \cup {new}
              /\ new.records = NewRecords(s)
              /\ new.previous = HeadLink(batches)
              /\ Proper(batches') /\ Verifies(batches')
              /\ FirstSequence(new) > SignedThrough(batches)
  <1> DEFINE new == [records |-> NewRecords(s), previous |-> HeadLink(chain[s]), signer |-> s]
  <1>1. at[s] = "signing" /\ chain[s] = batches /\ batches' = batches \cup {new}
    BY DEF SignBatch, StoreInvariant, Holding
  <1>2. NewRecords(s) \subseteq Record
    BY <1>1, SignsBeyondHead, PublishedAreRecords
  <1>3. HeadLink(batches) \in Link
    <2>1. CASE batches = {}
      BY <2>1 DEF HeadLink, Link
    <2>2. CASE batches # {}
      <3>1. Head(batches) \in Batch
        BY <2>2, HeadIsLast DEF StoreInvariant, Proper
      <3> QED
        BY <2>2, <3>1 DEF HeadLink, Link, Digest, Batch
    <2> QED
      BY <2>1, <2>2
  <1>4. new \in Batch
    BY <1>1, <1>2, <1>3 DEF Batch
  <1>5. \A r \in new.records : r.sequence > SignedThrough(batches)
    BY <1>1, SignsBeyondHead
  <1>6. /\ Proper(batches \cup {new}) /\ Verifies(batches \cup {new})
        /\ FirstSequence(new) > SignedThrough(batches)
    <2>1. new.records # {} /\ new.previous = HeadLink(batches)
      BY <1>1
    <2> HIDE DEF new
    <2> QED
      BY <1>4, <1>5, <2>1, Extension DEF StoreInvariant
  <1> QED
    BY <1>1, <1>4, <1>6

LEMMA StoreStep ==
    ASSUME ChainInvariant, [ChainNext]_chainVars,
           PublishedRecords \subseteq PublishedRecords'
    PROVE  StoreInvariant'
  <1> USE SignerAssumption DEF ChainInvariant, StoreInvariant, Holding
  <1>0. Pending \subseteq PublishedRecords
    BY DEF Pending, PublishedRecords
  <1>t. Pending \subseteq Record
    BY <1>0, PublishedAreRecords
  <1>1. ASSUME UNCHANGED <<store, signers>> PROVE StoreInvariant'
    BY <1>1 DEF store, signers, ChainTypeOK, SignedRecords
  <1>2. ASSUME NEW s \in Signer, BeginSign(s) PROVE StoreInvariant'
    BY <1>2 DEF BeginSign, store, Move, ChainTypeOK, At, SignedRecords
  <1>3. ASSUME NEW s \in Signer, AcquireAndList(s) PROVE StoreInvariant'
    BY <1>3 DEF AcquireAndList, Move, ChainTypeOK, At, SignedRecords
  <1>4. ASSUME NEW s \in Signer, ScanQuarantine(s) PROVE StoreInvariant'
    BY <1>4 DEF ScanQuarantine, store, Move, ChainTypeOK, At, SignedRecords
  <1>5. ASSUME NEW s \in Signer, ScanEvents(s) PROVE StoreInvariant'
    BY <1>5, <1>0, <1>t DEF ScanEvents, store, Move, ChainTypeOK, At, SignedRecords
  <1>6. ASSUME NEW s \in Signer, SignBatch(s) PROVE StoreInvariant'
    <2>1. CASE NewRecords(s) = {}
      BY <1>6, <2>1 DEF SignBatch, Move, ChainTypeOK, At, SignedRecords
    <2>2. CASE NewRecords(s) # {}
      <3>1. PICK new \in Batch : /\ batches' = batches \cup {new}
                                 /\ new.records = NewRecords(s)
                                 /\ Proper(batches') /\ Verifies(batches')
        BY <1>6, <2>2, SignBatchStore
      <3>2. ChainTypeOK'
        BY <1>6, <3>1 DEF SignBatch, Move, ChainTypeOK, At
      <3>3. SignedRecords' \subseteq PublishedRecords'
        BY <1>6, <3>1, SignsBeyondHead DEF SignBatch, SignedRecords
      <3>4. \A t \in Signer : /\ scanned'[t] \subseteq PublishedRecords'
                              /\ ~Holding(t)'
        BY <1>6 DEF SignBatch, Move, ChainTypeOK
      <3> QED
        BY <3>1, <3>2, <3>3, <3>4
    <2> QED
      BY <2>1, <2>2
  <1>7. ASSUME NEW s \in Signer, ExportScan(s) PROVE StoreInvariant'
    BY <1>7, <1>0, <1>t DEF ExportScan, store, Move, ChainTypeOK, At, SignedRecords
  <1>8. ASSUME NEW s \in Signer, ExportInspect(s) PROVE StoreInvariant'
    BY <1>8 DEF ExportInspect, store, Move, ChainTypeOK, At, SignedRecords
  <1>9. ASSUME NEW s \in Signer, Export(s) PROVE StoreInvariant'
    BY <1>9 DEF Export, store, Move, ChainTypeOK, At, SignedRecords
  <1>10. ASSUME NEW s \in Signer, NEW b \in batches, NEW receipt \in AckReceipt,
                BeginAck(s, b, receipt)
         PROVE  StoreInvariant'
    BY <1>10 DEF BeginAck, store, Move, ChainTypeOK, At, SignedRecords, Batch, BatchAck
  <1>11. ASSUME NEW s \in Signer, AckNextEvent(s) PROVE StoreInvariant'
    BY <1>11 DEF AckNextEvent, store, ChainTypeOK, SignedRecords
  <1>12. ASSUME NEW s \in Signer, AckConflict(s) PROVE StoreInvariant'
    BY <1>12 DEF AckConflict, store, Move, ChainTypeOK, At, SignedRecords
  <1>13. ASSUME NEW s \in Signer, AckBatch(s) PROVE StoreInvariant'
    BY <1>13 DEF AckBatch, Acking, Move, ChainTypeOK, At, SignedRecords
  <1>14. ASSUME NEW s \in Signer, NEW released \in {Free, Orphan}, LeaveStore(s, released)
         PROVE  StoreInvariant'
    BY <1>14 DEF LeaveStore, Move, ChainTypeOK, At, SignedRecords
  <1>15. ASSUME NEW s \in Signer, SignerTimesOut(s) \/ SignerWriteFails(s) PROVE StoreInvariant'
    BY <1>15 DEF SignerTimesOut, SignerWriteFails, store, Move, ChainTypeOK, At, SignedRecords
  <1>16. CASE TakeOverBatches
    BY <1>16 DEF TakeOverBatches, signers, ChainTypeOK, SignedRecords
  <1>17. ASSUME NEW s \in Signer, SignerStep(s) PROVE StoreInvariant'
    BY <1>17, <1>3, <1>4, <1>5, <1>6, <1>8, <1>9, <1>11, <1>12, <1>13, <1>14, <1>15
    DEF SignerStep, SignerReturns
  <1> QED
    BY <1>1, <1>2, <1>7, <1>10, <1>14, <1>15, <1>16, <1>17
    DEF ChainNext, SignerNext, OutboxNext, SignerCrash, chainVars

\* Acknowledgements are kept, so what an acknowledgement has done stays done.
LEMMA AckedKept ==
    ASSUME Base, AllKept, NEW r \in Record, NEW receipt \in AckReceipt, AckedAs(r, receipt)
    PROVE  AckedAs(r, receipt)'
  <1>1. acks[IdOf(r.event)] # None
    BY ConstantsAssumption, RecordFields DEF AckedAs, Ack, Record
  <1> QED
    BY <1>1, RecordFields DEF AllKept, Kept, AckedAs, Base, TypeOK

LEMMA AckedBatchesKept ==
    ASSUME ChainInvariant, AllKept, batchAcks' = batchAcks
    PROVE  BatchAckComplete'
  <1> USE DEF ChainInvariant
  <1>1. ASSUME NEW a \in batchAcks PROVE \A r \in a.batch.records : AckedAs(r, a.receipt)'
    BY <1>1, AckedKept DEF BatchAckComplete, AckedAs, StoreInvariant, ChainTypeOK, BatchAck, Batch
  <1> QED
    BY <1>1 DEF BatchAckComplete, AckedAs

\* Most steps end an acknowledgement or leave it where it is.
AckingUndisturbed ==
    /\ batches \subseteq batches' /\ batchAcks' = batchAcks
    /\ \A s \in Signer : at'[s] = "acking" =>
           at[s] = "acking" /\ scanned'[s] = scanned[s] /\ ack'[s] = ack[s]

LEMMA UndisturbedAcking ==
    ASSUME ChainInvariant, AllKept, AckingUndisturbed
    PROVE  Acking' /\ BatchAckComplete'
  <1> USE DEF ChainInvariant, AckingUndisturbed
  <1>1. \A b \in batches : b.records \subseteq Record
    BY DEF StoreInvariant, Proper, Batch
  <1>2. Acking'
    BY <1>1, AckedKept DEF Acking, BatchAck
  <1> QED
    BY <1>2, AckedBatchesKept

LEMMA AckNextEventAcking ==
    ASSUME ChainInvariant, AllKept, NEW s \in Signer, AckNextEvent(s)
    PROVE  Acking' /\ BatchAckComplete'
  <1> USE DEF ChainInvariant
  <1>1. PICK r \in Record : r = FirstOf(scanned[s])
    BY PublishedAreRecords, NextToAck DEF AckNextEvent, StoreInvariant
  <1>2. PICK receipt \in AckReceipt : receipt = ack[s].receipt
    BY NextToAck DEF AckNextEvent
  <1>3. /\ at[s] = "acking" /\ scanned[s] # {} /\ UNCHANGED <<store, at, chain, ack>>
        /\ scanned' = [scanned EXCEPT ![s] = @ \ {r}]
        /\ NextEvent(s) = IdOf(r.event) /\ IdOf(r.event) \in EventId
        /\ events[IdOf(r.event)] = r
    BY <1>1, NextToAck DEF AckNextEvent, NextEvent
  <1>4. AckedAs(r, receipt)'
    <2>1. CASE AckEvent(NextEvent(s), ack[s].receipt)
      <3>1. acks' = [acks EXCEPT ![IdOf(r.event)] =
                       [sequence |-> r.sequence, receipt |-> receipt]]
        BY <1>2, <1>3, <2>1 DEF AckEvent
      <3> QED
        BY <1>3, <3>1 DEF AckedAs, Base, TypeOK
    <2>2. CASE /\ acks[NextEvent(s)] # None /\ UNCHANGED vars
               /\ acks[NextEvent(s)].receipt = ack[s].receipt
      <3>1. /\ acks[IdOf(r.event)] \in Ack
            /\ acks[IdOf(r.event)].sequence = r.sequence
            /\ acks[IdOf(r.event)].receipt = receipt
        BY <1>2, <1>3, <2>2 DEF AcksMatchEvents, Base, TypeOK
      <3>2. acks[IdOf(r.event)] = [sequence |-> r.sequence, receipt |-> receipt]
        BY <3>1 DEF Ack
      <3> QED
        BY <2>2, <3>2 DEF AckedAs, vars, files
    <2> QED
      BY <2>1, <2>2 DEF AckNextEvent
  <1>5. \A b \in batches : b.records \subseteq Record
    BY DEF StoreInvariant, Proper, Batch
  <1>6. Acking'
    <2> SUFFICES ASSUME NEW t \in Signer, at'[t] = "acking"
                 PROVE  /\ ack'[t] \in BatchAck /\ ack'[t].batch \in batches'
                        /\ scanned'[t] \subseteq ack'[t].batch.records
                        /\ \A q \in ack'[t].batch.records \ scanned'[t] :
                              acks'[IdOf(q.event)] =
                                [sequence |-> q.sequence, receipt |-> ack'[t].receipt]
      BY DEF Acking, AckedAs
    <2>1. /\ at[t] = "acking" /\ ack[t] \in BatchAck /\ ack[t].batch \in batches
          /\ scanned[t] \subseteq ack[t].batch.records
          /\ \A q \in ack[t].batch.records \ scanned[t] : AckedAs(q, ack[t].receipt)
      BY <1>3 DEF Acking
    <2>2. ack' = ack /\ batches' = batches
      BY <1>3 DEF store
    <2>3. scanned'[t] = IF t = s THEN scanned[t] \ {r} ELSE scanned[t]
      BY <1>3 DEF StoreInvariant, ChainTypeOK
    <2>4. PICK given \in AckReceipt : given = ack[t].receipt
      BY <2>1 DEF BatchAck
    <2>5. ASSUME NEW q \in ack[t].batch.records, q \notin scanned'[t]
          PROVE  AckedAs(q, given)'
      <3>1. CASE q \notin scanned[t]
        <4>1. q \in Record /\ AckedAs(q, given)
          BY <1>5, <2>1, <2>4, <3>1
        <4> QED
          BY <4>1, AckedKept
      <3>2. CASE t = s /\ q = r
        BY <1>2, <1>4, <2>4, <3>2
      <3> QED
        BY <2>3, <2>5, <3>1, <3>2
    <2> QED
      BY <2>1, <2>2, <2>3, <2>4, <2>5 DEF AckedAs
  <1>7. BatchAckComplete'
    BY <1>3, AckedBatchesKept DEF store
  <1> QED
    BY <1>6, <1>7

LEMMA AckBatchAcking ==
    ASSUME ChainInvariant, AllKept, UNCHANGED vars, NEW s \in Signer, AckBatch(s)
    PROVE  Acking' /\ BatchAckComplete'
  <1> USE DEF ChainInvariant
  <1>1. at[s] = "acking" /\ scanned[s] = {} /\ at'[s] # "acking"
    BY DEF AckBatch, Move, StoreInvariant, ChainTypeOK
  <1>2. /\ UNCHANGED <<batches, scanned, ack, acks>>
        /\ \A t \in Signer : at'[t] = "acking" => at[t] = "acking"
    BY <1>1 DEF AckBatch, Move, StoreInvariant, ChainTypeOK, vars, files
  <1>3. Acking'
    BY <1>2 DEF Acking, AckedAs
  <1>4. CASE UNCHANGED batchAcks
    BY <1>3, <1>4, AckedBatchesKept
  <1>5. CASE /\ batchAcks' = batchAcks \cup {ack[s]}
             /\ \A a \in batchAcks : a.batch # ack[s].batch
    <2>1. \A q \in ack[s].batch.records :
             acks[IdOf(q.event)] = [sequence |-> q.sequence, receipt |-> ack[s].receipt]
      BY <1>1 DEF Acking, AckedAs
    <2> QED
      BY <1>2, <1>3, <1>5, <2>1 DEF BatchAckComplete
  <1> QED
    BY <1>3, <1>4, <1>5 DEF AckBatch

LEMMA BeginAckAcking ==
    ASSUME ChainInvariant, AllKept, NEW s \in Signer, NEW b \in batches,
           NEW receipt \in AckReceipt, BeginAck(s, b, receipt)
    PROVE  Acking' /\ BatchAckComplete'
  <1> USE DEF ChainInvariant
  <1>1. /\ UNCHANGED <<vars, batches, batchAcks>>
        /\ \A t \in Signer : t # s =>
              at'[t] = at[t] /\ scanned'[t] = scanned[t] /\ ack'[t] = ack[t]
        /\ ack'[s] = [batch |-> b, receipt |-> receipt] /\ scanned'[s] = b.records
    BY DEF BeginAck, Move, store, StoreInvariant, ChainTypeOK
  <1>2. b \in Batch
    BY DEF StoreInvariant, Proper
  <1>3. Acking'
    BY <1>1, <1>2 DEF Acking, AckedAs, BatchAck, vars, files
  <1> QED
    BY <1>1, <1>3, AckedBatchesKept

LEMMA AckingStep ==
    ASSUME ChainInvariant, AllKept, [ChainNext]_chainVars
    PROVE  Acking' /\ BatchAckComplete'
  <1>0. ChainTypeOK
    BY DEF ChainInvariant, StoreInvariant
  <1>1. ASSUME UNCHANGED <<store, signers>> PROVE AckingUndisturbed
    BY <1>1 DEF AckingUndisturbed, store, signers
  <1>2. ASSUME NEW s \in Signer,
               \/ BeginSign(s) \/ AcquireAndList(s) \/ ScanQuarantine(s) \/ ScanEvents(s)
               \/ SignBatch(s) \/ ExportScan(s) \/ ExportInspect(s) \/ Export(s)
        PROVE  AckingUndisturbed
    BY <1>0, <1>2 DEF BeginSign, AcquireAndList, ScanQuarantine, ScanEvents, SignBatch,
       ExportScan, ExportInspect, Export, Move, store, ChainTypeOK, AckingUndisturbed
  <1>3. ASSUME NEW s \in Signer, AckConflict(s) \/ SignerTimesOut(s) \/ SignerWriteFails(s)
        PROVE  AckingUndisturbed
    BY <1>0, <1>3 DEF AckConflict, SignerTimesOut, SignerWriteFails, Move, store,
       ChainTypeOK, AckingUndisturbed
  <1>4. ASSUME NEW s \in Signer, SignerReturns(s) \/ SignerCrash(s) PROVE AckingUndisturbed
    BY <1>0, <1>4 DEF SignerReturns, SignerCrash, LeaveStore, Move, ChainTypeOK,
       AckingUndisturbed
  <1>5. ASSUME TakeOverBatches PROVE AckingUndisturbed
    BY <1>5 DEF TakeOverBatches, signers, AckingUndisturbed
  <1>6. ASSUME NEW s \in Signer, AckBatch(s) PROVE Acking' /\ BatchAckComplete'
    BY <1>6, AckBatchAcking DEF AckBatch
  <1>7. ASSUME AckingUndisturbed PROVE Acking' /\ BatchAckComplete'
    BY <1>7, UndisturbedAcking
  <1>8. ASSUME NEW s \in Signer, SignerStep(s) PROVE Acking' /\ BatchAckComplete'
    BY <1>2, <1>3, <1>4, <1>6, <1>7, <1>8, AckNextEventAcking DEF SignerStep
  <1>9. CASE SignerNext
    BY <1>2, <1>3, <1>4, <1>5, <1>7, <1>8, <1>9, BeginAckAcking DEF SignerNext
  <1> QED
    BY <1>1, <1>7, <1>9 DEF ChainNext, OutboxNext, chainVars

LEMMA ChainInvariantStep ==
    ASSUME ChainInvariant, [ChainNext]_chainVars
    PROVE  ChainInvariant'
  <1>1. [Next]_vars /\ Base
    BY OutboxMoves DEF ChainInvariant
  <1>2. Base' /\ AcksMatchEvents' /\ AllKept
    BY <1>1, BaseStep, AcksStep, AllKeptStep DEF ChainInvariant
  <1>3. StoreInvariant'
    BY <1>1, <1>2, PublishedKept, StoreStep
  <1>4. Acking' /\ BatchAckComplete'
    BY <1>2, AckingStep
  <1> QED
    BY <1>2, <1>3, <1>4 DEF ChainInvariant

LEMMA ChainAlways == ChainSpec => [](ChainInvariant /\ Base)
  <1>1. ChainInvariant => Base
    BY DEF ChainInvariant
  <1>2. ChainInvariant /\ [ChainNext]_chainVars => ChainInvariant'
    BY ChainInvariantStep
  <1> QED
    BY <1>1, <1>2, ChainInvariantInit, PTL DEF ChainSpec

-----------------------------------------------------------------------------
(* Theorems *)

\* The batch store verifies at every moment, whichever signers, acknowledgers and
\* producers run at once and wherever one of them crashes: no two batches
\* overlap, and each names the digest of the one before it (signed-batch.ts).
THEOREM ChainStaysVerified == ChainSpec => []ChainVerifies
  <1>1. ChainInvariant => ChainVerifies
    BY DEF ChainInvariant, StoreInvariant, ChainVerifies
  <1> QED
    BY <1>1, ChainAlways, PTL

\* Each signed record is, for ever, the content of its event file: a batch is
\* signed from a scan that holds no outbox lease, and what it scanned stands.
THEOREM SignedMatchesOutbox == ChainSpec => []SignedFromOutbox
  <1>1. ChainInvariant /\ Base => SignedFromOutbox
    BY PublishedAreRecords DEF ChainInvariant, StoreInvariant, SignedFromOutbox
  <1> QED
    BY <1>1, ChainAlways, PTL

\* An acknowledgement file of a batch says that all its events are acknowledged
\* with its receipt, and it is the only one of that batch: crashes between the
\* events and callers with other receipts never leave a batch half acknowledged.
THEOREM BatchAcksComplete == ChainSpec => []BatchAckComplete
  <1>1. ChainInvariant => BatchAckComplete
    BY DEF ChainInvariant
  <1> QED
    BY <1>1, ChainAlways, PTL

\* A step signs at most one batch, of records past every signed one and linked to
\* the head; no step removes or replaces a batch.
THEOREM ChainOnlyGrows == ChainSpec => ChainGrows
  <1>1. ASSUME ChainInvariant, [ChainNext]_chainVars
        PROVE  /\ batches \subseteq batches'
               /\ \A b \in batches' \ batches :
                     /\ FirstSequence(b) > SignedThrough(batches)
                     /\ b.previous = HeadLink(batches)
    <2>1. ASSUME NEW s \in Signer, SignBatch(s), NewRecords(s) # {}
          PROVE  \E new \in Batch :
                    /\ batches' = batches \cup {new}
                    /\ FirstSequence(new) > SignedThrough(batches)
                    /\ new.previous = HeadLink(batches)
      BY <1>1, <2>1, SignBatchStore DEF ChainInvariant
    <2>2. ASSUME NEW s \in Signer, SignerStep(s)
          PROVE  batches' = batches \/ (SignBatch(s) /\ NewRecords(s) # {})
      <3>1. CASE SignBatch(s)
        BY <3>1, Zenon DEF SignBatch
      <3>2. CASE AckNextEvent(s)
        BY <3>2 DEF AckNextEvent, store
      <3> QED
        BY <2>2, <3>1, <3>2 DEF SignerStep, AcquireAndList, ScanQuarantine, ScanEvents,
           ExportInspect, Export, AckConflict, AckBatch, SignerReturns, LeaveStore,
           SignerTimesOut, store
    <2>3. CASE SignerNext
      <3>1. \/ batches' = batches
            \/ \E s \in Signer : SignBatch(s) /\ NewRecords(s) # {}
        BY <2>2, <2>3 DEF SignerNext, BeginSign, ExportScan, BeginAck, SignerWriteFails,
           SignerCrash, LeaveStore, TakeOverBatches, store
      <3> QED
        BY <2>1, <3>1
    <2>4. CASE OutboxNext \/ UNCHANGED chainVars
      BY <2>4 DEF OutboxNext, chainVars, store
    <2> QED
      BY <1>1, <2>3, <2>4 DEF ChainNext
  <1> QED
    BY <1>1, ChainAlways, PTL DEF ChainSpec, ChainGrows

-----------------------------------------------------------------------------
(***************************************************************************)
(* What an evidence export promises, proved for producers that do not      *)
(* crash between a reservation and its publication.  Then events are       *)
(* published in the order of their sequence numbers, so everything up to   *)
(* the head of the chain is signed and an export leaves nothing out.  With *)
(* crashing producers the promise is broken: see evidence_late_record.     *)
(***************************************************************************)

-----------------------------------------------------------------------------
(* Producers that never stop halfway publish in the order of the counter. *)

Orderly ==
    /\ \A k \in Receipted :
          \/ receipts[k] \in PublishedRecords
          \/ \E p \in Proc : step[p] = "receipted" /\ record[p] = receipts[k]
    /\ \A p \in Proc : Writing(p) =>
          \A r \in PublishedRecords : r.sequence < record[p].sequence

PublishesInOrder ==
    \A r \in PublishedRecords' \ PublishedRecords :
        \A q \in PublishedRecords : q.sequence < r.sequence

LEMMA PublishedRecordIn ==
    ASSUME Base, NEW r \in Record, events[IdOf(r.event)] = r
    PROVE  r \in PublishedRecords
  BY RecordFields DEF PublishedRecords, Published

\* The steps that write nothing do not begin or end a publication either.
Uneventful ==
    /\ UNCHANGED <<receipts, events>>
    /\ \A p \in Proc : Writing(p) \/ Writing(p)' =>
           step'[p] = step[p] /\ record'[p] = record[p]

LEMMA UneventfulOrder ==
    ASSUME Orderly, Uneventful
    PROVE  Orderly' /\ PublishesInOrder
  BY DEF Orderly, Uneventful, PublishesInOrder, PublishedRecords, Published,
     Receipted, Writing

LEMMA UneventfulSteps ==
    ASSUME Base, ~Crashes, [Next]_vars,
           ~\E p \in Proc :
               \/ PublishFromReceipt(p) \/ AdoptPublished(p) \/ ReserveSequence(p)
               \/ WriteReceipt(p) \/ PublishEvent(p)
               \/ \E k \in ProductionKey : ReconcileReceipt(p, k)
    PROVE  Uneventful
  <1> USE DEF files
  <1>1. UNCHANGED <<receipts, events>>
    BY Writers
  <1>2. ASSUME NEW p \in Proc, ~Writing(p),
               NEW s \in Step \ {"reserved", "receipted"}, Goto(p, s),
               record' \in {record, [record EXCEPT ![p] = None]}
        PROVE  Uneventful
    BY <1>1, <1>2 DEF Uneventful, Goto, Writing, Base, TypeOK
  <1>3. ASSUME NEW p \in Proc, EnqueueStep(p) PROVE Uneventful
    <2>1. /\ step[p] = "entered" /\ Goto(p, "failed") /\ record' = record
      BY <1>3 DEF EnqueueStep, RejectKeyCollision, RejectReceiptConflict,
         RejectEventCollision, RejectExhausted, IsNew
    <2> QED
      BY <2>1, <1>2 DEF Step, Writing
  <1>4. ASSUME NEW p \in Proc, ReconcileStep(p) PROVE Uneventful
    BY <1>2, <1>4 DEF ReconcileStep, ReconcileList, ReconcileTimesOut, ReconcileFinish,
       ReconcileConflict, Step, Writing
  <1>5. ASSUME NEW p \in Proc,
               \/ \E e \in Event, keyed \in KeyChoices : BeginEnqueue(p, e, keyed)
               \/ ReconcileScan(p) \/ Return(p)
        PROVE  Uneventful
    BY <1>2, <1>5 DEF BeginEnqueue, ReconcileScan, Return, Step, Writing
  <1>6. CASE TakeOver \/ ReviewNext \/ UNCHANGED vars
    BY <1>1, <1>6 DEF TakeOver, ReviewNext, AckEvent, QuarantineEvent, vars, callers,
       Uneventful, Writing
  <1> QED
    BY <1>3, <1>4, <1>5, <1>6 DEF Next, ProducerNext, WriteFails, Crash

\* A receipt that is published already is published again by no effect at all.
LEMMA RepublishedReceipt ==
    ASSUME Base, Orderly, NEW r \in PublishedRecords,
           events' = [events EXCEPT ![IdOf(r.event)] = r]
    PROVE  events' = events
  BY PublishedAreRecords DEF Base, TypeOK

LEMMA SameEvents ==
    ASSUME events' = events
    PROVE  PublishedRecords' = PublishedRecords /\ PublishesInOrder
  BY DEF PublishedRecords, Published, PublishesInOrder

LEMMA ReserveOrder ==
    ASSUME SequenceInvariant, Orderly, NEW p \in Proc, ReserveSequence(p)
    PROVE  Orderly' /\ PublishesInOrder
  <1> USE DEF SequenceInvariant
  <1>1. PublishedRecords' = PublishedRecords /\ PublishesInOrder /\ receipts' = receipts
    BY SameEvents DEF ReserveSequence
  <1>2. /\ step[p] = "entered" /\ lease = p /\ record'[p].sequence = nextSequence
        /\ \A q \in Proc : q # p => ~Writing(q) /\ step'[q] = step[q]
    BY DEF ReserveSequence, IsNew, Goto, Writing, Base, TypeOK, Callers
  <1>3. \A r \in PublishedRecords : r.sequence < nextSequence
    BY DEF NoSequenceReuse, Durable, PublishedRecords
  <1>4. \A q \in Proc : Writing(q)' => q = p
    BY <1>2 DEF Writing
  <1>5. \A k \in Receipted : receipts[k] \in PublishedRecords
    BY <1>2 DEF Orderly, Writing
  <1> QED
    BY <1>1, <1>2, <1>3, <1>4, <1>5 DEF Orderly, Receipted

LEMMA WriteReceiptOrder ==
    ASSUME Base, Orderly, NEW p \in Proc, WriteReceipt(p)
    PROVE  Orderly' /\ PublishesInOrder
  <1>1. PublishedRecords' = PublishedRecords /\ PublishesInOrder /\ record' = record
    BY SameEvents DEF WriteReceipt
  <1>2. /\ step[p] = "reserved" /\ step'[p] = "receipted" /\ lease = p
        /\ \A q \in Proc : q # p => ~Writing(q) /\ step'[q] = step[q]
    BY DEF WriteReceipt, Goto, Writing, Base, TypeOK, Callers
  <1>3. \A k \in Receipted' : receipts'[k] = record[p] \/ (k \in Receipted /\ receipts'[k] = receipts[k])
    BY DEF WriteReceipt, Receipted, Base, TypeOK
  <1>4. \A k \in Receipted : receipts[k] \in PublishedRecords
    BY <1>2 DEF Orderly, Writing
  <1>5. \A q \in Proc : Writing(q)' => q = p
    BY <1>2 DEF Writing
  <1>6. Writing(p)
    BY <1>2 DEF Writing
  <1> QED
    BY <1>1, <1>2, <1>3, <1>4, <1>5, <1>6 DEF Orderly

LEMMA PublishOrder ==
    ASSUME Base, Orderly, NEW p \in Proc, PublishEvent(p)
    PROVE  Orderly' /\ PublishesInOrder
  <1>1. Writing(p) /\ record[p] \in Record /\ lease = p /\ UNCHANGED <<receipts, record>>
    BY DEF PublishEvent, Writing, Base, Callers
  <1>2. \A q \in Proc : ~Writing(q)'
    BY <1>1 DEF PublishEvent, Goto, Writing, Base, TypeOK, Callers
  <1>3. PublishedRecords' = PublishedRecords \cup {record[p]}
    <2>1. events[IdOf(record[p].event)] = None /\ IdOf(record[p].event) \in EventId
      BY <1>1, RecordFields DEF Base, Callers, Existing
    <2>2. events' = [events EXCEPT ![IdOf(record[p].event)] = record[p]]
      BY DEF PublishEvent
    <2> QED
      BY <1>1, <2>1, <2>2, RecordFields DEF PublishedRecords, Published, Base, TypeOK
  <1>4. \A q \in Proc : step[q] = "receipted" => q = p
    BY <1>1 DEF Base, Callers, Writing
  <1>5. \A k \in Receipted' : receipts'[k] \in PublishedRecords'
    BY <1>1, <1>3, <1>4 DEF Orderly, Receipted
  <1>6. PublishesInOrder
    BY <1>1, <1>3 DEF Orderly, PublishesInOrder
  <1> QED
    BY <1>2, <1>5, <1>6 DEF Orderly

\* A retry and a reconciliation find every receipt published: nothing to add.
LEMMA RepairOrder ==
    ASSUME Base, Orderly, NEW p \in Proc,
           \/ PublishFromReceipt(p) \/ AdoptPublished(p)
           \/ \E k \in ProductionKey : ReconcileReceipt(p, k)
    PROVE  Orderly' /\ PublishesInOrder
  <1>1. \A q \in Proc : ~Writing(q)
    BY ConstantsAssumption
    DEF PublishFromReceipt, AdoptPublished, ReconcileReceipt, Base, Callers, Writing
  <1>2. \A k \in Receipted : receipts[k] \in PublishedRecords
    BY <1>1 DEF Orderly, Writing
  <1>3. \A q \in Proc : ~Writing(q)'
    BY <1>1 DEF PublishFromReceipt, AdoptPublished, ReconcileReceipt, Goto, Base, TypeOK,
       Writing
  <1>4. ASSUME PublishedRecords' = PublishedRecords, PublishesInOrder,
               \A k \in Receipted' : receipts'[k] \in PublishedRecords
        PROVE  Orderly' /\ PublishesInOrder
    BY <1>3, <1>4 DEF Orderly
  <1>5. CASE PublishFromReceipt(p)
    <2>1. KeyOf(Wanted(p)) \in Receipted
      BY <1>5, RequestFields DEF PublishFromReceipt, HasReceipt, Receipted, Wanted, Base, Callers
    <2>2. Receipt(p) \in PublishedRecords
      BY <1>2, <2>1 DEF Receipt
    <2>3. events' = events /\ receipts' = receipts
      BY <1>5, <2>2, RepublishedReceipt DEF PublishFromReceipt
    <2> QED
      BY <1>2, <1>4, <2>3, SameEvents DEF Receipted
  <1>6. CASE AdoptPublished(p)
    <2>1. request[p] \in Request /\ IdOf(Wanted(p)) \in EventId
      BY <1>6, RequestFields DEF AdoptPublished, Base, Callers, Wanted
    <2>2. Existing(p) \in PublishedRecords
      BY <1>6, <2>1 DEF AdoptPublished, PublishedRecords, Published, Existing
    <2>3. \A k \in Receipted' : receipts'[k] = Existing(p)
                                \/ (k \in Receipted /\ receipts'[k] = receipts[k])
      BY <1>6 DEF AdoptPublished, Receipted, Base, TypeOK
    <2> QED
      BY <1>2, <1>4, <1>6, <2>2, <2>3, SameEvents DEF AdoptPublished
  <1>7. ASSUME NEW k \in ProductionKey, ReconcileReceipt(p, k)
        PROVE  Orderly' /\ PublishesInOrder
    <2>1. receipts' = receipts
      BY <1>7 DEF ReconcileReceipt
    <2>2. events' = events
      <3>1. CASE receipts[k] = None
        BY <1>7, <3>1 DEF ReconcileReceipt, Publishable, Base, TypeOK
      <3>2. CASE receipts[k] # None
        BY <1>2, <1>7, <3>2, RepublishedReceipt DEF ReconcileReceipt, Receipted
      <3> QED
        BY <3>1, <3>2
    <2> QED
      BY <1>2, <1>4, <2>1, <2>2, SameEvents DEF Receipted
  <1> QED
    BY <1>5, <1>6, <1>7

LEMMA OrderStep ==
    ASSUME ~Crashes, SequenceInvariant, Orderly, [Next]_vars
    PROVE  Orderly' /\ PublishesInOrder
  BY UneventfulSteps, UneventfulOrder, ReserveOrder, WriteReceiptOrder, PublishOrder,
     RepairOrder DEF SequenceInvariant

-----------------------------------------------------------------------------
(* Nothing up to the head of the chain is left out of it. *)

LEMMA PublishedFinite == IsFiniteSet(PublishedRecords)
  <1> DEFINE f == [i \in Published |-> events[i]]
  <1>1. IsFiniteSet(EventId)
    BY ConstantsAssumption, FS_Product DEF EventId
  <1>2. IsFiniteSet(Published)
    BY <1>1, FS_Subset DEF Published
  <1>3. f \in Surjection(Published, PublishedRecords)
    BY DEF Surjection, PublishedRecords
  <1> QED
    BY <1>2, <1>3, FS_Surjection

\* Whatever comes before a record that is taken is taken too.
LEMMA EarliestIsPrefix ==
    ASSUME Base, NEW n \in Nat, NEW rs, rs \subseteq PublishedRecords,
           NEW last \in Earliest(rs, n), NEW r \in rs, r.sequence <= last.sequence
    PROVE  r \in Earliest(rs, n)
  <1> DEFINE A == {q \in rs : q.sequence < r.sequence}
             B == {q \in rs : q.sequence < last.sequence}
  <1>1. \A q \in rs : q.sequence \in Nat
    BY PublishedAreRecords, RecordFields, ConstantsAssumption
  <1>2. last \in rs /\ Cardinality(B) < n
    BY DEF Earliest
  <1>3. A \subseteq B /\ B \subseteq PublishedRecords
    BY <1>1, <1>2
  <1>4. /\ Cardinality(A) <= Cardinality(B)
        /\ Cardinality(A) \in Nat /\ Cardinality(B) \in Nat
    BY <1>3, PublishedFinite, FS_Subset, FS_CardinalityType
  <1>5. Cardinality(A) < n
    BY <1>2, <1>4
  <1> QED
    BY <1>5 DEF Earliest

Covered ==
    /\ \A r \in PublishedRecords : r.sequence <= SignedThrough(batches) => r \in SignedRecords
    /\ \A i \in EventId : acks[i] # None => events[i] \in SignedRecords

\* A scan misses, of what is still to sign, only what came after all it found.
\* An export goes on only when all it found is signed.
Scanned ==
    \A s \in Signer :
        /\ at[s] = "signing" =>
              \A r \in PublishedRecords : r.sequence > SignedThrough(batches) =>
                  r \in scanned[s] \/ \A q \in scanned[s] : q.sequence < r.sequence
        /\ at[s] = "complete" => scanned[s] \subseteq SignedRecords
        /\ at[s] = "exported" => scanned[s] \subseteq UNION {b.records : b \in chain[s]}

ExportInvariant == ChainInvariant /\ SequenceInvariant /\ Orderly /\ Covered /\ Scanned

LEMMA SignedIsBehindHead ==
    ASSUME ChainInvariant, NEW r \in SignedRecords
    PROVE  r \in PublishedRecords /\ r.sequence <= SignedThrough(batches)
  <1> USE DEF ChainInvariant, StoreInvariant
  <1>1. PICK b \in batches : r \in b.records
    BY DEF SignedRecords
  <1>2. r.sequence <= LastSequence(b) /\ LastSequence(b) <= SignedThrough(batches)
    BY <1>1, BatchRange, SignedThroughHead
  <1>3. r \in PublishedRecords
    BY DEF StoreInvariant
  <1>4. r.sequence \in Nat /\ LastSequence(b) \in Nat /\ SignedThrough(batches) \in Nat
    BY <1>1, <1>3, PublishedAreRecords, RecordFields, BatchRange, SignedThroughHead, ConstantsAssumption
  <1> QED
    BY <1>2, <1>3, <1>4

\* A record published in order comes after the head.
LEMMA NewIsBeyondHead ==
    ASSUME ChainInvariant, PublishesInOrder, NEW r \in PublishedRecords' \ PublishedRecords,
           r.sequence \in Nat
    PROVE  r.sequence > SignedThrough(batches) \/ batches = {}
  <1> SUFFICES ASSUME batches # {} PROVE r.sequence > SignedThrough(batches)
    OBVIOUS
  <1> USE DEF ChainInvariant, StoreInvariant
  <1> DEFINE last == LastOf(Head(batches).records)
  <1>1. Head(batches) \in batches /\ SignedThrough(batches) = last.sequence
    BY HeadIsLast DEF SignedThrough, LastSequence
  <1>2. last \in Head(batches).records
    BY <1>1, FirstAndLast DEF Proper, Batch
  <1>3. last \in PublishedRecords
    BY <1>1, <1>2 DEF SignedRecords
  <1>4. last.sequence < r.sequence /\ last.sequence \in Nat
    BY <1>3, PublishedAreRecords, RecordFields, ConstantsAssumption DEF PublishesInOrder
  <1> QED
    BY <1>1, <1>4

LEMMA OutboxKeepsAcks ==
    ASSUME OutboxNext
    PROVE  acks' = acks
  <1> USE DEF files
  <1>1. ASSUME NEW p \in Proc, EnqueueStep(p) \/ ReconcileStep(p) PROVE acks' = acks
    BY <1>1 DEF EnqueueStep, ReconcileStep, RejectKeyCollision, PublishFromReceipt,
       RejectReceiptConflict, RejectEventCollision, AdoptPublished, RejectExhausted,
       ReserveSequence, WriteReceipt, PublishEvent, ReconcileList, ReconcileReceipt,
       ReconcileConflict, ReconcileTimesOut, ReconcileFinish
  <1>2. ASSUME NEW p \in Proc,
               \/ \E e \in Event, keyed \in KeyChoices : BeginEnqueue(p, e, keyed)
               \/ ReconcileScan(p) \/ Return(p) \/ WriteFails(p) \/ Crash(p)
        PROVE  acks' = acks
    BY <1>2 DEF BeginEnqueue, ReconcileScan, Return, WriteFails, Crash
  <1>3. CASE \/ TakeOver
             \/ \E i \in EventId, reason \in Reason : QuarantineEvent(i, reason)
    BY <1>3 DEF TakeOver, QuarantineEvent
  <1> QED
    BY <1>1, <1>2, <1>3 DEF OutboxNext, ProducerNext

LEMMA OutboxCovered ==
    ASSUME ExportInvariant, Base', AllKept, PublishesInOrder, OutboxNext
    PROVE  Covered' /\ Scanned'
  <1> USE DEF ExportInvariant
  <1>0. Base /\ ChainInvariant /\ StoreInvariant
    BY DEF ChainInvariant
  <1>1. /\ acks' = acks /\ SignedRecords' = SignedRecords
        /\ UNCHANGED <<batches, at, chain, scanned>>
        /\ SignedThrough(batches)' = SignedThrough(batches)
    BY OutboxKeepsAcks DEF OutboxNext, store, signers, SignedRecords, SignedThrough, Head,
       LastSequence, FirstSequence, LastOf, FirstOf
  <1>2. \A r \in PublishedRecords' : r.sequence \in 1 .. MaxSequence
    BY RecordFields DEF PublishedRecords, Published, Base, TypeOK
  <1>3. ASSUME NEW r \in PublishedRecords', r \notin PublishedRecords
        PROVE  ~(r.sequence <= SignedThrough(batches))
    <2>1. r.sequence \in Nat /\ r.sequence > 0 /\ SignedThrough(batches) \in Nat
      BY <1>0, <1>2, SignedThroughHead, ConstantsAssumption DEF StoreInvariant
    <2>2. CASE batches = {}
      BY <2>1, <2>2 DEF SignedThrough
    <2>3. CASE batches # {}
      BY <1>3, <2>1, <2>3, NewIsBeyondHead
    <2> QED
      BY <2>2, <2>3
  <1>4. \A i \in EventId : acks'[i] # None => events'[i] = events[i]
    BY <1>0, <1>1 DEF ChainInvariant, AcksMatchEvents, AllKept, Kept, Base, TypeOK
  <1>5. Covered'
    BY <1>1, <1>3, <1>4 DEF Covered
  <1>6. ASSUME NEW s \in Signer, NEW r \in PublishedRecords', r \notin PublishedRecords
        PROVE  \A q \in scanned[s] : q.sequence < r.sequence
    BY <1>0, <1>6 DEF StoreInvariant, PublishesInOrder
  <1>7. Scanned'
    BY <1>1, <1>6 DEF Scanned
  <1> QED
    BY <1>5, <1>7

LEMMA AckNextEventCovered ==
    ASSUME ExportInvariant, NEW s \in Signer, AckNextEvent(s)
    PROVE  Covered' /\ Scanned'
  <1> USE DEF ExportInvariant
  <1>0. Base /\ StoreInvariant /\ Acking /\ ChainTypeOK
    BY DEF ChainInvariant, StoreInvariant
  <1>1. at[s] = "acking" /\ scanned[s] # {} /\ UNCHANGED <<batches, at, chain, events>>
    BY DEF AckNextEvent, AckEvent, store, vars, files
  <1>2. events[NextEvent(s)] \in SignedRecords
    BY <1>0, <1>1, NextToAck DEF Acking, SignedRecords
  <1>3. \A i \in EventId : acks'[i] # None => acks[i] # None \/ i = NextEvent(s)
    BY <1>0 DEF AckNextEvent, AckEvent, vars, files, Base, TypeOK
  <1>4. PublishedRecords' = PublishedRecords /\ SignedRecords' = SignedRecords
        /\ SignedThrough(batches)' = SignedThrough(batches)
    BY <1>1 DEF PublishedRecords, Published, SignedRecords, SignedThrough, Head,
       LastSequence, FirstSequence, LastOf, FirstOf
  <1>5. Covered'
    BY <1>1, <1>2, <1>3, <1>4 DEF Covered
  <1>6. \A t \in Signer : at[t] # "acking" => scanned'[t] = scanned[t]
    BY <1>0, <1>1 DEF AckNextEvent, ChainTypeOK
  <1>7. Scanned'
    BY <1>1, <1>4, <1>6 DEF Scanned
  <1> QED
    BY <1>5, <1>7

\* Signing takes all there is between the old head and the new one.
LEMMA SignBatchCovered ==
    ASSUME ExportInvariant, NEW s \in Signer, SignBatch(s)
    PROVE  Covered' /\ Scanned'
  <1> USE DEF ExportInvariant
  <1>0. Base /\ StoreInvariant /\ ChainTypeOK
    BY DEF ChainInvariant, StoreInvariant
  <1>1. /\ at[s] = "signing" /\ chain[s] = batches /\ batchLease = s
        /\ UNCHANGED <<events, acks, chain, scanned>> /\ PublishedRecords' = PublishedRecords
        /\ at' = [at EXCEPT ![s] = "signed"]
    BY <1>0 DEF SignBatch, Move, StoreInvariant, Holding, vars, files, PublishedRecords, Published
  <1>2. \A t \in Signer : at'[t] # "signing" /\ (at'[t] \in {"complete", "exported"} => at[t] = at'[t])
    BY <1>0, <1>1 DEF StoreInvariant, Holding, ChainTypeOK
  <1>3. CASE NewRecords(s) = {}
    <2>1. batches' = batches
      BY <1>3 DEF SignBatch
    <2>2. SignedRecords' = SignedRecords /\ SignedThrough(batches)' = SignedThrough(batches)
      BY <2>1 DEF SignedRecords, SignedThrough, Head, LastSequence, FirstSequence, LastOf, FirstOf
    <2>3. Covered'
      BY <1>1, <2>2 DEF Covered
    <2>4. Scanned'
      BY <1>1, <1>2, <2>2 DEF Scanned
    <2> QED
      BY <2>3, <2>4
  <1>4. CASE NewRecords(s) # {}
    <2>1. PICK new \in Batch :
             /\ batches' = batches \cup {new} /\ new.records = NewRecords(s)
             /\ Proper(batches') /\ Verifies(batches')
             /\ FirstSequence(new) > SignedThrough(batches)
      BY <1>0, <1>4, SignBatchStore
    <2>2. SignedRecords' = SignedRecords \cup NewRecords(s)
      BY <2>1 DEF SignedRecords
    <2>3. SignedThrough(batches') = LastSequence(new)
      <3>1. Head(batches') \in batches' /\ FirstSequence(new) <= FirstSequence(Head(batches'))
        BY <2>1, HeadIsLast
      <3>2. Head(batches') \notin batches
        <4> SUFFICES ASSUME Head(batches') \in batches PROVE FALSE
          OBVIOUS
        <4>1. /\ FirstSequence(Head(batches')) <= LastSequence(Head(batches'))
              /\ FirstSequence(Head(batches')) \in Nat /\ LastSequence(Head(batches')) \in Nat
              /\ FirstSequence(new) \in Nat
          BY <2>1, <3>1, BatchRange, ConstantsAssumption
        <4>2. LastSequence(Head(batches')) <= SignedThrough(batches) /\ SignedThrough(batches) \in Nat
          BY <1>0, SignedThroughHead DEF StoreInvariant
        <4> QED
          BY <2>1, <3>1, <4>1, <4>2
      <3> QED
        BY <2>1, <3>1, <3>2 DEF SignedThrough
    <2>4. \A r \in PublishedRecords : r.sequence \in Nat
      BY <1>0, PublishedAreRecords, RecordFields, ConstantsAssumption
    <2>5. PICK last \in NewRecords(s) : last.sequence = LastSequence(new)
      BY <1>4, <2>1, FirstAndLast DEF LastSequence, Batch
    <2>6. DEFINE rs == Beyond(scanned[s], SignedThrough(batches))
    <2>7. NewRecords(s) = Earliest(rs, MaxEvents) /\ rs \subseteq scanned[s]
          /\ rs \subseteq PublishedRecords
      BY <1>0, <1>1 DEF NewRecords, Beyond, StoreInvariant
    <2>8. last \in rs
      BY <2>5, <2>7 DEF Earliest
    <2>9. ASSUME NEW r \in PublishedRecords, r.sequence <= LastSequence(new),
                 ~(r.sequence <= SignedThrough(batches))
          PROVE  r \in NewRecords(s)
      <3>1. r.sequence \in Nat /\ last.sequence \in Nat /\ SignedThrough(batches) \in Nat
        BY <1>0, <2>4, <2>7, <2>8, SignedThroughHead DEF StoreInvariant
      <3>2. r.sequence > SignedThrough(batches) /\ r.sequence <= last.sequence
        BY <2>5, <2>9, <3>1
      <3>3. r \in scanned[s]
        BY <1>1, <2>7, <2>8, <3>1, <3>2 DEF Scanned
      <3>4. r \in rs
        BY <3>2, <3>3 DEF Beyond
      <3> HIDE DEF rs
      <3> QED
        BY <1>0, <2>5, <2>7, <3>2, <3>4, EarliestIsPrefix, SignerAssumption
    <2>10. SignedThrough(batches)' = LastSequence(new)
      BY <2>3 DEF SignedThrough, Head, LastSequence, FirstSequence, LastOf, FirstOf
    <2>11. Covered'
      BY <1>1, <2>2, <2>9, <2>10 DEF Covered
    <2>12. Scanned'
      BY <1>1, <1>2, <2>2 DEF Scanned
    <2> QED
      BY <2>11, <2>12
  <1> QED
    BY <1>3, <1>4

\* The other steps write no event, acknowledgement or batch.
QuietStore == UNCHANGED <<events, acks, batches>>

LEMMA QuietCovered ==
    ASSUME ExportInvariant, QuietStore
    PROVE  /\ Covered'
           /\ PublishedRecords' = PublishedRecords /\ SignedRecords' = SignedRecords
           /\ SignedThrough(batches)' = SignedThrough(batches)
  <1>1. PublishedRecords' = PublishedRecords /\ SignedRecords' = SignedRecords
    BY DEF QuietStore, PublishedRecords, Published, SignedRecords
  <1>2. SignedThrough(batches)' = SignedThrough(batches)
    BY DEF QuietStore, SignedThrough, Head, LastSequence, FirstSequence, LastOf, FirstOf
  <1> QED
    BY <1>1, <1>2 DEF ExportInvariant, QuietStore, Covered

LEMMA QuietScanned ==
    ASSUME ExportInvariant, QuietStore,
           \A s \in Signer : at'[s] \in {"signing", "complete", "exported"} =>
               at'[s] = at[s] /\ UNCHANGED <<scanned[s], chain[s]>>
    PROVE  Scanned'
  BY QuietCovered DEF ExportInvariant, Scanned

\* What a scan does not find is acknowledged, so it is signed.
LEMMA ScanEventsScanned ==
    ASSUME ExportInvariant, NEW s \in Signer, ScanEvents(s)
    PROVE  Covered' /\ Scanned'
  <1> USE DEF ExportInvariant
  <1>0. Base /\ StoreInvariant /\ ChainTypeOK
    BY DEF ChainInvariant, StoreInvariant
  <1>1. QuietStore /\ chain' = chain
    BY DEF ScanEvents, QuietStore, vars, files, store
  <1>2. /\ scanned'[s] = Pending
        /\ \A t \in Signer : t # s => scanned'[t] = scanned[t] /\ at'[t] = at[t]
        /\ at'[s] = "signing"
    BY <1>0 DEF ScanEvents, Move, ChainTypeOK
  <1>3. ASSUME NEW r \in PublishedRecords, r.sequence > SignedThrough(batches)
        PROVE  r \in Pending
    <2>1. PICK i \in Published : r = events[i]
      BY DEF PublishedRecords
    <2>2. CASE acks[i] = None
      BY <2>1, <2>2 DEF Pending
    <2>3. CASE acks[i] # None
      <3>1. r \in SignedRecords
        BY <2>1, <2>3 DEF Covered, Published
      <3>2. r.sequence <= SignedThrough(batches)
        BY <3>1, SignedIsBehindHead
      <3>3. r.sequence \in Nat /\ SignedThrough(batches) \in Nat
        BY <1>0, PublishedAreRecords, RecordFields, SignedThroughHead, ConstantsAssumption
        DEF StoreInvariant
      <3> QED
        BY <1>3, <3>2, <3>3
    <2> QED
      BY <2>2, <2>3
  <1>4. Scanned'
    BY <1>1, <1>2, <1>3, QuietCovered DEF Scanned
  <1> QED
    BY <1>1, <1>4, QuietCovered

LEMMA ExportInspectScanned ==
    ASSUME ExportInvariant, NEW s \in Signer, ExportInspect(s)
    PROVE  Covered' /\ Scanned'
  <1> USE DEF ExportInvariant
  <1>0. Base /\ StoreInvariant /\ ChainTypeOK
    BY DEF ChainInvariant, StoreInvariant
  <1>1. QuietStore /\ UNCHANGED <<scanned, chain>>
    BY DEF ExportInspect, QuietStore, vars, files, store
  <1>2. /\ \A t \in Signer : t # s => at'[t] = at[t]
        /\ at'[s] \in {"complete", "failed"}
        /\ at'[s] = "complete" => Beyond(scanned[s], SignedThrough(batches)) = {}
    BY <1>0 DEF ExportInspect, Move, ChainTypeOK
  <1>3. ASSUME at'[s] = "complete", NEW r \in scanned[s] PROVE r \in SignedRecords
    <2>1. r \in PublishedRecords /\ ~(r.sequence > SignedThrough(batches))
      BY <1>0, <1>2, <1>3 DEF Beyond, StoreInvariant
    <2>2. r.sequence \in Nat /\ SignedThrough(batches) \in Nat
      BY <1>0, <2>1, PublishedAreRecords, RecordFields, SignedThroughHead, ConstantsAssumption
      DEF StoreInvariant
    <2> QED
      BY <2>1, <2>2 DEF Covered
  <1>4. Scanned'
    BY <1>1, <1>2, <1>3, QuietCovered DEF Scanned
  <1> QED
    BY <1>1, <1>4, QuietCovered

LEMMA ExportScanned ==
    ASSUME ExportInvariant, NEW s \in Signer, Export(s)
    PROVE  Covered' /\ Scanned'
  <1> USE DEF ExportInvariant
  <1>0. ChainTypeOK
    BY DEF ChainInvariant, StoreInvariant
  <1>1. QuietStore /\ scanned' = scanned
    BY DEF Export, QuietStore, vars, files, store
  <1>2. /\ \A t \in Signer : t # s => at'[t] = at[t] /\ chain'[t] = chain[t]
        /\ at[s] = "complete" /\ chain'[s] = batches
        /\ at'[s] \in {"exported", "failed"}
    BY <1>0 DEF Export, Move, ChainTypeOK
  <1>3. scanned[s] \subseteq UNION {b.records : b \in batches}
    BY <1>2 DEF Scanned, SignedRecords
  <1>4. Scanned'
    BY <1>1, <1>2, <1>3, QuietCovered DEF Scanned
  <1> QED
    BY <1>1, <1>4, QuietCovered

LEMMA CoverStep ==
    ASSUME ExportInvariant, Base', AllKept, PublishesInOrder, [ChainNext]_chainVars
    PROVE  Covered' /\ Scanned'
  <1>0. ChainTypeOK
    BY DEF ExportInvariant, ChainInvariant, StoreInvariant
  <1> DEFINE Quiet ==
        /\ QuietStore
        /\ \A s \in Signer : at'[s] \in {"signing", "complete", "exported"} =>
               at'[s] = at[s] /\ UNCHANGED <<scanned[s], chain[s]>>
  <1>1. ASSUME Quiet PROVE Covered' /\ Scanned'
    BY <1>1, QuietCovered, QuietScanned
  <1>2. ASSUME NEW s \in Signer,
               \/ BeginSign(s) \/ AcquireAndList(s) \/ ScanQuarantine(s) \/ ExportScan(s)
               \/ \E b \in batches, receipt \in AckReceipt : BeginAck(s, b, receipt)
        PROVE  Quiet
    BY <1>0, <1>2 DEF BeginSign, AcquireAndList, ScanQuarantine, ExportScan, BeginAck, Move,
       store, vars, files, ChainTypeOK, QuietStore
  <1>3. ASSUME NEW s \in Signer,
               AckConflict(s) \/ AckBatch(s) \/ SignerTimesOut(s) \/ SignerWriteFails(s)
        PROVE  Quiet
    BY <1>0, <1>3 DEF AckConflict, AckBatch, SignerTimesOut, SignerWriteFails, Move,
       store, vars, files, ChainTypeOK, QuietStore
  <1>4. ASSUME NEW s \in Signer, SignerReturns(s) \/ SignerCrash(s) PROVE Quiet
    BY <1>0, <1>4 DEF SignerReturns, SignerCrash, LeaveStore, Move, vars, files,
       ChainTypeOK, QuietStore
  <1>5. ASSUME TakeOverBatches \/ UNCHANGED chainVars PROVE Quiet
    BY <1>5 DEF TakeOverBatches, chainVars, store, signers, vars, files, QuietStore
  <1> HIDE DEF Quiet
  <1>6. ASSUME NEW s \in Signer, SignerStep(s) PROVE Covered' /\ Scanned'
    BY <1>1, <1>2, <1>3, <1>4, <1>6, ScanEventsScanned, SignBatchCovered,
       ExportInspectScanned, ExportScanned, AckNextEventCovered DEF SignerStep
  <1>7. CASE SignerNext
    BY <1>1, <1>2, <1>3, <1>4, <1>5, <1>6, <1>7 DEF SignerNext
  <1> QED
    BY <1>1, <1>5, <1>7, OutboxCovered DEF ChainNext

LEMMA ExportInvariantInit == ChainInit => ExportInvariant
  <1> SUFFICES ASSUME ChainInit PROVE ExportInvariant
    OBVIOUS
  <1>1. Orderly /\ Covered
    BY DEF ChainInit, Init, Orderly, Covered, PublishedRecords, Published, Receipted, Writing
  <1>2. Scanned
    BY DEF ChainInit, StoreInit, Scanned
  <1>3. SequenceInvariant
    BY SequenceInit DEF ChainInit
  <1> QED
    BY <1>1, <1>2, <1>3, ChainInvariantInit DEF ExportInvariant

LEMMA ExportInvariantStep ==
    ASSUME ~Crashes, ExportInvariant, [ChainNext]_chainVars
    PROVE  ExportInvariant'
  <1>1. [Next]_vars /\ Base
    BY OutboxMoves DEF ExportInvariant, ChainInvariant
  <1>2. ChainInvariant' /\ SequenceInvariant' /\ Base' /\ AllKept
    BY <1>1, ChainInvariantStep, SequenceStep, BaseStep, AllKeptStep DEF ExportInvariant
  <1>3. Orderly' /\ PublishesInOrder
    BY <1>1, OrderStep DEF ExportInvariant
  <1>4. Covered' /\ Scanned'
    BY <1>2, <1>3, CoverStep
  <1> QED
    BY <1>2, <1>3, <1>4 DEF ExportInvariant

-----------------------------------------------------------------------------
(* Theorems *)

\* While no producer stops between reserving a number and publishing its event,
\* an export leaves no pending event out, however exports, signers (who may
\* crash), acknowledgements and producers interleave: the check of
\* createLocalWorkspaceEvidenceExportV1 is right about what it scanned.
THEOREM ExportsAreComplete ==
    ASSUME ~Crashes
    PROVE  ChainSpec => []ExportComplete
  <1>1. ExportInvariant => ExportComplete
    BY DEF ExportInvariant, Scanned, ExportComplete
  <1>2. ExportInvariant /\ [ChainNext]_chainVars => ExportInvariant'
    BY ExportInvariantStep
  <1> QED
    BY <1>1, <1>2, ExportInvariantInit, PTL DEF ChainSpec
=============================================================================
