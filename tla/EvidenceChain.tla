--------------------------- MODULE EvidenceChain ---------------------------
(***************************************************************************)
(* The chain of signed batches (src/local-state/signed-batch.ts) and the   *)
(* workspace export (src/local-state/workspace-evidence.ts), beside the    *)
(* callers of Outbox that publish what is signed.                          *)
(*                                                                         *)
(* A batch is signed under the lease of the batch store, which excludes    *)
(* other signers but not the producers: the outbox is scanned without its  *)
(* lease.  An acknowledgement takes the outbox lease once per event and    *)
(* the batch lease once at the end.  An export takes no lease at all.      *)
(* Definitions named Faulty... are bugs that the checks must find.         *)
(***************************************************************************)
EXTENDS Outbox

CONSTANTS
    Signer,        \* concurrent callers of the batch store
    MaxEvents,     \* maxEvents of one batch
    SignerCrashes  \* whether signers crash and their writes fail

ASSUME SignerAssumption ==
    /\ MaxEvents \in Nat \ {0}
    /\ SignerCrashes \in BOOLEAN
    /\ Free \notin Signer /\ Orphan \notin Signer

\* `signer` stands for the creation time and the signature: with the records it
\* makes up the digest, so batches signed apart have different digests.
Digest(b) == <<b.records, b.signer>>
Link == ((SUBSET Record) \X Signer) \cup {None}
Batch == [records : SUBSET Record, previous : Link, signer : Signer]
BatchAck == [batch : Batch, receipt : AckReceipt]

VARIABLES
    batchLease,  \* owner of the batch store lease
    batches,     \* the files of the batch store
    batchAcks,   \* its acknowledgement files
    at,          \* where each signer is
    chain,       \* the batches it listed
    scanned,     \* the pending records it scanned, or those left to acknowledge
    ack          \* the acknowledgement it is about to make

store == <<batchLease, batches, batchAcks>>
signers == <<at, chain, scanned, ack>>
chainVars == <<vars, store, signers>>

At == {"idle", "waiting", "listed", "clear", "signing", "signed",
       "exporting", "complete", "exported", "acking", "acked", "failed"}

ChainTypeOK ==
    /\ batchLease \in Signer \cup {Free, Orphan}
    /\ batches \subseteq Batch
    /\ batchAcks \subseteq BatchAck
    /\ at \in [Signer -> At]
    /\ chain \in [Signer -> SUBSET Batch]
    /\ scanned \in [Signer -> SUBSET Record]
    /\ ack \in [Signer -> BatchAck \cup {None}]

StoreInit ==
    /\ batchLease = Free
    /\ batches = {}
    /\ batchAcks = {}
    /\ at = [s \in Signer |-> "idle"]
    /\ chain = [s \in Signer |-> {}]
    /\ scanned = [s \in Signer |-> {}]
    /\ ack = [s \in Signer |-> None]

ChainInit == Init /\ StoreInit

FirstOf(rs) == CHOOSE r \in rs : \A q \in rs : r.sequence <= q.sequence
LastOf(rs) == CHOOSE r \in rs : \A q \in rs : q.sequence <= r.sequence
FirstSequence(b) == FirstOf(b.records).sequence
LastSequence(b) == LastOf(b.records).sequence

Precedes(b, c) == LastSequence(b) < FirstSequence(c)
Head(bs) == CHOOSE b \in bs : \A c \in bs : FirstSequence(c) <= FirstSequence(b)
HeadLink(bs) == IF bs = {} THEN None ELSE Digest(Head(bs))
SignedThrough(bs) == IF bs = {} THEN 0 ELSE LastSequence(Head(bs))
Before(b, bs) == {c \in bs : FirstSequence(c) < FirstSequence(b)}

\* verifyLocalSignedMeasurementBatchChainV1 over the files in order.
Verifies(bs) ==
    /\ \A b, c \in bs : b = c \/ Precedes(b, c) \/ Precedes(c, b)
    /\ \A b \in bs : b.previous = HeadLink(Before(b, bs))

FaultyPendingReceipts ==
    {receipts[k] : k \in {j \in Receipted : acks[IdOf(receipts[j].event)] = None}}

\* scan.pending, of a scan that has read no quarantine marker: a decision taken
\* since then hides no event from it.
Pending == {events[i] : i \in {j \in Published : acks[j] = None}}
Beyond(rs, n) == {r \in rs : r.sequence > n}
Earliest(rs, n) == {r \in rs : Cardinality({q \in rs : q.sequence < r.sequence}) < n}

Move(s, a) == at' = [at EXCEPT ![s] = a]
-----------------------------------------------------------------------------
(* createNextLocalWorkspaceSignedBatchV1, createNextSignedMeasurementBatchV1 *)

\* The inspection that comes first lets only a clear workspace through.
BeginSign(s) ==
    /\ at[s] = "idle"
    /\ Quarantined = {}
    /\ Verifies(batches)
    /\ Move(s, "waiting")
    /\ UNCHANGED <<vars, store, chain, scanned, ack>>

FaultyListWithoutLease(s) ==
    /\ at[s] = "waiting"
    /\ chain' = [chain EXCEPT ![s] = batches]
    /\ Move(s, "listed")
    /\ UNCHANGED <<vars, store, scanned, ack>>

AcquireAndList(s) ==
    /\ at[s] = "waiting"
    /\ batchLease = Free
    /\ batchLease' = s
    /\ chain' = [chain EXCEPT ![s] = batches]
    /\ Move(s, IF Verifies(batches) THEN "listed" ELSE "failed")
    /\ UNCHANGED <<vars, batches, batchAcks, scanned, ack>>

\* The scan reads the quarantine markers before it lists the events.
ScanQuarantine(s) ==
    /\ at[s] = "listed"
    /\ Move(s, IF Quarantined = {} THEN "clear" ELSE "failed")
    /\ UNCHANGED <<vars, store, chain, scanned, ack>>

FaultyAllPending(s) == Earliest(scanned[s], MaxEvents)
NewRecords(s) == Earliest(Beyond(scanned[s], SignedThrough(chain[s])), MaxEvents)

ScanEvents(s) ==
    /\ at[s] = "clear"
    /\ scanned' = [scanned EXCEPT ![s] = Pending]
    /\ Move(s, "signing")
    /\ UNCHANGED <<vars, store, chain, ack>>

SignBatch(s) ==
    /\ at[s] = "signing"
    /\ batches' = IF NewRecords(s) = {} THEN batches
                  ELSE batches \cup {[records |-> NewRecords(s),
                                      previous |-> HeadLink(chain[s]),
                                      signer |-> s]}
    /\ Move(s, "signed")
    /\ UNCHANGED <<vars, batchLease, batchAcks, chain, scanned, ack>>

-----------------------------------------------------------------------------
(* createLocalWorkspaceEvidenceExportV1: the inspection scans the outbox,    *)
(* then lists the chain; the export lists the chain again.                   *)

ExportScan(s) ==
    /\ at[s] = "idle"
    /\ Quarantined = {}
    /\ scanned' = [scanned EXCEPT ![s] = Pending]
    /\ Move(s, "exporting")
    /\ UNCHANGED <<vars, store, chain, ack>>

FaultyExportUnbatched(s) ==
    /\ at[s] = "exporting"
    /\ Move(s, IF Verifies(batches) THEN "complete" ELSE "failed")
    /\ UNCHANGED <<vars, store, chain, scanned, ack>>

ExportInspect(s) ==
    /\ at[s] = "exporting"
    /\ Move(s, IF Verifies(batches) /\ Beyond(scanned[s], SignedThrough(batches)) = {}
               THEN "complete" ELSE "failed")
    /\ UNCHANGED <<vars, store, chain, scanned, ack>>

Export(s) ==
    /\ at[s] = "complete"
    /\ chain' = [chain EXCEPT ![s] = batches]
    /\ Move(s, IF Verifies(batches) THEN "exported" ELSE "failed")
    /\ UNCHANGED <<vars, store, scanned, ack>>

-----------------------------------------------------------------------------
(* acknowledgeSignedMeasurementBatchV1 *)

\* A batch that has an acknowledgement is left as it is.
BeginAck(s, b, receipt) ==
    /\ at[s] = "idle"
    /\ b \in batches
    /\ \A a \in batchAcks : a.batch # b
    /\ ack' = [ack EXCEPT ![s] = [batch |-> b, receipt |-> receipt]]
    /\ scanned' = [scanned EXCEPT ![s] = b.records]
    /\ Move(s, "acking")
    /\ UNCHANGED <<vars, store, chain>>

NextEvent(s) == IdOf(FirstOf(scanned[s]).event)

FaultyAckAnyReceipt(s) ==
    /\ at[s] = "acking"
    /\ scanned[s] # {}
    /\ \/ AckEvent(NextEvent(s), ack[s].receipt)
       \/ lease = Free /\ acks[NextEvent(s)] # None /\ UNCHANGED vars
    /\ scanned' = [scanned EXCEPT ![s] = @ \ {FirstOf(@)}]
    /\ UNCHANGED <<store, at, chain, ack>>

\* acknowledgeMeasurementEventV1 for the next event: written, or already there.
AckNextEvent(s) ==
    /\ at[s] = "acking"
    /\ scanned[s] # {}
    /\ \/ AckEvent(NextEvent(s), ack[s].receipt)
       \/ /\ lease = Free
          /\ acks[NextEvent(s)] # None
          /\ acks[NextEvent(s)].receipt = ack[s].receipt
          /\ UNCHANGED vars
    /\ scanned' = [scanned EXCEPT ![s] = @ \ {FirstOf(@)}]
    /\ UNCHANGED <<store, at, chain, ack>>

AckConflict(s) ==
    /\ at[s] = "acking"
    /\ scanned[s] # {}
    /\ lease = Free
    /\ acks[NextEvent(s)] # None
    /\ acks[NextEvent(s)].receipt # ack[s].receipt
    /\ Move(s, "failed")
    /\ UNCHANGED <<vars, store, chain, scanned, ack>>

\* Under the batch lease the acknowledgement is read again before it is written.
AckBatch(s) ==
    /\ at[s] = "acking"
    /\ scanned[s] = {}
    /\ batchLease = Free
    /\ IF \E a \in batchAcks : a.batch = ack[s].batch
       THEN /\ Move(s, IF ack[s] \in batchAcks THEN "acked" ELSE "failed")
            /\ UNCHANGED batchAcks
       ELSE /\ batchAcks' = batchAcks \cup {ack[s]}
            /\ Move(s, "acked")
    /\ UNCHANGED <<vars, batchLease, batches, chain, scanned, ack>>

-----------------------------------------------------------------------------
(* Returns, timeouts, crashes *)

LeaveStore(s, released) ==
    /\ batchLease' = IF batchLease = s THEN released ELSE batchLease
    /\ Move(s, "idle")
    /\ chain' = [chain EXCEPT ![s] = {}]
    /\ scanned' = [scanned EXCEPT ![s] = {}]
    /\ ack' = [ack EXCEPT ![s] = None]
    /\ UNCHANGED <<vars, batches, batchAcks>>

SignerReturns(s) ==
    /\ at[s] \in {"signed", "exported", "acked", "failed"}
    /\ LeaveStore(s, Free)

FaultySignerTimesOut(s) ==
    /\ at[s] = "waiting" /\ batchLease # Free
    /\ Move(s, "timed-out")
    /\ UNCHANGED <<vars, store, chain, scanned, ack>>

\* 'timed out waiting for local-state lease'
SignerTimesOut(s) ==
    /\ \/ at[s] = "waiting" /\ batchLease # Free
       \/ at[s] = "acking" /\ scanned[s] # {} /\ lease # Free
       \/ at[s] = "acking" /\ scanned[s] = {} /\ batchLease # Free
    /\ Move(s, "failed")
    /\ UNCHANGED <<vars, store, chain, scanned, ack>>

\* The write of a batch or of an acknowledgement throws; `finally` releases.
SignerWriteFails(s) ==
    /\ SignerCrashes
    /\ at[s] \in {"signing", "acking"}
    /\ Move(s, "failed")
    /\ UNCHANGED <<vars, store, chain, scanned, ack>>

SignerCrash(s) ==
    /\ SignerCrashes
    /\ at[s] # "idle"
    /\ LeaveStore(s, Orphan)

TakeOverBatches ==
    /\ batchLease = Orphan
    /\ batchLease' = Free
    /\ UNCHANGED <<vars, batches, batchAcks, signers>>

SignerStep(s) ==
    \/ AcquireAndList(s)
    \/ ScanQuarantine(s)
    \/ ScanEvents(s)
    \/ SignBatch(s)
    \/ ExportInspect(s)
    \/ Export(s)
    \/ AckNextEvent(s)
    \/ AckConflict(s)
    \/ AckBatch(s)
    \/ SignerReturns(s)
    \/ SignerTimesOut(s)

SignerNext ==
    \/ \E s \in Signer :
         \/ BeginSign(s)
         \/ ExportScan(s)
         \/ \E b \in batches, receipt \in AckReceipt : BeginAck(s, b, receipt)
         \/ SignerStep(s)
         \/ SignerWriteFails(s)
         \/ SignerCrash(s)
    \/ TakeOverBatches

\* Events are acknowledged through their batches only.
OutboxNext ==
    /\ \/ ProducerNext
       \/ \E i \in EventId, reason \in Reason : QuarantineEvent(i, reason)
    /\ UNCHANGED <<store, signers>>

ChainNext == OutboxNext \/ SignerNext
ChainSpec == ChainInit /\ [][ChainNext]_chainVars

-----------------------------------------------------------------------------
(* Properties *)

SignedRecords == UNION {b.records : b \in batches}

\* The batch store verifies at every moment, so no crash and no pair of signers
\* leaves a fork, an overlap or a gap in the digests that blocks it for good.
ChainVerifies == Verifies(batches)

\* What is signed is what the outbox holds: each signed record is still the
\* content of its event file.
SignedFromOutbox == \A r \in SignedRecords : events[IdOf(r.event)] = r

\* A batch has one acknowledgement, and under it every event of the batch is
\* acknowledged with the same receipt, although the events are acknowledged one
\* by one, callers with other receipts race and any of them may crash.
BatchAckComplete ==
    \A a \in batchAcks :
        /\ \A other \in batchAcks : other.batch = a.batch => other = a
        /\ \A r \in a.batch.records :
              acks[IdOf(r.event)] = [sequence |-> r.sequence, receipt |-> a.receipt]

\* The chain is only ever extended, past its last sequence and by one batch.
ChainGrows ==
    [][/\ batches \subseteq batches'
       /\ \A b \in batches' \ batches :
             /\ FirstSequence(b) > SignedThrough(batches)
             /\ b.previous = HeadLink(batches)]_chainVars

\* An export holds every reviewed event that was pending when it looked ("This
\* prevents a package from appearing complete while known workspace evidence is
\* still outside the signed chain").
ExportComplete ==
    \A s \in Signer : at[s] = "exported" =>
        scanned[s] \subseteq UNION {b.records : b \in chain[s]}
=============================================================================
