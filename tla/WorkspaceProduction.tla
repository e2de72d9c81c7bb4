------------------------- MODULE WorkspaceProduction -------------------------
(***************************************************************************)
(* Reviewed production in a workspace: its lifecycle                       *)
(* (src/local-state/workspace-production-lifecycle.ts), one pass           *)
(* (reviewed-production-orchestrator.ts, reviewed-measurement-producer.ts) *)
(* and the desktop's recovery (desktop-reviewed-production-runtime.ts).    *)
(*                                                                         *)
(* The control lease orders pauses and passes; a recovery repairs receipts *)
(* without it.  The outbox is what MeasurementLog promises of it: receipts *)
(* that are committed once and events that are published from them.        *)
(***************************************************************************)
EXTENDS LocalWorkspace, FiniteSets

CONSTANTS
    Call,           \* reviewed calls in the scope of the workspace
    Quarantines,    \* whether evidence is ever quarantined
    MaxRevision,    \* bound on the mode changes of one behaviour
    MaxCrashes      \* bound on the crashes of one behaviour

ASSUME ProductionAssumption ==
    /\ IsFiniteSet(Call) /\ Quarantines \in BOOLEAN
    /\ MaxRevision \in Nat /\ MaxCrashes \in Nat

VARIABLES
    lifecycle,   \* workspace/production-lifecycle: mode and revision, or None
    control,     \* owner of the production-control lease
    receipts,    \* calls with a receipt
    events,      \* calls whose event is published
    quarantined, \* whether some event is quarantined
    step,        \* where each process is in its operation
    job,         \* the locals of that operation
    crashes      \* how many crashes there have been

outbox == <<receipts, events, quarantined>>
jobs == <<step, job>>
productionVars == <<lifecycle, control, outbox, jobs, crashes>>
vars == <<identityVars, workspaceVars, productionVars>>

Mode == {"active", "paused"}
Operation == Mode \cup {"produce", "recover"}
Step == {"idle", "change", "inspect", "scan", "produce",
         "snapshot", "count", "list", "repair", "wait", "done"}
Outcome == {"none", "completed", "paused", "blocked", "healthy", "reconciled"}

\* `seen`: what the snapshot of a recovery has read.  `todo`: receipts or
\* candidates left.  `wrote`: how many events a recovery has itself published,
\* which the code does not keep.
Sight == {"evidence", "blocked", "mode", "paused"}
NoJob == [op |-> "produce", seen |-> {}, todo |-> {}, before |-> 0, repaired |-> 0,
          existing |-> FALSE, wrote |-> 0, outcome |-> "none"]
Job == [op : Operation, seen : SUBSET Sight, todo : SUBSET Call, before : Nat,
        repaired : Nat, existing : BOOLEAN, wrote : Nat, outcome : Outcome]

TypeOK ==
    /\ IdentityTypeOK
    /\ WorkspaceTypeOK
    /\ lifecycle \in [mode : Mode, revision : 1 .. MaxRevision] \cup {None}
    /\ control \in Proc \cup {Free, Orphan}
    /\ events \subseteq receipts /\ receipts \subseteq Call
    /\ quarantined \in BOOLEAN
    /\ step \in [Proc -> Step]
    /\ job \in [Proc -> Job]
    /\ crashes \in 0 .. MaxCrashes

Init ==
    /\ IdentityInit
    /\ WorkspaceInit
    /\ lifecycle = None
    /\ control = Free
    /\ receipts = {} /\ events = {} /\ quarantined = FALSE
    /\ step = [p \in Proc |-> "idle"]
    /\ job = [p \in Proc |-> NoJob]
    /\ crashes = 0

Paused == lifecycle # None /\ lifecycle.mode = "paused"

Goto(p, there) == step' = [step EXCEPT ![p] = there]

\* A section that first loads the workspace, or throws: the caller's identity
\* has become an old one (or there is no workspace).
WithWorkspace(p) == LoadWorkspace(p) /\ UNCHANGED verified
UseWorkspace(p) == WithWorkspace(p) /\ UNCHANGED identityVars

Begin(p, op, there) ==
    /\ Ready(p) /\ step[p] = "idle" /\ p \notin verified
    /\ job' = [job EXCEPT ![p] = [NoJob EXCEPT !.op = op]]
    /\ Goto(p, there)
    /\ UNCHANGED <<identityVars, workspaceVars, lifecycle, outbox, crashes>>

\* An error leaves whatever the operation holds.
Throw(p) ==
    /\ control' = IF control = p THEN Free ELSE control
    /\ job' = [job EXCEPT ![p] = NoJob]
    /\ Goto(p, "idle")
    /\ UNCHANGED <<identityVars, workspaceVars, lifecycle, crashes>>

-----------------------------------------------------------------------------
(* setLocalWorkspaceProductionModeV1 *)

FaultyBeginSetMode(p, mode) ==
    /\ Begin(p, mode, "change")
    /\ UNCHANGED control

BeginSetMode(p, mode) ==
    /\ control = Free
    /\ control' = p
    /\ Begin(p, mode, "change")

LeaveControl(p) ==
    /\ control' = IF control = p THEN Free ELSE control
    /\ job' = [job EXCEPT ![p] = NoJob]
    /\ Goto(p, "idle")

FaultyInMode(mode) == lifecycle # None /\ lifecycle.mode = mode
InMode(mode) == IF lifecycle = None THEN mode = "active" ELSE lifecycle.mode = mode

\* requireWorkspace, then the lifecycle file, which only the holder of the control
\* lease writes.  The mode that is already there leaves revision and file alone.
ChangeMode(p) ==
    /\ step[p] = "change"
    /\ UseWorkspace(p)
    /\ LET mode == job[p].op
           revision == IF lifecycle = None THEN 0 ELSE lifecycle.revision
       IN  /\ ~InMode(mode) => revision < MaxRevision
           /\ lifecycle' = IF InMode(mode) THEN lifecycle
                           ELSE [mode |-> mode, revision |-> revision + 1]
    /\ LeaveControl(p)
    /\ UNCHANGED <<outbox, crashes>>

-----------------------------------------------------------------------------
(* produceCanonicalReviewedMeasurementsV1 *)

BeginPass(p) ==
    /\ control = Free
    /\ control' = p
    /\ \/ Begin(p, "produce", "inspect")
       \/ /\ step[p] = "wait"
          /\ Goto(p, "inspect")
          /\ UNCHANGED <<identityVars, workspaceVars, lifecycle, outbox, job, crashes>>

\* The outcome of a pass that found production paused, for a produce action and
\* for a recovery that may have repaired receipts before.
FaultyPausedOutcome(j) == "paused"
PausedOutcome(j) == IF j.op = "recover" /\ j.repaired > 0 THEN "reconciled" ELSE "paused"

\* inspectLocalWorkspaceProductionLifecycleV1, and the decision
PauseStopsPass(p) ==
    /\ step[p] = "inspect"
    /\ UseWorkspace(p)
    /\ Paused
    /\ control' = Free
    /\ job' = [job EXCEPT ![p].outcome = PausedOutcome(job[p])]
    /\ Goto(p, "done")
    /\ UNCHANGED <<lifecycle, outbox, crashes>>

PassMayScan(p) ==
    /\ step[p] = "inspect"
    /\ UseWorkspace(p)
    /\ ~Paused
    /\ Goto(p, "scan")
    /\ UNCHANGED <<lifecycle, control, outbox, job, crashes>>

\* The workspace is loaded for its creation time, the scanner's time boundary;
\* the trusted scanner returns whatever candidates the sources hold.
Scan(p, candidates) ==
    /\ step[p] = "scan"
    /\ UseWorkspace(p)
    /\ job' = [job EXCEPT ![p].todo = candidates]
    /\ Goto(p, "produce")
    /\ UNCHANGED <<lifecycle, control, outbox, crashes>>

\* produceLocalReviewedMeasurementV1: a new measurement, or an existing one whose
\* event is published if an earlier attempt did not get that far.  Whether there
\* was an existing one matters to a recovery only.
ProduceOne(p, c) ==
    /\ step[p] = "produce" /\ c \in job[p].todo
    /\ UseWorkspace(p)
    /\ receipts' = receipts \cup {c}
    /\ events' = events \cup {c}
    /\ job' = [job EXCEPT ![p].todo = @ \ {c}, 
                          ![p].existing = @ \/ (job[p].op = "recover" /\ c \in receipts)]
    /\ UNCHANGED <<lifecycle, control, quarantined, step, crashes>>

FaultyProduceInterrupted(p, c) ==
    /\ step[p] = "produce" /\ c \in job[p].todo
    /\ Acceptable(p)
    /\ events' = events \cup {c}
    /\ UNCHANGED <<receipts, quarantined>>
    /\ Throw(p)

\* The enqueue stops after its receipt, and the pass with it.
ProduceInterrupted(p, c) ==
    /\ step[p] = "produce" /\ c \in job[p].todo
    /\ Acceptable(p)
    /\ receipts' = receipts \cup {c}
    /\ UNCHANGED <<events, quarantined>>
    /\ Throw(p)

\* A recovery reports 'reconciled' when it repaired or found something.
FinishPass(p) ==
    /\ step[p] = "produce" /\ job[p].todo = {}
    /\ control' = Free
    /\ job' = [job EXCEPT ![p].outcome =
                  CASE job[p].op = "produce" -> "completed"
                    [] job[p].op = "recover" ->
                         IF job[p].repaired > 0 \/ job[p].existing
                         THEN "reconciled" ELSE "healthy"]
    /\ Goto(p, "done")
    /\ UNCHANGED <<identityVars, workspaceVars, lifecycle, outbox, crashes>>

-----------------------------------------------------------------------------
(* recoverLocalState *)

\* getSnapshot: the workspace first.
BeginRecover(p) ==
    /\ LoadWorkspace(p)
    /\ step[p] = "idle" /\ p \notin verified
    /\ job' = [job EXCEPT ![p] = [NoJob EXCEPT !.op = "recover"]]
    /\ Goto(p, "snapshot")
    /\ UNCHANGED <<identityVars, verified, lifecycle, control, outbox, crashes>>

\* Then the evidence and the lifecycle, at the same time, each after the workspace
\* once more; both decide whether recovery goes on.
Look(p, sight) ==
    /\ step[p] = "snapshot"
    /\ UseWorkspace(p)
    /\ LET seen == job[p].seen \cup sight
       IN  CASE ~({"evidence", "mode"} \subseteq seen) ->
                    /\ job' = [job EXCEPT ![p].seen = seen]
                    /\ UNCHANGED step
             [] {"evidence", "mode"} \subseteq seen /\ seen \cap {"paused", "blocked"} = {} ->
                    /\ job' = [job EXCEPT ![p].seen = {}]
                    /\ Goto(p, "count")
             [] OTHER ->
                    /\ job' = [job EXCEPT ![p].seen = {}, ![p].outcome =
                                   IF "paused" \in seen THEN "paused" ELSE "blocked"]
                    /\ Goto(p, "done")
    /\ UNCHANGED <<lifecycle, control, outbox, crashes>>

LookAtEvidence(p) ==
    /\ "evidence" \notin job[p].seen
    /\ Look(p, {"evidence"} \cup IF quarantined THEN {"blocked"} ELSE {})

LookAtMode(p) ==
    /\ "mode" \notin job[p].seen
    /\ Look(p, {"mode"} \cup IF Paused THEN {"paused"} ELSE {})

\* reconcileMeasurementProductionReceiptsV1: count, list, enqueue each receipt,
\* count again; no lease is held between these.
CountEvents(p) ==
    /\ step[p] = "count"
    /\ ~quarantined
    /\ job' = [job EXCEPT ![p].before = Cardinality(events)]
    /\ Goto(p, "list")
    /\ UNCHANGED <<identityVars, workspaceVars, lifecycle, control, outbox, crashes>>

ListReceipts(p) ==
    /\ step[p] = "list"
    /\ job' = [job EXCEPT ![p].todo = receipts]
    /\ Goto(p, "repair")
    /\ UNCHANGED <<identityVars, workspaceVars, lifecycle, control, outbox, crashes>>

RepairReceipt(p, c) ==
    /\ step[p] = "repair" /\ c \in job[p].todo
    /\ events' = events \cup {c}
    /\ job' = [job EXCEPT ![p].todo = @ \ {c},
                          ![p].wrote = IF c \in events THEN @ ELSE @ + 1]
    /\ UNCHANGED <<identityVars, workspaceVars, lifecycle, control, receipts, quarantined,
                   step, crashes>>

Recount(p) ==
    /\ step[p] = "repair" /\ job[p].todo = {}
    /\ ~quarantined
    /\ job' = [job EXCEPT ![p].repaired = Cardinality(events) - job[p].before,
                          ![p].before = 0]
    /\ Goto(p, "wait")
    /\ UNCHANGED <<identityVars, workspaceVars, lifecycle, control, outbox, crashes>>

-----------------------------------------------------------------------------
(* Failures, and the system *)

\* Any section may throw: a lease that cannot be had, an identity that has become
\* old, unreadable files, quarantined evidence, contradictory counts, a scanner
\* that fails, a clock that went back.
OperationFails(p) ==
    /\ step[p] \notin {"idle", "done"}
    /\ Throw(p)
    /\ UNCHANGED outbox

Return(p) ==
    /\ step[p] = "done"
    /\ Throw(p)
    /\ UNCHANGED outbox

\* A process stops, possibly between a receipt and its event.
Crash(p) ==
    /\ at[p] # "off"
    /\ crashes < MaxCrashes
    /\ crashes' = crashes + 1
    /\ control' = IF control = p THEN Orphan ELSE control
    /\ identityLease' = IF identityLease = p THEN Orphan ELSE identityLease
    /\ receipts' \in {receipts} \cup
           {receipts \cup {c} : c \in IF step[p] = "produce" THEN job[p].todo ELSE {}}
    /\ at' = [at EXCEPT ![p] = "off"]
    /\ key' = [key EXCEPT ![p] = None]
    /\ loaded' = [loaded EXCEPT ![p] = None]
    /\ rotating' = [rotating EXCEPT ![p] = FALSE]
    /\ verified' = verified \ {p}
    /\ step' = [step EXCEPT ![p] = "idle"]
    /\ job' = [job EXCEPT ![p] = NoJob]
    /\ UNCHANGED <<identityFiles, workspace, lifecycle, events, quarantined>>

TakeOverControl ==
    /\ control = Orphan
    /\ control' = Free
    /\ UNCHANGED <<identityVars, workspaceVars, lifecycle, outbox, jobs, crashes>>

Quarantine ==
    /\ Quarantines /\ ~quarantined /\ events # {}
    /\ quarantined' = TRUE
    /\ UNCHANGED <<identityVars, workspaceVars, lifecycle, control, receipts, events,
                   jobs, crashes>>

PassStep(p) ==
    \/ PauseStopsPass(p) \/ PassMayScan(p)
    \/ \E candidates \in SUBSET Call : Scan(p, candidates)
    \/ \E c \in Call : ProduceOne(p, c) \/ ProduceInterrupted(p, c)
    \/ FinishPass(p)

RecoveryStep(p) ==
    \/ LookAtEvidence(p) \/ LookAtMode(p)
    \/ CountEvents(p) \/ ListReceipts(p) \/ Recount(p)
    \/ \E c \in Call : RepairReceipt(p, c)

OperationStep(p) ==
    \/ ChangeMode(p) \/ PassStep(p) \/ RecoveryStep(p)
    \/ OperationFails(p) \/ Return(p)

WorkspaceStep(p) ==
    /\ step[p] = "idle"
    /\ CreateWorkspace(p) \/ VerifyForSoftware(p) \/ UpdateSoftware(p)
    /\ UNCHANGED <<identityVars, productionVars>>

IdentityStep(p) ==
    /\ \/ LoadMasterKey(p)
       \/ \E rotate \in BOOLEAN : BeginOpen(p, rotate)
       \/ OpenStep(p)
       \/ step[p] = "idle" /\ p \notin verified /\ CloseIdentity(p)
    /\ UNCHANGED <<workspaceVars, productionVars>>

TakeOvers ==
    \/ TakeOverControl
    \/ TakeOverIdentity /\ UNCHANGED <<workspaceVars, productionVars>>

Next ==
    \/ \E p \in Proc :
        \/ IdentityStep(p) \/ WorkspaceStep(p) \/ OperationStep(p)
        \/ BeginPass(p) \/ BeginRecover(p) \/ Crash(p)
        \/ \E mode \in Mode : BeginSetMode(p, mode)
    \/ TakeOvers
    \/ Quarantine

Spec == Init /\ [][Next]_vars

-----------------------------------------------------------------------------
(* Properties *)

\* Nothing new is measured while production is paused, whoever was in a pass when
\* the pause was requested ("A pause requested while one atomic production pass
\* is active waits for that pass to finish.  Later passes stop before scanning").
PauseStopsProduction == [][Paused => receipts' = receipts]_receipts

\* The revision counts transitions and nothing else: concurrent and repeated
\* requests for one mode make one transition, starting from active at revision 0.
RevisionCountsTransitions ==
    lifecycle # None => (lifecycle.mode = "paused" <=> lifecycle.revision % 2 = 1)

\* A recovery never denies its own work: it reports at least the events it has
\* published itself, and 'paused', 'blocked' and 'healthy' mean none ("Preserve
\* the repair result honestly rather than claiming a passive no-mutation outcome").
RecoveryHonest ==
    \A p \in Proc : step[p] = "done" /\ job[p].op = "recover" =>
        /\ job[p].wrote <= job[p].repaired
        /\ job[p].outcome # "reconciled" => job[p].wrote = 0 /\ ~job[p].existing
=============================================================================
