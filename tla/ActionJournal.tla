--------------------------- MODULE ActionJournal ---------------------------
(***************************************************************************)
(* Configuration changes and their undo (src/act/apply.ts, undo.ts,        *)
(* backup.ts, journal.ts).  An action snapshots every file of its plan,    *)
(* applies the plan change by change, and journals itself; undo reverts    *)
(* the changes of a journaled action from its snapshots, newest first.     *)
(*                                                                         *)
(* Files are single files; a directory that is moved and the journal line  *)
(* that is only half written are left out.                                 *)
(***************************************************************************)
EXTENDS Naturals, Sequences, FiniteSets

CONSTANTS
    Actor,       \* processes that apply and undo
    Path,        \* configuration files
    Plan,        \* plans: non-empty sequences of Change
    MaxActions   \* bound on the actions of one behaviour

\* A change writes a new content, named after its action, or moves a file.
Change == {ch \in [op : {"write", "move"}, path : Path, to : Path] :
              ch.op = "write" <=> ch.path = ch.to}

\* Nothing touches a path again to which the same plan has moved a file: only
\* archives move, and each of their destinations is new and claimed once.
Claimed(plan) ==
    \A i, k \in DOMAIN plan :
        i < k /\ plan[i].op = "move" => plan[i].to \notin {plan[k].path, plan[k].to}

ASSUME JournalAssumption ==
    /\ IsFiniteSet(Actor) /\ IsFiniteSet(Path) /\ MaxActions \in Nat
    /\ \A plan \in Plan : plan \in Seq(Change) /\ plan # <<>> /\ Claimed(plan)

VARIABLES
    files,      \* what each path holds
    journal,    \* the last line of each action id, in order
    actionLock, \* owner of .lock, as a set
    actStep,    \* where each process is
    act         \* the record it works on, and how far it is

actVars == <<files, journal, actionLock, actStep, act>>

\* Contents: no file, one the user wrote, one of an action, a half-written one.
Missing == 0
Torn == MaxActions + 1
User(k) == MaxActions + 1 + k
Content == 0 .. MaxActions + 3

\* The backup and the hash of a path are its content.
Paths(plan) == UNION {{plan[i].path, plan[i].to} : i \in DOMAIN plan}
NoAct == [id |-> 0, plan |-> <<>>, backup |-> [f \in Path |-> Missing],
          after |-> <<>>, done |-> 0, torn |-> {}, forced |-> FALSE]

Record == [plan : Plan, backup : [Path -> Content], status : {"applied", "undone"},
           after : Seq(Content)]
ActStep == {"idle", "apply", "applied", "roll back", "rolled back",
            "undo", "undone", "refused", "dead"}

ActTypeOK ==
    /\ files \in [Path -> Content]
    /\ Len(journal) <= MaxActions /\ \A n \in DOMAIN journal : journal[n] \in Record
    /\ Cardinality(actionLock) <= 1 /\ actionLock \subseteq Actor
    /\ actStep \in [Actor -> ActStep]
    /\ \A a \in Actor : act[a].id \in 0 .. MaxActions /\ act[a].torn \subseteq Path

ActInit ==
    /\ files \in [Path -> {Missing, User(1)}]
    /\ journal = <<>>
    /\ actionLock = {}
    /\ actStep = [a \in Actor |-> "idle"]
    /\ act = [a \in Actor |-> NoAct]

To(a, there) == actStep' = [actStep EXCEPT ![a] = there]

-----------------------------------------------------------------------------
(* withLock *)

\* A lock older than LOCK_STALE_MS is one whose owner has died: an action takes
\* less than that minute.
AcquireActionLock(a) ==
    /\ \/ actionLock = {}
       \/ \E o \in actionLock : actStep[o] = "dead"
    /\ actionLock' = {a}

\* The finally block.
Finish(a) ==
    /\ actStep[a] \in {"applied", "rolled back", "undone", "refused"}
    /\ actionLock' = {}
    /\ To(a, "idle")
    /\ act' = [act EXCEPT ![a] = NoAct]
    /\ UNCHANGED <<files, journal>>

-----------------------------------------------------------------------------
(* runAction *)

\* The snapshots are taken before any mutation, one of each path.
BeginAction(a, plan) ==
    /\ actStep[a] = "idle"
    /\ Len(journal) < MaxActions
    /\ AcquireActionLock(a)
    /\ act' = [act EXCEPT ![a] = [NoAct EXCEPT !.id = Len(journal) + 1, !.plan = plan,
                                               !.backup = files]]
    /\ To(a, "apply")
    /\ UNCHANGED <<files, journal>>

CurrentPath(ch) == IF ch.op = "move" THEN ch.to ELSE ch.path

ApplyChange(a) ==
    LET j == act[a] ch == j.plan[j.done + 1] IN
    /\ actStep[a] = "apply" /\ j.done < Len(j.plan)
    /\ IF ch.op = "move"
       THEN /\ files[ch.path] # Missing
            /\ files' = [files EXCEPT ![ch.to] = files[ch.path], ![ch.path] = Missing]
       ELSE files' = [files EXCEPT ![ch.path] = j.id]
    /\ act' = [act EXCEPT ![a].done = @ + 1]
    /\ UNCHANGED <<journal, actionLock, actStep>>

\* The hashes are taken when every change is applied.
JournalAction(a) ==
    LET j == act[a] IN
    /\ actStep[a] = "apply" /\ j.done = Len(j.plan)
    /\ journal' = Append(journal,
                         [plan |-> j.plan, backup |-> j.backup, status |-> "applied",
                          after |-> [i \in DOMAIN j.plan |-> files[CurrentPath(j.plan[i])]]])
    /\ To(a, "applied")
    /\ UNCHANGED <<files, actionLock, act>>

FaultyApplyFails(a) ==
    LET j == act[a] IN
    /\ actStep[a] = "apply"
    /\ To(a, IF j.done < Len(j.plan) THEN "roll back" ELSE "rolled back")
    /\ UNCHANGED <<files, journal, actionLock, act>>

\* A step throws: a write may by then have destroyed what it overwrites.
ApplyFails(a) ==
    LET j == act[a] IN
    /\ actStep[a] = "apply"
    /\ \/ UNCHANGED <<files, act>>
       \/ /\ j.done < Len(j.plan) /\ j.plan[j.done + 1].op = "write"
          /\ files' = [files EXCEPT ![j.plan[j.done + 1].path] = Torn]
          /\ act' = [act EXCEPT ![a].torn = {j.plan[j.done + 1].path}]
    /\ To(a, "roll back")
    /\ UNCHANGED <<journal, actionLock>>

-----------------------------------------------------------------------------
(* revertChange *)

FaultyReverted(ch, backup, now) ==
    CASE ch.op = "write" -> [now EXCEPT ![ch.path] = backup[ch.path]]
      [] ch.op = "move" /\ now[ch.to] # Missing ->
             [now EXCEPT ![ch.path] = now[ch.to], ![ch.to] = Missing]
      [] OTHER -> [now EXCEPT ![ch.path] = IF backup[ch.path] = Missing
                                           THEN @ ELSE backup[ch.path]]

\* A write is reverted from the backup.  A move takes the moved bytes back and
\* restores what they had replaced; if they are gone, the source's backup.
Reverted(ch, backup, now) ==
    CASE ch.op = "write" -> [now EXCEPT ![ch.path] = backup[ch.path]]
      [] ch.op = "move" /\ now[ch.to] # Missing ->
             [now EXCEPT ![ch.path] = now[ch.to], ![ch.to] = backup[ch.to]]
      [] OTHER -> [now EXCEPT ![ch.path] = IF backup[ch.path] = Missing
                                           THEN @ ELSE backup[ch.path]]

\* The changes that were applied, newest first.
RollBack(a) ==
    LET j == act[a] IN
    /\ actStep[a] = "roll back"
    /\ IF j.done = 0
       THEN To(a, "rolled back") /\ UNCHANGED <<files, act>>
       ELSE /\ files' = Reverted(j.plan[j.done], j.backup, files)
            /\ act' = [act EXCEPT ![a].done = @ - 1]
            /\ UNCHANGED actStep
    /\ UNCHANGED <<journal, actionLock>>

-----------------------------------------------------------------------------
(* undoAction *)

\* driftedFiles: a moved file's old place is taken, or a content has changed.  No
\* content is compared for a path that was missing after the action.
Drifted(rec) ==
    \E i \in DOMAIN rec.plan :
        \/ rec.plan[i].op = "move" /\ files[rec.plan[i].path] # Missing
        \/ rec.after[i] # Missing /\ files[CurrentPath(rec.plan[i])] # rec.after[i]

BeginUndo(a, n, force) ==
    LET rec == journal[n] IN
    /\ actStep[a] = "idle"
    /\ AcquireActionLock(a)
    /\ act' = [act EXCEPT ![a] = [id |-> n, plan |-> rec.plan, backup |-> rec.backup,
                                  after |-> rec.after, done |-> Len(rec.plan),
                                  torn |-> {}, forced |-> force]]
    /\ To(a, IF rec.status = "undone" \/ (~force /\ Drifted(rec))
             THEN "refused" ELSE "undo")
    /\ UNCHANGED <<files, journal>>

UndoChange(a) ==
    LET j == act[a] IN
    /\ actStep[a] = "undo" /\ j.done > 0
    /\ files' = Reverted(j.plan[j.done], j.backup, files)
    /\ act' = [act EXCEPT ![a].done = @ - 1]
    /\ UNCHANGED <<journal, actionLock, actStep>>

\* A restore throws half way: undo and roll-back end there, with the journal as it
\* was.
RevertFails(a) ==
    LET j == act[a] IN
    /\ actStep[a] \in {"undo", "roll back"} /\ j.done > 0
    /\ files' = [files EXCEPT ![j.plan[j.done].path] = Torn]
    /\ To(a, "refused")
    /\ UNCHANGED <<journal, actionLock, act>>

\* A status flip is a full replacement line of the same id.
JournalUndo(a) ==
    /\ actStep[a] = "undo" /\ act[a].done = 0
    /\ journal' = [journal EXCEPT ![act[a].id].status = "undone"]
    /\ To(a, "undone")
    /\ UNCHANGED <<files, actionLock, act>>

-----------------------------------------------------------------------------
(* The user edits a file while nothing runs, and a process may die anywhere. *)

UserEdits ==
    /\ \A a \in Actor : actStep[a] \in {"idle", "dead"}
    /\ \E f \in Path : files' = [files EXCEPT ![f] = User(2)]
    /\ UNCHANGED <<journal, actionLock, actStep, act>>

ActorDies(a) ==
    /\ actStep[a] \notin {"idle", "dead"}
    /\ \A o \in Actor : actStep[o] # "dead"
    /\ To(a, "dead")
    /\ act' = [act EXCEPT ![a] = NoAct]
    /\ UNCHANGED <<files, journal, actionLock>>

ActNext ==
    \/ UserEdits
    \/ \E a \in Actor :
           \/ \E plan \in Plan : BeginAction(a, plan)
           \/ \E n \in DOMAIN journal, force \in BOOLEAN : BeginUndo(a, n, force)
           \/ ApplyChange(a) \/ JournalAction(a) \/ ApplyFails(a) \/ RollBack(a)
           \/ UndoChange(a) \/ JournalUndo(a) \/ RevertFails(a) \/ Finish(a) \/ ActorDies(a)

ActSpec == ActInit /\ [][ActNext]_actVars

-----------------------------------------------------------------------------
(* Properties *)

\* An undo that was not forced leaves every file of its action as it was when the
\* action began, whatever other actions, undos, edits and crashes came between:
\* either the drift check refuses, or the snapshots are what to go back to.
UndoRestores ==
    \A a \in Actor :
        actStep[a] = "undone" /\ ~act[a].forced =>
            \A f \in Paths(act[a].plan) : files[f] = act[a].backup[f]

\* An action that throws leaves every file as it found it, but for the one whose
\* own write failed: the changes are reverted in the opposite order.
FailedActionRestores ==
    \A a \in Actor :
        actStep[a] = "rolled back" =>
            \A f \in Path \ act[a].torn : files[f] = act[a].backup[f]
=============================================================================
