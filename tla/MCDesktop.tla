------------------------------ MODULE MCDesktop ------------------------------
(***************************************************************************)
(* What one user's processes keep on disk or in memory, for TLC: the       *)
(* workspace, the daily history, the action journal and the quota cache.   *)
(* They share no state, so each behaviour is one of a single component,    *)
(* the one `focus` names, and the state spaces add instead of multiplying. *)
(***************************************************************************)
EXTENDS WorkspaceProduction, DailyHistory, ActionJournal, QuotaService, TLC

CONSTANTS procA, procB, callA, fileA, fileB

VARIABLE focus

ProcSymmetry == Permutations({procA, procB})

Write(x) == [op |-> "write", path |-> x, to |-> x]
Move(x, y) == [op |-> "move", path |-> x, to |-> y]
Plans == {<<Write(fileA)>>, <<Write(fileA), Move(fileA, fileB)>>}

\* Initial choices are those of the component in focus only.
DesktopInit ==
    /\ focus \in {"workspace", "history", "actions", "quota"}
    /\ Init /\ DailyInit /\ ActInit /\ QuotaInit
    /\ focus # "history" => \A h \in Hydrator : host[h] = CHOOSE o \in Host : TRUE
    /\ focus # "actions" => \A x \in Path : files[x] = Missing

LocalState == focus = "workspace" /\ Next
              /\ UNCHANGED <<focus, dailyVars, actVars, quotaVars>>
History == focus = "history" /\ DailyNext
           /\ UNCHANGED <<focus, vars, actVars, quotaVars>>
Actions == focus = "actions" /\ ActNext
           /\ UNCHANGED <<focus, vars, dailyVars, quotaVars>>
Quotas == focus = "quota" /\ QuotaNext
          /\ UNCHANGED <<focus, vars, dailyVars, actVars>>

DesktopNext == LocalState \/ History \/ Actions \/ Quotas

desktopVars == <<focus, vars, dailyVars, actVars, quotaVars>>

\* The state of the component in focus has its type; the others never change.
DesktopTypeOK ==
    /\ focus = "workspace" => TypeOK
    /\ focus = "history" => DailyTypeOK
    /\ focus = "actions" => ActTypeOK
    /\ focus = "quota" => QuotaTypeOK

DesktopSpec == DesktopInit /\ [][DesktopNext]_desktopVars
=============================================================================
