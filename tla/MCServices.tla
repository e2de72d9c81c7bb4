----------------------------- MODULE MCServices -----------------------------
(***************************************************************************)
(* Services that must come to an end, for TLC: cold starts of the session  *)
(* cache, pushes and pairing requests.  They share no state, so each       *)
(* behaviour is one of a single service, the one `focus` names, and the    *)
(* state spaces add instead of multiplying.                                *)
(***************************************************************************)
EXTENDS SessionHydration, SyncPush, Sharing

VARIABLE focus

\* Initial choices are those of the service in focus only.
Init ==
    /\ focus \in {"hydration", "push", "sharing"}
    /\ ColdInit /\ PushInit /\ ShareInit
    /\ focus # "sharing" => \A r \in Request : sender[r] = CHOOSE d \in Device : TRUE

Hydration == focus = "hydration" /\ ColdNext /\ UNCHANGED <<focus, pushVars, shareVars>>
Pushes == focus = "push" /\ PushNext /\ UNCHANGED <<focus, coldVars, shareVars>>
Shares == focus = "sharing" /\ ShareNext /\ UNCHANGED <<focus, coldVars, pushVars>>

Next == Hydration \/ Pushes \/ Shares

vars == <<focus, coldVars, pushVars, shareVars>>

\* A process that hydrates goes on unless it is killed.
FairHydration == \A p \in Starter : WF_coldVars(focus = "hydration" /\ ColdStartStep(p))

\* One user goes on pushing, and the endpoint keeps accepting each call now and
\* then; nothing is assumed of the other one.
FairPush == LET u == CHOOSE u \in Pusher : TRUE IN
            /\ WF_pushVars(focus = "push" /\ Advances(u))
            /\ \A s \in Span : SF_pushVars(focus = "push" /\ s \in batch[u] /\ Accept(u))

\* Bodies arrive or their connection breaks, timers fire, files get written, and
\* a server without connections closes.
FairSharing == /\ WF_shareVars(focus = "sharing" /\ ServerClosed)
               /\ \A r \in Request :
                      /\ WF_shareVars(focus = "sharing" /\ EnqueueApproval(r))
                      /\ WF_shareVars(focus = "sharing" /\ TimeOut(r))
                      /\ WF_shareVars(focus = "sharing" /\ AnswerPaired(r))

Spec == Init /\ [][Next]_vars /\ FairHydration /\ FairPush /\ FairSharing
=============================================================================
