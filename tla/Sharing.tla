------------------------------ MODULE Sharing ------------------------------
(***************************************************************************)
(* Pairing requests of a dashboard that shares its usage                   *)
(* (src/sharing/share-controller.ts, share-server.ts).                     *)
(*                                                                         *)
(* A device asks to be paired and its HTTPS request stays open until the   *)
(* user has answered, a minute has passed, or sharing is stopped; stopping *)
(* in turn waits for the open requests.  What the peers' file holds, and   *)
(* pairing by PIN, are left out, and starts do not overlap.                *)
(***************************************************************************)
EXTENDS Naturals, FiniteSets

CONSTANTS
    Device,       \* devices, told apart by their certificate
    Request,      \* pairing requests that may be open at a time
    MaxPending    \* requests the user is shown at most (8)

ASSUME SharingAssumption == IsFiniteSet(Request) /\ MaxPending \in Nat \ {0}

VARIABLES
    sharing,      \* no server, one that listens, or one that is closing
    sender,       \* the device of each request
    pairRequest,  \* where each request is
    pending       \* requests the user is shown, each with its timer

shareVars == <<sharing, sender, pairRequest, pending>>

ShareInit ==
    /\ sharing = "off"
    /\ sender \in [Request -> Device]
    /\ pairRequest = [r \in Request |-> "none"]
    /\ pending = {}

\* The request's promise is settled, and its handler goes on.
Settle(R, there) ==
    pairRequest' = [r \in Request |-> IF r \in R THEN there ELSE pairRequest[r]]

-----------------------------------------------------------------------------

\* start(): state is committed once the server listens.
StartSharing ==
    /\ sharing = "off"
    /\ sharing' = "on"
    /\ UNCHANGED <<sender, pairRequest, pending>>

\* POST /api/peer/pair-request over a new connection; the body follows.
SendPairRequest(r) ==
    /\ sharing = "on"
    /\ pairRequest[r] = "none"
    /\ Settle({r}, "sent")
    /\ UNCHANGED <<sharing, sender, pending>>

\* enqueueApproval, when the body has been read: one request of a device, and
\* MaxPending in all.  It may come after stop() has cleared the queue.
EnqueueApproval(r) ==
    /\ pairRequest[r] = "sent"
    /\ IF \/ \E o \in pending : sender[o] = sender[r]
          \/ Cardinality(pending) >= MaxPending
       THEN Settle({r}, "none") /\ UNCHANGED pending
       ELSE Settle({r}, "waiting") /\ pending' = pending \cup {r}
    /\ UNCHANGED <<sharing, sender>>

\* resolvePending, by the user.
ResolvePending(r, approve) ==
    /\ r \in pending
    /\ pending' = pending \ {r}
    /\ Settle({r}, IF approve THEN "saving" ELSE "none")
    /\ UNCHANGED <<sharing, sender>>

\* The timer of a minute.
TimeOut(r) ==
    /\ r \in pending
    /\ pending' = pending \ {r}
    /\ Settle({r}, "none")
    /\ UNCHANGED <<sharing, sender>>

\* pairAndPersist ends, with the token or with an error.
AnswerPaired(r) ==
    /\ pairRequest[r] = "saving"
    /\ Settle({r}, "none")
    /\ UNCHANGED <<sharing, sender, pending>>

FaultyStop ==
    /\ sharing # "off"
    /\ pending' = {}
    /\ sharing' = "closing"
    /\ UNCHANGED <<sender, pairRequest>>

\* stop(), by the user or the idle watch, up to its first await.  A start() from
\* here until the server is closed finds it and does nothing.
Stop ==
    /\ sharing # "off"
    /\ Settle(pending, "none")
    /\ pending' = {}
    /\ sharing' = "closing"
    /\ UNCHANGED sender

\* server.close() returns when no connection is left.
ServerClosed ==
    /\ sharing = "closing"
    /\ \A r \in Request : pairRequest[r] = "none"
    /\ sharing' = "off"
    /\ UNCHANGED <<sender, pairRequest, pending>>

ShareNext ==
    \/ StartSharing \/ Stop \/ ServerClosed
    \/ \E r \in Request :
           \/ SendPairRequest(r) \/ EnqueueApproval(r) \/ TimeOut(r) \/ AnswerPaired(r)
           \/ \E approve \in BOOLEAN : ResolvePending(r, approve)

ShareSpec == ShareInit /\ [][ShareNext]_shareVars

-----------------------------------------------------------------------------
(* Properties *)

\* Stopping and the requests never wait for each other for good: every request is
\* answered and every stop ends, although the user may never answer and a request
\* may join the queue after the stop has emptied it.
SharingSettles ==
    /\ \A r \in Request : pairRequest[r] # "none" ~> pairRequest[r] = "none"
    /\ sharing = "closing" ~> sharing = "off"
=============================================================================
