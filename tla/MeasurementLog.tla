--------------------------- MODULE MeasurementLog ---------------------------
(***************************************************************************)
(* What the outbox promises its readers: an append-only log that measures  *)
(* each production key at most once.  A number is reserved, then a record  *)
(* is committed to its key under a reserved number nothing else uses, then *)
(* it is published.  A commitment is never changed and a publication never *)
(* withdrawn; nothing is published that was not committed.                 *)
(***************************************************************************)
EXTENDS Naturals

CONSTANTS Key, Record, None

VARIABLES committed,  \* the one record of each measured key
          published,  \* the records readers see
          frontier    \* every number below it has been reserved

log == <<committed, published, frontier>>

KeyOfRecord(r) == <<r.event.call, r.event.profile>>

Init ==
    /\ committed = [k \in Key |-> None]
    /\ published = {}
    /\ frontier = 1

Reserve ==
    /\ frontier' = frontier + 1
    /\ UNCHANGED <<committed, published>>

Commit(k, r) ==
    /\ committed[k] = None
    /\ KeyOfRecord(r) = k
    /\ r.sequence < frontier
    /\ \A j \in Key : committed[j] # None => committed[j].sequence # r.sequence
    /\ committed' = [committed EXCEPT ![k] = r]
    /\ UNCHANGED <<published, frontier>>

Publish(k) ==
    /\ committed[k] # None
    /\ published' = published \cup {committed[k]}
    /\ UNCHANGED <<committed, frontier>>

Next ==
    \/ Reserve
    \/ \E k \in Key, r \in Record : Commit(k, r)
    \/ \E k \in Key : Publish(k)

Spec == Init /\ [][Next]_log
=============================================================================
