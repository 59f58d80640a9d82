------------------------------ MODULE JobQueue ------------------------------
(***************************************************************************)
(* What the ring of a worker pool promises: a bounded first-in first-out   *)
(* queue that accepts no job once closed, and loses jobs only when it is   *)
(* closed without draining.                                                *)
(***************************************************************************)
EXTENDS Naturals, Sequences

CONSTANTS Jobs, Capacity

VARIABLES queue, closed

Init ==
    /\ queue = <<>>
    /\ closed = FALSE

Enqueue(j) ==
    /\ ~closed
    /\ Len(queue) < Capacity
    /\ queue' = Append(queue, j)
    /\ UNCHANGED closed

Dequeue ==
    /\ queue # <<>>
    /\ queue' = Tail(queue)
    /\ UNCHANGED closed

Close ==
    /\ ~closed
    /\ closed' = TRUE
    /\ queue' \in {queue, <<>>}

Next ==
    \/ \E j \in Jobs : Enqueue(j)
    \/ Dequeue
    \/ Close

Spec == Init /\ [][Next]_<<queue, closed>>
=============================================================================
