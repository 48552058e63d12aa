---------------------------- MODULE ThreadsQueue ----------------------------
(***************************************************************************)
(* The queues that threads wait in (ThreadsQueue, chlists.c). A thread     *)
(* joins at the end (Append), leaves from the front (Tail), or, when it    *)
(* gives up, from wherever it is.                                          *)
(***************************************************************************)
EXTENDS Integers, Sequences

(* dequeue: t, which is in q, leaves it.                                     *)
Dequeue(q, t) ==
    LET i == CHOOSE i \in DOMAIN q : q[i] = t
    IN  SubSeq(q, 1, i - 1) \o SubSeq(q, i + 1, Len(q))

=============================================================================
