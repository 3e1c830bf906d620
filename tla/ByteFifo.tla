------------------------------ MODULE ByteFifo ------------------------------
(***************************************************************************)
(* What a buffer between two sockets promises: the bytes that arrive, here *)
(* numbered in the order of their arrival, leave in that order, each once. *)
(***************************************************************************)
EXTENDS Naturals, Sequences

CONSTANT Sizes \* how many bytes may arrive or leave at once

VARIABLES
  queue,  \* the bytes that have arrived and not left
  arrived \* how many bytes have arrived

vars == <<queue, arrived>>

Init == queue = <<>> /\ arrived = 0

Arrive(n) ==
  /\ queue' = queue \o [k \in 1 .. n |-> arrived + k]
  /\ arrived' = arrived + n

Leave(n) ==
  /\ n <= Len(queue)
  /\ queue' = SubSeq(queue, n + 1, Len(queue))
  /\ UNCHANGED arrived

Next == \E n \in Sizes : Arrive(n) \/ Leave(n)

Spec == Init /\ [][Next]_vars
=============================================================================
