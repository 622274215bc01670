------------------------------ MODULE MCChannel ------------------------------
(***************************************************************************)
(* Model values for Channel.                                               *)
(***************************************************************************)
EXTENDS Channel, TLC

(* Batches of no, one and two elements, the longest as long as the ring;   *)
(* two different data are enough to see an order.                          *)
UpToTwo == LET d == CHOOSE x \in Data : TRUE
               e == CHOOSE x \in Data : x # d
           IN  {<<>>, <<d>>, <<e, d>>}

(* Every permutation of the threads: all of them run the same code.        *)
ThreadSymmetry == Permutations(Threads)
=============================================================================
