-------------------------------- MODULE MCMap --------------------------------
(***************************************************************************)
(* Model values for Map.                                                   *)
(***************************************************************************)
EXTENDS Map, TLC

MapSymmetry == Permutations(Threads) \cup Permutations(Keys) \cup Permutations(Values)
=============================================================================
