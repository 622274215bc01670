------------------------------ MODULE MCConnPool ------------------------------
(***************************************************************************)
(* What a comment says of ConnPool.                                        *)
(***************************************************************************)
EXTENDS ConnPool

(* "The number of connections has not reached maxSize yet" (pool.cpp:128): *)
(* it is at most maxSize afterwards.                                       *)
AtMostMaxSize == Cardinality(Existing) <= m_maxSize
=============================================================================
