----------------------------- MODULE MCWorkerPool -----------------------------
(***************************************************************************)
(* Model values for WorkerPool, and what its comments say of it.           *)
(***************************************************************************)
EXTENDS WorkerPool, TLC

CONSTANTS a, b, c, d, e  \* tasks

(* Task a submits b, yields and returns; c yields.                         *)
Mixed == (a :> <<b, "sched">>) @@ (c :> <<"sched">>)
         @@ [t \in Tasks |-> <<>>]

(* Task a submits b and returns.                                           *)
OneSubmits == [t \in Tasks |-> IF t = a THEN <<b>> ELSE <<>>]

(* In Mixed, d and e do the same: they can be exchanged.                   *)
PlainSymmetry == Permutations({d, e})

(* "The closed flag is set, and the running threads that see it leave by   *)
(* themselves" (workerpool.cpp:92): the destructor returns.                *)
ThreadsLeave == DestructorReturns
=============================================================================
