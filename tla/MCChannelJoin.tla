---------------------------- MODULE MCChannelJoin ----------------------------
(***************************************************************************)
(* The scenario of testChannel (src/main.cpp:139-192) on Channel: each     *)
(* thread makes one blocking call, the writers together write exactly what *)
(* the readers together read and what the ring holds (there 10 writers of  *)
(* 10, 20 readers of 5, capacity 100), and the main thread joins them all. *)
(***************************************************************************)
EXTENDS Channel

CONSTANTS
    Writers,        \* the threads that write, the others read
    WriteSize,      \* how much each writer writes in one writeN
    ReadSize        \* how much each reader reads in one readN

VARIABLE started    \* the threads whose call has begun

joinVars == <<vars, started>>

(* Batches of one datum repeated: only the sizes matter here.              *)
Batch == [i \in 1..WriteSize |-> CHOOSE d \in Data : TRUE]
Batches == {Batch}

CallOf(t) ==
    IF t \in Writers
    THEN [op |-> "writeN", datas |-> Batch, nonblock |-> FALSE]
    ELSE [op |-> "readN", size |-> ReadSize, nonblock |-> FALSE]

JoinInit == Init /\ started = {}

Begin(t) ==
    /\ t \notin started
    /\ Enter(t, CallOf(t))
    /\ started' = started \cup {t}

Continue(t) == Step(t) /\ UNCHANGED started

Spurious(t) == SpuriousWakeup(t) /\ UNCHANGED started

JoinNext == \E t \in Threads : Begin(t) \/ Continue(t) \/ Spurious(t)

JoinSpec ==
    /\ JoinInit
    /\ [][JoinNext]_joinVars
    /\ \A t \in Threads : WF_joinVars(Begin(t)) /\ WF_joinVars(Continue(t))

(* Every thread comes back from its call, so both loops of joins           *)
(* (src/main.cpp:180-186) end.                                             *)
AllJoined == <>(started = Threads /\ \A t \in Threads : pc[t] = "idle")
=============================================================================
