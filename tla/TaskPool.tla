------------------------------- MODULE TaskPool -------------------------------
(***************************************************************************)
(* What pool::WorkerPool promises of the tasks submitted to it: a task     *)
(* that submit accepted is started at most once, and it is never dropped   *)
(* while the pool is open.  A task may be refused, and the pool does not   *)
(* say how many tasks it holds.  A task that was accepted, started or not, *)
(* may be left unfinished when the pool is destroyed.                      *)
(***************************************************************************)
CONSTANT Tasks

VARIABLES
    open,       \* nobody has begun to destroy the pool
    status      \* status[t]: "new", "refused", "queued", "started",
                \* "finished" or "dropped"

vars == <<open, status>>

Init ==
    /\ open = TRUE
    /\ status = [t \in Tasks |-> "new"]

Move(t, from, to) ==
    /\ status[t] = from
    /\ status' = [status EXCEPT ![t] = to]
    /\ UNCHANGED open

Accept(t) == Move(t, "new", "queued")
Refuse(t) == Move(t, "new", "refused")
Start(t) == Move(t, "queued", "started")
Finish(t) == Move(t, "started", "finished")

(* Several tasks can be dropped at once.                                   *)
Drop(ts) ==
    /\ ~open
    /\ \A t \in ts : status[t] \in {"queued", "started"}
    /\ status' = [t \in Tasks |-> IF t \in ts THEN "dropped" ELSE status[t]]
    /\ UNCHANGED open

Close == open /\ open' = FALSE /\ UNCHANGED status

Next ==
    \/ \E t \in Tasks : Accept(t) \/ Refuse(t) \/ Start(t) \/ Finish(t)
    \/ \E ts \in SUBSET Tasks : Drop(ts)
    \/ Close

Spec == Init /\ [][Next]_vars
=============================================================================
