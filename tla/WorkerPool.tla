------------------------------ MODULE WorkerPool ------------------------------
(***************************************************************************)
(* pool::WorkerPool (src/pool/workerpool.{h,cpp}): N threads, each with a  *)
(* bounded task queue of its own, run tasks as coroutines.                 *)
(*                                                                         *)
(* A task queue is a Channel, taken here as the atomic queue FifoChannel   *)
(* that it implements: an operation of the queue is one step, disabled     *)
(* while it would block.  A task is the list of what it does to the pool:  *)
(* "sched" (WorkerPool::sched, the coroutine yields) or a task that it     *)
(* submits itself.  The agents are the workers and the outside clients;    *)
(* pc[a] is the call that agent a is about to make:                        *)
(*   "idle"        a client outside the pool                               *)
(*   "lock"        in submit, about to take the lock of its target         *)
(*   "write"       in submit, holding that lock, in taskq->write           *)
(*   "top"         a worker at the head of its main loop                   *)
(*   "read"        in the loop over the local task queue                   *)
(*   "run"         inside the coroutine cur[w]                             *)
(*   "sched"       past that loop, about to look at t_schedq               *)
(*   "steal"       about to pick a thread to steal from                    *)
(*   "stealLock", "stealRead", "stealWrite"   in workStealing              *)
(*   "last"        about to read the local task queue once more            *)
(*   "exit"        out of the main loop                                    *)
(***************************************************************************)
EXTENDS Integers, Sequences, FiniteSets

CONSTANTS
    N,          \* number of threads
    Cap,        \* capacity of a task queue (1024 in the code)
    Burst,      \* tasks run in a row before a look at t_schedq (10)
    Clients,    \* threads outside the pool that submit tasks
    ClientFlags,    \* the values of nonblock in a client's submit
    TaskFlags,      \* the same for a submit called from a task
    NoAgent,    \* a lock is free
    Tasks,
    NoTask,
    Script      \* what each task does: a sequence over {"sched"} and Tasks

ASSUME PoolAssumption ==
    /\ N \in Nat \ {0} /\ Cap \in Nat \ {0} /\ Burst \in Nat \ {0}
    /\ NoAgent \notin Clients \cup (0..(N - 1))
    /\ Clients \cap (0..(N - 1)) = {}
    /\ ClientFlags \subseteq BOOLEAN /\ TaskFlags \subseteq BOOLEAN
    /\ "sched" \notin Tasks /\ NoTask \notin Tasks
    /\ Script \in [Tasks -> Seq(Tasks \cup {"sched"})]
    \* A task is what one call of submit is given.
    /\ \A s, t \in Tasks : \A k \in DOMAIN Script[s], l \in DOMAIN Script[t] :
          Script[s][k] = Script[t][l] /\ Script[s][k] # "sched" => s = t /\ k = l

VARIABLES
    m_closed,   \* the pool's closed flag
    s_taskId,   \* the task counter, modulo N
    taskq,      \* taskq[w]: the unread tasks of worker w
    qclosed,    \* qclosed[w]: taskq[w] is closed
    lock,       \* lock[w]: the holder of the lock of worker w
    t_schedq,   \* t_schedq[w]: the coroutines of w that have yielded
    cur,        \* cur[w]: the coroutine w is in (meaningful at "run", or in
                \* a submit made from it)
    back,       \* back[w]: where in the main loop cur[w] was started
    burst,      \* burst[w]: tasks run by the current loop over taskq[w]
    loot,       \* loot[w]: victim, how many to steal, what was stolen
    pc,
    sub,        \* sub[a]: the task, the flag and the target of a's submit
    dtor,       \* the destructor: [at |-> ..., i |-> the worker it handles]
    fate        \* history, fate[t]: "new", "accepted", "refused", "finished"

poolVars == <<m_closed, s_taskId, taskq, qclosed, lock>>
workerVars == <<t_schedq, cur, back, burst, loot>>
vars == <<m_closed, s_taskId, taskq, qclosed, lock, t_schedq, cur, back, burst,
          loot, pc, sub, dtor, fate>>

Workers == 0..(N - 1)
Agents == Workers \cup Clients

(* A coroutine: its task and how much of the script it has executed.       *)
Coroutine(t) == [task |-> t, pos |-> 0]
Dead(co) == co.pos = Len(Script[co.task])
NextOp(co) == Script[co.task][co.pos + 1]
Advanced(co) == [co EXCEPT !.pos = @ + 1]

NoCoroutine == [task |-> NoTask, pos |-> 0]
NoSubmit == [task |-> NoTask, nonblock |-> FALSE, target |-> 0]
NoLoot == [from |-> 0, num |-> 0, tasks |-> <<>>]

(* The tasks that only another task submits.                               *)
Nested == UNION {{Script[t][k] : k \in DOMAIN Script[t]} : t \in Tasks}

Init ==
    /\ m_closed = FALSE
    /\ s_taskId = 0
    /\ taskq = [w \in Workers |-> <<>>]
    /\ qclosed = [w \in Workers |-> FALSE]
    /\ lock = [w \in Workers |-> NoAgent]
    /\ t_schedq = [w \in Workers |-> <<>>]
    /\ cur = [w \in Workers |-> NoCoroutine]
    /\ back = [w \in Workers |-> "read"]
    /\ burst = [w \in Workers |-> 0]
    /\ loot = [w \in Workers |-> NoLoot]
    /\ pc = [a \in Agents |-> IF a \in Workers THEN "top" ELSE "idle"]
    /\ sub = [a \in Agents |-> NoSubmit]
    /\ dtor = [at |-> "alive", i |-> 0]
    /\ fate = [t \in Tasks |-> "new"]

-----------------------------------------------------------------------------
(* submit(task, nonblock), called by a client or from inside a task.       *)

Goto(a, l) == pc' = [pc EXCEPT ![a] = l]

\* Mutant of NextTarget: the counter is not reduced modulo the pool's size.
TargetUnwrapped(id) == id + 1

NextTarget(id) == (id + 1) % N

(* The test of m_closed and the choice of the target thread.               *)
BeginSubmit(a, t, nb) ==
    /\ ~m_closed
    /\ s_taskId' = NextTarget(s_taskId)
    /\ sub' = [sub EXCEPT ![a] = [task |-> t, nonblock |-> nb,
                                  target |-> s_taskId]]
    /\ Goto(a, "lock")
    /\ UNCHANGED <<m_closed, taskq, qclosed, lock, fate>>

RefuseSubmit(t) ==
    /\ m_closed
    /\ fate' = [fate EXCEPT ![t] = "refused"]
    /\ UNCHANGED <<poolVars, sub, pc>>

(* A client must not call a pool that is gone.                             *)
ClientSubmit(c, t, nb) ==
    /\ c \in Clients
    /\ dtor.at # "gone"
    /\ pc[c] = "idle"
    /\ fate[t] = "new" /\ t \notin Nested
    /\ \A a \in Agents : sub[a].task # t
    /\ BeginSubmit(c, t, nb) \/ RefuseSubmit(t)
    /\ UNCHANGED <<workerVars, dtor>>

(* readLockGuard: RWLock::rlock takes the lock for writing (lock.cpp:40),  *)
(* so the lock of a thread has one holder at a time.                       *)
SubmitLock(a) ==
    /\ pc[a] = "lock"
    /\ lock[sub[a].target] = NoAgent
    /\ lock' = [lock EXCEPT ![sub[a].target] = a]
    /\ Goto(a, "write")
    /\ UNCHANGED <<m_closed, s_taskId, taskq, qclosed, workerVars, sub, dtor,
                   fate>>

\* Mutant of Released: the guard is never destroyed.
Unreleased(a) == lock

Released(a) == [lock EXCEPT ![sub[a].target] = NoAgent]

(* submit returns: the guard frees the lock, a task goes on with its script.*)
EndSubmit(a, outcome) ==
    /\ lock' = Released(a)
    /\ fate' = [fate EXCEPT ![sub[a].task] = outcome]
    /\ sub' = [sub EXCEPT ![a] = NoSubmit]
    /\ Goto(a, IF a \in Clients THEN "idle" ELSE "run")
    /\ cur' = IF a \in Clients THEN cur
              ELSE [cur EXCEPT ![a] = Advanced(@)]
    /\ UNCHANGED <<m_closed, s_taskId, qclosed, t_schedq, back, burst, loot,
                   dtor>>

(* taskq->write(task, nonblock) on the target; blocks, with the lock held, *)
(* while the queue is full and open and nonblock is FALSE.                 *)
SubmitWrite(a) ==
    LET q == sub[a].target IN
    /\ pc[a] = "write"
    /\ \/ /\ ~qclosed[q] /\ Len(taskq[q]) < Cap
          /\ taskq' = [taskq EXCEPT ![q] = Append(@, sub[a].task)]
          /\ EndSubmit(a, "accepted")
       \/ /\ qclosed[q] \/ (sub[a].nonblock /\ Len(taskq[q]) = Cap)
          /\ EndSubmit(a, "refused")
          /\ UNCHANGED taskq

-----------------------------------------------------------------------------
(* work(): the main loop of a worker.                                      *)

(* A thread that leaves destroys its thread-local t_schedq.                *)
Top(w) ==
    /\ pc[w] = "top"
    /\ \/ m_closed /\ Goto(w, "exit") /\ t_schedq' = [t_schedq EXCEPT ![w] = <<>>]
       \/ ~m_closed /\ Goto(w, "read") /\ UNCHANGED t_schedq
    /\ burst' = [burst EXCEPT ![w] = 0]
    /\ UNCHANGED <<poolVars, cur, back, loot, sub, dtor, fate>>

(* The flag of the two calls of readAndGo, in the order of the main loop   *)
(* (workerpool.cpp:162 and 196).                                           *)
BurstNonblock == FALSE
LastNonblock == TRUE

\* Mutant of Unread: the task is copied, not taken out of the queue.
UnreadAgain(q) == q

Unread(q) == Tail(q)

(* readAndGo when taskq->read succeeds: a coroutine for the task.          *)
ReadAndGo(w, from) ==
    /\ ~qclosed[w] /\ taskq[w] # <<>>
    /\ taskq' = [taskq EXCEPT ![w] = Unread(@)]
    /\ cur' = [cur EXCEPT ![w] = Coroutine(Head(taskq[w]))]
    /\ back' = [back EXCEPT ![w] = from]
    /\ Goto(w, "run")

ReadFails(w, nonblock) == qclosed[w] \/ (nonblock /\ taskq[w] = <<>>)

BurstRead(w) ==
    /\ pc[w] = "read"
    /\ \/ ReadAndGo(w, "read")
       \/ /\ ReadFails(w, BurstNonblock)
          /\ Goto(w, "sched")
          /\ UNCHANGED <<taskq, cur, back>>
    /\ UNCHANGED <<m_closed, s_taskId, qclosed, lock, t_schedq, burst, loot,
                   sub, dtor, fate>>

(* The coroutine leaves the thread: on with the loop it was started from.  *)
BackToLoop(w) ==
    /\ burst' = [burst EXCEPT ![w] = IF back[w] = "read" THEN @ + 1 ELSE @]
    /\ Goto(w, IF back[w] # "read" THEN "top"
               ELSE IF burst[w] + 1 = Burst THEN "sched" ELSE "read")
    /\ cur' = [cur EXCEPT ![w] = NoCoroutine]
    /\ UNCHANGED <<poolVars, back, loot, sub, dtor>>

(* The task returns: the coroutine is Dead.                                *)
Finish(w) ==
    /\ pc[w] = "run" /\ Dead(cur[w])
    /\ fate' = [fate EXCEPT ![cur[w].task] = "finished"]
    /\ BackToLoop(w)
    /\ UNCHANGED t_schedq

(* The task calls sched(): goWorker queues the coroutine on its thread.    *)
Yield(w) ==
    /\ pc[w] = "run" /\ ~Dead(cur[w]) /\ NextOp(cur[w]) = "sched"
    /\ t_schedq' = [t_schedq EXCEPT ![w] = Append(@, Advanced(cur[w]))]
    /\ BackToLoop(w)
    /\ UNCHANGED fate

(* The task submits another one.                                           *)
TaskSubmit(w, nb) ==
    /\ pc[w] = "run" /\ ~Dead(cur[w]) /\ NextOp(cur[w]) \in Tasks
    /\ \/ BeginSubmit(w, NextOp(cur[w]), nb) /\ UNCHANGED cur
       \/ /\ RefuseSubmit(NextOp(cur[w]))
          /\ cur' = [cur EXCEPT ![w] = Advanced(@)]
    /\ UNCHANGED <<t_schedq, back, burst, loot, dtor>>

(* The loop over taskq ended with a failed read: taskqEmpty is TRUE.       *)
TaskqEmpty(w) == burst[w] < Burst

\* Mutant of AfterSchedule: `break` for `continue` when taskq is not empty.
LeaveLoop(w) == IF TaskqEmpty(w) THEN "steal" ELSE "exit"

(* Where an iteration with an empty t_schedq goes on.                      *)
AfterSchedule(w) == IF TaskqEmpty(w) THEN "steal" ELSE "top"

Schedule(w) ==
    /\ pc[w] = "sched"
    /\ \/ /\ t_schedq[w] # <<>>
          /\ cur' = [cur EXCEPT ![w] = Head(t_schedq[w])]
          /\ t_schedq' = [t_schedq EXCEPT ![w] = Tail(@)]
          /\ back' = [back EXCEPT ![w] = "sched"]
          /\ Goto(w, "run")
       \/ /\ t_schedq[w] = <<>>
          /\ Goto(w, AfterSchedule(w))
          /\ UNCHANGED <<t_schedq, cur, back>>
    /\ UNCHANGED <<poolVars, burst, loot, sub, dtor, fate>>

-----------------------------------------------------------------------------
(* workStealing().                                                         *)

(* A random thread other than w; half of what is in its queue.             *)
PickVictim(w) ==
    /\ pc[w] = "steal"
    /\ \/ \E v \in Workers \ {w} :
            LET num == Len(taskq[v]) \div 2 IN
            \/ num = 0 /\ Goto(w, "last") /\ UNCHANGED loot
            \/ /\ num > 0
               /\ loot' = [loot EXCEPT ![w] =
                             [from |-> v, num |-> num, tasks |-> <<>>]]
               /\ Goto(w, "stealLock")
       \/ N = 1 /\ Goto(w, "last") /\ UNCHANGED loot
    /\ UNCHANGED <<poolVars, t_schedq, cur, back, burst, sub, dtor, fate>>

StealLock(w) ==
    /\ pc[w] = "stealLock"
    /\ lock[w] = NoAgent
    /\ lock' = [lock EXCEPT ![w] = w]
    /\ Goto(w, "stealRead")
    /\ UNCHANGED <<m_closed, s_taskId, taskq, qclosed, workerVars, sub, dtor,
                   fate>>

RoomFor(w) == Len(taskq[w]) + loot[w].num <= Cap

\* Mutant of LeftBehind: the stolen tasks stay with the victim.
LeftWhole(q, num) == q

(* What readN leaves in the victim's queue.                                *)
LeftBehind(q, num) == SubSeq(q, num + 1, Len(q))

\* Mutant of ThiefReleased: workStealing returns with its lock held.
ThiefUnreleased(w) == lock

(* workStealing returns: its guard is destroyed.                           *)
ThiefReleased(w) == [lock EXCEPT ![w] = NoAgent]

(* The non-blocking readN on the victim, if its result would fit here.     *)
StealRead(w) ==
    LET v == loot[w].from
        num == loot[w].num IN
    /\ pc[w] = "stealRead"
    /\ IF /\ RoomFor(w)
          /\ ~qclosed[v] /\ num <= Len(taskq[v])
       THEN /\ loot' = [loot EXCEPT ![w].tasks = SubSeq(taskq[v], 1, num)]
            /\ taskq' = [taskq EXCEPT ![v] = LeftBehind(@, num)]
            /\ Goto(w, "stealWrite")
            /\ UNCHANGED lock
       ELSE /\ lock' = ThiefReleased(w)
            /\ loot' = [loot EXCEPT ![w] = NoLoot]
            /\ Goto(w, "last")
            /\ UNCHANGED taskq
    /\ UNCHANGED <<m_closed, s_taskId, qclosed, t_schedq, cur, back, burst,
                   sub, dtor, fate>>

(* The blocking writeN on the own queue, its result ignored.               *)
StealWrite(w) ==
    /\ pc[w] = "stealWrite"
    /\ \/ /\ ~qclosed[w] /\ Len(taskq[w]) + loot[w].num <= Cap
          /\ taskq' = [taskq EXCEPT ![w] = @ \o loot[w].tasks]
       \/ qclosed[w] /\ UNCHANGED taskq
    /\ loot' = [loot EXCEPT ![w] = NoLoot]
    /\ lock' = ThiefReleased(w)
    /\ Goto(w, "last")
    /\ UNCHANGED <<m_closed, s_taskId, qclosed, t_schedq, cur, back, burst,
                   sub, dtor, fate>>

LastRead(w) ==
    /\ pc[w] = "last"
    /\ \/ ReadAndGo(w, "last")
       \/ /\ ReadFails(w, LastNonblock)
          /\ Goto(w, "top")
          /\ UNCHANGED <<taskq, cur, back>>
    /\ UNCHANGED <<m_closed, s_taskId, qclosed, lock, t_schedq, burst, loot,
                   sub, dtor, fate>>

-----------------------------------------------------------------------------
(* ~WorkerPool().                                                          *)

Destroy ==
    /\ dtor.at = "alive"
    /\ m_closed' = TRUE
    /\ dtor' = [at |-> "close", i |-> 0]
    /\ UNCHANGED <<s_taskId, taskq, qclosed, lock, workerVars, pc, sub, fate>>

\* Mutant of ClosedBy: the destructor joins without closing the queue.
NotClosed(i) == qclosed

ClosedBy(i) == [qclosed EXCEPT ![i] = TRUE]

CloseQueue ==
    /\ dtor.at = "close"
    /\ qclosed' = ClosedBy(dtor.i)
    /\ dtor' = [dtor EXCEPT !.at = "join"]
    /\ UNCHANGED <<m_closed, s_taskId, taskq, lock, workerVars, pc, sub, fate>>

Join ==
    /\ dtor.at = "join"
    /\ pc[dtor.i] = "exit"
    /\ dtor' = IF dtor.i = N - 1 THEN [dtor EXCEPT !.at = "gone"]
               ELSE [at |-> "close", i |-> dtor.i + 1]
    /\ UNCHANGED <<poolVars, workerVars, pc, sub, fate>>

-----------------------------------------------------------------------------
WorkerStep(w) ==
    \/ Top(w) \/ BurstRead(w) \/ Finish(w) \/ Yield(w)
    \/ \E nb \in TaskFlags : TaskSubmit(w, nb)
    \/ Schedule(w) \/ PickVictim(w) \/ StealLock(w) \/ StealRead(w)
    \/ StealWrite(w) \/ LastRead(w)

SubmitStep(a) == SubmitLock(a) \/ SubmitWrite(a)

DestructorStep == CloseQueue \/ Join

Next ==
    \/ \E c \in Clients, t \in Tasks, nb \in ClientFlags : ClientSubmit(c, t, nb)
    \/ \E a \in Agents : SubmitStep(a)
    \/ \E w \in Workers : WorkerStep(w)
    \/ Destroy \/ DestructorStep

Spec == Init /\ [][Next]_vars

(* Every thread that can run runs, tasks included, and a destructor that   *)
(* has begun goes on; nobody has to submit or to destroy the pool.         *)
FairSpec ==
    /\ Spec
    /\ \A w \in Workers : WF_vars(WorkerStep(w))
    /\ \A a \in Agents : WF_vars(SubmitStep(a))
    /\ WF_vars(DestructorStep)

-----------------------------------------------------------------------------
Locations == {"idle", "lock", "write", "top", "read", "run", "sched", "steal",
              "stealLock", "stealRead", "stealWrite", "last", "exit"}
Coroutines == [task : Tasks, pos : Nat]

(* The types of the variables; no queue holds more than its capacity.      *)
TypeOK ==
    /\ m_closed \in BOOLEAN
    /\ s_taskId \in Workers
    /\ \A w \in Workers : taskq[w] \in Seq(Tasks) /\ Len(taskq[w]) <= Cap
    /\ qclosed \in [Workers -> BOOLEAN]
    /\ lock \in [Workers -> Agents \cup {NoAgent}]
    /\ t_schedq \in [Workers -> Seq(Coroutines)]
    /\ cur \in [Workers -> Coroutines \cup {NoCoroutine}]
    /\ back \in [Workers -> {"read", "sched", "last"}]
    /\ burst \in [Workers -> 0..Burst]
    /\ loot \in [Workers -> [from : Workers, num : 0..Cap, tasks : Seq(Tasks)]]
    /\ pc \in [Agents -> Locations]
    /\ sub \in [Agents -> [task : Tasks \cup {NoTask}, nonblock : BOOLEAN,
                            target : Workers]]
    /\ dtor \in [at : {"alive", "close", "join", "gone"}, i : Workers]
    /\ fate \in [Tasks -> {"new", "accepted", "refused", "finished"}]

(* The places where the pool holds an accepted task: a slot of a queue, a  *)
(* slot of what a thief carries, a coroutine that runs, one that yielded.  *)
Slots(s, t) == {k \in DOMAIN s : s[k] = t}
Yielded(w, t) == {k \in DOMAIN t_schedq[w] : t_schedq[w][k].task = t}

Queued(t) == UNION {{<<w, "taskq", k>> : k \in Slots(taskq[w], t)}
                    \cup {<<w, "loot", k>> : k \in Slots(loot[w].tasks, t)}
                    : w \in Workers}

Started(t) ==
    {<<w, "cur">> : w \in {v \in Workers : cur[v].task = t}}
    \cup UNION {{<<w, "schedq", k>> : k \in Yielded(w, t)} : w \in Workers}

(* An accepted task is in one place at a time, through reads, yields and   *)
(* thefts by any threads, and it is somewhere as long as the pool is open; *)
(* a task that is not accepted, or is finished, is nowhere.                *)
Conservation ==
    \A t \in Tasks :
        LET n == Cardinality(Queued(t) \cup Started(t)) IN
        IF fate[t] = "accepted" THEN n <= 1 /\ (n = 0 => m_closed) ELSE n = 0

(* The pool implements TaskPool: each task goes once through its life      *)
(* cycle and is dropped only after the destructor has begun.               *)
Status(t) ==
    IF fate[t] # "accepted" THEN fate[t]
    ELSE IF Queued(t) # {} THEN "queued"
    ELSE IF Started(t) # {} THEN "started"
    ELSE "dropped"

Life == INSTANCE TaskPool WITH
    open <- ~m_closed, status <- [t \in Tasks |-> Status(t)]

ImplementsTaskPool == Life!Spec

(* Once begun, the destructor gets every thread to exit and returns.       *)
DestructorReturns == dtor.at # "alive" ~> dtor.at = "gone"
=============================================================================
