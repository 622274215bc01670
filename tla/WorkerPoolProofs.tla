-------------------------- MODULE WorkerPoolProofs --------------------------
(***************************************************************************)
(* Proofs about WorkerPool.  The pool holds its accepted tasks in boxes:   *)
(* the task queues, what a thief carries, the coroutine a worker is in and *)
(* those that have yielded.  A step moves tasks from one box to another.   *)
(***************************************************************************)
EXTENDS WorkerPool, SeqLemmas

-----------------------------------------------------------------------------
(* The types, and what goes with each location.                            *)

WorkerAt == Locations \ {"idle"}
ClientAt == {"idle", "lock", "write"}
Submitting == {"lock", "write"}
InTask == {"run", "lock", "write"}

(* A coroutine is at most at the end of its script.                        *)
Valid == {co \in Coroutines : co.pos <= Len(Script[co.task])}

Types ==
    /\ m_closed \in BOOLEAN
    /\ s_taskId \in Workers
    /\ taskq \in [Workers -> Seq(Tasks)]
    /\ \A w \in Workers : Len(taskq[w]) <= Cap
    /\ qclosed \in [Workers -> BOOLEAN]
    /\ lock \in [Workers -> Agents \cup {NoAgent}]
    /\ t_schedq \in [Workers -> Seq(Valid)]
    /\ cur \in [Workers -> Valid \cup {NoCoroutine}]
    /\ back \in [Workers -> {"read", "sched", "last"}]
    /\ burst \in [Workers -> 0..Burst]
    /\ loot \in [Workers -> [from : Workers, num : 0..Cap, tasks : Seq(Tasks)]]
    /\ pc \in [Agents -> Locations]
    /\ sub \in [Agents -> [task : Tasks \cup {NoTask}, nonblock : BOOLEAN, target : Workers]]
    /\ dtor \in [at : {"alive", "close", "join", "gone"}, i : Workers]
    /\ fate \in [Tasks -> {"new", "accepted", "refused", "finished"}]

Places ==
    /\ \A w \in Workers :
          /\ pc[w] \in WorkerAt
          /\ cur[w] # NoCoroutine <=> pc[w] \in InTask
          /\ pc[w] = "read" => burst[w] < Burst
          /\ pc[w] \in InTask /\ back[w] = "read" => burst[w] < Burst
          /\ pc[w] = "stealWrite" => Len(loot[w].tasks) = loot[w].num
          /\ pc[w] # "stealWrite" => loot[w].tasks = <<>>
    /\ \A c \in Clients : pc[c] \in ClientAt
    /\ \A a \in Agents : pc[a] \in Submitting <=> sub[a].task # NoTask

(* The lock of a queue that is written to.                                 *)
Locked ==
    /\ \A a \in Agents : pc[a] = "write" => lock[sub[a].target] = a
    /\ \A w \in Workers : pc[w] \in {"stealRead", "stealWrite"} => lock[w] = w

Closing ==
    /\ dtor.at # "alive" => m_closed
    /\ \A w \in Workers : qclosed[w] => m_closed

-----------------------------------------------------------------------------
(* The boxes.                                                              *)

Boxes == {"taskq", "loot", "cur", "schedq"} \X Workers

TasksOf(q) == {q[k].task : k \in DOMAIN q}

Held ==
    [b \in Boxes |->
        CASE b[1] = "taskq" -> ElemsOf(taskq[b[2]])
          [] b[1] = "loot" -> ElemsOf(loot[b[2]].tasks)
          [] b[1] = "cur" -> {cur[b[2]].task} \cap Tasks
          [] b[1] = "schedq" -> TasksOf(t_schedq[b[2]])]

(* A task is in one box, once, and in a box if and only if it is accepted, *)
(* those that a closed pool has dropped aside.                             *)
Apart(h) == \A b, c \in Boxes : b # c => h[b] \cap h[c] = {}

Once ==
    /\ Apart(Held)
    /\ \A w \in Workers :
          /\ Distinct(taskq[w]) /\ Distinct(loot[w].tasks)
          /\ \A k, l \in DOMAIN t_schedq[w] : t_schedq[w][k].task = t_schedq[w][l].task => k = l
    /\ \A b \in Boxes : \A t \in Held[b] : fate[t] = "accepted"
    /\ \A t \in Tasks : fate[t] = "accepted" /\ ~m_closed => \E b \in Boxes : t \in Held[b]

(* What task s has not submitted after n steps of its script is new.       *)
Ahead(s, n) ==
    \A k \in DOMAIN Script[s] : k > n /\ Script[s][k] \in Tasks => fate[Script[s][k]] = "new"

Scripts ==
    /\ \A t \in Tasks : fate[t] = "new" => Ahead(t, 0)
    /\ \A w \in Workers :
          /\ \A t \in Held[<<"taskq", w>>] \cup Held[<<"loot", w>>] : Ahead(t, 0)
          /\ cur[w] # NoCoroutine => Ahead(cur[w].task, cur[w].pos)
          /\ \A k \in DOMAIN t_schedq[w] : Ahead(t_schedq[w][k].task, t_schedq[w][k].pos)

Submits ==
    /\ \A c \in Clients : sub[c].task # NoTask =>
          /\ sub[c].task \notin Nested /\ fate[sub[c].task] = "new"
          /\ \A d \in Clients : sub[d].task = sub[c].task => c = d
    /\ \A w \in Workers : pc[w] \in Submitting =>
          ~Dead(cur[w]) /\ NextOp(cur[w]) = sub[w].task

IndInv == Types /\ Places /\ Locked /\ Closing /\ Once /\ Scripts /\ Submits

-----------------------------------------------------------------------------
(* What a step does to the boxes: nothing; tasks go from one to another,   *)
(* and a queued one that is started alone; a task is finished, or tasks    *)
(* are dropped by a closed pool; a new task is accepted or refused.        *)

Kind(b) == IF b[1] \in {"taskq", "loot"} THEN "queued" ELSE "started"

Still == Held' = Held /\ UNCHANGED <<fate, m_closed>>

Starts(src, dst, X) ==
    \/ Kind(src) = Kind(dst)
    \/ Kind(src) = "queued" /\ Kind(dst) = "started" /\ \E t \in Tasks : X = {t}

Moves(src, dst, X) ==
    /\ X \subseteq Held[src]
    /\ Held'[src] = Held[src] \ X /\ Held'[dst] = Held[dst] \cup X
    /\ \A b \in Boxes : b # src /\ b # dst => Held'[b] = Held[b]
    /\ UNCHANGED <<fate, m_closed>>

Leaves(src, X) ==
    /\ X \subseteq Held[src] /\ Held'[src] = Held[src] \ X
    /\ \A b \in Boxes : b # src => Held'[b] = Held[b]
    /\ m_closed' = m_closed
    /\ \/ m_closed /\ fate' = fate
       \/ \E t \in Tasks : /\ X = {t} /\ Kind(src) = "started"
                            /\ fate' = [fate EXCEPT ![t] = "finished"]

Refused(t) ==
    Held' = Held /\ fate' = [fate EXCEPT ![t] = "refused"]

Accepted(t) ==
    /\ \E q \in Workers : \A b \in Boxes :
          Held'[b] = IF b = <<"taskq", q>> THEN Held[b] \cup {t} ELSE Held[b]
    /\ fate' = [fate EXCEPT ![t] = "accepted"]

BoxStep ==
    \/ Still
    \/ \E src, dst \in Boxes : \E X : src # dst /\ Moves(src, dst, X) /\ Starts(src, dst, X)
    \/ \E src \in Boxes : \E X : Leaves(src, X)
    \/ \E t \in Tasks : m_closed' = m_closed /\ fate[t] = "new" /\ (Refused(t) \/ Accepted(t))

-----------------------------------------------------------------------------
(* Lemmas about the boxes.                                                 *)

LEMMA BoxesHeld ==
    \A w \in Workers :
        /\ Held[<<"taskq", w>>] = ElemsOf(taskq[w])
        /\ Held[<<"loot", w>>] = ElemsOf(loot[w].tasks)
        /\ Held[<<"cur", w>>] = {cur[w].task} \cap Tasks
        /\ Held[<<"schedq", w>>] = TasksOf(t_schedq[w])
  BY DEF Held, Boxes

LEMMA BoxesHeldNext ==
    \A w \in Workers :
        /\ Held'[<<"taskq", w>>] = ElemsOf(taskq'[w])
        /\ Held'[<<"loot", w>>] = ElemsOf(loot'[w].tasks)
        /\ Held'[<<"cur", w>>] = {cur'[w].task} \cap Tasks
        /\ Held'[<<"schedq", w>>] = TasksOf(t_schedq'[w])
  BY DEF Held, Boxes

(* The boxes that a step does not touch.                                   *)
LEMMA SameBoxes ==
    /\ \A w \in Workers : taskq'[w] = taskq[w] => Held'[<<"taskq", w>>] = Held[<<"taskq", w>>]
    /\ \A w \in Workers : loot'[w].tasks = loot[w].tasks => Held'[<<"loot", w>>] = Held[<<"loot", w>>]
    /\ \A w \in Workers : cur'[w].task = cur[w].task => Held'[<<"cur", w>>] = Held[<<"cur", w>>]
    /\ \A w \in Workers : t_schedq'[w] = t_schedq[w] => Held'[<<"schedq", w>>] = Held[<<"schedq", w>>]
<1>1. ASSUME NEW w \in Workers, taskq'[w] = taskq[w]
      PROVE  Held'[<<"taskq", w>>] = Held[<<"taskq", w>>]
  <2>1. Held[<<"taskq", w>>] = ElemsOf(taskq[w]) /\ Held'[<<"taskq", w>>] = ElemsOf(taskq'[w])
    BY BoxesHeld, BoxesHeldNext
  <2> QED
    BY <1>1, <2>1
<1>2. ASSUME NEW w \in Workers, loot'[w].tasks = loot[w].tasks
      PROVE  Held'[<<"loot", w>>] = Held[<<"loot", w>>]
  <2>1. /\ Held[<<"loot", w>>] = ElemsOf(loot[w].tasks)
        /\ Held'[<<"loot", w>>] = ElemsOf(loot'[w].tasks)
    BY BoxesHeld, BoxesHeldNext
  <2> QED
    BY <1>2, <2>1
<1>3. ASSUME NEW w \in Workers, cur'[w].task = cur[w].task
      PROVE  Held'[<<"cur", w>>] = Held[<<"cur", w>>]
  <2>1. /\ Held[<<"cur", w>>] = {cur[w].task} \cap Tasks
        /\ Held'[<<"cur", w>>] = {cur'[w].task} \cap Tasks
    BY BoxesHeld, BoxesHeldNext
  <2> QED
    BY <1>3, <2>1
<1>4. ASSUME NEW w \in Workers, t_schedq'[w] = t_schedq[w]
      PROVE  Held'[<<"schedq", w>>] = Held[<<"schedq", w>>]
  <2>1. /\ Held[<<"schedq", w>>] = TasksOf(t_schedq[w])
        /\ Held'[<<"schedq", w>>] = TasksOf(t_schedq'[w])
    BY BoxesHeld, BoxesHeldNext
  <2> QED
    BY <1>4, <2>1
<1> QED
  BY <1>1, <1>2, <1>3, <1>4

LEMMA EachBox ==
    \A b \in Boxes : \E w \in Workers :
        b \in {<<"taskq", w>>, <<"loot", w>>, <<"cur", w>>, <<"schedq", w>>}
  BY DEF Boxes

LEMMA BoxesDiffer ==
    ASSUME NEW v \in Workers, NEW w \in Workers
    PROVE  /\ <<"taskq", v>> # <<"loot", w>> /\ <<"taskq", v>> # <<"cur", w>>
           /\ <<"taskq", v>> # <<"schedq", w>> /\ <<"loot", v>> # <<"cur", w>>
           /\ <<"loot", v>> # <<"schedq", w>> /\ <<"cur", v>> # <<"schedq", w>>
           /\ v # w => /\ <<"taskq", v>> # <<"taskq", w>> /\ <<"loot", v>> # <<"loot", w>>
                       /\ <<"cur", v>> # <<"cur", w>> /\ <<"schedq", v>> # <<"schedq", w>>
  OBVIOUS

LEMMA KindOf ==
    \A w : /\ Kind(<<"taskq", w>>) = "queued" /\ Kind(<<"loot", w>>) = "queued"
           /\ Kind(<<"cur", w>>) = "started" /\ Kind(<<"schedq", w>>) = "started"
  BY DEF Kind

(* Tasks move to dst, out of a box or from outside: nothing gets in a      *)
(* second box.                                                             *)
LEMMA MoveApart ==
    ASSUME NEW h, NEW k, NEW dst, NEW X, Apart(h),
           \A b \in Boxes : b # dst => k[b] \subseteq h[b] \ X,
           \A b \in Boxes : b = dst => k[b] \subseteq h[b] \cup X
    PROVE  Apart(k)
<1> SUFFICES ASSUME NEW b \in Boxes, NEW c \in Boxes, b # c, NEW t, t \in k[b], t \in k[c]
             PROVE  FALSE
  BY DEF Apart
<1>1. b = dst => t \in h[c] /\ t \notin X /\ t \in h[b]
  OBVIOUS
<1>2. c = dst => t \in h[b] /\ t \notin X /\ t \in h[c]
  OBVIOUS
<1>3. b # dst /\ c # dst => t \in h[b] /\ t \in h[c]
  OBVIOUS
<1> QED
  BY <1>1, <1>2, <1>3 DEF Apart

(* Steps that move no task.                                                *)
LEMMA SameOnce ==
    ASSUME IndInv, UNCHANGED <<taskq, cur, t_schedq, fate>>,
           \A w \in Workers : loot'[w].tasks = loot[w].tasks, m_closed => m_closed'
    PROVE  Once' /\ Scripts' /\ (m_closed' = m_closed => BoxStep)
<1>1. Held' = Held
  BY DEF Held, Boxes
<1>2. \A t, n : Ahead(t, n)' <=> Ahead(t, n)
  BY DEF Ahead
<1>3. Once'
  BY <1>1 DEF IndInv, Once, Apart
<1>4. Scripts'
  BY <1>1, <1>2 DEF IndInv, Scripts
<1>5. m_closed' = m_closed => BoxStep
  BY <1>1 DEF BoxStep, Still
<1> QED
  BY <1>3, <1>4, <1>5

(* A task that changes its fate from "new" was in nobody's script, or is   *)
(* what w submits.                                                         *)
LEMMA ClientAhead ==
    ASSUME NEW t \in Tasks, t \notin Nested, NEW x, IndInv, fate' = [fate EXCEPT ![t] = x]
    PROVE  \A s \in Tasks, n \in Nat : Ahead(s, n) => Ahead(s, n)'
<1>1. \A s \in Tasks : \A k \in DOMAIN Script[s] : Script[s][k] # t
  BY DEF Nested
<1> QED
  BY <1>1 DEF Ahead, IndInv, Types

LEMMA TaskAhead ==
    ASSUME NEW w \in Workers, NEW t \in Tasks, NEW x, IndInv, cur[w] # NoCoroutine,
           ~Dead(cur[w]), NextOp(cur[w]) = t, fate' = [fate EXCEPT ![t] = x]
    PROVE  /\ \A s \in Tasks, n \in Nat : Ahead(s, n) /\ s # cur[w].task => Ahead(s, n)'
           /\ \A s, n : s = cur[w].task /\ n = cur[w].pos + 1 => Ahead(s, n)'
<1> DEFINE c == cur[w]
<1>1. /\ c \in Valid /\ c.task \in Tasks /\ c.pos \in Nat
      /\ c.pos + 1 \in DOMAIN Script[c.task] /\ Script[c.task][c.pos + 1] = t
  <2>1. c \in Valid /\ c.task \in Tasks /\ c.pos \in Nat /\ c.pos <= Len(Script[c.task])
    BY DEF IndInv, Types, Valid, Coroutines
  <2>2. Script[c.task] \in Seq(Tasks \cup {"sched"}) /\ c.pos # Len(Script[c.task])
    BY <2>1, PoolAssumption DEF Dead
  <2>3. c.pos + 1 \in 1..Len(Script[c.task])
    BY <2>1, <2>2
  <2> QED
    BY <2>1, <2>2, <2>3 DEF NextOp
<1>2. t # "sched"
  BY PoolAssumption
<1>3. \A s \in Tasks : \A k \in DOMAIN Script[s] :
          Script[s][k] = t => s = c.task /\ k = c.pos + 1
  BY <1>1, <1>2, PoolAssumption
<1>4. \A s \in Tasks : \A k \in DOMAIN Script[s] : k \in Nat
  BY PoolAssumption
<1>5. Ahead(c.task, c.pos)
  BY DEF IndInv, Scripts
<1>6. \A u \in Tasks : u # t => fate'[u] = fate[u]
  BY DEF IndInv, Types
<1>7. \A s \in Tasks, n \in Nat : Ahead(s, n) /\ s # c.task => Ahead(s, n)'
  BY <1>3, <1>6 DEF Ahead
<1>8. \A k \in DOMAIN Script[c.task] :
          k > c.pos + 1 /\ Script[c.task][k] \in Tasks => fate'[Script[c.task][k]] = "new"
  BY <1>1, <1>3, <1>4, <1>5, <1>6 DEF Ahead
<1> QED
  BY <1>7, <1>8 DEF Ahead

-----------------------------------------------------------------------------
LEMMA InitInv == Init => IndInv
<1> SUFFICES ASSUME Init PROVE IndInv
  OBVIOUS
<1>1. 0 \in Workers /\ 0 \in 0..Burst /\ 0 \in 0..Cap /\ 0 < Burst
  BY PoolAssumption DEF Workers
<1>2. Types
  <2>1. /\ NoLoot \in [from : Workers, num : 0..Cap, tasks : Seq(Tasks)]
        /\ NoSubmit \in [task : Tasks \cup {NoTask}, nonblock : BOOLEAN, target : Workers]
        /\ Workers \subseteq Agents
    BY <1>1 DEF NoLoot, NoSubmit, Agents
  <2>2. /\ \A w \in Workers : Len(taskq[w]) <= Cap
        /\ taskq \in [Workers -> Seq(Tasks)] /\ t_schedq \in [Workers -> Seq(Valid)]
    BY <1>1, PoolAssumption DEF Init
  <2>3. /\ pc \in [Agents -> Locations]
        /\ sub \in [Agents -> [task : Tasks \cup {NoTask}, nonblock : BOOLEAN, target : Workers]]
        /\ loot \in [Workers -> [from : Workers, num : 0..Cap, tasks : Seq(Tasks)]]
    BY <2>1 DEF Init, Locations
  <2> QED
    BY <1>1, <2>2, <2>3 DEF Init, Types
<1>3. Places
  BY <1>1, PoolAssumption
     DEF Init, Places, Agents, NoLoot, NoSubmit, NoCoroutine, WorkerAt, ClientAt, Submitting,
         InTask, Locations, Workers
<1>4. Locked
  BY PoolAssumption DEF Init, Locked, Agents, Workers
<1>5. Closing
  BY DEF Init, Closing
<1>6. \A b \in Boxes : Held[b] = {}
  <2> SUFFICES ASSUME NEW w \in Workers
               PROVE  /\ Held[<<"taskq", w>>] = {} /\ Held[<<"loot", w>>] = {}
                      /\ Held[<<"cur", w>>] = {} /\ Held[<<"schedq", w>>] = {}
    BY EachBox
  <2> QED
    <3>1. taskq[w] = <<>> /\ loot[w].tasks = <<>> /\ t_schedq[w] = <<>> /\ cur[w].task = NoTask
      BY DEF Init, NoLoot, NoCoroutine
    <3> QED
      BY <3>1, BoxesHeld, PoolAssumption DEF ElemsOf, TasksOf
<1>7. Once
  BY <1>6 DEF Init, Once, Apart, Distinct, NoLoot
<1>8. Scripts
  <2>1. \A t \in Tasks : Ahead(t, 0)
    BY PoolAssumption DEF Init, Ahead
  <2>2. \A w \in Workers : Held[<<"taskq", w>>] = {} /\ Held[<<"loot", w>>] = {}
    BY <1>6 DEF Boxes
  <2> QED
    BY <2>1, <2>2 DEF Init, Scripts
<1>9. Submits
  BY PoolAssumption DEF Init, Submits, NoSubmit, Agents, Submitting, Workers
<1> QED
  BY <1>2, <1>3, <1>4, <1>5, <1>7, <1>8, <1>9 DEF IndInv

-----------------------------------------------------------------------------
(* The destructor.                                                         *)

LEMMA DestructorInv ==
    IndInv /\ (UNCHANGED vars \/ Destroy \/ CloseQueue \/ Join) => IndInv'
<1> SUFFICES ASSUME IndInv, UNCHANGED vars \/ Destroy \/ CloseQueue \/ Join PROVE IndInv'
  OBVIOUS
<1> USE DEF vars, poolVars, workerVars, Destroy, CloseQueue, Join
<1>1. /\ UNCHANGED <<s_taskId, taskq, lock, t_schedq, cur, back, burst, loot, pc, sub, fate>>
      /\ m_closed => m_closed'
  OBVIOUS
<1>2. /\ m_closed' \in BOOLEAN /\ qclosed' \in [Workers -> BOOLEAN]
      /\ dtor' \in [at : {"alive", "close", "join", "gone"}, i : Workers]
  <2>1. CASE UNCHANGED vars
    BY <2>1 DEF IndInv, Types
  <2>2. CASE Destroy
    BY <2>2, PoolAssumption DEF IndInv, Types, Workers
  <2>3. CASE CloseQueue
    BY <2>3 DEF IndInv, Types, ClosedBy
  <2>4. CASE Join
    <3>1. dtor.i \in Workers /\ (dtor.i # N - 1 => dtor.i + 1 \in Workers)
      <4>1. dtor.i \in 0..(N - 1) /\ N \in Nat
        BY PoolAssumption DEF IndInv, Types, Workers
      <4> QED
        BY <4>1 DEF Workers
    <3>2. dtor' \in [at : {"alive", "close", "join", "gone"}, i : Workers]
      BY <2>4, <3>1 DEF IndInv, Types
    <3> QED
      BY <2>4, <3>2 DEF IndInv, Types
  <2> QED
    BY <2>1, <2>2, <2>3, <2>4
<1>3. Types'
  BY <1>1, <1>2 DEF IndInv, Types
<1>4. Places' /\ Locked' /\ Submits'
  BY <1>1 DEF IndInv, Places, Locked, Submits
<1>5. Closing'
  <2>1. dtor'.at # "alive" => m_closed'
    BY DEF IndInv, Types, Closing
  <2>2. \A w \in Workers : qclosed'[w] => m_closed'
    BY DEF IndInv, Types, Closing, ClosedBy
  <2> QED
    BY <2>1, <2>2 DEF Closing
<1>6. Once' /\ Scripts'
  BY <1>1, SameOnce
<1> QED
  BY <1>3, <1>4, <1>5, <1>6 DEF IndInv

-----------------------------------------------------------------------------
(* submit.                                                                 *)

LEMMA TargetInWorkers == \A i \in Workers : NextTarget(i) \in Workers
<1> SUFFICES ASSUME NEW i \in Workers PROVE NextTarget(i) \in Workers
  OBVIOUS
<1>1. N \in Nat /\ N > 0 /\ i + 1 \in Nat
  BY PoolAssumption DEF Workers
<1>2. (i + 1) % N \in 0..(N - 1)
  BY <1>1
<1> QED
  BY <1>2 DEF NextTarget, Workers

(* What a task submits is its own and new.                                 *)
LEMMA TaskSubmits ==
    ASSUME IndInv, NEW w \in Workers, NEW t \in Tasks,
           cur[w] # NoCoroutine, ~Dead(cur[w]), NextOp(cur[w]) = t
    PROVE  /\ cur[w] \in Valid /\ cur[w].task \in Tasks
           /\ Advanced(cur[w]) \in Valid /\ Advanced(cur[w]).task = cur[w].task
           /\ Advanced(cur[w]).pos = cur[w].pos + 1
           /\ Advanced(cur[w]) # NoCoroutine
           /\ fate[t] = "new" /\ t \in Nested
<1>1. cur[w] \in Valid
  BY DEF IndInv, Types
<1>2. PICK s \in Tasks, n \in Nat : cur[w] = [task |-> s, pos |-> n] /\ n <= Len(Script[s])
  BY <1>1 DEF Valid, Coroutines
<1>3. Script[s] \in Seq(Tasks \cup {"sched"}) /\ n # Len(Script[s])
  BY <1>2, PoolAssumption DEF Dead
<1>4. n + 1 \in 1..Len(Script[s]) /\ n + 1 <= Len(Script[s]) /\ n + 1 > n
  BY <1>2, <1>3
<1>5. n + 1 \in DOMAIN Script[s] /\ Script[s][n + 1] = t
  BY <1>2, <1>3, <1>4 DEF NextOp
<1>6. Advanced(cur[w]) = [task |-> s, pos |-> n + 1]
  BY <1>2 DEF Advanced
<1>7. [task |-> s, pos |-> n + 1] \in Valid
  BY <1>2, <1>4 DEF Valid, Coroutines
<1>8. Ahead(s, n)
  <2>1. Ahead(cur[w].task, cur[w].pos)
    BY DEF IndInv, Scripts
  <2>2. cur[w].task = s /\ cur[w].pos = n
    BY <1>2
  <2> QED
    BY <2>1, <2>2
<1>9. fate[t] = "new"
  BY <1>4, <1>5, <1>8 DEF Ahead
<1>10. t \in Nested
  BY <1>5 DEF Nested
<1>11. [task |-> s, pos |-> n + 1] # NoCoroutine
  BY <1>2, PoolAssumption DEF NoCoroutine
<1> QED
  BY <1>1, <1>2, <1>6, <1>7, <1>9, <1>10, <1>11

(* The coroutine that a worker is in is nowhere else.                      *)
LEMMA OneCoroutine ==
    ASSUME IndInv, NEW w \in Workers, NEW s \in Tasks, cur[w].task = s
    PROVE  /\ fate[s] = "accepted"
           /\ \A v \in Workers :
                 /\ s \notin ElemsOf(taskq[v]) /\ s \notin ElemsOf(loot[v].tasks)
                 /\ v # w => cur[v].task # s
                 /\ \A k \in DOMAIN t_schedq[v] : t_schedq[v][k].task # s
<1>1. <<"cur", w>> \in Boxes /\ s \in Held[<<"cur", w>>]
  BY BoxesHeld DEF Boxes
<1>2. fate[s] = "accepted"
  BY <1>1 DEF IndInv, Once
<1>3. ASSUME NEW v \in Workers
      PROVE  /\ s \notin ElemsOf(taskq[v]) /\ s \notin ElemsOf(loot[v].tasks)
             /\ v # w => cur[v].task # s
             /\ \A k \in DOMAIN t_schedq[v] : t_schedq[v][k].task # s
  <2>1. \A b \in Boxes : b # <<"cur", w>> => s \notin Held[b]
    BY <1>1 DEF IndInv, Once, Apart
  <2>2. /\ s \notin Held[<<"taskq", v>>] /\ s \notin Held[<<"loot", v>>]
        /\ s \notin Held[<<"schedq", v>>] /\ (v # w => s \notin Held[<<"cur", v>>])
    BY <2>1, BoxesDiffer DEF Boxes
  <2> QED
    BY <2>2, BoxesHeld DEF TasksOf
<1> QED
  BY <1>2, <1>3

(* The task t gets another fate than "new", and who submitted it goes on.  *)
Settles(a, t, x) ==
    /\ fate[t] = "new"
    /\ fate' = [fate EXCEPT ![t] = x]
    /\ \/ a \in Clients /\ t \notin Nested /\ cur' = cur
       \/ /\ a \in Workers /\ cur[a] # NoCoroutine
          /\ ~Dead(cur[a]) /\ NextOp(cur[a]) = t
          /\ cur' = [cur EXCEPT ![a] = Advanced(@)]

LEMMA SettledScripts ==
    ASSUME IndInv, NEW a \in Agents, NEW t \in Tasks, NEW x \in {"accepted", "refused"},
           Settles(a, t, x), UNCHANGED <<t_schedq, loot>>,
           \A v \in Workers : ElemsOf(taskq'[v]) \subseteq ElemsOf(taskq[v]) \cup {t}
    PROVE  Scripts'
<1>1. PICK s : /\ \A u \in Tasks, n \in Nat : Ahead(u, n) /\ u # s => Ahead(u, n)'
               /\ s \in Tasks => a \in Workers /\ s = cur[a].task
               /\ s \notin Tasks => cur' = cur
               /\ s \in Tasks => /\ cur' = [cur EXCEPT ![a] = Advanced(cur[a])]
                                 /\ \A n : n = cur[a].pos + 1 => Ahead(s, n)'
                                 /\ cur[a] # NoCoroutine
                                 /\ Advanced(cur[a]).task = s
                                 /\ Advanced(cur[a]).pos = cur[a].pos + 1
  <2>1. CASE a \in Clients /\ t \notin Nested /\ cur' = cur
    BY <2>1, ClientAhead, PoolAssumption DEF Settles
  <2>2. CASE /\ a \in Workers /\ cur[a] # NoCoroutine
             /\ ~Dead(cur[a]) /\ NextOp(cur[a]) = t
             /\ cur' = [cur EXCEPT ![a] = Advanced(@)]
    <3>1. PICK s : s = cur[a].task
      OBVIOUS
    <3>2. s \in Tasks /\ Advanced(cur[a]).task = s /\ Advanced(cur[a]).pos = cur[a].pos + 1
      BY <2>2, <3>1, TaskSubmits
    <3>3. /\ \A u \in Tasks, n \in Nat : Ahead(u, n) /\ u # s => Ahead(u, n)'
          /\ \A n : n = cur[a].pos + 1 => Ahead(s, n)'
      BY <2>2, <3>1, TaskAhead DEF Settles
    <3> QED
      BY <2>2, <3>1, <3>2, <3>3
  <2> QED
    BY <2>1, <2>2 DEF Settles
<1>2. s \in Tasks =>
          /\ fate[s] = "accepted"
          /\ \A v \in Workers :
                 /\ s \notin ElemsOf(taskq[v]) /\ s \notin ElemsOf(loot[v].tasks)
                 /\ v # a => cur[v].task # s
                 /\ \A k \in DOMAIN t_schedq[v] : t_schedq[v][k].task # s
  BY <1>1, OneCoroutine
<1>3. \A u \in Tasks : fate[u] = "new" => Ahead(u, 0)' /\ Ahead(u, 0)
  BY <1>1, <1>2 DEF IndInv, Scripts
<1>4. \A u \in Tasks : fate'[u] = "new" => Ahead(u, 0)'
  BY <1>3 DEF Settles, IndInv, Types
<1>5. ASSUME NEW v \in Workers
      PROVE  /\ \A u \in Held'[<<"taskq", v>>] \cup Held'[<<"loot", v>>] : Ahead(u, 0)'
             /\ \A k \in DOMAIN t_schedq[v] : \A u, n :
                   u = t_schedq[v][k].task /\ n = t_schedq[v][k].pos => Ahead(u, n)'
  <2>1. \A u \in ElemsOf(taskq[v]) \cup ElemsOf(loot[v].tasks) : u \in Tasks /\ Ahead(u, 0)
    <3>1. \A u \in ElemsOf(taskq[v]) \cup ElemsOf(loot[v].tasks) : Ahead(u, 0)
      BY BoxesHeld DEF IndInv, Scripts
    <3>2. taskq[v] \in Seq(Tasks) /\ loot[v].tasks \in Seq(Tasks)
      BY DEF IndInv, Types
    <3> QED
      BY <3>1, <3>2 DEF ElemsOf
  <2>2. \A u \in ElemsOf(taskq[v]) \cup ElemsOf(loot[v].tasks) : u # s
    BY <1>2, <2>1
  <2>3. \A u \in ElemsOf(taskq'[v]) \cup ElemsOf(loot'[v].tasks) : Ahead(u, 0)'
    BY <1>1, <1>3, <2>1, <2>2 DEF Settles
  <2>4. \A u \in Held'[<<"taskq", v>>] \cup Held'[<<"loot", v>>] : Ahead(u, 0)'
    BY <2>3, BoxesHeldNext
  <2>5. ASSUME NEW k \in DOMAIN t_schedq[v]
        PROVE  \A u, n : u = t_schedq[v][k].task /\ n = t_schedq[v][k].pos => Ahead(u, n)'
    <3>1. t_schedq[v] \in Seq(Valid)
      BY DEF IndInv, Types
    <3>2. PICK u, n : u = t_schedq[v][k].task /\ n = t_schedq[v][k].pos
      OBVIOUS
    <3>3. t_schedq[v][k] \in Valid
      BY <3>1
    <3>4. u \in Tasks /\ n \in Nat
      BY <3>2, <3>3 DEF Valid, Coroutines
    <3>5. Ahead(u, n) /\ u # s
      BY <1>2, <3>2, <3>4 DEF IndInv, Scripts
    <3> QED
      BY <1>1, <3>2, <3>4, <3>5
  <2> QED
    BY <2>4, <2>5
<1>6. ASSUME NEW v \in Workers, cur'[v] # NoCoroutine
      PROVE  \A u, n : u = cur'[v].task /\ n = cur'[v].pos => Ahead(u, n)'
  <2>1. CASE s \in Tasks /\ v = a
    BY <1>1, <2>1 DEF IndInv, Types
  <2>2. CASE s \notin Tasks \/ v # a
    <3>1. cur'[v] = cur[v]
      BY <1>1, <2>2 DEF IndInv, Types
    <3>2. cur[v] \in Valid
      BY <1>6, <3>1 DEF IndInv, Types
    <3>3. cur[v].task \in Tasks /\ cur[v].pos \in Nat
      BY <3>2 DEF Valid, Coroutines
    <3>4. Ahead(cur[v].task, cur[v].pos) /\ cur[v].task # s
      BY <1>2, <1>6, <2>2, <3>1, <3>3 DEF IndInv, Scripts
    <3> QED
      BY <1>1, <3>1, <3>3, <3>4
  <2> QED
    BY <2>1, <2>2
<1>7. \A v \in Workers : cur'[v] # NoCoroutine => Ahead(cur[v].task, cur[v].pos)'
  BY <1>6
<1>8. ASSUME NEW v \in Workers, NEW k \in DOMAIN t_schedq'[v]
      PROVE  Ahead(t_schedq[v][k].task, t_schedq[v][k].pos)'
  <2>1. PICK u, n : u = t_schedq[v][k].task /\ n = t_schedq[v][k].pos
    OBVIOUS
  <2>2. Ahead(u, n)' /\ t_schedq' = t_schedq
    BY <1>5, <2>1
  <2> QED
    BY <2>1, <2>2
<1> QED
  BY <1>4, <1>5, <1>7, <1>8 DEF Scripts

(* A settled task is nowhere, or at the end of one task queue.             *)
LEMMA SettledTasks ==
    ASSUME IndInv, NEW a \in Agents, NEW t \in Tasks, NEW x, Settles(a, t, x)
    PROVE  /\ \A w \in Workers : cur'[w].task = cur[w].task
           /\ cur' \in [Workers -> Valid \cup {NoCoroutine}]
           /\ \A w \in Workers : cur'[w] # NoCoroutine <=> cur[w] # NoCoroutine
           /\ \A w \in Workers : w # a => cur'[w] = cur[w]
           /\ \A b \in Boxes : t \notin Held[b]
<1>1. CASE cur' = cur
  BY <1>1 DEF Settles, IndInv, Types, Once
<1>2. CASE cur' # cur
  <2>1. /\ a \in Workers /\ cur[a] # NoCoroutine
        /\ ~Dead(cur[a]) /\ NextOp(cur[a]) = t
        /\ cur' = [cur EXCEPT ![a] = Advanced(cur[a])]
    BY <1>2 DEF Settles
  <2>2. /\ Advanced(cur[a]) \in Valid /\ Advanced(cur[a]).task = cur[a].task
        /\ Advanced(cur[a]) # NoCoroutine
    BY <2>1, TaskSubmits
  <2> QED
    BY <2>1, <2>2 DEF Settles, IndInv, Types, Once
<1> QED
  BY <1>1, <1>2

LEMMA HeldTasks == IndInv => \A b \in Boxes : Held[b] \subseteq Tasks
<1>1. ASSUME IndInv, NEW w \in Workers
      PROVE  /\ ElemsOf(taskq[w]) \subseteq Tasks /\ ElemsOf(loot[w].tasks) \subseteq Tasks
             /\ TasksOf(t_schedq[w]) \subseteq Tasks
  <2>1. /\ taskq[w] \in Seq(Tasks) /\ loot[w].tasks \in Seq(Tasks) /\ t_schedq[w] \in Seq(Valid)
    BY <1>1 DEF IndInv, Types
  <2>2. \A k \in DOMAIN t_schedq[w] : t_schedq[w][k] \in Valid
    BY <2>1
  <2> QED
    BY <2>1, <2>2 DEF ElemsOf, TasksOf, Valid, Coroutines
<1>2. ASSUME IndInv, NEW b \in Boxes PROVE Held[b] \subseteq Tasks
  <2>1. PICK w \in Workers : b \in {<<"taskq", w>>, <<"loot", w>>, <<"cur", w>>, <<"schedq", w>>}
    BY EachBox
  <2>2. /\ Held[<<"taskq", w>>] \subseteq Tasks /\ Held[<<"loot", w>>] \subseteq Tasks
        /\ Held[<<"schedq", w>>] \subseteq Tasks
    BY <1>1, <1>2, BoxesHeld
  <2>3. Held[<<"cur", w>>] \subseteq Tasks
    BY BoxesHeld
  <2>4. \/ b = <<"taskq", w>> \/ b = <<"loot", w>> \/ b = <<"cur", w>> \/ b = <<"schedq", w>>
    BY <2>1
  <2> QED
    BY <2>2, <2>3, <2>4
<1> QED
  BY <1>2

LEMMA RefusedOnce ==
    ASSUME IndInv, NEW a \in Agents, NEW t \in Tasks, Settles(a, t, "refused"),
           UNCHANGED <<taskq, t_schedq, loot, m_closed>>
    PROVE  Once' /\ BoxStep
<1>1. /\ \A w \in Workers : cur'[w].task = cur[w].task
      /\ \A b \in Boxes : t \notin Held[b]
  BY SettledTasks
<1>2. Held' = Held
  BY <1>1 DEF Held, Boxes
<1>3. \A u \in Tasks : fate'[u] = IF u = t THEN "refused" ELSE fate[u]
  BY DEF Settles, IndInv, Types
<1>4. \A b \in Boxes : \A u \in Held[b] : u \in Tasks /\ fate[u] = "accepted"
  BY HeldTasks DEF IndInv, Once
<1>5. Once'
  BY <1>1, <1>2, <1>3, <1>4 DEF IndInv, Once, Apart
<1>6. BoxStep
  BY <1>2 DEF BoxStep, Refused, Settles
<1> QED
  BY <1>5, <1>6

LEMMA AcceptedOnce ==
    ASSUME IndInv, NEW a \in Agents, NEW t \in Tasks, NEW q \in Workers,
           Settles(a, t, "accepted"), taskq' = [taskq EXCEPT ![q] = Append(@, t)],
           UNCHANGED <<t_schedq, loot, m_closed>>
    PROVE  /\ Once' /\ BoxStep
           /\ taskq' \in [Workers -> Seq(Tasks)]
           /\ \A w \in Workers : Len(taskq'[w]) = IF w = q THEN Len(taskq[w]) + 1 ELSE Len(taskq[w])
           /\ \A w \in Workers : ElemsOf(taskq'[w]) \subseteq ElemsOf(taskq[w]) \cup {t}
<1>1. /\ \A w \in Workers : cur'[w].task = cur[w].task
      /\ \A b \in Boxes : t \notin Held[b]
  BY SettledTasks
<1>2. PICK dst : dst = <<"taskq", q>>
  OBVIOUS
<1>3. dst \in Boxes /\ Held[dst] = ElemsOf(taskq[q])
  BY <1>2, BoxesHeld DEF Boxes
<1>4. /\ taskq[q] \in Seq(Tasks) /\ Distinct(taskq[q]) /\ t \notin ElemsOf(taskq[q])
  BY <1>1, <1>3 DEF IndInv, Types, Once
<1>5. /\ taskq'[q] \in Seq(Tasks) /\ Distinct(taskq'[q])
      /\ ElemsOf(taskq'[q]) = ElemsOf(taskq[q]) \cup {t}
      /\ \A w \in Workers : w # q => taskq'[w] = taskq[w]
      /\ taskq'[q] = Append(taskq[q], t)
  BY <1>4, DistinctAppend DEF IndInv, Types
<1>6. \A w \in Workers :
          /\ w # q => Held'[<<"taskq", w>>] = Held[<<"taskq", w>>]
          /\ Held'[<<"loot", w>>] = Held[<<"loot", w>>]
          /\ Held'[<<"cur", w>>] = Held[<<"cur", w>>]
          /\ Held'[<<"schedq", w>>] = Held[<<"schedq", w>>]
  <2> SUFFICES ASSUME NEW w \in Workers
               PROVE  /\ w # q => Held'[<<"taskq", w>>] = Held[<<"taskq", w>>]
                      /\ Held'[<<"loot", w>>] = Held[<<"loot", w>>]
                      /\ Held'[<<"cur", w>>] = Held[<<"cur", w>>]
                      /\ Held'[<<"schedq", w>>] = Held[<<"schedq", w>>]
    OBVIOUS
  <2>1. w # q => Held'[<<"taskq", w>>] = Held[<<"taskq", w>>]
    BY <1>5, SameBoxes
  <2>2. Held'[<<"loot", w>>] = Held[<<"loot", w>>]
    BY SameBoxes
  <2>3. Held'[<<"cur", w>>] = Held[<<"cur", w>>]
    BY <1>1, SameBoxes
  <2>4. Held'[<<"schedq", w>>] = Held[<<"schedq", w>>]
    BY SameBoxes
  <2> QED
    BY <2>1, <2>2, <2>3, <2>4
<1>7. \A b \in Boxes : Held'[b] = IF b = dst THEN Held[b] \cup {t} ELSE Held[b]
  <2>1. Held'[dst] = Held[dst] \cup {t}
    BY <1>2, <1>3, <1>5, BoxesHeldNext
  <2>2. ASSUME NEW b \in Boxes, b # dst PROVE Held'[b] = Held[b]
    BY <1>2, <1>6, <2>2, EachBox
  <2> QED
    BY <2>1, <2>2
<1>8. Apart(Held')
  <2>1. Apart(Held)
    BY DEF IndInv, Once
  <2>2. \A b \in Boxes : b # dst => Held'[b] \subseteq Held[b] \ {t}
    BY <1>1, <1>7
  <2>3. \A b \in Boxes : b = dst => Held'[b] \subseteq Held[b] \cup {t}
    BY <1>7
  <2> QED
    BY <2>1, <2>2, <2>3, MoveApart
<1>9. \A u \in Tasks : fate'[u] = IF u = t THEN "accepted" ELSE fate[u]
  BY DEF Settles, IndInv, Types
<1>10. \A b \in Boxes : \A u \in Held'[b] : fate'[u] = "accepted"
  <2>1. ASSUME NEW b \in Boxes, NEW u \in Held'[b], u # t PROVE fate'[u] = "accepted"
    <3>1. u \in Held[b]
      BY <1>7, <2>1
    <3>2. u \in Tasks /\ fate[u] = "accepted"
      BY <3>1, HeldTasks DEF IndInv, Once
    <3> QED
      BY <1>9, <2>1, <3>2
  <2>2. fate'[t] = "accepted"
    BY <1>9
  <2> QED
    BY <2>1, <2>2
<1>11. \A u \in Tasks : fate'[u] = "accepted" /\ ~m_closed' => \E b \in Boxes : u \in Held'[b]
  BY <1>3, <1>7, <1>9 DEF IndInv, Once
<1>12. \A w \in Workers :
          /\ Distinct(taskq'[w]) /\ Distinct(loot'[w].tasks)
          /\ \A k, l \in DOMAIN t_schedq'[w] : t_schedq'[w][k].task = t_schedq'[w][l].task => k = l
  BY <1>5 DEF IndInv, Once
<1>13. Once'
  BY <1>8, <1>10, <1>11, <1>12 DEF Once, Apart
<1>14. taskq' \in [Workers -> Seq(Tasks)]
  BY <1>5 DEF IndInv, Types
<1>15. Len(taskq'[q]) = Len(taskq[q]) + 1
  BY <1>4, <1>5
<1>16. BoxStep
  <2>1. Accepted(t)
    BY <1>2, <1>7 DEF Accepted, Settles
  <2> QED
    BY <2>1 DEF BoxStep, Settles
<1> QED
  BY <1>5, <1>13, <1>14, <1>15, <1>16

(* A client begins to submit a task, or a closed pool refuses it.          *)
LEMMA ClientSubmitInv ==
    ASSUME IndInv, NEW c \in Clients, NEW t \in Tasks, NEW nb \in ClientFlags,
           ClientSubmit(c, t, nb)
    PROVE  IndInv' /\ BoxStep
<1>0. /\ c \in Agents /\ c \notin Workers /\ nb \in BOOLEAN /\ t # NoTask
      /\ Workers \subseteq Agents /\ Clients \subseteq Agents
  BY PoolAssumption DEF Agents, Workers
<1>1. /\ pc[c] = "idle" /\ fate[t] = "new" /\ t \notin Nested
      /\ \A a \in Agents : sub[a].task # t
      /\ UNCHANGED <<t_schedq, cur, back, burst, loot, dtor>>
  BY DEF ClientSubmit, workerVars
<1>2. CASE BeginSubmit(c, t, nb)
  <2> DEFINE s == [task |-> t, nonblock |-> nb, target |-> s_taskId]
  <2>1. /\ sub' = [sub EXCEPT ![c] = s] /\ pc' = [pc EXCEPT ![c] = "lock"]
        /\ s_taskId' = NextTarget(s_taskId)
        /\ UNCHANGED <<m_closed, taskq, qclosed, lock, fate>>
    BY <1>2 DEF BeginSubmit, Goto
  <2>2. s \in [task : Tasks \cup {NoTask}, nonblock : BOOLEAN, target : Workers]
    BY <1>0 DEF IndInv, Types
  <2>3. s.task = t
    OBVIOUS
  <2> HIDE DEF s
  <2>4. /\ \A a \in Agents : a # c => sub'[a] = sub[a] /\ pc'[a] = pc[a]
        /\ sub'[c] = s /\ pc'[c] = "lock"
    BY <1>0, <2>1 DEF IndInv, Types
  <2>5. Types'
    <3>1. s_taskId' \in Workers
      BY <2>1, TargetInWorkers DEF IndInv, Types
    <3>2. pc' \in [Agents -> Locations]
      BY <2>1 DEF IndInv, Types, Locations
    <3>3. sub' \in [Agents -> [task : Tasks \cup {NoTask}, nonblock : BOOLEAN, target : Workers]]
      BY <2>1, <2>2 DEF IndInv, Types
    <3> QED
      BY <1>1, <2>1, <3>1, <3>2, <3>3 DEF IndInv, Types
  <2>6. Places'
    <3>1. \A w \in Workers : pc'[w] = pc[w]
      BY <1>0, <2>4
    <3>2. \A d \in Clients : pc'[d] \in ClientAt
      BY <1>0, <2>4 DEF IndInv, Places, ClientAt
    <3>3. \A a \in Agents : pc'[a] \in Submitting <=> sub'[a].task # NoTask
      BY <1>0, <2>3, <2>4 DEF IndInv, Places, Submitting
    <3> QED
      BY <1>1, <3>1, <3>2, <3>3 DEF IndInv, Places
  <2>7. Locked'
    <3>1. \A a \in Agents : pc'[a] = "write" => lock'[sub'[a].target] = a
      BY <2>1, <2>4 DEF IndInv, Locked
    <3>2. \A w \in Workers : pc'[w] = pc[w]
      BY <1>0, <2>4
    <3> QED
      BY <1>1, <2>1, <3>1, <3>2 DEF IndInv, Locked
  <2>8. Closing'
    BY <1>1, <2>1 DEF IndInv, Closing
  <2>9. Once' /\ Scripts' /\ BoxStep
    BY <1>1, <2>1, SameOnce
  <2>10. Submits'
    <3>1. \A d \in Clients : sub'[d].task # NoTask =>
              /\ sub'[d].task \notin Nested /\ fate'[sub'[d].task] = "new"
              /\ \A e \in Clients : sub'[e].task = sub'[d].task => d = e
      BY <1>0, <1>1, <2>1, <2>3, <2>4 DEF IndInv, Submits
    <3>2. \A w \in Workers : pc'[w] = pc[w] /\ sub'[w] = sub[w]
      BY <1>0, <2>4
    <3> QED
      BY <1>1, <3>1, <3>2 DEF IndInv, Submits
  <2> QED
    BY <2>5, <2>6, <2>7, <2>8, <2>9, <2>10 DEF IndInv
<1>3. CASE RefuseSubmit(t)
  <2>1. /\ fate' = [fate EXCEPT ![t] = "refused"]
        /\ UNCHANGED <<m_closed, s_taskId, taskq, qclosed, lock, sub, pc>>
    BY <1>3 DEF RefuseSubmit, poolVars
  <2>2. Settles(c, t, "refused")
    BY <1>1, <2>1 DEF Settles
  <2>3. Scripts'
    BY <1>0, <1>1, <2>1, <2>2, SettledScripts
  <2>4. Once' /\ BoxStep
    BY <1>0, <1>1, <2>1, <2>2, RefusedOnce
  <2>5. Types' /\ Places' /\ Locked' /\ Closing'
    BY <1>1, <2>1 DEF IndInv, Types, Places, Locked, Closing
  <2>6. Submits'
    <3>1. \A d \in Clients : sub[d].task # NoTask => fate'[sub[d].task] = fate[sub[d].task]
      BY <1>0, <1>1, <2>1 DEF IndInv, Types
    <3> QED
      BY <1>1, <2>1, <3>1 DEF IndInv, Submits
  <2> QED
    BY <2>3, <2>4, <2>5, <2>6 DEF IndInv
<1> QED
  BY <1>2, <1>3 DEF ClientSubmit

(* The same for a task.                                                    *)
LEMMA TaskSubmitInv ==
    ASSUME IndInv, NEW w \in Workers, NEW nb \in TaskFlags, TaskSubmit(w, nb)
    PROVE  IndInv' /\ BoxStep
<1>0. PICK t : t = NextOp(cur[w])
  OBVIOUS
<1>1. /\ pc[w] = "run" /\ ~Dead(cur[w]) /\ NextOp(cur[w]) = t /\ t \in Tasks
      /\ UNCHANGED <<t_schedq, back, burst, loot, dtor>>
  BY <1>0 DEF TaskSubmit
<1>2. /\ w \in Agents /\ w \notin Clients /\ nb \in BOOLEAN /\ t # NoTask
      /\ Workers \subseteq Agents /\ Clients \subseteq Agents
      /\ Workers \cap Clients = {}
  BY <1>1, PoolAssumption DEF Agents, Workers
<1>3. cur[w] # NoCoroutine
  BY <1>1 DEF IndInv, Places, InTask
<1>4. fate[t] = "new" /\ t \in Nested
  BY <1>1, <1>3, TaskSubmits
<1>5. CASE BeginSubmit(w, t, nb) /\ cur' = cur
  <2> DEFINE s == [task |-> t, nonblock |-> nb, target |-> s_taskId]
  <2>1. /\ sub' = [sub EXCEPT ![w] = s] /\ pc' = [pc EXCEPT ![w] = "lock"]
        /\ s_taskId' = NextTarget(s_taskId)
        /\ UNCHANGED <<m_closed, taskq, qclosed, lock, fate, cur>>
    BY <1>5 DEF BeginSubmit, Goto
  <2>2. s \in [task : Tasks \cup {NoTask}, nonblock : BOOLEAN, target : Workers]
    BY <1>1, <1>2 DEF IndInv, Types
  <2>3. s.task = t
    OBVIOUS
  <2> HIDE DEF s
  <2>4. /\ \A a \in Agents : a # w => sub'[a] = sub[a] /\ pc'[a] = pc[a]
        /\ sub'[w] = s /\ pc'[w] = "lock"
    BY <1>2, <2>1 DEF IndInv, Types
  <2>5. Types'
    <3>1. s_taskId' \in Workers
      BY <2>1, TargetInWorkers DEF IndInv, Types
    <3>2. pc' \in [Agents -> Locations]
      BY <2>1 DEF IndInv, Types, Locations
    <3>3. sub' \in [Agents -> [task : Tasks \cup {NoTask}, nonblock : BOOLEAN, target : Workers]]
      BY <2>1, <2>2 DEF IndInv, Types
    <3> QED
      BY <1>1, <2>1, <3>1, <3>2, <3>3 DEF IndInv, Types
  <2>6. Places'
    <3>1. \A d \in Clients : pc'[d] = pc[d]
      BY <1>2, <2>4
    <3>2. \A v \in Workers :
              /\ pc'[v] \in WorkerAt
              /\ pc'[v] \in InTask <=> pc[v] \in InTask
              /\ pc'[v] = "read" => pc[v] = "read"
              /\ pc'[v] = "stealWrite" <=> pc[v] = "stealWrite"
      BY <1>1, <1>2, <2>4 DEF IndInv, Places, WorkerAt, InTask, Locations
    <3>3. \A a \in Agents : pc'[a] \in Submitting <=> sub'[a].task # NoTask
      BY <1>2, <2>3, <2>4 DEF IndInv, Places, Submitting
    <3> QED
      BY <1>1, <2>1, <3>1, <3>2, <3>3 DEF IndInv, Places
  <2>7. Locked'
    <3>1. \A a \in Agents : pc'[a] = "write" => lock'[sub'[a].target] = a
      BY <2>1, <2>4 DEF IndInv, Locked
    <3>2. \A v \in Workers : pc'[v] \in {"stealRead", "stealWrite"} => pc'[v] = pc[v]
      BY <1>2, <2>4
    <3> QED
      BY <1>1, <2>1, <3>1, <3>2 DEF IndInv, Locked
  <2>8. Closing'
    BY <1>1, <2>1 DEF IndInv, Closing
  <2>9. Once' /\ Scripts' /\ BoxStep
    BY <1>1, <2>1, SameOnce
  <2>10. Submits'
    <3>1. \A d \in Clients : sub'[d] = sub[d]
      BY <1>2, <2>4
    <3>2. \A v \in Workers : pc'[v] \in Submitting =>
              ~Dead(cur'[v]) /\ NextOp(cur'[v]) = sub'[v].task
      BY <1>1, <1>2, <2>1, <2>3, <2>4 DEF IndInv, Submits
    <3>3. \A v \in Workers : pc'[v] \in Submitting =>
              ~Dead(cur[v])' /\ NextOp(cur[v])' = sub'[v].task
      BY <3>2, <2>1 DEF Dead, NextOp
    <3> QED
      BY <2>1, <3>1, <3>3 DEF IndInv, Submits
  <2> QED
    BY <2>5, <2>6, <2>7, <2>8, <2>9, <2>10 DEF IndInv
<1>6. CASE RefuseSubmit(t) /\ cur' = [cur EXCEPT ![w] = Advanced(@)]
  <2>1. /\ fate' = [fate EXCEPT ![t] = "refused"]
        /\ UNCHANGED <<m_closed, s_taskId, taskq, qclosed, lock, sub, pc>>
    BY <1>6 DEF RefuseSubmit, poolVars
  <2>2. Settles(w, t, "refused")
    BY <1>1, <1>3, <1>4, <1>6, <2>1 DEF Settles
  <2>3. Scripts'
    BY <1>1, <1>2, <2>1, <2>2, SettledScripts
  <2>4. Once' /\ BoxStep
    BY <1>1, <1>2, <2>1, <2>2, RefusedOnce
  <2>5. /\ cur' \in [Workers -> Valid \cup {NoCoroutine}]
        /\ \A v \in Workers : cur'[v] # NoCoroutine <=> cur[v] # NoCoroutine
        /\ \A v \in Workers : v # w => cur'[v] = cur[v]
    BY <1>1, <1>2, <2>2, SettledTasks
  <2>6. Types'
    BY <1>1, <2>1, <2>5 DEF IndInv, Types
  <2>7. Places' /\ Locked' /\ Closing'
    BY <1>1, <2>1, <2>5 DEF IndInv, Places, Locked, Closing
  <2>8. Submits'
    <3>1. ASSUME NEW d \in Clients, sub[d].task # NoTask PROVE fate'[sub[d].task] = "new"
      <4>1. sub[d].task \notin Nested /\ fate[sub[d].task] = "new"
        BY <3>1 DEF IndInv, Submits
      <4>2. sub[d].task \in Tasks /\ sub[d].task # t
        BY <1>2, <1>4, <3>1, <4>1 DEF IndInv, Types
      <4> QED
        BY <2>1, <4>1, <4>2 DEF IndInv, Types
    <3>2. \A v \in Workers : pc'[v] \in Submitting => v # w
      BY <1>1, <2>1 DEF Submitting
    <3>3. \A v \in Workers : pc'[v] \in Submitting =>
              ~Dead(cur[v])' /\ NextOp(cur[v])' = sub'[v].task
      BY <2>1, <2>5, <3>2 DEF IndInv, Submits, Dead, NextOp
    <3> QED
      BY <2>1, <3>1, <3>3 DEF IndInv, Submits
  <2> QED
    BY <2>3, <2>4, <2>6, <2>7, <2>8 DEF IndInv
<1> QED
  BY <1>0, <1>5, <1>6 DEF TaskSubmit

LEMMA SubmitLockInv ==
    ASSUME IndInv, NEW a \in Agents, SubmitLock(a)
    PROVE  IndInv' /\ BoxStep
<1> DEFINE q == sub[a].target
<1>0. q \in Workers /\ Workers \subseteq Agents /\ Clients \subseteq Agents /\ NoAgent \notin Agents
  BY PoolAssumption DEF IndInv, Types, Agents, Workers
<1>1. /\ pc[a] = "lock" /\ lock[q] = NoAgent
      /\ lock' = [lock EXCEPT ![q] = a] /\ pc' = [pc EXCEPT ![a] = "write"]
      /\ UNCHANGED <<m_closed, s_taskId, taskq, qclosed, t_schedq, cur, back, burst, loot,
                     sub, dtor, fate>>
  BY DEF SubmitLock, Goto, workerVars
<1> HIDE DEF q
<1>2. /\ \A b \in Agents : b # a => pc'[b] = pc[b]
      /\ pc'[a] = "write"
      /\ lock'[q] = a
      /\ \A w \in Workers : w # q => lock'[w] = lock[w]
  BY <1>0, <1>1 DEF IndInv, Types
<1>3. /\ pc' \in [Agents -> Locations] /\ lock' \in [Workers -> Agents \cup {NoAgent}]
  BY <1>0, <1>1 DEF IndInv, Types, Locations
<1>4. Types'
  BY <1>1, <1>3 DEF IndInv, Types
<1>5. Places'
  <2>1. \A b \in Agents :
            /\ pc'[b] \in Submitting <=> pc[b] \in Submitting
            /\ pc'[b] \in InTask <=> pc[b] \in InTask
            /\ pc[b] \in WorkerAt => pc'[b] \in WorkerAt
            /\ pc[b] \in ClientAt => pc'[b] \in ClientAt
            /\ pc'[b] = "read" <=> pc[b] = "read"
            /\ pc'[b] = "stealWrite" <=> pc[b] = "stealWrite"
    BY <1>1, <1>2 DEF Submitting, InTask, WorkerAt, ClientAt, Locations
  <2> QED
    BY <1>0, <1>1, <2>1 DEF IndInv, Places
<1>6. Locked'
  <2>1. ASSUME NEW b \in Agents, pc'[b] = "write" PROVE lock'[sub'[b].target] = b
    <3>1. CASE b = a
      BY <1>1, <1>2, <3>1 DEF q
    <3>2. CASE b # a
      <4>1. pc[b] = "write" /\ lock[sub[b].target] = b /\ b # NoAgent /\ sub[b].target \in Workers
        BY <1>0, <1>2, <2>1, <3>2 DEF IndInv, Locked, Types
      <4> QED
        BY <1>1, <1>2, <4>1
    <3> QED
      BY <3>1, <3>2
  <2>2. ASSUME NEW w \in Workers, pc'[w] \in {"stealRead", "stealWrite"} PROVE lock'[w] = w
    <3>1. pc[w] = pc'[w] /\ lock[w] = w /\ w # NoAgent
      BY <1>0, <1>2, <2>2 DEF IndInv, Locked
    <3> QED
      BY <1>1, <1>2, <3>1
  <2> QED
    BY <2>1, <2>2 DEF Locked
<1>7. Closing'
  BY <1>1 DEF IndInv, Closing
<1>8. Once' /\ Scripts' /\ BoxStep
  BY <1>1, SameOnce
<1>9. Submits'
  <2>1. \A w \in Workers : pc'[w] \in Submitting => pc[w] \in Submitting
    BY <1>0, <1>1, <1>2 DEF Submitting
  <2>2. \A w \in Workers : pc'[w] \in Submitting => ~Dead(cur[w])' /\ NextOp(cur[w])' = sub'[w].task
    BY <1>1, <2>1 DEF IndInv, Submits, Dead, NextOp
  <2> QED
    BY <1>1, <2>2 DEF IndInv, Submits
<1> QED
  BY <1>4, <1>5, <1>6, <1>7, <1>8, <1>9 DEF IndInv

(* The write to the target queue, and submit returns.                      *)
LEMMA SubmitWriteInv ==
    ASSUME IndInv, NEW a \in Agents, SubmitWrite(a)
    PROVE  IndInv' /\ BoxStep
<1>0. PICK t, q : t = sub[a].task /\ q = sub[a].target
  OBVIOUS
<1>1. /\ Workers \subseteq Agents /\ Clients \subseteq Agents /\ NoAgent \notin Agents
      /\ Workers \cap Clients = {} /\ (a \in Clients \/ a \in Workers)
  BY PoolAssumption DEF Agents, Workers
<1>2. pc[a] = "write" /\ t \in Tasks /\ q \in Workers /\ lock[q] = a
  <2>1. pc[a] = "write" /\ sub[a].task # NoTask
    BY DEF SubmitWrite, IndInv, Places, Submitting
  <2> QED
    BY <1>0, <2>1 DEF IndInv, Types, Locked
<1>3. /\ lock' = [lock EXCEPT ![q] = NoAgent]
      /\ sub' = [sub EXCEPT ![a] = NoSubmit]
      /\ pc' = [pc EXCEPT ![a] = IF a \in Clients THEN "idle" ELSE "run"]
      /\ UNCHANGED <<m_closed, s_taskId, qclosed, t_schedq, back, burst, loot, dtor>>
  BY <1>0 DEF SubmitWrite, EndSubmit, Released, Goto
<1>4. fate[t] = "new" /\ (a \in Workers => cur[a] # NoCoroutine /\ ~Dead(cur[a]) /\ NextOp(cur[a]) = t)
  <2>1. CASE a \in Clients
    BY <1>0, <1>1, <1>2, <2>1 DEF IndInv, Submits, Places, Submitting
  <2>2. CASE a \in Workers
    <3>1. cur[a] # NoCoroutine /\ ~Dead(cur[a]) /\ NextOp(cur[a]) = t
      BY <1>0, <1>2, <2>2 DEF IndInv, Places, Submits, InTask, Submitting
    <3> QED
      BY <1>1, <1>2, <2>2, <3>1, TaskSubmits
  <2> QED
    BY <1>1, <2>1, <2>2
<1>5. a \in Clients => t \notin Nested
  BY <1>0, <1>2 DEF IndInv, Submits, Places, Submitting
<1>6. PICK x \in {"accepted", "refused"} :
          /\ fate' = [fate EXCEPT ![t] = x]
          /\ cur' = IF a \in Clients THEN cur ELSE [cur EXCEPT ![a] = Advanced(@)]
          /\ \/ /\ x = "accepted" /\ ~qclosed[q] /\ Len(taskq[q]) < Cap
                /\ taskq' = [taskq EXCEPT ![q] = Append(@, t)]
             \/ x = "refused" /\ taskq' = taskq
  <2>1. CASE /\ ~qclosed[q] /\ Len(taskq[q]) < Cap
             /\ taskq' = [taskq EXCEPT ![q] = Append(@, t)]
             /\ EndSubmit(a, "accepted")
    BY <1>0, <2>1 DEF EndSubmit
  <2>2. CASE EndSubmit(a, "refused") /\ UNCHANGED taskq
    BY <1>0, <2>2 DEF EndSubmit
  <2> QED
    BY <1>0, <2>1, <2>2 DEF SubmitWrite
<1>7. Settles(a, t, x)
  BY <1>1, <1>4, <1>5, <1>6 DEF Settles
<1>8. /\ Once' /\ BoxStep
      /\ taskq' \in [Workers -> Seq(Tasks)]
      /\ \A w \in Workers : Len(taskq'[w]) <= Cap
      /\ \A w \in Workers : w # q => taskq'[w] = taskq[w]
      /\ \A w \in Workers : ElemsOf(taskq'[w]) \subseteq ElemsOf(taskq[w]) \cup {t}
  <2>1. CASE x = "refused" /\ taskq' = taskq
    BY <1>2, <1>3, <1>7, <2>1, RefusedOnce DEF IndInv, Types
  <2>2. CASE x = "accepted" /\ Len(taskq[q]) < Cap /\ taskq' = [taskq EXCEPT ![q] = Append(@, t)]
    <3>1. /\ Once' /\ BoxStep /\ taskq' \in [Workers -> Seq(Tasks)]
          /\ \A w \in Workers : Len(taskq'[w]) = IF w = q THEN Len(taskq[w]) + 1 ELSE Len(taskq[w])
          /\ \A w \in Workers : ElemsOf(taskq'[w]) \subseteq ElemsOf(taskq[w]) \cup {t}
      BY <1>2, <1>3, <1>7, <2>2, AcceptedOnce
    <3>2. \A w \in Workers : w # q => taskq'[w] = taskq[w]
      BY <2>2 DEF IndInv, Types
    <3>3. /\ Len(taskq[q]) \in Nat /\ Cap \in Nat
      BY <1>2, PoolAssumption DEF IndInv, Types
    <3>4. Len(taskq[q]) + 1 <= Cap
      BY <2>2, <3>3
    <3> QED
      BY <3>1, <3>2, <3>4 DEF IndInv, Types
  <2> QED
    BY <1>6, <2>1, <2>2
<1>9. Scripts'
  BY <1>2, <1>3, <1>7, <1>8, SettledScripts
<1>10. /\ cur' \in [Workers -> Valid \cup {NoCoroutine}]
       /\ \A w \in Workers : cur'[w] # NoCoroutine <=> cur[w] # NoCoroutine
       /\ \A w \in Workers : w # a => cur'[w] = cur[w]
  BY <1>2, <1>7, SettledTasks
<1>11. /\ \A b \in Agents : b # a => pc'[b] = pc[b] /\ sub'[b] = sub[b]
       /\ pc'[a] = IF a \in Clients THEN "idle" ELSE "run"
       /\ sub'[a] = NoSubmit /\ NoSubmit.task = NoTask
       /\ lock'[q] = NoAgent
       /\ \A w \in Workers : w # q => lock'[w] = lock[w]
  BY <1>1, <1>2, <1>3 DEF IndInv, Types, NoSubmit
<1>12. Types'
  <2>1. NoSubmit \in [task : Tasks \cup {NoTask}, nonblock : BOOLEAN, target : Workers]
    BY PoolAssumption DEF NoSubmit, Workers
  <2>2. /\ sub' \in [Agents -> [task : Tasks \cup {NoTask}, nonblock : BOOLEAN, target : Workers]]
        /\ lock' \in [Workers -> Agents \cup {NoAgent}]
        /\ fate' \in [Tasks -> {"new", "accepted", "refused", "finished"}]
    BY <1>3, <1>6, <2>1 DEF IndInv, Types
  <2>3. pc' \in [Agents -> Locations]
    BY <1>3 DEF IndInv, Types, Locations
  <2> QED
    BY <1>3, <1>8, <1>10, <2>2, <2>3 DEF IndInv, Types
<1>13. Places'
  <2>1. \A w \in Workers :
            /\ pc'[w] \in WorkerAt
            /\ pc'[w] \in InTask <=> pc[w] \in InTask
            /\ pc'[w] = "read" => pc[w] = "read"
            /\ pc'[w] = "stealWrite" <=> pc[w] = "stealWrite"
    BY <1>1, <1>2, <1>11 DEF IndInv, Places, WorkerAt, InTask, Locations
  <2>2. \A d \in Clients : pc'[d] \in ClientAt
    BY <1>1, <1>11 DEF IndInv, Places, ClientAt
  <2>3. \A b \in Agents : pc'[b] \in Submitting <=> sub'[b].task # NoTask
    BY <1>1, <1>11 DEF IndInv, Places, Submitting
  <2> QED
    BY <1>3, <1>10, <2>1, <2>2, <2>3 DEF IndInv, Places
<1>14. Locked'
  <2>1. ASSUME NEW b \in Agents, pc'[b] = "write" PROVE lock'[sub'[b].target] = b
    <3>1. b # a /\ pc[b] = "write" /\ sub'[b] = sub[b]
      BY <1>11, <2>1
    <3>2. lock[sub[b].target] = b /\ sub[b].target \in Workers
      BY <3>1 DEF IndInv, Locked, Types
    <3> QED
      BY <1>2, <1>11, <3>1, <3>2
  <2>2. ASSUME NEW w \in Workers, pc'[w] \in {"stealRead", "stealWrite"}
        PROVE  lock'[w] = w /\ w # q /\ pc[w] = pc'[w]
    <3>1. w # a /\ pc'[w] = pc[w]
      BY <1>1, <1>11, <2>2
    <3>2. lock[w] = w
      BY <2>2, <3>1 DEF IndInv, Locked
    <3> QED
      BY <1>2, <1>11, <3>1, <3>2
  <2> QED
    BY <2>1, <2>2 DEF Locked
<1>15. Closing'
  BY <1>3 DEF IndInv, Closing
<1>16. Submits'
  <2>1. ASSUME NEW d \in Clients, sub'[d].task # NoTask
        PROVE  /\ sub'[d].task \notin Nested /\ fate'[sub'[d].task] = "new"
               /\ \A e \in Clients : sub'[e].task = sub'[d].task => d = e
    <3>1. d # a /\ sub'[d] = sub[d] /\ sub[d].task \in Tasks
      <4>1. d \in Agents /\ d # a /\ sub'[d] = sub[d]
        BY <1>1, <1>11, <2>1
      <4>2. sub[d] \in [task : Tasks \cup {NoTask}, nonblock : BOOLEAN, target : Workers]
        BY <4>1 DEF IndInv, Types
      <4> QED
        BY <2>1, <4>1, <4>2
    <3>2. sub[d].task # t
      <4>1. CASE a \in Clients
        BY <1>0, <1>1, <1>11, <2>1, <3>1, <4>1 DEF IndInv, Submits
      <4>2. CASE a \in Workers
        <5>1. t \in Nested
          BY <1>2, <1>4, <4>2, TaskSubmits
        <5> QED
          BY <2>1, <3>1, <5>1 DEF IndInv, Submits
      <4> QED
        BY <1>1, <4>1, <4>2
    <3>3. fate'[sub[d].task] = fate[sub[d].task]
      BY <1>6, <3>1, <3>2 DEF IndInv, Types
    <3>4. \A e \in Clients : sub'[e].task = sub[d].task => sub[e].task = sub[d].task
      BY <1>1, <1>11, <2>1, <3>1
    <3> QED
      BY <2>1, <3>1, <3>3, <3>4 DEF IndInv, Submits
  <2>2. \A w \in Workers : pc'[w] \in Submitting => w # a /\ pc'[w] = pc[w] /\ sub'[w] = sub[w]
    BY <1>1, <1>11 DEF Submitting
  <2>3. \A w \in Workers : pc'[w] \in Submitting => ~Dead(cur[w])' /\ NextOp(cur[w])' = sub'[w].task
    BY <1>10, <2>2 DEF IndInv, Submits, Dead, NextOp
  <2> QED
    BY <2>1, <2>3 DEF Submits
<1> QED
  BY <1>8, <1>9, <1>12, <1>13, <1>14, <1>15, <1>16 DEF IndInv

-----------------------------------------------------------------------------
(* Steps that move tasks.                                                  *)

(* No task becomes new, and none stops being new.                          *)
LEMMA SameAhead ==
    ASSUME \A t \in Tasks : fate'[t] = "new" <=> fate[t] = "new"
    PROVE  \A s, n : Ahead(s, n)' <=> Ahead(s, n)
  BY DEF Ahead

(* The tasks of X go from box src to box dst.                              *)
LEMMA MovedOnce ==
    ASSUME IndInv, NEW src \in Boxes, NEW dst \in Boxes, src # dst,
           NEW X, X \subseteq Held[src],
           Held'[src] = Held[src] \ X, Held'[dst] = Held[dst] \cup X,
           \A b \in Boxes : b # src /\ b # dst => Held'[b] = Held[b],
           UNCHANGED <<fate, m_closed>>, Starts(src, dst, X)
    PROVE  /\ BoxStep
           /\ Apart(Held)'
           /\ \A b \in Boxes : \A t \in Held'[b] : fate'[t] = "accepted"
           /\ \A t \in Tasks : fate'[t] = "accepted" /\ ~m_closed' => \E b \in Boxes : t \in Held'[b]
<1>1. Apart(Held) /\ \A b \in Boxes : b # src => Held[b] \cap X = {}
  BY DEF IndInv, Once, Apart
<1>2. \A b \in Boxes : b # dst => Held'[b] \subseteq Held[b] \ X
  BY <1>1
<1>3. \A b \in Boxes : b = dst => Held'[b] \subseteq Held[b] \cup X
  OBVIOUS
<1>4. Apart(Held')
  BY <1>1, <1>2, <1>3, MoveApart
<1>5. \A b \in Boxes : \A t \in Held'[b] : \E c \in Boxes : t \in Held[c]
  <2> SUFFICES ASSUME NEW b \in Boxes, NEW t \in Held'[b] PROVE \E c \in Boxes : t \in Held[c]
    OBVIOUS
  <2>1. t \in Held[b] \/ t \in Held[src]
    OBVIOUS
  <2> QED
    BY <2>1
<1>6. \A b \in Boxes : \A t \in Held[b] : \E c \in Boxes : t \in Held'[c]
  <2> SUFFICES ASSUME NEW b \in Boxes, NEW t \in Held[b] PROVE \E c \in Boxes : t \in Held'[c]
    OBVIOUS
  <2>1. t \in Held'[b] \/ t \in Held'[dst]
    OBVIOUS
  <2> QED
    BY <2>1
<1>7. \A b \in Boxes : \A t \in Held'[b] : fate'[t] = "accepted"
  BY <1>5 DEF IndInv, Once
<1>8. \A t \in Tasks : fate'[t] = "accepted" /\ ~m_closed' => \E b \in Boxes : t \in Held'[b]
  BY <1>6 DEF IndInv, Once
<1>9. BoxStep
  BY DEF BoxStep, Moves
<1> QED
  BY <1>4, <1>7, <1>8, <1>9 DEF Apart

(* The tasks of X leave box src for good: they are finished, or the pool   *)
(* is closed.                                                              *)
LEMMA LeftOnce ==
    ASSUME IndInv, NEW src \in Boxes, NEW X, X \subseteq Held[src],
           Held'[src] = Held[src] \ X,
           \A b \in Boxes : b # src => Held'[b] = Held[b],
           m_closed' = m_closed,
           \/ m_closed /\ fate' = fate
           \/ \E t \in Tasks : /\ X = {t} /\ Kind(src) = "started"
                               /\ fate' = [fate EXCEPT ![t] = "finished"]
    PROVE  /\ BoxStep
           /\ Apart(Held)'
           /\ \A b \in Boxes : \A t \in Held'[b] : fate'[t] = "accepted"
           /\ \A t \in Tasks : fate'[t] = "accepted" /\ ~m_closed' => \E b \in Boxes : t \in Held'[b]
<1>1. Apart(Held) /\ \A b \in Boxes : b # src => Held[b] \cap X = {}
  BY DEF IndInv, Once, Apart
<1>2. \A b \in Boxes : Held'[b] = Held[b] \ X
  BY <1>1
<1>3. Apart(Held')
  BY <1>1, <1>2 DEF Apart
<1>4. \A b \in Boxes : Held[b] \subseteq Tasks
  BY HeldTasks
<1>0. fate' = fate \/ \A t \in Tasks : fate'[t] = IF t \in X THEN "finished" ELSE fate[t]
  BY DEF IndInv, Types
<1>5. \A b \in Boxes : \A t \in Held'[b] : fate'[t] = "accepted"
  BY <1>0, <1>2, <1>4 DEF IndInv, Once
<1>6. \A t \in Tasks : fate'[t] = "accepted" /\ ~m_closed' => \E b \in Boxes : t \in Held'[b]
  <2> SUFFICES ASSUME NEW t \in Tasks, fate'[t] = "accepted", ~m_closed
               PROVE  \E b \in Boxes : t \in Held'[b]
    OBVIOUS
  <2>1. fate[t] = "accepted" /\ t \notin X
    BY <1>0 DEF IndInv, Types
  <2>2. PICK b \in Boxes : t \in Held[b]
    BY <2>1 DEF IndInv, Once
  <2> QED
    BY <1>2, <2>1, <2>2
<1>7. BoxStep
  BY DEF BoxStep, Leaves
<1> QED
  BY <1>3, <1>5, <1>6, <1>7 DEF Apart

(* What a worker that makes no call of submit keeps, when it goes from one *)
(* location of its loop to location l.                                     *)
LEMMA WorkerKeeps ==
    ASSUME IndInv, NEW w \in Workers, NEW l \in WorkerAt, l \notin Submitting,
           pc[w] \notin Submitting, pc' = [pc EXCEPT ![w] = l],
           UNCHANGED <<m_closed, qclosed, sub, dtor>>,
           \A v \in Workers \ {w} : /\ cur'[v] = cur[v] /\ burst'[v] = burst[v]
                                    /\ back'[v] = back[v] /\ loot'[v] = loot[v]
                                    /\ lock'[v] = lock[v]
                                    /\ Len(taskq'[v]) <= Len(taskq[v]),
           Types',
           cur'[w] # NoCoroutine <=> l = "run",
           l = "read" \/ (l = "run" /\ back'[w] = "read") => burst'[w] < Burst,
           l = "stealWrite" => /\ Len(loot'[w].tasks) = loot'[w].num
                               /\ Len(taskq'[w]) + loot'[w].num <= Cap,
           l # "stealWrite" => loot'[w].tasks = <<>>,
           lock'[w] = lock[w] \/ lock[w] \in {NoAgent, w},
           l \in {"stealRead", "stealWrite"} => lock'[w] = w,
           \A t \in Tasks : fate[t] = "new" => fate'[t] = "new"
    PROVE  Places' /\ Locked' /\ Closing' /\ Submits'
<1>0. /\ Workers \subseteq Agents /\ Clients \subseteq Agents /\ NoAgent \notin Agents
      /\ Workers \cap Clients = {}
  BY PoolAssumption DEF Agents, Workers
<1>1. pc'[w] = l /\ \A a \in Agents : a # w => pc'[a] = pc[a]
  BY <1>0 DEF IndInv, Types
<1>2. Places'
  <2>1. ASSUME NEW v \in Workers
        PROVE  /\ pc'[v] \in WorkerAt
               /\ cur'[v] # NoCoroutine <=> pc'[v] \in InTask
               /\ pc'[v] = "read" => burst'[v] < Burst
               /\ pc'[v] \in InTask /\ back'[v] = "read" => burst'[v] < Burst
               /\ pc'[v] = "stealWrite" => Len(loot'[v].tasks) = loot'[v].num
               /\ pc'[v] # "stealWrite" => loot'[v].tasks = <<>>
    <3>1. CASE v = w
      BY <1>1, <3>1 DEF InTask, Submitting
    <3>2. CASE v # w
      BY <1>0, <1>1, <3>2 DEF IndInv, Places
    <3> QED
      BY <3>1, <3>2
  <2>2. \A c \in Clients : pc'[c] \in ClientAt
    BY <1>0, <1>1 DEF IndInv, Places
  <2>3. \A a \in Agents : pc'[a] \in Submitting <=> sub'[a].task # NoTask
    BY <1>0, <1>1 DEF IndInv, Places
  <2> QED
    BY <2>1, <2>2, <2>3 DEF Places
<1>3. Locked'
  <2>1. ASSUME NEW a \in Agents, pc'[a] = "write" PROVE lock'[sub'[a].target] = a
    <3>1. a # w /\ pc[a] = "write"
      BY <1>1, <2>1 DEF Submitting
    <3>2. lock[sub[a].target] = a /\ sub[a].target \in Workers /\ a # NoAgent
      BY <1>0, <3>1 DEF IndInv, Locked, Types
    <3> QED
      BY <3>1, <3>2
  <2>2. \A v \in Workers : pc'[v] \in {"stealRead", "stealWrite"} => lock'[v] = v
    BY <1>0, <1>1 DEF IndInv, Locked
  <2> QED
    BY <2>1, <2>2 DEF Locked
<1>4. Closing'
  BY DEF IndInv, Closing
<1>5. Submits'
  <2>1. ASSUME NEW c \in Clients, sub[c].task # NoTask PROVE sub[c].task \in Tasks
    <3>1. sub[c] \in [task : Tasks \cup {NoTask}, nonblock : BOOLEAN, target : Workers]
      BY <1>0 DEF IndInv, Types
    <3> QED
      BY <2>1, <3>1
  <2>2. \A c \in Clients : sub'[c].task # NoTask =>
            /\ sub'[c].task \notin Nested /\ fate'[sub'[c].task] = "new"
            /\ \A d \in Clients : sub'[d].task = sub'[c].task => c = d
    BY <2>1 DEF IndInv, Submits
  <2>3. \A v \in Workers : pc'[v] \in Submitting => v # w /\ pc[v] \in Submitting
    BY <1>0, <1>1
  <2>4. \A v \in Workers : pc'[v] \in Submitting => ~Dead(cur[v])' /\ NextOp(cur[v])' = sub'[v].task
    BY <2>3 DEF IndInv, Submits, Dead, NextOp
  <2> QED
    BY <2>2, <2>4 DEF Submits
<1> QED
  BY <1>2, <1>3, <1>4, <1>5

(* Where no task changes from or to "new", a task keeps what is ahead.     *)
LEMMA MovedScripts ==
    ASSUME IndInv, \A t \in Tasks : fate'[t] = "new" <=> fate[t] = "new",
           \A w \in Workers : \A t \in Held'[<<"taskq", w>>] \cup Held'[<<"loot", w>>] :
              \E v \in Workers : t \in Held[<<"taskq", v>>] \cup Held[<<"loot", v>>],
           \A w \in Workers : cur'[w] # NoCoroutine =>
              \A u, n : u = cur'[w].task /\ n = cur'[w].pos => Ahead(u, n),
           \A w \in Workers : \A k \in DOMAIN t_schedq'[w] :
              \A u, n : u = t_schedq'[w][k].task /\ n = t_schedq'[w][k].pos => Ahead(u, n)
    PROVE  Scripts'
<1>1. \A s, n : Ahead(s, n)' <=> Ahead(s, n)
  BY SameAhead
<1>2. \A t \in Tasks : fate'[t] = "new" => Ahead(t, 0)'
  BY <1>1 DEF IndInv, Scripts
<1>3. \A w \in Workers : \A t \in Held'[<<"taskq", w>>] \cup Held'[<<"loot", w>>] : Ahead(t, 0)'
  BY <1>1 DEF IndInv, Scripts
<1>4. \A w \in Workers : cur'[w] # NoCoroutine =>
          \A u, n : u = cur'[w].task /\ n = cur'[w].pos => Ahead(u, n)'
  BY <1>1
<1>5. \A w \in Workers : cur'[w] # NoCoroutine => Ahead(cur[w].task, cur[w].pos)'
  BY <1>4
<1>6. \A w \in Workers : \A k \in DOMAIN t_schedq'[w] :
          \A u, n : u = t_schedq'[w][k].task /\ n = t_schedq'[w][k].pos => Ahead(u, n)'
  BY <1>1
<1>7. ASSUME NEW w \in Workers, NEW k \in DOMAIN t_schedq'[w]
      PROVE  Ahead(t_schedq[w][k].task, t_schedq[w][k].pos)'
  <2>1. PICK u, n : u = t_schedq'[w][k].task /\ n = t_schedq'[w][k].pos
    OBVIOUS
  <2>2. Ahead(u, n)'
    BY <1>6, <2>1
  <2> QED
    BY <2>1, <2>2
<1> QED
  BY <1>2, <1>3, <1>5, <1>7 DEF Scripts

-----------------------------------------------------------------------------
(* The steps of a worker that move no task.                                *)

LEMMA PickVictimInv ==
    ASSUME IndInv, NEW w \in Workers, PickVictim(w)
    PROVE  IndInv' /\ BoxStep
<1>1. /\ pc[w] = "steal"
      /\ UNCHANGED <<m_closed, s_taskId, taskq, qclosed, lock, t_schedq, cur, back, burst, sub,
                     dtor, fate>>
  BY DEF PickVictim, poolVars
<1>2. PICK l, x :
          /\ l \in {"last", "stealLock"} /\ pc' = [pc EXCEPT ![w] = l] /\ loot' = [loot EXCEPT ![w] = x]
          /\ x = loot[w] \/ \E v \in Workers, n \in 0..Cap : x = [from |-> v, num |-> n, tasks |-> <<>>]
  <2>1. CASE pc' = [pc EXCEPT ![w] = "last"] /\ UNCHANGED loot
    BY <2>1 DEF IndInv, Types
  <2>2. ASSUME NEW v \in Workers \ {w}, NEW n, n = Len(taskq[v]) \div 2, n > 0,
               loot' = [loot EXCEPT ![w] = [from |-> v, num |-> n, tasks |-> <<>>]],
               pc' = [pc EXCEPT ![w] = "stealLock"]
        PROVE  \E l, x :
          /\ l \in {"last", "stealLock"} /\ pc' = [pc EXCEPT ![w] = l] /\ loot' = [loot EXCEPT ![w] = x]
          /\ x = loot[w] \/ \E u \in Workers, m \in 0..Cap : x = [from |-> u, num |-> m, tasks |-> <<>>]
    <3>1. Len(taskq[v]) \in Nat /\ Len(taskq[v]) <= Cap /\ Cap \in Nat
      BY PoolAssumption DEF IndInv, Types
    <3>2. n \in 0..Cap
      <4>1. \A m, c \in Nat : m <= c => m \div 2 \in 0..c
        OBVIOUS
      <4> QED
        BY <2>2, <3>1, <4>1
    <3> QED
      BY <2>2, <3>2
  <2> QED
    BY <2>1, <2>2 DEF PickVictim, Goto
<1>3. x \in [from : Workers, num : 0..Cap, tasks : Seq(Tasks)] /\ x.tasks = <<>>
  <2>1. loot[w].tasks = <<>>
    BY <1>1 DEF IndInv, Places
  <2> QED
    BY <1>2, <2>1 DEF IndInv, Types
<1>4. /\ loot' \in [Workers -> [from : Workers, num : 0..Cap, tasks : Seq(Tasks)]]
      /\ \A v \in Workers : loot'[v].tasks = loot[v].tasks
      /\ \A v \in Workers \ {w} : loot'[v] = loot[v]
      /\ loot'[w].tasks = <<>>
  BY <1>1, <1>2, <1>3 DEF IndInv, Types, Places
<1>5. pc' \in [Agents -> Locations]
  BY <1>2 DEF IndInv, Types, Locations
<1>6. Types'
  BY <1>1, <1>4, <1>5 DEF IndInv, Types
<1>7. l \in WorkerAt /\ l \notin Submitting /\ pc[w] \notin Submitting /\ l # "run" /\ l # "read"
      /\ l \notin {"stealRead", "stealWrite"}
  BY <1>1, <1>2 DEF WorkerAt, Locations, Submitting
<1>8. cur[w] = NoCoroutine
  BY <1>1 DEF IndInv, Places, InTask
<1>9. \A v \in Workers : Len(taskq'[v]) <= Len(taskq[v])
  <2>1. \A v \in Workers : Len(taskq[v]) \in Nat
    BY DEF IndInv, Types
  <2> QED
    BY <1>1, <2>1
<1>10. Places' /\ Locked' /\ Closing' /\ Submits'
  BY <1>1, <1>2, <1>4, <1>6, <1>7, <1>8, <1>9, WorkerKeeps
<1>11. Once' /\ Scripts' /\ BoxStep
  BY <1>1, <1>4, SameOnce
<1> QED
  BY <1>6, <1>10, <1>11 DEF IndInv

LEMMA StealLockInv ==
    ASSUME IndInv, NEW w \in Workers, StealLock(w)
    PROVE  IndInv' /\ BoxStep
<1>1. /\ pc[w] = "stealLock" /\ lock[w] = NoAgent
      /\ lock' = [lock EXCEPT ![w] = w]
      /\ pc' = [pc EXCEPT ![w] = "stealRead"]
      /\ UNCHANGED <<m_closed, s_taskId, taskq, qclosed, t_schedq, cur, back, burst, loot, sub,
                     dtor, fate>>
  BY DEF StealLock, workerVars, Goto
<1>2. /\ w \in Agents
      /\ lock' \in [Workers -> Agents \cup {NoAgent}] /\ pc' \in [Agents -> Locations]
      /\ lock'[w] = w /\ \A v \in Workers \ {w} : lock'[v] = lock[v]
  BY <1>1 DEF IndInv, Types, Locations, Agents
<1>3. Types'
  BY <1>1, <1>2 DEF IndInv, Types
<1>4. "stealRead" \in WorkerAt /\ "stealRead" \notin Submitting /\ pc[w] \notin Submitting
  BY <1>1 DEF WorkerAt, Locations, Submitting
<1>5. cur[w] = NoCoroutine /\ loot[w].tasks = <<>>
  BY <1>1 DEF IndInv, Places, InTask
<1>6. \A v \in Workers : Len(taskq'[v]) <= Len(taskq[v])
  <2>1. \A v \in Workers : Len(taskq[v]) \in Nat
    BY DEF IndInv, Types
  <2> QED
    BY <1>1, <2>1
<1>7. Places' /\ Locked' /\ Closing' /\ Submits'
  BY <1>1, <1>2, <1>3, <1>4, <1>5, <1>6, WorkerKeeps
<1>8. Once' /\ Scripts' /\ BoxStep
  BY <1>1, SameOnce
<1> QED
  BY <1>3, <1>7, <1>8 DEF IndInv

(* A read that fails, an empty t_schedq: on to location l.                 *)
LEMMA GoOnInv ==
    ASSUME IndInv, NEW w \in Workers, NEW l \in {"sched", "steal", "top", "last", "read"},
           pc[w] \notin InTask, pc[w] # "stealWrite", pc' = [pc EXCEPT ![w] = l],
           burst' = burst \/ burst' = [burst EXCEPT ![w] = 0], l = "read" => burst'[w] = 0,
           UNCHANGED <<m_closed, s_taskId, taskq, qclosed, lock, t_schedq, cur, back, loot, sub,
                       dtor, fate>>
    PROVE  IndInv' /\ BoxStep
<1>1. /\ burst' \in [Workers -> 0..Burst] /\ pc' \in [Agents -> Locations]
      /\ \A v \in Workers \ {w} : burst'[v] = burst[v]
  <2>1. 0 \in 0..Burst
    BY PoolAssumption
  <2>2. burst' \in [Workers -> 0..Burst] /\ \A v \in Workers \ {w} : burst'[v] = burst[v]
    <3>1. burst \in [Workers -> 0..Burst]
      BY DEF IndInv, Types
    <3>2. CASE burst' = burst
      BY <3>1, <3>2
    <3>3. CASE burst' = [burst EXCEPT ![w] = 0]
      BY <2>1, <3>1, <3>3
    <3> QED
      BY <3>2, <3>3
  <2>3. pc' \in [Agents -> Locations]
    BY DEF IndInv, Types, Locations
  <2> QED
    BY <2>2, <2>3
<1>2. Types'
  BY <1>1 DEF IndInv, Types
<1>3. /\ l \in WorkerAt /\ l \notin Submitting /\ pc[w] \notin Submitting
      /\ l # "run" /\ l \notin {"stealRead", "stealWrite"}
  BY DEF WorkerAt, Locations, Submitting, InTask
<1>4. cur[w] = NoCoroutine /\ loot[w].tasks = <<>>
  BY DEF IndInv, Places
<1>5. l = "read" => burst'[w] < Burst
  BY PoolAssumption
<1>6. \A v \in Workers : Len(taskq'[v]) <= Len(taskq[v])
  <2>1. \A v \in Workers : Len(taskq[v]) \in Nat
    BY DEF IndInv, Types
  <2> QED
    BY <2>1
<1>7. Places' /\ Locked' /\ Closing' /\ Submits'
  BY <1>1, <1>2, <1>3, <1>4, <1>5, <1>6, WorkerKeeps
<1>8. Once' /\ Scripts' /\ BoxStep
  BY SameOnce
<1> QED
  BY <1>2, <1>7, <1>8 DEF IndInv

-----------------------------------------------------------------------------
(* The steps of a worker that move tasks.                                  *)

LEMMA FreshCoroutine ==
    \A t \in Tasks : /\ Coroutine(t) \in Valid /\ Coroutine(t).task = t /\ Coroutine(t).pos = 0
                     /\ Coroutine(t) # NoCoroutine
<1> SUFFICES ASSUME NEW t \in Tasks
             PROVE  /\ Coroutine(t) \in Valid /\ Coroutine(t).task = t /\ Coroutine(t).pos = 0
                    /\ Coroutine(t) # NoCoroutine
  OBVIOUS
<1>1. Script[t] \in Seq(Tasks \cup {"sched"}) /\ t # NoTask
  BY PoolAssumption
<1>2. Len(Script[t]) \in Nat /\ 0 <= Len(Script[t])
  BY <1>1
<1>3. Coroutine(t) = [task |-> t, pos |-> 0]
  BY DEF Coroutine
<1> QED
  BY <1>1, <1>2, <1>3 DEF Valid, Coroutines, NoCoroutine

(* A task goes from the task queue of w into a new coroutine.              *)
LEMMA ReadAndGoInv ==
    ASSUME IndInv, NEW w \in Workers, NEW from \in {"read", "last"}, pc[w] = from,
           ReadAndGo(w, from),
           UNCHANGED <<m_closed, s_taskId, qclosed, lock, t_schedq, burst, loot, sub, dtor, fate>>
    PROVE  IndInv' /\ BoxStep
<1>1. PICK t : t = Head(taskq[w])
  OBVIOUS
<1>2. /\ taskq[w] # <<>>
      /\ taskq' = [taskq EXCEPT ![w] = Tail(taskq[w])]
      /\ cur' = [cur EXCEPT ![w] = Coroutine(t)]
      /\ back' = [back EXCEPT ![w] = from]
      /\ pc' = [pc EXCEPT ![w] = "run"]
  BY <1>1 DEF ReadAndGo, Unread, Goto
<1>3. taskq[w] \in Seq(Tasks) /\ Distinct(taskq[w])
  BY DEF IndInv, Types, Once
<1>4. /\ Tail(taskq[w]) \in Seq(Tasks) /\ Len(Tail(taskq[w])) = Len(taskq[w]) - 1
      /\ Distinct(Tail(taskq[w])) /\ t \in Tasks
      /\ ElemsOf(Tail(taskq[w])) = ElemsOf(taskq[w]) \ {t} /\ t \in ElemsOf(taskq[w])
  BY <1>1, <1>2, <1>3, DistinctTail
<1>5. /\ Coroutine(t) \in Valid /\ Coroutine(t).task = t /\ Coroutine(t).pos = 0
      /\ Coroutine(t) # NoCoroutine
  BY <1>4, FreshCoroutine
<1>6. /\ taskq' \in [Workers -> Seq(Tasks)] /\ taskq'[w] = Tail(taskq[w])
      /\ \A v \in Workers \ {w} : taskq'[v] = taskq[v]
      /\ cur' \in [Workers -> Valid \cup {NoCoroutine}] /\ cur'[w] = Coroutine(t)
      /\ \A v \in Workers \ {w} : cur'[v] = cur[v]
  BY <1>2, <1>4, <1>5 DEF IndInv, Types
<1>7. /\ back' \in [Workers -> {"read", "sched", "last"}] /\ back'[w] = from
      /\ \A v \in Workers \ {w} : back'[v] = back[v]
      /\ pc' \in [Agents -> Locations]
  BY <1>2 DEF IndInv, Types, Locations
<1>8. \A v \in Workers : Len(taskq'[v]) <= Len(taskq[v]) /\ Len(taskq'[v]) <= Cap
  <2>1. \A v \in Workers : Len(taskq[v]) \in Nat /\ Len(taskq[v]) <= Cap /\ Cap \in Nat
    BY PoolAssumption DEF IndInv, Types
  <2>2. Len(taskq'[w]) = Len(taskq[w]) - 1
    BY <1>4, <1>6
  <2>3. Len(taskq'[w]) <= Len(taskq[w]) /\ Len(taskq'[w]) <= Cap
    BY <2>1, <2>2
  <2>4. \A v \in Workers \ {w} : Len(taskq'[v]) <= Len(taskq[v]) /\ Len(taskq'[v]) <= Cap
    BY <1>6, <2>1
  <2> QED
    BY <2>3, <2>4
<1>9. Types'
  BY <1>6, <1>7, <1>8 DEF IndInv, Types
<1>10. "run" \in WorkerAt /\ "run" \notin Submitting /\ pc[w] \notin Submitting
  BY DEF WorkerAt, Locations, Submitting
<1>11. cur[w] = NoCoroutine /\ loot[w].tasks = <<>>
  BY DEF IndInv, Places, InTask
<1>12. from = "read" => burst[w] < Burst
  BY DEF IndInv, Places
<1>13. Places' /\ Locked' /\ Closing' /\ Submits'
  BY <1>2, <1>5, <1>6, <1>7, <1>8, <1>9, <1>10, <1>11, <1>12, WorkerKeeps
<1>14. PICK src, dst : src = <<"taskq", w>> /\ dst = <<"cur", w>>
  OBVIOUS
<1>15. src \in Boxes /\ dst \in Boxes /\ src # dst
  BY <1>14 DEF Boxes
<1>16. Held[src] = ElemsOf(taskq[w]) /\ Held'[src] = ElemsOf(taskq[w]) \ {t}
  BY <1>4, <1>6, <1>14, BoxesHeld, BoxesHeldNext
<1>17. Held[dst] = {} /\ Held'[dst] = {t}
  <2>1. Held[dst] = {}
    <3>1. Held[dst] = {cur[w].task} \cap Tasks
      BY <1>14, BoxesHeld
    <3>2. cur[w].task = NoTask
      BY <1>11 DEF NoCoroutine
    <3> QED
      BY <3>1, <3>2, PoolAssumption
  <2>2. Held'[dst] = {t}
    <3>1. Held'[dst] = {cur'[w].task} \cap Tasks
      BY <1>14, BoxesHeldNext
    <3>2. cur'[w].task = t
      BY <1>5, <1>6
    <3> QED
      BY <1>4, <3>1, <3>2
  <2> QED
    BY <2>1, <2>2
<1>18. \A b \in Boxes : b # src /\ b # dst => Held'[b] = Held[b]
  <2>1. \A v \in Workers :
            /\ v # w => Held'[<<"taskq", v>>] = Held[<<"taskq", v>>]
            /\ v # w => Held'[<<"cur", v>>] = Held[<<"cur", v>>]
            /\ Held'[<<"loot", v>>] = Held[<<"loot", v>>]
            /\ Held'[<<"schedq", v>>] = Held[<<"schedq", v>>]
    BY <1>6, SameBoxes
  <2>2. ASSUME NEW b \in Boxes, b # src, b # dst PROVE Held'[b] = Held[b]
    <3>1. PICK u \in Workers : \/ b = <<"taskq", u>> \/ b = <<"loot", u>>
                               \/ b = <<"cur", u>> \/ b = <<"schedq", u>>
      BY EachBox
    <3> QED
      BY <1>14, <2>1, <2>2, <3>1
  <2> QED
    BY <2>2
<1>19. /\ BoxStep
       /\ Apart(Held)'
       /\ \A b \in Boxes : \A u \in Held'[b] : fate'[u] = "accepted"
       /\ \A u \in Tasks : fate'[u] = "accepted" /\ ~m_closed' => \E b \in Boxes : u \in Held'[b]
  <2>1. PICK X : X = {t}
    OBVIOUS
  <2>2. X \subseteq Held[src] /\ Held'[src] = Held[src] \ X /\ Held'[dst] = Held[dst] \cup X
    BY <1>4, <1>16, <1>17, <2>1
  <2>3. Starts(src, dst, X)
    BY <1>4, <1>14, <2>1 DEF Starts, Kind
  <2> QED
    BY <1>15, <1>18, <2>2, <2>3, MovedOnce
<1>20. Once'
  <2>1. \A v \in Workers : Distinct(taskq'[v]) /\ Distinct(loot'[v].tasks)
    BY <1>4, <1>6 DEF IndInv, Once
  <2>2. \A v \in Workers : \A k, l \in DOMAIN t_schedq'[v] :
            t_schedq'[v][k].task = t_schedq'[v][l].task => k = l
    BY DEF IndInv, Once
  <2> QED
    BY <1>19, <2>1, <2>2 DEF Once
<1>21. Scripts'
  <2>1. Ahead(t, 0)
    BY <1>4, BoxesHeld DEF IndInv, Scripts
  <2>2. ASSUME NEW v \in Workers, cur'[v] # NoCoroutine
        PROVE  \A u, n : u = cur'[v].task /\ n = cur'[v].pos => Ahead(u, n)
    <3>1. CASE v = w
      BY <1>5, <1>6, <2>1, <3>1
    <3>2. CASE v # w
      BY <1>6, <2>2, <3>2 DEF IndInv, Scripts
    <3> QED
      BY <3>1, <3>2
  <2>3. \A v \in Workers : \A k \in DOMAIN t_schedq'[v] :
            \A u, n : u = t_schedq'[v][k].task /\ n = t_schedq'[v][k].pos => Ahead(u, n)
    BY DEF IndInv, Scripts
  <2>4. \A v \in Workers : \A u \in Held'[<<"taskq", v>>] \cup Held'[<<"loot", v>>] :
            u \in Held[<<"taskq", v>>] \cup Held[<<"loot", v>>]
    <3>1. \A v \in Workers : Held'[<<"loot", v>>] = Held[<<"loot", v>>]
      BY SameBoxes
    <3>2. \A v \in Workers : Held'[<<"taskq", v>>] \subseteq Held[<<"taskq", v>>]
      <4>1. \A v \in Workers \ {w} : Held'[<<"taskq", v>>] = Held[<<"taskq", v>>]
        BY <1>6, SameBoxes
      <4> QED
        BY <1>14, <1>16, <4>1
    <3> QED
      BY <3>1, <3>2
  <2> QED
    BY <2>2, <2>3, <2>4, MovedScripts
<1> QED
  BY <1>9, <1>13, <1>19, <1>20, <1>21 DEF IndInv

(* A coroutine that leaves its thread.                                     *)
LEMMA LeavesThread ==
    ASSUME IndInv, NEW w \in Workers, pc[w] = "run", BackToLoop(w)
    PROVE  \E l \in {"top", "sched", "read"} :
              /\ pc' = [pc EXCEPT ![w] = l] /\ pc' \in [Agents -> Locations]
              /\ l = "read" => burst'[w] < Burst
              /\ burst' \in [Workers -> 0..Burst]
              /\ \A v \in Workers \ {w} : burst'[v] = burst[v]
              /\ cur' \in [Workers -> Valid \cup {NoCoroutine}] /\ cur'[w] = NoCoroutine
              /\ \A v \in Workers \ {w} : cur'[v] = cur[v]
              /\ cur[w] \in Valid /\ cur[w] # NoCoroutine
              /\ UNCHANGED <<m_closed, s_taskId, taskq, qclosed, lock, back, loot, sub, dtor>>
<1> DEFINE l == IF back[w] # "read" THEN "top" ELSE IF burst[w] + 1 = Burst THEN "sched" ELSE "read"
           n == IF back[w] = "read" THEN burst[w] + 1 ELSE burst[w]
<1>1. /\ pc' = [pc EXCEPT ![w] = l] /\ burst' = [burst EXCEPT ![w] = n]
      /\ cur' = [cur EXCEPT ![w] = NoCoroutine]
      /\ UNCHANGED <<m_closed, s_taskId, taskq, qclosed, lock, back, loot, sub, dtor>>
  BY DEF BackToLoop, Goto, poolVars
<1>2. back[w] = "read" => burst[w] < Burst
  BY DEF IndInv, Places, InTask
<1>3. burst[w] \in 0..Burst /\ Burst \in Nat
  BY PoolAssumption DEF IndInv, Types
<1>4. n \in 0..Burst /\ (l = "read" => n < Burst)
  BY <1>2, <1>3
<1>5. l \in {"top", "sched", "read"}
  OBVIOUS
<1> HIDE DEF l, n
<1>6. pc' \in [Agents -> Locations]
  BY <1>1, <1>5 DEF IndInv, Types, Locations
<1>7. burst' \in [Workers -> 0..Burst] /\ burst'[w] = n /\ \A v \in Workers \ {w} : burst'[v] = burst[v]
  BY <1>1, <1>4 DEF IndInv, Types
<1>8. /\ cur' \in [Workers -> Valid \cup {NoCoroutine}] /\ cur'[w] = NoCoroutine
      /\ \A v \in Workers \ {w} : cur'[v] = cur[v]
  BY <1>1 DEF IndInv, Types
<1>9. cur[w] \in Valid /\ cur[w] # NoCoroutine
  BY DEF IndInv, Places, InTask, Types
<1> QED
  BY <1>1, <1>4, <1>5, <1>6, <1>7, <1>8, <1>9

(* The boxes when w leaves a coroutine.                                    *)
LEMMA CurLeft ==
    ASSUME IndInv, NEW w \in Workers, cur[w] \in Valid, cur'[w] = NoCoroutine
    PROVE  Held[<<"cur", w>>] = {cur[w].task} /\ Held'[<<"cur", w>>] = {}
<1>1. cur[w].task \in Tasks
  BY DEF Valid, Coroutines
<1>2. Held[<<"cur", w>>] = {cur[w].task}
  BY <1>1, BoxesHeld
<1>3. Held'[<<"cur", w>>] = {cur'[w].task} \cap Tasks
  BY BoxesHeldNext
<1>4. cur'[w].task = NoTask
  BY DEF NoCoroutine
<1> QED
  BY <1>2, <1>3, <1>4, PoolAssumption

LEMMA FinishInv ==
    ASSUME IndInv, NEW w \in Workers, Finish(w)
    PROVE  IndInv' /\ BoxStep
<1>1. /\ pc[w] = "run" /\ BackToLoop(w) /\ t_schedq' = t_schedq
      /\ fate' = [fate EXCEPT ![cur[w].task] = "finished"]
  BY DEF Finish
<1>2. PICK l \in {"top", "sched", "read"} :
              /\ pc' = [pc EXCEPT ![w] = l] /\ pc' \in [Agents -> Locations]
              /\ l = "read" => burst'[w] < Burst
              /\ burst' \in [Workers -> 0..Burst]
              /\ \A v \in Workers \ {w} : burst'[v] = burst[v]
              /\ cur' \in [Workers -> Valid \cup {NoCoroutine}] /\ cur'[w] = NoCoroutine
              /\ \A v \in Workers \ {w} : cur'[v] = cur[v]
              /\ cur[w] \in Valid /\ cur[w] # NoCoroutine
              /\ UNCHANGED <<m_closed, s_taskId, taskq, qclosed, lock, back, loot, sub, dtor>>
  BY <1>1, LeavesThread
<1>3. PICK s : s = cur[w].task
  OBVIOUS
<1>4. s \in Tasks
  BY <1>2, <1>3 DEF Valid, Coroutines
<1>5. PICK src : src = <<"cur", w>>
  OBVIOUS
<1>6. src \in Boxes /\ Held[src] = {s} /\ Held'[src] = {}
  BY <1>2, <1>3, <1>5, CurLeft DEF Boxes
<1>7. fate[s] = "accepted"
  BY <1>6 DEF IndInv, Once
<1>8. /\ \A t \in Tasks : fate'[t] = IF t = s THEN "finished" ELSE fate[t]
      /\ fate' \in [Tasks -> {"new", "accepted", "refused", "finished"}]
      /\ \A t \in Tasks : fate'[t] = "new" <=> fate[t] = "new"
  BY <1>1, <1>3, <1>4, <1>7 DEF IndInv, Types
<1>9. Types'
  BY <1>1, <1>2, <1>8 DEF IndInv, Types
<1>10. /\ l \in WorkerAt /\ l \notin Submitting /\ pc[w] \notin Submitting /\ l # "run"
       /\ l \notin {"stealRead", "stealWrite"}
  BY <1>1, <1>2 DEF WorkerAt, Locations, Submitting
<1>11. loot[w].tasks = <<>>
  BY <1>1 DEF IndInv, Places
<1>12. \A v \in Workers : Len(taskq'[v]) <= Len(taskq[v])
  <2>1. \A v \in Workers : Len(taskq[v]) \in Nat
    BY DEF IndInv, Types
  <2> QED
    BY <1>2, <2>1
<1>13. Places' /\ Locked' /\ Closing' /\ Submits'
  BY <1>1, <1>2, <1>8, <1>9, <1>10, <1>11, <1>12, WorkerKeeps
<1>14. \A b \in Boxes : b # src => Held'[b] = Held[b]
  <2>1. \A v \in Workers :
            /\ v # w => Held'[<<"cur", v>>] = Held[<<"cur", v>>]
            /\ Held'[<<"taskq", v>>] = Held[<<"taskq", v>>]
            /\ Held'[<<"loot", v>>] = Held[<<"loot", v>>]
            /\ Held'[<<"schedq", v>>] = Held[<<"schedq", v>>]
    BY <1>1, <1>2, SameBoxes
  <2>2. ASSUME NEW b \in Boxes, b # src PROVE Held'[b] = Held[b]
    <3>1. PICK u \in Workers : \/ b = <<"taskq", u>> \/ b = <<"loot", u>>
                               \/ b = <<"cur", u>> \/ b = <<"schedq", u>>
      BY EachBox
    <3> QED
      BY <1>5, <2>1, <2>2, <3>1
  <2> QED
    BY <2>2
<1>15. /\ BoxStep
       /\ Apart(Held)'
       /\ \A b \in Boxes : \A u \in Held'[b] : fate'[u] = "accepted"
       /\ \A u \in Tasks : fate'[u] = "accepted" /\ ~m_closed' => \E b \in Boxes : u \in Held'[b]
  <2>1. PICK X : X = {s}
    OBVIOUS
  <2>2. /\ X \subseteq Held[src] /\ Held'[src] = Held[src] \ X
        /\ \E t \in Tasks : /\ X = {t} /\ Kind(src) = "started"
                            /\ fate' = [fate EXCEPT ![t] = "finished"]
    BY <1>1, <1>3, <1>4, <1>5, <1>6, <2>1 DEF Kind
  <2> QED
    BY <1>2, <1>6, <1>14, <2>2, LeftOnce
<1>16. Once'
  BY <1>1, <1>2, <1>15 DEF IndInv, Once
<1>17. Scripts'
  <2>1. \A v \in Workers : cur'[v] # NoCoroutine =>
            \A u, n : u = cur'[v].task /\ n = cur'[v].pos => Ahead(u, n)
    BY <1>2 DEF IndInv, Scripts
  <2>2. \A v \in Workers : \A k \in DOMAIN t_schedq'[v] :
            \A u, n : u = t_schedq'[v][k].task /\ n = t_schedq'[v][k].pos => Ahead(u, n)
    BY <1>1 DEF IndInv, Scripts
  <2>3. \A v \in Workers : /\ Held'[<<"taskq", v>>] = Held[<<"taskq", v>>]
                           /\ Held'[<<"loot", v>>] = Held[<<"loot", v>>]
    BY <1>2, SameBoxes
  <2> QED
    BY <1>8, <2>1, <2>2, <2>3, MovedScripts
<1> QED
  BY <1>9, <1>13, <1>15, <1>16, <1>17 DEF IndInv

(* A thread that leaves its loop drops the coroutines that had yielded.    *)
LEMMA TopInv ==
    ASSUME IndInv, NEW w \in Workers, Top(w)
    PROVE  IndInv' /\ BoxStep
<1>1. /\ pc[w] = "top" /\ burst' = [burst EXCEPT ![w] = 0]
      /\ UNCHANGED <<m_closed, s_taskId, taskq, qclosed, lock, cur, back, loot, sub, dtor, fate>>
  BY DEF Top, poolVars
<1>2. CASE ~m_closed /\ Goto(w, "read") /\ UNCHANGED t_schedq
  <2>1. burst'[w] = 0
    BY <1>1 DEF IndInv, Types
  <2>2. pc' = [pc EXCEPT ![w] = "read"] /\ pc[w] \notin InTask /\ pc[w] # "stealWrite"
    BY <1>1, <1>2 DEF Goto, InTask
  <2> QED
    BY <1>1, <1>2, <2>1, <2>2, GoOnInv
<1>3. CASE m_closed /\ Goto(w, "exit") /\ t_schedq' = [t_schedq EXCEPT ![w] = <<>>]
  <2>1. /\ t_schedq' \in [Workers -> Seq(Valid)] /\ t_schedq'[w] = <<>>
        /\ \A v \in Workers \ {w} : t_schedq'[v] = t_schedq[v]
    BY <1>3 DEF IndInv, Types
  <2>2. pc' = [pc EXCEPT ![w] = "exit"] /\ pc' \in [Agents -> Locations]
    BY <1>3 DEF IndInv, Types, Goto, Locations
  <2>3. burst' \in [Workers -> 0..Burst] /\ \A v \in Workers \ {w} : burst'[v] = burst[v]
    <3>1. 0 \in 0..Burst
      BY PoolAssumption
    <3> QED
      BY <1>1, <3>1 DEF IndInv, Types
  <2>4. Types'
    BY <1>1, <2>1, <2>2, <2>3 DEF IndInv, Types
  <2>5. /\ "exit" \in WorkerAt /\ "exit" \notin Submitting /\ pc[w] \notin Submitting
        /\ cur[w] = NoCoroutine /\ loot[w].tasks = <<>>
    BY <1>1 DEF WorkerAt, Locations, Submitting, InTask, IndInv, Places
  <2>6. \A v \in Workers : Len(taskq'[v]) <= Len(taskq[v])
    <3>1. \A v \in Workers : Len(taskq[v]) \in Nat
      BY DEF IndInv, Types
    <3> QED
      BY <1>1, <3>1
  <2>7. Places' /\ Locked' /\ Closing' /\ Submits'
    BY <1>1, <2>2, <2>3, <2>4, <2>5, <2>6, WorkerKeeps
  <2>8. PICK src : src = <<"schedq", w>>
    OBVIOUS
  <2>9. src \in Boxes /\ Held'[src] = {}
    <3>1. Held'[src] = TasksOf(t_schedq'[w])
      BY <2>8, BoxesHeldNext
    <3> QED
      BY <2>1, <2>8, <3>1 DEF Boxes, TasksOf
  <2>10. \A b \in Boxes : b # src => Held'[b] = Held[b]
    <3>1. \A v \in Workers :
              /\ v # w => Held'[<<"schedq", v>>] = Held[<<"schedq", v>>]
              /\ Held'[<<"taskq", v>>] = Held[<<"taskq", v>>]
              /\ Held'[<<"loot", v>>] = Held[<<"loot", v>>]
              /\ Held'[<<"cur", v>>] = Held[<<"cur", v>>]
      BY <1>1, <2>1, SameBoxes
    <3>2. ASSUME NEW b \in Boxes, b # src PROVE Held'[b] = Held[b]
      <4>1. PICK u \in Workers : \/ b = <<"taskq", u>> \/ b = <<"loot", u>>
                                 \/ b = <<"cur", u>> \/ b = <<"schedq", u>>
        BY EachBox
      <4> QED
        BY <2>8, <3>1, <3>2, <4>1
    <3> QED
      BY <3>2
  <2>11. /\ BoxStep
         /\ Apart(Held)'
         /\ \A b \in Boxes : \A u \in Held'[b] : fate'[u] = "accepted"
         /\ \A u \in Tasks : fate'[u] = "accepted" /\ ~m_closed' => \E b \in Boxes : u \in Held'[b]
    <3>1. PICK X : X = Held[src]
      OBVIOUS
    <3>2. X \subseteq Held[src] /\ Held'[src] = Held[src] \ X
      BY <2>9, <3>1
    <3> QED
      BY <1>1, <1>3, <2>9, <2>10, <3>2, LeftOnce
  <2>12. Once'
    <3>1. \A v \in Workers : \A k, l \in DOMAIN t_schedq'[v] :
              t_schedq'[v][k].task = t_schedq'[v][l].task => k = l
      BY <2>1 DEF IndInv, Once
    <3>2. \A v \in Workers : Distinct(taskq'[v]) /\ Distinct(loot'[v].tasks)
      BY <1>1 DEF IndInv, Once
    <3> QED
      BY <2>11, <3>1, <3>2 DEF Once
  <2>13. Scripts'
    <3>1. \A v \in Workers : cur'[v] # NoCoroutine =>
              \A u, n : u = cur'[v].task /\ n = cur'[v].pos => Ahead(u, n)
      BY <1>1 DEF IndInv, Scripts
    <3>2. ASSUME NEW v \in Workers, NEW k \in DOMAIN t_schedq'[v]
          PROVE  \A u, n : u = t_schedq'[v][k].task /\ n = t_schedq'[v][k].pos => Ahead(u, n)
      <4>1. v # w /\ t_schedq'[v] = t_schedq[v]
        BY <2>1, <3>2
      <4> QED
        BY <4>1 DEF IndInv, Scripts
    <3>3. \A v \in Workers : /\ Held'[<<"taskq", v>>] = Held[<<"taskq", v>>]
                             /\ Held'[<<"loot", v>>] = Held[<<"loot", v>>]
      BY <1>1, SameBoxes
    <3> QED
      BY <1>1, <3>1, <3>2, <3>3, MovedScripts
  <2> QED
    BY <2>4, <2>7, <2>11, <2>12, <2>13 DEF IndInv
<1> QED
  BY <1>2, <1>3 DEF Top

(* t_schedq as a queue of tasks.                                           *)
DistinctTasks(q) == \A k, l \in DOMAIN q : q[k].task = q[l].task => k = l

LEMMA AppendTask ==
    ASSUME NEW q \in Seq(Valid), NEW co \in Valid, DistinctTasks(q), co.task \notin TasksOf(q)
    PROVE  LET r == Append(q, co)
           IN  /\ r \in Seq(Valid) /\ DistinctTasks(r)
               /\ TasksOf(r) = TasksOf(q) \cup {co.task}
               /\ \A k \in DOMAIN r : r[k] = co \/ \E l \in DOMAIN q : r[k] = q[l]
<1> DEFINE r == Append(q, co)
<1>1. /\ r \in Seq(Valid)
      /\ DOMAIN q = 1..Len(q) /\ DOMAIN r = 1..(Len(q) + 1)
      /\ Len(q) \in Nat
      /\ \A i \in 1..Len(q) : r[i] = q[i]
      /\ r[Len(q) + 1] = co
  OBVIOUS
<1> HIDE DEF r
<1>2. DistinctTasks(r)
  BY <1>1 DEF DistinctTasks, TasksOf
<1>3. TasksOf(r) = TasksOf(q) \cup {co.task}
  BY <1>1 DEF TasksOf
<1>4. \A k \in DOMAIN r : r[k] = co \/ \E l \in DOMAIN q : r[k] = q[l]
  BY <1>1
<1> QED
  BY <1>1, <1>2, <1>3, <1>4 DEF r

LEMMA TailTasks ==
    ASSUME NEW q \in Seq(Valid), DistinctTasks(q), q # <<>>
    PROVE  LET r == Tail(q)
           IN  /\ r \in Seq(Valid) /\ DistinctTasks(r)
               /\ Head(q) \in Valid
               /\ \E k \in DOMAIN q : Head(q) = q[k]
               /\ Head(q).task \in TasksOf(q)
               /\ TasksOf(r) = TasksOf(q) \ {Head(q).task}
               /\ \A k \in DOMAIN r : \E l \in DOMAIN q : r[k] = q[l]
<1> DEFINE r == Tail(q)
<1>1. /\ r \in Seq(Valid)
      /\ DOMAIN q = 1..Len(q) /\ DOMAIN r = 1..(Len(q) - 1)
      /\ Len(q) \in Nat \ {0}
      /\ \A i \in 1..(Len(q) - 1) : r[i] = q[i + 1]
      /\ Head(q) = q[1]
      /\ q[1] \in Valid
  OBVIOUS
<1> HIDE DEF r
<1>2. 1 \in DOMAIN q
  BY <1>1
<1>3. \A i \in 1..(Len(q) - 1) : i + 1 \in 1..Len(q) /\ i + 1 # 1
  BY <1>1
<1>4. DistinctTasks(r)
  <2>1. ASSUME NEW i \in 1..(Len(q) - 1), NEW j \in 1..(Len(q) - 1), r[i].task = r[j].task
        PROVE  i = j
    <3>1. q[i + 1].task = q[j + 1].task /\ i + 1 \in DOMAIN q /\ j + 1 \in DOMAIN q
      BY <1>1, <1>3, <2>1
    <3>2. i + 1 = j + 1
      BY <3>1 DEF DistinctTasks
    <3> QED
      BY <3>2
  <2> QED
    BY <1>1, <2>1 DEF DistinctTasks
<1>5. ASSUME NEW x \in TasksOf(r) PROVE x \in TasksOf(q) \ {Head(q).task}
  <2>1. PICK i \in 1..(Len(q) - 1) : x = r[i].task
    BY <1>1 DEF TasksOf
  <2>2. x = q[i + 1].task /\ i + 1 \in DOMAIN q /\ i + 1 # 1
    BY <1>1, <1>3, <2>1
  <2> QED
    BY <1>1, <1>2, <2>2 DEF TasksOf, DistinctTasks
<1>6. ASSUME NEW x \in TasksOf(q), x # Head(q).task PROVE x \in TasksOf(r)
  <2>1. PICK i \in 1..Len(q) : x = q[i].task
    BY <1>1 DEF TasksOf
  <2>2. i # 1 /\ i - 1 \in 1..(Len(q) - 1)
    BY <1>1, <1>6, <2>1
  <2>3. r[i - 1].task = x
    BY <1>1, <2>1, <2>2
  <2> QED
    BY <1>1, <2>2, <2>3 DEF TasksOf
<1>7. TasksOf(r) = TasksOf(q) \ {Head(q).task}
  BY <1>5, <1>6
<1>8. \A k \in DOMAIN r : \E l \in DOMAIN q : r[k] = q[l]
  BY <1>1, <1>3
<1>9. Head(q).task \in TasksOf(q)
  BY <1>1, <1>2 DEF TasksOf
<1> QED
  BY <1>1, <1>2, <1>4, <1>7, <1>8, <1>9 DEF r

(* One step further, with less ahead.                                      *)
LEMMA Advances ==
    ASSUME NEW co \in Valid, ~Dead(co)
    PROVE  /\ co.task \in Tasks /\ Advanced(co) \in Valid
           /\ Advanced(co).task = co.task
           /\ \A u, n, m : u = co.task /\ n = co.pos /\ m = Advanced(co).pos /\ Ahead(u, n) => Ahead(u, m)
<1>1. PICK s \in Tasks, n \in Nat : co = [task |-> s, pos |-> n] /\ n <= Len(Script[s])
  BY DEF Valid, Coroutines
<1>2. Script[s] \in Seq(Tasks \cup {"sched"}) /\ n # Len(Script[s])
  BY <1>1, PoolAssumption DEF Dead
<1>3. n + 1 <= Len(Script[s]) /\ n + 1 \in Nat
  BY <1>1, <1>2
<1>4. Advanced(co) = [task |-> s, pos |-> n + 1]
  BY <1>1 DEF Advanced
<1>5. \A k \in DOMAIN Script[s] : k > n + 1 => k > n
  BY <1>2
<1>6. Ahead(s, n) => Ahead(s, n + 1)
  BY <1>5 DEF Ahead
<1>7. [task |-> s, pos |-> n + 1] \in Valid
  BY <1>1, <1>3 DEF Valid, Coroutines
<1>8. \A u, m, k : u = s /\ m = n /\ k = n + 1 /\ Ahead(u, m) => Ahead(u, k)
  BY <1>6
<1>9. co.task = s /\ co.pos = n /\ Advanced(co).task = s /\ Advanced(co).pos = n + 1
  BY <1>1, <1>4
<1> QED
  BY <1>4, <1>7, <1>8, <1>9

LEMMA YieldInv ==
    ASSUME IndInv, NEW w \in Workers, Yield(w)
    PROVE  IndInv' /\ BoxStep
<1>1. /\ pc[w] = "run" /\ BackToLoop(w) /\ ~Dead(cur[w]) /\ fate' = fate
      /\ t_schedq' = [t_schedq EXCEPT ![w] = Append(t_schedq[w], Advanced(cur[w]))]
  BY DEF Yield
<1>2. PICK l \in {"top", "sched", "read"} :
              /\ pc' = [pc EXCEPT ![w] = l] /\ pc' \in [Agents -> Locations]
              /\ l = "read" => burst'[w] < Burst
              /\ burst' \in [Workers -> 0..Burst]
              /\ \A v \in Workers \ {w} : burst'[v] = burst[v]
              /\ cur' \in [Workers -> Valid \cup {NoCoroutine}] /\ cur'[w] = NoCoroutine
              /\ \A v \in Workers \ {w} : cur'[v] = cur[v]
              /\ cur[w] \in Valid /\ cur[w] # NoCoroutine
              /\ UNCHANGED <<m_closed, s_taskId, taskq, qclosed, lock, back, loot, sub, dtor>>
  BY <1>1, LeavesThread
<1>3. PICK s, co : s = cur[w].task /\ co = Advanced(cur[w])
  OBVIOUS
<1>4. /\ s \in Tasks /\ co \in Valid /\ co.task = s
      /\ \A u, n, m : u = s /\ n = cur[w].pos /\ m = co.pos /\ Ahead(u, n) => Ahead(u, m)
  BY <1>1, <1>2, <1>3, Advances
<1>5. PICK src, dst : src = <<"cur", w>> /\ dst = <<"schedq", w>>
  OBVIOUS
<1>6. /\ src \in Boxes /\ dst \in Boxes /\ src # dst
      /\ Held[src] = {s} /\ Held'[src] = {}
  BY <1>2, <1>3, <1>5, CurLeft DEF Boxes
<1>7. PICK q : q = t_schedq[w]
  OBVIOUS
<1>8. q \in Seq(Valid) /\ DistinctTasks(q) /\ s \notin TasksOf(q) /\ Held[dst] = TasksOf(q)
  <2>1. Held[dst] = TasksOf(q)
    BY <1>5, <1>7, BoxesHeld
  <2>2. Held[src] \cap Held[dst] = {}
    BY <1>6 DEF IndInv, Once, Apart
  <2>3. s \notin TasksOf(q)
    BY <1>6, <2>1, <2>2
  <2>4. q \in Seq(Valid)
    BY <1>7 DEF IndInv, Types
  <2>5. DistinctTasks(q)
    BY <1>7 DEF IndInv, Once, DistinctTasks
  <2> QED
    BY <2>1, <2>3, <2>4, <2>5
<1>9. PICK r : r = Append(q, co)
  OBVIOUS
<1>10. /\ r \in Seq(Valid) /\ DistinctTasks(r)
       /\ TasksOf(r) = TasksOf(q) \cup {s}
       /\ \A k \in DOMAIN r : r[k] = co \/ \E l2 \in DOMAIN q : r[k] = q[l2]
  BY <1>4, <1>8, <1>9, AppendTask
<1>11. /\ t_schedq' \in [Workers -> Seq(Valid)] /\ t_schedq'[w] = r
       /\ \A v \in Workers \ {w} : t_schedq'[v] = t_schedq[v]
  BY <1>1, <1>3, <1>7, <1>9, <1>10 DEF IndInv, Types
<1>12. Types'
  BY <1>1, <1>2, <1>11 DEF IndInv, Types
<1>13. /\ l \in WorkerAt /\ l \notin Submitting /\ pc[w] \notin Submitting /\ l # "run"
       /\ l \notin {"stealRead", "stealWrite"}
  BY <1>1, <1>2 DEF WorkerAt, Locations, Submitting
<1>14. loot[w].tasks = <<>>
  BY <1>1 DEF IndInv, Places
<1>15. \A v \in Workers : Len(taskq'[v]) <= Len(taskq[v])
  <2>1. \A v \in Workers : Len(taskq[v]) \in Nat
    BY DEF IndInv, Types
  <2> QED
    BY <1>2, <2>1
<1>16. Places' /\ Locked' /\ Closing' /\ Submits'
  BY <1>1, <1>2, <1>12, <1>13, <1>14, <1>15, WorkerKeeps
<1>17. \A b \in Boxes : b # src /\ b # dst => Held'[b] = Held[b]
  <2>1. \A v \in Workers :
            /\ v # w => Held'[<<"cur", v>>] = Held[<<"cur", v>>]
            /\ v # w => Held'[<<"schedq", v>>] = Held[<<"schedq", v>>]
            /\ Held'[<<"taskq", v>>] = Held[<<"taskq", v>>]
            /\ Held'[<<"loot", v>>] = Held[<<"loot", v>>]
    BY <1>2, <1>11, SameBoxes
  <2>2. ASSUME NEW b \in Boxes, b # src, b # dst PROVE Held'[b] = Held[b]
    <3>1. PICK u \in Workers : \/ b = <<"taskq", u>> \/ b = <<"loot", u>>
                               \/ b = <<"cur", u>> \/ b = <<"schedq", u>>
      BY EachBox
    <3> QED
      BY <1>5, <2>1, <2>2, <3>1
  <2> QED
    BY <2>2
<1>18. Held'[dst] = TasksOf(r)
  BY <1>5, <1>11, BoxesHeldNext
<1>19. /\ BoxStep
       /\ Apart(Held)'
       /\ \A b \in Boxes : \A u \in Held'[b] : fate'[u] = "accepted"
       /\ \A u \in Tasks : fate'[u] = "accepted" /\ ~m_closed' => \E b \in Boxes : u \in Held'[b]
  <2>1. PICK X : X = {s}
    OBVIOUS
  <2>2. X \subseteq Held[src] /\ Held'[src] = Held[src] \ X /\ Held'[dst] = Held[dst] \cup X
    BY <1>6, <1>8, <1>10, <1>18, <2>1
  <2>3. Starts(src, dst, X)
    BY <1>5, KindOf DEF Starts
  <2> QED
    BY <1>1, <1>2, <1>6, <1>17, <2>2, <2>3, MovedOnce
<1>20. Once'
  <2>1. \A v \in Workers : \A k, m \in DOMAIN t_schedq'[v] :
            t_schedq'[v][k].task = t_schedq'[v][m].task => k = m
    BY <1>10, <1>11 DEF IndInv, Once, DistinctTasks
  <2>2. \A v \in Workers : Distinct(taskq'[v]) /\ Distinct(loot'[v].tasks)
    BY <1>2 DEF IndInv, Once
  <2> QED
    BY <1>19, <2>1, <2>2 DEF Once
<1>21. Scripts'
  <2>1. \A v \in Workers : cur'[v] # NoCoroutine =>
            \A u, n : u = cur'[v].task /\ n = cur'[v].pos => Ahead(u, n)
    BY <1>2 DEF IndInv, Scripts
  <2>2. \A v \in Workers : \A k \in DOMAIN t_schedq[v] :
            \A u, n : u = t_schedq[v][k].task /\ n = t_schedq[v][k].pos => Ahead(u, n)
    BY DEF IndInv, Scripts
  <2>3. \A u, n : u = s /\ n = co.pos => Ahead(u, n)
    <3>1. PICK n0 : n0 = cur[w].pos
      OBVIOUS
    <3>2. Ahead(cur[w].task, cur[w].pos)
      BY <1>2 DEF IndInv, Scripts
    <3>3. Ahead(s, n0)
      BY <1>3, <3>1, <3>2
    <3> QED
      BY <1>4, <3>1, <3>3
  <2>4. ASSUME NEW v \in Workers, NEW k \in DOMAIN t_schedq'[v]
        PROVE  \A u, n : u = t_schedq'[v][k].task /\ n = t_schedq'[v][k].pos => Ahead(u, n)
    <3>1. CASE v # w
      BY <1>11, <2>2, <3>1
    <3>2. CASE v = w
      <4>1. k \in DOMAIN r /\ t_schedq'[v][k] = r[k]
        BY <1>11, <3>2
      <4>2. CASE r[k] = co
        BY <1>4, <2>3, <4>1, <4>2
      <4>3. CASE \E m \in DOMAIN q : r[k] = q[m]
        BY <1>7, <2>2, <4>1, <4>3
      <4> QED
        BY <1>10, <4>1, <4>2, <4>3
    <3> QED
      BY <3>1, <3>2
  <2>5. \A v \in Workers : /\ Held'[<<"taskq", v>>] = Held[<<"taskq", v>>]
                           /\ Held'[<<"loot", v>>] = Held[<<"loot", v>>]
    BY <1>2, SameBoxes
  <2> QED
    BY <1>1, <2>1, <2>4, <2>5, MovedScripts
<1> QED
  BY <1>12, <1>16, <1>19, <1>20, <1>21 DEF IndInv

(* A coroutine that had yielded goes on.                                   *)
LEMMA ScheduleInv ==
    ASSUME IndInv, NEW w \in Workers, Schedule(w)
    PROVE  IndInv' /\ BoxStep
<1>1. /\ pc[w] = "sched"
      /\ UNCHANGED <<m_closed, s_taskId, taskq, qclosed, lock, burst, loot, sub, dtor, fate>>
  BY DEF Schedule, poolVars
<1>2. CASE Goto(w, AfterSchedule(w)) /\ UNCHANGED <<t_schedq, cur, back>>
  <2>1. AfterSchedule(w) \in {"steal", "top"}
    BY DEF AfterSchedule
  <2>2. PICK l \in {"steal", "top"} : pc' = [pc EXCEPT ![w] = l]
    BY <1>2, <2>1 DEF Goto
  <2> QED
    BY <1>1, <1>2, <2>2, GoOnInv DEF InTask
<1>3. CASE /\ t_schedq[w] # <<>>
           /\ cur' = [cur EXCEPT ![w] = Head(t_schedq[w])]
           /\ t_schedq' = [t_schedq EXCEPT ![w] = Tail(@)]
           /\ back' = [back EXCEPT ![w] = "sched"]
           /\ Goto(w, "run")
  <2>1. PICK q, co, r, s : q = t_schedq[w] /\ co = Head(q) /\ r = Tail(q) /\ s = co.task
    OBVIOUS
  <2>2. q \in Seq(Valid) /\ DistinctTasks(q) /\ q # <<>>
    BY <1>3, <2>1 DEF IndInv, Types, Once, DistinctTasks
  <2>3. /\ r \in Seq(Valid) /\ DistinctTasks(r) /\ co \in Valid
        /\ s \in TasksOf(q) /\ TasksOf(r) = TasksOf(q) \ {s}
        /\ \A k \in DOMAIN r : \E m \in DOMAIN q : r[k] = q[m]
    BY <2>1, <2>2, TailTasks
  <2>4. PICK k0 \in DOMAIN q : co = q[k0]
    BY <2>1, <2>2, TailTasks
  <2>5. s \in Tasks /\ co # NoCoroutine
    BY <2>1, <2>3, PoolAssumption DEF Valid, Coroutines, NoCoroutine
  <2>6. /\ cur' \in [Workers -> Valid \cup {NoCoroutine}] /\ cur'[w] = co
        /\ \A v \in Workers \ {w} : cur'[v] = cur[v]
    BY <1>3, <2>1, <2>3 DEF IndInv, Types
  <2>7. /\ t_schedq' \in [Workers -> Seq(Valid)] /\ t_schedq'[w] = r
        /\ \A v \in Workers \ {w} : t_schedq'[v] = t_schedq[v]
    BY <1>3, <2>1, <2>3 DEF IndInv, Types
  <2>8. /\ back' \in [Workers -> {"read", "sched", "last"}] /\ back'[w] = "sched"
        /\ \A v \in Workers \ {w} : back'[v] = back[v]
        /\ pc' = [pc EXCEPT ![w] = "run"] /\ pc' \in [Agents -> Locations]
    BY <1>3 DEF IndInv, Types, Goto, Locations
  <2>9. Types'
    BY <1>1, <2>6, <2>7, <2>8 DEF IndInv, Types
  <2>10. /\ "run" \in WorkerAt /\ "run" \notin Submitting /\ pc[w] \notin Submitting
         /\ cur[w] = NoCoroutine /\ loot[w].tasks = <<>>
    BY <1>1 DEF WorkerAt, Locations, Submitting, InTask, IndInv, Places
  <2>11. \A v \in Workers : Len(taskq'[v]) <= Len(taskq[v])
    <3>1. \A v \in Workers : Len(taskq[v]) \in Nat
      BY DEF IndInv, Types
    <3> QED
      BY <1>1, <3>1
  <2>12. Places' /\ Locked' /\ Closing' /\ Submits'
    BY <1>1, <2>5, <2>6, <2>8, <2>9, <2>10, <2>11, WorkerKeeps
  <2>13. PICK src, dst : src = <<"schedq", w>> /\ dst = <<"cur", w>>
    OBVIOUS
  <2>14. src \in Boxes /\ dst \in Boxes /\ src # dst
    BY <2>13 DEF Boxes
  <2>15. Held[src] = TasksOf(q) /\ Held'[src] = TasksOf(q) \ {s}
    BY <2>1, <2>3, <2>7, <2>13, BoxesHeld, BoxesHeldNext
  <2>16. Held[dst] = {} /\ Held'[dst] = {s}
    <3>1. Held[dst] = {cur[w].task} \cap Tasks /\ Held'[dst] = {cur'[w].task} \cap Tasks
      BY <2>13, BoxesHeld, BoxesHeldNext
    <3>2. cur[w].task = NoTask /\ cur'[w].task = s
      BY <2>1, <2>6, <2>10 DEF NoCoroutine
    <3> QED
      BY <2>5, <3>1, <3>2, PoolAssumption
  <2>17. \A b \in Boxes : b # src /\ b # dst => Held'[b] = Held[b]
    <3>1. \A v \in Workers :
              /\ v # w => Held'[<<"cur", v>>] = Held[<<"cur", v>>]
              /\ v # w => Held'[<<"schedq", v>>] = Held[<<"schedq", v>>]
              /\ Held'[<<"taskq", v>>] = Held[<<"taskq", v>>]
              /\ Held'[<<"loot", v>>] = Held[<<"loot", v>>]
      BY <1>1, <2>6, <2>7, SameBoxes
    <3>2. ASSUME NEW b \in Boxes, b # src, b # dst PROVE Held'[b] = Held[b]
      <4>1. PICK u \in Workers : \/ b = <<"taskq", u>> \/ b = <<"loot", u>>
                                 \/ b = <<"cur", u>> \/ b = <<"schedq", u>>
        BY EachBox
      <4> QED
        BY <2>13, <3>1, <3>2, <4>1
    <3> QED
      BY <3>2
  <2>18. /\ BoxStep
         /\ Apart(Held)'
         /\ \A b \in Boxes : \A u \in Held'[b] : fate'[u] = "accepted"
         /\ \A u \in Tasks : fate'[u] = "accepted" /\ ~m_closed' => \E b \in Boxes : u \in Held'[b]
    <3>1. PICK X : X = {s}
      OBVIOUS
    <3>2. X \subseteq Held[src] /\ Held'[src] = Held[src] \ X /\ Held'[dst] = Held[dst] \cup X
      BY <2>3, <2>15, <2>16, <3>1
    <3>3. Starts(src, dst, X)
      BY <2>13, KindOf DEF Starts
    <3> QED
      BY <1>1, <2>14, <2>17, <3>2, <3>3, MovedOnce
  <2>19. Once'
    <3>1. \A v \in Workers : \A k, m \in DOMAIN t_schedq'[v] :
              t_schedq'[v][k].task = t_schedq'[v][m].task => k = m
      BY <2>3, <2>7 DEF IndInv, Once, DistinctTasks
    <3>2. \A v \in Workers : Distinct(taskq'[v]) /\ Distinct(loot'[v].tasks)
      BY <1>1 DEF IndInv, Once
    <3> QED
      BY <2>18, <3>1, <3>2 DEF Once
  <2>20. Scripts'
    <3>1. \A v \in Workers : \A k \in DOMAIN t_schedq[v] :
              \A u, n : u = t_schedq[v][k].task /\ n = t_schedq[v][k].pos => Ahead(u, n)
      BY DEF IndInv, Scripts
    <3>2. ASSUME NEW v \in Workers, cur'[v] # NoCoroutine
          PROVE  \A u, n : u = cur'[v].task /\ n = cur'[v].pos => Ahead(u, n)
      <4>1. CASE v = w
        BY <2>1, <2>4, <2>6, <3>1, <4>1
      <4>2. CASE v # w
        BY <2>6, <3>2, <4>2 DEF IndInv, Scripts
      <4> QED
        BY <4>1, <4>2
    <3>3. ASSUME NEW v \in Workers, NEW k \in DOMAIN t_schedq'[v]
          PROVE  \A u, n : u = t_schedq'[v][k].task /\ n = t_schedq'[v][k].pos => Ahead(u, n)
      <4>1. \E m \in DOMAIN t_schedq[v] : t_schedq'[v][k] = t_schedq[v][m]
        <5>1. CASE v = w
          <6>1. t_schedq'[v] = r /\ t_schedq[v] = q
            BY <2>1, <2>7, <5>1
          <6> QED
            BY <2>3, <6>1
        <5>2. CASE v # w
          BY <2>7, <3>3, <5>2
        <5> QED
          BY <5>1, <5>2
      <4> QED
        BY <3>1, <4>1
    <3>4. \A v \in Workers : /\ Held'[<<"taskq", v>>] = Held[<<"taskq", v>>]
                             /\ Held'[<<"loot", v>>] = Held[<<"loot", v>>]
      BY <1>1, SameBoxes
    <3> QED
      BY <1>1, <3>2, <3>3, <3>4, MovedScripts
  <2> QED
    BY <2>9, <2>12, <2>18, <2>19, <2>20 DEF IndInv
<1> QED
  BY <1>2, <1>3 DEF Schedule

(* The first num tasks of the victim's queue go to the thief.              *)
LEMMA StealReadInv ==
    ASSUME IndInv, NEW w \in Workers, StealRead(w)
    PROVE  IndInv' /\ BoxStep
<1>1. PICK v, num : v = loot[w].from /\ num = loot[w].num
  OBVIOUS
<1>2. /\ pc[w] = "stealRead"
      /\ UNCHANGED <<m_closed, s_taskId, qclosed, t_schedq, cur, back, burst, sub, dtor, fate>>
  BY DEF StealRead, ThiefReleased
<1>3. /\ v \in Workers /\ num \in 0..Cap
      /\ cur[w] = NoCoroutine /\ loot[w].tasks = <<>> /\ lock[w] = w
  BY <1>1, <1>2 DEF IndInv, Types, Places, InTask, Locked
<1>4. pc[w] \notin Submitting /\ pc[w] # "run"
  BY <1>2 DEF Submitting
<1>5. \A u \in Workers : taskq[u] \in Seq(Tasks) /\ Len(taskq[u]) \in Nat /\ Len(taskq[u]) <= Cap
  BY DEF IndInv, Types
<1>6. CASE /\ lock' = [lock EXCEPT ![w] = NoAgent]
           /\ loot' = [loot EXCEPT ![w] = NoLoot]
           /\ Goto(w, "last")
           /\ UNCHANGED taskq
  <2>1. NoLoot \in [from : Workers, num : 0..Cap, tasks : Seq(Tasks)] /\ NoLoot.tasks = <<>>
    BY PoolAssumption DEF NoLoot, Workers
  <2>2. /\ loot' \in [Workers -> [from : Workers, num : 0..Cap, tasks : Seq(Tasks)]]
        /\ loot'[w] = NoLoot /\ \A u \in Workers \ {w} : loot'[u] = loot[u]
        /\ lock' \in [Workers -> Agents \cup {NoAgent}]
        /\ \A u \in Workers \ {w} : lock'[u] = lock[u]
        /\ pc' = [pc EXCEPT ![w] = "last"] /\ pc' \in [Agents -> Locations]
    BY <1>6, <2>1 DEF IndInv, Types, Goto, Locations
  <2>3. Types'
    BY <1>2, <1>6, <2>2 DEF IndInv, Types
  <2>4. "last" \in WorkerAt /\ "last" \notin Submitting
    BY DEF WorkerAt, Locations, Submitting
  <2>5. Places' /\ Locked' /\ Closing' /\ Submits'
    <3>1. loot'[w].tasks = <<>> /\ \A u \in Workers : Len(taskq'[u]) <= Len(taskq[u])
      BY <1>5, <1>6, <2>1, <2>2
    <3>2. "last" # "run" /\ "last" # "read" /\ "last" \notin {"stealRead", "stealWrite"}
      OBVIOUS
    <3> QED
      BY <1>2, <1>3, <1>4, <2>2, <2>3, <2>4, <3>1, <3>2, WorkerKeeps
  <2>6. \A u \in Workers : loot'[u].tasks = loot[u].tasks
    BY <1>3, <2>1, <2>2
  <2>7. Once' /\ Scripts' /\ BoxStep
    BY <1>2, <1>6, <2>6, SameOnce
  <2> QED
    BY <2>3, <2>5, <2>7 DEF IndInv
<1>7. CASE /\ RoomFor(w) /\ num <= Len(taskq[v])
           /\ loot' = [loot EXCEPT ![w].tasks = SubSeq(taskq[v], 1, num)]
           /\ taskq' = [taskq EXCEPT ![v] = LeftBehind(@, num)]
           /\ Goto(w, "stealWrite")
           /\ UNCHANGED lock
  <2>1. PICK q, p, r : /\ q = taskq[v] /\ p = SubSeq(q, 1, num)
                       /\ r = SubSeq(q, num + 1, Len(q))
    OBVIOUS
  <2>2. q \in Seq(Tasks) /\ Distinct(q) /\ num \in 0..Len(q)
    BY <1>3, <1>5, <1>7, <2>1 DEF IndInv, Once
  <2>3. /\ p \in Seq(Tasks) /\ Len(p) = num /\ Distinct(p)
        /\ r \in Seq(Tasks) /\ Len(r) = Len(q) - num /\ Distinct(r)
        /\ ElemsOf(p) \subseteq ElemsOf(q)
        /\ ElemsOf(r) = ElemsOf(q) \ ElemsOf(p)
    BY <2>1, <2>2, DistinctSplit
  <2>4. PICK x : x = [loot[w] EXCEPT !.tasks = p]
    OBVIOUS
  <2>5. /\ x \in [from : Workers, num : 0..Cap, tasks : Seq(Tasks)]
        /\ x.tasks = p /\ x.num = num
    <3>1. loot[w] \in [from : Workers, num : 0..Cap, tasks : Seq(Tasks)]
      BY DEF IndInv, Types
    <3>2. x = [from |-> loot[w].from, num |-> loot[w].num, tasks |-> p]
      BY <2>4, <3>1
    <3> QED
      BY <1>1, <2>3, <3>1, <3>2
  <2>6. loot' = [loot EXCEPT ![w] = x] /\ taskq' = [taskq EXCEPT ![v] = r]
    BY <1>7, <2>1, <2>4 DEF LeftBehind
  <2>7. /\ loot' \in [Workers -> [from : Workers, num : 0..Cap, tasks : Seq(Tasks)]]
        /\ loot'[w] = x /\ \A u \in Workers \ {w} : loot'[u] = loot[u]
    BY <2>5, <2>6 DEF IndInv, Types
  <2>8. /\ taskq' \in [Workers -> Seq(Tasks)] /\ taskq'[v] = r
        /\ \A u \in Workers \ {v} : taskq'[u] = taskq[u]
    BY <1>3, <2>3, <2>6 DEF IndInv, Types
  <2>9. \A u \in Workers : Len(taskq'[u]) <= Len(taskq[u]) /\ Len(taskq'[u]) <= Cap
    <3>1. Len(taskq'[v]) <= Len(taskq[v]) /\ Len(taskq'[v]) <= Cap
      <4>1. /\ Len(taskq'[v]) = Len(taskq[v]) - num /\ Len(taskq[v]) \in Nat
            /\ Len(taskq[v]) <= Cap /\ Cap \in Nat /\ num \in Nat
        BY <1>3, <1>5, <2>1, <2>3, <2>8, PoolAssumption
      <4> QED
        BY <4>1
    <3>2. \A u \in Workers \ {v} : Len(taskq'[u]) <= Len(taskq[u]) /\ Len(taskq'[u]) <= Cap
      BY <1>5, <2>8
    <3> QED
      BY <3>1, <3>2
  <2>10. pc' = [pc EXCEPT ![w] = "stealWrite"] /\ pc' \in [Agents -> Locations]
    BY <1>7 DEF IndInv, Types, Goto, Locations
  <2>11. Types'
    BY <1>2, <1>7, <2>7, <2>8, <2>9, <2>10 DEF IndInv, Types
  <2>12. Len(loot'[w].tasks) = loot'[w].num /\ Len(taskq'[w]) + loot'[w].num <= Cap
    <3>1. Len(loot'[w].tasks) = loot'[w].num /\ loot'[w].num = num
      BY <2>3, <2>5, <2>7
    <3>2. Len(taskq[w]) + num <= Cap
      BY <1>1, <1>7 DEF RoomFor
    <3>3. Len(taskq'[w]) <= Len(taskq[w]) /\ Len(taskq[w]) \in Nat /\ num \in Nat /\ Cap \in Nat
      BY <1>3, <1>5, <2>9, PoolAssumption
    <3>4. Len(taskq'[w]) \in Nat
      BY <2>8
    <3>5. Len(taskq'[w]) + num <= Cap
      BY <3>2, <3>3, <3>4
    <3> QED
      BY <3>1, <3>5
  <2>13. "stealWrite" \in WorkerAt /\ "stealWrite" \notin Submitting
    BY DEF WorkerAt, Locations, Submitting
  <2>14. Places' /\ Locked' /\ Closing' /\ Submits'
    BY <1>2, <1>3, <1>4, <1>7, <2>7, <2>9, <2>10, <2>11, <2>12, <2>13, WorkerKeeps
  <2>15. PICK src, dst : src = <<"taskq", v>> /\ dst = <<"loot", w>>
    OBVIOUS
  <2>16. src \in Boxes /\ dst \in Boxes /\ src # dst
    BY <1>3, <2>15 DEF Boxes
  <2>17. Held[src] = ElemsOf(q) /\ Held'[src] = ElemsOf(q) \ ElemsOf(p)
    BY <1>3, <2>1, <2>3, <2>8, <2>15, BoxesHeld, BoxesHeldNext
  <2>18. Held[dst] = {} /\ Held'[dst] = ElemsOf(p)
    <3>1. Held[dst] = ElemsOf(loot[w].tasks) /\ Held'[dst] = ElemsOf(loot'[w].tasks)
      BY <2>15, BoxesHeld, BoxesHeldNext
    <3>2. loot[w].tasks = <<>> /\ loot'[w].tasks = p
      BY <1>3, <2>5, <2>7
    <3> QED
      BY <3>1, <3>2 DEF ElemsOf
  <2>19. \A b \in Boxes : b # src /\ b # dst => Held'[b] = Held[b]
    <3>1. \A u \in Workers :
              /\ u # v => Held'[<<"taskq", u>>] = Held[<<"taskq", u>>]
              /\ u # w => Held'[<<"loot", u>>] = Held[<<"loot", u>>]
              /\ Held'[<<"cur", u>>] = Held[<<"cur", u>>]
              /\ Held'[<<"schedq", u>>] = Held[<<"schedq", u>>]
      BY <1>2, <2>7, <2>8, SameBoxes
    <3>2. ASSUME NEW b \in Boxes, b # src, b # dst PROVE Held'[b] = Held[b]
      <4>1. PICK u \in Workers : \/ b = <<"taskq", u>> \/ b = <<"loot", u>>
                                 \/ b = <<"cur", u>> \/ b = <<"schedq", u>>
        BY EachBox
      <4> QED
        BY <2>15, <3>1, <3>2, <4>1
    <3> QED
      BY <3>2
  <2>20. /\ BoxStep
         /\ Apart(Held)'
         /\ \A b \in Boxes : \A t \in Held'[b] : fate'[t] = "accepted"
         /\ \A t \in Tasks : fate'[t] = "accepted" /\ ~m_closed' => \E b \in Boxes : t \in Held'[b]
    <3>1. PICK X : X = ElemsOf(p)
      OBVIOUS
    <3>2. X \subseteq Held[src] /\ Held'[src] = Held[src] \ X /\ Held'[dst] = Held[dst] \cup X
      BY <2>3, <2>17, <2>18, <3>1
    <3>3. Starts(src, dst, X)
      BY <2>15, KindOf DEF Starts
    <3> QED
      BY <1>2, <2>16, <2>19, <3>2, <3>3, MovedOnce
  <2>21. Once'
    <3>1. \A u \in Workers : Distinct(taskq'[u]) /\ Distinct(loot'[u].tasks)
      BY <2>3, <2>5, <2>7, <2>8 DEF IndInv, Once
    <3>2. \A u \in Workers : \A k, l \in DOMAIN t_schedq'[u] :
              t_schedq'[u][k].task = t_schedq'[u][l].task => k = l
      BY <1>2 DEF IndInv, Once
    <3> QED
      BY <2>20, <3>1, <3>2 DEF Once
  <2>22. Scripts'
    <3>1. \A u \in Workers : cur'[u] # NoCoroutine =>
              \A t, n : t = cur'[u].task /\ n = cur'[u].pos => Ahead(t, n)
      BY <1>2 DEF IndInv, Scripts
    <3>2. \A u \in Workers : \A k \in DOMAIN t_schedq'[u] :
              \A t, n : t = t_schedq'[u][k].task /\ n = t_schedq'[u][k].pos => Ahead(t, n)
      BY <1>2 DEF IndInv, Scripts
    <3>3. \A u \in Workers : Held'[<<"taskq", u>>] \subseteq Held[<<"taskq", u>>]
      <4>1. \A u \in Workers \ {v} : Held'[<<"taskq", u>>] = Held[<<"taskq", u>>]
        BY <2>8, SameBoxes
      <4> QED
        BY <2>15, <2>17, <4>1
    <3>4. \A u \in Workers :
              Held'[<<"loot", u>>] \subseteq Held[<<"loot", u>>] \cup Held[<<"taskq", v>>]
      <4>1. \A u \in Workers \ {w} : Held'[<<"loot", u>>] = Held[<<"loot", u>>]
        BY <2>7, SameBoxes
      <4> QED
        BY <2>3, <2>15, <2>17, <2>18, <4>1
    <3> QED
      BY <1>2, <1>3, <3>1, <3>2, <3>3, <3>4, MovedScripts
  <2> QED
    BY <2>11, <2>14, <2>20, <2>21, <2>22 DEF IndInv
<1> QED
  BY <1>1, <1>6, <1>7 DEF StealRead, ThiefReleased

(* The stolen tasks go to the thief's own queue, or are dropped if it is   *)
(* closed.                                                                 *)
LEMMA StealWriteInv ==
    ASSUME IndInv, NEW w \in Workers, StealWrite(w)
    PROVE  IndInv' /\ BoxStep
<1>1. /\ pc[w] = "stealWrite"
      /\ loot' = [loot EXCEPT ![w] = NoLoot]
      /\ lock' = [lock EXCEPT ![w] = NoAgent]
      /\ pc' = [pc EXCEPT ![w] = "last"]
      /\ UNCHANGED <<m_closed, s_taskId, qclosed, t_schedq, cur, back, burst, sub, dtor, fate>>
  BY DEF StealWrite, ThiefReleased, Goto
<1>2. NoLoot \in [from : Workers, num : 0..Cap, tasks : Seq(Tasks)] /\ NoLoot.tasks = <<>>
  BY PoolAssumption DEF NoLoot, Workers
<1>3. /\ loot' \in [Workers -> [from : Workers, num : 0..Cap, tasks : Seq(Tasks)]]
      /\ loot'[w] = NoLoot /\ \A u \in Workers \ {w} : loot'[u] = loot[u]
      /\ lock' \in [Workers -> Agents \cup {NoAgent}]
      /\ \A u \in Workers \ {w} : lock'[u] = lock[u]
      /\ pc' \in [Agents -> Locations]
  BY <1>1, <1>2 DEF IndInv, Types, Locations
<1>4. PICK L : L = loot[w].tasks
  OBVIOUS
<1>5. /\ L \in Seq(Tasks) /\ Distinct(L) /\ Len(L) = loot[w].num
      /\ cur[w] = NoCoroutine /\ lock[w] = w
  BY <1>1, <1>4 DEF IndInv, Types, Places, InTask, Once, Locked
<1>6. PICK src, dst : src = <<"loot", w>> /\ dst = <<"taskq", w>>
  OBVIOUS
<1>7. /\ src \in Boxes /\ dst \in Boxes /\ src # dst
      /\ Held[src] = ElemsOf(L) /\ Held[dst] = ElemsOf(taskq[w])
      /\ Held'[src] = {} /\ Held'[dst] = ElemsOf(taskq'[w])
  <2>1. src \in Boxes /\ dst \in Boxes /\ src # dst
    BY <1>6 DEF Boxes
  <2>2. /\ Held[src] = ElemsOf(L) /\ Held[dst] = ElemsOf(taskq[w])
        /\ Held'[dst] = ElemsOf(taskq'[w]) /\ Held'[src] = ElemsOf(loot'[w].tasks)
    BY <1>4, <1>6, BoxesHeld, BoxesHeldNext
  <2>3. ElemsOf(loot'[w].tasks) = {}
    BY <1>2, <1>3 DEF ElemsOf
  <2> QED
    BY <2>1, <2>2, <2>3
<1>8. taskq[w] \in Seq(Tasks) /\ Distinct(taskq[w]) /\ ElemsOf(taskq[w]) \cap ElemsOf(L) = {}
  <2>1. Held[src] \cap Held[dst] = {}
    BY <1>7 DEF IndInv, Once, Apart
  <2>2. ElemsOf(taskq[w]) \cap ElemsOf(L) = {}
    BY <1>7, <2>1
  <2> QED
    BY <2>2 DEF IndInv, Types, Once
<1>9. \A b \in Boxes : \A t \in Held[b] : t \in Tasks
  BY HeldTasks
<1>10. /\ \A u \in Workers \ {w} : taskq'[u] = taskq[u]
       /\ taskq' \in [Workers -> Seq(Tasks)]
       /\ \A u \in Workers : Len(taskq'[u]) <= Cap
       /\ \A u \in Workers : Distinct(taskq'[u])
       /\ \/ m_closed /\ taskq'[w] = taskq[w]
          \/ ElemsOf(taskq'[w]) = ElemsOf(taskq[w]) \cup ElemsOf(L)
  <2>1. CASE qclosed[w] /\ UNCHANGED taskq
    BY <2>1 DEF IndInv, Types, Once, Closing
  <2>2. CASE taskq' = [taskq EXCEPT ![w] = @ \o loot[w].tasks] /\ Len(taskq[w]) + loot[w].num <= Cap
    <3>1. taskq' = [taskq EXCEPT ![w] = taskq[w] \o L]
      BY <1>4, <2>2
    <3>2. /\ taskq[w] \o L \in Seq(Tasks) /\ Len(taskq[w] \o L) = Len(taskq[w]) + Len(L)
          /\ Distinct(taskq[w] \o L)
          /\ ElemsOf(taskq[w] \o L) = ElemsOf(taskq[w]) \cup ElemsOf(L)
      BY <1>5, <1>8, DistinctConcat
    <3>3. PICK r : r = taskq[w] \o L
      OBVIOUS
    <3>4. Len(r) <= Cap
      BY <1>5, <2>2, <3>2, <3>3
    <3>5. /\ taskq' \in [Workers -> Seq(Tasks)] /\ taskq'[w] = r
          /\ \A u \in Workers \ {w} : taskq'[u] = taskq[u]
      BY <3>1, <3>2, <3>3 DEF IndInv, Types
    <3>6. \A u \in Workers : Len(taskq[u]) <= Cap /\ Distinct(taskq[u])
      BY DEF IndInv, Types, Once
    <3>7. Distinct(r) /\ ElemsOf(r) = ElemsOf(taskq[w]) \cup ElemsOf(L)
      BY <3>2, <3>3
    <3> QED
      BY <3>4, <3>5, <3>6, <3>7
  <2> QED
    BY <2>1, <2>2 DEF StealWrite, ThiefReleased
<1>11. Types'
  BY <1>1, <1>3, <1>10 DEF IndInv, Types
<1>12. Places' /\ Locked' /\ Closing' /\ Submits'
  <2>1. "last" \in WorkerAt /\ "last" \notin Submitting /\ pc[w] \notin Submitting
    BY <1>1 DEF WorkerAt, Locations, Submitting
  <2>2. loot'[w].tasks = <<>>
    BY <1>2, <1>3
  <2>3. "last" # "run" /\ "last" # "read" /\ "last" \notin {"stealRead", "stealWrite"}
    OBVIOUS
  <2>4. \A u \in Workers \ {w} : Len(taskq'[u]) <= Len(taskq[u])
    <3>1. \A u \in Workers : Len(taskq[u]) \in Nat
      BY DEF IndInv, Types
    <3> QED
      BY <1>10, <3>1
  <2> QED
    BY <1>1, <1>3, <1>5, <1>11, <2>1, <2>2, <2>3, <2>4, WorkerKeeps
<1>13. \A b \in Boxes : b # src /\ b # dst => Held'[b] = Held[b]
  <2>1. \A u \in Workers :
            /\ u # w => Held'[<<"taskq", u>>] = Held[<<"taskq", u>>]
            /\ u # w => Held'[<<"loot", u>>] = Held[<<"loot", u>>]
            /\ Held'[<<"cur", u>>] = Held[<<"cur", u>>]
            /\ Held'[<<"schedq", u>>] = Held[<<"schedq", u>>]
    BY <1>1, <1>3, <1>10, SameBoxes
  <2>2. ASSUME NEW b \in Boxes, b # src, b # dst PROVE Held'[b] = Held[b]
    <3>1. PICK u \in Workers : \/ b = <<"taskq", u>> \/ b = <<"loot", u>>
                               \/ b = <<"cur", u>> \/ b = <<"schedq", u>>
      BY EachBox
    <3> QED
      BY <1>6, <2>1, <2>2, <3>1
  <2> QED
    BY <2>2
<1>14. /\ BoxStep
       /\ Apart(Held)'
       /\ \A b \in Boxes : \A t \in Held'[b] : fate'[t] = "accepted"
       /\ \A t \in Tasks : fate'[t] = "accepted" /\ ~m_closed' => \E b \in Boxes : t \in Held'[b]
  <2>1. PICK X : X = ElemsOf(L)
    OBVIOUS
  <2>2. X \subseteq Held[src] /\ Held'[src] = Held[src] \ X
    BY <1>7, <2>1
  <2>3. CASE m_closed /\ taskq'[w] = taskq[w]
    <3>1. \A b \in Boxes : b # src => Held'[b] = Held[b]
      BY <1>7, <1>13, <2>3
    <3> QED
      BY <1>1, <1>7, <2>2, <2>3, <3>1, LeftOnce
  <2>4. CASE ElemsOf(taskq'[w]) = ElemsOf(taskq[w]) \cup ElemsOf(L)
    <3>1. Held'[dst] = Held[dst] \cup X
      BY <1>7, <2>1, <2>4
    <3>2. Starts(src, dst, X)
      BY <1>6, KindOf DEF Starts
    <3> QED
      BY <1>1, <1>7, <1>13, <2>2, <3>1, <3>2, MovedOnce
  <2> QED
    BY <1>10, <2>3, <2>4
<1>15. Once'
  <2>1. \A u \in Workers : Distinct(loot'[u].tasks)
    <3>1. Distinct(loot'[w].tasks)
      BY <1>2, <1>3 DEF Distinct
    <3>2. \A u \in Workers \ {w} : Distinct(loot'[u].tasks)
      BY <1>3 DEF IndInv, Once
    <3> QED
      BY <3>1, <3>2
  <2>2. \A u \in Workers : \A k, l \in DOMAIN t_schedq'[u] :
            t_schedq'[u][k].task = t_schedq'[u][l].task => k = l
    BY <1>1 DEF IndInv, Once
  <2> QED
    BY <1>10, <1>14, <2>1, <2>2 DEF Once
<1>16. Scripts'
  <2>1. \A u \in Workers : cur'[u] # NoCoroutine =>
            \A t, n : t = cur'[u].task /\ n = cur'[u].pos => Ahead(t, n)
    BY <1>1 DEF IndInv, Scripts
  <2>2. \A u \in Workers : \A k \in DOMAIN t_schedq'[u] :
            \A t, n : t = t_schedq'[u][k].task /\ n = t_schedq'[u][k].pos => Ahead(t, n)
    BY <1>1 DEF IndInv, Scripts
  <2>3. \A u \in Workers \ {w} : /\ Held'[<<"taskq", u>>] = Held[<<"taskq", u>>]
                                 /\ Held'[<<"loot", u>>] = Held[<<"loot", u>>]
    BY <1>3, <1>10, SameBoxes
  <2>4. Held'[src] = {} /\ Held'[dst] \subseteq Held[dst] \cup Held[src]
    BY <1>7, <1>10
  <2>5. \A u \in Workers : Held'[<<"taskq", u>>] \cup Held'[<<"loot", u>>]
            \subseteq Held[<<"taskq", u>>] \cup Held[<<"loot", u>>]
    BY <1>6, <2>3, <2>4
  <2> QED
    BY <1>1, <2>1, <2>2, <2>5, MovedScripts
<1> QED
  BY <1>11, <1>12, <1>14, <1>15, <1>16 DEF IndInv

-----------------------------------------------------------------------------
LEMMA NextInv == IndInv /\ [Next]_vars => IndInv' /\ (BoxStep \/ Destroy)
<1> SUFFICES ASSUME IndInv, [Next]_vars PROVE IndInv' /\ (BoxStep \/ Destroy)
  OBVIOUS
<1>1. CASE \E c \in Clients, t \in Tasks, nb \in ClientFlags : ClientSubmit(c, t, nb)
  BY <1>1, ClientSubmitInv
<1>2. CASE \E a \in Agents : SubmitStep(a)
  BY <1>2, SubmitLockInv, SubmitWriteInv DEF SubmitStep
<1>3. ASSUME NEW w \in Workers, WorkerStep(w) PROVE IndInv' /\ BoxStep
  <2>1. CASE Top(w)
    BY <2>1, TopInv
  <2>2. CASE BurstRead(w)
    <3>1. /\ pc[w] = "read"
          /\ UNCHANGED <<m_closed, s_taskId, qclosed, lock, t_schedq, burst, loot, sub, dtor, fate>>
      BY <2>2 DEF BurstRead
    <3>2. CASE ReadAndGo(w, "read")
      BY <3>1, <3>2, ReadAndGoInv
    <3>3. CASE Goto(w, "sched") /\ UNCHANGED <<taskq, cur, back>>
      BY <3>1, <3>3, GoOnInv DEF Goto, InTask
    <3> QED
      BY <2>2, <3>2, <3>3 DEF BurstRead
  <2>3. CASE Finish(w)
    BY <2>3, FinishInv
  <2>4. CASE Yield(w)
    BY <2>4, YieldInv
  <2>5. CASE \E nb \in TaskFlags : TaskSubmit(w, nb)
    BY <2>5, TaskSubmitInv
  <2>6. CASE Schedule(w)
    BY <2>6, ScheduleInv
  <2>7. CASE PickVictim(w)
    BY <2>7, PickVictimInv
  <2>8. CASE StealLock(w)
    BY <2>8, StealLockInv
  <2>9. CASE StealRead(w)
    BY <2>9, StealReadInv
  <2>10. CASE StealWrite(w)
    BY <2>10, StealWriteInv
  <2>11. CASE LastRead(w)
    <3>1. /\ pc[w] = "last"
          /\ UNCHANGED <<m_closed, s_taskId, qclosed, lock, t_schedq, burst, loot, sub, dtor, fate>>
      BY <2>11 DEF LastRead
    <3>2. CASE ReadAndGo(w, "last")
      BY <3>1, <3>2, ReadAndGoInv
    <3>3. CASE Goto(w, "top") /\ UNCHANGED <<taskq, cur, back>>
      BY <3>1, <3>3, GoOnInv DEF Goto, InTask
    <3> QED
      BY <2>11, <3>2, <3>3 DEF LastRead
  <2> QED
    BY <1>3, <2>1, <2>2, <2>3, <2>4, <2>5, <2>6, <2>7, <2>8, <2>9, <2>10, <2>11 DEF WorkerStep
<1>4. CASE Destroy
  BY <1>4, DestructorInv
<1>5. CASE DestructorStep \/ UNCHANGED vars
  <2>1. UNCHANGED <<taskq, cur, t_schedq, loot, fate, m_closed>>
    BY <1>5 DEF DestructorStep, CloseQueue, Join, vars, poolVars, workerVars
  <2>2. BoxStep
    BY <2>1, SameOnce
  <2> QED
    BY <1>5, <2>2, DestructorInv DEF DestructorStep
<1> QED
  BY <1>1, <1>2, <1>3, <1>4, <1>5 DEF Next

-----------------------------------------------------------------------------
LEMMA PoolIndInv == Spec => []IndInv
  BY InitInv, NextInv, PTL DEF Spec

(* Every variable keeps its type, and no task queue ever holds more than   *)
(* its capacity, by whatever threads it is written to.                     *)
THEOREM PoolTypeOK == Spec => []TypeOK
<1>1. IndInv => TypeOK
  <2> SUFFICES ASSUME IndInv PROVE TypeOK
    OBVIOUS
  <2>1. Valid \subseteq Coroutines
    BY DEF Valid
  <2>2. cur \in [Workers -> Coroutines \cup {NoCoroutine}]
    BY <2>1 DEF IndInv, Types
  <2>3. t_schedq \in [Workers -> Seq(Coroutines)]
    <3>1. \A q \in Seq(Valid) : q \in Seq(Coroutines)
      BY <2>1
    <3> QED
      BY <3>1 DEF IndInv, Types
  <2> QED
    BY <2>2, <2>3 DEF IndInv, Types, TypeOK
<1> QED
  BY <1>1, PoolIndInv, PTL

-----------------------------------------------------------------------------
(* The places of a task are the boxes that hold it.                        *)

InQueue(t, x, w) == \E k \in DOMAIN taskq[w] : x = <<w, "taskq", k>> /\ taskq[w][k] = t
InLoot(t, x, w) == \E k \in DOMAIN loot[w].tasks : x = <<w, "loot", k>> /\ loot[w].tasks[k] = t
InCur(t, x, w) == x = <<w, "cur">> /\ cur[w].task = t
InSchedq(t, x, w) == \E k \in DOMAIN t_schedq[w] : x = <<w, "schedq", k>> /\ t_schedq[w][k].task = t

LEMMA QueuedIs ==
    \A t, x : x \in Queued(t) <=> \E w \in Workers : InQueue(t, x, w) \/ InLoot(t, x, w)
  BY DEF Queued, Slots, InQueue, InLoot

LEMMA StartedIs ==
    \A t, x : x \in Started(t) <=> \E w \in Workers : InCur(t, x, w) \/ InSchedq(t, x, w)
  BY DEF Started, Yielded, InCur, InSchedq

(* The box of a place.                                                     *)
LEMMA PlaceBox ==
    ASSUME NEW t \in Tasks, NEW w \in Workers
    PROVE  /\ t \in Held[<<"taskq", w>>] <=> \E x : InQueue(t, x, w)
           /\ t \in Held[<<"loot", w>>] <=> \E x : InLoot(t, x, w)
           /\ t \in Held[<<"cur", w>>] <=> \E x : InCur(t, x, w)
           /\ t \in Held[<<"schedq", w>>] <=> \E x : InSchedq(t, x, w)
<1>1. t \in Held[<<"taskq", w>>] <=> \E x : InQueue(t, x, w)
  <2>1. Held[<<"taskq", w>>] = ElemsOf(taskq[w])
    BY BoxesHeld
  <2>2. t \in ElemsOf(taskq[w]) <=> \E k \in DOMAIN taskq[w] : taskq[w][k] = t
    BY DEF ElemsOf
  <2> QED
    BY <2>1, <2>2 DEF InQueue
<1>2. t \in Held[<<"loot", w>>] <=> \E x : InLoot(t, x, w)
  <2>1. Held[<<"loot", w>>] = ElemsOf(loot[w].tasks)
    BY BoxesHeld
  <2>2. t \in ElemsOf(loot[w].tasks) <=> \E k \in DOMAIN loot[w].tasks : loot[w].tasks[k] = t
    BY DEF ElemsOf
  <2> QED
    BY <2>1, <2>2 DEF InLoot
<1>3. t \in Held[<<"cur", w>>] <=> \E x : InCur(t, x, w)
  <2>1. Held[<<"cur", w>>] = {cur[w].task} \cap Tasks
    BY BoxesHeld
  <2> QED
    BY <2>1 DEF InCur
<1>4. t \in Held[<<"schedq", w>>] <=> \E x : InSchedq(t, x, w)
  <2>1. Held[<<"schedq", w>>] = TasksOf(t_schedq[w])
    BY BoxesHeld
  <2>2. t \in TasksOf(t_schedq[w]) <=> \E k \in DOMAIN t_schedq[w] : t_schedq[w][k].task = t
    BY DEF TasksOf
  <2> QED
    BY <2>1, <2>2 DEF InSchedq
<1> QED
  BY <1>1, <1>2, <1>3, <1>4

LEMMA BoxPlace ==
    ASSUME NEW t \in Tasks, NEW w \in Workers
    PROVE  /\ t \in Held[<<"taskq", w>>] \/ t \in Held[<<"loot", w>>] => Queued(t) # {}
           /\ t \in Held[<<"cur", w>>] \/ t \in Held[<<"schedq", w>>] => Started(t) # {}
  BY PlaceBox, QueuedIs, StartedIs

(* A task has at most one place.                                           *)
LEMMA OnePlace ==
    ASSUME IndInv, NEW t \in Tasks, NEW x \in Queued(t) \cup Started(t),
           NEW y \in Queued(t) \cup Started(t)
    PROVE  x = y
<1>1. ASSUME NEW b \in Boxes, NEW c \in Boxes, t \in Held[b], t \in Held[c] PROVE b = c
  BY <1>1 DEF IndInv, Once, Apart
<1>2. \A v, w \in Workers :
          /\ t \in Held[<<"taskq", v>>] /\ t \in Held[<<"taskq", w>>] => v = w
          /\ t \in Held[<<"loot", v>>] /\ t \in Held[<<"loot", w>>] => v = w
          /\ t \in Held[<<"cur", v>>] /\ t \in Held[<<"cur", w>>] => v = w
          /\ t \in Held[<<"schedq", v>>] /\ t \in Held[<<"schedq", w>>] => v = w
          /\ t \in Held[<<"taskq", v>>] => /\ t \notin Held[<<"loot", w>>] /\ t \notin Held[<<"cur", w>>]
                                           /\ t \notin Held[<<"schedq", w>>]
          /\ t \in Held[<<"loot", v>>] => t \notin Held[<<"cur", w>>] /\ t \notin Held[<<"schedq", w>>]
          /\ t \in Held[<<"cur", v>>] => t \notin Held[<<"schedq", w>>]
  BY <1>1, BoxesDiffer DEF Boxes
<1>3. \A v \in Workers :
          /\ \A k, l \in DOMAIN taskq[v] : taskq[v][k] = taskq[v][l] => k = l
          /\ \A k, l \in DOMAIN loot[v].tasks : loot[v].tasks[k] = loot[v].tasks[l] => k = l
          /\ \A k, l \in DOMAIN t_schedq[v] : t_schedq[v][k].task = t_schedq[v][l].task => k = l
  BY DEF IndInv, Once, Distinct
<1>4. PICK v \in Workers : InQueue(t, x, v) \/ InLoot(t, x, v) \/ InCur(t, x, v) \/ InSchedq(t, x, v)
  BY QueuedIs, StartedIs
<1>5. PICK w \in Workers : InQueue(t, y, w) \/ InLoot(t, y, w) \/ InCur(t, y, w) \/ InSchedq(t, y, w)
  BY QueuedIs, StartedIs
<1>6. CASE InQueue(t, x, v)
  <2>1. InQueue(t, y, w) /\ v = w
    BY <1>2, <1>5, <1>6, PlaceBox
  <2> QED
    BY <1>3, <1>6, <2>1 DEF InQueue
<1>7. CASE InLoot(t, x, v)
  <2>1. InLoot(t, y, w) /\ v = w
    BY <1>2, <1>5, <1>7, PlaceBox
  <2> QED
    BY <1>3, <1>7, <2>1 DEF InLoot
<1>8. CASE InCur(t, x, v)
  <2>1. InCur(t, y, w) /\ v = w
    BY <1>2, <1>5, <1>8, PlaceBox
  <2> QED
    BY <1>8, <2>1 DEF InCur
<1>9. CASE InSchedq(t, x, v)
  <2>1. InSchedq(t, y, w) /\ v = w
    BY <1>2, <1>5, <1>9, PlaceBox
  <2> QED
    BY <1>3, <1>9, <2>1 DEF InSchedq
<1> QED
  BY <1>4, <1>6, <1>7, <1>8, <1>9

(* A task that is not accepted has none, one that is accepted has one      *)
(* until the pool closes.                                                  *)
LEMMA PlacesOf ==
    ASSUME IndInv, NEW t \in Tasks
    PROVE  /\ fate[t] # "accepted" => Queued(t) \cup Started(t) = {}
           /\ fate[t] = "accepted" /\ Queued(t) \cup Started(t) = {} => m_closed
<1>1. \A b \in Boxes : t \in Held[b] => fate[t] = "accepted"
  BY DEF IndInv, Once
<1>2. \A w \in Workers :
          t \in Held[<<"taskq", w>>] \/ t \in Held[<<"loot", w>>] \/ t \in Held[<<"cur", w>>]
          \/ t \in Held[<<"schedq", w>>] => fate[t] = "accepted"
  BY <1>1 DEF Boxes
<1>3. fate[t] # "accepted" => Queued(t) \cup Started(t) = {}
  BY <1>2, PlaceBox, QueuedIs, StartedIs
<1>4. ASSUME fate[t] = "accepted", Queued(t) \cup Started(t) = {}, ~m_closed PROVE FALSE
  <2>1. PICK b \in Boxes : t \in Held[b]
    BY <1>4 DEF IndInv, Once
  <2>2. PICK w \in Workers : b \in {<<"taskq", w>>, <<"loot", w>>, <<"cur", w>>, <<"schedq", w>>}
    BY EachBox
  <2>3. \/ t \in Held[<<"taskq", w>>] \/ t \in Held[<<"loot", w>>]
        \/ t \in Held[<<"cur", w>>] \/ t \in Held[<<"schedq", w>>]
    BY <2>1, <2>2
  <2> QED
    BY <1>4, <2>3, BoxPlace
<1> QED
  BY <1>3, <1>4

(* An accepted task is in one place, and only a pool that is being         *)
(* destroyed loses one; any other task is nowhere.                         *)
THEOREM PoolConservation == Spec => []Conservation
<1>1. ASSUME IndInv, NEW t \in Tasks
      PROVE  LET n == Cardinality(Queued(t) \cup Started(t)) IN
             IF fate[t] = "accepted" THEN n <= 1 /\ (n = 0 => m_closed) ELSE n = 0
  <2>1. PICK P : P = Queued(t) \cup Started(t)
    OBVIOUS
  <2>2. \A x, y \in P : x = y
    BY <1>1, <2>1, OnePlace
  <2>3. P = {} \/ \E x : P = {x}
    BY <2>2
  <2>4. (Cardinality(P) = 0 /\ P = {}) \/ Cardinality(P) = 1
    BY <2>3, FS_EmptySet, FS_Singleton
  <2>5. fate[t] # "accepted" => P = {}
    BY <1>1, <2>1, PlacesOf
  <2>6. fate[t] = "accepted" /\ P = {} => m_closed
    BY <1>1, <2>1, PlacesOf
  <2>7. IF fate[t] = "accepted" THEN Cardinality(P) <= 1 /\ (Cardinality(P) = 0 => m_closed)
        ELSE Cardinality(P) = 0
    BY <2>4, <2>5, <2>6, FS_EmptySet
  <2> QED
    BY <2>1, <2>7
<1>2. IndInv => Conservation
  BY <1>1 DEF Conservation
<1> QED
  BY <1>2, PoolIndInv, PTL

-----------------------------------------------------------------------------
(* The pool implements TaskPool: the status of a task there is its fate,   *)
(* or the kind of the box that holds it.                                   *)

StatusIs ==
    \A t \in Tasks :
        /\ fate[t] # "accepted" => Status(t) = fate[t]
        /\ \A b \in Boxes : t \in Held[b] => fate[t] = "accepted" /\ Status(t) = Kind(b)
        /\ fate[t] = "accepted" /\ (\A b \in Boxes : t \notin Held[b]) => Status(t) = "dropped"

LEMMA StatusOfBox == IndInv => StatusIs
<1> SUFFICES ASSUME IndInv, NEW t \in Tasks
             PROVE  /\ fate[t] # "accepted" => Status(t) = fate[t]
                    /\ \A b \in Boxes : t \in Held[b] => fate[t] = "accepted" /\ Status(t) = Kind(b)
                    /\ fate[t] = "accepted" /\ (\A b \in Boxes : t \notin Held[b]) => Status(t) = "dropped"
  BY DEF StatusIs
<1>1. fate[t] # "accepted" => Status(t) = fate[t]
  BY DEF Status
<1>2. \A w \in Workers : /\ <<"taskq", w>> \in Boxes /\ <<"loot", w>> \in Boxes
                         /\ <<"cur", w>> \in Boxes /\ <<"schedq", w>> \in Boxes
  BY DEF Boxes
<1>3. Queued(t) # {} => \E b \in Boxes : t \in Held[b] /\ Kind(b) = "queued"
  <2> SUFFICES ASSUME Queued(t) # {} PROVE \E b \in Boxes : t \in Held[b] /\ Kind(b) = "queued"
    OBVIOUS
  <2>1. PICK x : x \in Queued(t)
    OBVIOUS
  <2>2. PICK w \in Workers : InQueue(t, x, w) \/ InLoot(t, x, w)
    BY <2>1, QueuedIs
  <2>3. t \in Held[<<"taskq", w>>] \/ t \in Held[<<"loot", w>>]
    BY <2>2, PlaceBox
  <2> QED
    BY <1>2, <2>3, KindOf
<1>4. Started(t) # {} => \E b \in Boxes : t \in Held[b] /\ Kind(b) = "started"
  <2> SUFFICES ASSUME Started(t) # {} PROVE \E b \in Boxes : t \in Held[b] /\ Kind(b) = "started"
    OBVIOUS
  <2>1. PICK x : x \in Started(t)
    OBVIOUS
  <2>2. PICK w \in Workers : InCur(t, x, w) \/ InSchedq(t, x, w)
    BY <2>1, StartedIs
  <2>3. t \in Held[<<"cur", w>>] \/ t \in Held[<<"schedq", w>>]
    BY <2>2, PlaceBox
  <2> QED
    BY <1>2, <2>3, KindOf
<1>5. ASSUME NEW b \in Boxes, t \in Held[b] PROVE fate[t] = "accepted" /\ Status(t) = Kind(b)
  <2>1. fate[t] = "accepted" /\ \A c \in Boxes : t \in Held[c] => c = b
    BY <1>5 DEF IndInv, Once, Apart
  <2>2. PICK w \in Workers : b \in {<<"taskq", w>>, <<"loot", w>>, <<"cur", w>>, <<"schedq", w>>}
    BY EachBox
  <2>3. CASE Kind(b) = "queued"
    <3>1. b = <<"taskq", w>> \/ b = <<"loot", w>>
      BY <2>2, <2>3, KindOf
    <3>2. Queued(t) # {}
      BY <1>5, <3>1, BoxPlace
    <3> QED
      BY <2>1, <2>3, <3>2 DEF Status
  <2>4. CASE Kind(b) = "started"
    <3>1. b = <<"cur", w>> \/ b = <<"schedq", w>>
      BY <2>2, <2>4, KindOf
    <3>2. Started(t) # {}
      BY <1>5, <3>1, BoxPlace
    <3>3. Queued(t) = {}
      BY <1>3, <2>1, <2>4
    <3> QED
      BY <2>1, <2>4, <3>2, <3>3 DEF Status
  <2> QED
    BY <2>2, <2>3, <2>4, KindOf
<1>6. ASSUME fate[t] = "accepted", \A b \in Boxes : t \notin Held[b] PROVE Status(t) = "dropped"
  BY <1>3, <1>4, <1>6 DEF Status
<1> QED
  BY <1>1, <1>5, <1>6

LEMMA StatusOfBoxNext == IndInv' => StatusIs'
  BY StatusOfBox, PTL

(* A task that was in no box that changes keeps its status.                *)
LEMMA SameStatus ==
    ASSUME StatusIs, StatusIs', NEW t \in Tasks, fate'[t] = fate[t],
           \A b \in Boxes : t \in Held[b] => \E c \in Boxes : t \in Held'[c] /\ Kind(c) = Kind(b),
           \A b \in Boxes : t \in Held'[b] => \E c \in Boxes : t \in Held[c]
    PROVE  Status(t)' = Status(t)
<1>1. CASE fate[t] # "accepted"
  BY <1>1 DEF StatusIs
<1>2. CASE \E b \in Boxes : t \in Held[b]
  <2>1. PICK b \in Boxes : t \in Held[b]
    BY <1>2
  <2>2. PICK c \in Boxes : t \in Held'[c] /\ Kind(c) = Kind(b)
    BY <2>1
  <2> QED
    BY <2>1, <2>2 DEF StatusIs
<1>3. CASE fate[t] = "accepted" /\ \A b \in Boxes : t \notin Held[b]
  BY <1>3 DEF StatusIs
<1> QED
  BY <1>1, <1>2, <1>3

(* One task changes its status.                                            *)
LEMMA OneMoves ==
    ASSUME NEW t \in Tasks, NEW from, NEW to, Status(t) = from, Status(t)' = to,
           \A u \in Tasks : u # t => Status(u)' = Status(u), m_closed' = m_closed
    PROVE  Life!Move(t, from, to)
<1>1. [u \in Tasks |-> Status(u)]' = [[u \in Tasks |-> Status(u)] EXCEPT ![t] = to]
  OBVIOUS
<1> QED
  BY <1>1 DEF Life!Move

LEMMA LifeStep ==
    ASSUME IndInv, IndInv', BoxStep \/ Destroy
    PROVE  [Life!Next]_Life!vars
<1>0. StatusIs /\ StatusIs'
  BY StatusOfBox, StatusOfBoxNext
<1>1. ASSUME Held' = Held, fate' = fate PROVE \A t \in Tasks : Status(t)' = Status(t)
  BY <1>0, <1>1, SameStatus
<1>2. ASSUME \A t \in Tasks : Status(t)' = Status(t), m_closed' = m_closed
      PROVE  [Life!Next]_Life!vars
  BY <1>2 DEF Life!vars
<1>3. CASE Still
  BY <1>1, <1>2, <1>3 DEF Still
<1>4. CASE \E src, dst \in Boxes : \E X : src # dst /\ Moves(src, dst, X) /\ Starts(src, dst, X)
  <2>1. PICK src \in Boxes, dst \in Boxes : \E X : src # dst /\ Moves(src, dst, X) /\ Starts(src, dst, X)
    BY <1>4
  <2>2. PICK X : src # dst /\ Moves(src, dst, X) /\ Starts(src, dst, X)
    BY <2>1
  <2>3. \A t \in Tasks : t \notin X => Status(t)' = Status(t)
    <3>1. \A t : t \notin X => \A b \in Boxes : t \in Held'[b] <=> t \in Held[b]
      BY <2>2 DEF Moves
    <3> QED
      BY <1>0, <2>2, <3>1, SameStatus DEF Moves
  <2>4. \A t \in Tasks : t \in X => Status(t) = Kind(src) /\ Status(t)' = Kind(dst)
    BY <1>0, <2>2 DEF Moves, StatusIs
  <2>5. CASE Kind(src) = Kind(dst)
    BY <1>2, <2>2, <2>3, <2>4, <2>5 DEF Moves
  <2>6. CASE Kind(src) = "queued" /\ Kind(dst) = "started" /\ \E t \in Tasks : X = {t}
    <3>1. PICK t \in Tasks : X = {t}
      BY <2>6
    <3>2. Life!Move(t, "queued", "started")
      BY <2>2, <2>3, <2>4, <2>6, <3>1, OneMoves DEF Moves
    <3> QED
      BY <3>2 DEF Life!Next, Life!Start
  <2> QED
    BY <2>2, <2>5, <2>6 DEF Starts
<1>5. CASE \E src \in Boxes : \E X : Leaves(src, X)
  <2>1. PICK src \in Boxes : \E X : Leaves(src, X)
    BY <1>5
  <2>2. PICK X : Leaves(src, X)
    BY <2>1
  <2>3. \A t : t \notin X => \A b \in Boxes : t \in Held'[b] <=> t \in Held[b]
    BY <2>2 DEF Leaves
  <2>4. X \subseteq Tasks
    BY <2>2, HeldTasks DEF Leaves
  <2>5. \A t \in X : fate[t] = "accepted" /\ Status(t) = Kind(src) /\ \A b \in Boxes : t \notin Held'[b]
    BY <1>0, <2>2, <2>4 DEF Leaves, StatusIs, IndInv, Once, Apart
  <2>6. CASE m_closed /\ fate' = fate
    <3>1. \A t \in Tasks : t \notin X => Status(t)' = Status(t)
      BY <1>0, <2>3, <2>6, SameStatus
    <3>2. \A t \in X : Status(t)' = "dropped"
      BY <1>0, <2>4, <2>5, <2>6 DEF StatusIs
    <3>3. \A t \in X : Status(t) \in {"queued", "started"}
      BY <2>5 DEF Kind
    <3>4. [t \in Tasks |-> Status(t)]' = [t \in Tasks |-> IF t \in X THEN "dropped" ELSE Status(t)]
      BY <2>4, <3>1, <3>2
    <3>5. Life!Drop(X)
      BY <2>2, <2>4, <2>6, <3>3, <3>4 DEF Life!Drop, Leaves
    <3> QED
      BY <2>4, <3>5 DEF Life!Next
  <2>7. CASE \E t \in Tasks : /\ X = {t} /\ Kind(src) = "started"
                              /\ fate' = [fate EXCEPT ![t] = "finished"]
    <3>1. PICK t \in Tasks : /\ X = {t} /\ Kind(src) = "started"
                             /\ fate' = [fate EXCEPT ![t] = "finished"]
      BY <2>7
    <3>2. fate'[t] = "finished" /\ \A u \in Tasks : u # t => fate'[u] = fate[u]
      BY <3>1 DEF IndInv, Types
    <3>3. \A u \in Tasks : u # t => Status(u)' = Status(u)
      BY <1>0, <2>3, <3>1, <3>2, SameStatus
    <3>4. Status(t) = "started" /\ Status(t)' = "finished"
      BY <1>0, <2>5, <3>1, <3>2 DEF StatusIs
    <3>5. Life!Move(t, "started", "finished")
      BY <2>2, <3>3, <3>4, OneMoves DEF Leaves
    <3> QED
      BY <3>5 DEF Life!Next, Life!Finish
  <2> QED
    BY <2>2, <2>6, <2>7 DEF Leaves
<1>6. CASE \E t \in Tasks : m_closed' = m_closed /\ fate[t] = "new" /\ (Refused(t) \/ Accepted(t))
  <2>1. PICK t \in Tasks : m_closed' = m_closed /\ fate[t] = "new" /\ (Refused(t) \/ Accepted(t))
    BY <1>6
  <2>2. Status(t) = "new"
    BY <1>0, <2>1 DEF StatusIs
  <2>3. \A u \in Tasks : u # t => fate'[u] = fate[u]
    BY <2>1 DEF IndInv, Types, Refused, Accepted
  <2>4. \A u : u # t => \A b \in Boxes : u \in Held'[b] <=> u \in Held[b]
    BY <2>1 DEF Refused, Accepted
  <2>5. \A u \in Tasks : u # t => Status(u)' = Status(u)
    BY <1>0, <2>3, <2>4, SameStatus
  <2>6. CASE Refused(t)
    <3>1. fate'[t] = "refused"
      BY <2>6 DEF Refused, IndInv, Types
    <3>2. Life!Move(t, "new", "refused")
      BY <1>0, <2>1, <2>2, <2>5, <3>1, OneMoves DEF StatusIs
    <3> QED
      BY <3>2 DEF Life!Next, Life!Refuse
  <2>7. CASE Accepted(t)
    <3>1. PICK q \in Workers : \A b \in Boxes :
              Held'[b] = IF b = <<"taskq", q>> THEN Held[b] \cup {t} ELSE Held[b]
      BY <2>7 DEF Accepted
    <3>2. PICK b : b = <<"taskq", q>>
      OBVIOUS
    <3>3. b \in Boxes /\ t \in Held'[b] /\ Kind(b) = "queued"
      BY <3>1, <3>2, KindOf DEF Boxes
    <3>4. Status(t)' = "queued"
      BY <1>0, <3>3 DEF StatusIs
    <3>5. Life!Move(t, "new", "queued")
      BY <2>1, <2>2, <2>5, <3>4, OneMoves
    <3> QED
      BY <3>5 DEF Life!Next, Life!Accept
  <2> QED
    BY <2>1, <2>6, <2>7
<1>7. CASE Destroy
  <2>1. m_closed' = TRUE /\ UNCHANGED <<taskq, t_schedq, cur, loot, fate>>
    BY <1>7 DEF Destroy, workerVars
  <2>2. Held' = Held
    BY <2>1 DEF Held, Boxes
  <2>3. \A t \in Tasks : Status(t)' = Status(t)
    BY <1>1, <2>1, <2>2
  <2>4. CASE m_closed
    <3>1. m_closed' = m_closed
      BY <2>1, <2>4 DEF IndInv, Types
    <3> QED
      BY <1>2, <2>3, <3>1
  <2>5. CASE ~m_closed
    <3>1. Life!Close
      BY <2>1, <2>3, <2>5 DEF Life!Close
    <3> QED
      BY <3>1 DEF Life!Next
  <2> QED
    BY <2>4, <2>5
<1> QED
  BY <1>3, <1>4, <1>5, <1>6, <1>7 DEF BoxStep

(* Every task goes once through the life cycle that TaskPool lays down:    *)
(* accepted or refused, started at most once, and dropped only by a pool   *)
(* that is being destroyed.                                                *)
THEOREM PoolImplementsTaskPool == Spec => ImplementsTaskPool
<1>1. Init => Life!Init
  <2> SUFFICES ASSUME Init PROVE Life!Init
    OBVIOUS
  <2>1. m_closed = FALSE /\ \A t \in Tasks : Status(t) = "new"
    BY DEF Init, Status
  <2> QED
    BY <2>1 DEF Life!Init
<1>2. IndInv /\ IndInv' /\ [Next]_vars => [Life!Next]_Life!vars
  BY NextInv, LifeStep
<1> QED
  BY <1>1, <1>2, PoolIndInv, PTL DEF Spec, ImplementsTaskPool, Life!Spec
=============================================================================
