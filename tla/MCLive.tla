------------------------------- MODULE MCLive -------------------------------
(***************************************************************************)
(* What must happen in the end, in the components whose callers block: a   *)
(* behaviour is one of Channel, whose names this module extends, of one of *)
(* four instances of WorkerPool, which share their variables, or of        *)
(* ConnPool, while the variables of the others keep their first values.    *)
(***************************************************************************)
EXTENDS Channel

CONSTANTS
    t1, t2, t3,                         \* threads of Channel
    c1, c2, c3, NoAgent, NoTask,
    a, b, c, d,                         \* tasks
    x1, x2, x3, x4, minSize, m_maxSize, Garbage

(* read(d) and write(d) only.                                              *)
Units == {<<x>> : x \in Data}

(* Below zero, zero, what was meant, and above the maximum.                *)
AnyMinSize == {-1, 0, 1, 3}

VARIABLES
    which,
    poolClosed, s_taskId, taskq, qclosed, lock, t_schedq, cur, back, burst, loot,
    at, sub, dtor, fate,
    m_minSize, m_pool, m_activeCnt, m_subscribeCnt, connClosed, held, connAt,
    recycler, connDtor, late

poolVars == <<poolClosed, s_taskId, taskq, qclosed, lock, t_schedq, cur, back, burst,
              loot, at, sub, dtor, fate>>
connVars == <<m_minSize, m_pool, m_activeCnt, m_subscribeCnt, connClosed, held,
              connAt, recycler, connDtor, late>>
liveVars == <<which, vars, poolVars, connVars>>

(* Task a yields, or submits b, or all of them return at once.             *)
Yielding(T) == [t \in T |-> IF t = a THEN <<"sched">> ELSE <<>>]
Submitting == [t \in {a, b, c, d} |-> IF t = a THEN <<b>> ELSE <<>>]
Plain == [t \in {a, b, c, d} |-> <<>>]

(* One queue of one task: a client can wait, with either flag, for the lock*)
(* of another one, which is blocked on the full queue.                     *)
Lock == INSTANCE WorkerPool WITH
    N <- 1, Cap <- 1, Burst <- 1,
    Clients <- {c1, c2}, ClientFlags <- BOOLEAN, TaskFlags <- {},
    Tasks <- {a, b, c, d}, Script <- Yielding({a, b, c, d}),
    m_closed <- poolClosed, pc <- at

(* The destructor closes two queues, one after the other, on which clients *)
(* may be blocked.                                                         *)
Full == INSTANCE WorkerPool WITH
    N <- 2, Cap <- 1, Burst <- 1,
    Clients <- {c1, c2}, ClientFlags <- BOOLEAN, TaskFlags <- {},
    Tasks <- {a, b, c}, Script <- Yielding({a, b, c}),
    m_closed <- poolClosed, pc <- at

(* Queues with something to steal.                                         *)
Steal == INSTANCE WorkerPool WITH
    N <- 2, Cap <- 2, Burst <- 2,
    Clients <- {c1, c2}, ClientFlags <- {FALSE}, TaskFlags <- {},
    Tasks <- {a, b, c, d}, Script <- Plain,
    m_closed <- poolClosed, pc <- at

(* A task submits to the queue of its own thread, which may be full; no    *)
(* submit blocks (it need not return otherwise).                           *)
Nested == INSTANCE WorkerPool WITH
    N <- 1, Cap <- 1, Burst <- 1,
    Clients <- {c1, c2}, ClientFlags <- {TRUE}, TaskFlags <- {TRUE},
    Tasks <- {a, b, c, d}, Script <- Submitting,
    m_closed <- poolClosed, pc <- at

Conn == INSTANCE ConnPool WITH
    Clients <- {c1, c2, c3}, Conns <- {x1, x2, x3, x4}, MaxHeld <- 1,
    m_closed <- connClosed, pc <- connAt, dtor <- connDtor

-----------------------------------------------------------------------------
LiveInit ==
    /\ which \in {"Channel", "Lock", "Full", "Steal", "Nested", "Conn"}
    /\ Init
    /\ CASE which = "Full" -> Full!Init
         [] which = "Steal" -> Steal!Init
         [] OTHER -> Lock!Init
    /\ Conn!Init /\ (which # "Conn" => m_minSize = minSize /\ m_pool = <<x1>>)

(* Tasks that do the same are interchangeable: they are submitted in one   *)
(* order.                                                                  *)
Begun(t) == fate[t] # "new" \/ \E s \in DOMAIN sub : sub[s].task = t
InTurn ==
    /\ which = "Steal" => (Begun(b) => Begun(a))
    /\ which # "Nested" => (Begun(c) => Begun(b))
    /\ which # "Full" => (Begun(d) => Begun(c))

PoolMoves ==
    \/ which = "Lock" /\ Lock!Next
    \/ which = "Full" /\ Full!Next
    \/ which = "Steal" /\ Steal!Next
    \/ which = "Nested" /\ Nested!Next

LiveNext ==
    /\ UNCHANGED which
    /\ \/ which = "Channel" /\ Next /\ UNCHANGED <<poolVars, connVars>>
       \/ PoolMoves /\ InTurn' /\ UNCHANGED <<vars, connVars>>
       \/ which = "Conn" /\ Conn!Next /\ UNCHANGED <<vars, poolVars>>

(* The threads run, as in the FairSpec of each module: thread number i of  *)
(* the component, or its last one.  (In a submit a worker makes no step of *)
(* its own, so that one condition is enough for both.)                     *)
Thread == <<t1, t2, t3>>
Client == <<c1, c2, c3>>

ChannelRuns(i) == i <= 3 /\ Step(Thread[i])

LockRuns(i) ==
    \/ i <= 2 /\ Lock!SubmitStep(Client[i])
    \/ i = 4 /\ Lock!WorkerStep(0)
    \/ i = 6 /\ Lock!DestructorStep

FullRuns(i) ==
    \/ i <= 2 /\ Full!SubmitStep(Client[i])
    \/ i \in {4, 5} /\ Full!WorkerStep(i - 4)
    \/ i = 6 /\ Full!DestructorStep

StealRuns(i) ==
    \/ i <= 2 /\ Steal!SubmitStep(Client[i])
    \/ i \in {4, 5} /\ Steal!WorkerStep(i - 4)
    \/ i = 6 /\ Steal!DestructorStep

NestedRuns(i) ==
    \/ i <= 2 /\ Nested!SubmitStep(Client[i])
    \/ i = 4 /\ (Nested!WorkerStep(0) \/ Nested!SubmitStep(0))
    \/ i = 6 /\ Nested!DestructorStep

PoolRuns(i) ==
    \/ which = "Lock" /\ LockRuns(i)
    \/ which = "Full" /\ FullRuns(i)
    \/ which = "Steal" /\ StealRuns(i)
    \/ which = "Nested" /\ NestedRuns(i)

ConnRuns(i) ==
    \/ /\ i <= 3
       /\ \/ Conn!LockOrTimeout(Client[i])
          \/ Conn!Woken(Client[i]) \/ Conn!Leave(Client[i])
    \/ i = 4 /\ (Conn!Recycle \/ Conn!WakeUp)
    \/ i = 6 /\ connDtor = "woken" /\ Conn!Destroyed

Runs(i) ==
    /\ UNCHANGED which
    /\ \/ which = "Channel" /\ ChannelRuns(i) /\ UNCHANGED <<poolVars, connVars>>
       \/ PoolRuns(i) /\ UNCHANGED <<vars, connVars>>
       \/ which = "Conn" /\ ConnRuns(i) /\ UNCHANGED <<vars, poolVars>>

LiveSpec == LiveInit /\ [][LiveNext]_liveVars /\ \A i \in 1..6 : WF_liveVars(Runs(i))

-----------------------------------------------------------------------------
(* The properties of WorkerPool and ConnPool.  A task is submitted once, so*)
(* that "each of them goes on" is "in the end none is left waiting".       *)

(* WorkerPool: every accepted task is started, unless the pool is destroyed*)
(* first.                                                                  *)
Waiting ==
    \E t \in DOMAIN fate :
        IF which \in {"Full", "Steal"} THEN Full!Status(t) = "queued"
        ELSE Lock!Status(t) = "queued"

AcceptedStarts == <>[](~Waiting \/ poolClosed)

(* WorkerPool: every call of submit returns, though the target's lock may  *)
(* be with a thief or with another call that is blocked on a full queue.   *)
SubmitReturns == <>[](\A s \in DOMAIN sub : sub[s].task = NoTask)

(* WorkerPool: once begun, the destructor gets every thread to exit.       *)
DestructorReturns == dtor.at # "alive" ~> dtor.at = "gone"

(* ConnPool: once the pool is closed every call of getConn returns.        *)
ClosedReleases == Conn!ClosedReleases
=============================================================================
