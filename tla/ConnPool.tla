------------------------------- MODULE ConnPool -------------------------------
(***************************************************************************)
(* mysql::ConnPool (src/mysql/pool.cpp): clients take connections from a   *)
(* queue or have new ones made, up to maxSize, and give them back; a       *)
(* recycling thread closes idle ones; the destructor waits for all.        *)
(*                                                                         *)
(* A section under m_lock is one step, from its lock to its unlock or its  *)
(* wait.  Two keep the lock between two steps: the recycling thread, which *)
(* sleeps with it, and a client whose waitFor fails.  init() has run; it   *)
(* assigns m_minSize to itself (pool.cpp:67), so m_minSize is whatever the *)
(* member held before.                                                     *)
(***************************************************************************)
EXTENDS Integers, Sequences, FiniteSets

CONSTANTS
    Clients, Conns,
    minSize, m_maxSize,     \* the arguments of init()
    Garbage,                \* what an uninitialised m_minSize may hold
    MaxHeld                 \* connections that a client has at a time

ASSUME ConnPoolAssumption ==
    /\ minSize \in Nat \ {0} /\ m_maxSize \in Nat /\ minSize <= m_maxSize
    /\ Garbage \subseteq Int /\ MaxHeld \in Nat \ {0}
    /\ IsFiniteSet(Clients) /\ IsFiniteSet(Conns)
    /\ Cardinality(Conns) >= minSize

VARIABLES
    m_minSize,
    m_pool,         \* the idle connections, the one returned first in front
    m_activeCnt, m_subscribeCnt,
    m_closed,
    held,           \* held[c]: the connections client c works with
    pc,             \* pc[c]: "idle", "lock", "wait", "spin" (with the lock),
                    \* "woken" or "leave"
    recycler,       \* "top", "sleep" (with the lock) or "exit"
    dtor,           \* "alive", "wait", "woken" or "gone"
    late            \* history: connections returned after the pool was closed

vars == <<m_minSize, m_pool, m_activeCnt, m_subscribeCnt, m_closed, held, pc,
          recycler, dtor, late>>

Pooled == {m_pool[i] : i \in DOMAIN m_pool}
InHand == UNION {held[c] : c \in Clients}
Existing == Pooled \cup InHand

Unlocked == recycler # "sleep" /\ \A c \in Clients : pc[c] # "spin"

Init ==
    /\ m_minSize \in Garbage
    /\ m_pool \in {q \in [1..minSize -> Conns] :
                     \A i, j \in 1..minSize : q[i] = q[j] => i = j}
    /\ m_activeCnt = m_minSize
    /\ m_subscribeCnt = 0
    /\ m_closed = FALSE
    /\ held = [c \in Clients |-> {}]
    /\ pc = [c \in Clients |-> "idle"]
    /\ recycler = "top"
    /\ dtor = "alive"
    /\ late = 0

-----------------------------------------------------------------------------
(* getConn().                                                              *)

Goto(c, l) == pc' = [pc EXCEPT ![c] = l]

(* A call begins before the destructor does.                               *)
GetConn(c) ==
    /\ pc[c] = "idle" /\ dtor = "alive"
    /\ Cardinality(held[c]) < MaxHeld
    /\ m_subscribeCnt' = m_subscribeCnt + 1
    /\ Goto(c, "lock")
    /\ UNCHANGED <<m_minSize, m_pool, m_activeCnt, m_closed, held, recycler,
                   dtor, late>>

\* Mutant of Full: one connection more.
FullPastMax == m_activeCnt > m_maxSize

Full == m_activeCnt >= m_maxSize

(* m_closeCond.signal().                                                   *)
WakeDestructor == dtor' = IF dtor = "wait" THEN "woken" ELSE dtor

\* Mutant of Noticed: m_closed is not tested again after waitFor.
NoticedAtEntry(c) == m_closed /\ pc[c] = "lock"

Noticed(c) == m_closed

(* What getConn does once it has the lock and is not, or no longer, in     *)
(* Cond::waitFor with the answer 0.  waitFor leaves tv_nsec uninitialised  *)
(* (cond.cpp:19): with an invalid value it fails and keeps the lock.       *)
Look(c) ==
    \/ /\ Noticed(c)
       /\ WakeDestructor
       /\ Goto(c, "leave")
       /\ UNCHANGED <<m_pool, m_activeCnt, held>>
    \/ /\ ~Noticed(c) /\ m_pool = <<>> /\ Full
       /\ Goto(c, "wait") \/ Goto(c, "spin")
       /\ UNCHANGED <<m_pool, m_activeCnt, held, dtor>>
    \/ /\ ~Noticed(c) /\ m_pool # <<>>
       /\ held' = [held EXCEPT ![c] = @ \cup {Head(m_pool)}]
       /\ m_pool' = Tail(m_pool)
       /\ Goto(c, "leave")
       /\ UNCHANGED <<m_activeCnt, dtor>>
    \/ /\ ~Noticed(c) /\ m_pool = <<>> /\ ~Full
       /\ \E x \in Conns \ Existing : held' = [held EXCEPT ![c] = @ \cup {x}]
       /\ m_activeCnt' = m_activeCnt + 1
       /\ Goto(c, "leave")
       /\ UNCHANGED <<m_pool, dtor>>

(* With a valid tv_nsec waitFor takes its two seconds for a time of 1970   *)
(* (cond.cpp:20): it gives the lock away and comes back at once, with      *)
(* FALSE, and getConn looks again.                                         *)
LockOrTimeout(c) ==
    /\ pc[c] \in {"lock", "wait"} /\ Unlocked
    /\ Look(c)
    /\ UNCHANGED <<m_minSize, m_subscribeCnt, m_closed, recycler, late>>

(* The failing waitFor is called again and again, as nobody else can get   *)
(* the lock and change anything, until it finds a valid tv_nsec.           *)
StopSpinning(c) ==
    /\ pc[c] = "spin"
    /\ Goto(c, "wait")
    /\ UNCHANGED <<m_minSize, m_pool, m_activeCnt, m_subscribeCnt, m_closed, held,
                   recycler, dtor, late>>

(* waitFor returns TRUE after a signal: getConn fails, whatever is in      *)
(* m_pool (pool.cpp:109).                                                  *)
Woken(c) ==
    /\ pc[c] = "woken" /\ Unlocked
    /\ Goto(c, "leave")
    /\ UNCHANGED <<m_minSize, m_pool, m_activeCnt, m_subscribeCnt, m_closed, held,
                   recycler, dtor, late>>

Spurious(c) ==
    /\ pc[c] = "wait"
    /\ Goto(c, "woken")
    /\ UNCHANGED <<m_minSize, m_pool, m_activeCnt, m_subscribeCnt, m_closed, held,
                   recycler, dtor, late>>

\* Mutant of Unsubscribed: a return without its Defer.
StillSubscribed(n) == n

(* The Defer, destroyed after the guard.                                   *)
Unsubscribed(n) == n - 1

Leave(c) ==
    /\ pc[c] = "leave"
    /\ m_subscribeCnt' = Unsubscribed(m_subscribeCnt)
    /\ Goto(c, "idle")
    /\ UNCHANGED <<m_minSize, m_pool, m_activeCnt, m_closed, held, recycler, dtor,
                   late>>

-----------------------------------------------------------------------------
\* Mutant of Returned: the client can go on with the connection.
ReturnedCopy(c, x) == held

Returned(c, x) == [held EXCEPT ![c] = @ \ {x}]

(* putConn(), from the deleter of the pointer that getConn returned.  The  *)
(* signal finds nobody if the waiters are those whose time is up.          *)
PutConn(c, x) ==
    /\ pc[c] = "idle" /\ x \in held[c] /\ Unlocked
    /\ held' = Returned(c, x)
    /\ \/ /\ m_closed
          /\ late' = late + 1
          /\ WakeDestructor
          /\ UNCHANGED <<m_pool, pc>>
       \/ /\ ~m_closed
          /\ m_pool' = Append(m_pool, x)
          /\ \/ \E d \in Clients : pc[d] = "wait" /\ Goto(d, "woken")
             \/ UNCHANGED pc
          /\ UNCHANGED <<late, dtor>>
    /\ UNCHANGED <<m_minSize, m_activeCnt, m_subscribeCnt, m_closed, recycler>>

(* m_pool.size() > m_minSize, a comparison without sign.                   *)
AboveMinSize(n) == m_minSize >= 0 /\ n > m_minSize

(* recycleIdleConns(): connections are closed from the front as long as    *)
(* they have expired and enough remain.                                    *)
Recycle ==
    /\ recycler = "top"
    /\ \/ m_closed /\ recycler' = "exit" /\ UNCHANGED <<m_pool, m_activeCnt>>
       \/ /\ ~m_closed
          /\ \E n \in 0..Len(m_pool) :
                /\ n > 0 => AboveMinSize(Len(m_pool) - n + 1)
                /\ m_pool' = SubSeq(m_pool, n + 1, Len(m_pool))
                /\ m_activeCnt' = m_activeCnt - n
          /\ recycler' = "sleep"
    /\ UNCHANGED <<m_minSize, m_subscribeCnt, m_closed, held, pc, dtor, late>>

WakeUp ==
    /\ recycler = "sleep"
    /\ recycler' = "top"
    /\ UNCHANGED <<m_minSize, m_pool, m_activeCnt, m_subscribeCnt, m_closed, held,
                   pc, dtor, late>>

-----------------------------------------------------------------------------
\* Mutant of Busy: `&&` for `||`.
BusyBoth(active) == active # 0 /\ m_subscribeCnt # 0

(* The condition of the destructor's wait.                                 *)
Busy(active) == active # 0 \/ m_subscribeCnt # 0

(* The broadcast wakes those in waitFor whose time is not up.              *)
Destroy ==
    /\ dtor = "alive" /\ Unlocked
    /\ m_closed' = TRUE
    /\ \E W \in SUBSET {c \in Clients : pc[c] = "wait"} :
          pc' = [c \in Clients |-> IF c \in W THEN "woken" ELSE pc[c]]
    /\ m_pool' = <<>>
    /\ m_activeCnt' = m_activeCnt - Len(m_pool)
    /\ dtor' = IF Busy(m_activeCnt') THEN "wait" ELSE "gone"
    /\ UNCHANGED <<m_minSize, m_subscribeCnt, held, recycler, late>>

(* Woken by m_closeCond, or by nothing.                                    *)
Destroyed ==
    /\ dtor \in {"wait", "woken"} /\ Unlocked
    /\ dtor' = IF Busy(m_activeCnt) THEN "wait" ELSE "gone"
    /\ UNCHANGED <<m_minSize, m_pool, m_activeCnt, m_subscribeCnt, m_closed, held,
                   pc, recycler, late>>

-----------------------------------------------------------------------------
Next ==
    \/ \E c \in Clients :
          \/ GetConn(c) \/ LockOrTimeout(c) \/ StopSpinning(c)
          \/ Woken(c) \/ Spurious(c) \/ Leave(c)
          \/ \E x \in Conns : PutConn(c, x)
    \/ Recycle \/ WakeUp \/ Destroy \/ Destroyed

Spec == Init /\ [][Next]_vars

(* Threads run: a call of getConn that can go on does, the recycling       *)
(* thread too, and a destructor that has been woken looks again.  Nobody   *)
(* has to return a connection, and tv_nsec need never be valid.            *)
FairSpec ==
    /\ Spec
    /\ \A c \in Clients : WF_vars(LockOrTimeout(c) \/ Woken(c) \/ Leave(c))
    /\ WF_vars(Recycle \/ WakeUp)
    /\ WF_vars(dtor = "woken" /\ Destroyed)

-----------------------------------------------------------------------------
(* A connection is idle in one place of m_pool or works for one client:    *)
(* nobody has a connection that the recycling thread or the destructor     *)
(* closes, or that another client gets.                                    *)
OneUser ==
    /\ \A c, d \in Clients : c # d => held[c] \cap held[d] = {}
    /\ Pooled \cap InHand = {}
    /\ Cardinality(Pooled) = Len(m_pool)

(* The two counters the destructor waits for: m_subscribeCnt counts the    *)
(* calls of getConn; m_activeCnt moves with the number of connections that *)
(* exist, from the difference that init() starts it with, except that a    *)
(* connection returned to a closed pool is closed and stays counted        *)
(* (pool.cpp:144).                                                         *)
CountExact ==
    /\ m_subscribeCnt = Cardinality({c \in Clients : pc[c] # "idle"})
    /\ m_activeCnt - m_minSize = Cardinality(Existing) - minSize + late

(* Beside the connections of init() there are at most as many as m_maxSize *)
(* is above m_minSize, whatever that holds; more than m_maxSize in all, if *)
(* it holds less than minSize.                                             *)
WithinMaxSize ==
    LET most == IF m_minSize <= m_maxSize THEN m_maxSize - m_minSize ELSE 0 IN
    Cardinality(Existing) <= minSize + most

(* The destructor returns with nobody in getConn, and with exactly as many *)
(* connections outside, or returned too late to be counted, as m_minSize   *)
(* is below minSize: none only if m_minSize has the value that was meant.  *)
DestroyedLast ==
    dtor = "gone" =>
        /\ \A c \in Clients : pc[c] = "idle"
        /\ Cardinality(InHand) + late = minSize - m_minSize

(* Once the pool is closed every call of getConn returns: no client polls  *)
(* or waits in it for ever (pool.cpp:28).                                  *)
ClosedReleases == m_closed ~> \A c \in Clients : pc[c] = "idle"
=============================================================================
