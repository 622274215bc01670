------------------------------- MODULE Channel -------------------------------
(***************************************************************************)
(* sync::Channel<T> (src/sync/channel.h): a bounded blocking queue on a    *)
(* ring, one mutex and two condition variables, shared by any number of    *)
(* threads.                                                                *)
(*                                                                         *)
(* A step of a thread is the code between two points where another thread  *)
(* can observe it.  Everything a call does under m_lock, from the          *)
(* acquisition to the release or to Cond::wait, is one step: the only      *)
(* state read without the lock are the atomics m_closed, which changes     *)
(* only under the lock, and m_subscribers, which close() polls when        *)
(* m_closed is already set.  The release is a step of its own, since the   *)
(* Defers run in reverse order and m_subscribers-- is visible before       *)
(* m_lock.unlock().                                                        *)
(*                                                                         *)
(* pc[t] is where t is inside the channel:                                 *)
(*   "idle"    outside;                                                    *)
(*   "lock"    past the unlocked test of m_closed, about to take m_lock;   *)
(*   "wait"    blocked in Cond::wait;                                      *)
(*   "relock"  woken in Cond::wait, about to take m_lock again;            *)
(*   "unlock"  holding m_lock, its m_subscribers-- done;                   *)
(*   "drain"   in the polling loop of close();                             *)
(*   "return"  out of the channel, the result in res[t].                   *)
(***************************************************************************)
EXTENDS Integers, Sequences, FiniteSets

CONSTANTS
    Threads,        \* the threads that use the channel
    NoThread,       \* m_lock is held by nobody
    Data,           \* the values written
    Default,        \* T(), what the constructor fills m_array with
    Cap,            \* the capacity, m_array.size()
    WriteBatches,   \* the vectors given to writeN; write(d) is writeN({d})
    ReadSizes       \* the sizes given to readN; read(r) is readN of size 1

ASSUME ChannelAssumption ==
    /\ IsFiniteSet(Threads)
    /\ NoThread \notin Threads
    /\ Cap \in Nat \ {0}
    /\ WriteBatches \subseteq Seq(Data)
    /\ ReadSizes \subseteq Nat

VARIABLES
    m_lock,         \* the holder of m_lock, or NoThread
    m_front,        \* index of the slot read last, -1 before the first read
    m_back,         \* index of the slot written last, -1 before that
    m_size,         \* how many slots hold unread data
    m_array,        \* the ring
    m_closed,       \* atomic<bool>
    m_subscribers,  \* atomic<int>: readers and writers past the locked test
    pc,             \* pc[t]: where t is, see above
    call,           \* call[t]: the call it executes
    res             \* res[t]: what the call returns

ring == <<m_front, m_back, m_size, m_array>>
vars == <<m_lock, m_front, m_back, m_size, m_array, m_closed, m_subscribers,
          pc, call, res>>

Slots == 0..(Cap - 1)

Locations == {"idle", "lock", "wait", "relock", "unlock", "drain", "return"}

NoCall == [op |-> "none"]
WriteCalls == [op : {"writeN"}, datas : WriteBatches, nonblock : BOOLEAN]
ReadCalls == [op : {"readN"}, size : ReadSizes, nonblock : BOOLEAN]
CloseCalls == [op : {"close"}]      \* close(), and ~Channel(), which calls it
Calls == WriteCalls \cup ReadCalls \cup CloseCalls

(* The result of a call: the returned bool and the contents of receivers.  *)
(* close() returns nothing; res[t].ok tells whether t's call is the one    *)
(* that closed the channel.                                                *)
Result(ok, datas) == [ok |-> ok, datas |-> datas]
Failure == Result(FALSE, <<>>)

-----------------------------------------------------------------------------
(* The ring.                                                               *)

roundTrip(cur) == (cur + 1) % Cap

\* Mutant of Advance: an index that is never wrapped.
AdvanceUnwrapped(cur, n) == cur + n

(* roundTrip applied n times.                                              *)
Advance(cur, n) == IF n = 0 THEN cur ELSE (cur + n) % Cap

(* How many times roundTrip takes m_back to slot i.                        *)
Distance(i) == ((i + Cap - m_back - 1) % Cap) + 1

(* m_array after the copy loop of writeN, for a batch that fits.           *)
Filled(datas) ==
    [i \in Slots |-> IF Distance(i) <= Len(datas) THEN datas[Distance(i)]
                                                  ELSE m_array[i]]

(* What the copy loop of readN puts in receivers.                          *)
Front(n) == [i \in 1..n |-> m_array[Advance(m_front, i)]]

(* The unread data, oldest first.                                          *)
Contents == Front(m_size)

Fits(c) == m_size + Len(c.datas) <= Cap

\* Mutant of Available: tests for any data instead of for the whole batch.
AvailableAny(c) == c.size = 0 \/ m_size > 0

Available(c) == c.size <= m_size

\* Mutant of Push: m_size counted once per call instead of once per datum.
PushOne(datas) ==
    /\ m_back' = Advance(m_back, Len(datas))
    /\ m_array' = Filled(datas)
    /\ m_size' = m_size + 1

(* The effects of the two copy loops.                                      *)
Push(datas) ==
    /\ m_back' = Advance(m_back, Len(datas))
    /\ m_array' = Filled(datas)
    /\ m_size' = m_size + Len(datas)

Pop(n) ==
    /\ m_front' = Advance(m_front, n)
    /\ m_size' = m_size - n

-----------------------------------------------------------------------------
(* The threads blocked on each condition variable.                         *)
ReadCond == {t \in Threads : pc[t] = "wait" /\ call[t].op = "readN"}
WriteCond == {t \in Threads : pc[t] = "wait" /\ call[t].op = "writeN"}

\* Mutant of Waiters: close() without m_writeCond.broadcast().
ReadersOnly == ReadCond

(* The threads reached by the two broadcasts of close().                   *)
Waiters == ReadCond \cup WriteCond

Init ==
    /\ m_lock = NoThread
    /\ m_front = -1 /\ m_back = -1 /\ m_size = 0
    /\ m_array = [i \in Slots |-> Default]
    /\ m_closed = FALSE
    /\ m_subscribers = 0
    /\ pc = [t \in Threads |-> "idle"]
    /\ call = [t \in Threads |-> NoCall]
    /\ res = [t \in Threads |-> Failure]

(* The start of write, writeN, read, readN, close: the unlocked test.      *)
Enter(t, c) ==
    /\ pc[t] = "idle"
    /\ call' = [call EXCEPT ![t] = c]
    /\ pc' = [pc EXCEPT ![t] = IF m_closed THEN "return" ELSE "lock"]
    /\ UNCHANGED <<m_lock, ring, m_closed, m_subscribers, res>>

(* t can take m_lock, on its first attempt or on its way out of wait.      *)
CanLock(t) == pc[t] \in {"lock", "relock"} /\ m_lock = NoThread

(* t has counted itself in m_subscribers: it came back from Cond::wait.    *)
Subscribed(t) == pc[t] = "relock"

\* Mutant of Leave: a thread that has waited never does m_subscribers--.
LeaveSubscribed(t, r) ==
    /\ m_lock' = t
    /\ res' = [res EXCEPT ![t] = r]
    /\ UNCHANGED m_subscribers

(* t runs to its return with m_lock held: the result and m_subscribers--   *)
(* (a call that got here in one step has also done its m_subscribers++).   *)
Leave(t, r) ==
    /\ m_lock' = t
    /\ res' = [res EXCEPT ![t] = r]
    /\ m_subscribers' = IF Subscribed(t) THEN m_subscribers - 1
                                         ELSE m_subscribers

\* Mutant of SignalAndLeave: leaves without the signal.
LeaveSilently(t, cond) == pc' = [pc EXCEPT ![t] = "unlock"]

(* Cond::signal before leaving: wakes one of the waiters, if any.          *)
SignalAndLeave(t, cond) ==
    \/ cond = {} /\ pc' = [pc EXCEPT ![t] = "unlock"]
    \/ \E w \in cond : pc' = [pc EXCEPT ![t] = "unlock", ![w] = "relock"]

(* m_closed found set under the lock, at the start or after a wait.        *)
FindClosed(t) ==
    /\ CanLock(t)
    /\ m_closed
    /\ Leave(t, Failure)
    /\ pc' = [pc EXCEPT ![t] = "unlock"]
    /\ UNCHANGED <<ring, m_closed, call>>

Write(t) ==
    /\ CanLock(t)
    /\ ~m_closed
    /\ call[t].op = "writeN"
    /\ Fits(call[t])
    /\ Push(call[t].datas)
    /\ SignalAndLeave(t, ReadCond)
    /\ Leave(t, Result(TRUE, <<>>))
    /\ UNCHANGED <<m_front, m_closed, call>>

Read(t) ==
    /\ CanLock(t)
    /\ ~m_closed
    /\ call[t].op = "readN"
    /\ Available(call[t])
    /\ Pop(call[t].size)
    /\ SignalAndLeave(t, WriteCond)
    /\ Leave(t, Result(TRUE, Front(call[t].size)))
    /\ UNCHANGED <<m_back, m_array, m_closed, call>>

(* The call cannot be served: the guard of both while loops.               *)
Stuck(c) ==
    \/ c.op = "writeN" /\ ~Fits(c)
    \/ c.op = "readN" /\ ~Available(c)

GiveUp(t) ==
    /\ CanLock(t)
    /\ ~m_closed
    /\ Stuck(call[t])
    /\ call[t].nonblock
    /\ Leave(t, Failure)
    /\ pc' = [pc EXCEPT ![t] = "unlock"]
    /\ UNCHANGED <<ring, m_closed, call>>

(* Cond::wait: counted in m_subscribers on the first round, m_lock free.   *)
Wait(t) ==
    /\ CanLock(t)
    /\ ~m_closed
    /\ Stuck(call[t])
    /\ ~call[t].nonblock
    /\ pc' = [pc EXCEPT ![t] = "wait"]
    /\ m_subscribers' = IF Subscribed(t) THEN m_subscribers
                                         ELSE m_subscribers + 1
    /\ UNCHANGED <<m_lock, ring, m_closed, call, res>>

(* POSIX lets Cond::wait return without a signal.                          *)
SpuriousWakeup(t) ==
    /\ pc[t] = "wait"
    /\ pc' = [pc EXCEPT ![t] = "relock"]
    /\ UNCHANGED <<m_lock, ring, m_closed, m_subscribers, call, res>>

(* close() under the lock: both broadcasts reach every waiter.             *)
Close(t) ==
    /\ CanLock(t)
    /\ ~m_closed
    /\ call[t].op = "close"
    /\ m_closed' = TRUE
    /\ pc' = [u \in Threads |->
                IF u = t THEN "unlock"
                ELSE IF u \in Waiters THEN "relock"
                ELSE pc[u]]
    /\ Leave(t, Result(TRUE, <<>>))
    /\ UNCHANGED <<ring, call>>

Unlock(t) ==
    /\ pc[t] = "unlock"
    /\ m_lock' = NoThread
    /\ pc' = [pc EXCEPT ![t] =
                IF call[t].op = "close" /\ res[t].ok THEN "drain" ELSE "return"]
    /\ UNCHANGED <<ring, m_closed, m_subscribers, call, res>>

\* Mutant of Drained: close() that does not wait for the subscribers.
DrainedAtOnce(t) ==
    /\ pc[t] = "drain"
    /\ pc' = [pc EXCEPT ![t] = "return"]
    /\ UNCHANGED <<m_lock, ring, m_closed, m_subscribers, call, res>>

(* The end of the polling loop of close().                                 *)
Drained(t) ==
    /\ pc[t] = "drain"
    /\ m_subscribers = 0
    /\ pc' = [pc EXCEPT ![t] = "return"]
    /\ UNCHANGED <<m_lock, ring, m_closed, m_subscribers, call, res>>

(* The caller goes on with the result.                                     *)
Return(t) ==
    /\ pc[t] = "return"
    /\ pc' = [pc EXCEPT ![t] = "idle"]
    /\ call' = [call EXCEPT ![t] = NoCall]
    /\ res' = [res EXCEPT ![t] = Failure]
    /\ UNCHANGED <<m_lock, ring, m_closed, m_subscribers>>

(* What a thread inside the channel does by itself.                        *)
Step(t) ==
    \/ FindClosed(t) \/ Write(t) \/ Read(t) \/ GiveUp(t) \/ Wait(t)
    \/ Close(t) \/ Unlock(t) \/ Drained(t) \/ Return(t)

Next ==
    \E t \in Threads :
        (\E c \in Calls : Enter(t, c)) \/ Step(t) \/ SpuriousWakeup(t)

Spec == Init /\ [][Next]_vars

(* The scheduler runs every thread that can run.  Nothing forces a thread  *)
(* to call the channel or Cond::wait to return without a signal.           *)
FairSpec == Spec /\ \A t \in Threads : WF_vars(Step(t))

-----------------------------------------------------------------------------
(* The types of the variables; in particular both indexes stay in the ring *)
(* (or -1) and the size within the capacity.                               *)
TypeOK ==
    /\ m_lock \in Threads \cup {NoThread}
    /\ m_front \in Slots \cup {-1}
    /\ m_back \in Slots \cup {-1}
    /\ m_size \in 0..Cap
    /\ m_array \in [Slots -> Data \cup {Default}]
    /\ m_closed \in BOOLEAN
    /\ m_subscribers \in Int
    /\ pc \in [Threads -> Locations]
    /\ call \in [Threads -> Calls \cup {NoCall}]
    /\ res \in [Threads -> [ok : BOOLEAN, datas : Seq(Data \cup {Default})]]

(* The three counters of the ring agree: m_back is m_size slots ahead of   *)
(* m_front, though the two sides move them in different calls.             *)
RingConsistent == m_back = Advance(m_front, m_size)

(* m_subscribers is the number of readers and writers inside Cond::wait,   *)
(* whichever way they leave it; close() relies on it to reach zero and     *)
(* never to be zero while one of them is left.                             *)
SubscriberCount ==
    m_subscribers = Cardinality({t \in Threads : pc[t] \in {"wait", "relock"}})

(* When the close() that closed the channel returns, no reader or writer   *)
(* is blocked in it any more, and none ever will be.                       *)
CloseDrains ==
    (\E t \in Threads : /\ pc[t] = "return"
                        /\ call[t].op = "close"
                        /\ res[t].ok)
        => \A u \in Threads : pc[u] \notin {"wait", "relock"}

(* What the properties above rest on, inductive together with TypeOK: the  *)
(* holder of m_lock is the thread that is leaving, nobody waits on a       *)
(* closed channel (in Cond::wait with no broadcast to come), and only the  *)
(* close() that closed the channel reports that it did.                    *)
LockHolder == \A t \in Threads : m_lock = t <=> pc[t] = "unlock"

NoWaitAfterClose ==
    \A t \in Threads :
        pc[t] = "wait" => ~m_closed /\ call[t].op \in {"writeN", "readN"}

ResultsInOrder ==
    \A t \in Threads :
        /\ pc[t] \in {"idle", "lock", "wait", "relock"} => res[t] = Failure
        /\ call[t].op = "close" /\ res[t].ok => m_closed

IndInv ==
    /\ TypeOK
    /\ LockHolder
    /\ RingConsistent
    /\ SubscriberCount
    /\ NoWaitAfterClose
    /\ ResultsInOrder
    /\ CloseDrains

(* No wakeup is lost when all batches are single elements: as long as a    *)
(* reader is blocked, every element in the ring has a woken reader on its  *)
(* way to m_lock; the same for blocked writers and free slots.  It is what *)
(* makes one Cond::signal per call enough for read() and write().          *)
Woken(op) == {t \in Threads : pc[t] = "relock" /\ call[t].op = op}

NoLostWakeup ==
    /\ ReadCond # {} => m_size <= Cardinality(Woken("readN"))
    /\ WriteCond # {} => Cap - m_size <= Cardinality(Woken("writeN"))

(* Once the channel is closed, every call that is inside it returns: every *)
(* blocked reader and writer is released, and close() itself gets out of   *)
(* its polling loop.                                                       *)
CloseReleases ==
    \A t \in Threads :
        (m_closed /\ pc[t] # "idle") ~> (pc[t] = "idle")

(* The ring, the lock and the condition variables implement the queue that *)
(* FifoChannel describes: FIFO order, no loss, no duplication, atomic      *)
(* batches, failures only for the two stated reasons.                      *)
Phase(t) ==
    IF pc[t] = "idle" THEN "idle"
    ELSE IF pc[t] \in {"lock", "wait", "relock"} THEN "called" ELSE "done"

Fifo == INSTANCE FifoChannel WITH
    q <- Contents, closed <- m_closed, phase <- [t \in Threads |-> Phase(t)]

ImplementsFifo == Fifo!Spec
=============================================================================
