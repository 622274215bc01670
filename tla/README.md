# cbricks in TLA+

Specifications of `cbricks`, a C++ library of concurrency bricks (channel,
coroutines, a coroutine pool, a concurrent map, an object pool, a connection
pool, a logger, an epoll server).  The reference is the code.  Where a comment, an
assertion or a test of the repository says something else, a run shows the
difference for five of the most serious cases; the others that were met are listed at
the end of "Runs".

## The system

| component | state | operations | interacts with |
|---|---|---|---|
| `sync::Channel` (`sync/channel.h`) | ring, two indexes, size, closed flag, subscriber count | `write(N)`, `read(N)`, `close` | used by the pool and the logger; `Lock`, `Cond` |
| `pool::WorkerPool` (`pool/workerpool.*`) | threads with a task queue and a lock each, per-thread `t_schedq`, task counter, closed flag | `submit`, `sched`, worker main loop, stealing, destructor | one Channel per thread, Coroutine, RWLock; used by the server |
| `sync::Coroutine` (`sync/coroutine.*`) | state, saved context, per-thread main coroutine | constructor, `go`, `sched`, `exit` | Once, the pool |
| `sync::Map` (`sync/map.h`) | read-only map, dirty map, miss count, entries (value, deleted, expunged) | `load`, `store`, `evict`, `range` | a lock |
| `pool::InstancePool` (`pool/instancepool.*`) | local and victim levels, a single and a shared queue each, evict thread | `get`, `put`, eviction, destructor | SpinLock, Lock, Semaphore |
| `mysql::ConnPool` (`mysql/pool.*`) | idle connections, active and waiting counts | `init`, `getConn`, `putConn`, recycling, destructor | two conditions, the MySQL client |
| `server::Server` (`server/server.*`) | connections by descriptor, epoll registrations, signal pipe | `serve`, `spawnConn`, `processRead`, `processWrite`, signals, destructor | the pool, a lock, semaphores, `io/` |
| `log::Logger` (`log/log.*`) | buffer, file, line count, date | `Init`, `log`, writer thread, destructor | a Channel |
| `memory::SharedPtr` (`memory/ptr.h`) | pointer and shared count | copy, assign, `reset`, destructor | |
| `sync::Once` (`sync/once.*`) | done flag, lock | `onceDo` | Coroutine, Server |
| `sync::Queue`, locks, `Cond`, `Semaphore`, `Thread` | | | the bricks of the above |
| `io/`, `base/`, `trace/`, `datastruct/`, HTTP stubs, `main.cpp` | | wrappers, utilities, declarations, demonstrations | |

What makes each of them correct, and what is hard about it:

* **Channel**: FIFO order, atomic batches, no loss; nobody sleeps beside work
  for him; `close` releases everyone and returns.  Hard: which thread a signal
  wakes, barging, spurious wakeups, `close` between any two steps.
* **WorkerPool**: an accepted task runs once; `submit` and the destructor
  return; yielded coroutines go on.  Hard: blocking calls made from tasks and
  under locks, thefts between two queues, shutdown thread by thread.
* **Map**: every call takes effect at one instant; an entry that is expunged is
  not in the dirty map, every other one is.  Hard: the unlocked copy of a
  structure that is changed in place, compare-and-exchange against deletion, a
  global marker that an exchange may overwrite.
* **InstancePool**: an instance is with one user at a time, survives one round
  and not two.  Hard: the evict thread against unlocked readers.
* **ConnPool**: a connection has one user, their number stays within its limit,
  the counts are right on every path.  Hard: timeouts against returns, the
  destructor.
* **Server**: an event reaches the connection it was reported for, which one task
  at a time serves; each event has an effect.  Hard: one-shot registrations,
  descriptors that are used again, tasks in flight when a connection goes away.
* **Logger**: lines in order and in the right file, none lost in the middle.
  Hard: shutdown and restart, midnight.
* **SharedPtr**: the object is freed once, after its last user.
* **Once**: one function runs, and nobody returns before it has ended.
* **Coroutine**: each coroutine goes on where it was left.

The hazards, each at its line, are in `PROJECT.json`.

## Modules

| module | contents |
|---|---|
| `FifoChannel` | the abstract channel: a closable bounded queue with atomic calls |
| `Channel` | `sync/channel.h` with its ring, lock and condition variables |
| `SeqLemmas` | lemmas about sequences |
| `ChannelProofs` | theorems about `Channel` |
| `MCChannel` | model values for `Channel` |
| `MCChannelJoin` | the scenario of `testChannel` (`main.cpp:139-192`) with its joins |
| `TaskPool` | the abstract pool: the life of a task |
| `WorkerPool` | `pool/workerpool.*` over atomic task queues |
| `WorkerPoolProofs` | theorems about `WorkerPool` |
| `MCWorkerPool` | model values, and what the comments of the pool say |
| `AtomicMap` | the abstract map: calls that take effect at one instant |
| `Map` | `sync/map.h` |
| `MCMap` | model values for `Map` |
| `MapProofs` | theorems about `Map` |
| `MCMapRace` | the calls of `testSyncMap` (`main.cpp:447`) side by side |
| `InstancePool` | `pool/instancepool.*` |
| `InstancePoolProofs` | theorems about `InstancePool` |
| `Server` | `server/server.*` and what it uses of `io/`, over an atomic task pool |
| `ServerProofs` | theorems about `Server` |
| `ConnPool` | `mysql/pool.*` |
| `ConnPoolProofs` | theorems about `ConnPool` |
| `MCConnPool` | what a comment of `mysql/pool.cpp` says |
| `Logger` | `log/log.*` over an atomic queue of lines |
| `SharedPtr`, `Once`, `Coroutine` | `memory/ptr.h`, `sync/once.cpp`, `sync/coroutine.cpp` |
| `MCLive` | `Channel`, four instances of `WorkerPool` and `ConnPool`, one at a time, under fairness |
| `MCBricks` | these four and `ConnPool`, one at a time, with their model values |
| `BricksProofs` | theorems about the four |

### Channel

`m_lock`, `m_front`, `m_back`, `m_size`, `m_array`, `m_closed` and
`m_subscribers` are the fields of the class; `pc`, `call` and `res` are where
each thread is, what it calls and what the call returns.  Everything between
two points where another thread can look is one action: `Enter` (the unlocked
test), then one action per outcome of the critical section (`FindClosed`,
`Write`, `Read`, `GiveUp`, `Wait`, `Close`), then `Unlock` and `Return`.
`write(d)` and `read(r)` are the batches of length one, as in the code.
The unlock is a step of its own because the `Defer` objects run in reverse
order: `m_subscribers--` is visible to `close` before the lock is free.
`Cond::signal` wakes any one of the waiters, `Cond::wait` may return without a
signal, a woken thread competes for the lock with threads that just arrive.
A batch that is larger than the capacity is a legal call that waits until the
channel is closed.  A call is one operation on an object that is alive: the
freeing of the object after `~Channel` is not in the model.

`ImplementsFifo` maps the ring to the sequence of its unread data and the
places of a thread to "called" and "done".  It says that each call takes effect
in one instant while the lock is held.

### WorkerPool

Each task queue is the atomic queue that `Channel` is proved to implement
(`ChannelImplementsFifo`); an operation that would block is disabled.  Taking
liveness over from the channel as well is sound here although `Channel` can lose a
wakeup of a batch: a queue has only one blocking reader (its worker), and one
blocking writer at a time (the one that holds the lock of the thread), so a
single signal reaches the thread it is for.
`submit` is `BeginSubmit`, `SubmitLock`, `SubmitWrite`; the lock is
held while the write blocks.  The lock is exclusive for both kinds of guard,
since `RWLock::rlock` calls `pthread_rwlock_wrlock` (`lock.cpp:40`).
A worker goes through `Top`, `BurstRead`, `Schedule`, `PickVictim`, `StealLock`,
`StealRead`, `StealWrite` and `LastRead` in the order of `work()`, with the flags
of the two reads as the code passes them.  A task is a script: what it does
to the pool (`sched`, a `submit` of another task), in order; what it computes is
left out.  The destructor is `Destroy`, then `CloseQueue` and `Join` for each
thread.  `fate` is a history variable: what became of a task.

A thief is always a worker whose own queue is closed, since the blocking read of
its loop fails on nothing else: what it takes is dropped by `StealWrite`, and
while the pool is open nothing is stolen.  `ThiefReleased` is the guard of
`workStealing`, which other submitters to the thief wait for until then.

Bounded or left out: the capacity (1024) and the burst of 10 are the constants
`Cap` and `Burst`; the task counter is kept modulo the number of threads; a
client does not call a pool whose destructor has returned; the test of the
size of the thief's queue and the `readN` on the victim are one step (the first
can only be made stale towards more room, since the thief holds its own lock);
each task is submitted once.

### Map

`ro` is `*m_readonly`, an object that is never replaced, only changed in place;
`cont`, `s_expunged`, `m_dirty`, `m_misses` and `m_dirtyLock` are the fields.  An
unlocked look is two steps, as `ReadOnly`'s copy constructor reads `amended` and
then `m` (`Copy`, `Find`); `readonlyLocked` writes them in the order `m`,
`amended` (`Publish`, `Unamend`).  Each of `Entry::load`, `tryStore`, `evict`
and `storeLocked` is a loop around one compare and exchange, which is the step.
`LockedLook`, `LockedRange`, `StoreFound`, `StoreDirty` and `StoreNew` are the
sections under the lock; `dirtyLocked` visits one entry in a step (`Fill`), as
evicts and stores without the lock fall between, and `InsertNew` ends a store of a
new key.  `range` copies the map (`WalkCopy`) and then loads one entry of its copy
in a step (`Visit`).  A value stands for the address of a `WrappedV`; a store takes one
that nothing refers to, as a new object does.

`AtomicMap` is what the class promises: a store and an evict take effect at one
instant, a load answers with what its key held at such an instant, and a range says
so of each key by itself.  `seen` is the history that this takes: for each
key that a call asks for, what it has held since the call began.

`Spec` has every step of the code.  `SoundSpec` has every call and every overlap
of calls too, and leaves out exactly the two steps in which `StoreFound` is
wrong: `ExchangeFails`, where `unexpungeLocked` is tried on an entry that is not
expunged and its exchange overwrites `s_expunged`, and `EntryStale`, where the entry
of the first look has left the read-only map.  So a behaviour of `SoundSpec` is one
of the program until a store is about to do one of these.  `map_race` shows what the
first of them does; the second is told under "Seen while modelling".

### InstancePool

`get` and `put` are `Get` or `Put` (the counter), then `Copy` (the copy of the
shared pointer out of the vector), `Single` and `Shared` for each level pool in
the order of `getFromPool`, then `Construct`.  The evict thread is `Round`,
`AssignVictim` and `AssignLocal` for one element after the other, `Leave`; the
destructor is `Destroy` and `Destroyed`.  A level pool is named by its age and
level, so that the state stays finite although rounds never end; `Kept` frees
those that nothing refers to, as the last `shared_ptr` does.  Reading an element
of a vector that is being assigned is undefined; the model has the outcomes that
do not crash.  Users end their calls before they destroy the pool.

### ConnPool

A section under `m_lock` is one step.  `Look` is what `getConn` does when it has
the lock, `LockOrTimeout`, `Woken` and `Spurious` the three ways to get there,
`Leave` the `Defer` that runs after the unlock.  `waitFor` passes two seconds of
1970 to `pthread_cond_timedwait` (`cond.cpp:20`): it gives the lock away and
returns at once, so a waiter polls until it is woken, and then fails, as
its answer is taken the wrong way round (`pool.cpp:109`).  `tv_nsec` is not
initialised: with an invalid value the call fails without giving the lock
away, and the loop runs on with it (`"spin"`) until the value is a valid one
(`StopSpinning`, which no fairness promises).  `init` assigns `m_minSize` to
itself (`pool.cpp:67`): the model starts from any value of the uninitialised
member, and the properties say what follows from it.  `Recycle` ends with the
sleep under the lock, `WakeUp` ends it.  `late` counts the connections that were
returned to a closed pool.  A signal or a broadcast may find that the time of the
waiters is up, and wake none of them.

### Server

Variables are split into what the kernel keeps (registrations, descriptors,
backlog, the pipe) and the fields of the class.  The event loop is `EpollWait`,
then one of `ProcessSignal`, `ProcessHup` and `Dispatch` for each event, in any
order; `loop = "sem"` is the wait in `processRead` and `processWrite`.  A task is
`Start`, then `Accept`/`Insert`/`Rearm`, or `Get`/`ReadFd`/`Reply`/`Modify`, or
`Get`/`WriteFd`/`FreeConn`, then `Drop` of its `shared_ptr`.  `CloseUnreferenced`
is the deleter of a connection, in whichever step its last reference goes; only
then is its number free for a new client.  `RecvFails` is the assertion in
`readFd`: a connection that its client has reset after its event ends the
process, with all tasks and connections (`"aborted"`).  `m_workerPool` is the pool
of `TaskPool`: an accepted task starts some time.  A client sends one request and
a connection gets one answer, as in the code, which closes it after the write.  A server
whose loop was left is destroyed (`Clear`, `Destroy`); the tasks in flight then run on,
since the model has no memory that is freed under them.

`ReadyEvents` and `OneShot` follow `epoll(7)`: a one-shot
registration is disabled by its report and `EPOLL_CTL_MOD` reports again what is
already true.  `Connect`, `Send`, `HangUp` and `Reset` are the clients'.

### Logger

`m_buffer` is `FifoChannel`'s queue: a non-blocking `write` takes the line or drops it,
`read` fails on a closed channel.  `Read`, `Preprocess` and `Put` are the loop of
the writer; `LoggerInit` is `Init`, `Destroy` and `CloseFile` the destructor.
`Midnight` moves the date, `Crash` ends the process; `written` is what the files
hold, which survives.  Dates are numbers of days, `tm_mday` their remainder.

### SharedPtr, Once, Coroutine

`SharedPtr` has a step for each access to the counter (`Release`, `Count`), for
the deletion and for the assignment of the two members.  Instances are used as the
standard's: one that a call changes is not used by another call meanwhile.
`Once` has a step for each line of `onceDo`; the function may throw.
`Coroutine` has the contexts that `swapcontext` saves and resumes: a context is the
stack it belongs to and how far it was.  `go` is called by the main coroutine, as
`WorkerPool` does.

## Runs

| run | configuration | shows |
|---|---|---|
| `channel_batches` | 3 threads, 2 slots, 2 data, batches of 0, 1 and 2 | `TypeOK`, `IndInv`, `RingConsistent`, `SubscriberCount`, `CloseDrains`, `ImplementsFifo` |
| `channel_join_batches` | one writer of 2, two readers of 1, fair | `AllJoined` **violated** |
| `pool_tasks` | 2 threads, queues of 2, 5 tasks, one that submits and yields, one that yields | `TypeOK`, `Conservation`, `ImplementsTaskPool` |
| `live` | Channel: 3 threads, 2 slots, single elements; WorkerPool with 2 clients and 4 tasks: 1 thread and a queue of 1, 2 threads and queues of 1 (3 tasks), 2 threads and queues of 2, 1 thread with a task that submits to it without blocking; ConnPool: 3 clients, 4 connections, limit 2, `m_minSize` below, at and above what was meant; fair | `NoLostWakeup`, `CloseReleases`; `AcceptedStarts`, `SubmitReturns`, `DestructorReturns`; `ClosedReleases` |
| `pool_destructor` | 2 threads, a task that submits, fair | `ThreadsLeave` **violated** |
| `map_sound` | 2 threads, 2 keys, 3 addresses, `SoundSpec` | `DirtyComplete`, `ImplementsAtomicMap` |
| `map_race` | one writer, one reader, 2 keys, 3 addresses | `StoresKept` **violated** |
| `instance_pool` | 2 clients, 2 instances, 2 levels, calls that last up to 3 rounds, fair | `OneOwner`, `Expires`, `KeptOneRound`, `DestructorLast`, `DestructorReturns` |
| `server` | 2 connections, 2 descriptors, 2 threads, the signal taken by another thread, fair | `FrameAlive`, `EventsFindTheirConn`, `OneTaskPerConn`, `Answered`, `Closed`, `Accepted`, `SignalEnds` |
| `server_signal` | 1 connection, the signal taken by the event loop, fair | `SignalEnds` **violated** |
| `conn_pool_max` | 3 clients, limit 1, `m_minSize` 0 | `AtMostMaxSize` **violated** |
| `bricks` | ConnPool: 2 clients, 5 connections, limit 2, `m_minSize` below, at and above what was meant; Logger: 5 lines, 3 days, 2 starts, files of 2 lines; SharedPtr: 2 threads, 3 instances, 3 objects; Once: 3 threads; Coroutine: 3 | `OneUser`, `CountExact`, `WithinMaxSize`, `DestroyedLast`; `InOrder`, `SplitsInTime`, `FileOfItsDay`; `UseCountExact`; `RunsOnce`; `ResumesWhereLeft` |

Why the bounds are enough to be interesting: two slots and three threads
let the ring wrap, fill and empty with a reader and a writer blocked while a
third thread overtakes or closes; two different data show an order.  Two
workers with queues of two tasks are the smallest pool in which half of a
queue can be stolen.  A lock of the pool
is waited for only if somebody is blocked with it or is between two steps: `live` has, on
a queue of one task, a client behind another one that is blocked on the full queue, on
queues of two a thief and the clients that submit to it, and a task that finds its own
queue full.  Tasks that do the same are submitted in one order there.
Two keys
make a dirty map that a miss promotes at once and one that it does not; two threads
with every pair of calls let a promotion, a store and an evict fall between the looks of
another call; a third thread is for the theorems, which have any number.
Two levels have one of their own
and another one, and a call that lasts three rounds sees its level pool leave both
vectors.  Two connections and two descriptors let a number be closed and
used again while an event or a task names it.  Three days with months of two days
have two days of the same number; five lines fill a file of two twice.  Two
clients that hold two connections each pass a limit of two by what `m_minSize` falls
short.
Symmetry is used for threads in runs of safety properties and for tasks that
all do the same.  `CHECK_DEADLOCK FALSE` stands in the runs whose system really
stops: all tasks done, the pool or the server gone, the bounded calls made, the
deadlock that the run is about, or (`map_sound`) every thread about to take a
step that `SoundSpec` leaves out.

Fairness.  `FairSpec` of `Channel` and `WorkerPool` is weak fairness of each
thread's own steps: the operating system runs every thread that can run, and a
mutex that stays free is eventually taken.  Nothing makes a thread begin a call,
submit, close or destroy, and nothing makes `Cond::wait` return without a signal.  No
strong fairness is assumed, so a lock may pass a thread by while others come and
go; in the liveness runs the number of calls that can come between is finite
(a task is submitted once; in the joins a thread calls once)
or the channel is closed and no call takes effect any more.  `InstancePool` has
weak fairness of the evict thread and of the destructor's wake-up, not of
the clients.  `ConnPool` has it for a call of `getConn`, for the recycling thread and
for a destructor that has been woken; no client has to return a connection, an
invalid `tv_nsec` may stay, and nothing wakes a destructor that was not signalled.
In `live` the same conditions are stated by the number of a thread, of whichever
component the behaviour is.  `Server` has weak fairness of the event loop's thread,
which goes on to destroy the server after `serve` has returned, and of each thread of the
pool; no client and no signal needs to come.  A descriptor that is missing is
never promised: `Accepted` ends with `Free = {}`.

### What the violated runs say

1. `writeN` signals once per batch.  A batch that could serve two readers wakes
   one; the other stays blocked beside its datum, and `testChannel` may hang.
   Single elements are safe (`NoLostWakeup`, proved).
2. The destructor of the pool closes and joins one thread at a time: a task blocked in
   `submit` on the queue of a thread that has already left never returns
   (`pool_destructor`).  It returns if tasks do not submit or do not block (`live`).
3. `unexpungeLocked` gives `s_expunged` itself as the expected value.  A store that
   waits for the lock while a missing load promotes the map finds its key
   there with a live value; the exchange fails and writes that value into
   the marker, and what was stored is read as deleted (`map_race`).
4. `EpollFd::wait` tests `errno` also when `epoll_wait` succeeded.  After one
   interrupted wait all events are dropped, the one of the exit signal as well
   (`server_signal`), unless another thread takes the signal (`server`).
5. `init` assigns `m_minSize` to itself.  If the member was zero, there are more
   connections than `maxSize` (`conn_pool_max`).  `WithinMaxSize` says by how many, for
   any value.

### Seen while modelling, without a run of its own

The models have the steps of what follows, unless it is said otherwise; the properties
are stated so that they hold beside it.

* WorkerPool.  A non-blocking submit waits for the lock of its target, with which another
  one may be blocked on the full queue (`workerpool.cpp:120`; `workerpool.h:73` says it
  returns at once); if a task of that thread makes it, both wait for ever.  So does a
  blocking submit of a task to the full queue of its own thread (`workerpool.cpp:123`).
  `SubmitReturns` is therefore about clients that block or tasks that do not, not both.
* WorkerPool.  The flags of the two reads in `work()` are exchanged (`workerpool.cpp:162`,
  `:196`).  A worker blocks on an empty queue with a yielded coroutine in its
  `t_schedq`, until it gets another task: no property says that a yielded coroutine goes
  on.  And an open pool never steals, since the loop over the own queue fails only when
  that queue is closed: what is stolen then cannot be written to it (`workerpool.cpp:285`,
  its result is ignored) and is dropped.
* Map.  `store` goes on with the entry of its first look when the second one does not find
  the key (`map.h:364`).  If that entry was expunged and left out of a promotion, the
  store puts it into the dirty map of a read-only map that is complete, where nobody
  looks.  `map_sound` ends before such a step, and the theorems about `Map` do.
* ConnPool.  With a zero `m_minSize` the destructor also returns with a connection
  outside (`pool.cpp:30`), which `pool.cpp:27` rules out: `DestroyedLast` says how many.
* ConnPool.  `putConn` on a closed pool leaves the connection in `m_activeCnt`
  (`pool.cpp:144`), and `getConn` signals `m_closeCond`, if at all, before its `Defer`
  counts `m_subscribeCnt` down (`pool.cpp:97`): a destructor that has to wait for
  either need not return, even with `m_minSize` as it was meant.  `ClosedReleases`
  promises the clients' return, not the destructor's.
* ConnPool.  `getConn` takes a wakeup for a timeout (`pool.cpp:109`): whom `putConn` wakes
  fails; a client that polls gets the connection.
* Server.  A client that resets its connection between the event of its request and the
  `recv` ends the process by the assertion in `readFd` (`conn.cpp:41`, `RecvFails`).
  `Answered` and the other liveness properties of `Server` end with it (`Ended`).
* Server.  A client that closes its sending side after the request is removed without an
  answer (`epoll.h:47`); `Answered` excludes clients that hang up.
* Channel.  `close` waits for the threads in `Cond::wait`, not for "all writers and
  readers" as its comment says (`channel.h:112`): `CloseDrains` is what holds.
* Coroutine.  The main coroutine is a local variable of the function that `t_once` runs
  (`coroutine.cpp:51`); the model lets it live.

## Proofs

Every safety invariant of the passing runs, the action property
`KeptOneRound` and the three refinements are theorems, for every value of the
constants that the assumptions allow.  Each proof module states its inductive
invariant as named parts, has a lemma for each action (or for a group of actions
that leave the same variables alone) and combines them for `Next`.  The theorems
about `Map` are about `SoundSpec`, all others about `Spec`.

| theorems | module | the inductive invariant, and why it is needed |
|---|---|---|
| `ChannelTypeOK`, `ChannelIndInv`, `ChannelSubscriberCount`, `ChannelCloseDrains`, `ChannelRingConsistent`, `ChannelNoLostWakeup`, `ChannelImplementsFifo` | `ChannelProofs` | see below |
| `PoolTypeOK`, `PoolConservation`, `PoolImplementsTaskPool` | `WorkerPoolProofs` | `Types`, `Places`, `Locked`, `Closing`, `Once`, `Scripts`, `Submits` |
| `MapDirtyComplete`, `MapImplementsAtomicMap` | `MapProofs` | `Types`, `History`, `Owners`, `Tables`, `Stages` |
| `InstancePoolOneOwner`, `InstancePoolExpires`, `InstancePoolDestructorLast`, `InstancePoolKeptOneRound` | `InstancePoolProofs` | `Types`, `Calls`, `Phase`, `Closing`, `Owners` |
| `ServerIndInv`, `ServerFrameAlive`, `ServerEventsFindTheirConn`, `ServerOneTaskPerConn` | `ServerProofs` | `Types`, `Names`, `Armed`, `Holding`, `Serves`, `Pending`, `Waited` |
| `ConnPoolIndInv`, `ConnPoolOneUser`, `ConnPoolCountExact`, `ConnPoolWithinMaxSize`, `ConnPoolDestroyedLast` | `ConnPoolProofs` | `Types`, `Ownership`, `Counts`, `Bound`, `Closing` |
| `BricksInOrder`, `BricksSplitsInTime`, `BricksFileOfItsDay`, `BricksUseCountExact`, `BricksRunsOnce`, `BricksResumesWhereLeft` | `BricksProofs` | `LogFull`, `PtrInv`, `OnceInv`, `CoInv` |

`SeqLemmas` has what these proofs need of sequences without repetitions (their
elements after a read, a write, a reversal; their number), of `\o` and of
prefixes, each once.

**Channel.**  `CloseDrains` is not inductive by itself: that nobody waits when
`close` is done rests on `m_subscribers` being exact (`SubscriberCount`), on
nobody going to wait on a closed channel (`NoWaitAfterClose`), and on only the
closing call reporting success (`ResultsInOrder`).  `SubscriberCount` rests on
`LockHolder`, the mutual exclusion.  `ChannelNoLostWakeup` is for single-element
calls (`SingleElements`): while a reader is blocked, each element in the ring has a
woken reader on its way, and the same for writers and free slots.  The hypothesis
is needed: with batches, run `channel_join_batches` violates what follows from it.
The heart of `ChannelImplementsFifo` is that the copy loops append to and take
from the sequence of unread data (`PushAppends`, `PopTakesFront`), which rests on
`RingConsistent` and on arithmetic modulo the capacity (`AdvanceAdd`,
`DistanceOfUnread`, `DistanceOfFree`).  `Advance(cur, n)` is the closed form of `n`
calls of `roundTrip`; `AdvanceIsIteratedRoundTrip` proves the step of that iteration.

**WorkerPool.**  The pool is taken as boxes (`Held`): a task queue, the loot of a
thief, the current coroutine and `t_schedq` of each worker.  `Once` says that an
accepted task is in exactly one box, once, as long as the pool is open.  That
a submit does not bring a second copy of a task needs what is still to be
submitted to be new: `Scripts` for the rest of every script, `Submits` for the calls
on their way.  `Locked` is the mutual exclusion of those who write to a queue.  Every
action is one of a few box steps (nothing
moves; tasks move; one finishes; a closed pool drops some; a new one comes),
which is what `PoolConservation` and `PoolImplementsTaskPool` follow from: a task
leaves "queued" for "started" alone and never goes back.

**Map.**  `Tables` says that the two maps are in one of two states: `Complete`
(nothing in `m_dirty`, no expunged entry in the read-only map) or `Partial` (an
entry of the read-only map is expunged or in `m_dirty`, never both, or `dirtyLocked`
has yet to visit it); a promotion goes from one to the other, in two writes that an
unlocked look may fall between.  `Owners` keeps the entries of different keys apart,
those that only a suspended call still refers to included.  `Stages` says what each call has
found out and that it stays useful whatever the other calls do: an entry that a call has
found without the lock is that of the read-only map, or it is expunged for good and the
call has seen its key absent (`Useful`, on the history that `History` ties to the map).
The two steps that `SoundSpec` leaves out are where this ends: one writes to the
marker, the other takes an expunged entry that has left the map for one that is in it.
In `MapImplementsAtomicMap` a store and an evict take effect with their exchange, and
a load, a range and an evict that finds nothing with the answer that they have
seen; every other step, the promotion of the dirty map too, leaves `Content` alone.
`FreshEntry` shows that `Entries` has a free one whenever a store needs one, so that
this bound cuts nothing off.

**InstancePool.**  `Phase` gives the exact ages of both vectors, element by
element, at each step of the evict thread; `Owners` is `OneOwner` for all
pairs of level pools and clients.  `KeptOneRound` goes through the steps that may drop
a reference to a level pool: one that is still in a vector keeps its content
(`PooledStays`), a call moves an instance from the client to a level pool or back
(`CallKeeps`), and the evict thread replaces only elements that are two rounds old
(`EvictKeeps`).

**Server.**  A connection is in one place: armed (`Armed`), an event (`Pending`), a
task in the queue (`Waited`), or with the thread that serves it (`Serves`); in each
of them `m_conns` has it under its descriptor.  `Holding` says that a `shared_ptr`
keeps the descriptor open, `Names` that a descriptor names one connection.  A task
that has armed the connection again holds no more than its reference, which is
why `OneTaskPerConn` may leave "drop" out.

**ConnPool.**  `Counts` is `CountExact` for the pool and the clients apart,
`Ownership` is `OneUser` for each place in `m_pool`.  `Bound` is proved with
`m_minSize` as it is: beside the connections of `init` there are `m_maxSize - m_minSize`,
so that the limit is passed by what the uninitialised member falls short of what was
meant.  `DestroyedLast` is what the two counters mean when both are zero: with
`m_minSize` as it was meant, that no connection is outside or was returned late; with
less, that some are or were.

**The bricks.**  `LogOrder` follows a line from `m_buffer` through the writer's hand
into the files, `LogSplit` ties `m_cnt` to the lines of the current file.  `PtrInv`
counts, for each object, the instances and the calls between two steps that
must be in its counter, and knows of one deleter at most.  `OnceInv` goes through the
phases of the caller that has the lock.  `CoInv` has the saved context of every
coroutine that is suspended.  The composition takes one component's
step at a time (`BricksSteps`).

Assumptions on constants, all evaluated by TLC in the runs:

* sizes and capacities are positive, threads, clients, keys, instances and the like
  are finite sets, model values that mark an absence are none of the values they are
  told from (`ChannelAssumption`, `PoolAssumption`, `MapAssumption`, `ServerAssumption`,
  `ConnPoolAssumption`, `InstancePoolAssumption`, `BricksAssumption`);
* `PoolAssumption`: a task occurs once in all scripts, as a task stands for one
  call of `submit` (the same function submitted twice is two tasks);
* `Garbage` may be any set of integers: nothing is assumed about `m_minSize`.

`InOrder`, `SplitsInTime` and the like speak of positions in `written` rather than
of selected subsequences, since induction over sequences is out of the prover's
reach.

Model-checked only: liveness (`CloseReleases`, `AcceptedStarts`, `SubmitReturns`, both
`DestructorReturns`, `ClosedReleases`, `Answered`, `Closed`, `Accepted`, `SignalEnds`),
which needs `ENABLED` and fairness.

## Not modelled, and the plan

Not modelled for good: `sync::Queue` (a sequential `pop` of the only element already
dereferences a null pointer, `queue.h:106`: `m_tail->prev->prev` after the element has
gone, so that its interleavings have no meaning before that is repaired), `Thread`
(its handshake ends before the constructor returns), options of sockets, time and
system utilities, stack traces, the radix declarations, the HTTP stubs, the MySQL
client, `size`/`empty`/`cap` of the channel and other calls that change nothing, and
the memory of objects: what is freed too early is stated as an order of events
(`FrameAlive`, `DestroyedLast`, `DestructorLast`, `UseCountExact`) or is a hazard
with a note in `PROJECT.json`.

What is left, in this order:

1. The safety half of the liveness properties, as invariants with a proof: who
   holds a lock while he waits, and that a waiter has somebody to wake him
   (`InstancePool`'s semaphore, the destructor of `WorkerPool` when no task submits,
   the frame that waits in `Server`).
2. `NoLostWakeup` for batches of one size, where one signal per batch may still be
   enough.
3. `Map` with a `store` that is repaired in its two steps, and the theorems for it.
4. `sync::Queue`, once its `pop` is repaired.
