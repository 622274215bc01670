------------------------------- MODULE Server -------------------------------
(***************************************************************************)
(* server::Server (src/server/server.cpp): one thread waits at an epoll    *)
(* instance and hands every ready descriptor to a task of m_workerPool,    *)
(* which looks its connection up in m_conns by number.  Clients connect,   *)
(* send one request and hang up when they like; a connection gets one      *)
(* answer and is closed.                                                   *)
(*                                                                         *)
(* A section under m_lock, a call of ConnFd and a system call are one step *)
(* each.  m_workerPool is TaskPool's: an accepted task starts some time.   *)
(* A connection is closed with its last shared_ptr: its entry in m_conns   *)
(* or a task; only then does its descriptor name something else.  A recv   *)
(* that fails aborts the process, with all of its threads.  init() and     *)
(* prepare() have run.                                                     *)
(***************************************************************************)
EXTENDS Naturals, FiniteSets

CONSTANTS
    Conns,              \* one connection of one client each
    Fds,                \* the descriptors the process may still open
    Threads,            \* the threads of m_workerPool
    LoopTakesSignals,   \* SIGINT and SIGTERM interrupt the event loop's thread
    None

ASSUME ServerAssumption ==
    /\ Fds \subseteq Nat \ {0} /\ IsFiniteSet(Fds)
    /\ LoopTakesSignals \in BOOLEAN
    /\ None \notin Conns

VARIABLES
    \* the kernel
    peer,       \* peer[c]: "away", "open", "hup" or "reset"
    unread,     \* unread[c]: the request has come and was not received
    got,        \* got[c]: the answers that the client has received
    backlog,    \* connections to accept
    file,       \* file[f]: the connection that descriptor f names, or None
    reg,        \* reg[f]: "none", "read", "write" or, once reported, "off"
    listening,  \* the same of m_socket: "read" or "off"
    signals,    \* bytes in s_pipe
    pipeEdge,   \* they were not reported yet
    \* the server
    m_conns,    \* m_conns[f]: a connection or None
    m_readBuf, m_writeBuf,
    loop,       \* "wait", "process", "sem", "left", "cleared", "gone" or
                \* "aborted"
    events,     \* those left of the last epoll_wait
    eintr,      \* errno of the loop's thread is EINTR
    queue,      \* tasks submitted
    task        \* task[t]: what thread t executes, or None

kernel == <<peer, unread, got, backlog, file, reg, listening, signals, pipeEdge>>
server == <<m_conns, m_readBuf, m_writeBuf, loop, events, eintr, queue, task>>
vars == <<kernel, server>>

Init ==
    /\ peer = [c \in Conns |-> "away"]
    /\ unread = [c \in Conns |-> FALSE]
    /\ got = [c \in Conns |-> {}]
    /\ backlog = {}
    /\ file = [f \in Fds |-> None]
    /\ reg = [f \in Fds |-> "none"]
    /\ listening = "read"
    /\ signals = 0
    /\ pipeEdge = FALSE
    /\ m_conns = [f \in Fds |-> None]
    /\ m_readBuf = [c \in Conns |-> ""]
    /\ m_writeBuf = [c \in Conns |-> ""]
    /\ loop = "wait"
    /\ events = {}
    /\ eintr = FALSE
    /\ queue = {}
    /\ task = [t \in Threads |-> None]

-----------------------------------------------------------------------------
(* The clients and the kernel.                                             *)

Connect(c) ==
    /\ peer[c] = "away"
    /\ peer' = [peer EXCEPT ![c] = "open"]
    /\ backlog' = backlog \cup {c}
    /\ UNCHANGED <<unread, got, file, reg, listening, signals, pipeEdge, server>>

Send(c) ==
    /\ peer[c] = "open" /\ ~unread[c] /\ m_readBuf[c] = "" /\ got[c] = {}
    /\ unread' = [unread EXCEPT ![c] = TRUE]
    /\ UNCHANGED <<peer, got, backlog, file, reg, listening, signals, pipeEdge, server>>

HangUp(c) ==
    /\ peer[c] = "open"
    /\ peer' = [peer EXCEPT ![c] = "hup"]
    /\ UNCHANGED <<unread, got, backlog, file, reg, listening, signals, pipeEdge, server>>

(* The client resets the connection: recv reports it, once what had come   *)
(* before has been read.  After the last readFd that does what HangUp does.*)
Reset(c) ==
    /\ peer[c] \in {"open", "hup"} /\ m_writeBuf[c] = ""
    /\ peer' = [peer EXCEPT ![c] = "reset"]
    /\ UNCHANGED <<unread, got, backlog, file, reg, listening, signals, pipeEdge, server>>

HungUp(c) == peer[c] \in {"hup", "reset"}

\* Mutant of OneShot: the registration stays armed.
LevelTriggered(r) == r

(* EPOLLONESHOT: what has been reported is not reported again, not even a  *)
(* hang-up, until EpollFd::modify arms the descriptor anew.                *)
OneShot(r) == "off"

(* EpollFd::modify and EpollFd::add report at once what is already true,   *)
(* and EPOLLRDHUP, EPOLLHUP and EPOLLERR come with either.                 *)
Ready(f) == reg[f] \in {"read", "write"} /\ (reg[f] = "write" \/ unread[file[f]]
                                             \/ HungUp(file[f]))

Event(k, f, c) == [kind |-> k, fd |-> f, about |-> c]

ReadyEvents ==
    {Event(IF HungUp(file[f]) THEN "hup" ELSE reg[f], f, file[f]) :
        f \in {g \in Fds : Ready(g)}}
    \cup (IF listening = "read" /\ backlog # {} THEN {Event("accept", 0, None)} ELSE {})
    \cup (IF pipeEdge THEN {Event("signal", 0, None)} ELSE {})

(* SIGINT or SIGTERM: its handler writes one byte to s_pipe.  An epoll_wait *)
(* that sleeps in the thread of the handler fails with EINTR; nothing else *)
(* that this thread does sets errno again.                                 *)
Signal ==
    /\ signals = 0 /\ loop \in {"wait", "process", "sem"}
    /\ signals' = 1
    /\ pipeEdge' = TRUE
    /\ \/ eintr' = eintr
       \/ LoopTakesSignals /\ loop = "wait" /\ ReadyEvents = {} /\ eintr' = TRUE
    /\ UNCHANGED <<peer, unread, got, backlog, file, reg, listening, m_conns,
                   m_readBuf, m_writeBuf, loop, events, queue, task>>

-----------------------------------------------------------------------------
(* The connections and their shared_ptr.                                   *)

Held(ts) == {ts[t].conn : t \in {u \in Threads : ts[u] # None}}

(* The deleter: EpollFd::remove and close, in the step that gives m_conns  *)
(* and task their next values.                                             *)
CloseUnreferenced ==
    LET Live(f) == \/ \E g \in Fds : m_conns'[g] = file[f]
                   \/ file[f] \in Held(task')
    IN  /\ file' = [f \in Fds |-> IF Live(f) THEN file[f] ELSE None]
        /\ reg' = [f \in Fds |-> IF Live(f) THEN reg[f] ELSE "none"]

Goto(t, l) == task' = [task EXCEPT ![t].pc = l]

\* Mutant of Erased: the entry stays.
NotErased(m, f) == m

(* m_conns.erase(_fd)                                                      *)
Erased(m, f) == [m EXCEPT ![f] = None]

-----------------------------------------------------------------------------
(* The event loop: serving() and process().                                *)

EpollWait ==
    /\ loop = "wait" /\ ReadyEvents # {}
    /\ LET reported == {e.fd : e \in ReadyEvents}
       IN  reg' = [f \in Fds |-> IF f \in reported THEN OneShot(reg[f]) ELSE reg[f]]
    /\ listening' = IF backlog # {} THEN "off" ELSE listening
    /\ pipeEdge' = FALSE
    \* EpollFd::wait takes an old EINTR for its own and returns nothing.
    /\ IF eintr THEN UNCHANGED <<events, loop>>
                ELSE events' = ReadyEvents /\ loop' = "process"
    /\ UNCHANGED <<peer, unread, got, backlog, file, signals, m_conns, m_readBuf,
                   m_writeBuf, eintr, queue, task>>

\* Mutant of Captured: one signal too few is looked at.
CapturedButLast(n) == n > 1

(* processSignal: an exit signal is among the bytes received.              *)
Captured(n) == n > 0

(* Where the loop goes when es are the events still to dispatch.           *)
NextIn(es) == IF es = {} THEN "wait" ELSE "process"

ProcessSignal ==
    /\ loop = "process" /\ \E e \in events : e.kind = "signal"
    /\ events' = {e \in events : e.kind # "signal"}
    /\ loop' = IF Captured(signals) THEN "left" ELSE NextIn(events')
    /\ signals' = 0
    /\ UNCHANGED <<peer, unread, got, backlog, file, reg, listening, pipeEdge, m_conns,
                   m_readBuf, m_writeBuf, eintr, queue, task>>

ProcessHup ==
    /\ loop = "process"
    /\ \E e \in events :
          /\ e.kind = "hup"
          /\ m_conns' = Erased(m_conns, e.fd)
          /\ events' = events \ {e}
    /\ loop' = NextIn(events')
    /\ task' = task
    /\ CloseUnreferenced
    /\ UNCHANGED <<peer, unread, got, backlog, listening, signals, pipeEdge,
                   m_readBuf, m_writeBuf, eintr, queue>>

\* Mutant of Awaits: the event loop does not wait for a task to find its
\* connection.
AwaitsNothing(es) == NextIn(es)

(* sem.wait() in processRead and processWrite.                             *)
Awaits(es) == "sem"

(* spawnConn, processRead and processWrite submit.                         *)
Dispatch ==
    /\ loop = "process"
    /\ \E e \in events :
          /\ e.kind \in {"accept", "read", "write"}
          /\ queue' = queue \cup {e}
          /\ events' = events \ {e}
          /\ loop' = IF e.kind = "accept" THEN NextIn(events') ELSE Awaits(events')
    /\ UNCHANGED <<kernel, m_conns, m_readBuf, m_writeBuf, eintr, task>>

-----------------------------------------------------------------------------
(* The tasks.                                                              *)

Start(t) ==
    /\ task[t] = None /\ loop # "gone"
    /\ \E e \in queue :
          /\ queue' = queue \ {e}
          /\ task' = [task EXCEPT ![t] =
                        [kind |-> e.kind, fd |-> e.fd, about |-> e.about, conn |-> None,
                         pc |-> IF e.kind = "accept" THEN "accept" ELSE "get"]]
    /\ UNCHANGED <<kernel, m_conns, m_readBuf, m_writeBuf, loop, events, eintr>>

At(t, l) == task[t] # None /\ task[t].pc = l

Free == {f \in Fds : file[f] = None}

(* accept() takes the least free number; it fails with EAGAIN or, for want *)
(* of one, with EMFILE.                                                    *)
Accept(t) ==
    /\ At(t, "accept")
    /\ IF backlog = {} \/ Free = {}
       THEN Goto(t, "rearm") /\ UNCHANGED <<backlog, file>>
       ELSE \E c \in backlog : \E f \in Free :
              /\ \A g \in Free : f <= g
              /\ backlog' = backlog \ {c}
              /\ file' = [file EXCEPT ![f] = c]
              /\ task' = [task EXCEPT ![t].pc = "insert", ![t].fd = f, ![t].conn = c]
    /\ UNCHANGED <<peer, unread, got, reg, listening, signals, pipeEdge, m_conns,
                   m_readBuf, m_writeBuf, loop, events, eintr, queue>>

(* unordered_map::insert leaves a number alone that it finds.              *)
Insert(t) ==
    /\ At(t, "insert")
    /\ LET f == task[t].fd
           c == task[t].conn
       IN  /\ m_conns' = [m_conns EXCEPT ![f] = IF @ = None THEN c ELSE @]
           /\ task' = [task EXCEPT ![t].pc = "accept", ![t].conn = None]
           /\ IF m_conns[f] = None
              THEN reg' = [reg EXCEPT ![f] = "read"] /\ file' = file
              ELSE CloseUnreferenced
    /\ UNCHANGED <<peer, unread, got, backlog, listening, signals, pipeEdge,
                   m_readBuf, m_writeBuf, loop, events, eintr, queue>>

\* Mutant of Rearmed: the Defer of spawnConn is missing.
NotRearmed == listening

Rearmed == "read"

Rearm(t) ==
    /\ At(t, "rearm")
    /\ listening' = Rearmed
    /\ task' = [task EXCEPT ![t] = None]
    /\ UNCHANGED <<peer, unread, got, backlog, file, reg, signals, pipeEdge, m_conns,
                   m_readBuf, m_writeBuf, loop, events, eintr, queue>>

(* getConn, which asserts that it finds one, and sem.notify().             *)
Get(t) ==
    /\ At(t, "get") /\ m_conns[task[t].fd] # None
    /\ task' = [task EXCEPT ![t].pc = task[t].kind, ![t].conn = m_conns[task[t].fd]]
    /\ loop' = IF loop = "sem" THEN NextIn(events) ELSE loop
    /\ UNCHANGED <<kernel, m_conns, m_readBuf, m_writeBuf, events, eintr, queue>>

(* readFd receives all there is.                                           *)
ReadFd(t) ==
    /\ At(t, "read") /\ peer[task[t].conn] # "reset"
    /\ LET c == task[t].conn
       IN  /\ m_readBuf' = [m_readBuf EXCEPT ![c] = IF unread[c] THEN "request" ELSE @]
           /\ unread' = [unread EXCEPT ![c] = FALSE]
    /\ Goto(t, "reply")
    /\ UNCHANGED <<peer, got, backlog, file, reg, listening, signals, pipeEdge, m_conns,
                   m_writeBuf, loop, events, eintr, queue>>

(* readFd asserts that recv does not fail otherwise than for want of data: *)
(* the process ends, and the kernel closes what it had open.               *)
RecvFails(t) ==
    /\ At(t, "read") /\ peer[task[t].conn] = "reset"
    /\ loop' = "aborted"
    /\ m_conns' = [f \in Fds |-> None]
    /\ task' = [u \in Threads |-> None]
    /\ queue' = {} /\ events' = {}
    /\ CloseUnreferenced
    /\ UNCHANGED <<peer, unread, got, backlog, listening, signals, pipeEdge, m_readBuf,
                   m_writeBuf, eintr>>

(* The answer to what m_readBuf holds.                                     *)
m_cb(data) == IF data = "request" THEN "answer" ELSE "answer to nothing"

Reply(t) ==
    /\ At(t, "reply")
    /\ LET c == task[t].conn
       IN  m_writeBuf' = [m_writeBuf EXCEPT ![c] = m_cb(m_readBuf[c])]
    /\ Goto(t, "modify")
    /\ UNCHANGED <<kernel, m_conns, m_readBuf, loop, events, eintr, queue>>

\* Mutant of NextEvent: the connection waits for another request.
NextEventRead == "read"

(* What processRead arms the connection for.                               *)
NextEvent == "write"

Modify(t) ==
    /\ At(t, "modify")
    /\ \E f \in Fds :
          /\ file[f] = task[t].conn
          /\ reg' = [reg EXCEPT ![f] = NextEvent]
    /\ Goto(t, "drop")
    /\ UNCHANGED <<peer, unread, got, backlog, file, listening, signals, pipeEdge, m_conns,
                   m_readBuf, m_writeBuf, loop, events, eintr, queue>>

(* writeFd; a client that has hung up gets nothing.                        *)
WriteFd(t) ==
    /\ At(t, "write")
    /\ LET c == task[t].conn
       IN  got' = [got EXCEPT ![c] = IF peer[c] = "open" THEN @ \cup {m_writeBuf[c]} ELSE @]
    /\ Goto(t, "free")
    /\ UNCHANGED <<peer, unread, backlog, file, reg, listening, signals, pipeEdge, m_conns,
                   m_readBuf, m_writeBuf, loop, events, eintr, queue>>

FreeConn(t) ==
    /\ At(t, "free")
    /\ \E f \in Fds :
          /\ file[f] = task[t].conn
          /\ m_conns' = Erased(m_conns, f)
    /\ Goto(t, "drop")
    /\ CloseUnreferenced
    /\ UNCHANGED <<peer, unread, got, backlog, listening, signals, pipeEdge, m_readBuf,
                   m_writeBuf, loop, events, eintr, queue>>

Drop(t) ==
    /\ At(t, "drop")
    /\ task' = [task EXCEPT ![t] = None]
    /\ m_conns' = m_conns
    /\ CloseUnreferenced
    /\ UNCHANGED <<peer, unread, got, backlog, listening, signals, pipeEdge, m_readBuf,
                   m_writeBuf, loop, events, eintr, queue>>

-----------------------------------------------------------------------------
(* ~Server: m_conns.clear(), and then the members.  m_conns comes before   *)
(* m_workerPool in that order; its destruction is a step of a server       *)
(* without tasks here.                                                     *)

Clear ==
    /\ loop = "left"
    /\ loop' = "cleared"
    /\ m_conns' = [f \in Fds |-> None]
    /\ task' = task
    /\ CloseUnreferenced
    /\ UNCHANGED <<peer, unread, got, backlog, listening, signals, pipeEdge, m_readBuf,
                   m_writeBuf, events, eintr, queue>>

Destroy ==
    /\ loop = "cleared" /\ \A t \in Threads : task[t] = None
    /\ loop' = "gone"
    /\ queue' = {}
    /\ m_conns' = [f \in Fds |-> None]
    /\ task' = task
    /\ CloseUnreferenced
    /\ UNCHANGED <<peer, unread, got, backlog, listening, signals, pipeEdge, m_readBuf,
                   m_writeBuf, events, eintr>>

-----------------------------------------------------------------------------
(* What becomes of the clients of an aborted process is of no interest.    *)
Client ==
    /\ loop # "aborted"
    /\ \E c \in Conns : Connect(c) \/ Send(c) \/ HangUp(c) \/ Reset(c)

Loop == EpollWait \/ ProcessSignal \/ ProcessHup \/ Dispatch \/ Clear \/ Destroy

Thread(t) ==
    \/ Start(t) \/ Accept(t) \/ Insert(t) \/ Rearm(t)
    \/ Get(t) \/ ReadFd(t) \/ RecvFails(t) \/ Reply(t) \/ Modify(t)
    \/ WriteFd(t) \/ FreeConn(t) \/ Drop(t)

Next == Client \/ Signal \/ Loop \/ \E t \in Threads : Thread(t)

(* The threads of the server run; clients and signals need not come.       *)
Fairness == WF_vars(Loop) /\ \A t \in Threads : WF_vars(Thread(t))

Spec == Init /\ [][Next]_vars /\ Fairness

-----------------------------------------------------------------------------
(* A task of processRead or processWrite refers to the variables _fd and   *)
(* sem of that call: the call has not returned until the task has used     *)
(* them for the last time.                                                 *)
FrameAlive ==
    (\E e \in queue : e.kind # "accept") \/ (\E t \in Threads : At(t, "get"))
        => loop = "sem"

(* An event reaches the connection it was reported for: until its task has *)
(* looked it up, m_conns has that connection under that number, neither    *)
(* removed (the assertion of getConn) nor replaced by a later connection   *)
(* that was given the same number.                                         *)
EventsFindTheirConn ==
    /\ loop \in {"process", "sem"} =>
          \A e \in events \cup queue :
              e.kind \in {"read", "write", "hup"} => m_conns[e.fd] = e.about
    /\ \A t \in Threads : At(t, "get") => m_conns[task[t].fd] = task[t].about

Uses(t, c) == task[t] # None /\ task[t].conn = c /\ task[t].pc # "drop"

(* The buffers and the registration of a connection are in the hands of    *)
(* one task at a time: only a task that is about to end may still refer to *)
(* it beside the next one.                                                 *)
OneTaskPerConn ==
    \A c \in Conns : \A s, t \in Threads : Uses(s, c) /\ Uses(t, c) => s = t

(* The server was told to stop, or a failed recv has ended the process.    *)
Ended == loop \in {"left", "cleared", "gone", "aborted"}

(* A request is answered, unless its client hangs up, the server is told   *)
(* to stop or the connection of some client is reset at the wrong time.    *)
Answered ==
    \A c \in Conns :
        (\E f \in Fds : file[f] = c /\ unread[c]) ~> (got[c] # {} \/ HungUp(c) \/ Ended)

(* A connection that was answered or that has hung up is closed.           *)
Closed ==
    \A c \in Conns :
        (\E f \in Fds : file[f] = c /\ (got[c] # {} \/ HungUp(c)))
            ~> (\A f \in Fds : file[f] # c)

(* A client is accepted, as long as the process has a descriptor for it.   *)
Accepted ==
    \A c \in Conns : (c \in backlog) ~> (c \notin backlog \/ Free = {} \/ Ended)

(* SIGINT and SIGTERM make the server leave its loop.                      *)
SignalEnds == (signals > 0) ~> Ended
=============================================================================
