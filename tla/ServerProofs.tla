---------------------------- MODULE ServerProofs ----------------------------
(***************************************************************************)
(* Proofs about Server.  A connection is in one place at a time: armed in  *)
(* the epoll instance, an event still to dispatch, a task in the queue, or *)
(* the thread that serves it; only a task that is about to end ("drop")    *)
(* may still hold it besides.  Wherever it is, it keeps its descriptor,    *)
(* and m_conns keeps it there until its task removes it.                   *)
(***************************************************************************)
EXTENDS Server, TLAPS

ConnKinds == {"read", "write", "hup"}

EventSet == [kind : ConnKinds \cup {"accept", "signal"},
             fd : Fds \cup {0}, about : Conns \cup {None}]

TaskSet == [kind : {"accept", "read", "write"},
            fd : Fds \cup {0}, about : Conns \cup {None}, conn : Conns \cup {None},
            pc : {"accept", "insert", "rearm", "get", "read", "reply", "modify", "write",
                  "free", "drop"}]

Types ==
    /\ peer \in [Conns -> {"away", "open", "hup", "reset"}]
    /\ backlog \in SUBSET Conns
    /\ file \in [Fds -> Conns \cup {None}]
    /\ reg \in [Fds -> {"none", "read", "write", "off"}]
    /\ m_conns \in [Fds -> Conns \cup {None}]
    /\ loop \in {"wait", "process", "sem", "left", "cleared", "gone", "aborted"}
    /\ events \in SUBSET EventSet
    /\ queue \in SUBSET {e \in EventSet : e.kind \in {"accept", "read", "write"}}
    /\ task \in [Threads -> TaskSet \cup {None}]

(* A number names one connection, which was accepted once, and m_conns     *)
(* has no other under that number.                                         *)
Names ==
    /\ \A f, g \in Fds : file[f] # None /\ file[f] = file[g] => f = g
    /\ \A f \in Fds : file[f] # None => peer[file[f]] # "away" /\ file[f] \notin backlog
    /\ \A c \in backlog : peer[c] # "away"
    /\ \A f \in Fds : m_conns[f] \in {None, file[f]}
    /\ \A f \in Fds : file[f] = None => reg[f] = "none"

(* m_conns is still to be cleared.                                         *)
Serving == loop \notin {"cleared", "gone", "aborted"}

Known(f) == file[f] # None /\ m_conns[f] = file[f]

Armed == \A f \in Fds : reg[f] \in {"read", "write"} /\ Serving => Known(f)

(* Thread t serves the connection with number task[t].fd.                  *)
Busy(t) ==
    task[t] # None /\ task[t].pc \in {"insert", "get", "read", "reply", "modify", "write", "free"}

(* A shared_ptr keeps its connection open.                                 *)
Holding ==
    \A t \in Threads : task[t] # None =>
        /\ task[t].conn # None => task[t].fd \in Fds /\ file[task[t].fd] = task[t].conn
        /\ task[t].pc \in {"accept", "rearm", "get"} => task[t].conn = None

Serves ==
    /\ \A t \in Threads : Busy(t) =>
          LET x == task[t]
          IN  /\ x.fd \in Fds /\ file[x.fd] # None
              /\ x.pc = "insert" => reg[x.fd] = "none" /\ m_conns[x.fd] = None
              /\ x.pc # "insert" => reg[x.fd] = "off" /\ (Serving => Known(x.fd))
              /\ x.pc # "get" => x.conn # None
              /\ x.pc = "get" => x.kind \in {"read", "write"} /\ x.about = file[x.fd]
    /\ \A s, t \in Threads : Busy(s) /\ Busy(t) /\ task[s].fd = task[t].fd => s = t

(* What was reported and is not with a thread yet.                         *)
Reported(e) ==
    /\ e.fd \in Fds /\ Known(e.fd) /\ e.about = file[e.fd]
    /\ reg[e.fd] = "off"
    /\ \A t \in Threads : Busy(t) => task[t].fd # e.fd

Pending ==
    loop \in {"process", "sem"} =>
        /\ \A e \in events : e.kind \in ConnKinds => Reported(e)
        /\ \A d, e \in events :
              d.kind \in ConnKinds /\ e.kind \in ConnKinds /\ d.fd = e.fd => d = e
        /\ \A e \in events, d \in queue :
              d.kind \in ConnKinds /\ e.kind \in ConnKinds => d.fd # e.fd

(* processRead and processWrite have submitted one task, and wait for it.  *)
Waited ==
    /\ \A e \in queue : e.kind \in ConnKinds =>
          /\ loop = "sem" /\ Reported(e)
          /\ \A d \in queue : d.kind \in ConnKinds => d = e
          /\ \A t \in Threads : ~At(t, "get")
    /\ \A t \in Threads : At(t, "get") =>
          /\ loop = "sem"
          /\ \A s \in Threads : At(s, "get") => s = t

IndInv == Types /\ Names /\ Armed /\ Holding /\ Serves /\ Pending /\ Waited

LEMMA InitInv == Init => IndInv
<1> SUFFICES ASSUME Init PROVE IndInv
  OBVIOUS
<1>1. Types
  BY DEF Init, Types
<1>2. Names /\ Armed /\ Holding /\ Serves /\ Pending /\ Waited
  BY DEF Init, Names, Armed, Holding, Serves, Pending, Waited, Busy, At
<1> QED
  BY <1>1, <1>2 DEF IndInv

-----------------------------------------------------------------------------
(* The steps of the clients.                                               *)

LEMMA AroundInv ==
    IndInv /\ (UNCHANGED vars \/ Client \/ Signal) => IndInv'
<1> SUFFICES ASSUME IndInv, UNCHANGED vars \/ Client \/ Signal PROVE IndInv'
  OBVIOUS
<1> USE DEF vars, kernel, server, Client, Connect, Send, HangUp, Reset, Signal
<1>1. UNCHANGED <<file, reg, m_conns, loop, events, queue, task>>
  OBVIOUS
<1>2. Types'
  BY <1>1 DEF IndInv, Types
<1>3. Names'
  <2>1. \A c \in Conns : peer[c] # "away" => peer'[c] # "away"
    BY DEF IndInv, Types
  <2>2. \A c \in backlog : c \in Conns /\ peer[c] # "away" /\ \A f \in Fds : file[f] # c
    <3>1. \A c \in backlog : c \in Conns /\ peer[c] # "away"
      BY DEF IndInv, Types, Names
    <3>2. ASSUME NEW c \in backlog, NEW f \in Fds, file[f] = c PROVE FALSE
      BY <3>1, <3>2, ServerAssumption DEF IndInv, Names
    <3> QED
      BY <3>1, <3>2
  <2>3. \A c \in Conns : peer[c] = "away" => \A f \in Fds : file[f] # c
    <3>1. ASSUME NEW c \in Conns, NEW f \in Fds, peer[c] = "away", file[f] = c PROVE FALSE
      BY <3>1, ServerAssumption DEF IndInv, Names
    <3> QED
      BY <3>1
  <2>4. \A c \in backlog' : peer'[c] # "away" /\ \A f \in Fds : file[f] # c
    <3>1. ASSUME NEW c \in Conns, Connect(c) PROVE
                \A d \in backlog' : peer'[d] # "away" /\ \A f \in Fds : file[f] # d
      BY <3>1, <2>2, <2>3 DEF IndInv, Types
    <3>2. CASE backlog' = backlog
      BY <3>2, <2>1, <2>2
    <3> QED
      BY <3>1, <3>2
  <2>5. ASSUME NEW f \in Fds, file[f] # None PROVE peer'[file[f]] # "away"
    <3>1. file[f] \in Conns
      BY <2>5 DEF IndInv, Types
    <3>2. peer[file[f]] # "away"
      BY <2>5 DEF IndInv, Names
    <3> QED
      BY <2>1, <3>1, <3>2
  <2> QED
    BY <1>1, <2>4, <2>5 DEF IndInv, Names
<1>4. Armed' /\ Holding'
  BY <1>1 DEF IndInv, Armed, Holding, Serving, Known
<1>5. Serves'
  BY <1>1 DEF IndInv, Serves, Serving, Known, Busy
<1>6. Pending' /\ Waited'
  <2>1. \A t \in Threads : (Busy(t)' <=> Busy(t)) /\ (At(t, "get")' <=> At(t, "get"))
    BY <1>1 DEF Busy, At
  <2>2. \A d : Reported(d)' <=> Reported(d)
    BY <1>1, <2>1 DEF Reported, Known
  <2>3. Pending'
    BY <1>1, <2>2 DEF IndInv, Pending
  <2> QED
    BY <1>1, <2>1, <2>2, <2>3 DEF IndInv, Waited
<1> QED
  BY <1>2, <1>3, <1>4, <1>5, <1>6 DEF IndInv

-----------------------------------------------------------------------------
(* The steps of a thread that serves a connection.                         *)

(* A thread goes on with the connection it serves.                         *)
LEMMA GoOnInv ==
    ASSUME IndInv, NEW t \in Threads, NEW l \in {"reply", "modify", "free"},
           task[t] # None, task[t].pc \in {"read", "reply", "write"}, Goto(t, l),
           UNCHANGED <<peer, backlog, file, reg, m_conns, loop, events, queue>>
    PROVE  IndInv'
<1>1. /\ task'[t] # None => task'[t] = [task[t] EXCEPT !.pc = l]
      /\ \A s \in Threads : s # t => task'[s] = task[s]
      /\ task[t] \in TaskSet
  BY DEF Goto, IndInv, Types
<1>2. \A s \in Threads : Busy(s)' => Busy(s) /\ task'[s].fd = task[s].fd
  BY <1>1 DEF Busy, TaskSet
<1>3. \A s \in Threads : At(s, "get")' => At(s, "get")
  BY <1>1 DEF At, TaskSet
<1>4. Types'
  BY DEF Goto, IndInv, Types, TaskSet
<1>5. Names' /\ Armed'
  BY DEF IndInv, Names, Armed, Serving, Known
<1>6. Holding'
  BY <1>1 DEF IndInv, Holding, TaskSet
<1>7. Serves'
  BY <1>1, <1>2 DEF IndInv, Serves, TaskSet, Serving, Known, Busy
<1>8. Pending' /\ Waited'
  BY <1>2, <1>3 DEF IndInv, Pending, Waited, Reported, Known
<1> QED
  BY <1>4, <1>5, <1>6, <1>7, <1>8 DEF IndInv

LEMMA ServeInv ==
    \A t \in Threads : IndInv /\ (ReadFd(t) \/ Reply(t) \/ WriteFd(t)) => IndInv'
  BY GoOnInv DEF ReadFd, Reply, WriteFd, At, kernel

(* Modify arms the connection, and its task has done with it.              *)
LEMMA ModifyInv == \A t \in Threads : IndInv /\ Modify(t) => IndInv'
<1> SUFFICES ASSUME NEW t \in Threads, IndInv, Modify(t) PROVE IndInv'
  OBVIOUS
<1> DEFINE f == task[t].fd
<1>1. /\ task[t] \in TaskSet /\ Busy(t) /\ task[t].pc = "modify"
      /\ f \in Fds /\ file[f] = task[t].conn /\ file[f] # None
      /\ Serving => Known(f)
      /\ reg[f] = "off"
      /\ UNCHANGED <<peer, backlog, file, m_conns, loop, events, queue>>
  BY DEF Modify, At, IndInv, Types, Holding, Serves, Busy
<1>2. reg' = [reg EXCEPT ![f] = "write"]
  <2>1. PICK g \in Fds : file[g] = task[t].conn /\ reg' = [reg EXCEPT ![g] = "write"]
    BY DEF Modify, NextEvent
  <2>2. g = f
    BY <1>1, <2>1 DEF IndInv, Names
  <2> QED
    BY <2>1, <2>2
<1>3. /\ task'[t] # None => task'[t] = [task[t] EXCEPT !.pc = "drop"]
      /\ \A s \in Threads : s # t => task'[s] = task[s]
  BY <1>1 DEF Modify, Goto, IndInv, Types
<1>4. \A s \in Threads :
          Busy(s)' => s # t /\ Busy(s) /\ task'[s] = task[s] /\ task[s].fd # f
  BY <1>1, <1>3 DEF Busy, TaskSet, IndInv, Serves
<1>5. \A s \in Threads : At(s, "get")' => At(s, "get")
  BY <1>1, <1>3 DEF At, TaskSet
<1>6. Types'
  BY <1>1, <1>2 DEF Modify, Goto, IndInv, Types, TaskSet
<1>7. Names' /\ Armed'
  BY <1>1, <1>2 DEF IndInv, Types, Names, Armed, Serving, Known
<1>8. Holding'
  BY <1>1, <1>3 DEF IndInv, Holding, TaskSet
<1>9. Serves'
  BY <1>1, <1>2, <1>4 DEF IndInv, Types, Serves, Serving, Known
<1>10. \A e : Reported(e) => Reported(e)'
  BY <1>1, <1>2, <1>4 DEF Reported, Known, IndInv, Types
<1>11. Pending' /\ Waited'
  BY <1>1, <1>5, <1>10 DEF IndInv, Pending, Waited
<1> QED
  BY <1>6, <1>7, <1>8, <1>9, <1>11 DEF IndInv

-----------------------------------------------------------------------------
(* The steps that drop a shared_ptr.                                       *)

(* A descriptor is closed only if no entry and no task refers to what it   *)
(* names.                                                                  *)
LEMMA Closing ==
    ASSUME CloseUnreferenced, NEW f \in Fds
    PROVE  \/ file'[f] = file[f] /\ reg'[f] = reg[f]
           \/ /\ file'[f] = None /\ reg'[f] = "none"
              /\ m_conns'[f] # file[f]
              /\ \A t \in Threads : task'[t] # None => task'[t].conn # file[f]
  BY DEF CloseUnreferenced, Held

(* Entries of m_conns are removed, threads stop serving, and what nobody   *)
(* refers to any more is closed.                                           *)
LEMMA ErasingInv ==
    ASSUME IndInv, CloseUnreferenced, UNCHANGED <<peer, backlog>>, Types',
           Serving' => Serving,
           \A f \in Fds : m_conns'[f] \in {None, m_conns[f]},
           \A t \in Threads : task'[t] # None =>
               /\ task[t] # None
               /\ task'[t].fd = task[t].fd /\ task'[t].conn = task[t].conn
               /\ task'[t].about = task[t].about /\ task'[t].kind = task[t].kind
               /\ \/ task'[t].pc = task[t].pc
                  \/ task'[t].pc = "drop",
           \A t \in Threads : Busy(t)' =>
               \/ m_conns'[task[t].fd] = m_conns[task[t].fd]
               \/ ~Serving' /\ task[t].pc # "get",
           \A f \in Fds : reg[f] \in {"read", "write"} /\ Serving' => m_conns'[f] = m_conns[f]
    PROVE  /\ Names' /\ Armed' /\ Holding' /\ Serves'
           /\ \A t \in Threads : Busy(t)' => Busy(t) /\ task'[t].fd = task[t].fd
           /\ \A f \in Fds : m_conns'[f] # None => file'[f] = file[f] /\ reg'[f] = reg[f]
<1>1. \A t \in Threads : Busy(t)' => Busy(t) /\ task'[t].pc = task[t].pc
  BY DEF Busy
<1>2. \A f \in Fds : m_conns'[f] # None => file'[f] = file[f] /\ reg'[f] = reg[f]
  BY Closing DEF IndInv, Types, Names
<1>3. \A t \in Threads : task'[t] # None /\ task'[t].conn # None =>
          LET f == task[t].fd IN f \in Fds /\ file'[f] = file[f] /\ reg'[f] = reg[f]
                                 /\ file[f] = task[t].conn
  BY Closing DEF IndInv, Holding
<1>4. \A f \in Fds : file'[f] # None => file'[f] = file[f] /\ reg'[f] = reg[f]
  BY Closing
<1>5. Names'
  <2>1. \A f, g \in Fds : file'[f] # None /\ file'[f] = file'[g] => f = g
    BY <1>4 DEF IndInv, Names
  <2>2. \A f \in Fds : file'[f] # None => peer'[file'[f]] # "away" /\ file'[f] \notin backlog'
    BY <1>4 DEF IndInv, Names
  <2>3. \A f \in Fds : m_conns'[f] \in {None, file'[f]}
    BY <1>2 DEF IndInv, Names
  <2>4. \A f \in Fds : file'[f] = None => reg'[f] = "none"
    BY Closing DEF IndInv, Names
  <2>5. \A c \in backlog' : peer'[c] # "away"
    BY DEF IndInv, Names
  <2> QED
    BY <2>1, <2>2, <2>3, <2>4, <2>5 DEF Names
<1>6. Armed'
  <2> SUFFICES ASSUME NEW f \in Fds, reg'[f] \in {"read", "write"}, Serving'
               PROVE  Known(f)'
    BY DEF Armed
  <2>1. file'[f] = file[f] /\ reg'[f] = reg[f]
    BY Closing
  <2>2. Known(f) /\ m_conns'[f] = m_conns[f]
    BY <2>1 DEF IndInv, Armed
  <2> QED
    BY <2>1, <2>2 DEF Known
<1>7. Holding'
  BY <1>3 DEF IndInv, Holding
<1>8. Serves'
  <2>1. ASSUME NEW t \in Threads, Busy(t)'
        PROVE  LET x == task'[t]
               IN  /\ x.fd \in Fds /\ file'[x.fd] # None
                   /\ x.pc = "insert" => reg'[x.fd] = "none" /\ m_conns'[x.fd] = None
                   /\ x.pc # "insert" =>
                         /\ reg'[x.fd] = "off"
                         /\ Serving' => file'[x.fd] # None /\ m_conns'[x.fd] = file'[x.fd]
                   /\ x.pc # "get" => x.conn # None
                   /\ x.pc = "get" => x.kind \in {"read", "write"} /\ x.about = file'[x.fd]
    <3>0. PICK f : f = task[t].fd
      OBVIOUS
    <3>1. /\ Busy(t) /\ task'[t] # None /\ task'[t].pc = task[t].pc /\ f \in Fds
          /\ task'[t].fd = f /\ task'[t].conn = task[t].conn
          /\ task'[t].about = task[t].about /\ task'[t].kind = task[t].kind
      BY <2>1, <3>0, <1>1 DEF Busy, IndInv, Serves
    <3>2. /\ file[f] # None
          /\ task[t].pc = "insert" => reg[f] = "none" /\ m_conns[f] = None
          /\ task[t].pc # "insert" => reg[f] = "off" /\ (Serving => Known(f))
          /\ task[t].pc # "get" => task[t].conn # None
          /\ task[t].pc = "get" =>
                task[t].kind \in {"read", "write"} /\ task[t].about = file[f]
      BY <3>0, <3>1 DEF IndInv, Serves
    <3>3. file'[f] = file[f] /\ reg'[f] = reg[f]
      <4>1. CASE task[t].pc # "get"
        BY <4>1, <3>0, <3>1, <3>2, <1>3
      <4>2. CASE task[t].pc = "get"
        <5>1. Serving
          BY <4>2, <3>1 DEF IndInv, Waited, At, Serving
        <5>2. m_conns'[f] = m_conns[f] /\ m_conns[f] # None
          BY <4>2, <2>1, <3>0, <3>1, <3>2, <5>1 DEF Known
        <5> QED
          BY <5>2, <3>1, <1>2
      <4> QED
        BY <4>1, <4>2
    <3>4. task[t].pc # "insert" /\ Serving' => file'[f] # None /\ m_conns'[f] = file'[f]
      <4>1. SUFFICES ASSUME task[t].pc # "insert", Serving'
                     PROVE  file'[f] # None /\ m_conns'[f] = file'[f]
        OBVIOUS
      <4>2. file[f] # None /\ m_conns[f] = file[f]
        BY <4>1, <3>2 DEF Known
      <4>3. m_conns'[f] = m_conns[f]
        BY <4>1, <2>1, <3>0
      <4> QED
        BY <4>2, <4>3, <3>3
    <3>5. task[t].pc = "insert" => m_conns'[f] = None
      BY <3>1, <3>2
    <3> QED
      BY <3>1, <3>2, <3>3, <3>4, <3>5
  <2>2. \A s, t \in Threads : Busy(s)' /\ Busy(t)' /\ task'[s].fd = task'[t].fd => s = t
    BY <1>1 DEF Busy, IndInv, Serves
  <2> QED
    BY <2>1, <2>2 DEF Serves, Known
<1>9. \A t \in Threads : Busy(t)' => Busy(t) /\ task'[t].fd = task[t].fd
  BY <1>1 DEF Busy
<1> QED
  BY <1>2, <1>5, <1>6, <1>7, <1>8, <1>9

LEMMA ClosingTypes ==
    Types /\ CloseUnreferenced =>
        /\ file' \in [Fds -> Conns \cup {None}]
        /\ reg' \in [Fds -> {"none", "read", "write", "off"}]
  BY DEF Types, CloseUnreferenced

(* What was reported stays so as long as its entry stays.                  *)
LEMMA StaysReported ==
    ASSUME NEW e, Reported(e), m_conns'[e.fd] = m_conns[e.fd],
           \A t \in Threads : Busy(t)' => Busy(t) /\ task'[t].fd = task[t].fd,
           \A f \in Fds : m_conns'[f] # None => file'[f] = file[f] /\ reg'[f] = reg[f]
    PROVE  /\ e.fd \in Fds /\ file'[e.fd] # None /\ m_conns'[e.fd] = file'[e.fd]
           /\ e.about = file'[e.fd] /\ reg'[e.fd] = "off"
           /\ \A t \in Threads : Busy(t)' => task'[t].fd # e.fd
  BY DEF Reported, Known

(* What is pending in a server that waits for no task.                     *)
LEMMA NoneWaited ==
    IndInv /\ loop # "sem" =>
        /\ \A d \in queue : d.kind \notin ConnKinds
        /\ \A t \in Threads : ~At(t, "get")
  BY DEF IndInv, Waited

LEMMA ProcessHupInv == IndInv /\ ProcessHup => IndInv'
<1> SUFFICES ASSUME IndInv, ProcessHup PROVE IndInv'
  OBVIOUS
<1>1. PICK e \in events : /\ e.kind = "hup"
                          /\ m_conns' = [m_conns EXCEPT ![e.fd] = None]
                          /\ events' = events \ {e}
  BY DEF ProcessHup, Erased
<1>2. /\ loop = "process" /\ task' = task /\ CloseUnreferenced
      /\ loop' \in {"wait", "process"}
      /\ UNCHANGED <<peer, backlog, queue>>
  BY DEF ProcessHup, NextIn
<1>3. Reported(e) /\ e.fd \in Fds /\ reg[e.fd] = "off"
  BY <1>1, <1>2 DEF IndInv, Pending, ConnKinds, Reported
<1>4. \A f \in Fds : f # e.fd => m_conns'[f] = m_conns[f]
  BY <1>1, <1>3 DEF IndInv, Types
<1>5. \A t \in Threads : Busy(t)' => Busy(t) /\ m_conns'[task[t].fd] = m_conns[task[t].fd]
  BY <1>2, <1>3, <1>4 DEF Busy, Reported, IndInv, Serves
<1>6. Types'
  BY <1>1, <1>2, <1>3, ClosingTypes DEF IndInv, Types
<1>7. \A f \in Fds : m_conns'[f] \in {None, m_conns[f]}
  BY <1>1, <1>3, <1>4 DEF IndInv, Types
<1>8. \A f \in Fds : reg[f] \in {"read", "write"} /\ Serving' => m_conns'[f] = m_conns[f]
  BY <1>3, <1>4
<1>9. Serving' => Serving
  BY <1>2 DEF Serving
<1>10. /\ Names' /\ Armed' /\ Holding' /\ Serves'
       /\ \A t \in Threads : Busy(t)' => Busy(t) /\ task'[t].fd = task[t].fd
       /\ \A f \in Fds : m_conns'[f] # None => file'[f] = file[f] /\ reg'[f] = reg[f]
  BY <1>2, <1>5, <1>6, <1>7, <1>8, <1>9, ErasingInv
<1>11. Pending'
  <2>1. ASSUME NEW d \in events', d.kind \in ConnKinds PROVE Reported(d)'
    <3>1. Reported(d) /\ m_conns'[d.fd] = m_conns[d.fd]
      BY <1>1, <1>2, <1>4, <2>1 DEF IndInv, Pending, Reported, ConnKinds
    <3> QED
      BY <3>1, <1>10, StaysReported DEF Reported, Known
  <2> QED
    BY <1>1, <1>2, <2>1 DEF IndInv, Pending
<1>12. Waited'
  BY <1>2, NoneWaited DEF Waited, At
<1> QED
  BY <1>6, <1>10, <1>11, <1>12 DEF IndInv

(* freeConn: the entry of the connection that thread t serves.             *)
LEMMA FreeConnInv == \A t \in Threads : IndInv /\ FreeConn(t) => IndInv'
<1> SUFFICES ASSUME NEW t \in Threads, IndInv, FreeConn(t) PROVE IndInv'
  OBVIOUS
<1>1. PICK f \in Fds : f = task[t].fd /\ file[f] = task[t].conn /\ file[f] # None
  BY DEF FreeConn, At, IndInv, Holding, Serves, Busy
<1>2. /\ task[t] \in TaskSet /\ task[t].pc = "free" /\ Busy(t) /\ reg[f] = "off"
      /\ CloseUnreferenced
      /\ UNCHANGED <<peer, backlog, loop, events, queue>>
  BY <1>1 DEF FreeConn, At, IndInv, Types, Serves, Busy
<1>3. m_conns' = [m_conns EXCEPT ![f] = None]
  <2>1. PICK g \in Fds : file[g] = task[t].conn /\ m_conns' = [m_conns EXCEPT ![g] = None]
    BY DEF FreeConn, Erased
  <2>2. g = f
    BY <1>1, <2>1 DEF IndInv, Names
  <2> QED
    BY <2>1, <2>2
<1>4. /\ task'[t] # None => task'[t] = [task[t] EXCEPT !.pc = "drop"]
      /\ \A s \in Threads : s # t => task'[s] = task[s]
  BY <1>2 DEF FreeConn, Goto, IndInv, Types
<1>5. \A g \in Fds : g # f => m_conns'[g] = m_conns[g]
  BY <1>3 DEF IndInv, Types
<1>6. Types'
  BY <1>2, <1>3, ClosingTypes DEF FreeConn, Goto, IndInv, Types, TaskSet
<1>7. \A s \in Threads : task'[s] # None =>
          /\ task[s] # None
          /\ task'[s].fd = task[s].fd /\ task'[s].conn = task[s].conn
          /\ task'[s].about = task[s].about /\ task'[s].kind = task[s].kind
          /\ task'[s].pc = task[s].pc \/ task'[s].pc = "drop"
  BY <1>2, <1>4 DEF TaskSet, Busy
<1>8. \A s \in Threads : Busy(s)' => s # t /\ Busy(s) /\ task[s].fd \in Fds /\ task[s].fd # f
  BY <1>1, <1>2, <1>4 DEF Busy, TaskSet, IndInv, Serves
<1>9. \A g \in Fds : m_conns'[g] \in {None, m_conns[g]}
  BY <1>3, <1>5 DEF IndInv, Types
<1>10. Serving' => Serving
  BY <1>2 DEF Serving
<1>11. /\ Names' /\ Armed' /\ Holding' /\ Serves'
       /\ \A s \in Threads : Busy(s)' => Busy(s) /\ task'[s].fd = task[s].fd
       /\ \A g \in Fds : m_conns'[g] # None => file'[g] = file[g] /\ reg'[g] = reg[g]
  <2>1. \A s \in Threads : Busy(s)' => m_conns'[task[s].fd] = m_conns[task[s].fd]
    BY <1>5, <1>8
  <2>2. \A g \in Fds : reg[g] \in {"read", "write"} /\ Serving' => m_conns'[g] = m_conns[g]
    BY <1>2, <1>5
  <2> QED
    BY <1>2, <1>6, <1>7, <1>9, <1>10, <2>1, <2>2, ErasingInv
<1>12. \A e : Reported(e) => Reported(e)'
  <2> SUFFICES ASSUME NEW e, Reported(e) PROVE Reported(e)'
    OBVIOUS
  <2>1. e.fd \in Fds /\ e.fd # f
    BY <1>1, <1>2 DEF Reported
  <2> QED
    BY <2>1, <1>5, <1>11, StaysReported DEF Reported, Known
<1>13. \A s \in Threads : At(s, "get")' => At(s, "get")
  BY <1>2, <1>4 DEF At, TaskSet
<1>14. Pending' /\ Waited'
  BY <1>2, <1>12, <1>13 DEF IndInv, Pending, Waited
<1> QED
  BY <1>6, <1>11, <1>14 DEF IndInv

(* A task ends, and its shared_ptr with it.                                *)
LEMMA DropInv == \A t \in Threads : IndInv /\ Drop(t) => IndInv'
<1> SUFFICES ASSUME NEW t \in Threads, IndInv, Drop(t) PROVE IndInv'
  OBVIOUS
<1>1. /\ CloseUnreferenced /\ task' = [task EXCEPT ![t] = None]
      /\ UNCHANGED <<peer, backlog, loop, events, queue, m_conns>>
  BY DEF Drop
<1>2. /\ task'[t] = None
      /\ \A s \in Threads : s # t => task'[s] = task[s]
  BY <1>1 DEF IndInv, Types
<1>3. Types'
  BY <1>1, ClosingTypes DEF IndInv, Types
<1>4. \A s \in Threads : task'[s] # None => task'[s] = task[s]
  BY <1>2
<1>5. Serving' => Serving
  BY <1>1 DEF Serving
<1>6. /\ Names' /\ Armed' /\ Holding' /\ Serves'
      /\ \A s \in Threads : Busy(s)' => Busy(s) /\ task'[s].fd = task[s].fd
      /\ \A g \in Fds : m_conns'[g] # None => file'[g] = file[g] /\ reg'[g] = reg[g]
  BY <1>1, <1>3, <1>4, <1>5, ErasingInv
<1>7. \A e : Reported(e) => Reported(e)'
  BY <1>1, <1>6, StaysReported DEF Reported, Known
<1>8. \A s \in Threads : At(s, "get")' => At(s, "get")
  BY <1>4 DEF At
<1>9. Pending' /\ Waited'
  BY <1>1, <1>7, <1>8 DEF IndInv, Pending, Waited
<1> QED
  BY <1>3, <1>6, <1>9 DEF IndInv

(* ~Server: the loop has been left, nothing reported is looked up again.   *)
LEMMA ClearInv == IndInv /\ (Clear \/ Destroy) => IndInv'
<1> SUFFICES ASSUME IndInv, Clear \/ Destroy PROVE IndInv'
  OBVIOUS
<1>1. /\ CloseUnreferenced /\ task' = task
      /\ loop \in {"left", "cleared"} /\ loop' \in {"cleared", "gone"}
      /\ m_conns' = [f \in Fds |-> None]
      /\ queue' \in {queue, {}}
      /\ UNCHANGED <<peer, backlog, events>>
  BY DEF Clear, Destroy
<1>2. Types'
  BY <1>1, ClosingTypes DEF IndInv, Types
<1>3. /\ \A d \in queue : d.kind \notin ConnKinds
      /\ \A t \in Threads : ~At(t, "get")
  BY <1>1, NoneWaited
<1>4. ~Serving' /\ loop' \notin {"process", "sem"}
  BY <1>1 DEF Serving
<1>5. \A t \in Threads : Busy(t)' => task[t].pc # "get"
  BY <1>1, <1>3 DEF Busy, At
<1>6. Names' /\ Armed' /\ Holding' /\ Serves'
  BY <1>1, <1>2, <1>4, <1>5, ErasingInv
<1>7. Pending' /\ Waited'
  BY <1>1, <1>3, <1>4 DEF Pending, Waited, At
<1> QED
  BY <1>2, <1>6, <1>7 DEF IndInv

-----------------------------------------------------------------------------
(* The steps of the event loop.                                            *)

(* What is reported was armed; EPOLLONESHOT takes that back.               *)
LEMMA EpollWaitInv == IndInv /\ EpollWait => IndInv'
<1> SUFFICES ASSUME IndInv, EpollWait PROVE IndInv'
  OBVIOUS
<1>1. /\ loop = "wait" /\ loop' \in {"wait", "process"}
      /\ loop' = "process" => events' = ReadyEvents
      /\ events' \in {events, ReadyEvents}
      /\ UNCHANGED <<peer, backlog, file, m_conns, queue, task>>
  BY DEF EpollWait
<1>2. /\ reg' \in [Fds -> {"none", "read", "write", "off"}]
      /\ \A f \in Fds : Ready(f) => reg'[f] = "off"
      /\ \A f \in Fds : reg'[f] = reg[f] \/ (Ready(f) /\ reg'[f] = "off")
  <2>1. PICK rep : /\ rep = {e.fd : e \in ReadyEvents}
                   /\ reg' = [f \in Fds |-> IF f \in rep THEN "off" ELSE reg[f]]
    BY DEF EpollWait, OneShot
  <2>2. ASSUME NEW f \in Fds, Ready(f) PROVE f \in rep
    <3>1. PICK e : e = Event(IF HungUp(file[f]) THEN "hup" ELSE reg[f], f, file[f])
      OBVIOUS
    <3>2. e \in ReadyEvents
      BY <2>2, <3>1 DEF ReadyEvents
    <3>3. e.fd = f
      BY <3>1 DEF Event
    <3> QED
      BY <2>1, <3>2, <3>3
  <2>3. \A f \in Fds : f \in rep => Ready(f)
    BY <2>1, ServerAssumption DEF ReadyEvents, Event
  <2> QED
    BY <2>1, <2>2, <2>3 DEF IndInv, Types
<1>3. \A e \in ReadyEvents :
          /\ e \in EventSet
          /\ e.kind \in ConnKinds => e.fd \in Fds /\ Ready(e.fd) /\ e.about = file[e.fd]
  BY DEF ReadyEvents, Event, Ready, EventSet, ConnKinds, IndInv, Types
<1>4. \A d, e \in ReadyEvents :
          d.kind \in ConnKinds /\ e.kind \in ConnKinds /\ d.fd = e.fd => d = e
  <2>1. \A e \in ReadyEvents : e.kind \in ConnKinds =>
            e = Event(IF HungUp(file[e.fd]) THEN "hup" ELSE reg[e.fd], e.fd, file[e.fd])
    BY DEF ReadyEvents, Event, ConnKinds
  <2> QED
    BY <2>1
<1>5. Types'
  BY <1>1, <1>2, <1>3 DEF EpollWait, IndInv, Types
<1>6. Names'
  BY <1>1, <1>2 DEF IndInv, Names, Ready
<1>7. Armed'
  BY <1>1, <1>2 DEF IndInv, Armed, Known, Serving
<1>8. Holding'
  BY <1>1 DEF IndInv, Holding
<1>9. \A t \in Threads : (Busy(t)' <=> Busy(t)) /\ (Busy(t) => ~Ready(task[t].fd))
  BY <1>1 DEF Busy, IndInv, Serves, Ready
<1>10. Serves'
  BY <1>1, <1>2, <1>9 DEF IndInv, Serves, Known, Serving
<1>11. Waited'
  BY <1>1, NoneWaited DEF Waited, At
<1>12. \A e \in ReadyEvents : e.kind \in ConnKinds => Reported(e)'
  <2> SUFFICES ASSUME NEW e \in ReadyEvents, e.kind \in ConnKinds PROVE Reported(e)'
    OBVIOUS
  <2>1. /\ e.fd \in Fds /\ Ready(e.fd) /\ e.about = file[e.fd] /\ reg'[e.fd] = "off"
    BY <1>2, <1>3
  <2>2. Known(e.fd)
    BY <1>1, <2>1 DEF Ready, IndInv, Armed, Serving
  <2>3. \A t \in Threads : Busy(t)' => task'[t].fd # e.fd
    BY <1>1, <1>9, <2>1
  <2> QED
    BY <1>1, <2>1, <2>2, <2>3 DEF Reported, Known
<1>13. Pending'
  BY <1>1, <1>4, <1>12, NoneWaited DEF Pending
<1> QED
  BY <1>5, <1>6, <1>7, <1>8, <1>10, <1>11, <1>13 DEF IndInv

(* Fewer events, and nothing else that the other parts are about.          *)
LEMMA ProcessSignalInv == IndInv /\ ProcessSignal => IndInv'
<1> SUFFICES ASSUME IndInv, ProcessSignal PROVE IndInv'
  OBVIOUS
<1>1. /\ loop = "process" /\ loop' \in {"left", "wait", "process"}
      /\ events' \subseteq events
      /\ UNCHANGED <<peer, backlog, file, reg, m_conns, queue, task>>
  BY DEF ProcessSignal, NextIn
<1>2. Types'
  BY <1>1 DEF IndInv, Types
<1>3. Names' /\ Armed' /\ Holding'
  BY <1>1 DEF IndInv, Names, Armed, Holding, Serving, Known
<1>4. Serves'
  BY <1>1 DEF IndInv, Serves, Serving, Known, Busy
<1>5. Pending' /\ Waited'
  BY <1>1, NoneWaited DEF IndInv, Pending, Waited, Reported, Known, Busy, At
<1> QED
  BY <1>2, <1>3, <1>4, <1>5 DEF IndInv

(* An event becomes a task, which the loop waits for unless it accepts.    *)
LEMMA DispatchInv == IndInv /\ Dispatch => IndInv'
<1> SUFFICES ASSUME IndInv, Dispatch PROVE IndInv'
  OBVIOUS
<1>1. PICK e \in events : /\ e.kind \in {"accept", "read", "write"}
                          /\ queue' = queue \cup {e}
                          /\ events' = events \ {e}
                          /\ loop' \in {"wait", "process", "sem"}
                          /\ e.kind # "accept" => loop' = "sem"
  BY DEF Dispatch, NextIn, Awaits
<1>2. /\ loop = "process"
      /\ UNCHANGED <<peer, backlog, file, reg, m_conns, task>>
  BY DEF Dispatch, kernel
<1>3. Types'
  BY <1>1, <1>2 DEF IndInv, Types
<1>4. Names' /\ Armed' /\ Holding'
  BY <1>1, <1>2 DEF IndInv, Names, Armed, Holding, Serving, Known
<1>5. Serves'
  BY <1>1, <1>2 DEF IndInv, Serves, Serving, Known, Busy
<1>6. \A d : Reported(d) => Reported(d)'
  BY <1>2 DEF Reported, Known, Busy
<1>7. Pending'
  BY <1>1, <1>2, <1>6, NoneWaited DEF IndInv, Pending
<1>8. Waited'
  <2>1. \A d \in queue' : d.kind \in ConnKinds => d = e /\ loop' = "sem" /\ Reported(d)
    BY <1>1, <1>2, NoneWaited DEF IndInv, Pending, ConnKinds
  <2>2. \A t \in Threads : ~At(t, "get")'
    BY <1>2, NoneWaited DEF At
  <2> QED
    BY <1>6, <2>1, <2>2 DEF Waited
<1> QED
  BY <1>3, <1>4, <1>5, <1>7, <1>8 DEF IndInv

-----------------------------------------------------------------------------
(* The steps of a thread that takes, accepts and looks up.                 *)

(* The token goes from the queue to the thread.                            *)
LEMMA StartInv == \A t \in Threads : IndInv /\ Start(t) => IndInv'
<1> SUFFICES ASSUME NEW t \in Threads, IndInv, Start(t) PROVE IndInv'
  OBVIOUS
<1>1. PICK e, x :
          /\ e \in queue
          /\ x = [kind |-> e.kind, fd |-> e.fd, about |-> e.about, conn |-> None,
                  pc |-> IF e.kind = "accept" THEN "accept" ELSE "get"]
          /\ queue' = queue \ {e}
          /\ task' = [task EXCEPT ![t] = x]
  BY DEF Start
<1>2. /\ task[t] = None
      /\ UNCHANGED <<peer, backlog, file, reg, m_conns, loop, events>>
  BY DEF Start, kernel
<1>3. /\ task'[t] = x /\ x \in TaskSet
      /\ \A s \in Threads : s # t => task'[s] = task[s]
      /\ e.kind \in {"accept", "read", "write"}
  BY <1>1 DEF IndInv, Types, TaskSet, EventSet
<1>4. Types'
  BY <1>1, <1>2, <1>3 DEF IndInv, Types
<1>5. Names' /\ Armed'
  BY <1>2 DEF IndInv, Names, Armed, Serving, Known
<1>6. Holding'
  BY <1>1, <1>2, <1>3 DEF IndInv, Holding
<1>7. CASE e.kind = "accept"
  <2>1. /\ \A s \in Threads : Busy(s)' => Busy(s) /\ s # t /\ task'[s] = task[s]
        /\ \A s \in Threads : At(s, "get")' => At(s, "get")
    BY <1>1, <1>3, <1>7 DEF Busy, At
  <2>2. Serves'
    BY <1>2, <2>1 DEF IndInv, Serves, Serving, Known
  <2>3. \A d : Reported(d) => Reported(d)'
    BY <1>2, <2>1 DEF Reported, Known
  <2>4. Pending' /\ Waited'
    BY <1>1, <1>2, <2>1, <2>3 DEF IndInv, Pending, Waited
  <2> QED
    BY <1>4, <1>5, <1>6, <2>2, <2>4 DEF IndInv
<1>8. CASE e.kind # "accept"
  <2>1. /\ x.pc = "get" /\ x.fd = e.fd /\ x.about = e.about /\ x.kind \in {"read", "write"}
        /\ e.kind \in ConnKinds
    BY <1>1, <1>3, <1>8 DEF ConnKinds
  <2>2. /\ Reported(e) /\ loop = "sem"
        /\ \A d \in queue : d.kind \in ConnKinds => d = e
        /\ \A s \in Threads : ~At(s, "get")
    BY <1>1, <2>1 DEF IndInv, Waited
  <2>3. \A s \in Threads : s # t => (Busy(s)' <=> Busy(s)) /\ task'[s] = task[s]
    BY <1>3 DEF Busy
  <2>4. Serves'
    <3>1. ASSUME NEW s \in Threads, Busy(s)', s # t
          PROVE  Busy(s) /\ task'[s] = task[s] /\ task'[s].fd # task'[t].fd
      BY <1>3, <2>1, <2>2, <2>3, <3>1 DEF Reported
    <3>2. /\ x.fd \in Fds /\ file[x.fd] # None /\ reg[x.fd] = "off"
          /\ m_conns[x.fd] = file[x.fd] /\ x.about = file[x.fd]
      BY <2>1, <2>2 DEF Reported, Known
    <3> QED
      BY <1>2, <1>3, <2>1, <3>1, <3>2 DEF IndInv, Serves, Serving, Known
  <2>5. \A d \in events : d.kind \in ConnKinds => Reported(d) /\ Reported(d)'
    <3> SUFFICES ASSUME NEW d \in events, d.kind \in ConnKinds PROVE Reported(d) /\ Reported(d)'
      OBVIOUS
    <3>1. Reported(d) /\ d.fd # e.fd
      BY <1>1, <2>1, <2>2 DEF IndInv, Pending
    <3> QED
      BY <1>2, <1>3, <2>1, <2>3, <3>1 DEF Reported, Known
  <2>6. Pending'
    BY <1>1, <1>2, <2>5 DEF IndInv, Pending
  <2>7. Waited'
    <3>1. \A d \in queue' : d.kind \notin ConnKinds
      BY <1>1, <2>2
    <3>2. \A s \in Threads : At(s, "get")' => s = t
      BY <1>3, <2>2 DEF At
    <3> QED
      BY <1>2, <2>2, <3>1, <3>2 DEF Waited
  <2> QED
    BY <1>4, <1>5, <1>6, <2>4, <2>6, <2>7 DEF IndInv
<1> QED
  BY <1>7, <1>8

(* A number that is free is new to everybody.                              *)
LEMMA AcceptInv == \A t \in Threads : IndInv /\ Accept(t) => IndInv'
<1> SUFFICES ASSUME NEW t \in Threads, IndInv, Accept(t) PROVE IndInv'
  OBVIOUS
<1>1. /\ task[t] # None /\ task[t] \in TaskSet /\ task[t].pc = "accept" /\ task[t].conn = None
      /\ UNCHANGED <<peer, reg, m_conns, loop, events, queue>>
  BY DEF Accept, At, IndInv, Types, Holding
<1>2. CASE Goto(t, "rearm") /\ UNCHANGED <<backlog, file>>
  <2>1. /\ task'[t] # None => task'[t] = [task[t] EXCEPT !.pc = "rearm"]
        /\ \A s \in Threads : s # t => task'[s] = task[s]
    BY <1>1, <1>2 DEF Goto, IndInv, Types
  <2>2. \A s \in Threads : Busy(s)' => Busy(s) /\ s # t /\ task'[s] = task[s]
    BY <1>1, <2>1 DEF Busy, TaskSet
  <2>3. \A s \in Threads : At(s, "get")' => At(s, "get")
    BY <1>1, <2>1 DEF At, TaskSet
  <2>4. Types'
    BY <1>1, <1>2 DEF Goto, IndInv, Types, TaskSet
  <2>5. Names' /\ Armed'
    BY <1>1, <1>2 DEF IndInv, Names, Armed, Serving, Known
  <2>6. Holding'
    BY <1>1, <1>2, <2>1 DEF IndInv, Holding, TaskSet
  <2>7. Serves'
    BY <1>1, <1>2, <2>2 DEF IndInv, Serves, Serving, Known
  <2>8. Pending' /\ Waited'
    BY <1>1, <1>2, <2>2, <2>3 DEF IndInv, Pending, Waited, Reported, Known
  <2> QED
    BY <2>4, <2>5, <2>6, <2>7, <2>8 DEF IndInv
<1>3. ASSUME NEW c \in backlog, NEW f \in Free,
             backlog' = backlog \ {c}, file' = [file EXCEPT ![f] = c],
             task' = [task EXCEPT ![t].pc = "insert", ![t].fd = f, ![t].conn = c]
      PROVE  IndInv'
  <2>1. /\ f \in Fds /\ file[f] = None /\ m_conns[f] = None /\ reg[f] = "none"
        /\ c \in Conns /\ c # None /\ peer[c] # "away"
    BY <1>3, ServerAssumption DEF Free, IndInv, Types, Names
  <2>2. \A g \in Fds : file[g] # c
    BY <1>3, <2>1 DEF IndInv, Names
  <2>3. /\ file' \in [Fds -> Conns \cup {None}]
        /\ file'[f] = c /\ \A g \in Fds : g # f => file'[g] = file[g]
    BY <1>3, <2>1 DEF IndInv, Types
  <2>4. /\ task' = [task EXCEPT ![t] = [task[t] EXCEPT !.pc = "insert", !.fd = f, !.conn = c]]
    BY <1>1, <1>3 DEF IndInv, Types, TaskSet
  <2>5. PICK x \in TaskSet : /\ x = [task[t] EXCEPT !.pc = "insert", !.fd = f, !.conn = c]
                             /\ task'[t] = x /\ x.pc = "insert" /\ x.fd = f /\ x.conn = c
    <3>1. PICK x : x = [task[t] EXCEPT !.pc = "insert", !.fd = f, !.conn = c]
      OBVIOUS
    <3>2. x \in TaskSet /\ x.pc = "insert" /\ x.fd = f /\ x.conn = c
      BY <1>1, <2>1, <3>1 DEF TaskSet
    <3>3. task'[t] = x
      BY <2>4, <3>1 DEF IndInv, Types
    <3> QED
      BY <3>1, <3>2, <3>3
  <2>6. \A s \in Threads : s # t => task'[s] = task[s] /\ (Busy(s)' <=> Busy(s))
    BY <2>4 DEF IndInv, Types, Busy
  <2>7. \A s \in Threads : At(s, "get")' => At(s, "get")
    BY <2>5, <2>6 DEF At
  <2>8. Types'
    BY <1>1, <1>3, <2>3, <2>4, <2>5 DEF IndInv, Types
  <2>9. Names'
    <3>1. \A g, h \in Fds : file'[g] # None /\ file'[g] = file'[h] => g = h
      BY <2>2, <2>3 DEF IndInv, Names
    <3>2. \A g \in Fds : file'[g] # None => peer'[file'[g]] # "away" /\ file'[g] \notin backlog'
      BY <1>1, <1>3, <2>1, <2>3 DEF IndInv, Names
    <3>3. \A g \in Fds : m_conns'[g] \in {None, file'[g]} /\ (file'[g] = None => reg'[g] = "none")
      BY <1>1, <2>1, <2>3 DEF IndInv, Names
    <3>4. \A d \in backlog' : peer'[d] # "away"
      BY <1>1, <1>3 DEF IndInv, Names
    <3> QED
      BY <3>1, <3>2, <3>3, <3>4 DEF Names
  <2>10. Armed'
    BY <1>1, <2>1, <2>3 DEF IndInv, Armed, Known, Serving
  <2>11. Holding'
    <3>1. ASSUME NEW s \in Threads, s # t, task'[s] # None
          PROVE  /\ task'[s] = task[s]
                 /\ task[s].conn # None => /\ task[s].fd \in Fds /\ task[s].fd # f
                                           /\ file'[task[s].fd] = task[s].conn
                 /\ task[s].pc \in {"accept", "rearm", "get"} => task[s].conn = None
      BY <3>1, <2>1, <2>3, <2>6 DEF IndInv, Holding
    <3>2. /\ task'[t].fd \in Fds /\ file'[task'[t].fd] = task'[t].conn
          /\ task'[t].pc \notin {"accept", "rearm", "get"}
      BY <2>1, <2>3, <2>5
    <3> QED
      BY <3>1, <3>2 DEF Holding
  <2>12. Serves'
    <3>1. ASSUME NEW s \in Threads, s # t, Busy(s)'
          PROVE  Busy(s) /\ task'[s] = task[s] /\ task[s].fd \in Fds /\ task[s].fd # f
      BY <3>1, <2>1, <2>6 DEF IndInv, Serves
    <3>2. ASSUME NEW s \in Threads, s # t, Busy(s)'
          PROVE  LET y == task[s]
                 IN  /\ y.fd \in Fds /\ file'[y.fd] # None
                     /\ y.pc = "insert" => reg'[y.fd] = "none" /\ m_conns'[y.fd] = None
                     /\ y.pc # "insert" =>
                           reg'[y.fd] = "off" /\ (Serving' => m_conns'[y.fd] = file'[y.fd])
                     /\ y.pc # "get" => y.conn # None
                     /\ y.pc = "get" => y.kind \in {"read", "write"} /\ y.about = file'[y.fd]
      BY <1>1, <2>3, <3>1, <3>2 DEF IndInv, Serves, Serving, Known
    <3>3. /\ task'[t].fd = f /\ task'[t].pc = "insert" /\ task'[t].conn # None
          /\ file'[f] # None /\ reg'[f] = "none" /\ m_conns'[f] = None
      BY <1>1, <2>1, <2>3, <2>5
    <3>4. ASSUME NEW r \in Threads, NEW s \in Threads, Busy(r)', Busy(s)',
                 task'[r].fd = task'[s].fd
          PROVE  r = s
      <4>1. CASE r # t /\ s # t
        BY <3>1, <3>4, <4>1 DEF IndInv, Serves
      <4>2. CASE r = t \/ s = t
        BY <2>5, <3>1, <3>4, <4>2
      <4> QED
        BY <4>1, <4>2
    <3> QED
      BY <2>1, <3>1, <3>2, <3>3, <3>4 DEF Serves, Known
  <2>13. \A e : Reported(e) => Reported(e)'
    <3> SUFFICES ASSUME NEW e, Reported(e) PROVE Reported(e)'
      OBVIOUS
    <3>1. e.fd \in Fds /\ e.fd # f
      BY <2>1 DEF Reported, Known
    <3> QED
      BY <1>1, <2>3, <2>5, <2>6, <3>1 DEF Reported, Known
  <2>14. Pending' /\ Waited'
    BY <1>1, <2>7, <2>13 DEF IndInv, Pending, Waited
  <2> QED
    BY <2>8, <2>9, <2>10, <2>11, <2>12, <2>14 DEF IndInv
<1> QED
  BY <1>2, <1>3 DEF Accept

(* The entry of m_conns is made, and the connection armed, before any      *)
(* event of it.                                                            *)
LEMMA InsertInv == \A t \in Threads : IndInv /\ Insert(t) => IndInv'
<1> SUFFICES ASSUME NEW t \in Threads, IndInv, Insert(t) PROVE IndInv'
  OBVIOUS
<1>1. PICK f \in Fds, c \in Conns :
          /\ f = task[t].fd /\ c = task[t].conn /\ file[f] = c /\ c # None
          /\ m_conns[f] = None /\ reg[f] = "none"
  BY ServerAssumption DEF Insert, At, IndInv, Types, TaskSet, Holding, Serves, Busy
<1>2. /\ task[t] # None /\ task[t] \in TaskSet /\ task[t].pc = "insert" /\ Busy(t)
      /\ UNCHANGED <<peer, backlog, file, loop, events, queue>>
      /\ m_conns' = [m_conns EXCEPT ![f] = c] /\ reg' = [reg EXCEPT ![f] = "read"]
      /\ task' = [task EXCEPT ![t].pc = "accept", ![t].conn = None]
  BY <1>1 DEF Insert, At, IndInv, Types, Busy
<1>3. /\ m_conns' \in [Fds -> Conns \cup {None}] /\ m_conns'[f] = c
      /\ \A g \in Fds : g # f => m_conns'[g] = m_conns[g] /\ reg'[g] = reg[g]
      /\ reg'[f] = "read"
  BY <1>1, <1>2 DEF IndInv, Types
<1>4. PICK x \in TaskSet : /\ x.pc = "accept" /\ x.conn = None
                           /\ task' = [task EXCEPT ![t] = x]
  <2>1. [task[t] EXCEPT !.pc = "accept", !.conn = None] \in TaskSet
    BY <1>2 DEF TaskSet
  <2>2. task' = [task EXCEPT ![t] = [task[t] EXCEPT !.pc = "accept", !.conn = None]]
    BY <1>2 DEF IndInv, Types, TaskSet
  <2> QED
    BY <1>2, <2>1, <2>2 DEF TaskSet
<1>5. task'[t] = x /\ \A s \in Threads : s # t => task'[s] = task[s]
  BY <1>4 DEF IndInv, Types
<1>6. \A s \in Threads : Busy(s)' => /\ s # t /\ Busy(s) /\ task'[s] = task[s]
                                     /\ task[s].fd \in Fds /\ task[s].fd # f
  BY <1>1, <1>2, <1>4, <1>5 DEF Busy, IndInv, Serves
<1>7. \A s \in Threads : At(s, "get")' => At(s, "get")
  BY <1>4, <1>5 DEF At
<1>8. Types'
  <2>1. task' \in [Threads -> TaskSet \cup {None}]
    BY <1>4 DEF IndInv, Types
  <2>2. reg' \in [Fds -> {"none", "read", "write", "off"}]
    BY <1>2 DEF IndInv, Types
  <2>3. UNCHANGED <<peer, backlog, file, loop, events, queue>>
    BY <1>2
  <2> QED
    BY <1>3, <2>1, <2>2, <2>3 DEF IndInv, Types
<1>9. Names'
  BY <1>1, <1>2, <1>3 DEF IndInv, Names
<1>10. Armed'
  BY <1>1, <1>2, <1>3 DEF IndInv, Armed, Serving, Known
<1>11. Holding'
  BY <1>2, <1>4, <1>5 DEF IndInv, Holding
<1>12. Serves'
  <2>1. ASSUME NEW s \in Threads, Busy(s)'
        PROVE  LET y == task[s]
               IN  /\ task'[s] = y /\ y.fd \in Fds /\ file'[y.fd] # None
                   /\ y.pc = "insert" => reg'[y.fd] = "none" /\ m_conns'[y.fd] = None
                   /\ y.pc # "insert" =>
                         reg'[y.fd] = "off" /\ (Serving' => m_conns'[y.fd] = file'[y.fd])
                   /\ y.pc # "get" => y.conn # None
                   /\ y.pc = "get" => y.kind \in {"read", "write"} /\ y.about = file'[y.fd]
    <3>1. /\ Busy(s) /\ task'[s] = task[s] /\ task[s].fd \in Fds
          /\ reg'[task[s].fd] = reg[task[s].fd] /\ m_conns'[task[s].fd] = m_conns[task[s].fd]
          /\ file' = file /\ Serving' = Serving
      BY <1>2, <1>3, <1>6, <2>1 DEF Serving
    <3> QED
      BY <3>1 DEF IndInv, Serves, Known
  <2>2. \A r, s \in Threads : Busy(r)' /\ Busy(s)' /\ task'[r].fd = task'[s].fd => r = s
    BY <1>6 DEF IndInv, Serves
  <2> QED
    BY <2>1, <2>2 DEF Serves, Known
<1>13. \A e : Reported(e) => Reported(e)'
  <2> SUFFICES ASSUME NEW e, Reported(e) PROVE Reported(e)'
    OBVIOUS
  <2>1. /\ e.fd \in Fds /\ e.fd # f /\ file' = file
        /\ m_conns'[e.fd] = m_conns[e.fd] /\ reg'[e.fd] = reg[e.fd]
    BY <1>1, <1>2, <1>3 DEF Reported, Known
  <2> QED
    BY <1>6, <2>1 DEF Reported, Known
<1>14. Pending' /\ Waited'
  BY <1>2, <1>7, <1>13 DEF IndInv, Pending, Waited
<1> QED
  BY <1>8, <1>9, <1>10, <1>11, <1>12, <1>14 DEF IndInv

LEMMA RearmInv == \A t \in Threads : IndInv /\ Rearm(t) => IndInv'
<1> SUFFICES ASSUME NEW t \in Threads, IndInv, Rearm(t) PROVE IndInv'
  OBVIOUS
<1>1. /\ task' = [task EXCEPT ![t] = None]
      /\ UNCHANGED <<peer, backlog, file, reg, m_conns, loop, events, queue>>
  BY DEF Rearm
<1>2. \A s \in Threads : task'[s] # None => task'[s] = task[s]
  BY <1>1 DEF IndInv, Types
<1>3. /\ \A s \in Threads : Busy(s)' => Busy(s) /\ task'[s] = task[s]
      /\ \A s \in Threads : At(s, "get")' => At(s, "get")
  BY <1>2 DEF Busy, At
<1>4. Types'
  BY <1>1 DEF IndInv, Types
<1>5. Names' /\ Armed'
  BY <1>1 DEF IndInv, Names, Armed, Serving, Known
<1>6. Holding'
  BY <1>1, <1>2 DEF IndInv, Holding
<1>7. Serves'
  BY <1>1, <1>3 DEF IndInv, Serves, Serving, Known
<1>8. Pending' /\ Waited'
  BY <1>1, <1>3 DEF IndInv, Pending, Waited, Reported, Known
<1> QED
  BY <1>4, <1>5, <1>6, <1>7, <1>8 DEF IndInv

(* The loop goes on once the task has its connection.                      *)
LEMMA GetInv == \A t \in Threads : IndInv /\ Get(t) => IndInv'
<1> SUFFICES ASSUME NEW t \in Threads, IndInv, Get(t) PROVE IndInv'
  OBVIOUS
<1>1. PICK f \in Fds, k \in {"read", "write"} :
          /\ f = task[t].fd /\ k = task[t].kind
          /\ file[f] # None /\ m_conns[f] = file[f] /\ reg[f] = "off"
  BY DEF Get, At, IndInv, Types, Names, Serves, Busy
<1>2. /\ task[t] # None /\ task[t] \in TaskSet /\ task[t].pc = "get" /\ Busy(t)
      /\ loop = "sem" /\ loop' \in {"wait", "process"}
      /\ UNCHANGED <<peer, backlog, file, reg, m_conns, events, queue>>
      /\ task' = [task EXCEPT ![t].pc = k, ![t].conn = file[f]]
  BY <1>1 DEF Get, At, IndInv, Types, Waited, Busy, kernel, NextIn
<1>3. PICK x \in TaskSet : /\ x.pc = k /\ x.conn = file[f] /\ x.fd = f
                           /\ task' = [task EXCEPT ![t] = x]
  <2>1. /\ [task[t] EXCEPT !.pc = k, !.conn = file[f]] \in TaskSet
        /\ [task[t] EXCEPT !.pc = k, !.conn = file[f]].fd = f
    BY <1>1, <1>2 DEF IndInv, Types, TaskSet
  <2>2. task' = [task EXCEPT ![t] = [task[t] EXCEPT !.pc = k, !.conn = file[f]]]
    BY <1>2 DEF IndInv, Types, TaskSet
  <2> QED
    BY <1>2, <2>1, <2>2 DEF TaskSet
<1>4. task'[t] = x /\ \A s \in Threads : s # t => task'[s] = task[s]
  BY <1>3 DEF IndInv, Types
<1>5. \A s \in Threads : Busy(s)' => Busy(s) /\ task'[s].fd = task[s].fd
  BY <1>1, <1>2, <1>3, <1>4 DEF Busy
<1>6. \A s \in Threads : ~At(s, "get")'
  BY <1>1, <1>2, <1>3, <1>4 DEF IndInv, Waited, At
<1>7. Types'
  <2>1. task' \in [Threads -> TaskSet \cup {None}]
    BY <1>3 DEF IndInv, Types
  <2>2. /\ loop' \in {"wait", "process"}
        /\ UNCHANGED <<peer, backlog, file, reg, m_conns, events, queue>>
    BY <1>2
  <2> QED
    BY <2>1, <2>2 DEF IndInv, Types
<1>8. Names' /\ Armed'
  BY <1>2 DEF IndInv, Names, Armed, Serving, Known
<1>9. Holding'
  BY <1>1, <1>2, <1>3, <1>4 DEF IndInv, Holding
<1>10. Serves'
  <2>1. ASSUME NEW s \in Threads, s # t, Busy(s)'
        PROVE  LET y == task[s]
               IN  /\ task'[s] = y /\ y.fd \in Fds /\ file'[y.fd] # None
                   /\ y.pc = "insert" => reg'[y.fd] = "none" /\ m_conns'[y.fd] = None
                   /\ y.pc # "insert" =>
                         reg'[y.fd] = "off" /\ (Serving' => m_conns'[y.fd] = file'[y.fd])
                   /\ y.pc # "get" => y.conn # None
                   /\ y.pc = "get" => y.kind \in {"read", "write"} /\ y.about = file'[y.fd]
    <3>1. Busy(s) /\ task'[s] = task[s] /\ Serving
      BY <1>2, <1>4, <1>5, <2>1 DEF Serving
    <3> QED
      BY <1>2, <3>1 DEF IndInv, Serves, Known
  <2>2. /\ task'[t].fd = f /\ task'[t].pc \in {"read", "write"} /\ task'[t].conn # None
        /\ file'[f] # None /\ reg'[f] = "off" /\ m_conns'[f] = file'[f]
    BY <1>1, <1>2, <1>3, <1>4
  <2>3. \A r, s \in Threads : Busy(r)' /\ Busy(s)' /\ task'[r].fd = task'[s].fd => r = s
    BY <1>5 DEF IndInv, Serves
  <2> QED
    BY <1>1, <2>1, <2>2, <2>3 DEF Serves, Known
<1>11. Pending'
  <2>1. \A e : Reported(e) => Reported(e)'
    BY <1>2, <1>5 DEF Reported, Known
  <2> QED
    BY <1>2, <2>1 DEF IndInv, Pending
<1>12. Waited'
  BY <1>2, <1>6 DEF IndInv, Waited, At
<1> QED
  BY <1>7, <1>8, <1>9, <1>10, <1>11, <1>12 DEF IndInv

(* A failed recv ends everything.                                          *)
LEMMA AbortInv == \A t \in Threads : IndInv /\ RecvFails(t) => IndInv'
<1> SUFFICES ASSUME NEW t \in Threads, IndInv, RecvFails(t) PROVE IndInv'
  OBVIOUS
<1>1. /\ loop' = "aborted" /\ queue' = {} /\ events' = {}
      /\ UNCHANGED <<peer, backlog>>
      /\ \A f \in Fds : m_conns'[f] = None
      /\ \A u \in Threads : task'[u] = None
      /\ CloseUnreferenced
  BY DEF RecvFails
<1>2. \A f \in Fds : file'[f] = None /\ reg'[f] = "none"
  <2> SUFFICES ASSUME NEW f \in Fds PROVE file'[f] = None /\ reg'[f] = "none"
    OBVIOUS
  <2>1. CASE file[f] = None
    <3>1. reg[f] = "none"
      BY <2>1 DEF IndInv, Names
    <3> QED
      BY <1>1, <2>1, <3>1, Closing
  <2>2. CASE file[f] # None
    <3>1. \A g \in Fds : m_conns'[g] # file[f]
      BY <1>1, <2>2
    <3>2. Held(task') = {}
      BY <1>1 DEF Held
    <3> QED
      BY <1>1, <3>1, <3>2 DEF CloseUnreferenced
  <2> QED
    BY <2>1, <2>2
<1>3. Types'
  <2>1. m_conns' \in [Fds -> Conns \cup {None}] /\ task' \in [Threads -> TaskSet \cup {None}]
    BY DEF RecvFails
  <2>2. /\ file' \in [Fds -> Conns \cup {None}]
        /\ reg' \in [Fds -> {"none", "read", "write", "off"}]
    BY <1>1, <1>2 DEF CloseUnreferenced
  <2> QED
    BY <1>1, <2>1, <2>2 DEF IndInv, Types
<1>4. Names'
  BY <1>1, <1>2 DEF IndInv, Names
<1>5. Armed' /\ Holding' /\ Serves'
  BY <1>1, <1>2 DEF Armed, Holding, Serves, Busy
<1>6. Pending' /\ Waited'
  BY <1>1 DEF Pending, Waited, At
<1> QED
  BY <1>3, <1>4, <1>5, <1>6 DEF IndInv

-----------------------------------------------------------------------------
LEMMA NextInv == IndInv /\ [Next]_vars => IndInv'
<1>1. IndInv /\ Loop => IndInv'
  BY EpollWaitInv, ProcessSignalInv, ProcessHupInv, DispatchInv, ClearInv DEF Loop
<1>2. \A t \in Threads : IndInv /\ Thread(t) => IndInv'
  BY StartInv, AcceptInv, InsertInv, RearmInv, GetInv, AbortInv, ServeInv, ModifyInv, FreeConnInv,
     DropInv DEF Thread
<1> QED
  BY <1>1, <1>2, AroundInv DEF Next

(* The inductive invariant holds in every state that the server reaches.   *)
THEOREM ServerIndInv == Spec => []IndInv
  BY InitInv, NextInv, PTL DEF Spec

(* The variables _fd and sem of processRead and processWrite are there as  *)
(* long as a task refers to them, for any number of connections,           *)
(* descriptors and threads.                                                *)
THEOREM ServerFrameAlive == Spec => []FrameAlive
<1>1. IndInv => FrameAlive
  <2> SUFFICES ASSUME IndInv PROVE FrameAlive
    OBVIOUS
  <2>1. \A e \in queue : e.kind # "accept" => e.kind \in ConnKinds
    BY DEF IndInv, Types, ConnKinds
  <2> QED
    BY <2>1 DEF IndInv, Waited, FrameAlive
<1> QED
  BY <1>1, ServerIndInv, PTL

(* getConn finds the connection an event was reported for, however numbers *)
(* are used again.                                                         *)
THEOREM ServerEventsFindTheirConn == Spec => []EventsFindTheirConn
<1>1. IndInv => EventsFindTheirConn
  <2> SUFFICES ASSUME IndInv PROVE EventsFindTheirConn
    OBVIOUS
  <2>1. ASSUME NEW e \in events \cup queue, e.kind \in {"read", "write", "hup"},
               loop \in {"process", "sem"}
        PROVE  m_conns[e.fd] = e.about
    BY <2>1 DEF IndInv, Pending, Waited, Reported, Known, ConnKinds
  <2>2. ASSUME NEW t \in Threads, At(t, "get") PROVE m_conns[task[t].fd] = task[t].about
    BY <2>2 DEF At, Busy, IndInv, Waited, Serves, Serving, Known
  <2> QED
    BY <2>1, <2>2 DEF EventsFindTheirConn
<1> QED
  BY <1>1, ServerIndInv, PTL

(* One task at a time uses a connection.                                   *)
THEOREM ServerOneTaskPerConn == Spec => []OneTaskPerConn
<1>1. IndInv => OneTaskPerConn
  <2> SUFFICES ASSUME IndInv, NEW c \in Conns, NEW s \in Threads, NEW t \in Threads,
                      Uses(s, c), Uses(t, c)
               PROVE  s = t
    BY DEF OneTaskPerConn
  <2>1. ASSUME NEW u \in {s, t}
        PROVE  Busy(u) /\ task[u].fd \in Fds /\ file[task[u].fd] = c /\ c # None
    BY <2>1, ServerAssumption DEF Uses, IndInv, Types, TaskSet, Holding, Busy
  <2> QED
    BY <2>1 DEF IndInv, Names, Serves
<1> QED
  BY <1>1, ServerIndInv, PTL
=============================================================================
