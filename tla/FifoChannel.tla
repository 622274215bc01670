----------------------------- MODULE FifoChannel -----------------------------
(***************************************************************************)
(* What sync::Channel<T> promises its callers: a closable FIFO queue of    *)
(* bounded capacity whose every call takes effect at one instant between   *)
(* its start and its return.  Batches are atomic: writeN puts all of its   *)
(* data at the end of the queue or none of it, readN takes its data from   *)
(* the front or nothing.  A call fails only when the channel is closed or  *)
(* when it is non-blocking and cannot be served.                           *)
(***************************************************************************)
EXTENDS Integers, Sequences

CONSTANTS
    Threads,    \* the threads that call the channel
    NoCall,     \* the value of call[t] while t is outside the channel
    Calls,      \* the calls a thread may make, see Channel
    Cap         \* the capacity

VARIABLES
    q,          \* the data written and not read yet, oldest first
    closed,     \* TRUE once some close() has taken effect
    phase,      \* phase[t]: "idle", "called" (no effect yet) or "done"
    call,       \* call[t]: the call t is executing
    res         \* res[t]: its result, from the instant of its effect

vars == <<q, closed, phase, call, res>>

Result(ok, datas) == [ok |-> ok, datas |-> datas]
Failure == Result(FALSE, <<>>)

(* The call c can be served by the queue as it is.                         *)
Served(c) ==
    \/ c.op = "writeN" /\ Len(q) + Len(c.datas) <= Cap
    \/ c.op = "readN" /\ c.size <= Len(q)

-----------------------------------------------------------------------------
Init ==
    /\ q = <<>>
    /\ closed = FALSE
    /\ phase = [t \in Threads |-> "idle"]
    /\ call = [t \in Threads |-> NoCall]
    /\ res = [t \in Threads |-> Failure]

Done(t, r) ==
    /\ phase' = [phase EXCEPT ![t] = "done"]
    /\ res' = [res EXCEPT ![t] = r]

Start(t, c) ==
    /\ phase[t] = "idle"
    /\ call' = [call EXCEPT ![t] = c]
    /\ phase' = [phase EXCEPT ![t] = "called"]
    /\ UNCHANGED <<q, closed, res>>

(* A call that starts when the channel is already closed is answered at    *)
(* once.                                                                   *)
Reject(t, c) ==
    /\ phase[t] = "idle"
    /\ closed
    /\ call' = [call EXCEPT ![t] = c]
    /\ Done(t, Failure)
    /\ UNCHANGED <<q, closed>>

Write(t) ==
    /\ phase[t] = "called"
    /\ ~closed
    /\ call[t].op = "writeN"
    /\ Served(call[t])
    /\ q' = q \o call[t].datas
    /\ Done(t, Result(TRUE, <<>>))
    /\ UNCHANGED <<closed, call>>

Read(t) ==
    /\ phase[t] = "called"
    /\ ~closed
    /\ call[t].op = "readN"
    /\ Served(call[t])
    /\ q' = SubSeq(q, call[t].size + 1, Len(q))
    /\ Done(t, Result(TRUE, SubSeq(q, 1, call[t].size)))
    /\ UNCHANGED <<closed, call>>

Close(t) ==
    /\ phase[t] = "called"
    /\ ~closed
    /\ call[t].op = "close"
    /\ closed' = TRUE
    /\ Done(t, Result(TRUE, <<>>))
    /\ UNCHANGED <<q, call>>

Fail(t) ==
    /\ phase[t] = "called"
    /\ \/ closed
       \/ call[t].op # "close" /\ call[t].nonblock /\ ~Served(call[t])
    /\ Done(t, Failure)
    /\ UNCHANGED <<q, closed, call>>

Finish(t) ==
    /\ phase[t] = "done"
    /\ phase' = [phase EXCEPT ![t] = "idle"]
    /\ call' = [call EXCEPT ![t] = NoCall]
    /\ res' = [res EXCEPT ![t] = Failure]
    /\ UNCHANGED <<q, closed>>

Next ==
    \E t \in Threads :
        \/ \E c \in Calls : Start(t, c) \/ Reject(t, c)
        \/ Write(t) \/ Read(t) \/ Close(t) \/ Fail(t) \/ Finish(t)

Spec == Init /\ [][Next]_vars
=============================================================================
