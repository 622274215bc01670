------------------------------ MODULE MCBricks ------------------------------
(***************************************************************************)
(* The small components, each on its own: a behaviour is one of ConnPool,  *)
(* whose names this module extends, or of Logger, SharedPtr, Once or       *)
(* Coroutine, while the variables of the others keep their first values.   *)
(***************************************************************************)
EXTENDS ConnPool, TLC

CONSTANTS
    m_splitLines, bufferSize, MonthDays, MaxDay, MaxLines, MaxRuns,
    Users, Instances, Objects, Nothing,
    Callers, NoCaller,
    Coroutines, Main, NoContext, Laps

(* What a thread of SharedPtr may execute.                                 *)
PtrCalls == [op : {"copy", "reset", "resetTo", "destroy"},
             this : Instances, other : Instances,
             at : {"release", "delete", "assign", "count"}]

ASSUME BricksAssumption ==
    /\ m_splitLines \in Nat \ {0} /\ bufferSize \in Nat \ {0}
    /\ MonthDays \in Nat \ {0, 1} /\ Laps \in Nat \ {0, 1}
    /\ Main \notin Coroutines /\ NoContext \notin Coroutines \cup {Main}
    /\ NoCaller \notin Callers
    /\ IsFiniteSet(Instances)
    /\ "unborn" \notin Objects /\ Nothing \notin Objects \cup PtrCalls \cup {"unborn"}

VARIABLES
    which,
    day, run, logged, accepted, m_buffer, bufferClosed, item, seen, m_cnt, m_today,
    m_file, written, writer, ending,
    m_ptr, count, deleted, call,
    m_done, onceLock, began, ended, at,
    m_state, t_curWorker, m_core, flow, lap, fresh

Log == INSTANCE Logger
Ptr == INSTANCE SharedPtr
One == INSTANCE Once
Co == INSTANCE Coroutine

logVars == <<day, run, logged, accepted, m_buffer, bufferClosed, item, seen, m_cnt,
             m_today, m_file, written, writer, ending>>
ptrVars == <<m_ptr, count, deleted, call>>
oneVars == <<m_done, onceLock, began, ended, at>>
coVars == <<m_state, t_curWorker, m_core, flow, lap, fresh>>

BricksInit ==
    /\ which \in {"ConnPool", "Logger", "SharedPtr", "Once", "Coroutine"}
    /\ Init
    /\ which # "ConnPool" => m_minSize = minSize
    /\ Log!Init /\ Ptr!Init /\ One!Init /\ Co!Init

BricksNext ==
    /\ UNCHANGED which
    /\ \/ which = "ConnPool" /\ Next /\ UNCHANGED <<logVars, ptrVars, oneVars, coVars>>
       \/ which = "Logger" /\ Log!Next /\ UNCHANGED <<vars, ptrVars, oneVars, coVars>>
       \/ which = "SharedPtr" /\ Ptr!Next /\ UNCHANGED <<vars, logVars, oneVars, coVars>>
       \/ which = "Once" /\ One!Next /\ UNCHANGED <<vars, logVars, ptrVars, coVars>>
       \/ which = "Coroutine" /\ Co!Next /\ UNCHANGED <<vars, logVars, ptrVars, oneVars>>

BricksSpec == BricksInit /\ [][BricksNext]_<<which, vars, logVars, ptrVars, oneVars, coVars>>

(* Model values for ConnPool.                                              *)
ConnSymmetry == Permutations(Clients) \cup Permutations(Conns)
(* Below zero, zero, what was meant, and above the maximum.                *)
AnyMinSize == {-1, 0, 1, 3}

(* The properties of the components, stated with each of them.             *)

(* Logger: the lines come into the files in their order, none lost while   *)
(* the logger lives.                                                       *)
InOrder == Log!InOrder

(* Logger: no file has more than splitLines lines of a run.                *)
SplitsInTime == Log!SplitsInTime

(* Logger: a line is in a file of its day.                                 *)
FileOfItsDay == Log!FileOfItsDay

(* SharedPtr: counters are exact, an object is deleted once, by the last.  *)
UseCountExact == Ptr!UseCountExact

(* Once: one function, and every call returns after its end.               *)
RunsOnce == One!RunsOnce

(* Coroutine: GetThis() runs, from where it was left.                      *)
ResumesWhereLeft == Co!ResumesWhereLeft
=============================================================================
