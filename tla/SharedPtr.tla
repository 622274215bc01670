----------------------------- MODULE SharedPtr -----------------------------
(***************************************************************************)
(* memory::SharedPtr (src/memory/ptr.h): instances, used by several        *)
(* threads, that refer to objects with a shared counter.  A decrement and  *)
(* an increment of the counter, a deletion and the assignment of m_ptr and *)
(* m_cnt are one step each.                                                *)
(*                                                                         *)
(* As with the standard pointers, an instance that one call changes is not *)
(* used by another call meanwhile; several calls may copy one instance.    *)
(* No object contains an instance: operator= with such a one, of the       *)
(* object that it releases, reads freed memory (ptr.h:76).                 *)
(***************************************************************************)
EXTENDS Integers, FiniteSets

CONSTANTS Users, Instances, Objects, Nothing

VARIABLES
    m_ptr,      \* m_ptr[i]: the object i refers to (its counter is m_cnt), Nothing
                \* for a null pointer, or "unborn"
    count,      \* count[o]: the value of the counter of o
    deleted,    \* deleted[o]: how often o was deleted; Nothing before it exists
    call        \* call[u]: what u executes, or Nothing

ptrVars == <<m_ptr, count, deleted, call>>

Call(op, i, j, at) == [op |-> op, this |-> i, other |-> j, at |-> at]

Calling == {u \in Users : call[u] # Nothing}
Untouched(i) == \A u \in Calling : call[u].this # i
Unused(i) == Untouched(i) /\ \A u \in Calling : call[u].other # i

Init ==
    /\ m_ptr = [i \in Instances |-> "unborn"]
    /\ count = [o \in Objects |-> 0]
    /\ deleted = [o \in Objects |-> -1]
    /\ call = [u \in Users |-> Nothing]

-----------------------------------------------------------------------------
Fresh(o) == deleted[o] = -1

(* SharedPtr(T* ).                                                         *)
Construct(u, i) ==
    /\ call[u] = Nothing /\ m_ptr[i] = "unborn" /\ Unused(i)
    /\ \/ m_ptr' = [m_ptr EXCEPT ![i] = Nothing] /\ UNCHANGED <<count, deleted>>
       \/ \E o \in Objects :
             /\ Fresh(o)
             /\ m_ptr' = [m_ptr EXCEPT ![i] = o]
             /\ count' = [count EXCEPT ![o] = 1]
             /\ deleted' = [deleted EXCEPT ![o] = 0]
    /\ UNCHANGED call

(* SharedPtr(const SharedPtr&).                                            *)
CopyConstruct(u, i, j) ==
    /\ call[u] = Nothing /\ m_ptr[i] = "unborn" /\ m_ptr[j] # "unborn"
    /\ Unused(i) /\ Untouched(j)
    /\ call' = [call EXCEPT ![u] = Call("copy", i, j, "assign")]
    /\ UNCHANGED <<m_ptr, count, deleted>>

(* operator=, which does nothing to an instance that is given itself.      *)
Assign(u, i, j) ==
    /\ call[u] = Nothing /\ m_ptr[i] # "unborn" /\ m_ptr[j] # "unborn"
    /\ i # j /\ Unused(i) /\ Untouched(j)
    /\ call' = [call EXCEPT ![u] = Call("copy", i, j, "release")]
    /\ UNCHANGED <<m_ptr, count, deleted>>

(* reset(), reset(T* ) and ~SharedPtr.                                     *)
Reset(u, i) ==
    /\ call[u] = Nothing /\ m_ptr[i] # "unborn" /\ Unused(i)
    /\ \E op \in {"reset", "resetTo", "destroy"} :
          call' = [call EXCEPT ![u] = Call(op, i, i, "release")]
    /\ UNCHANGED <<m_ptr, count, deleted>>

Goto(u, l) == call' = [call EXCEPT ![u].at = l]

Release(u) ==
    /\ call[u] # Nothing /\ call[u].at = "release"
    /\ LET o == m_ptr[call[u].this] IN
       \/ o = Nothing /\ Goto(u, "assign") /\ UNCHANGED count
       \/ /\ o # Nothing
          /\ count' = [count EXCEPT ![o] = @ - 1]
          /\ Goto(u, IF count'[o] <= 0 THEN "delete" ELSE "assign")
    /\ UNCHANGED <<m_ptr, deleted>>

Delete(u) ==
    /\ call[u] # Nothing /\ call[u].at = "delete"
    /\ deleted' = [deleted EXCEPT ![m_ptr[call[u].this]] = @ + 1]
    /\ Goto(u, "assign")
    /\ UNCHANGED <<m_ptr, count>>

\* Mutant of AfterCopy: the new reference is not counted.
AfterCopyDone(c, o) == Nothing

AfterCopy(c, o) == IF o = Nothing THEN Nothing ELSE [c EXCEPT !.at = "count"]

AssignMembers(u) ==
    /\ call[u] # Nothing /\ call[u].at = "assign"
    /\ LET c == call[u]
           o == m_ptr[c.other]
       IN
       \/ /\ c.op = "copy"
          /\ m_ptr' = [m_ptr EXCEPT ![c.this] = o]
          /\ call' = [call EXCEPT ![u] = AfterCopy(c, o)]
          /\ UNCHANGED <<count, deleted>>
       \/ /\ c.op \in {"reset", "destroy"}
          /\ m_ptr' = [m_ptr EXCEPT ![c.this] = IF c.op = "reset" THEN Nothing ELSE "unborn"]
          /\ call' = [call EXCEPT ![u] = Nothing]
          /\ UNCHANGED <<count, deleted>>
       \/ \E n \in Objects :
             /\ c.op = "resetTo" /\ Fresh(n)
             /\ m_ptr' = [m_ptr EXCEPT ![c.this] = n]
             /\ count' = [count EXCEPT ![n] = 1]
             /\ deleted' = [deleted EXCEPT ![n] = 0]
             /\ call' = [call EXCEPT ![u] = Nothing]

Count(u) ==
    /\ call[u] # Nothing /\ call[u].at = "count"
    /\ count' = [count EXCEPT ![m_ptr[call[u].this]] = @ + 1]
    /\ call' = [call EXCEPT ![u] = Nothing]
    /\ UNCHANGED <<m_ptr, deleted>>

Next ==
    \E u \in Users :
        \/ Release(u) \/ Delete(u) \/ AssignMembers(u) \/ Count(u)
        \/ \E i \in Instances :
              \/ Construct(u, i) \/ Reset(u, i)
              \/ \E j \in Instances : CopyConstruct(u, i, j) \/ Assign(u, i, j)

Spec == Init /\ [][Next]_ptrVars

-----------------------------------------------------------------------------
(* An instance whose call has given its reference up, or has not counted   *)
(* it yet.                                                                 *)
Uncounted(i) ==
    \E u \in Calling :
        /\ call[u].this = i
        /\ call[u].at \in {"delete", "assign", "count"}

(* The counter of an object is the number of the instances that refer to   *)
(* it, those between two steps of a call aside; the object is deleted once *)
(* and with no reference left, and no call counts on a deleted object.     *)
UseCountExact ==
    \A o \in Objects : deleted[o] # -1 =>
        /\ count[o] = Cardinality({i \in Instances : m_ptr[i] = o /\ ~Uncounted(i)})
        /\ deleted[o] <= 1
        /\ deleted[o] = 1 => count[o] = 0
        /\ \A u \in Calling :
              call[u].at \in {"release", "delete", "count"} /\ m_ptr[call[u].this] = o
                  => deleted[o] = 0
=============================================================================
