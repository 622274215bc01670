-------------------------------- MODULE Once --------------------------------
(***************************************************************************)
(* sync::Once (src/sync/once.cpp): threads call onceDo, each with its      *)
(* function, and one of the functions is executed.                         *)
(***************************************************************************)
EXTENDS Naturals, FiniteSets

CONSTANTS Callers, NoCaller

VARIABLES
    m_done,
    onceLock,   \* the owner of m_lock, or NoCaller
    began, ended,   \* the callers whose function was begun, and has ended
    at          \* at[c]: where c is in onceDo

onceVars == <<m_done, onceLock, began, ended, at>>

Init ==
    /\ m_done = FALSE
    /\ onceLock = NoCaller
    /\ began = {} /\ ended = {}
    /\ at = [c \in Callers |-> "outside"]

Goto(c, l) == at' = [at EXCEPT ![c] = l]

Enter(c) ==
    /\ at[c] = "outside"
    /\ Goto(c, IF m_done THEN "returned" ELSE "lock")
    /\ UNCHANGED <<m_done, onceLock, began, ended>>

Lock(c) ==
    /\ at[c] = "lock" /\ onceLock = NoCaller
    /\ onceLock' = c
    /\ Goto(c, "test")
    /\ UNCHANGED <<m_done, began, ended>>

\* Mutant of Again: no second test.
AgainNever == FALSE

(* The test under the lock.                                                *)
Again == m_done

Test(c) ==
    /\ at[c] = "test"
    /\ Goto(c, IF Again THEN "unlock" ELSE "begin")
    /\ UNCHANGED <<m_done, onceLock, began, ended>>

Begin(c) ==
    /\ at[c] = "begin"
    /\ began' = began \cup {c}
    /\ Goto(c, "end")
    /\ UNCHANGED <<m_done, onceLock, ended>>

(* The function has returned or thrown.                                    *)
End(c) ==
    /\ at[c] = "end"
    /\ ended' = ended \cup {c}
    /\ Goto(c, "done")
    /\ UNCHANGED <<m_done, onceLock, began>>

(* doneDefer.                                                              *)
Done(c) ==
    /\ at[c] = "done"
    /\ m_done' = TRUE
    /\ Goto(c, "unlock")
    /\ UNCHANGED <<onceLock, began, ended>>

(* lockDefer, made before doneDefer and destroyed after it.                *)
Unlock(c) ==
    /\ at[c] = "unlock"
    /\ onceLock' = NoCaller
    /\ Goto(c, "returned")
    /\ UNCHANGED <<m_done, began, ended>>

(* A thread may call again.                                                *)
Return(c) ==
    /\ at[c] = "returned"
    /\ Goto(c, "outside")
    /\ UNCHANGED <<m_done, onceLock, began, ended>>

Next == \E c \in Callers :
            \/ Enter(c) \/ Lock(c) \/ Test(c) \/ Begin(c) \/ End(c) \/ Done(c)
            \/ Unlock(c) \/ Return(c)

Spec == Init /\ [][Next]_onceVars

-----------------------------------------------------------------------------
(* At most one function is executed, and none of the calls, first or late, *)
(* returns before that function has ended.                                 *)
RunsOnce ==
    /\ Cardinality(began) <= 1
    /\ \A c \in Callers : at[c] = "returned" => Cardinality(ended) = 1
=============================================================================
