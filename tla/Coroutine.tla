----------------------------- MODULE Coroutine -----------------------------
(***************************************************************************)
(* sync::Coroutine (src/sync/coroutine.cpp) on one thread: contexts that   *)
(* are saved and resumed by swapcontext, the main coroutine between them.  *)
(*                                                                         *)
(* A context is a flow of control (the stack it is on) and how far it was; *)
(* a switch is one step.  go() is called by the main coroutine, as the     *)
(* comment at coroutine.cpp:129 takes for granted; from another one it     *)
(* saves that one's context in place of the main one.  The main coroutine  *)
(* is taken to live as long as its thread; in the code it is a local       *)
(* variable of the function given to t_once (coroutine.cpp:55).            *)
(***************************************************************************)
EXTENDS Naturals

CONSTANTS Coroutines, Main, NoContext, Laps

All == Coroutines \cup {Main}

VARIABLES
    m_state,
    t_curWorker,
    m_core,     \* m_core[c]: the context saved there
    flow,       \* the flow that the thread executes
    lap,        \* lap[f]: how often f was left, modulo Laps
    fresh       \* flow goes on where it was left

coVars == <<m_state, t_curWorker, m_core, flow, lap, fresh>>

Init ==
    /\ m_state = [c \in All |-> "Idle"]
    /\ t_curWorker = NoContext
    /\ m_core = [c \in All |-> NoContext]
    /\ flow = Main
    /\ lap = [c \in All |-> 0]
    /\ fresh = TRUE

-----------------------------------------------------------------------------
(* The constructor, and that of the main coroutine before the first one.   *)
Create(c) ==
    /\ m_state[c] = "Idle"
    /\ m_state' = [m_state EXCEPT ![c] = "Runnable",
                                  ![Main] = IF @ = "Idle" THEN "Running" ELSE @]
    /\ t_curWorker' = IF m_state[Main] = "Idle" THEN Main ELSE t_curWorker
    /\ m_core' = [m_core EXCEPT ![c] = <<c, 0>>]
    /\ UNCHANGED <<flow, lap, fresh>>

\* Mutant of Saved: setcontext in the place of swapcontext in sched().
SavedOfMain(from, context) ==
    IF from = Main THEN [m_core EXCEPT ![from] = context] ELSE m_core

Saved(from, context) == [m_core EXCEPT ![from] = context]

(* swapcontext(&from->m_core, &to->m_core).                                *)
SwapContext(from, to) ==
    /\ lap' = [lap EXCEPT ![flow] = (@ + 1) % Laps]
    /\ m_core' = Saved(from, <<flow, lap'[flow]>>)
    /\ flow' = m_core'[to][1]
    /\ fresh' = (m_core'[to][2] = lap'[flow'])

Go(c) ==
    /\ flow = Main /\ m_state[c] = "Runnable"
    /\ m_state' = [m_state EXCEPT ![c] = "Running", ![Main] = "Waiting"]
    /\ t_curWorker' = c
    /\ SwapContext(Main, c)

Leave(c, state) ==
    /\ t_curWorker' = Main
    /\ m_state' = [m_state EXCEPT ![Main] = "Running", ![c] = state]
    /\ SwapContext(c, Main)

(* sched() of any coroutine; of one that does not run it does nothing.     *)
Sched(c) == m_state[c] = "Running" /\ Leave(c, "Runnable")

(* The Defer of Fc: GetThis()->exit(); with the main coroutine Fc returns  *)
(* and ends the thread, which has no step here.                            *)
Exit ==
    /\ flow # Main /\ t_curWorker \notin {Main, NoContext}
    /\ Leave(t_curWorker, "Dead")

Next == Exit \/ \E c \in Coroutines : Create(c) \/ Go(c) \/ Sched(c)

Spec == Init /\ [][Next]_coVars

-----------------------------------------------------------------------------
(* GetThis() is the coroutine on whose stack the thread is; it alone is    *)
(* Running, the main one waits meanwhile, and each goes on where it was    *)
(* left: nobody returns from the same switch twice.                        *)
ResumesWhereLeft ==
    /\ fresh
    /\ t_curWorker # NoContext =>
          /\ t_curWorker = flow
          /\ \A c \in All : m_state[c] = "Running" <=> c = flow
          /\ m_state[Main] = "Waiting" <=> flow # Main
=============================================================================
