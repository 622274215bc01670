------------------------------ MODULE AtomicMap ------------------------------
(***************************************************************************)
(* What sync::Map promises: a map from keys to values on which a store and *)
(* an evict take effect at one instant between their invocation and their  *)
(* return, and a load answers with what its key held at such an instant.   *)
(* A range says so of each key by itself, and an evict need not find the   *)
(* key if it was absent at such an instant.                                *)
(***************************************************************************)
CONSTANTS Threads, Keys, Calls, Absent, Done, NoCall, Open

VARIABLES
    content,    \* content[k]: the value of key k, or Absent
    call,       \* call[t]: the call of t, or NoCall
    ret,        \* ret[t]: its answer, or Open
    seen        \* seen[t]: what each key that the call asks for has held so far

vars == <<content, call, ret, seen>>

(* The keys that a call asks for, until it has its answer.                 *)
Watched(c) ==
    CASE c.op = "range" -> Keys
      [] c.op = "store" -> {}
      [] OTHER          -> {c.key}

Waits(t) == call[t] # NoCall /\ ret[t] = Open

Asks(t) == IF Waits(t) THEN Watched(call[t]) ELSE {}

Init ==
    /\ content = [k \in Keys |-> Absent]
    /\ call = [t \in Threads |-> NoCall]
    /\ ret = [t \in Threads |-> Open]
    /\ seen = [t \in Threads |-> [k \in {} |-> {}]]

Observe ==
    seen' = [t \in Threads |-> [k \in Asks(t)' |->
                (IF k \in Asks(t) THEN seen[t][k] ELSE {}) \cup {content'[k]}]]

Invoke(t, c) ==
    /\ call[t] = NoCall
    /\ call' = [call EXCEPT ![t] = c]
    /\ UNCHANGED <<content, ret>>

Answer(t, r) == Waits(t) /\ ret' = [ret EXCEPT ![t] = r] /\ UNCHANGED call

Change(t) ==
    /\ Answer(t, Done)
    /\ \/ /\ call[t].op = "store"
          /\ content' = [content EXCEPT ![call[t].key] = call[t].val]
       \/ /\ call[t].op = "evict"
          /\ content' = [content EXCEPT ![call[t].key] = Absent]

Look(t) ==
    /\ Waits(t)
    /\ \/ call[t].op = "load" /\ \E v \in seen[t][call[t].key] : Answer(t, v)
       \/ /\ call[t].op = "range"
          /\ \E r \in [Keys -> UNION {seen[t][k] : k \in Keys}] :
                (\A k \in Keys : r[k] \in seen[t][k]) /\ Answer(t, r)
       \/ call[t].op = "evict" /\ Absent \in seen[t][call[t].key] /\ Answer(t, Done)
    /\ UNCHANGED content

Respond(t) ==
    /\ call[t] # NoCall /\ ret[t] # Open
    /\ call' = [call EXCEPT ![t] = NoCall]
    /\ ret' = [ret EXCEPT ![t] = Open]
    /\ UNCHANGED content

Next ==
    /\ \E t \in Threads :
          (\E c \in Calls : Invoke(t, c)) \/ Change(t) \/ Look(t) \/ Respond(t)
    /\ Observe

Spec == Init /\ [][Next]_vars
=============================================================================
