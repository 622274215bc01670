------------------------------ MODULE MCMapRace ------------------------------
(***************************************************************************)
(* How a store goes wrong: one thread stores and evicts while the others   *)
(* load, and the map is compared with what was last put into it.           *)
(***************************************************************************)
EXTENDS Map

CONSTANT Writer

VARIABLE last   \* last[k]: what the writer's last call on k stored, or Absent

raceVars == <<vars, last>>

CallsOf(t) == IF t = Writer THEN Stores \cup Evicts ELSE Loads

RaceInit == Init /\ last = [k \in Keys |-> Absent]

RaceBegin(t) ==
    \E c \in CallsOf(t) :
        /\ Begin(t, c)
        /\ last' = IF c \in Stores THEN [last EXCEPT ![c.key] = c.val]
                   ELSE IF c \in Evicts THEN [last EXCEPT ![c.key] = Absent]
                   ELSE last

RaceNext ==
    /\ \E t \in Threads : RaceBegin(t) \/ (Step(t) /\ UNCHANGED last)
    /\ Observe

RaceSpec == RaceInit /\ [][RaceNext]_raceVars

(* "A map that is safe under concurrency" (map.h:14): between two calls of *)
(* the only thread that changes the map, each key has the value that this  *)
(* thread gave it.                                                         *)
StoresKept == call[Writer] = None => \A k \in Keys : Content[k] = last[k]
=============================================================================
