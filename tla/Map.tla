--------------------------------- MODULE Map ---------------------------------
(***************************************************************************)
(* sync::Map (src/sync/map.h): a map read without a lock (m_readonly) and  *)
(* a complete one behind a lock (m_dirty), which share their entries.      *)
(*                                                                         *)
(* An entry holds nullptr (Nil, softly deleted), the pointer s_expunged    *)
(* (deleted and not in m_dirty) or a WrappedV; a value stands for the      *)
(* address of the WrappedV it is stored in, so that a store takes a value  *)
(* that is not in use.  ReadOnly is changed in place: a copy of it reads   *)
(* amended first, then m.  pc[t] is what thread t does next:               *)
(*   "idle"     outside the map                                            *)
(*   "copy"     about to read m_readonly->amended                          *)
(*   "find"     about to copy m_readonly->m and look the key up            *)
(*   "entry"    about to use the entry e[t]                                *)
(*   "lock"     about to take m_dirtyLock and look again                   *)
(*   "put"      in storeLocked, on e[t]                                    *)
(*   "fill"     a store of a new key, in dirtyLocked or past it            *)
(*   "unamend"  in readonlyLocked, between its two writes                  *)
(*   "walk"     range, about to copy the read-only map                     *)
(*   "visit"    range, in the loop over its copy                           *)
(*   "return"   about to free the lock, if held, and to return             *)
(***************************************************************************)
EXTENDS Integers, FiniteSets

CONSTANTS
    Threads, Keys, Values,
    Nil, Marker,        \* nullptr; the object s_expunged points to at first
    Absent, Done,       \* no value; the answer of a store or an evict
    Open, None          \* no answer yet; no thread, call or entry

VARIABLES
    cont,       \* cont[x]: the container of entry x
    s_expunged,
    ro,         \* *m_readonly: [m, amended], m a function from keys to entries
    m_misses,
    m_dirty,    \* a function from keys to entries
    m_dirtyLock,
    todo,       \* the keys that dirtyLocked has still to visit
    pc, call,
    e,          \* e[t]: the entry t has found
    amended,    \* amended[t]: of the local copy of t
    view,       \* view[t]: what range has still to visit of its copy
    got,        \* got[t]: the values it has passed to f
    ret,        \* ret[t]: the answer, from the instant it is certain
    seen        \* history, seen[t]: for each key that the call of t asks for, the
                \* values that it has had since the call began

vars == <<cont, s_expunged, ro, m_misses, m_dirty, m_dirtyLock, todo, pc, call, e,
          amended, view, got, ret, seen>>

Loads == [op : {"load"}, key : Keys]
Stores == [op : {"store"}, key : Keys, val : Values]
Evicts == [op : {"evict"}, key : Keys]
RangeCall == [op |-> "range"]
Calls == Loads \cup Stores \cup Evicts \cup {RangeCall}

(* What a call may answer.                                                 *)
Answers == Values \cup {Absent, Done} \cup [Keys -> Values \cup {Absent}]

ASSUME MapAssumption ==
    /\ IsFiniteSet(Threads) /\ IsFiniteSet(Keys)
    /\ Nil \notin Values \cup {Marker} /\ Marker \notin Values
    /\ None \notin Threads \cup Calls \cup Nat
    /\ Open \notin Answers

(* A key has at most one entry in the two maps, and each thread may be     *)
(* left with one of each key that has gone from them.                      *)
Entries == 1..(Cardinality(Keys) * (Cardinality(Threads) + 1))

Mapped(m, k) == IF k \in DOMAIN m THEN m[k] ELSE None
Insert(m, k, x) == [j \in DOMAIN m \cup {k} |-> IF j \in DOMAIN m THEN m[j] ELSE x]
Without(m, k) == [j \in DOMAIN m \ {k} |-> m[j]]

InUse == {ro.m[k] : k \in DOMAIN ro.m} \cup {m_dirty[k] : k \in DOMAIN m_dirty}
         \cup {e[t] : t \in Threads}
         \cup UNION {{view[t][k] : k \in DOMAIN view[t]} : t \in Threads}
NewEntry == CHOOSE x \in Entries : x \notin InUse

(* What Entry::load finds in an entry.                                     *)
Read(x) == IF cont[x] \in {Nil, s_expunged} THEN Absent ELSE cont[x]

(* The map as a caller sees it.                                            *)
Content ==
    [k \in Keys |->
        IF k \in DOMAIN ro.m THEN Read(ro.m[k])
        ELSE IF ro.amended /\ k \in DOMAIN m_dirty THEN Read(m_dirty[k])
        ELSE Absent]

EmptyMap == [k \in {} |-> None]

Init ==
    /\ cont = [x \in Entries |-> Nil]
    /\ s_expunged = Marker
    /\ ro = [m |-> EmptyMap, amended |-> FALSE]
    /\ m_misses = 0
    /\ m_dirty = EmptyMap
    /\ m_dirtyLock = None
    /\ todo = {}
    /\ pc = [t \in Threads |-> "idle"]
    /\ call = [t \in Threads |-> None]
    /\ e = [t \in Threads |-> None]
    /\ amended = [t \in Threads |-> FALSE]
    /\ view = [t \in Threads |-> EmptyMap]
    /\ got = [t \in Threads |-> EmptyMap]
    /\ ret = [t \in Threads |-> Open]
    /\ seen = [t \in Threads |-> EmptyMap]

-----------------------------------------------------------------------------
Goto(t, l) == pc' = [pc EXCEPT ![t] = l]

(* The call of t will return r.                                            *)
Decide(t, r) == ret' = [ret EXCEPT ![t] = r]

maps == <<ro, m_misses, m_dirty>>
store == <<cont, s_expunged>>
walk == <<view, got>>
Live == {cont[x] : x \in InUse \ {None}}
        \cup {call[t].val : t \in {u \in Threads : call[u] \in Stores}}
        \cup UNION {UNION {seen[t][k] : k \in DOMAIN seen[t]} : t \in Threads}

Begin(t, c) ==
    /\ pc[t] = "idle"
    /\ c \in Stores => c.val \notin Live
    /\ call' = [call EXCEPT ![t] = c]
    /\ Goto(t, "copy")
    /\ UNCHANGED <<store, maps, m_dirtyLock, todo, e, amended, walk, ret>>

(* ReadOnly(const ReadOnly&): the flag, then the map.                      *)
Copy(t) ==
    /\ pc[t] = "copy"
    /\ amended' = [amended EXCEPT ![t] = ro.amended]
    /\ Goto(t, "find")
    /\ UNCHANGED <<store, maps, m_dirtyLock, todo, call, e, walk, ret>>

(* The answer when the key is in no map.                                   *)
NotFound(t) == IF call[t].op = "load" THEN Absent ELSE Done

(* The first look: an entry is used without the lock; without one, a load  *)
(* or an evict of a map that is complete ends here.                        *)
Find(t) ==
    LET c == call[t]
        x == IF c = RangeCall THEN None ELSE Mapped(ro.m, c.key) IN
    /\ pc[t] = "find"
    /\ e' = [e EXCEPT ![t] = x]
    /\ \/ x # None /\ Goto(t, "entry") /\ UNCHANGED ret
       \/ /\ x = None /\ (amended[t] \/ c.op = "store")
          /\ Goto(t, "lock") /\ UNCHANGED ret
       \/ /\ x = None /\ ~amended[t] /\ c.op \in {"load", "evict"}
          /\ Goto(t, "return") /\ Decide(t, NotFound(t))
       \/ /\ c = RangeCall /\ ~amended[t]
          /\ Goto(t, "walk") /\ UNCHANGED ret
    /\ UNCHANGED <<store, maps, m_dirtyLock, todo, call, amended, walk>>

-----------------------------------------------------------------------------
(* The methods of an entry, each a loop around one compare and exchange.   *)

Use(t, op) == pc[t] = "entry" /\ call[t].op = op

EntryLoad(t) ==
    /\ Use(t, "load")
    /\ Decide(t, Read(e[t]))
    /\ Goto(t, "return")
    /\ UNCHANGED <<store, maps, m_dirtyLock, todo, call, e, amended, walk>>

Storable(c) == c # s_expunged

TryStore(t) ==
    /\ Use(t, "store")
    /\ \/ /\ Storable(cont[e[t]])
          /\ cont' = [cont EXCEPT ![e[t]] = call[t].val]
          /\ Decide(t, Done)
          /\ Goto(t, "return")
       \/ /\ ~Storable(cont[e[t]])
          /\ Goto(t, "lock")
          /\ UNCHANGED <<cont, ret>>
    /\ UNCHANGED <<s_expunged, maps, m_dirtyLock, todo, call, e, amended, walk>>

EntryEvict(t) ==
    /\ Use(t, "evict")
    /\ cont' = IF cont[e[t]] \in {Nil, s_expunged} THEN cont
               ELSE [cont EXCEPT ![e[t]] = Nil]
    /\ Decide(t, Done)
    /\ Goto(t, "return")
    /\ UNCHANGED <<s_expunged, maps, m_dirtyLock, todo, call, e, amended, walk>>

-----------------------------------------------------------------------------
(* Under the lock.                                                         *)

Lock(t) == pc[t] = "lock" /\ m_dirtyLock = None

(* readonlyLocked: m_readonly->m becomes the dirty map, d, and then, in    *)
(* Unamend, m_readonly->amended FALSE and m_misses zero.                   *)
Publish(t, d) ==
    /\ ro' = [ro EXCEPT !.m = d]
    /\ m_dirty' = EmptyMap
    /\ Goto(t, "unamend")
    /\ UNCHANGED m_misses

(* A load or an evict: the second look, then m_dirty and missLocked.       *)
LockedLook(t) ==
    LET c == call[t]
        x == Mapped(ro.m, c.key)
        d == IF c.op = "evict" THEN Without(m_dirty, c.key) ELSE m_dirty
        y == IF c.op = "load" THEN Mapped(m_dirty, c.key) ELSE None IN
    /\ Lock(t) /\ c.op \in {"load", "evict"}
    /\ m_dirtyLock' = t
    /\ e' = [e EXCEPT ![t] = IF x # None THEN x ELSE IF ro.amended THEN y ELSE None]
    /\ IF e'[t] = None THEN Decide(t, NotFound(t)) ELSE UNCHANGED ret
    /\ \/ /\ x # None /\ Goto(t, "entry") /\ UNCHANGED maps
       \/ /\ x = None /\ ~ro.amended /\ Goto(t, "return") /\ UNCHANGED maps
       \/ /\ x = None /\ ro.amended
          /\ \/ m_misses + 1 >= Cardinality(DOMAIN d) /\ Publish(t, d)
             \/ /\ m_misses + 1 < Cardinality(DOMAIN d)
                /\ m_misses' = m_misses + 1
                /\ m_dirty' = d
                /\ Goto(t, IF y = None THEN "return" ELSE "entry")
                /\ UNCHANGED ro
    /\ UNCHANGED <<store, todo, call, amended, walk>>

LockedRange(t) ==
    /\ Lock(t) /\ call[t] = RangeCall
    /\ \/ ro.amended /\ m_dirtyLock' = t /\ Publish(t, m_dirty)
       \/ ~ro.amended /\ Goto(t, "walk") /\ UNCHANGED <<m_dirtyLock, maps>>
    /\ UNCHANGED <<store, todo, call, e, amended, walk, ret>>

(* range() has its guard in a block of its own and frees the lock here.    *)
Unamend(t) ==
    /\ pc[t] = "unamend"
    /\ ro' = [ro EXCEPT !.amended = FALSE]
    /\ m_misses' = 0
    /\ m_dirtyLock' = IF call[t] = RangeCall THEN None ELSE m_dirtyLock
    /\ Goto(t, IF call[t] = RangeCall THEN "walk"
               ELSE IF e[t] = None THEN "return" ELSE "entry")
    /\ UNCHANGED <<store, m_dirty, todo, call, e, amended, walk, ret>>

\* Mutant of Revived: the entry is not put back into the dirty map.
RevivedAlone(k, x) == m_dirty

(* What unexpungeLocked's caller does when the entry was expunged.         *)
Revived(k, x) == Insert(m_dirty, k, x)

(* store: an entry found in the second look, or left from the first one.   *)
(* The exchange of unexpungeLocked that fails overwrites s_expunged, its   *)
(* expected value.                                                         *)
StoreFound(t) ==
    LET k == call[t].key
        x == IF k \in DOMAIN ro.m THEN ro.m[k] ELSE e[t] IN
    /\ Lock(t) /\ call[t].op = "store" /\ x # None
    /\ m_dirtyLock' = t
    /\ e' = [e EXCEPT ![t] = x]
    /\ IF cont[x] = s_expunged
       THEN /\ cont' = [cont EXCEPT ![x] = Nil]
            /\ m_dirty' = Revived(k, x)
            /\ UNCHANGED s_expunged
       ELSE s_expunged' = cont[x] /\ UNCHANGED <<cont, m_dirty>>
    /\ Goto(t, "put")
    /\ UNCHANGED <<ro, m_misses, todo, call, amended, walk, ret>>

StoreDirty(t) ==
    LET k == call[t].key IN
    /\ Lock(t) /\ call[t].op = "store"
    /\ k \notin DOMAIN ro.m /\ e[t] = None /\ k \in DOMAIN m_dirty
    /\ m_dirtyLock' = t
    /\ e' = [e EXCEPT ![t] = m_dirty[k]]
    /\ Goto(t, "put")
    /\ UNCHANGED <<store, maps, todo, call, amended, walk, ret>>

(* storeLocked, whatever the container holds.                              *)
Put(t) ==
    /\ pc[t] = "put"
    /\ cont' = [cont EXCEPT ![e[t]] = call[t].val]
    /\ Decide(t, Done)
    /\ Goto(t, "return")
    /\ UNCHANGED <<s_expunged, maps, m_dirtyLock, todo, call, e, amended, walk>>

(* store of a key that is in no map.                                       *)
StoreNew(t) ==
    LET k == call[t].key
        fill == ~ro.amended /\ m_dirty = EmptyMap IN
    /\ Lock(t) /\ call[t].op = "store"
    /\ k \notin DOMAIN ro.m \cup DOMAIN m_dirty /\ e[t] = None
    /\ m_dirtyLock' = t
    /\ ro' = [ro EXCEPT !.amended = TRUE]
    /\ todo' = IF fill THEN DOMAIN ro.m ELSE {}
    /\ Goto(t, "fill")
    /\ UNCHANGED <<store, m_misses, m_dirty, call, e, amended, walk, ret>>

\* Mutant of Expunged: softly deleted entries are left out but not marked.
SkippedOnly(x) == cont

(* tryExpungeLocked on an entry without a value.                           *)
Expunged(x) == [cont EXCEPT ![x] = s_expunged]

(* One round of dirtyLocked: what is softly deleted is expunged, the rest  *)
(* is in both maps.                                                        *)
Fill(t) ==
    /\ pc[t] = "fill"
    /\ \E k \in todo :
          LET x == ro.m[k]
              gone == cont[x] \in {Nil, s_expunged} IN
          /\ cont' = IF gone THEN Expunged(x) ELSE cont
          /\ m_dirty' = IF gone THEN m_dirty ELSE Insert(m_dirty, k, x)
          /\ todo' = todo \ {k}
    /\ UNCHANGED <<s_expunged, ro, m_misses, m_dirtyLock, pc, call, e, amended,
                   walk, ret>>

InsertNew(t) ==
    /\ pc[t] = "fill" /\ todo = {}
    /\ m_dirty' = Insert(m_dirty, call[t].key, NewEntry)
    /\ cont' = [cont EXCEPT ![NewEntry] = call[t].val]
    /\ Decide(t, Done)
    /\ Goto(t, "return")
    /\ UNCHANGED <<s_expunged, ro, m_misses, m_dirtyLock, todo, call, e, amended, walk>>

(* The last part of range: a copy of the map, and f for each entry of it.  *)
WalkCopy(t) ==
    /\ pc[t] = "walk"
    /\ view' = [view EXCEPT ![t] = ro.m]
    /\ Goto(t, "visit")
    /\ UNCHANGED <<store, maps, m_dirtyLock, todo, call, e, amended, got, ret>>

Visit(t) ==
    /\ pc[t] = "visit"
    /\ \E k \in DOMAIN view[t] :
          /\ got' = [got EXCEPT ![t] = Insert(@, k, Read(view[t][k]))]
          /\ view' = [view EXCEPT ![t] = Without(@, k)]
    /\ UNCHANGED <<store, maps, m_dirtyLock, todo, pc, call, e, amended, ret>>

WalkEnd(t) ==
    /\ pc[t] = "visit" /\ DOMAIN view[t] = {}
    /\ Decide(t, [k \in Keys |-> IF k \in DOMAIN got[t] THEN got[t][k] ELSE Absent])
    /\ got' = [got EXCEPT ![t] = EmptyMap]
    /\ Goto(t, "return")
    /\ UNCHANGED <<store, maps, m_dirtyLock, todo, call, e, amended, view>>

Return(t) ==
    /\ pc[t] = "return"
    /\ m_dirtyLock' = IF m_dirtyLock = t THEN None ELSE m_dirtyLock
    /\ call' = [call EXCEPT ![t] = None]
    /\ e' = [e EXCEPT ![t] = None]
    /\ amended' = [amended EXCEPT ![t] = FALSE]
    /\ ret' = [ret EXCEPT ![t] = Open]
    /\ Goto(t, "idle")
    /\ UNCHANGED <<store, maps, todo, walk>>

-----------------------------------------------------------------------------
(* The keys whose values a call answers with, or may find absent.          *)
Watched(c) ==
    IF c = RangeCall THEN Keys ELSE IF c \in Stores THEN {} ELSE {c.key}

(* The history is kept from the first step of a call to its answer.        *)
Asks(t) == IF call[t] = None \/ ret[t] # Open THEN {} ELSE Watched(call[t])

Observe ==
    seen' = [t \in Threads |-> [k \in Asks(t)' |->
                (IF k \in Asks(t) THEN seen[t][k] ELSE {}) \cup {Content'[k]}]]

OtherStep(t) ==
    \/ Copy(t) \/ Find(t) \/ EntryLoad(t) \/ TryStore(t) \/ EntryEvict(t)
    \/ LockedLook(t) \/ LockedRange(t) \/ Unamend(t)
    \/ StoreDirty(t) \/ Put(t) \/ StoreNew(t) \/ Fill(t) \/ InsertNew(t)
    \/ WalkCopy(t) \/ Visit(t) \/ WalkEnd(t) \/ Return(t)

Step(t) == OtherStep(t) \/ StoreFound(t)

Next == (\E t \in Threads : (\E c \in Calls : Begin(t, c)) \/ Step(t)) /\ Observe

Spec == Init /\ [][Next]_vars

-----------------------------------------------------------------------------
(* The two ways in which StoreFound goes wrong: unexpungeLocked is tried   *)
(* on an entry that is not expunged, and its exchange overwrites the       *)
(* marker of all maps;                                                     *)
ExchangeFails(t) ==
    LET k == call[t].key
        x == IF k \in DOMAIN ro.m THEN ro.m[k] ELSE e[t] IN
    cont[x] # s_expunged

(* or the entry is that of the first look and has left the read-only map:  *)
(* it goes into a dirty map that nobody reads, or that has another entry   *)
(* for the key, or that an evict can take it from while another store is   *)
(* about to use it without the lock.                                       *)
EntryStale(t) == call[t].key \notin DOMAIN ro.m

(* The map until the first of these steps: every call may overlap every    *)
(* other one.                                                              *)
SoundNext ==
    /\ \E t \in Threads :
          \/ \E c \in Calls : Begin(t, c)
          \/ OtherStep(t)
          \/ StoreFound(t) /\ ~ExchangeFails(t) /\ ~EntryStale(t)
    /\ Observe

SoundSpec == Init /\ [][SoundNext]_vars

-----------------------------------------------------------------------------
(* "m_dirty holds the full data" (map.h:18, 113-115): while the read-only  *)
(* map is amended, each of its entries is in the dirty map as well unless  *)
(* it is expunged, and an expunged entry is not; without the flag there is *)
(* nothing in the dirty map.                                               *)
DirtyComplete ==
    \/ \E t \in Threads : pc[t] = "unamend"
    \/ /\ ro.amended
       /\ \A k \in DOMAIN ro.m \ todo :
            IF cont[ro.m[k]] = s_expunged THEN k \notin DOMAIN m_dirty
            ELSE k \in DOMAIN m_dirty /\ m_dirty[k] = ro.m[k]
    \/ ~ro.amended /\ m_dirty = EmptyMap

(* Every store and evict takes effect at one instant, and a load, a range  *)
(* and an evict that finds nothing answer with what a key held at some     *)
(* instant of the call.                                                    *)
Atomic == INSTANCE AtomicMap WITH NoCall <- None, content <- Content

ImplementsAtomicMap == Atomic!Spec
=============================================================================
