------------------------------ MODULE MapProofs ------------------------------
(***************************************************************************)
(* Proofs about Map, for every set of threads, keys and values that        *)
(* MapAssumption allows: whatever calls overlap, until a store goes wrong  *)
(* in one of the two ways that SoundSpec leaves out.                       *)
(***************************************************************************)
EXTENDS Map, FiniteSetTheorems, TLAPS

Maps == UNION {[D -> Entries] : D \in SUBSET Keys}

Lookups == UNION {[D -> Values \cup {Absent}] : D \in SUBSET Keys}

Places == {"idle", "copy", "find", "entry", "lock", "put", "fill", "unamend", "walk",
           "visit", "return"}

(* The types of the variables.                                             *)
Types ==
    /\ cont \in [Entries -> Values \cup {Nil, Marker}]
    /\ s_expunged = Marker
    /\ ro \in [m : Maps, amended : BOOLEAN]
    /\ m_dirty \in Maps
    /\ m_dirtyLock \in Threads \cup {None}
    /\ todo \in SUBSET Keys
    /\ pc \in [Threads -> Places]
    /\ call \in [Threads -> Calls \cup {None}]
    /\ e \in [Threads -> Entries \cup {None}]
    /\ amended \in [Threads -> BOOLEAN]
    /\ view \in [Threads -> Maps]
    /\ got \in [Threads -> Lookups]
    /\ ret \in [Threads -> Answers \cup {Open}]

(* Until its answer is certain, a call has seen what its keys hold now.    *)
History ==
    /\ seen = [t \in Threads |-> [k \in Asks(t) |-> seen[t][k]]]
    /\ \A t \in Threads : \A k \in Asks(t) : Content[k] \in seen[t][k]

(* An entry belongs to one key, in the two maps and in what calls have     *)
(* found.                                                                  *)
Holds(t, k, x) ==
    \/ e[t] = x /\ call[t] # None /\ call[t] # RangeCall /\ call[t].key = k
    \/ k \in DOMAIN view[t] /\ view[t][k] = x

At(k, x) == k \in DOMAIN ro.m /\ ro.m[k] = x
InDirty(k, x) == k \in DOMAIN m_dirty /\ m_dirty[k] = x

Owns(k, x) == At(k, x) \/ InDirty(k, x) \/ \E t \in Threads : Holds(t, k, x)

Owners == \A j, k \in Keys, x \in Entries : Owns(j, x) /\ Owns(k, x) => j = k

(* DirtyComplete, with what holds of the maps while readonlyLocked is      *)
(* between its two writes: no entry that is in m_dirty, or in a read-only  *)
(* map that is complete, or that dirtyLocked has yet to visit, is expunged.*)
InPhase(l) == \E t \in Threads : pc[t] = l

Complete ==
    /\ m_dirty = EmptyMap /\ todo = {}
    /\ ro.amended = InPhase("unamend")
    /\ \A k \in DOMAIN ro.m : cont[ro.m[k]] # Marker

Partial ==
    /\ ro.amended /\ ~InPhase("unamend")
    /\ todo \subseteq DOMAIN ro.m
    /\ todo # {} => InPhase("fill")
    /\ \A k \in todo : cont[ro.m[k]] # Marker /\ k \notin DOMAIN m_dirty
    /\ \A k \in DOMAIN ro.m \ todo :
          IF cont[ro.m[k]] = Marker THEN k \notin DOMAIN m_dirty
          ELSE k \in DOMAIN m_dirty /\ m_dirty[k] = ro.m[k]
    /\ \A k \in DOMAIN m_dirty : cont[m_dirty[k]] # Marker

Tables == Complete \/ Partial

(* What a call without the lock knows of an entry that it has found under  *)
(* key k: it is that of the read-only map, or it is expunged for good, and *)
(* the call has seen the key absent.                                       *)
Useful(t, k, x) ==
    \/ At(k, x)
    \/ cont[x] = Marker /\ (k \in Watched(call[t]) => Absent \in seen[t][k])

(* A key that is not in the read-only map has been absent.                 *)
Covered(t) ==
    \A k \in Watched(call[t]) : k \in DOMAIN ro.m \/ Absent \in seen[t][k]

EntryStage(t) ==
    LET k == call[t].key IN
    /\ call[t] # RangeCall /\ e[t] # None
    /\ \/ Useful(t, k, e[t])
       \/ call[t] \in Loads /\ m_dirtyLock = t /\ k \notin DOMAIN ro.m
             /\ ro.amended /\ InDirty(k, e[t])

PutStage(t) ==
    LET k == call[t].key IN
    /\ e[t] # None /\ cont[e[t]] # Marker
    /\ At(k, e[t]) \/ (k \notin DOMAIN ro.m /\ ro.amended /\ InDirty(k, e[t]))

FillStage(t) ==
    LET k == call[t].key IN
    ro.amended /\ k \notin DOMAIN ro.m /\ k \notin DOMAIN m_dirty

UnamendStage(t) ==
    call[t] # RangeCall /\ e[t] # None => At(call[t].key, e[t])

VisitStage(t) ==
    /\ \A k \in DOMAIN view[t] : Useful(t, k, view[t][k])
    /\ \A k \in DOMAIN got[t] : got[t][k] \in seen[t][k]
    /\ \A k \in Keys \ (DOMAIN view[t] \cup DOMAIN got[t]) : Absent \in seen[t][k]

Decided(t) ==
    \/ pc[t] = "return"
    \/ pc[t] = "unamend" /\ call[t] # RangeCall /\ e[t] = None

Stage(t) ==
    /\ pc[t] = "idle" <=> call[t] = None
    /\ ret[t] = Open <=> ~Decided(t)
    /\ call[t] = None \/ call[t] = RangeCall => e[t] = None
    /\ pc[t] # "visit" => view[t] = EmptyMap /\ got[t] = EmptyMap
    /\ pc[t] \in {"walk", "visit"} => call[t] = RangeCall
    /\ pc[t] \in {"put", "fill"} => call[t] \in Stores
    /\ pc[t] = "unamend" => call[t] \notin Stores
    /\ pc[t] \in {"put", "fill", "unamend"} => m_dirtyLock = t
    /\ (pc[t] = "find" /\ ~amended[t]) \/ pc[t] = "walk" => Covered(t)
    /\ pc[t] = "entry" => EntryStage(t)
    /\ pc[t] = "put" => PutStage(t)
    /\ pc[t] = "fill" => FillStage(t)
    /\ pc[t] = "unamend" => UnamendStage(t)
    /\ pc[t] = "visit" => VisitStage(t)

Stages == \A t \in Threads : Stage(t)

IndInv == Types /\ History /\ Owners /\ Tables /\ Stages

-----------------------------------------------------------------------------
LEMMA CallKinds ==
    /\ \A c \in Calls : /\ c.op \in {"load", "store", "evict", "range"}
                        /\ c \in Loads <=> c.op = "load"
                        /\ c \in Stores <=> c.op = "store"
                        /\ c \in Evicts <=> c.op = "evict"
                        /\ c = RangeCall <=> c.op = "range"
                        /\ c # RangeCall => c.key \in Keys
                        /\ c \in Stores => c.val \in Values
                        /\ c # None
    /\ None \notin Loads \cup Stores \cup Evicts /\ None # RangeCall
    /\ Loads \cup Stores \cup Evicts \subseteq Calls /\ RangeCall \in Calls
<1>1. /\ \A c \in Loads : c.op = "load" /\ c.key \in Keys
      /\ \A c \in Stores : c.op = "store" /\ c.key \in Keys /\ c.val \in Values
      /\ \A c \in Evicts : c.op = "evict" /\ c.key \in Keys
      /\ RangeCall.op = "range"
  BY DEF Loads, Stores, Evicts, RangeCall
<1>2. None \notin Calls
  BY MapAssumption
<1> QED
  BY <1>1, <1>2 DEF Calls

LEMMA WatchedKeys ==
    \A c \in Calls :
        /\ Watched(c) \subseteq Keys
        /\ c = RangeCall => Watched(c) = Keys
        /\ c \in Stores => Watched(c) = {}
        /\ c \in Loads \cup Evicts => Watched(c) = {c.key}
<1>1. RangeCall \notin Stores
  BY CallKinds
<1> QED
  BY <1>1, CallKinds DEF Watched

LEMMA EntriesNumbers ==
    /\ Cardinality(Keys) \in Nat /\ Cardinality(Threads) \in Nat
    /\ Cardinality(Keys) * (Cardinality(Threads) + 1) \in Nat
    /\ Entries \subseteq Nat /\ None \notin Entries /\ None \notin Threads
BY MapAssumption, FS_CardinalityType DEF Entries

LEMMA MapTypes ==
    /\ EmptyMap \in Maps /\ EmptyMap \in Lookups /\ DOMAIN EmptyMap = {}
    /\ \A m \in Maps : /\ DOMAIN m \subseteq Keys
                       /\ \A k \in DOMAIN m : m[k] \in Entries
                       /\ DOMAIN m = {} => m = EmptyMap
    /\ \A m \in Maps, k \in Keys :
          /\ Mapped(m, k) \in Entries \cup {None}
          /\ Mapped(m, k) # None <=> k \in DOMAIN m
          /\ k \in DOMAIN m => Mapped(m, k) = m[k]
    /\ \A m \in Maps, k \in Keys :
          /\ Without(m, k) \in Maps
          /\ DOMAIN Without(m, k) = DOMAIN m \ {k}
          /\ \A j \in DOMAIN m \ {k} : Without(m, k)[j] = m[j]
<1>1. \A m \in Maps : /\ DOMAIN m \subseteq Keys /\ m \in [DOMAIN m -> Entries]
                      /\ \A k \in DOMAIN m : m[k] \in Entries
  BY DEF Maps
<1>2. \A D \in SUBSET Keys : [D -> Entries] \subseteq Maps
  BY DEF Maps
<1>3. /\ DOMAIN EmptyMap = {} /\ EmptyMap \in [{} -> Entries]
      /\ EmptyMap \in [{} -> Values \cup {Absent}]
  BY DEF EmptyMap
<1>4. \A m \in Maps : DOMAIN m = {} => m = EmptyMap
  BY <1>1, <1>3
<1>5. \A m \in Maps, k \in Keys :
         /\ Mapped(m, k) \in Entries \cup {None}
         /\ Mapped(m, k) # None <=> k \in DOMAIN m
         /\ k \in DOMAIN m => Mapped(m, k) = m[k]
  BY <1>1, EntriesNumbers DEF Mapped
<1>6. ASSUME NEW m \in Maps, NEW k \in Keys
      PROVE  /\ Without(m, k) \in Maps
             /\ DOMAIN Without(m, k) = DOMAIN m \ {k}
             /\ \A j \in DOMAIN m \ {k} : Without(m, k)[j] = m[j]
  <2>1. Without(m, k) \in [DOMAIN m \ {k} -> Entries]
    BY <1>1 DEF Without
  <2>2. DOMAIN m \ {k} \in SUBSET Keys
    BY <1>1
  <2> QED
    BY <1>2, <2>1, <2>2 DEF Without
<1>7. EmptyMap \in Maps /\ EmptyMap \in Lookups
  BY <1>2, <1>3 DEF Lookups
<1> QED
  BY <1>1, <1>3, <1>4, <1>5, <1>6, <1>7

LEMMA InsertTypes ==
    ASSUME NEW m \in Maps, NEW k \in Keys, NEW x \in Entries
    PROVE  Insert(m, k, x) \in Maps /\ DOMAIN Insert(m, k, x) = DOMAIN m \cup {k}
<1>1. DOMAIN m \in SUBSET Keys /\ \A j \in DOMAIN m : m[j] \in Entries
  BY MapTypes
<1>2. Insert(m, k, x) \in [DOMAIN m \cup {k} -> Entries]
  BY <1>1 DEF Insert
<1>3. DOMAIN m \cup {k} \in SUBSET Keys
  BY <1>1
<1> HIDE DEF Insert
<1> QED
  BY <1>2, <1>3 DEF Maps

LEMMA LookupTypes ==
    ASSUME NEW m \in Lookups, NEW k \in Keys, NEW v \in Values \cup {Absent},
           NEW w, w = Insert(m, k, v)
    PROVE  /\ w \in Lookups /\ DOMAIN w = DOMAIN m \cup {k}
           /\ \A j \in DOMAIN w : (j \in DOMAIN m /\ w[j] = m[j]) \/ (j = k /\ w[j] = v)
           /\ DOMAIN m \subseteq Keys /\ \A j \in DOMAIN m : m[j] \in Values \cup {Absent}
<1>1. DOMAIN m \in SUBSET Keys /\ \A j \in DOMAIN m : m[j] \in Values \cup {Absent}
  BY DEF Lookups
<1>2. /\ DOMAIN w = DOMAIN m \cup {k}
      /\ \A j \in DOMAIN w : (j \in DOMAIN m /\ w[j] = m[j]) \/ (j = k /\ w[j] = v)
  BY DEF Insert
<1>3. w \in [DOMAIN m \cup {k} -> Values \cup {Absent}]
  BY <1>1 DEF Insert
<1>4. DOMAIN m \cup {k} \in SUBSET Keys
  BY <1>1
<1> QED
  BY <1>1, <1>2, <1>3, <1>4 DEF Lookups

LEMMA ContentTypes ==
    ASSUME Types
    PROVE  /\ Content \in [Keys -> Values \cup {Absent}]
           /\ \A x \in Entries : Read(x) \in Values \cup {Absent}
           /\ \A k \in Keys :
                 Content[k] = IF k \in DOMAIN ro.m THEN Read(ro.m[k])
                              ELSE IF ro.amended /\ k \in DOMAIN m_dirty
                                   THEN Read(m_dirty[k]) ELSE Absent
           /\ \A v \in Values \cup {Absent} : v \in Answers
           /\ Done \in Answers /\ Open \notin Answers
           /\ [Keys -> Values \cup {Absent}] \subseteq Answers
<1>1. \A x \in Entries : Read(x) \in Values \cup {Absent}
  BY DEF Types, Read
<1>2. \A k \in Keys :
         Content[k] = IF k \in DOMAIN ro.m THEN Read(ro.m[k])
                      ELSE IF ro.amended /\ k \in DOMAIN m_dirty
                           THEN Read(m_dirty[k]) ELSE Absent
  BY DEF Content
<1>3. ro.m \in Maps /\ m_dirty \in Maps
  BY DEF Types
<1>4. \A k \in Keys : Content[k] \in Values \cup {Absent}
  BY <1>1, <1>2, <1>3, MapTypes
<1>5. Content = [k \in Keys |-> Content[k]]
  BY DEF Content
<1>6. Content \in [Keys -> Values \cup {Absent}]
  BY <1>4, <1>5
<1> QED
  BY <1>1, <1>2, <1>6, MapAssumption DEF Answers

(* The same for the content after a step.                                  *)
LEMMA ContentNext ==
    /\ DOMAIN Content' = Keys /\ Content' = [k \in Keys |-> Content'[k]]
    /\ \A k \in Keys :
          Content'[k] = IF k \in DOMAIN ro'.m THEN Read(ro.m[k])'
                        ELSE IF ro'.amended /\ k \in DOMAIN m_dirty'
                             THEN Read(m_dirty[k])' ELSE Absent
BY DEF Content

(* What a running call has seen grows, up to what its keys hold now.       *)
LEMMA Observed ==
    ASSUME Observe
    PROVE  /\ History'
           /\ \A t \in Threads : \A k \in Asks(t) :
                 k \in Asks(t)' => seen'[t][k] = seen[t][k] \cup {Content'[k]}
BY DEF Observe, History

LEMMA SeenGrows ==
    ASSUME History, Observe, NEW t \in Threads, NEW k, k \in Asks(t), k \in Asks(t)'
    PROVE  /\ Content[k] \in seen[t][k] /\ seen[t][k] \subseteq seen'[t][k]
           /\ Content[k] = Absent => Absent \in seen'[t][k]
<1>1. Content[k] \in seen[t][k]
  BY DEF History
<1>2. seen[t][k] \subseteq seen'[t][k]
  BY Observed
<1> QED
  BY <1>1, <1>2

LEMMA InitInd == Init => IndInv
<1> SUFFICES ASSUME Init PROVE IndInv
  OBVIOUS
<1>1. Types
  BY MapTypes DEF Init, Types, Places
<1>2. History
  BY DEF Init, History, Asks, EmptyMap
<1>3. Owners
  BY MapTypes DEF Init, Owners, Owns, Holds, At, InDirty
<1>4. Tables
  BY MapTypes DEF Init, Tables, Complete, InPhase
<1>5. Stages
  BY CallKinds DEF Init, Stages, Stage, Decided
<1> QED
  BY <1>1, <1>2, <1>3, <1>4, <1>5 DEF IndInv

-----------------------------------------------------------------------------
(* Nothing of thread u changes.                                            *)
Same(u) ==
    /\ pc'[u] = pc[u] /\ call'[u] = call[u] /\ e'[u] = e[u]
    /\ amended'[u] = amended[u] /\ ret'[u] = ret[u]
    /\ view'[u] = view[u] /\ got'[u] = got[u]
    /\ m_dirtyLock = u => m_dirtyLock' = u

(* What a step does to an entry that a call has found without the lock.    *)
Stays(k, x) ==
    /\ At(k, x) => At(k, x)' \/ (cont'[x] = Marker /\ Content[k] = Absent)
    /\ cont[x] = Marker => cont'[x] = Marker \/ At(k, x)'

(* A running call asks for the keys that it watches.                       *)
LEMMA Running ==
    ASSUME Types, NEW t \in Threads, Stage(t), call[t] # None, pc[t] # "return",
           pc[t] = "unamend" => call[t] = RangeCall \/ e[t] # None
    PROVE  call[t] \in Calls /\ ret[t] = Open /\ Asks(t) = Watched(call[t])
BY DEF Types, Stage, Decided, Asks

(* The steps of the others leave a call where it is.                       *)
LEMMA StageFrame ==
    ASSUME Types, History, Observe, NEW u \in Threads, Stage(u), Same(u),
           \A k \in Keys, x \in Entries : Holds(u, k, x) => Stays(k, x),
           \A k \in DOMAIN ro.m : k \in DOMAIN ro'.m \/ Content[k] = Absent,
           m_dirtyLock = u =>
              /\ ro' = ro /\ m_dirty' = m_dirty
              /\ \A x \in Entries : cont'[x] = Marker <=> cont[x] = Marker
    PROVE  Stage(u)'
<1>0. PICK c, x : c = call[u] /\ x = e[u]
  OBVIOUS
<1>1. /\ pc'[u] = pc[u] /\ call'[u] = c /\ e'[u] = x /\ amended'[u] = amended[u]
      /\ view'[u] = view[u] /\ got'[u] = got[u] /\ ret'[u] = ret[u]
      /\ m_dirtyLock = u => m_dirtyLock' = u
  BY <1>0 DEF Same
<1>2. /\ c \in Calls \cup {None} /\ x \in Entries \cup {None} /\ view[u] \in Maps
      /\ ro.m \in Maps /\ m_dirty \in Maps
  BY <1>0 DEF Types
<1>3. Asks(u)' = Asks(u)
  BY <1>0, <1>1 DEF Asks
<1>4. \A k \in Asks(u) : /\ Content[k] \in seen[u][k] /\ seen[u][k] \subseteq seen'[u][k]
  BY <1>3, Observed DEF History
<1>5. c # None /\ pc[u] \in {"find", "walk", "entry", "visit"} => Asks(u) = Watched(c)
  BY <1>0, Running
<1>6. ASSUME NEW k \in Keys, NEW y \in Entries, Holds(u, k, y), Useful(u, k, y),
             Asks(u) = Watched(c)
      PROVE  Useful(u, k, y)'
  <2>1. Stays(k, y)
    BY <1>6
  <2>2. k \in Watched(c) => /\ Content[k] = Absent => Absent \in seen'[u][k]
                            /\ Absent \in seen[u][k] => Absent \in seen'[u][k]
    BY <1>4, <1>6
  <2> QED
    BY <1>0, <1>1, <1>6, <2>1, <2>2 DEF Useful, Stays
<1>7. Covered(u) /\ Asks(u) = Watched(c) => Covered(u)'
  BY <1>0, <1>1, <1>4 DEF Covered
<1>8. pc[u] = "entry" => EntryStage(u)'
  <2> SUFFICES ASSUME pc[u] = "entry" PROVE EntryStage(u)'
    OBVIOUS
  <2>1. EntryStage(u) /\ c # None /\ c \in Calls /\ x \in Entries /\ x # None /\ c # RangeCall
    BY <1>0, <1>2 DEF Stage, EntryStage
  <2>2. c.key \in Keys /\ Holds(u, c.key, x) /\ Asks(u) = Watched(c)
    BY <1>0, <1>5, <2>1, CallKinds DEF Holds
  <2>3. CASE Useful(u, c.key, x)
    <3>1. Useful(u, c.key, x)'
      BY <1>6, <2>1, <2>2, <2>3
    <3> QED
      BY <1>1, <2>1, <3>1 DEF EntryStage, Useful, At
  <2>4. CASE /\ c \in Loads /\ m_dirtyLock = u /\ c.key \notin DOMAIN ro.m
             /\ ro.amended /\ InDirty(c.key, x)
    BY <1>0, <1>1, <2>1, <2>4 DEF EntryStage, InDirty
  <2> QED
    BY <1>0, <2>1, <2>3, <2>4 DEF EntryStage
<1>9. pc[u] = "put" => PutStage(u)'
  <2> SUFFICES ASSUME pc[u] = "put" PROVE PutStage(u)'
    OBVIOUS
  <2>1. PutStage(u) /\ m_dirtyLock = u
    BY DEF Stage
  <2> QED
    BY <1>0, <1>1, <1>2, <2>1 DEF PutStage, At, InDirty
<1>10. pc[u] = "fill" => FillStage(u)'
  BY <1>0, <1>1 DEF Stage, FillStage
<1>16. pc[u] = "unamend" => m_dirtyLock = u /\ UnamendStage(u)
  BY DEF Stage
<1>11. pc[u] = "unamend" => UnamendStage(u)'
  BY <1>0, <1>1, <1>16 DEF UnamendStage, At
<1>12. pc[u] = "visit" => VisitStage(u)'
  <2> SUFFICES ASSUME pc[u] = "visit" PROVE VisitStage(u)'
    OBVIOUS
  <2>1. VisitStage(u) /\ c = RangeCall /\ c \in Calls /\ c # None
    BY <1>0, <1>2, CallKinds DEF Stage
  <2>2. Asks(u) = Keys /\ Watched(c) = Keys
    BY <1>5, <2>1, WatchedKeys
  <2>3. \A k \in DOMAIN view[u] : Useful(u, k, view[u][k])'
    <3> SUFFICES ASSUME NEW k \in DOMAIN view[u] PROVE Useful(u, k, view[u][k])'
      OBVIOUS
    <3>1. k \in Keys /\ view[u][k] \in Entries
      BY <1>2, MapTypes
    <3>2. PICK y \in Entries : y = view[u][k]
      BY <3>1
    <3>3. Useful(u, k, y)'
      BY <1>6, <2>1, <2>2, <3>1, <3>2 DEF VisitStage, Holds
    <3> QED
      BY <1>1, <3>2, <3>3 DEF Useful, At
  <2>4. DOMAIN got[u] \subseteq Keys
    BY DEF Types, Lookups
  <2> QED
    BY <1>1, <1>4, <2>1, <2>2, <2>3, <2>4 DEF VisitStage, Useful, At
<1>13. Decided(u)' <=> Decided(u)
  BY <1>0, <1>1 DEF Decided
<1>14. (pc[u] = "find" /\ ~amended[u]) \/ pc[u] = "walk" => Covered(u)'
  <2>1. (pc[u] = "find" /\ ~amended[u]) \/ pc[u] = "walk" => Covered(u) /\ c # None
    BY <1>0 DEF Stage
  <2> QED
    BY <1>5, <1>7, <2>1
<1>15. /\ pc'[u] = "idle" <=> call'[u] = None
       /\ ret'[u] = Open <=> ~Decided(u)'
       /\ call'[u] = None \/ call'[u] = RangeCall => e'[u] = None
       /\ pc'[u] # "visit" => view'[u] = EmptyMap /\ got'[u] = EmptyMap
       /\ pc'[u] \in {"walk", "visit"} => call'[u] = RangeCall
       /\ pc'[u] \in {"put", "fill"} => call'[u] \in Stores
       /\ pc'[u] = "unamend" => call'[u] \notin Stores
       /\ pc'[u] \in {"put", "fill", "unamend"} => m_dirtyLock' = u
  BY <1>0, <1>1, <1>13 DEF Stage
<1> QED
  BY <1>1, <1>8, <1>9, <1>10, <1>11, <1>12, <1>14, <1>15 DEF Stage

(* Of the entries, only t's own can get another owner.                     *)
LEMMA OwnersFrame ==
    ASSUME Owners, NEW t \in Threads, \A u \in Threads \ {t} : Same(u),
           \A k \in Keys, x \in Entries :
              At(k, x)' \/ InDirty(k, x)' \/ Holds(t, k, x)' => Owns(k, x)
    PROVE  Owners'
<1>1. \A u \in Threads \ {t} : \A k, x : Holds(u, k, x)' => Holds(u, k, x)
  BY DEF Holds, Same
<1>2. \A k \in Keys, x \in Entries : Owns(k, x)' => Owns(k, x)
  BY <1>1 DEF Owns
<1> QED
  BY <1>2 DEF Owners

(* The step of a thread that leaves the two tables alone.                  *)
LEMMA LightInd ==
    ASSUME IndInv, Types', Observe, NEW t \in Threads, Stage(t)',
           UNCHANGED <<ro, m_dirty, todo>>,
           \A x \in Entries : cont'[x] = Marker <=> cont[x] = Marker,
           \A u \in Threads \ {t} : Same(u),
           pc[t] \notin {"fill", "unamend"}, pc'[t] \notin {"fill", "unamend"},
           \A k \in Keys, x \in Entries : Holds(t, k, x)' => Owns(k, x)
    PROVE  IndInv'
<1>1. Types /\ History /\ Owners /\ Tables /\ Stages
  BY DEF IndInv
<1>2. Tables'
  <2>1. /\ InPhase("unamend")' = InPhase("unamend") /\ InPhase("fill")' = InPhase("fill")
    BY DEF InPhase, Same
  <2>2. /\ \A k \in DOMAIN ro.m : ro.m[k] \in Entries
        /\ \A k \in DOMAIN m_dirty : m_dirty[k] \in Entries
    BY <1>1, MapTypes DEF Types
  <2> QED
    BY <1>1, <2>1, <2>2 DEF Tables, Complete, Partial
<1>3. Owners'
  BY <1>1, OwnersFrame DEF At, InDirty, Owns
<1>4. ASSUME NEW u \in Threads \ {t} PROVE Stage(u)'
  <2>1. Stage(u) /\ Same(u)
    BY <1>1 DEF Stages
  <2>2. \A k \in Keys, x \in Entries : Stays(k, x)
    BY DEF Stays, At
  <2> QED
    BY <1>1, <2>1, <2>2, StageFrame
<1> QED
  BY <1>2, <1>3, <1>4, Observed DEF IndInv, Stages

(* The step of a thread that changes them, alone in the lock.              *)
LEMMA TableInd ==
    ASSUME IndInv, Types', Observe, NEW t \in Threads, Stage(t)', Tables', Owners',
           m_dirtyLock \in {None, t}, \A u \in Threads \ {t} : Same(u),
           \A k \in Keys, x \in Entries : Owns(k, x) => Stays(k, x),
           \A k \in DOMAIN ro.m : k \in DOMAIN ro'.m \/ Content[k] = Absent
    PROVE  IndInv'
<1>1. Types /\ History /\ Stages
  BY DEF IndInv
<1>2. ASSUME NEW u \in Threads \ {t} PROVE Stage(u)'
  <2>1. Stage(u) /\ Same(u) /\ m_dirtyLock # u
    BY <1>1, EntriesNumbers DEF Stages
  <2>2. \A k \in Keys, x \in Entries : Holds(u, k, x) => Stays(k, x)
    BY DEF Owns
  <2> QED
    BY <1>1, <2>1, <2>2, StageFrame
<1> QED
  BY <1>2, Observed DEF IndInv, Stages

-----------------------------------------------------------------------------
(* What a step is for the callers: nothing, the instant at which a call    *)
(* changes the map, or an answer that its call has seen.                   *)
Silent == call' = call /\ ret' = ret /\ Content' = Content

Changes(t) ==
    /\ call[t] \in Stores \cup Evicts /\ ret[t] = Open
    /\ call' = call /\ ret' = [ret EXCEPT ![t] = Done]
    /\ Content' = [Content EXCEPT ![call[t].key] =
                      IF call[t] \in Stores THEN call[t].val ELSE Absent]

Seen(t, r) ==
    \/ call[t] \in Loads /\ r \in seen[t][call[t].key]
    \/ call[t] \in Evicts /\ r = Done /\ Absent \in seen[t][call[t].key]
    \/ call[t] = RangeCall /\ r \in [Keys -> Values \cup {Absent}]
          /\ \A k \in Keys : r[k] \in seen[t][k]

Looks(t) ==
    /\ ret[t] = Open /\ call' = call /\ Content' = Content
    /\ \E r : Seen(t, r) /\ ret' = [ret EXCEPT ![t] = r]

(* Nothing that the content is made of changes.                            *)
LEMMA SameContent ==
    ASSUME UNCHANGED <<cont, s_expunged, ro, m_dirty>>
    PROVE  Content' = Content
BY DEF Content, Read

LEMMA BeginInd ==
    ASSUME IndInv, Observe, NEW t \in Threads, NEW c \in Calls, Begin(t, c)
    PROVE  /\ IndInv' /\ Content' = Content /\ call[t] = None
           /\ call' = [call EXCEPT ![t] = c] /\ ret' = ret
<1>1. Types /\ Stage(t) /\ pc[t] = "idle" /\ call[t] = None /\ e[t] = None /\ ret[t] = Open
  BY DEF IndInv, Stages, Stage, Begin, Decided
<1>2. /\ pc' = [pc EXCEPT ![t] = "copy"] /\ call' = [call EXCEPT ![t] = c]
      /\ UNCHANGED <<cont, s_expunged, ro, m_misses, m_dirty, m_dirtyLock, todo, e, amended,
                     view, got, ret>>
  BY DEF Begin, Goto, store, maps, walk
<1>3. /\ pc'[t] = "copy" /\ call'[t] = c /\ e'[t] = None /\ ret'[t] = Open
      /\ \A u \in Threads \ {t} : Same(u)
  BY <1>1, <1>2 DEF Same, Types
<1>4. Types'
  BY <1>1, <1>2 DEF Types, Places
<1>5. view[t] = EmptyMap /\ got[t] = EmptyMap
  BY <1>1 DEF Stage
<1>6. Stage(t)'
  BY <1>2, <1>3, <1>5, CallKinds DEF Stage, Decided
<1>7. \A k \in Keys, x \in Entries : Holds(t, k, x)' => Owns(k, x)
  BY <1>2, <1>3, <1>5, EntriesNumbers, MapTypes DEF Holds
<1>8. IndInv'
  BY <1>1, <1>2, <1>3, <1>4, <1>6, <1>7, LightInd
<1> QED
  BY <1>1, <1>2, <1>8, SameContent

LEMMA CopyInd ==
    ASSUME IndInv, Observe, NEW t \in Threads, Copy(t)
    PROVE  IndInv' /\ Silent
<1>1. Types /\ History /\ Tables /\ Stage(t) /\ pc[t] = "copy" /\ call[t] # None
  BY DEF IndInv, Stages, Stage, Copy
<1>2. /\ pc' = [pc EXCEPT ![t] = "find"] /\ amended' = [amended EXCEPT ![t] = ro.amended]
      /\ UNCHANGED <<cont, s_expunged, ro, m_misses, m_dirty, m_dirtyLock, todo, call, e,
                     view, got, ret>>
  BY DEF Copy, Goto, store, maps, walk
<1>3. /\ pc'[t] = "find" /\ amended'[t] = ro.amended
      /\ \A u \in Threads \ {t} : Same(u)
  BY <1>1, <1>2 DEF Same, Types
<1>4. Types'
  BY <1>1, <1>2 DEF Types, Places
<1>5. ~ro.amended => Covered(t)'
  <2> SUFFICES ASSUME ~ro.amended, NEW k \in Watched(call[t]), k \notin DOMAIN ro.m
               PROVE  Absent \in seen'[t][k]
    BY <1>2 DEF Covered
  <2>1. call[t] \in Calls /\ Asks(t) = Watched(call[t]) /\ Asks(t)' = Asks(t)
    BY <1>1, <1>2, Running DEF Asks
  <2>2. k \in Keys /\ Content[k] = Absent
    BY <1>1, <2>1, WatchedKeys, ContentTypes
  <2> QED
    BY <1>1, <2>1, <2>2, SeenGrows
<1>6. Stage(t)'
  <2>1. Decided(t)' = FALSE /\ Decided(t) = FALSE
    BY <1>1, <1>3 DEF Decided
  <2> QED
    BY <1>1, <1>2, <1>3, <1>5, <2>1 DEF Stage
<1>7. \A k \in Keys, x \in Entries : Holds(t, k, x)' => Owns(k, x)
  BY <1>2 DEF Holds, Owns
<1>8. IndInv'
  BY <1>1, <1>2, <1>3, <1>4, <1>6, <1>7, LightInd
<1> QED
  BY <1>2, <1>8, SameContent DEF Silent

LEMMA ReturnInd ==
    ASSUME IndInv, Observe, NEW t \in Threads, Return(t)
    PROVE  /\ IndInv' /\ Content' = Content /\ ret[t] # Open /\ call[t] # None
           /\ call' = [call EXCEPT ![t] = None] /\ ret' = [ret EXCEPT ![t] = Open]
<1>1. Types /\ Stage(t) /\ pc[t] = "return" /\ ret[t] # Open /\ call[t] # None
  BY DEF IndInv, Stages, Stage, Decided, Return
<1>2. /\ pc' = [pc EXCEPT ![t] = "idle"] /\ amended' = [amended EXCEPT ![t] = FALSE]
      /\ call' = [call EXCEPT ![t] = None] /\ e' = [e EXCEPT ![t] = None]
      /\ ret' = [ret EXCEPT ![t] = Open]
      /\ m_dirtyLock' = IF m_dirtyLock = t THEN None ELSE m_dirtyLock
      /\ UNCHANGED <<cont, s_expunged, ro, m_misses, m_dirty, todo, view, got>>
  BY DEF Return, Goto, store, maps, walk
<1>3. /\ pc'[t] = "idle" /\ e'[t] = None /\ ret'[t] = Open /\ call'[t] = None
      /\ \A u \in Threads \ {t} : Same(u)
  BY <1>1, <1>2 DEF Same, Types
<1>4. Types'
  BY <1>1, <1>2 DEF Types, Places
<1>5. view[t] = EmptyMap /\ got[t] = EmptyMap
  BY <1>1 DEF Stage
<1>6. Stage(t)'
  BY <1>2, <1>3, <1>5, CallKinds DEF Stage, Decided
<1>7. \A k \in Keys, x \in Entries : Holds(t, k, x)' => Owns(k, x)
  BY <1>2, <1>3, <1>5, EntriesNumbers, MapTypes DEF Holds
<1>8. IndInv'
  BY <1>1, <1>2, <1>3, <1>4, <1>6, <1>7, LightInd
<1> QED
  BY <1>1, <1>2, <1>8, SameContent

LEMMA FindInd ==
    ASSUME IndInv, Observe, NEW t \in Threads, Find(t)
    PROVE  IndInv' /\ (Silent \/ Looks(t))
<1>1. Types /\ History /\ Stage(t) /\ pc[t] = "find" /\ call[t] # None
  BY DEF IndInv, Stages, Stage, Find
<1>2. PICK c : c = call[t]
  OBVIOUS
<1>3. PICK x : x = IF c = RangeCall THEN None ELSE Mapped(ro.m, c.key)
  OBVIOUS
<1>4. c \in Calls /\ ret[t] = Open /\ Asks(t) = Watched(c)
  BY <1>1, <1>2, Running
<1>5. /\ e' = [e EXCEPT ![t] = x]
      /\ UNCHANGED <<cont, s_expunged, ro, m_misses, m_dirty, m_dirtyLock, todo, call,
                     amended, view, got>>
      /\ \/ x # None /\ pc' = [pc EXCEPT ![t] = "entry"] /\ ret' = ret
         \/ /\ x = None /\ pc' = [pc EXCEPT ![t] = "lock"] /\ ret' = ret
         \/ /\ x = None /\ ~amended[t] /\ c.op \in {"load", "evict"}
            /\ pc' = [pc EXCEPT ![t] = "return"]
            /\ ret' = [ret EXCEPT ![t] = IF c.op = "load" THEN Absent ELSE Done]
         \/ /\ c = RangeCall /\ ~amended[t]
            /\ pc' = [pc EXCEPT ![t] = "walk"] /\ ret' = ret
  BY <1>2, <1>3 DEF Find, Goto, Decide, NotFound, store, maps, walk
<1>6. /\ x \in Entries \cup {None} /\ (x # None => x \in Entries)
      /\ c = RangeCall => x = None
      /\ c # RangeCall => /\ c.key \in Keys
                          /\ x # None <=> c.key \in DOMAIN ro.m
                          /\ c.key \in DOMAIN ro.m => ro.m[c.key] = x
  BY <1>1, <1>3, <1>4, CallKinds, MapTypes DEF Types
<1>7. Types'
  BY <1>1, <1>4, <1>5, <1>6, ContentTypes DEF Types, Places
<1>8. e'[t] = x /\ call'[t] = c /\ \A u \in Threads \ {t} : Same(u)
  BY <1>1, <1>2, <1>5, <1>6 DEF Same, Types
<1>9. \A k \in Keys, y \in Entries : Holds(t, k, y)' => Owns(k, y)
  BY <1>5, <1>6, <1>8, EntriesNumbers DEF Holds, Owns, At
<1>10. ~amended[t] => Covered(t)
  BY <1>1 DEF Stage
<1>11. PICK p : p = pc'[t]
  OBVIOUS
<1>12. /\ p \in {"entry", "lock", "return", "walk"}
       /\ p = "entry" => x # None
       /\ p = "return" => x = None /\ c.op \in {"load", "evict"} /\ ~amended[t]
       /\ p = "walk" => c = RangeCall /\ ~amended[t]
       /\ ret'[t] = Open <=> p # "return"
  BY <1>1, <1>4, <1>5, <1>11, ContentTypes DEF Types
<1>13. Stage(t)'
  <2>1. view[t] = EmptyMap /\ got[t] = EmptyMap
    BY <1>1 DEF Stage
  <2>2. p = "entry" => EntryStage(t)'
    BY <1>5, <1>6, <1>8, <1>12 DEF EntryStage, Useful, At
  <2>3. p = "walk" => Covered(t)'
    <3> SUFFICES ASSUME p = "walk" PROVE Covered(t)'
      OBVIOUS
    <3>1. Asks(t)' = Watched(c)
      BY <1>4, <1>8, <1>12, CallKinds DEF Asks
    <3> QED
      BY <1>2, <1>4, <1>5, <1>8, <1>10, <1>12, <3>1, SeenGrows, <1>1 DEF Covered
  <2>4. c # None /\ (c.op = "load" \/ c.op = "evict" => c # RangeCall)
    BY <1>4, CallKinds
  <2> QED
    BY <1>5, <1>6, <1>8, <1>11, <1>12, <2>1, <2>2, <2>3, <2>4 DEF Stage, Decided
<1>14. IndInv'
  BY <1>1, <1>5, <1>7, <1>8, <1>9, <1>11, <1>12, <1>13, LightInd
<1>15. CASE ret' = ret
  BY <1>5, <1>14, <1>15, SameContent DEF Silent
<1>16. CASE /\ x = None /\ ~amended[t] /\ c.op \in {"load", "evict"}
            /\ ret' = [ret EXCEPT ![t] = IF c.op = "load" THEN Absent ELSE Done]
  <2>1. c # RangeCall /\ c \in Loads \cup Evicts /\ Watched(c) = {c.key}
        /\ (c.op = "load" <=> c \in Loads) /\ (c.op = "evict" <=> c \in Evicts)
    BY <1>4, <1>16, CallKinds, WatchedKeys
  <2>2. Absent \in seen[t][c.key]
    BY <1>2, <1>6, <1>10, <1>16, <2>1 DEF Covered
  <2>3. PICK r : r = IF c.op = "load" THEN Absent ELSE Done
    OBVIOUS
  <2>4. Seen(t, r) /\ ret' = [ret EXCEPT ![t] = r]
    BY <1>2, <1>16, <2>1, <2>2, <2>3 DEF Seen
  <2> QED
    BY <1>4, <1>5, <1>14, <2>4, SameContent DEF Looks
<1> QED
  BY <1>5, <1>14, <1>15, <1>16

(* What a call reads in an entry without the lock, it has seen.            *)
LEMMA UsefulRead ==
    ASSUME Types, History, NEW t \in Threads, NEW k \in Keys, NEW x \in Entries,
           Useful(t, k, x), k \in Asks(t), k \in Watched(call[t])
    PROVE  Read(x) \in seen[t][k] /\ Read(x) \in Values \cup {Absent}
<1>1. Read(x) \in Values \cup {Absent} /\ Content[k] \in seen[t][k]
  BY ContentTypes DEF History
<1>2. CASE At(k, x)
  <2>1. Content[k] = Read(x)
    BY <1>2, ContentTypes DEF At
  <2> QED
    BY <1>1, <2>1
<1>3. CASE cont[x] = Marker
  <2>1. Read(x) = Absent
    BY <1>3 DEF Read, Types
  <2> QED
    BY <1>1, <1>2, <2>1 DEF Useful
<1> QED
  BY <1>2, <1>3 DEF Useful

(* A call has its answer r and changes nothing else.                       *)
LEMMA AnswerInd ==
    ASSUME IndInv, Observe, NEW t \in Threads, NEW r \in Answers, pc[t] = "entry",
           pc' = [pc EXCEPT ![t] = "return"], ret' = [ret EXCEPT ![t] = r],
           UNCHANGED <<cont, s_expunged, ro, m_dirty, m_dirtyLock, todo, call, e, amended,
                       view, got>>
    PROVE  IndInv' /\ Content' = Content
<1>1. Types /\ Stage(t) /\ r # Open
  BY ContentTypes DEF IndInv, Stages
<1>2. pc'[t] = "return" /\ ret'[t] = r /\ \A u \in Threads \ {t} : Same(u)
  BY <1>1 DEF Same, Types
<1>3. Types'
  BY <1>1 DEF Types, Places
<1>4. Stage(t)'
  BY <1>1, <1>2 DEF Stage, Decided
<1>5. \A k \in Keys, x \in Entries : Holds(t, k, x)' => Owns(k, x)
  BY DEF Holds, Owns
<1> QED
  BY <1>1, <1>2, <1>3, <1>4, <1>5, LightInd, SameContent

LEMMA EntryLoadInd ==
    ASSUME IndInv, Observe, NEW t \in Threads, EntryLoad(t)
    PROVE  IndInv' /\ Looks(t)
<1>1. Types /\ History /\ Stage(t) /\ pc[t] = "entry" /\ call[t].op = "load"
  BY DEF IndInv, Stages, EntryLoad, Use
<1>2. PICK c, x : c = call[t] /\ x = e[t]
  OBVIOUS
<1>3. /\ c \in Calls /\ c \in Loads /\ c.key \in Keys /\ x \in Entries
      /\ ret[t] = Open /\ Asks(t) = {c.key} /\ Watched(c) = {c.key}
      /\ EntryStage(t) /\ c # RangeCall /\ c \notin Stores
  <2>1. EntryStage(t) /\ c # None
    BY <1>1, <1>2 DEF Stage
  <2>2. c \in Calls /\ ret[t] = Open /\ Asks(t) = Watched(c)
    BY <1>1, <1>2, <2>1, Running
  <2>3. x \in Entries
    BY <1>1, <1>2, <2>1 DEF EntryStage, Types
  <2> QED
    BY <1>1, <1>2, <2>1, <2>2, <2>3, CallKinds, WatchedKeys
<1>4. Read(x) \in seen[t][c.key] /\ Read(x) \in Answers
  <2>1. Read(x) \in Answers
    BY <1>1, <1>3, ContentTypes
  <2>2. CASE Useful(t, c.key, x)
    BY <1>1, <1>2, <1>3, <2>1, <2>2, UsefulRead
  <2>3. CASE c.key \notin DOMAIN ro.m /\ ro.amended /\ InDirty(c.key, x)
    <3>1. Content[c.key] = Read(x)
      BY <1>1, <1>3, <2>3, ContentTypes DEF InDirty
    <3> QED
      BY <1>1, <1>3, <2>1, <3>1 DEF History
  <2> QED
    BY <1>2, <1>3, <2>2, <2>3 DEF EntryStage
<1>5. /\ pc' = [pc EXCEPT ![t] = "return"] /\ ret' = [ret EXCEPT ![t] = Read(x)]
      /\ UNCHANGED <<cont, s_expunged, ro, m_dirty, m_dirtyLock, todo, call, e, amended,
                     view, got>>
  BY <1>2 DEF EntryLoad, Goto, Decide, store, maps, walk
<1>6. PICK r : r = Read(x)
  OBVIOUS
<1>7. IndInv' /\ Content' = Content
  BY <1>1, <1>4, <1>5, <1>6, AnswerInd
<1> QED
  BY <1>2, <1>3, <1>4, <1>5, <1>6, <1>7 DEF Looks, Seen

LEMMA OneKey ==
    ASSUME Types, Owners, NEW k \in Keys, NEW x \in Entries, Owns(k, x)
    PROVE  /\ \A j \in DOMAIN ro.m : ro.m[j] = x => j = k
           /\ \A j \in DOMAIN m_dirty : m_dirty[j] = x => j = k
           /\ \A j \in Keys : Owns(j, x) => j = k
<1>1. DOMAIN ro.m \subseteq Keys /\ DOMAIN m_dirty \subseteq Keys
  BY MapTypes DEF Types
<1> QED
  BY <1>1 DEF Owners, Owns, At, InDirty

(* The entry of a key, as a caller sees it.                                *)
Current(k, x) == At(k, x) \/ (k \notin DOMAIN ro.m /\ ro.amended /\ InDirty(k, x))

(* An exchange of the entry of a key changes the content of that key.      *)
LEMMA ExchangeContent ==
    ASSUME Types, Owners, Types', NEW k \in Keys, NEW x \in Entries, Current(k, x),
           NEW v \in Values \cup {Nil}, cont' = [cont EXCEPT ![x] = v],
           UNCHANGED <<s_expunged, ro, m_dirty>>
    PROVE  Content' = [Content EXCEPT ![k] = IF v = Nil THEN Absent ELSE v]
<1>1. /\ cont'[x] = v /\ \A y \in Entries \ {x} : cont'[y] = cont[y]
      /\ s_expunged = Marker /\ ro.m \in Maps /\ m_dirty \in Maps
  BY DEF Types
<1>2. Read(x)' = IF v = Nil THEN Absent ELSE v
  BY <1>1, MapAssumption DEF Read
<1>3. \A y \in Entries \ {x} : Read(y)' = Read(y)
  BY <1>1 DEF Read
<1>4. Content'[k] = IF v = Nil THEN Absent ELSE v
  BY <1>2, ContentNext DEF Current, At, InDirty, Read
<1>5. \A j \in Keys \ {k} : Content'[j] = Content[j]
  <2> SUFFICES ASSUME NEW j \in Keys \ {k} PROVE Content'[j] = Content[j]
    OBVIOUS
  <2>1. Owns(k, x)
    BY DEF Current, Owns
  <2>2. /\ j \in DOMAIN ro.m => ro.m[j] \in Entries \ {x}
        /\ j \in DOMAIN m_dirty => m_dirty[j] \in Entries \ {x}
    BY <1>1, <2>1, OneKey, MapTypes
  <2>3. /\ j \in DOMAIN ro.m => Read(ro.m[j])' = Read(ro.m[j])
        /\ j \in DOMAIN m_dirty => Read(m_dirty[j])' = Read(m_dirty[j])
    BY <1>3, <2>2 DEF Read
  <2> QED
    BY <2>3, ContentTypes, ContentNext
<1> QED
  BY <1>4, <1>5, ContentTypes, ContentNext

(* The call of t exchanges what its entry x, which is not expunged, holds  *)
(* for v, and returns: a store with its value, an evict with nullptr.      *)
LEMMA WriteInd ==
    ASSUME IndInv, Observe, NEW t \in Threads, pc[t] \in {"entry", "put"},
           NEW c \in Calls, c = call[t], NEW x \in Entries, x = e[t],
           cont[x] # Marker, Current(c.key, x),
           NEW v, \/ c \in Stores /\ v = c.val
                  \/ c \in Evicts /\ v = Nil,
           pc' = [pc EXCEPT ![t] = "return"], ret' = [ret EXCEPT ![t] = Done],
           cont' = [cont EXCEPT ![x] = v],
           UNCHANGED <<s_expunged, ro, m_dirty, m_dirtyLock, todo, call, e, amended,
                       view, got>>
    PROVE  IndInv' /\ Changes(t)
<1>1. Types /\ Owners /\ Stage(t)
  BY DEF IndInv, Stages
<1>2. /\ c.key \in Keys /\ v \in Values \cup {Nil} /\ v # Marker /\ c # None
      /\ IF v = Nil THEN c \in Evicts /\ c \notin Stores ELSE c \in Stores /\ v = c.val
  BY CallKinds, MapAssumption
<1>3. /\ cont'[x] = v /\ \A y \in Entries \ {x} : cont'[y] = cont[y]
  BY <1>1 DEF Types
<1>4. /\ pc'[t] = "return" /\ ret'[t] = Done /\ Done \in Answers /\ Done # Open
      /\ \A u \in Threads \ {t} : Same(u)
  BY <1>1, ContentTypes DEF Same, Types
<1>5. Types'
  BY <1>1, <1>2, <1>4 DEF Types, Places
<1>6. Stage(t)'
  BY <1>1, <1>4 DEF Stage, Decided
<1>7. \A y \in Entries : cont'[y] = Marker <=> cont[y] = Marker
  BY <1>2, <1>3
<1>8. \A k \in Keys, y \in Entries : Holds(t, k, y)' => Owns(k, y)
  BY DEF Holds, Owns
<1>9. IndInv'
  BY <1>1, <1>4, <1>5, <1>6, <1>7, <1>8, LightInd
<1>10. Content' = [Content EXCEPT ![c.key] = IF v = Nil THEN Absent ELSE v]
  BY <1>1, <1>2, <1>5, ExchangeContent
<1>11. ret[t] = Open
  BY <1>1 DEF Stage, Decided
<1> QED
  BY <1>2, <1>9, <1>10, <1>11 DEF Changes

LEMMA TryStoreInd ==
    ASSUME IndInv, Observe, NEW t \in Threads, TryStore(t)
    PROVE  IndInv' /\ (Silent \/ Changes(t))
<1>1. /\ Types /\ Stage(t) /\ pc[t] = "entry" /\ call[t].op = "store"
      /\ UNCHANGED <<s_expunged, ro, m_misses, m_dirty, m_dirtyLock, todo, call, e,
                     amended, view, got>>
  BY DEF IndInv, Stages, TryStore, Use, maps, walk
<1>2. PICK c, x : c = call[t] /\ x = e[t]
  OBVIOUS
<1>3. /\ EntryStage(t) /\ c \in Calls /\ c \in Stores /\ c # RangeCall /\ c # None
      /\ x \in Entries /\ ret[t] = Open
  <2>1. EntryStage(t) /\ c # None
    BY <1>1, <1>2 DEF Stage
  <2>2. c \in Calls /\ ret[t] = Open
    BY <1>1, <1>2, <2>1, Running
  <2>3. x \in Entries
    BY <1>1, <1>2, <2>1 DEF EntryStage, Types
  <2> QED
    BY <1>1, <1>2, <2>1, <2>2, <2>3, CallKinds
<1>4. s_expunged = Marker
  BY <1>1 DEF Types
<1>5. CASE /\ cont[x] # Marker /\ cont' = [cont EXCEPT ![x] = c.val]
           /\ ret' = [ret EXCEPT ![t] = Done] /\ pc' = [pc EXCEPT ![t] = "return"]
  <2>1. c \notin Loads
    BY <1>3, CallKinds
  <2>2. Current(c.key, x)
    BY <1>2, <1>3, <1>5, <2>1 DEF EntryStage, Useful, Current
  <2> QED
    BY <1>1, <1>2, <1>3, <1>5, <2>2, WriteInd
<1>6. CASE pc' = [pc EXCEPT ![t] = "lock"] /\ UNCHANGED <<cont, ret>>
  <2>1. pc'[t] = "lock" /\ \A u \in Threads \ {t} : Same(u)
    BY <1>1, <1>6 DEF Same, Types
  <2>2. Types'
    BY <1>1, <1>6 DEF Types, Places
  <2>3. Stage(t)'
    BY <1>1, <1>2, <1>3, <1>6, <2>1 DEF Stage, Decided
  <2>4. \A k \in Keys, y \in Entries : Holds(t, k, y)' => Owns(k, y)
    BY <1>1 DEF Holds, Owns
  <2>5. IndInv'
    BY <1>1, <1>6, <2>1, <2>2, <2>3, <2>4, LightInd
  <2> QED
    BY <1>1, <1>6, <2>5, SameContent DEF Silent
<1> QED
  BY <1>2, <1>4, <1>5, <1>6 DEF TryStore, Storable, Decide, Goto

LEMMA EntryEvictInd ==
    ASSUME IndInv, Observe, NEW t \in Threads, EntryEvict(t)
    PROVE  IndInv' /\ (Changes(t) \/ Looks(t))
<1>1. /\ Types /\ History /\ Stage(t) /\ pc[t] = "entry" /\ call[t].op = "evict"
      /\ UNCHANGED <<s_expunged, ro, m_misses, m_dirty, m_dirtyLock, todo, call, e,
                     amended, view, got>>
      /\ ret' = [ret EXCEPT ![t] = Done] /\ pc' = [pc EXCEPT ![t] = "return"]
  BY DEF IndInv, Stages, EntryEvict, Use, maps, walk, Decide, Goto
<1>2. PICK c, x : c = call[t] /\ x = e[t]
  OBVIOUS
<1>3. /\ c \in Calls /\ c \in Evicts /\ c.key \in Keys /\ x \in Entries /\ x # None
      /\ ret[t] = Open /\ Asks(t) = {c.key} /\ Watched(c) = {c.key}
      /\ Useful(t, c.key, x) /\ s_expunged = Marker
  <2>1. EntryStage(t) /\ c # None
    BY <1>1, <1>2 DEF Stage
  <2>2. c \in Calls /\ ret[t] = Open /\ Asks(t) = Watched(c)
    BY <1>1, <1>2, <2>1, Running
  <2>3. x \in Entries /\ x # None /\ s_expunged = Marker
    BY <1>1, <1>2, <2>1 DEF EntryStage, Types
  <2>4. c \in Evicts /\ c \notin Loads
    BY <1>1, <1>2, <2>2, CallKinds
  <2>5. Useful(t, c.key, x)
    BY <1>2, <2>1, <2>4 DEF EntryStage
  <2> QED
    BY <1>1, <2>2, <2>3, <2>4, <2>5, CallKinds, WatchedKeys
<1>4. CASE cont[x] \in {Nil, Marker}
  <2>1. cont' = cont
    BY <1>2, <1>3, <1>4 DEF EntryEvict
  <2>2. Read(x) = Absent
    BY <1>3, <1>4 DEF Read
  <2>3. Absent \in seen[t][c.key]
    BY <1>1, <1>2, <1>3, <2>2, UsefulRead
  <2>4. IndInv' /\ Content' = Content
    BY <1>1, <2>1, AnswerInd, ContentTypes
  <2> QED
    BY <1>1, <1>2, <1>3, <2>3, <2>4 DEF Looks, Seen
<1>5. CASE cont[x] \notin {Nil, Marker}
  <2>1. cont' = [cont EXCEPT ![x] = Nil]
    BY <1>2, <1>3, <1>5 DEF EntryEvict
  <2>2. Current(c.key, x)
    BY <1>3, <1>5 DEF Useful, Current
  <2> QED
    BY <1>1, <1>2, <1>3, <1>5, <2>1, <2>2, WriteInd
<1> QED
  BY <1>4, <1>5

LEMMA PutInd ==
    ASSUME IndInv, Observe, NEW t \in Threads, Put(t)
    PROVE  IndInv' /\ Changes(t)
<1>1. /\ Types /\ Stage(t) /\ pc[t] = "put" /\ PutStage(t) /\ call[t] \in Stores
      /\ UNCHANGED <<s_expunged, ro, m_misses, m_dirty, m_dirtyLock, todo, call, e,
                     amended, view, got>>
      /\ ret' = [ret EXCEPT ![t] = Done] /\ pc' = [pc EXCEPT ![t] = "return"]
      /\ cont' = [cont EXCEPT ![e[t]] = call[t].val]
  BY DEF IndInv, Stages, Stage, Put, maps, walk, Decide, Goto
<1>2. call[t] \in Calls /\ e[t] \in Entries
  BY <1>1, CallKinds DEF Types, PutStage
<1>3. cont[e[t]] # Marker /\ Current(call[t].key, e[t])
  BY <1>1 DEF PutStage, Current
<1> QED
  BY <1>1, <1>2, <1>3, WriteInd

LEMMA LockFree ==
    ASSUME IndInv, m_dirtyLock = None
    PROVE  /\ ~InPhase("unamend") /\ ~InPhase("fill") /\ todo = {}
           /\ ro.amended => Partial
           /\ ~ro.amended => Complete /\ m_dirty = EmptyMap
<1>1. \A u \in Threads : pc[u] \notin {"unamend", "fill"}
  BY EntriesNumbers DEF IndInv, Stages, Stage
<1> QED
  BY <1>1 DEF IndInv, Tables, Complete, Partial, InPhase

LEMMA StoreDirtyInd ==
    ASSUME IndInv, Observe, NEW t \in Threads, StoreDirty(t)
    PROVE  IndInv' /\ Silent
<1>1. /\ Types /\ Stage(t) /\ pc[t] = "lock" /\ m_dirtyLock = None /\ call[t].op = "store"
      /\ UNCHANGED <<cont, s_expunged, ro, m_misses, m_dirty, todo, call, amended, view,
                     got, ret>>
      /\ pc' = [pc EXCEPT ![t] = "put"] /\ m_dirtyLock' = t
  BY DEF IndInv, Stages, StoreDirty, Lock, maps, walk, store, Goto
<1>2. PICK c, x : c = call[t] /\ x = m_dirty[c.key]
  OBVIOUS
<1>3. c \in Calls /\ c \in Stores /\ c # RangeCall /\ c # None /\ ret[t] = Open
  <2>1. c # None
    BY <1>1, <1>2 DEF Stage
  <2> QED
    BY <1>1, <1>2, <2>1, Running, CallKinds
<1>4. /\ c.key \in DOMAIN m_dirty /\ c.key \notin DOMAIN ro.m /\ x \in Entries
      /\ e' = [e EXCEPT ![t] = x] /\ x # None
  BY <1>1, <1>2, MapTypes, EntriesNumbers DEF StoreDirty, Types
<1>5. Partial
  BY <1>1, <1>4, LockFree, MapTypes
<1>6. /\ pc'[t] = "put" /\ e'[t] = x /\ \A u \in Threads \ {t} : Same(u)
  BY <1>1, <1>4, EntriesNumbers DEF Same, Types
<1>7. Types'
  BY <1>1, <1>4 DEF Types, Places
<1>8. PutStage(t)'
  BY <1>1, <1>2, <1>4, <1>5, <1>6 DEF PutStage, InDirty, Partial
<1>9. Stage(t)'
  BY <1>1, <1>2, <1>3, <1>6, <1>8 DEF Stage, Decided
<1>10. \A k \in Keys, y \in Entries : Holds(t, k, y)' => Owns(k, y)
  BY <1>1, <1>2, <1>4, <1>6 DEF Holds, Owns, InDirty
<1>11. IndInv'
  BY <1>1, <1>6, <1>7, <1>9, <1>10, LightInd
<1> QED
  BY <1>1, <1>11, SameContent DEF Silent

LEMMA WalkCopyInd ==
    ASSUME IndInv, Observe, NEW t \in Threads, WalkCopy(t)
    PROVE  IndInv' /\ Silent
<1>1. /\ Types /\ History /\ Stage(t) /\ pc[t] = "walk" /\ call[t] = RangeCall
      /\ view' = [view EXCEPT ![t] = ro.m] /\ pc' = [pc EXCEPT ![t] = "visit"]
      /\ UNCHANGED <<cont, s_expunged, ro, m_misses, m_dirty, m_dirtyLock, todo, call, e,
                     amended, got, ret>>
  BY DEF IndInv, Stages, Stage, WalkCopy, Goto, store, maps
<1>2. /\ ro.m \in Maps /\ view'[t] = ro.m /\ pc'[t] = "visit"
      /\ \A u \in Threads \ {t} : Same(u)
  BY <1>1 DEF Same, Types
<1>3. Types'
  BY <1>1, <1>2 DEF Types, Places
<1>4. /\ Asks(t) = Keys /\ Asks(t)' = Keys /\ Watched(call[t]) = Keys /\ call[t] # None
      /\ e[t] = None /\ got[t] = EmptyMap /\ Covered(t) /\ ret[t] = Open
  <2>1. call[t] # None /\ e[t] = None /\ got[t] = EmptyMap /\ Covered(t)
    BY <1>1, CallKinds DEF Stage
  <2>2. Asks(t) = Watched(call[t]) /\ Watched(call[t]) = Keys /\ ret[t] = Open
    BY <1>1, <2>1, Running, WatchedKeys
  <2> QED
    BY <1>1, <2>1, <2>2 DEF Asks
<1>5. VisitStage(t)'
  <2>1. \A k \in DOMAIN ro.m : Useful(t, k, view[t][k])'
    BY <1>1, <1>2 DEF Useful, At
  <2>2. \A k \in Keys \ DOMAIN ro.m : Absent \in seen'[t][k]
    BY <1>1, <1>4, SeenGrows DEF Covered
  <2>3. DOMAIN got[t] = {}
    BY <1>4, MapTypes
  <2> QED
    BY <1>1, <1>2, <2>1, <2>2, <2>3 DEF VisitStage
<1>6. Stage(t)'
  <2>1. RangeCall \notin Stores
    BY CallKinds
  <2> QED
    BY <1>1, <1>2, <1>4, <1>5, <2>1 DEF Stage, Decided
<1>7. \A k \in Keys, x \in Entries : Holds(t, k, x)' => Owns(k, x)
  BY <1>1, <1>2 DEF Holds, Owns, At
<1>8. IndInv'
  BY <1>1, <1>2, <1>3, <1>6, <1>7, LightInd
<1> QED
  BY <1>1, <1>8, SameContent DEF Silent

LEMMA VisitInd ==
    ASSUME IndInv, Observe, NEW t \in Threads, Visit(t)
    PROVE  IndInv' /\ Silent
<1>1. /\ Types /\ History /\ Stage(t) /\ pc[t] = "visit" /\ call[t] = RangeCall
      /\ UNCHANGED <<cont, s_expunged, ro, m_misses, m_dirty, m_dirtyLock, todo, pc, call,
                     e, amended, ret>>
  BY DEF IndInv, Stages, Stage, Visit, store, maps
<1>2. PICK k \in DOMAIN view[t] :
         /\ got' = [got EXCEPT ![t] = Insert(got[t], k, Read(view[t][k]))]
         /\ view' = [view EXCEPT ![t] = Without(view[t], k)]
  BY DEF Visit
<1>3. PICK m, g : m = view[t] /\ g = got[t]
  OBVIOUS
<1>4. PICK x : x = m[k]
  OBVIOUS
<1>5. m \in Maps /\ g \in Lookups /\ k \in Keys /\ k \in DOMAIN m /\ x \in Entries
  BY <1>1, <1>2, <1>3, <1>4, MapTypes DEF Types
<1>6. /\ Asks(t) = Keys /\ Asks(t)' = Keys /\ Watched(call[t]) = Keys /\ ret[t] = Open
      /\ VisitStage(t)
  <2>1. call[t] # None /\ VisitStage(t)
    BY <1>1, CallKinds DEF Stage
  <2>2. Asks(t) = Watched(call[t]) /\ Watched(call[t]) = Keys /\ ret[t] = Open
    BY <1>1, <2>1, Running, WatchedKeys
  <2> QED
    BY <1>1, <2>1, <2>2 DEF Asks
<1>7. Read(x) \in seen[t][k] /\ Read(x) \in Values \cup {Absent}
  <2>1. Useful(t, k, x)
    BY <1>3, <1>4, <1>5, <1>6 DEF VisitStage
  <2> QED
    BY <1>1, <1>5, <1>6, <2>1, UsefulRead
<1>8. PICK n, h : n = Without(m, k) /\ h = Insert(g, k, Read(x))
  OBVIOUS
<1>9. /\ n \in Maps /\ DOMAIN n = DOMAIN m \ {k}
      /\ \A j \in DOMAIN n : n[j] = m[j]
  <2>1. /\ Without(m, k) \in Maps
        /\ DOMAIN Without(m, k) = DOMAIN m \ {k}
        /\ \A j \in DOMAIN m \ {k} : Without(m, k)[j] = m[j]
    BY <1>5, MapTypes, Zenon
  <2> QED
    BY <1>8, <2>1
<1>10. /\ h \in Lookups /\ DOMAIN h = DOMAIN g \cup {k} /\ DOMAIN g \subseteq Keys
       /\ \A j \in DOMAIN h : (j \in DOMAIN g /\ h[j] = g[j]) \/ (j = k /\ h[j] = Read(x))
  <2>1. PICK v : v = Read(x)
    OBVIOUS
  <2>2. v \in Values \cup {Absent} /\ h = Insert(g, k, v)
    BY <1>7, <1>8, <2>1
  <2>3. PICK w : w = Insert(g, k, v)
    OBVIOUS
  <2>4. /\ w \in Lookups /\ DOMAIN w = DOMAIN g \cup {k} /\ DOMAIN g \subseteq Keys
        /\ \A j \in DOMAIN w : (j \in DOMAIN g /\ w[j] = g[j]) \/ (j = k /\ w[j] = v)
    BY <1>5, <2>2, <2>3, LookupTypes
  <2> QED
    BY <2>1, <2>2, <2>3, <2>4
<1>11. /\ view' = [view EXCEPT ![t] = n] /\ got' = [got EXCEPT ![t] = h]
       /\ view'[t] = n /\ got'[t] = h
       /\ \A u \in Threads \ {t} : Same(u)
  BY <1>1, <1>2, <1>3, <1>4, <1>8 DEF Same, Types
<1>12. Types'
  BY <1>1, <1>9, <1>10, <1>11 DEF Types, Places
<1>13. \A j \in Keys : seen[t][j] \subseteq seen'[t][j]
  BY <1>1, <1>6, SeenGrows
<1>14. VisitStage(t)'
  <2>1. \A j \in DOMAIN n : Useful(t, j, view[t][j])'
    <3> SUFFICES ASSUME NEW j \in DOMAIN n PROVE Useful(t, j, view[t][j])'
      OBVIOUS
    <3>1. Useful(t, j, m[j]) /\ j \in Keys
      BY <1>3, <1>5, <1>6, <1>9, MapTypes DEF VisitStage
    <3> QED
      BY <1>1, <1>6, <1>9, <1>11, <1>13, <3>1 DEF Useful, At
  <2>2. \A j \in DOMAIN h : h[j] \in seen'[t][j]
    BY <1>3, <1>5, <1>6, <1>7, <1>10, <1>13 DEF VisitStage
  <2>3. \A j \in Keys \ (DOMAIN n \cup DOMAIN h) : Absent \in seen'[t][j]
    BY <1>3, <1>6, <1>9, <1>10, <1>13 DEF VisitStage
  <2> QED
    BY <1>11, <2>1, <2>2, <2>3 DEF VisitStage
<1>15. Stage(t)'
  BY <1>1, <1>6, <1>14 DEF Stage, Decided
<1>16. \A j \in Keys, y \in Entries : Holds(t, j, y)' => Owns(j, y)
  BY <1>1, <1>3, <1>9, <1>11 DEF Holds, Owns
<1>17. IndInv'
  BY <1>1, <1>11, <1>12, <1>15, <1>16, LightInd
<1> QED
  BY <1>1, <1>17, SameContent DEF Silent

LEMMA WalkEndInd ==
    ASSUME IndInv, Observe, NEW t \in Threads, WalkEnd(t)
    PROVE  IndInv' /\ Looks(t)
<1>1. PICK g, r : /\ g = got[t]
                  /\ r = [k \in Keys |-> IF k \in DOMAIN g THEN g[k] ELSE Absent]
  OBVIOUS
<1>2. /\ Types /\ History /\ Stage(t) /\ pc[t] = "visit" /\ call[t] = RangeCall
      /\ DOMAIN view[t] = {}
      /\ UNCHANGED <<cont, s_expunged, ro, m_misses, m_dirty, m_dirtyLock, todo, call, e,
                     amended, view>>
      /\ got' = [got EXCEPT ![t] = EmptyMap] /\ pc' = [pc EXCEPT ![t] = "return"]
      /\ ret' = [ret EXCEPT ![t] = r]
  BY <1>1 DEF IndInv, Stages, Stage, WalkEnd, Goto, Decide, store, maps
<1>3. call[t] # None /\ VisitStage(t) /\ e[t] = None /\ ret[t] = Open
  BY <1>2, CallKinds DEF Stage, Decided
<1>4. view[t] = EmptyMap /\ g \in Lookups
  BY <1>1, <1>2, MapTypes DEF Types
<1>5. \A k \in Keys : r[k] \in Values \cup {Absent} /\ r[k] \in seen[t][k]
  BY <1>1, <1>2, <1>3, <1>4 DEF VisitStage, Lookups
<1>6. r \in [Keys -> Values \cup {Absent}] /\ r \in Answers /\ r # Open
  <2>1. r \in [Keys -> Values \cup {Absent}]
    BY <1>1, <1>5
  <2> QED
    BY <1>2, <2>1, ContentTypes
<1>7. pc'[t] = "return" /\ ret'[t] = r /\ \A u \in Threads \ {t} : Same(u)
  BY <1>2 DEF Same, Types
<1>8. got'[t] = EmptyMap
  BY <1>2 DEF Types
<1>9. Types'
  BY <1>2, <1>6, MapTypes DEF Types, Places
<1>10. Stage(t)'
  BY <1>2, <1>3, <1>4, <1>6, <1>7, <1>8, CallKinds DEF Stage, Decided
<1>11. \A k \in Keys, x \in Entries : Holds(t, k, x)' => Owns(k, x)
  BY <1>2 DEF Holds, Owns
<1>12. IndInv'
  BY <1>2, <1>7, <1>9, <1>10, <1>11, LightInd
<1>13. Seen(t, r)
  BY <1>2, <1>5, <1>6 DEF Seen
<1> QED
  BY <1>2, <1>3, <1>12, <1>13, SameContent DEF Looks

(* A call that holds the lock takes d, the dirty map without the key that  *)
(* it evicts, for the dirty map or for the read-only one.                  *)
LEMMA TableStep ==
    ASSUME IndInv, Partial, todo = {}, NEW t \in Threads,
           NEW c \in Calls, NEW d \in Maps,
           \A j \in DOMAIN d : j \in DOMAIN m_dirty /\ d[j] = m_dirty[j],
           \A j \in DOMAIN m_dirty : j \in DOMAIN d \/ (c \in Evicts /\ j = c.key),
           c \in Evicts => c.key \in Keys /\ c.key \notin DOMAIN ro.m
                                          /\ c.key \notin DOMAIN d,
           \/ ro'.m = ro.m /\ m_dirty' = d /\ pc'[t] # "unamend"
           \/ ro'.m = d /\ m_dirty' = EmptyMap /\ pc'[t] = "unamend",
           ro' \in [m : Maps, amended : BOOLEAN], ro'.amended = TRUE,
           UNCHANGED <<cont, s_expunged, todo>>,
           \A u \in Threads \ {t} : Same(u),
           \A k \in Keys, x \in Entries : Holds(t, k, x)' => Owns(k, x)
    PROVE  /\ Owners' /\ Tables' /\ \A k \in Keys, x \in Entries : Stays(k, x)
           /\ \A k \in DOMAIN ro.m : k \in DOMAIN ro'.m \/ Content[k] = Absent
           /\ Content' = IF c \in Evicts THEN [Content EXCEPT ![c.key] = Absent] ELSE Content
<1>1. Types /\ Owners /\ ~InPhase("unamend") /\ ro.amended
  BY DEF IndInv, Partial
<1>2. /\ ro.m \in Maps /\ m_dirty \in Maps /\ ro'.m \in Maps /\ s_expunged = Marker
      /\ DOMAIN EmptyMap = {} /\ DOMAIN ro.m \subseteq Keys
  BY <1>1, MapTypes DEF Types
<1>3. /\ \A j \in DOMAIN ro.m :
            IF cont[ro.m[j]] = Marker THEN j \notin DOMAIN m_dirty /\ j \notin DOMAIN d
            ELSE /\ j \in DOMAIN m_dirty /\ m_dirty[j] = ro.m[j]
                 /\ j \in DOMAIN d /\ d[j] = ro.m[j]
      /\ \A j \in DOMAIN d : cont[d[j]] # Marker
  BY DEF Partial
<1>4. Owners'
  <2>1. \A k \in Keys, x \in Entries :
           At(k, x)' \/ InDirty(k, x)' \/ Holds(t, k, x)' => Owns(k, x)
    BY <1>2 DEF Owns, At, InDirty
  <2> QED
    BY <1>1, <2>1, OwnersFrame
<1>5. Tables'
  <2>1. CASE ro'.m = ro.m /\ m_dirty' = d /\ pc'[t] # "unamend"
    <3>1. ~InPhase("unamend")'
      BY <1>1, <2>1 DEF InPhase, Same
    <3> QED
      BY <1>3, <2>1, <3>1 DEF Tables, Partial
  <2>2. CASE ro'.m = d /\ m_dirty' = EmptyMap /\ pc'[t] = "unamend"
    <3>1. InPhase("unamend")' /\ InPhase("unamend")' \in BOOLEAN
      BY <2>2 DEF InPhase
    <3> QED
      BY <1>3, <2>2, <3>1 DEF Tables, Complete
  <2> QED
    BY <2>1, <2>2
<1>6. \A j \in DOMAIN ro.m : cont[ro.m[j]] = Marker => Content[j] = Absent
  BY <1>1, <1>2, ContentTypes DEF Read
<1>7. \A j \in DOMAIN ro.m :
         \/ j \in DOMAIN ro'.m /\ ro'.m[j] = ro.m[j]
         \/ cont[ro.m[j]] = Marker /\ Content[j] = Absent
  BY <1>3, <1>6
<1>8. /\ \A k \in Keys, x \in Entries : Stays(k, x)
      /\ \A k \in DOMAIN ro.m : k \in DOMAIN ro'.m \/ Content[k] = Absent
  BY <1>7 DEF Stays, At
<1>9. \A j \in Keys :
         Content'[j] = IF c \in Evicts /\ j = c.key THEN Absent ELSE Content[j]
  <2> SUFFICES ASSUME NEW j \in Keys
               PROVE  Content'[j] = IF c \in Evicts /\ j = c.key THEN Absent ELSE Content[j]
    OBVIOUS
  <2>1. Content'[j] = IF j \in DOMAIN ro'.m THEN Read(ro'.m[j])
                      ELSE IF j \in DOMAIN m_dirty' THEN Read(m_dirty'[j]) ELSE Absent
    <3>1. Read(ro.m[j])' = Read(ro'.m[j]) /\ Read(m_dirty[j])' = Read(m_dirty'[j])
      BY DEF Read
    <3> QED
      BY <3>1, ContentNext
  <2>2. Content[j] = IF j \in DOMAIN ro.m THEN Read(ro.m[j])
                     ELSE IF j \in DOMAIN m_dirty THEN Read(m_dirty[j]) ELSE Absent
    BY <1>1, ContentTypes
  <2> QED
    BY <1>2, <1>3, <1>6, <2>1, <2>2
<1>10. Content' = IF c \in Evicts THEN [Content EXCEPT ![c.key] = Absent] ELSE Content
  BY <1>1, <1>9, ContentTypes, ContentNext
<1> QED
  BY <1>4, <1>5, <1>8, <1>10

LEMMA LockedRangeInd ==
    ASSUME IndInv, Observe, NEW t \in Threads, LockedRange(t)
    PROVE  IndInv' /\ Silent
<1>1. /\ Types /\ History /\ Stage(t) /\ pc[t] = "lock" /\ m_dirtyLock = None
      /\ call[t] = RangeCall
      /\ UNCHANGED <<cont, s_expunged, todo, call, e, amended, view, got, ret>>
  BY DEF IndInv, Stages, LockedRange, Lock, store, walk
<1>2. /\ RangeCall \in Calls /\ RangeCall # None /\ RangeCall \notin Stores \cup Evicts
      /\ Watched(RangeCall) = Keys
  BY CallKinds, WatchedKeys
<1>3. ret[t] = Open /\ e[t] = None /\ view[t] = EmptyMap /\ got[t] = EmptyMap
  BY <1>1 DEF Stage, Decided
<1>4. \A k \in Keys, x \in Entries : Holds(t, k, x)' => Owns(k, x)
  BY <1>1 DEF Holds, Owns
<1>5. CASE /\ ro.amended /\ m_dirtyLock' = t /\ ro' = [ro EXCEPT !.m = m_dirty]
           /\ m_dirty' = EmptyMap /\ pc' = [pc EXCEPT ![t] = "unamend"]
  <2>1. pc'[t] = "unamend" /\ \A u \in Threads \ {t} : Same(u)
    BY <1>1, <1>5, EntriesNumbers DEF Same, Types
  <2>2. /\ ro' \in [m : Maps, amended : BOOLEAN] /\ ro'.amended = TRUE
        /\ ro'.m = m_dirty /\ m_dirty \in Maps /\ m_dirty' \in Maps
    BY <1>1, <1>5, MapTypes DEF Types
  <2>3. Types'
    BY <1>1, <1>5, <2>2 DEF Types, Places
  <2>4. Partial /\ todo = {}
    BY <1>1, <1>5, LockFree
  <2>5. /\ Owners' /\ Tables' /\ \A k \in Keys, x \in Entries : Stays(k, x)
        /\ \A k \in DOMAIN ro.m : k \in DOMAIN ro'.m \/ Content[k] = Absent
        /\ Content' = Content
    BY <1>1, <1>2, <1>4, <1>5, <2>1, <2>2, <2>4, TableStep
  <2>6. Stage(t)'
    BY <1>1, <1>2, <1>3, <1>5, <2>1 DEF Stage, Decided, UnamendStage
  <2>7. IndInv'
    BY <1>1, <2>1, <2>3, <2>5, <2>6, TableInd
  <2> QED
    BY <1>1, <2>5, <2>7 DEF Silent
<1>6. CASE /\ ~ro.amended /\ pc' = [pc EXCEPT ![t] = "walk"]
           /\ UNCHANGED <<m_dirtyLock, ro, m_misses, m_dirty>>
  <2>1. pc'[t] = "walk" /\ \A u \in Threads \ {t} : Same(u)
    BY <1>1, <1>6 DEF Same, Types
  <2>2. Types'
    BY <1>1, <1>6 DEF Types, Places
  <2>3. Covered(t)'
    <3>1. Asks(t) = Keys /\ Asks(t)' = Keys
      BY <1>1, <1>2, <1>3 DEF Asks
    <3>2. \A k \in Keys : k \in DOMAIN ro.m \/ Content[k] = Absent
      BY <1>1, <1>6, ContentTypes
    <3> QED
      BY <1>1, <1>2, <1>6, <3>1, <3>2, SeenGrows DEF Covered
  <2>4. Stage(t)'
    BY <1>1, <1>2, <1>3, <2>1, <2>3 DEF Stage, Decided
  <2>5. IndInv'
    BY <1>1, <1>4, <1>6, <2>1, <2>2, <2>4, LightInd
  <2> QED
    BY <1>1, <1>6, <2>5, SameContent DEF Silent
<1> QED
  BY <1>5, <1>6 DEF LockedRange, Publish, Goto, maps

LEMMA LockedLookInd ==
    ASSUME IndInv, Observe, NEW t \in Threads, LockedLook(t)
    PROVE  IndInv' /\ (Silent \/ Changes(t) \/ Looks(t))
<1>1. /\ Types /\ History /\ Owners /\ Stages /\ Stage(t)
      /\ pc[t] = "lock" /\ m_dirtyLock = None /\ m_dirtyLock' = t
      /\ call[t].op \in {"load", "evict"}
      /\ UNCHANGED <<cont, s_expunged, todo, call, amended, view, got>>
  BY DEF IndInv, Stages, LockedLook, Lock, store, walk
<1>2. PICK c : c = call[t]
  OBVIOUS
<1>3. /\ c \in Calls /\ c # RangeCall /\ c # None /\ c \notin Stores
      /\ c.op = "load" <=> c \in Loads
      /\ c.op = "evict" <=> c \in Evicts
      /\ c \in Loads \cup Evicts /\ ~(c \in Loads /\ c \in Evicts)
      /\ c.key \in Keys /\ ret[t] = Open
      /\ Asks(t) = {c.key} /\ Watched(c) = {c.key}
  <2>1. c # None
    BY <1>1, <1>2 DEF Stage
  <2>2. c \in Calls /\ ret[t] = Open /\ Asks(t) = Watched(c)
    BY <1>1, <1>2, <2>1, Running
  <2> QED
    BY <1>1, <1>2, <2>1, <2>2, CallKinds, WatchedKeys
<1>4. PICK k, x : k = c.key /\ x = Mapped(ro.m, k)
  OBVIOUS
<1>5. PICK d, y : /\ d = IF c.op = "evict" THEN Without(m_dirty, k) ELSE m_dirty
                  /\ y = IF c.op = "load" THEN Mapped(m_dirty, k) ELSE None
  OBVIOUS
<1>6. PICK z : z = IF x # None THEN x ELSE IF ro.amended THEN y ELSE None
  OBVIOUS
<1>7. /\ e' = [e EXCEPT ![t] = z]
      /\ \/ x # None /\ pc' = [pc EXCEPT ![t] = "entry"] /\ UNCHANGED <<ro, m_dirty>>
         \/ /\ x = None /\ ~ro.amended /\ pc' = [pc EXCEPT ![t] = "return"]
            /\ UNCHANGED <<ro, m_dirty>>
         \/ /\ x = None /\ ro.amended /\ ro' = [ro EXCEPT !.m = d] /\ m_dirty' = EmptyMap
            /\ pc' = [pc EXCEPT ![t] = "unamend"]
         \/ /\ x = None /\ ro.amended /\ m_dirty' = d /\ ro' = ro
            /\ pc' = [pc EXCEPT ![t] = IF y = None THEN "return" ELSE "entry"]
  BY <1>2, <1>4, <1>5, <1>6 DEF LockedLook, Publish, Goto, maps
<1>8. /\ ro.m \in Maps /\ m_dirty \in Maps /\ k \in Keys /\ ro.amended \in BOOLEAN
      /\ x \in Entries \cup {None} /\ (x # None <=> k \in DOMAIN ro.m)
      /\ k \in DOMAIN ro.m => ro.m[k] = x
      /\ z \in Entries \cup {None} /\ (z # None => z \in Entries)
      /\ y # None <=> c.op = "load" /\ k \in DOMAIN m_dirty
      /\ y # None => m_dirty[k] = y
  <2>1. ro.m \in Maps /\ m_dirty \in Maps /\ k \in Keys /\ ro.amended \in BOOLEAN
    BY <1>1, <1>3, <1>4 DEF Types
  <2>2. /\ x \in Entries \cup {None} /\ (x # None <=> k \in DOMAIN ro.m)
        /\ k \in DOMAIN ro.m => ro.m[k] = x
    BY <1>4, <2>1, MapTypes
  <2>3. /\ y \in Entries \cup {None}
        /\ y # None <=> c.op = "load" /\ k \in DOMAIN m_dirty
        /\ y # None => m_dirty[k] = y
    BY <1>5, <2>1, MapTypes
  <2> QED
    BY <1>6, <2>1, <2>2, <2>3
<1>9. /\ e'[t] = z /\ call'[t] = c /\ pc'[t] \in {"entry", "return", "unamend"}
      /\ \A u \in Threads \ {t} : Same(u)
  <2>1. /\ e'[t] = z /\ call'[t] = c /\ pc'[t] \in {"entry", "return", "unamend"}
        /\ \A u \in Threads \ {t} : pc'[u] = pc[u] /\ e'[u] = e[u]
    BY <1>1, <1>2, <1>7 DEF Types
  <2>2. \A u \in Threads \ {t} : ret'[u] = ret[u]
    BY <1>1 DEF LockedLook, Decide, Types
  <2> QED
    BY <1>1, <2>1, <2>2, EntriesNumbers DEF Same
<1>10. PICK r : r = IF c.op = "load" THEN Absent ELSE Done
  OBVIOUS
<1>11. ret' = IF z = None THEN [ret EXCEPT ![t] = r] ELSE ret
  BY <1>2, <1>9, <1>10 DEF LockedLook, Decide, NotFound
<1>12. r \in Answers /\ r # Open /\ (ret'[t] = Open <=> z # None)
  BY <1>1, <1>3, <1>10, <1>11, ContentTypes DEF Types
<1>13. /\ ret' \in [Threads -> Answers \cup {Open}] /\ e' \in [Threads -> Entries \cup {None}]
       /\ pc' \in [Threads -> Places]
  BY <1>1, <1>7, <1>8, <1>11, <1>12 DEF Types, Places
<1>14. \A j \in Keys, w \in Entries : Holds(t, j, w)' => Owns(j, w)
  <2>1. z # None => Owns(k, z)
    BY <1>6, <1>8 DEF Owns, At, InDirty
  <2> QED
    BY <1>1, <1>2, <1>4, <1>9, <2>1, EntriesNumbers DEF Holds, Owns
<1>15. Content[k] = Absent /\ z = None /\ Content' = Content => Looks(t)
  <2> SUFFICES ASSUME Content[k] = Absent, z = None, Content' = Content PROVE Looks(t)
    OBVIOUS
  <2>1. Absent \in seen[t][c.key]
    BY <1>1, <1>3, <1>4 DEF History
  <2>2. Seen(t, r)
    BY <1>2, <1>3, <1>10, <2>1 DEF Seen
  <2> QED
    BY <1>1, <1>3, <1>11, <2>2 DEF Looks
<1>16. view[t] = EmptyMap /\ got[t] = EmptyMap
  BY <1>1 DEF Stage
<1>17. CASE UNCHANGED <<ro, m_dirty>> /\ (x # None \/ ~ro.amended)
  <2>1. Types'
    BY <1>1, <1>13, <1>17 DEF Types
  <2>2. Content' = Content
    BY <1>1, <1>17, SameContent
  <2>3. z = x /\ pc'[t] = IF z = None THEN "return" ELSE "entry"
    BY <1>1, <1>6, <1>7, <1>17 DEF Types
  <2>4. x = None => Content[k] = Absent
    BY <1>1, <1>8, <1>17, ContentTypes
  <2>5. x # None => EntryStage(t)'
    BY <1>3, <1>4, <1>8, <1>9, <1>17, <2>3 DEF EntryStage, Useful, At
  <2>6. Stage(t)'
    BY <1>1, <1>3, <1>9, <1>12, <1>16, <2>3, <2>5 DEF Stage, Decided
  <2>7. IndInv'
    BY <1>1, <1>9, <1>14, <1>17, <2>1, <2>3, <2>6, LightInd
  <2> QED
    BY <1>1, <1>11, <1>15, <2>2, <2>3, <2>4, <2>7 DEF Silent
<1>18. CASE /\ x = None /\ ro.amended
            /\ \/ ro' = [ro EXCEPT !.m = d] /\ m_dirty' = EmptyMap /\ pc'[t] = "unamend"
               \/ m_dirty' = d /\ ro' = ro /\ pc'[t] = IF y = None THEN "return" ELSE "entry"
  <2>1. k \notin DOMAIN ro.m /\ z = y /\ Partial /\ todo = {}
    BY <1>1, <1>6, <1>8, <1>18, LockFree
  <2>2. /\ d \in Maps
        /\ \A j \in DOMAIN d : j \in DOMAIN m_dirty /\ d[j] = m_dirty[j]
        /\ \A j \in DOMAIN m_dirty : j \in DOMAIN d \/ (c \in Evicts /\ j = c.key)
        /\ c \in Evicts => c.key \notin DOMAIN d
    <3>1. CASE c \in Evicts
      <4>1. d = Without(m_dirty, k)
        BY <1>3, <1>5, <3>1
      <4>2. m_dirty \in Maps /\ k \in Keys
        BY <1>8
      <4>3. /\ Without(m_dirty, k) \in Maps
            /\ DOMAIN Without(m_dirty, k) = DOMAIN m_dirty \ {k}
            /\ \A j \in DOMAIN m_dirty \ {k} : Without(m_dirty, k)[j] = m_dirty[j]
        BY <4>2, MapTypes
      <4>4. /\ d \in Maps /\ DOMAIN d = DOMAIN m_dirty \ {k}
            /\ \A j \in DOMAIN m_dirty \ {k} : d[j] = m_dirty[j]
        BY <4>1, <4>3
      <4> QED
        BY <1>4, <3>1, <4>4
    <3>2. CASE c \notin Evicts
      BY <1>3, <1>5, <1>8, <3>2
    <3> QED
      BY <3>1, <3>2
  <2>3. /\ ro' \in [m : Maps, amended : BOOLEAN] /\ ro'.amended = TRUE /\ m_dirty' \in Maps
        /\ \/ ro'.m = ro.m /\ m_dirty' = d /\ pc'[t] # "unamend"
           \/ ro'.m = d /\ m_dirty' = EmptyMap /\ pc'[t] = "unamend"
    BY <1>1, <1>18, <2>2, MapTypes DEF Types
  <2>4. Types'
    BY <1>1, <1>13, <2>3 DEF Types
  <2>5. /\ Owners' /\ Tables' /\ \A j \in Keys, w \in Entries : Stays(j, w)
        /\ \A j \in DOMAIN ro.m : j \in DOMAIN ro'.m \/ Content[j] = Absent
        /\ Content' = IF c \in Evicts THEN [Content EXCEPT ![c.key] = Absent] ELSE Content
    <3>1. c \in Evicts => c.key \in Keys /\ c.key \notin DOMAIN ro.m
                                         /\ c.key \notin DOMAIN d
      BY <1>3, <1>4, <2>1, <2>2
    <3>2. UNCHANGED <<cont, s_expunged, todo>> /\ c \in Calls
      BY <1>1, <1>3
    <3>3. \A u \in Threads \ {t} : Same(u)
      BY <1>9
    <3> QED
      BY <1>14, <2>1, <2>2, <2>3, <3>1, <3>2, <3>3, TableStep, ZenonT(30)
  <2>6. /\ pc'[t] = "entry" => z # None
        /\ pc'[t] = "return" => z = None
        /\ z # None => c \in Loads /\ k \in DOMAIN d /\ d[k] = z
    BY <1>3, <1>5, <1>8, <1>18, <2>1
  <2>7. pc'[t] = "entry" => EntryStage(t)'
    <3>1. pc'[t] = "entry" => m_dirty' = d /\ ro' = ro
      BY <1>18
    <3> QED
      BY <1>1, <1>3, <1>4, <1>9, <1>18, <2>1, <2>6, <3>1 DEF EntryStage, InDirty
  <2>8. pc'[t] = "unamend" => UnamendStage(t)'
    BY <1>3, <1>4, <1>9, <2>3, <2>6 DEF UnamendStage, At
  <2>9. Stage(t)'
    <3>1. pc'[t] \in {"entry", "return", "unamend"}
      BY <1>9
    <3>2. Decided(t)' <=> z = None
      BY <1>3, <1>9, <2>6, <3>1 DEF Decided
    <3> QED
      BY <1>1, <1>3, <1>9, <1>12, <1>16, <2>7, <2>8, <3>1, <3>2 DEF Stage
  <2>10. IndInv'
    BY <1>1, <1>9, <2>4, <2>5, <2>9, TableInd
  <2>11. CASE z # None
    BY <1>1, <1>3, <1>11, <2>5, <2>6, <2>10, <2>11 DEF Silent
  <2>12. CASE z = None /\ c \in Evicts
    BY <1>1, <1>2, <1>3, <1>10, <1>11, <2>5, <2>10, <2>12 DEF Changes
  <2>13. CASE z = None /\ c \in Loads
    <3>1. k \notin DOMAIN m_dirty
      BY <1>3, <1>8, <2>1, <2>13
    <3>2. Content[k] = Absent
      BY <1>1, <1>8, <2>1, <3>1, ContentTypes
    <3> QED
      BY <1>3, <1>15, <2>5, <2>10, <2>13, <3>2
  <2> QED
    BY <1>3, <2>11, <2>12, <2>13
<1> QED
  BY <1>1, <1>7, <1>17, <1>18 DEF Types

LEMMA UnamendInd ==
    ASSUME IndInv, Observe, NEW t \in Threads, Unamend(t)
    PROVE  IndInv' /\ Silent
<1>1. /\ Types /\ History /\ Owners /\ Tables /\ Stages /\ Stage(t) /\ pc[t] = "unamend"
      /\ UNCHANGED <<cont, s_expunged, m_dirty, todo, call, e, amended, view, got, ret>>
      /\ ro' = [ro EXCEPT !.amended = FALSE]
      /\ m_dirtyLock' = IF call[t] = RangeCall THEN None ELSE m_dirtyLock
  BY DEF IndInv, Stages, Unamend, store, walk
<1>2. PICK c, x : c = call[t] /\ x = e[t]
  OBVIOUS
<1>3. PICK p : p = IF c = RangeCall THEN "walk" ELSE IF x = None THEN "return" ELSE "entry"
  OBVIOUS
<1>4. pc' = [pc EXCEPT ![t] = p]
  BY <1>2, <1>3 DEF Unamend, Goto
<1>5. /\ c \in Calls /\ c # None /\ m_dirtyLock = t /\ c \notin Stores /\ UnamendStage(t)
      /\ view[t] = EmptyMap /\ got[t] = EmptyMap /\ (c = RangeCall => x = None)
      /\ ret[t] = Open <=> c = RangeCall \/ x # None
  <2>1. c # None /\ c \notin Stores /\ m_dirtyLock = t /\ UnamendStage(t)
    BY <1>1, <1>2 DEF Stage
  <2>2. /\ view[t] = EmptyMap /\ got[t] = EmptyMap /\ (c = RangeCall => x = None)
        /\ ret[t] = Open <=> c = RangeCall \/ x # None
    BY <1>1, <1>2 DEF Stage, Decided
  <2> QED
    BY <1>1, <1>2, <2>1, <2>2 DEF Types
<1>6. Complete /\ m_dirty = EmptyMap
  <2>1. InPhase("unamend")
    BY <1>1 DEF InPhase
  <2> QED
    BY <1>1, <2>1 DEF Tables, Partial, Complete
<1>7. /\ ro'.m = ro.m /\ ro'.amended = FALSE /\ ro' \in [m : Maps, amended : BOOLEAN]
      /\ pc'[t] = p /\ p \in {"walk", "return", "entry"} /\ \A u \in Threads \ {t} : Same(u)
  BY <1>1, <1>3, <1>4, <1>5 DEF Same, Types
<1>8. Types'
  <2>1. pc' \in [Threads -> Places]
    BY <1>1, <1>4, <1>7 DEF Types, Places
  <2> QED
    BY <1>1, <1>7, <2>1 DEF Types
<1>9. Owners'
  <2>1. \A k \in Keys, y \in Entries :
           At(k, y)' \/ InDirty(k, y)' \/ Holds(t, k, y)' => Owns(k, y)
    BY <1>1, <1>7 DEF Owns, Holds, At, InDirty
  <2> QED
    BY <1>1, <1>7, <2>1, OwnersFrame
<1>10. InPhase("unamend")' = FALSE
  <2>1. \A u \in Threads \ {t} : pc[u] # "unamend"
    BY <1>1, <1>5 DEF Stages, Stage
  <2> QED
    BY <1>7, <2>1 DEF InPhase, Same
<1>11. Tables'
  <2>1. m_dirty' = EmptyMap /\ ro'.amended = InPhase("unamend")' /\ todo' = {}
    BY <1>1, <1>6, <1>7, <1>10 DEF Complete
  <2>2. \A k \in DOMAIN ro'.m : cont'[ro'.m[k]] # Marker
    BY <1>1, <1>6, <1>7 DEF Complete
  <2> QED
    BY <2>1, <2>2 DEF Tables, Complete
<1>12. DOMAIN m_dirty = {} /\ \A k \in Keys : k \in DOMAIN ro.m \/ Content[k] = Absent
  BY <1>1, <1>6, MapTypes, ContentTypes
<1>13. Content' = Content
  BY <1>1, <1>7, <1>12 DEF Content, Read
<1>14. \A k \in Keys, y \in Entries : Stays(k, y)
  BY <1>1, <1>7 DEF Stays, At
<1>15. p = "entry" => EntryStage(t)'
  BY <1>1, <1>2, <1>3, <1>5, <1>7 DEF EntryStage, UnamendStage, Useful, At
<1>16. p = "walk" => Covered(t)'
  <2> SUFFICES ASSUME p = "walk" PROVE Covered(t)'
    OBVIOUS
  <2>1. c = RangeCall /\ ret[t] = Open /\ Watched(c) = Keys
    BY <1>3, <1>5, WatchedKeys
  <2>2. Asks(t) = Keys /\ Asks(t)' = Keys
    BY <1>1, <1>2, <1>5, <2>1 DEF Asks
  <2> QED
    BY <1>1, <1>2, <1>7, <1>12, <2>1, <2>2, SeenGrows DEF Covered
<1>17. Stage(t)'
  <2>1. Decided(t)' <=> p = "return"
    BY <1>7 DEF Decided
  <2> QED
    BY <1>1, <1>2, <1>3, <1>5, <1>7, <1>15, <1>16, <2>1 DEF Stage
<1>18. IndInv'
  BY <1>1, <1>5, <1>7, <1>8, <1>9, <1>11, <1>14, <1>17, TableInd
<1> QED
  BY <1>1, <1>13, <1>18 DEF Silent

LEMMA StoreFoundInd ==
    ASSUME IndInv, Observe, NEW t \in Threads, StoreFound(t),
           ~ExchangeFails(t), ~EntryStale(t)
    PROVE  IndInv' /\ Silent
<1>1. /\ Types /\ Owners /\ Stage(t) /\ pc[t] = "lock" /\ m_dirtyLock = None
      /\ call[t].op = "store"
      /\ UNCHANGED <<ro, m_misses, todo, call, amended, view, got, ret>>
      /\ pc' = [pc EXCEPT ![t] = "put"] /\ m_dirtyLock' = t
  BY DEF IndInv, Stages, StoreFound, Lock, Goto, walk
<1>2. PICK c, k : c = call[t] /\ k = c.key
  OBVIOUS
<1>3. /\ c \in Calls /\ c \in Stores /\ c # RangeCall /\ c # None /\ k \in Keys
      /\ ret[t] = Open /\ view[t] = EmptyMap /\ got[t] = EmptyMap
  <2>1. c # None /\ view[t] = EmptyMap /\ got[t] = EmptyMap
    BY <1>1, <1>2 DEF Stage
  <2>2. c \in Calls /\ ret[t] = Open
    BY <1>1, <1>2, <2>1, Running
  <2> QED
    BY <1>1, <1>2, <2>1, <2>2, CallKinds
<1>4. PICK x : x = ro.m[k]
  OBVIOUS
<1>5. /\ k \in DOMAIN ro.m /\ x \in Entries /\ x # None /\ cont[x] = Marker
      /\ s_expunged = Marker /\ ro.m \in Maps /\ m_dirty \in Maps /\ DOMAIN ro.m \subseteq Keys
  <2>1. k \in DOMAIN ro.m
    BY <1>2 DEF EntryStale
  <2>2. s_expunged = Marker /\ ro.m \in Maps /\ m_dirty \in Maps
    BY <1>1 DEF Types
  <2> QED
    BY <1>2, <1>4, <2>1, <2>2, MapTypes, EntriesNumbers DEF ExchangeFails
<1>6. /\ e' = [e EXCEPT ![t] = x] /\ cont' = [cont EXCEPT ![x] = Nil]
      /\ m_dirty' = Insert(m_dirty, k, x) /\ UNCHANGED s_expunged
  BY <1>2, <1>4, <1>5 DEF StoreFound, Revived
<1>7. /\ pc'[t] = "put" /\ e'[t] = x /\ \A u \in Threads \ {t} : Same(u)
  BY <1>1, <1>5, <1>6, EntriesNumbers DEF Same, Types
<1>8. Partial /\ todo = {}
  <2>1. ~Complete
    BY <1>4, <1>5 DEF Complete
  <2> QED
    BY <1>1, <2>1, LockFree DEF IndInv, Tables
<1>9. /\ m_dirty' \in Maps /\ DOMAIN m_dirty' = DOMAIN m_dirty \cup {k}
      /\ k \notin DOMAIN m_dirty /\ m_dirty'[k] = x
      /\ \A j \in DOMAIN m_dirty : m_dirty'[j] = m_dirty[j] /\ j # k
  <2>1. k \notin DOMAIN m_dirty
    BY <1>4, <1>5, <1>8 DEF Partial
  <2>2. m_dirty \in Maps /\ k \in Keys /\ x \in Entries /\ m_dirty' = Insert(m_dirty, k, x)
    BY <1>3, <1>5, <1>6
  <2>3. m_dirty' \in Maps /\ DOMAIN m_dirty' = DOMAIN m_dirty \cup {k}
    BY <2>2, InsertTypes
  <2>4. m_dirty'[k] = x /\ \A j \in DOMAIN m_dirty : m_dirty'[j] = m_dirty[j] /\ j # k
    BY <2>1, <2>2 DEF Insert
  <2> QED
    BY <2>1, <2>3, <2>4
<1>10. cont'[x] = Nil /\ Nil # Marker /\ \A y \in Entries \ {x} : cont'[y] = cont[y]
  BY <1>1, <1>5, <1>6, MapAssumption DEF Types
<1>11. Types'
  BY <1>1, <1>5, <1>6, <1>9 DEF Types, Places
<1>12. At(k, x) /\ Owns(k, x)
  BY <1>4, <1>5 DEF At, Owns
<1>13. /\ \A j \in DOMAIN ro.m : ro.m[j] \in Entries /\ (j # k => ro.m[j] # x)
       /\ \A j \in DOMAIN m_dirty : m_dirty[j] \in Entries /\ m_dirty[j] # x
       /\ \A j \in Keys : Owns(j, x) => j = k
  BY <1>1, <1>3, <1>5, <1>8, <1>12, OneKey, MapTypes DEF Partial
<1>14. Owners'
  <2>1. \A j \in Keys, y \in Entries : InDirty(j, y)' => Owns(j, y)
    BY <1>9, <1>12 DEF InDirty, Owns
  <2>2. \A j \in Keys, y \in Entries : At(j, y)' => Owns(j, y)
    BY <1>1 DEF At, Owns
  <2>3. \A j \in Keys, y \in Entries : Holds(t, j, y)' => Owns(j, y)
    BY <1>1, <1>2, <1>7, <1>12 DEF Holds, Owns
  <2> QED
    BY <1>1, <1>7, <2>1, <2>2, <2>3, OwnersFrame
<1>15. Tables'
  <2>1. ~InPhase("unamend")' /\ ro'.amended /\ todo' = {}
    BY <1>1, <1>7, <1>8 DEF Partial, InPhase, Same
  <2>2. \A j \in DOMAIN ro.m :
           IF cont'[ro.m[j]] = Marker THEN j \notin DOMAIN m_dirty'
           ELSE j \in DOMAIN m_dirty' /\ m_dirty'[j] = ro.m[j]
    <3> SUFFICES ASSUME NEW j \in DOMAIN ro.m
                 PROVE  IF cont'[ro.m[j]] = Marker THEN j \notin DOMAIN m_dirty'
                        ELSE j \in DOMAIN m_dirty' /\ m_dirty'[j] = ro.m[j]
      OBVIOUS
    <3>1. CASE j = k
      BY <1>4, <1>9, <1>10, <3>1
    <3>2. CASE j # k
      BY <1>8, <1>9, <1>10, <1>13, <3>2 DEF Partial
    <3> QED
      BY <3>1, <3>2
  <2>3. \A j \in DOMAIN m_dirty' : cont'[m_dirty'[j]] # Marker
    BY <1>8, <1>9, <1>10, <1>13 DEF Partial
  <2> QED
    BY <1>1, <2>1, <2>2, <2>3 DEF Tables, Partial
<1>16. \A j \in Keys, y \in Entries : Owns(j, y) => Stays(j, y)
  <2>1. \A j \in Keys, y \in Entries : At(j, y) => At(j, y)'
    BY <1>1 DEF At
  <2> QED
    BY <1>10, <1>12, <1>13, <2>1 DEF Stays
<1>17. Content' = Content
  <2>1. Read(x) = Absent /\ Read(x)' = Absent /\ \A y \in Entries \ {x} : Read(y)' = Read(y)
    BY <1>5, <1>6, <1>10 DEF Read
  <2>2. \A j \in Keys : Content'[j] = Content[j]
    <3> SUFFICES ASSUME NEW j \in Keys PROVE Content'[j] = Content[j]
      OBVIOUS
    <3>1. CASE j = k
      <4>1. Content[j] = Absent
        BY <1>1, <1>4, <1>5, <2>1, <3>1, ContentTypes
      <4>2. Read(ro.m[j])' = Absent
        BY <1>1, <1>4, <2>1, <3>1 DEF Read
      <4> QED
        BY <1>1, <1>5, <3>1, <4>1, <4>2, ContentNext
    <3>2. CASE j # k
      <4>1. /\ j \in DOMAIN ro.m => Read(ro.m[j])' = Read(ro.m[j])
            /\ j \in DOMAIN m_dirty => Read(m_dirty[j])' = Read(m_dirty[j])
        BY <1>1, <1>9, <1>13, <2>1, <3>2 DEF Read
      <4> QED
        BY <1>1, <1>9, <3>2, <4>1, ContentTypes, ContentNext
    <3> QED
      BY <3>1, <3>2
  <2> QED
    BY <1>1, <2>2, ContentTypes, ContentNext
<1>18. Stage(t)'
  <2>1. PutStage(t)'
    BY <1>1, <1>2, <1>5, <1>7, <1>10, <1>12 DEF PutStage, At
  <2> QED
    BY <1>1, <1>2, <1>3, <1>7, <2>1 DEF Stage, Decided
<1>19. IndInv'
  <2>1. \A j \in DOMAIN ro.m : j \in DOMAIN ro'.m
    BY <1>1
  <2> QED
    BY <1>1, <1>7, <1>11, <1>14, <1>15, <1>16, <1>18, <2>1, TableInd
<1> QED
  BY <1>1, <1>17, <1>19 DEF Silent

LEMMA StoreNewInd ==
    ASSUME IndInv, Observe, NEW t \in Threads, StoreNew(t)
    PROVE  IndInv' /\ Silent
<1>1. /\ Types /\ Owners /\ Stage(t) /\ pc[t] = "lock" /\ m_dirtyLock = None
      /\ call[t].op = "store" /\ ro' = [ro EXCEPT !.amended = TRUE] /\ e[t] = None
      /\ UNCHANGED <<cont, s_expunged, m_misses, m_dirty, call, e, amended, view, got, ret>>
      /\ pc' = [pc EXCEPT ![t] = "fill"] /\ m_dirtyLock' = t
  BY DEF IndInv, Stages, StoreNew, Lock, Goto, walk, store
<1>2. PICK c, k : c = call[t] /\ k = c.key
  OBVIOUS
<1>3. /\ c \in Calls /\ c \in Stores /\ c # RangeCall /\ c # None
      /\ ret[t] = Open /\ view[t] = EmptyMap /\ got[t] = EmptyMap
  <2>1. c # None /\ view[t] = EmptyMap /\ got[t] = EmptyMap
    BY <1>1, <1>2 DEF Stage
  <2>2. c \in Calls /\ ret[t] = Open
    BY <1>1, <1>2, <2>1, Running
  <2> QED
    BY <1>1, <1>2, <2>1, <2>2, CallKinds
<1>4. /\ k \notin DOMAIN ro.m /\ k \notin DOMAIN m_dirty
      /\ todo' = IF ~ro.amended /\ m_dirty = EmptyMap THEN DOMAIN ro.m ELSE {}
  BY <1>2 DEF StoreNew
<1>5. /\ ro'.m = ro.m /\ ro'.amended = TRUE /\ ro' \in [m : Maps, amended : BOOLEAN]
      /\ DOMAIN ro.m \subseteq Keys /\ DOMAIN EmptyMap = {}
      /\ pc'[t] = "fill" /\ \A u \in Threads \ {t} : Same(u)
  <2>1. /\ ro'.m = ro.m /\ ro'.amended = TRUE /\ ro' \in [m : Maps, amended : BOOLEAN]
    BY <1>1 DEF Types
  <2>2. DOMAIN ro.m \subseteq Keys /\ DOMAIN EmptyMap = {}
    BY <1>1, MapTypes DEF Types
  <2>3. pc'[t] = "fill" /\ \A u \in Threads \ {t} : Same(u)
    BY <1>1, EntriesNumbers DEF Same, Types
  <2> QED
    BY <2>1, <2>2, <2>3
<1>6. Types'
  BY <1>1, <1>4, <1>5 DEF Types, Places
<1>7. /\ ~InPhase("unamend")
      /\ ro.amended => Partial /\ todo = {}
      /\ ~ro.amended => Complete /\ m_dirty = EmptyMap
  BY <1>1, LockFree
<1>8. ~InPhase("unamend")' /\ InPhase("fill")'
  <2>1. \A u \in Threads : pc'[u] # "unamend"
    BY <1>5, <1>7 DEF InPhase, Same
  <2> QED
    BY <1>5, <2>1 DEF InPhase
<1>9. Tables'
  <2>1. CASE ro.amended
    <3>1. Partial /\ todo = {} /\ todo' = {}
      BY <1>1, <1>4, <1>7, <2>1, LockFree
    <3> QED
      BY <1>1, <1>5, <1>8, <2>1, <3>1 DEF Tables, Partial
  <2>2. CASE ~ro.amended
    <3>1. Complete /\ m_dirty = EmptyMap /\ todo' = DOMAIN ro.m
      BY <1>4, <1>7, <2>2
    <3> QED
      BY <1>1, <1>5, <1>8, <3>1 DEF Tables, Partial, Complete
  <2> QED
    BY <2>1, <2>2
<1>10. Owners'
  <2>1. \A j \in Keys, y \in Entries :
           At(j, y)' \/ InDirty(j, y)' \/ Holds(t, j, y)' => Owns(j, y)
    BY <1>1, <1>5 DEF Owns, Holds, At, InDirty
  <2> QED
    BY <1>1, <1>5, <2>1, OwnersFrame
<1>11. \A j \in Keys, y \in Entries : Stays(j, y)
  BY <1>1, <1>5 DEF Stays, At
<1>12. Content' = Content
  BY <1>1, <1>5, <1>7 DEF Content, Read
<1>13. Stage(t)'
  <2>1. FillStage(t)'
    BY <1>1, <1>2, <1>4, <1>5 DEF FillStage
  <2> QED
    BY <1>1, <1>2, <1>3, <1>5, <2>1 DEF Stage, Decided
<1>14. IndInv'
  BY <1>1, <1>5, <1>6, <1>9, <1>10, <1>11, <1>13, TableInd
<1> QED
  BY <1>1, <1>12, <1>14 DEF Silent

LEMMA FillInd ==
    ASSUME IndInv, Observe, NEW t \in Threads, Fill(t)
    PROVE  IndInv' /\ Silent
<1>1. /\ Types /\ Owners /\ Tables /\ Stages /\ Stage(t) /\ pc[t] = "fill"
      /\ UNCHANGED <<s_expunged, ro, m_misses, m_dirtyLock, pc, call, e, amended,
                     view, got, ret>>
  BY DEF IndInv, Stages, Fill, walk
<1>2. /\ m_dirtyLock = t /\ FillStage(t) /\ s_expunged = Marker
      /\ \A u \in Threads \ {t} : Same(u)
  BY <1>1 DEF Stage, Same, Types
<1>3. Partial
  <2>1. ~InPhase("unamend")
    BY <1>1, <1>2 DEF InPhase, Stages, Stage
  <2>2. ro.amended
    BY <1>2 DEF FillStage
  <2> QED
    BY <1>1, <2>1, <2>2 DEF Tables, Complete
<1>4. PICK k, x :
         /\ k \in todo /\ x = ro.m[k] /\ todo' = todo \ {k}
         /\ cont' = IF cont[x] \in {Nil, Marker} THEN [cont EXCEPT ![x] = Marker] ELSE cont
         /\ m_dirty' = IF cont[x] \in {Nil, Marker} THEN m_dirty ELSE Insert(m_dirty, k, x)
  BY <1>2 DEF Fill, Expunged
<1>5. /\ k \in DOMAIN ro.m /\ k \in Keys /\ x \in Entries /\ cont[x] # Marker
      /\ k \notin DOMAIN m_dirty /\ ro.m \in Maps /\ m_dirty \in Maps
      /\ DOMAIN ro.m \subseteq Keys
  <2>1. ro.m \in Maps /\ m_dirty \in Maps
    BY <1>1 DEF Types
  <2>2. k \in DOMAIN ro.m /\ cont[x] # Marker /\ k \notin DOMAIN m_dirty
    BY <1>3, <1>4 DEF Partial
  <2> QED
    BY <1>4, <2>1, <2>2, MapTypes
<1>6. At(k, x) /\ Owns(k, x)
  BY <1>4, <1>5 DEF At, Owns
<1>7. /\ \A j \in DOMAIN ro.m : ro.m[j] \in Entries /\ (j # k => ro.m[j] # x)
      /\ \A j \in DOMAIN m_dirty : m_dirty[j] \in Entries /\ m_dirty[j] # x
  BY <1>1, <1>5, <1>6, OneKey, MapTypes
<1>8. /\ \A y \in Entries \ {x} : cont'[y] = cont[y]
      /\ \A y \in Entries : cont[y] = Marker => cont'[y] = Marker
      /\ cont' \in [Entries -> Values \cup {Nil, Marker}]
      /\ cont'[x] = IF cont[x] = Nil THEN Marker ELSE cont[x]
  BY <1>1, <1>4, <1>5 DEF Types
<1>9. CASE cont[x] = Nil
  <2>1. m_dirty' = m_dirty /\ cont'[x] = Marker
    BY <1>4, <1>8, <1>9
  <2>2. Types'
    BY <1>1, <1>4, <1>8, <2>1 DEF Types
  <2>3. Tables'
    <3>1. /\ \A j \in todo' : cont'[ro.m[j]] # Marker /\ j \notin DOMAIN m_dirty
          /\ \A j \in DOMAIN m_dirty : cont'[m_dirty[j]] # Marker
      BY <1>3, <1>4, <1>7, <1>8 DEF Partial
    <3>2. \A j \in DOMAIN ro.m \ todo' :
             IF cont'[ro.m[j]] = Marker THEN j \notin DOMAIN m_dirty
             ELSE j \in DOMAIN m_dirty /\ m_dirty[j] = ro.m[j]
      <4> SUFFICES ASSUME NEW j \in DOMAIN ro.m \ todo'
                   PROVE  IF cont'[ro.m[j]] = Marker THEN j \notin DOMAIN m_dirty
                          ELSE j \in DOMAIN m_dirty /\ m_dirty[j] = ro.m[j]
        OBVIOUS
      <4>1. CASE j = k
        BY <1>4, <1>5, <2>1, <4>1
      <4>2. CASE j # k
        BY <1>3, <1>4, <1>7, <1>8, <4>2 DEF Partial
      <4> QED
        BY <4>1, <4>2
    <3>3. /\ InPhase("unamend")' = InPhase("unamend") /\ InPhase("fill")' = InPhase("fill")
      BY <1>1 DEF InPhase
    <3> QED
      BY <1>1, <1>3, <1>4, <2>1, <3>1, <3>2, <3>3 DEF Tables, Partial
  <2>4. Owners'
    <3>1. \A j \in Keys, y \in Entries :
             At(j, y)' \/ InDirty(j, y)' \/ Holds(t, j, y)' => Owns(j, y)
      BY <1>1, <2>1 DEF Owns, Holds, At, InDirty
    <3> QED
      BY <1>1, <1>2, <3>1, OwnersFrame
  <2>5. Content' = Content
    <3>1. /\ Read(x) = Absent /\ Read(x)' = Absent
          /\ \A y \in Entries \ {x} : Read(y)' = Read(y)
      BY <1>1, <1>2, <1>8, <1>9, <2>1 DEF Read
    <3>2. /\ \A j \in DOMAIN ro.m : Read(ro.m[j])' = Read(ro.m[j])
          /\ \A j \in DOMAIN m_dirty : Read(m_dirty[j])' = Read(m_dirty[j])
      BY <1>1, <1>4, <1>7, <2>1, <3>1 DEF Read
    <3> QED
      BY <1>1, <2>1, <3>2, ContentTypes, ContentNext
  <2>6. Stage(t)'
    <3>1. FillStage(t)'
      BY <1>1, <1>2, <2>1 DEF FillStage
    <3> QED
      BY <1>1, <3>1 DEF Stage, Decided
  <2>7. IndInv'
    <3>1. \A j \in Keys, y \in Entries : Stays(j, y)
      BY <1>1, <1>8 DEF Stays, At
    <3> QED
      BY <1>1, <1>2, <2>2, <2>3, <2>4, <2>6, <3>1, TableInd
  <2> QED
    BY <1>1, <2>5, <2>7 DEF Silent
<1>10. CASE cont[x] # Nil
  <2>1. cont' = cont
    BY <1>4, <1>5, <1>10
  <2>2. /\ m_dirty' \in Maps /\ DOMAIN m_dirty' = DOMAIN m_dirty \cup {k}
        /\ m_dirty'[k] = x /\ \A j \in DOMAIN m_dirty : m_dirty'[j] = m_dirty[j] /\ j # k
    <3>1. /\ m_dirty \in Maps /\ k \in Keys /\ x \in Entries /\ k \notin DOMAIN m_dirty
          /\ m_dirty' = Insert(m_dirty, k, x)
      BY <1>4, <1>5, <1>10
    <3>2. m_dirty' \in Maps /\ DOMAIN m_dirty' = DOMAIN m_dirty \cup {k}
      BY <3>1, InsertTypes
    <3>3. m_dirty'[k] = x /\ \A j \in DOMAIN m_dirty : m_dirty'[j] = m_dirty[j] /\ j # k
      BY <3>1 DEF Insert
    <3> QED
      BY <3>2, <3>3
  <2>3. Types'
    BY <1>1, <1>4, <2>1, <2>2 DEF Types
  <2>4. Tables'
    <3>1. /\ \A j \in todo' : cont[ro.m[j]] # Marker /\ j \notin DOMAIN m_dirty'
          /\ \A j \in DOMAIN m_dirty' : cont[m_dirty'[j]] # Marker
      BY <1>3, <1>4, <1>5, <2>2 DEF Partial
    <3>2. \A j \in DOMAIN ro.m \ todo' :
             IF cont[ro.m[j]] = Marker THEN j \notin DOMAIN m_dirty'
             ELSE j \in DOMAIN m_dirty' /\ m_dirty'[j] = ro.m[j]
      <4> SUFFICES ASSUME NEW j \in DOMAIN ro.m \ todo'
                   PROVE  IF cont[ro.m[j]] = Marker THEN j \notin DOMAIN m_dirty'
                          ELSE j \in DOMAIN m_dirty' /\ m_dirty'[j] = ro.m[j]
        OBVIOUS
      <4>1. CASE j = k
        BY <1>4, <1>5, <2>2, <4>1
      <4>2. CASE j # k
        BY <1>3, <1>4, <2>2, <4>2 DEF Partial
      <4> QED
        BY <4>1, <4>2
    <3>3. /\ InPhase("unamend")' = InPhase("unamend") /\ InPhase("fill")' = InPhase("fill")
      BY <1>1 DEF InPhase
    <3> QED
      BY <1>1, <1>3, <1>4, <2>1, <3>1, <3>2, <3>3 DEF Tables, Partial
  <2>5. Owners'
    <3>1. \A j \in Keys, y \in Entries : InDirty(j, y)' => Owns(j, y)
      BY <1>6, <2>2 DEF Owns, InDirty
    <3>2. \A j \in Keys, y \in Entries : At(j, y)' \/ Holds(t, j, y)' => Owns(j, y)
      BY <1>1 DEF Owns, Holds, At
    <3> QED
      BY <1>1, <1>2, <3>1, <3>2, OwnersFrame
  <2>6. Content' = Content
    <3>1. \A j \in DOMAIN ro.m : Read(ro.m[j])' = Read(ro.m[j])
      BY <1>1, <2>1 DEF Read
    <3>2. \A j \in DOMAIN m_dirty : Read(m_dirty[j])' = Read(m_dirty[j])
      BY <1>1, <2>1, <2>2 DEF Read
    <3> QED
      BY <1>1, <1>5, <2>2, <3>1, <3>2, ContentTypes, ContentNext
  <2>7. Stage(t)'
    <3>1. FillStage(t)'
      BY <1>1, <1>2, <1>5, <2>2 DEF FillStage
    <3> QED
      BY <1>1, <3>1 DEF Stage, Decided
  <2>8. IndInv'
    <3>1. \A j \in Keys, y \in Entries : Stays(j, y)
      BY <1>1, <2>1 DEF Stays, At
    <3> QED
      BY <1>1, <1>2, <2>3, <2>4, <2>5, <2>7, <3>1, TableInd
  <2> QED
    BY <1>1, <2>6, <2>8 DEF Silent
<1> QED
  BY <1>9, <1>10

(* A store of a new key finds an entry that is not in use: each other key  *)
(* has one at most in the maps, and one with each thread.                  *)
LEMMA FreshEntry ==
    ASSUME IndInv, NEW k \in Keys, k \notin DOMAIN ro.m, k \notin DOMAIN m_dirty, Partial
    PROVE  NewEntry \in Entries /\ NewEntry \notin InUse
<1> DEFINE T == Threads \cup {None}
           D == (Keys \X T) \ {<<k, None>>}
           table(j) == IF j \in DOMAIN ro.m THEN ro.m[j] ELSE m_dirty[j]
           found(j, u) == IF call[u] = RangeCall THEN view[u][j] ELSE e[u]
           f == [p \in D |-> IF p[2] = None THEN table(p[1]) ELSE found(p[1], p[2])]
           A == {f[p] : p \in D}
<1>1. /\ IsFiniteSet(D)
      /\ Cardinality(D) = Cardinality(Keys) * (Cardinality(Threads) + 1) - 1
  <2>1. IsFiniteSet(T) /\ Cardinality(T) = Cardinality(Threads) + 1
    BY MapAssumption, FS_AddElement
  <2>2. /\ IsFiniteSet(Keys \X T)
        /\ Cardinality(Keys \X T) = Cardinality(Keys) * Cardinality(T)
    BY <2>1, MapAssumption, FS_Product
  <2>3. PICK P, p : P = Keys \X T /\ p = <<k, None>>
    OBVIOUS
  <2>4. p \in P /\ D = P \ {p}
    BY <2>3
  <2> HIDE DEF T, D
  <2>5. IsFiniteSet(P \ {p}) /\ Cardinality(P \ {p}) = Cardinality(P) - 1
    BY <2>2, <2>3, <2>4, FS_RemoveElement
  <2> QED
    BY <2>1, <2>2, <2>3, <2>4, <2>5
<1>2. IsFiniteSet(A) /\ Cardinality(A) <= Cardinality(D)
  <2>1. f \in Surjection(D, A)
    <3> HIDE DEF D, table, found
    <3> QED
      BY DEF Surjection
  <2> HIDE DEF f, A, D
  <2> QED
    BY <1>1, <2>1, FS_Surjection
<1>3. PICK x \in Entries : x \notin A
  <2> HIDE DEF A, D
  <2>1. ~(Entries \subseteq A)
    <3> SUFFICES ASSUME Entries \subseteq A PROVE FALSE
      OBVIOUS
    <3>1. Cardinality(Entries) <= Cardinality(A) /\ IsFiniteSet(Entries)
      BY <1>2, FS_Subset
    <3>2. Cardinality(Entries) = Cardinality(Keys) * (Cardinality(Threads) + 1)
      <4>1. PICK n : n = Cardinality(Keys) * (Cardinality(Threads) + 1)
        OBVIOUS
      <4>2. n \in Nat /\ Cardinality(1..n) = n
        BY <4>1, EntriesNumbers, FS_Interval
      <4> QED
        BY <4>1, <4>2 DEF Entries
    <3>3. /\ Cardinality(Entries) \in Nat /\ Cardinality(A) \in Nat /\ Cardinality(D) \in Nat
      BY <1>1, <1>2, <3>1, FS_CardinalityType
    <3> QED
      BY <1>1, <1>2, <3>1, <3>2, <3>3
  <2> QED
    BY <2>1
<1>4. Types /\ Stages /\ x # None
  BY EntriesNumbers DEF IndInv
<1>5. /\ ro.m \in Maps /\ m_dirty \in Maps /\ \A u \in Threads : view[u] \in Maps
      /\ DOMAIN ro.m \subseteq Keys /\ DOMAIN m_dirty \subseteq Keys
      /\ \A u \in Threads : DOMAIN view[u] \subseteq Keys
  BY <1>4, MapTypes DEF Types
<1>6. \A j \in Keys \ {k} : table(j) # x
  <2> SUFFICES ASSUME NEW j \in Keys \ {k} PROVE table(j) # x
    OBVIOUS
  <2>1. PICK p : p = <<j, None>>
    OBVIOUS
  <2>2. p \in D /\ p[1] = j /\ p[2] = None
    BY <2>1
  <2>3. f[p] = table(j)
    <3> HIDE DEF D, table, found
    <3> QED
      BY <2>2
  <2> HIDE DEF f, D, table
  <2> QED
    BY <1>3, <2>2, <2>3
<1>7. \A j \in Keys, u \in Threads : found(j, u) # x
  <2> SUFFICES ASSUME NEW j \in Keys, NEW u \in Threads PROVE found(j, u) # x
    OBVIOUS
  <2>1. PICK p : p = <<j, u>>
    OBVIOUS
  <2>2. p \in D /\ p[1] = j /\ p[2] = u /\ p[2] # None
    BY <2>1, EntriesNumbers
  <2>3. f[p] = found(j, u)
    <3> HIDE DEF D, table, found
    <3> QED
      BY <2>2
  <2> HIDE DEF f, D, found
  <2> QED
    BY <1>3, <2>2, <2>3
<1>8. \A j \in DOMAIN ro.m : ro.m[j] # x
  BY <1>5, <1>6
<1>9. \A j \in DOMAIN m_dirty : m_dirty[j] # x
  <2>1. \A j \in DOMAIN m_dirty : j \in DOMAIN ro.m => ro.m[j] = m_dirty[j]
    BY DEF Partial
  <2> QED
    BY <1>5, <1>6, <2>1
<1>10. ASSUME NEW u \in Threads PROVE e[u] # x /\ \A j \in DOMAIN view[u] : view[u][j] # x
  <2>1. /\ e[u] = None \/ (call[u] # RangeCall /\ call[u] # None /\ call[u] \in Calls)
        /\ call[u] = RangeCall \/ DOMAIN view[u] = {}
    BY <1>4, MapTypes DEF Stages, Stage, Types
  <2>2. e[u] # x
    BY <1>4, <1>7, <2>1, CallKinds
  <2>3. \A j \in DOMAIN view[u] : view[u][j] # x
    BY <1>5, <1>7, <2>1
  <2> QED
    BY <2>2, <2>3
<1>11. x \notin InUse
  BY <1>8, <1>9, <1>10 DEF InUse
<1> QED
  BY <1>11 DEF NewEntry

LEMMA InsertNewInd ==
    ASSUME IndInv, Observe, NEW t \in Threads, InsertNew(t)
    PROVE  IndInv' /\ Changes(t)
<1>1. /\ Types /\ Owners /\ Tables /\ Stages /\ Stage(t) /\ pc[t] = "fill" /\ todo = {}
      /\ UNCHANGED <<s_expunged, ro, m_misses, m_dirtyLock, todo, call, e, amended,
                     view, got>>
      /\ pc' = [pc EXCEPT ![t] = "return"] /\ ret' = [ret EXCEPT ![t] = Done]
  BY DEF IndInv, Stages, InsertNew, walk, Goto, Decide
<1>2. PICK c, k, n : c = call[t] /\ k = c.key /\ n = NewEntry
  OBVIOUS
<1>3. /\ c \in Calls /\ c \in Stores /\ c # None /\ k \in Keys /\ c.val \in Values
      /\ ret[t] = Open /\ m_dirtyLock = t /\ FillStage(t)
      /\ k \notin DOMAIN ro.m /\ k \notin DOMAIN m_dirty /\ ro.amended
      /\ view[t] = EmptyMap /\ got[t] = EmptyMap /\ s_expunged = Marker
  <2>1. /\ c # None /\ m_dirtyLock = t /\ FillStage(t) /\ view[t] = EmptyMap
        /\ got[t] = EmptyMap /\ c \in Stores
    BY <1>1, <1>2, CallKinds DEF Stage
  <2>2. c \in Calls /\ ret[t] = Open
    BY <1>1, <1>2, <2>1, Running
  <2> QED
    BY <1>1, <1>2, <2>1, <2>2, CallKinds DEF FillStage, Types
<1>4. Partial
  <2>1. ~InPhase("unamend")
    BY <1>1, <1>3 DEF InPhase, Stages, Stage
  <2> QED
    BY <1>1, <1>3, <2>1 DEF Tables, Complete
<1>5. n \in Entries /\ n \notin InUse
  BY <1>2, <1>3, <1>4, FreshEntry
<1>6. /\ \A j \in DOMAIN ro.m : ro.m[j] # n
      /\ \A j \in DOMAIN m_dirty : m_dirty[j] # n
      /\ \A u \in Threads : e[u] # n /\ \A j \in DOMAIN view[u] : view[u][j] # n
  BY <1>5 DEF InUse
<1>7. /\ cont' = [cont EXCEPT ![n] = c.val] /\ m_dirty' = Insert(m_dirty, k, n)
  BY <1>2 DEF InsertNew
<1>8. /\ ro.m \in Maps /\ m_dirty \in Maps
      /\ \A j \in DOMAIN ro.m : ro.m[j] \in Entries
      /\ \A j \in DOMAIN m_dirty : m_dirty[j] \in Entries
  BY <1>1, MapTypes DEF Types
<1>9. m_dirty' \in Maps /\ DOMAIN m_dirty' = DOMAIN m_dirty \cup {k} /\ m_dirty'[k] = n
  <2>1. m_dirty \in Maps /\ k \in Keys /\ n \in Entries /\ m_dirty' = Insert(m_dirty, k, n)
    BY <1>3, <1>5, <1>7, <1>8
  <2>2. m_dirty' \in Maps /\ DOMAIN m_dirty' = DOMAIN m_dirty \cup {k}
    BY <2>1, InsertTypes
  <2>3. m_dirty'[k] = n
    BY <1>3, <2>1 DEF Insert
  <2> QED
    BY <2>2, <2>3
<1>10. \A j \in DOMAIN m_dirty : m_dirty'[j] = m_dirty[j] /\ j # k
  BY <1>3, <1>7 DEF Insert
<1>11. /\ cont'[n] = c.val /\ \A y \in Entries \ {n} : cont'[y] = cont[y]
       /\ cont' \in [Entries -> Values \cup {Nil, Marker}]
       /\ c.val # Nil /\ c.val # Marker
  BY <1>1, <1>3, <1>5, <1>7, MapAssumption DEF Types
<1>12. /\ pc'[t] = "return" /\ ret'[t] = Done /\ Done \in Answers /\ Done # Open
       /\ \A u \in Threads \ {t} : Same(u)
  BY <1>1, ContentTypes DEF Same, Types
<1>13. Types'
  <2>1. ret' \in [Threads -> Answers \cup {Open}] /\ pc' \in [Threads -> Places]
    BY <1>1, <1>12 DEF Types, Places
  <2> QED
    BY <1>1, <1>9, <1>11, <2>1 DEF Types
<1>14. \A j \in Keys, y \in Entries : Owns(j, y) => y # n
  BY <1>6 DEF Owns, At, InDirty, Holds
<1>15. Owners'
  <2>1. \A u \in Threads : \A j, y : Holds(u, j, y)' => Holds(u, j, y)
    BY <1>1 DEF Holds
  <2>2. \A j \in Keys, y \in Entries : Owns(j, y)' => Owns(j, y) \/ (j = k /\ y = n)
    <3>1. \A j, y : At(j, y)' => At(j, y)
      BY <1>1 DEF At
    <3>2. \A j, y : InDirty(j, y)' => InDirty(j, y) \/ (j = k /\ y = n)
      BY <1>9, <1>10 DEF InDirty
    <3> QED
      BY <2>1, <3>1, <3>2 DEF Owns
  <2> QED
    BY <1>1, <1>14, <2>2 DEF Owners
<1>16. Tables'
  <2>1. ~InPhase("unamend")'
    BY <1>4, <1>12 DEF Partial, InPhase, Same
  <2>2. \A j \in DOMAIN ro.m :
           IF cont'[ro.m[j]] = Marker THEN j \notin DOMAIN m_dirty'
           ELSE j \in DOMAIN m_dirty' /\ m_dirty'[j] = ro.m[j]
    BY <1>1, <1>3, <1>4, <1>6, <1>8, <1>9, <1>10, <1>11 DEF Partial
  <2>3. \A j \in DOMAIN m_dirty' : cont'[m_dirty'[j]] # Marker
    BY <1>4, <1>6, <1>8, <1>9, <1>10, <1>11 DEF Partial
  <2> QED
    BY <1>1, <1>4, <2>1, <2>2, <2>3 DEF Tables, Partial
<1>17. \A j \in Keys, y \in Entries : Owns(j, y) => Stays(j, y)
  BY <1>1, <1>11, <1>14 DEF Stays, At
<1>18. \A j \in Keys : Content'[j] = IF j = k THEN c.val ELSE Content[j]
  <2> SUFFICES ASSUME NEW j \in Keys PROVE Content'[j] = IF j = k THEN c.val ELSE Content[j]
    OBVIOUS
  <2>1. Read(n)' = c.val /\ \A y \in Entries \ {n} : Read(y)' = Read(y)
    BY <1>1, <1>3, <1>11 DEF Read
  <2>2. CASE j = k
    <3>1. Read(m_dirty[j])' = c.val
      BY <1>9, <2>1, <2>2 DEF Read
    <3> QED
      BY <1>1, <1>3, <1>9, <2>2, <3>1, ContentNext
  <2>3. CASE j # k
    <3>1. /\ j \in DOMAIN ro.m => Read(ro.m[j])' = Read(ro.m[j])
          /\ j \in DOMAIN m_dirty => Read(m_dirty[j])' = Read(m_dirty[j])
      BY <1>1, <1>6, <1>8, <1>10, <2>1 DEF Read
    <3> QED
      BY <1>1, <1>9, <2>3, <3>1, ContentTypes, ContentNext
  <2> QED
    BY <2>2, <2>3
<1>19. Content' = [Content EXCEPT ![k] = c.val]
  BY <1>1, <1>3, <1>18, ContentTypes, ContentNext
<1>20. Stage(t)'
  <2>1. e'[t] = e[t] /\ call'[t] = c /\ (c = RangeCall => e[t] = None)
    BY <1>1, <1>2 DEF Stage
  <2> QED
    BY <1>1, <1>3, <1>12, <2>1 DEF Stage, Decided
<1>21. IndInv'
  <2>1. \A j \in DOMAIN ro.m : j \in DOMAIN ro'.m
    BY <1>1
  <2> QED
    BY <1>1, <1>3, <1>12, <1>13, <1>15, <1>16, <1>17, <1>20, <2>1, TableInd
<1> QED
  BY <1>1, <1>2, <1>3, <1>19, <1>21 DEF Changes

-----------------------------------------------------------------------------
Begins(t, c) ==
    /\ call[t] = None /\ ret[t] = Open
    /\ call' = [call EXCEPT ![t] = c] /\ ret' = ret /\ Content' = Content

Returns(t) ==
    /\ ret[t] # Open /\ call[t] # None /\ Content' = Content
    /\ call' = [call EXCEPT ![t] = None] /\ ret' = [ret EXCEPT ![t] = Open]

(* Every step of the map is a step of AtomicMap, or none for the callers.  *)
LEMMA MapStep ==
    ASSUME IndInv, SoundNext
    PROVE  /\ IndInv' /\ Observe
           /\ \/ Silent
              \/ \E t \in Threads : \/ \E c \in Calls : Begins(t, c)
                                    \/ Changes(t) \/ Looks(t) \/ Returns(t)
<1>0. Observe
  BY DEF SoundNext
<1>1. ASSUME NEW t \in Threads, NEW c \in Calls, Begin(t, c)
      PROVE  IndInv' /\ Begins(t, c)
  <2>1. ret[t] = Open
    BY <1>1 DEF IndInv, Stages, Stage, Begin, Decided
  <2> QED
    BY <1>0, <1>1, <2>1, BeginInd DEF Begins
<1>2. ASSUME NEW t \in Threads, OtherStep(t), ~Return(t)
      PROVE  IndInv' /\ (Silent \/ Changes(t) \/ Looks(t))
  BY <1>0, <1>2, CopyInd, FindInd, EntryLoadInd, TryStoreInd, EntryEvictInd, LockedLookInd,
     LockedRangeInd, UnamendInd, StoreDirtyInd, PutInd, StoreNewInd, FillInd, InsertNewInd,
     WalkCopyInd, VisitInd, WalkEndInd
     DEF OtherStep
<1>3. ASSUME NEW t \in Threads, Return(t) PROVE IndInv' /\ Returns(t)
  BY <1>0, <1>3, ReturnInd DEF Returns
<1>4. ASSUME NEW t \in Threads, StoreFound(t), ~ExchangeFails(t), ~EntryStale(t)
      PROVE  IndInv' /\ Silent
  BY <1>0, <1>4, StoreFoundInd
<1> QED
  BY <1>0, <1>1, <1>2, <1>3, <1>4 DEF SoundNext

LEMMA MapIndInv == SoundSpec => []IndInv
<1>1. IndInv /\ [SoundNext]_vars => IndInv'
  <2> SUFFICES ASSUME IndInv, [SoundNext]_vars PROVE IndInv'
    OBVIOUS
  <2>1. CASE SoundNext
    BY <2>1, MapStep
  <2>2. CASE UNCHANGED vars
    <3>1. UNCHANGED <<cont, s_expunged, ro, m_misses, m_dirty, m_dirtyLock, todo, pc, call, e,
                      amended, view, got, ret, seen>>
      BY <2>2 DEF vars
    <3>2. Types'
      BY <3>1 DEF IndInv, Types
    <3>5. History'
      <4>1. Content' = Content /\ \A t \in Threads : Asks(t)' = Asks(t)
        BY <3>1, SameContent DEF Asks
      <4> QED
        BY <3>1, <4>1 DEF IndInv, History
    <3>6. Owners'
      BY <3>1 DEF IndInv, Owners, Owns, At, InDirty, Holds
    <3>3. Tables'
      BY <3>1 DEF IndInv, Tables, Complete, Partial, InPhase
    <3>4. Stages'
      BY <3>1 DEF IndInv, Stages, Stage, Decided, Covered, EntryStage, PutStage, FillStage,
                  UnamendStage, VisitStage, Useful, At, InDirty
    <3> QED
      BY <3>2, <3>3, <3>4, <3>5, <3>6 DEF IndInv
  <2> QED
    BY <2>1, <2>2
<1> QED
  BY InitInd, <1>1, PTL DEF SoundSpec

(* The dirty map holds the full data (map.h:18, 113-115), whatever calls   *)
(* overlap: every entry of the read-only map that is not expunged and that *)
(* dirtyLocked has been at, and nothing while the read-only map is         *)
(* complete, whoever publishes, revives or fills it.                       *)
THEOREM MapDirtyComplete == SoundSpec => []DirtyComplete
<1>1. IndInv => DirtyComplete
  <2> SUFFICES ASSUME IndInv PROVE DirtyComplete
    OBVIOUS
  <2>1. s_expunged = Marker
    BY DEF IndInv, Types
  <2>2. CASE Complete
    BY <2>2 DEF Complete, DirtyComplete, InPhase
  <2>3. CASE Partial
    BY <2>1, <2>3 DEF Partial, DirtyComplete
  <2> QED
    BY <2>2, <2>3 DEF IndInv, Tables
<1> QED
  BY MapIndInv, <1>1, PTL

(* What calls ask for is the same in both modules.                         *)
LEMMA AtomicCalls ==
    ASSUME Types, Types'
    PROVE  \A t \in Threads : Atomic!Asks(t) = Asks(t) /\ Atomic!Asks(t)' = Asks(t)'
<1>1. \A c \in Calls : Atomic!Watched(c) = Watched(c)
  BY CallKinds DEF Atomic!Watched, Watched
<1>2. ASSUME NEW t \in Threads PROVE Atomic!Asks(t) = Asks(t)
  <2>1. call[t] # None => Atomic!Watched(call[t]) = Watched(call[t])
    BY <1>1 DEF Types
  <2> QED
    BY <2>1 DEF Atomic!Asks, Atomic!Waits, Asks
<1>3. ASSUME NEW t \in Threads PROVE Atomic!Asks(t)' = Asks(t)'
  <2>1. call'[t] # None => Atomic!Watched(call'[t]) = Watched(call'[t])
    BY <1>1 DEF Types
  <2>2. Atomic!Asks(t)' = IF call'[t] # None /\ ret'[t] = Open
                          THEN Atomic!Watched(call'[t]) ELSE {}
    BY DEF Atomic!Asks, Atomic!Waits, Atomic!Watched
  <2>3. Asks(t)' = IF call'[t] = None \/ ret'[t] # Open THEN {} ELSE Watched(call'[t])
    BY DEF Asks, Watched
  <2> QED
    BY <2>1, <2>2, <2>3
<1> QED
  BY <1>2, <1>3

(* Whatever calls overlap, the callers see a map on which every store and  *)
(* evict takes effect at one instant between its call and its return and   *)
(* every load and range answers with what the keys held then: the two      *)
(* tables, the misses, the soft deletes, the copies and the lock are not   *)
(* to be seen.                                                             *)
THEOREM MapImplementsAtomicMap == SoundSpec => ImplementsAtomicMap
<1>1. Init => Atomic!Init
  <2> SUFFICES ASSUME Init PROVE Atomic!Init
    OBVIOUS
  <2>1. Content = [k \in Keys |-> Absent]
    BY MapTypes DEF Init, Content
  <2>2. EmptyMap = [k \in {} |-> {}]
    BY DEF EmptyMap
  <2> QED
    BY <2>1, <2>2 DEF Init, Atomic!Init
<1>2. ASSUME IndInv, SoundNext PROVE Atomic!Next \/ UNCHANGED <<Content, call, ret, seen>>
  <2>1. Types /\ Types' /\ History /\ Observe
    BY <1>2, MapStep DEF IndInv
  <2>2. Atomic!Observe
    BY <2>1, AtomicCalls DEF Observe, Atomic!Observe
  <2>3. CASE Silent
    <3>1. \A t \in Threads : Asks(t)' = Asks(t)
      BY <2>3 DEF Silent, Asks
    <3>2. seen' = seen
      BY <2>1, <2>3, <3>1 DEF Observe, History, Silent
    <3> QED
      BY <2>3, <3>2 DEF Silent
  <2>4. ASSUME NEW t \in Threads, NEW c \in Calls, Begins(t, c) PROVE Atomic!Invoke(t, c)
    BY <2>4 DEF Begins, Atomic!Invoke
  <2>5. ASSUME NEW t \in Threads, Changes(t) PROVE Atomic!Change(t)
    <3>1. /\ call[t] # None
          /\ call[t].op = "store" <=> call[t] \in Stores
          /\ call[t].op = "evict" <=> call[t] \in Evicts
      BY <2>5, CallKinds DEF Changes
    <3>2. Atomic!Answer(t, Done)
      BY <2>5, <3>1 DEF Changes, Atomic!Answer, Atomic!Waits
    <3>3. CASE call[t] \in Stores
      <4>1. Content' = [Content EXCEPT ![call[t].key] = call[t].val]
        BY <2>5, <3>3 DEF Changes
      <4> QED
        BY <3>1, <3>2, <3>3, <4>1 DEF Atomic!Change
    <3>4. CASE call[t] \notin Stores
      <4>1. call[t] \in Evicts /\ Content' = [Content EXCEPT ![call[t].key] = Absent]
        BY <2>5, <3>4 DEF Changes
      <4> QED
        BY <3>1, <3>2, <4>1 DEF Atomic!Change
    <3> QED
      BY <3>3, <3>4
  <2>6. ASSUME NEW t \in Threads, Looks(t) PROVE Atomic!Look(t)
    <3>1. PICK r : Seen(t, r) /\ ret' = [ret EXCEPT ![t] = r]
      BY <2>6 DEF Looks
    <3>2. ret[t] = Open /\ call' = call /\ Content' = Content
      BY <2>6 DEF Looks
    <3>3. CASE call[t] \in Loads /\ r \in seen[t][call[t].key]
      <4>1. call[t].op = "load" /\ call[t] # None
        BY <3>3, CallKinds
      <4> QED
        BY <3>1, <3>2, <3>3, <4>1 DEF Atomic!Look, Atomic!Answer, Atomic!Waits
    <3>4. CASE call[t] \in Evicts /\ r = Done /\ Absent \in seen[t][call[t].key]
      <4>1. call[t].op = "evict" /\ call[t] # None
        BY <3>4, CallKinds
      <4> QED
        BY <3>1, <3>2, <3>4, <4>1 DEF Atomic!Look, Atomic!Answer, Atomic!Waits
    <3>5. CASE /\ call[t] = RangeCall /\ r \in [Keys -> Values \cup {Absent}]
               /\ \A k \in Keys : r[k] \in seen[t][k]
      <4>1. call[t].op = "range" /\ call[t] # None
        BY <3>5, CallKinds
      <4>2. r \in [Keys -> UNION {seen[t][k] : k \in Keys}]
        BY <3>5
      <4> QED
        BY <3>1, <3>2, <3>5, <4>1, <4>2 DEF Atomic!Look, Atomic!Answer, Atomic!Waits
    <3> QED
      BY <3>1, <3>3, <3>4, <3>5 DEF Seen
  <2>7. ASSUME NEW t \in Threads, Returns(t) PROVE Atomic!Respond(t)
    BY <2>7 DEF Returns, Atomic!Respond
  <2> QED
    BY <1>2, <2>2, <2>3, <2>4, <2>5, <2>6, <2>7, MapStep DEF Atomic!Next
<1>3. IndInv /\ [SoundNext]_vars => [Atomic!Next]_<<Content, call, ret, seen>>
  BY <1>2 DEF vars, Content, Read
<1> QED
  BY <1>1, <1>3, MapIndInv, PTL DEF SoundSpec, ImplementsAtomicMap, Atomic!Spec, Atomic!vars
=============================================================================
