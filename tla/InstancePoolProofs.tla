------------------------- MODULE InstancePoolProofs -------------------------
(***************************************************************************)
(* Proofs about InstancePool, for every set of clients and instances, every*)
(* number of levels and every number of rounds that a call lasts, as       *)
(* InstancePoolAssumption allows.                                          *)
(***************************************************************************)
EXTENDS InstancePool, SeqLemmas

(* The same age at every level.                                            *)
All(n) == [l \in Levels |-> n]

Contents == [single : Instances \cup {NoInstance}, shared : Seq(Instances)]

(* The types of the variables.                                             *)
Types ==
    /\ m_level \in Levels
    /\ pool \in [Pools -> Contents]
    /\ held \in [Clients -> SUBSET Instances]
    /\ at \in [Clients ->
                 [pc : {"idle", "copy", "single", "shared", "construct"},
                  op : {"get", "put"}, from : {"local", "victim"},
                  level : Levels, k : Levels,
                  p : Pools \cup {NoPool}, x : Instances \cup {NoInstance}]]
    /\ evict \in [pc : {"check", "victim", "local", "exit"}, l : Levels,
                 newLocal : {Nothing, All(0)}]

(* What a call knows: a get brings no instance, a put one that its client  *)
(* has let go of.                                                          *)
Calls ==
    \A c \in Clients :
        /\ at[c].pc \in {"single", "shared"} => at[c].p \in Pools
        /\ at[c].pc = "idle" => at[c].op = "get"
        /\ at[c].op = "get" => at[c].x = NoInstance
        /\ at[c].op = "put" =>
              /\ at[c].x \in Instances \ held[c]
              /\ at[c].from = "local" /\ at[c].pc # "construct"

(* How far the evict thread is, and with it the ages of the level pools of *)
(* the two vectors: a round begins with m_local one round old and m_victim *)
(* two, and replaces their elements from the first on.                     *)
Phase ==
    \/ /\ evict.pc \in {"check", "exit"}
       /\ evict.l = 0 /\ evict.newLocal = Nothing
       /\ m_local = All(0) /\ m_victim \in {Nothing, All(1)}
    \/ /\ evict.pc = "victim" /\ evict.l \in Levels
       /\ evict.newLocal = All(0) /\ m_local = All(1)
       /\ \/ m_victim = Nothing /\ evict.l = 0
          \/ m_victim = [l \in Levels |-> IF l < evict.l THEN 1 ELSE 2]
    \/ /\ evict.pc = "local" /\ evict.l \in Levels
       /\ evict.newLocal = All(0) /\ m_victim = All(1)
       /\ m_local = [l \in Levels |-> IF l < evict.l THEN 0 ELSE 1]

(* m_sem has the thread's last notification until the destructor takes it. *)
Closing ==
    /\ m_sem = IF evict.pc = "exit" /\ dtor # "gone" THEN 1 ELSE 0
    /\ dtor = "gone" => evict.pc = "exit"

(* OneOwner, by owner: no two level pools, no two clients and no level pool*)
(* and client share an instance, and a level pool has each of its own once.*)
Items(r) == ({r.single} \cup ElemsOf(r.shared)) \ {NoInstance}
Good(r) == Distinct(r.shared) /\ r.single \notin ElemsOf(r.shared)
User(c) == (held[c] \cup {at[c].x}) \ {NoInstance}

Owners ==
    /\ \A p \in Pools : Good(pool[p])
    /\ \A p, q \in Pools : p # q => Items(pool[p]) \cap Items(pool[q]) = {}
    /\ \A c, d \in Clients : c # d => User(c) \cap User(d) = {}
    /\ \A c \in Clients, p \in Pools : User(c) \cap Items(pool[p]) = {}

IndInv == Types /\ Calls /\ Phase /\ Closing /\ Owners

-----------------------------------------------------------------------------
(* The ages and levels that occur are ages and levels of level pools.      *)
LEMMA Numbers ==
    /\ m_levelSize \in Nat /\ m_levelSize >= 1
    /\ Levels = 0..(m_levelSize - 1) /\ 0 \in Levels
    /\ MaxAge \in Nat /\ MaxAge >= 2
    /\ {0, 1, 2} \subseteq Ages
    /\ \A n \in Levels : NextLevel(n) \in Levels /\ LevelAt(n, 0) = n
    /\ \A n, k \in Levels : LevelAt(n, k) \in Levels
    /\ NoInstance \notin Instances
<1>1. /\ m_levelSize \in Nat /\ m_levelSize >= 1 /\ MaxAge \in Nat /\ MaxAge >= 2
      /\ NoInstance \notin Instances
  BY InstancePoolAssumption
<1>2. \A n \in Levels : NextLevel(n) \in Levels
  BY <1>1 DEF NextLevel, Levels
<1> QED
  BY <1>1, <1>2 DEF Levels, Ages, LevelAt

(* Nothing is no vector of levels.                                         *)
LEMMA NothingElse ==
    \A v : DOMAIN v = Levels => v # Nothing
<1>1. DOMAIN Nothing = {}
  BY DEF Nothing
<1> QED
  BY <1>1, Numbers

(* A level pool's content by its items.                                    *)
LEMMA HeldItems ==
    ASSUME Types, NEW p \in Pools
    PROVE  Held(pool[p]) = Items(pool[p])
BY DEF Held, Items, ElemsOf

(* An empty level pool.                                                    *)
LEMMA Empty ==
    EmptyPool \in Contents /\ Good(EmptyPool) /\ Items(EmptyPool) = {}
BY DEF EmptyPool, Contents, Good, Items, Distinct, ElemsOf

(* What the sections under the locks do to a level pool.                   *)
LEMMA SingleOut ==
    ASSUME NEW r \in Contents, Good(r), r.single # NoInstance
    PROVE  LET s == [r EXCEPT !.single = NoInstance]
           IN  /\ s \in Contents /\ Good(s) /\ Items(s) = Items(r) \ {r.single}
               /\ r.single \in Instances /\ r.single \in Items(r)
<1> DEFINE s == [r EXCEPT !.single = NoInstance]
<1>1. /\ s \in Contents /\ s.single = NoInstance /\ s.shared = r.shared
      /\ r.shared \in Seq(Instances) /\ r.single \in Instances
  BY DEF Contents
<1>2. ElemsOf(r.shared) \subseteq Instances
  BY <1>1 DEF ElemsOf
<1> QED
  BY <1>1, <1>2, Numbers DEF Good, Items

LEMMA SingleIn ==
    ASSUME NEW r \in Contents, Good(r), r.single = NoInstance,
           NEW x \in Instances, x \notin Items(r)
    PROVE  LET s == [r EXCEPT !.single = x]
           IN  s \in Contents /\ Good(s) /\ Items(s) = Items(r) \cup {x}
<1> DEFINE s == [r EXCEPT !.single = x]
<1>1. s \in Contents /\ s.single = x /\ s.shared = r.shared
  BY DEF Contents
<1>2. x # NoInstance
  BY Numbers
<1> QED
  BY <1>1, <1>2 DEF Good, Items

LEMMA SharedIn ==
    ASSUME NEW r \in Contents, Good(r), NEW x \in Instances, x \notin Items(r)
    PROVE  LET s == [r EXCEPT !.shared = Append(@, x)]
           IN  s \in Contents /\ Good(s) /\ Items(s) = Items(r) \cup {x}
<1> DEFINE s == [r EXCEPT !.shared = Append(@, x)]
<1>1. /\ s.single = r.single /\ s.shared = Append(r.shared, x)
      /\ r.shared \in Seq(Instances)
  BY DEF Contents
<1>2. x # NoInstance
  BY Numbers
<1>3. x \notin ElemsOf(r.shared) /\ r.single # x
  BY <1>2 DEF Items
<1>4. /\ Append(r.shared, x) \in Seq(Instances)
      /\ Distinct(Append(r.shared, x))
      /\ ElemsOf(Append(r.shared, x)) = ElemsOf(r.shared) \cup {x}
  BY <1>1, <1>3, DistinctAppend DEF Good
<1>5. s \in Contents
  BY <1>1, <1>4 DEF Contents
<1> QED
  BY <1>1, <1>2, <1>3, <1>4, <1>5 DEF Good, Items

LEMMA SharedOut ==
    ASSUME NEW r \in Contents, Good(r), r.shared # <<>>
    PROVE  LET s == [r EXCEPT !.shared = Tail(@)]
               x == Head(r.shared)
           IN  /\ s \in Contents /\ Good(s) /\ Items(s) = Items(r) \ {x}
               /\ x \in Instances /\ x \in Items(r)
<1> DEFINE s == [r EXCEPT !.shared = Tail(@)]
           x == Head(r.shared)
<1>1. /\ s.single = r.single /\ s.shared = Tail(r.shared)
      /\ r.shared \in Seq(Instances)
  BY DEF Contents
<1>2. /\ Tail(r.shared) \in Seq(Instances)
      /\ Distinct(Tail(r.shared))
      /\ x \in Instances /\ x \in ElemsOf(r.shared)
      /\ ElemsOf(Tail(r.shared)) = ElemsOf(r.shared) \ {x}
  BY <1>1, DistinctTail DEF Good
<1>3. s \in Contents
  BY <1>1, <1>2 DEF Contents
<1>4. x # NoInstance /\ r.single # x
  BY <1>2, Numbers DEF Good
<1> QED
  BY <1>1, <1>2, <1>3, <1>4 DEF Good, Items

(* Dropping level pools empties them or leaves them alone.                 *)
LEMMA KeptContent ==
    ASSUME NEW pl \in [Pools -> Contents], NEW refs
    PROVE  /\ Kept(pl, refs) \in [Pools -> Contents]
           /\ \A p \in Pools :
                 /\ Kept(pl, refs)[p] = pl[p] \/ Kept(pl, refs)[p] = EmptyPool
                 /\ p \in refs => Kept(pl, refs)[p] = pl[p]
                 /\ Good(pl[p]) => Good(Kept(pl, refs)[p])
                 /\ Items(Kept(pl, refs)[p]) \subseteq Items(pl[p])
BY Empty DEF Kept

(* A step moves one instance at most: Owners lasts if, apart from x, nobody*)
(* has more than before, and x has one owner after the step.               *)
LEMMA Moved ==
    ASSUME Owners, NEW x,
           \A p \in Pools : Good(pool'[p])
                            /\ Items(pool'[p]) \subseteq Items(pool[p]) \cup {x},
           \A c \in Clients : User(c)' \subseteq User(c) \cup {x},
           \A p, q \in Pools : x \in Items(pool'[p]) /\ x \in Items(pool'[q]) => p = q,
           \A c, d \in Clients : x \in User(c)' /\ x \in User(d)' => c = d,
           \A c \in Clients, p \in Pools : ~(x \in User(c)' /\ x \in Items(pool'[p]))
    PROVE  Owners'
<1>1. \A p \in Pools : Good(pool'[p])
  OBVIOUS
<1>2. \A p, q \in Pools : p # q => Items(pool'[p]) \cap Items(pool'[q]) = {}
  BY DEF Owners
<1>3. ASSUME NEW c \in Clients, NEW d \in Clients, c # d
      PROVE  User(c)' \cap User(d)' = {}
  <2>1. User(c) \cap User(d) = {}
    BY <1>3 DEF Owners
  <2> QED
    BY <2>1, <1>3
<1>4. ASSUME NEW c \in Clients, NEW p \in Pools
      PROVE  User(c)' \cap Items(pool'[p]) = {}
  <2>1. User(c) \cap Items(pool[p]) = {}
    BY DEF Owners
  <2> QED
    BY <2>1
<1> QED
  BY <1>1, <1>2, <1>3, <1>4 DEF Owners

-----------------------------------------------------------------------------
LEMMA InitInd == Init => IndInv
<1> SUFFICES ASSUME Init PROVE IndInv
  OBVIOUS
<1>1. Types
  BY Numbers, Empty DEF Init, Types, Outside
<1>2. Calls
  BY DEF Init, Calls, Outside
<1>3. Phase
  BY DEF Init, Phase, All
<1>4. Closing
  BY DEF Init, Closing
<1>5. Owners
  <2>1. \A c \in Clients : User(c) = {}
    BY DEF Init, User, Outside
  <2>2. \A p \in Pools : pool[p] = EmptyPool
    BY DEF Init
  <2> QED
    BY <2>1, <2>2, Empty DEF Owners
<1> QED
  BY <1>1, <1>2, <1>3, <1>4, <1>5 DEF IndInv

(* The beginning of a call moves no instance out of a client's hands.      *)
LEMMA BeginInd ==
    ASSUME IndInv, NEW c \in Clients,
           Get(c) \/ \E x \in Instances : Put(c, x)
    PROVE  IndInv'
<1>1. PICK op \in {"get", "put"}, x \in Instances \cup {NoInstance} :
         /\ Begin(c, op, x)
         /\ op = "get" => x = NoInstance /\ held' = held
         /\ op = "put" => x \in held[c] /\ held' = [held EXCEPT ![c] = @ \ {x}]
  BY DEF Get, Put
<1>2. /\ Types /\ Calls /\ Phase /\ Closing /\ Owners
      /\ at[c].op = "get" /\ at[c].x = NoInstance
  BY <1>1 DEF IndInv, Calls, Begin
<1>3. /\ at' = [at EXCEPT ![c] = [Outside EXCEPT !.pc = "copy", !.op = op, !.x = x,
                                      !.level = m_level]]
      /\ m_level' = NextLevel(m_level)
      /\ UNCHANGED <<m_local, m_victim, pool, evict, m_closed, m_sem, dtor>>
  BY <1>1 DEF Begin, vectors, others
<1>4. /\ at'[c] = [pc |-> "copy", op |-> op, from |-> "local", level |-> m_level,
                  k |-> 0, p |-> NoPool, x |-> x]
      /\ \A d \in Clients \ {c} : at'[d] = at[d] /\ held'[d] = held[d]
  BY <1>1, <1>2, <1>3 DEF Types, Outside
<1>5. held' \in [Clients -> SUBSET Instances] /\ held'[c] = held[c] \ {x}
  <2>1. \A h \in SUBSET Instances : h \ {NoInstance} = h
    BY Numbers
  <2> QED
    BY <1>1, <1>2, <2>1 DEF Types
<1>6. Types'
  <2>1. at'[c] \in [pc : {"idle", "copy", "single", "shared", "construct"},
                    op : {"get", "put"}, from : {"local", "victim"},
                    level : Levels, k : Levels,
                    p : Pools \cup {NoPool}, x : Instances \cup {NoInstance}]
    BY <1>2, <1>4, Numbers DEF Types
  <2> QED
    BY <1>2, <1>3, <1>5, <2>1, Numbers DEF Types
<1>7. Calls'
  <2>1. \A d \in Clients \ {c} : at'[d] = at[d] /\ held'[d] = held[d]
    BY <1>4
  <2>2. at'[c].op = "put" => at'[c].x \in Instances \ held'[c]
    BY <1>1, <1>2, <1>4, <1>5 DEF Types
  <2> QED
    BY <1>1, <1>2, <1>4, <2>1, <2>2 DEF Calls
<1>8. Phase' /\ Closing'
  BY <1>2, <1>3 DEF Phase, Closing
<1>9. Owners'
  <2>1. \A d \in Clients : User(d)' \subseteq User(d)
    BY <1>1, <1>4, <1>5 DEF User
  <2>2. pool' = pool
    BY <1>3
  <2> QED
    BY <1>2, <2>1, <2>2 DEF Owners
<1> QED
  BY <1>6, <1>7, <1>8, <1>9 DEF IndInv

(* A step of client c's call that leaves the call open and every owner as  *)
(* it is.                                                                  *)
LEMMA GoOnInd ==
    ASSUME IndInv, NEW c \in Clients, NEW a,
           at' = [at EXCEPT ![c] = a],
           a \in [pc : {"copy", "single", "shared", "construct"},
                  op : {"get", "put"}, from : {"local", "victim"},
                  level : Levels, k : Levels,
                  p : Pools \cup {NoPool}, x : Instances \cup {NoInstance}],
           a.pc \in {"single", "shared"} => a.p \in Pools,
           a.op = at[c].op, a.x = at[c].x,
           a.op = "put" => a.from = "local" /\ a.pc # "construct",
           pool' = pool \/ \E refs : pool' = Kept(pool, refs),
           UNCHANGED <<m_level, m_local, m_victim, held, evict, m_closed, m_sem, dtor>>
    PROVE  IndInv'
<1>1. Types /\ Calls /\ Phase /\ Closing /\ Owners
  BY DEF IndInv
<1>2. at'[c] = a /\ \A d \in Clients \ {c} : at'[d] = at[d]
  BY <1>1 DEF Types
<1>3. /\ pool' \in [Pools -> Contents]
      /\ \A p \in Pools : Good(pool'[p]) /\ Items(pool'[p]) \subseteq Items(pool[p])
  <2>1. pool \in [Pools -> Contents] /\ \A p \in Pools : Good(pool[p])
    BY <1>1 DEF Types, Owners
  <2>2. CASE pool' = pool
    BY <2>1, <2>2
  <2>3. CASE \E refs : pool' = Kept(pool, refs)
    <3>1. PICK refs : pool' = Kept(pool, refs)
      BY <2>3
    <3> HIDE DEF Kept
    <3> QED
      BY <2>1, <3>1, KeptContent
  <2> QED
    BY <2>2, <2>3
<1>4. Types'
  BY <1>1, <1>2, <1>3 DEF Types
<1>5. Calls'
  BY <1>1, <1>2 DEF Calls
<1>6. Phase' /\ Closing'
  BY <1>1 DEF Phase, Closing
<1>7. Owners'
  <2>1. \A d \in Clients : User(d)' = User(d)
    BY <1>2 DEF User
  <2> QED
    BY <1>1, <1>3, <2>1 DEF Owners
<1> QED
  BY <1>4, <1>5, <1>6, <1>7 DEF IndInv

LEMMA CopyInd ==
    ASSUME IndInv, NEW c \in Clients, Copy(c)
    PROVE  IndInv'
<1> DEFINE a == at[c]
<1>1. Types /\ Calls /\ Phase
  BY DEF IndInv
<1>2. /\ a \in [pc : {"idle", "copy", "single", "shared", "construct"},
              op : {"get", "put"}, from : {"local", "victim"},
              level : Levels, k : Levels,
              p : Pools \cup {NoPool}, x : Instances \cup {NoInstance}]
      /\ a.op = "put" => a.from = "local"
  BY <1>1 DEF Types, Calls, Copy
<1>3. PICK v : v = IF a.from = "local" THEN m_local ELSE m_victim
  OBVIOUS
<1>4. /\ v = Nothing \/ v \in [Levels -> Ages]
      /\ a.from = "local" => v # Nothing
  <2>1. /\ All(0) \in [Levels -> Ages] /\ All(1) \in [Levels -> Ages]
        /\ \A n \in Levels : /\ [l \in Levels |-> IF l < n THEN 1 ELSE 2] \in [Levels -> Ages]
                             /\ [l \in Levels |-> IF l < n THEN 0 ELSE 1] \in [Levels -> Ages]
    BY Numbers DEF All
  <2>2. /\ m_local \in [Levels -> Ages]
        /\ m_victim = Nothing \/ m_victim \in [Levels -> Ages]
    BY <1>1, <2>1 DEF Phase
  <2> QED
    BY <1>3, <2>2, NothingElse
<1>5. PICK l : l = LevelAt(a.level, a.k)
  OBVIOUS
<1>6. l \in Levels
  BY <1>2, <1>5, Numbers
<1>7. PICK b : b = IF v = Nothing THEN [a EXCEPT !.pc = "construct"]
                   ELSE [a EXCEPT !.p = <<v[l], l>>,
                                  !.pc = IF a.k = 0 THEN "single" ELSE "shared"]
  OBVIOUS
<1>8. at' = [at EXCEPT ![c] = b]
  BY <1>1, <1>3, <1>5, <1>7 DEF Copy, Types
<1>9. v # Nothing => <<v[l], l>> \in Pools
  BY <1>4, <1>6 DEF Pools
<1>10. /\ b \in [pc : {"copy", "single", "shared", "construct"},
                 op : {"get", "put"}, from : {"local", "victim"},
                 level : Levels, k : Levels,
                 p : Pools \cup {NoPool}, x : Instances \cup {NoInstance}]
       /\ b.pc \in {"single", "shared"} => b.p \in Pools
       /\ b.op = a.op /\ b.x = a.x /\ b.from = a.from
       /\ v # Nothing => b.pc # "construct"
  BY <1>2, <1>7, <1>9
<1>11. UNCHANGED <<m_level, m_local, m_victim, pool, held, evict, m_closed, m_sem, dtor>>
  BY DEF Copy, vectors, others
<1>12. b.op = "put" => b.from = "local" /\ b.pc # "construct"
  BY <1>2, <1>3, <1>4, <1>10
<1> QED
  BY <1>8, <1>10, <1>11, <1>12, GoOnInd

(* A call ends.  It takes x out of the pool, or brings it there, or makes  *)
(* it; pl is the pool before the reference of the call goes.               *)
LEMMA FinishInd ==
    ASSUME IndInv, NEW c \in Clients, NEW pl \in [Pools -> Contents], Finish(c, pl),
           held' \in [Clients -> SUBSET Instances],
           \A d \in Clients \ {c} : held'[d] = held[d],
           NEW x \in Instances,
           \A p \in Pools : Good(pl[p]) /\ Items(pl[p]) \subseteq Items(pool[p]) \cup {x},
           held'[c] \subseteq held[c] \cup {x},
           x \in held'[c] =>
              /\ \A p \in Pools : x \notin Items(pl[p])
              /\ \A d \in Clients \ {c} : x \notin User(d),
           x \notin held'[c] =>
              /\ \A d \in Clients \ {c} : x \notin User(d)
              /\ \A p, q \in Pools : x \in Items(pl[p]) /\ x \in Items(pl[q]) => p = q
    PROVE  IndInv'
<1>1. Types /\ Calls /\ Phase /\ Closing /\ Owners
  BY DEF IndInv
<1>2. /\ at' = [at EXCEPT ![c] = Outside]
      /\ UNCHANGED <<m_level, m_local, m_victim, evict, m_closed, m_sem, dtor>>
      /\ \E refs : pool' = Kept(pl, refs)
  BY DEF Finish, vectors, others
<1>3. /\ at'[c] = Outside /\ \A d \in Clients \ {c} : at'[d] = at[d]
      /\ Outside \in [pc : {"idle", "copy", "single", "shared", "construct"},
                      op : {"get", "put"}, from : {"local", "victim"},
                      level : Levels, k : Levels,
                      p : Pools \cup {NoPool}, x : Instances \cup {NoInstance}]
  BY <1>1, <1>2, Numbers DEF Types, Outside
<1>4. /\ pool' \in [Pools -> Contents]
      /\ \A p \in Pools : Good(pool'[p]) /\ Items(pool'[p]) \subseteq Items(pl[p])
  <2>1. PICK refs : pool' = Kept(pl, refs)
    BY <1>2
  <2> QED
    BY <2>1, KeptContent
<1>5. Types'
  BY <1>1, <1>2, <1>3, <1>4 DEF Types
<1>6. Calls'
  BY <1>1, <1>3 DEF Calls, Outside
<1>7. Phase' /\ Closing'
  BY <1>1, <1>2 DEF Phase, Closing
<1>8. Owners'
  <2>1. User(c)' = held'[c] /\ \A d \in Clients \ {c} : User(d)' = User(d)
    <3>1. NoInstance \notin held'[c]
      BY Numbers
    <3> QED
      BY <1>3, <3>1 DEF User, Outside
  <2>2. held[c] \subseteq User(c)
    BY <1>1, Numbers DEF User, Types
  <2>3. \A d \in Clients : User(d)' \subseteq User(d) \cup {x}
    BY <2>1, <2>2
  <2>4. \A p \in Pools : Good(pool'[p])
                         /\ Items(pool'[p]) \subseteq Items(pool[p]) \cup {x}
    BY <1>4
  <2>5. \A p, q \in Pools : x \in Items(pool'[p]) /\ x \in Items(pool'[q]) => p = q
    BY <1>4
  <2>6. \A d \in Clients \ {c} : x \notin User(d)'
    BY <2>1
  <2>7. \A p \in Pools : ~(x \in User(c)' /\ x \in Items(pool'[p]))
    BY <1>4, <2>1
  <2> QED
    BY <1>1, <2>3, <2>4, <2>5, <2>6, <2>7, Moved
<1> QED
  BY <1>5, <1>6, <1>7, <1>8 DEF IndInv

(* An owner's instance has no other owner.                                 *)
LEMMA OtherOwners ==
    ASSUME Owners
    PROVE  /\ \A x, p, q : p \in Pools /\ q \in Pools
                 /\ x \in Items(pool[p]) /\ x \in Items(pool[q]) => p = q
           /\ \A x, p, c : p \in Pools /\ c \in Clients /\ x \in Items(pool[p])
                 => x \notin User(c)
           /\ \A x, c, d : c \in Clients /\ d \in Clients
                 /\ x \in User(c) /\ x \in User(d) => c = d
BY DEF Owners

(* A get takes instance x out of the level pool it looks at.               *)
LEMMA TakeInd ==
    ASSUME IndInv, NEW c \in Clients, NEW p \in Pools, NEW s \in Contents,
           NEW x \in Instances, x \in Items(pool[p]),
           Good(s), Items(s) = Items(pool[p]) \ {x},
           Take(c, x, [pool EXCEPT ![p] = s])
    PROVE  IndInv'
<1> DEFINE pl == [pool EXCEPT ![p] = s]
<1>1. Types /\ Owners
  BY DEF IndInv
<1>2. /\ pl \in [Pools -> Contents] /\ pl[p] = s
      /\ \A q \in Pools \ {p} : pl[q] = pool[q]
  BY <1>1 DEF Types
<1>3. Finish(c, pl) /\ held' = [held EXCEPT ![c] = @ \cup {x}]
  BY DEF Take
<1>4. /\ held' \in [Clients -> SUBSET Instances]
      /\ held'[c] = held[c] \cup {x}
      /\ \A d \in Clients \ {c} : held'[d] = held[d]
  BY <1>1, <1>3 DEF Types
<1>5. /\ \A q \in Pools : Good(pl[q]) /\ Items(pl[q]) \subseteq Items(pool[q]) \cup {x}
      /\ \A q \in Pools : x \notin Items(pl[q])
  BY <1>1, <1>2, OtherOwners DEF Owners
<1>6. \A d \in Clients \ {c} : x \notin User(d)
  BY <1>1, OtherOwners
<1> HIDE DEF pl
<1> QED
  BY <1>2, <1>3, <1>4, <1>5, <1>6, FinishInd

(* A put brings its instance into the level pool it looks at.              *)
LEMMA RestoreInd ==
    ASSUME IndInv, NEW c \in Clients, at[c].op = "put", NEW p \in Pools,
           NEW s \in Contents, Good(s), Items(s) = Items(pool[p]) \cup {at[c].x},
           Restore(c, [pool EXCEPT ![p] = s])
    PROVE  IndInv'
<1> DEFINE pl == [pool EXCEPT ![p] = s]
<1>1. Types /\ Calls /\ Owners
  BY DEF IndInv
<1>2. /\ pl \in [Pools -> Contents] /\ pl[p] = s
      /\ \A q \in Pools \ {p} : pl[q] = pool[q]
  BY <1>1 DEF Types
<1>3. Finish(c, pl) /\ held' = held
  BY DEF Restore
<1>4. PICK x \in Instances : x = at[c].x
  BY <1>1 DEF Calls
<1>5. x \notin held[c] /\ x \in User(c)
  BY <1>1, <1>4, Numbers DEF Calls, User
<1>6. /\ \A q \in Pools : x \notin Items(pool[q])
      /\ \A d \in Clients \ {c} : x \notin User(d)
  BY <1>1, <1>5, OtherOwners
<1>7. /\ \A q \in Pools : Good(pl[q]) /\ Items(pl[q]) \subseteq Items(pool[q]) \cup {x}
      /\ \A q, r \in Pools : x \in Items(pl[q]) /\ x \in Items(pl[r]) => q = r
  BY <1>1, <1>2, <1>4, <1>6 DEF Owners
<1>8. /\ held' \in [Clients -> SUBSET Instances]
      /\ \A d \in Clients : held'[d] = held[d]
  BY <1>1, <1>3 DEF Types
<1> HIDE DEF pl
<1> QED
  BY <1>2, <1>3, <1>5, <1>6, <1>7, <1>8, FinishInd

LEMMA SingleInd ==
    ASSUME IndInv, NEW c \in Clients, Single(c)
    PROVE  IndInv'
<1>1. Types /\ Calls /\ Owners
  BY DEF IndInv
<1>2. PICK p : p = at[c].p
  OBVIOUS
<1>3. PICK x : x = pool[p].single
  OBVIOUS
<1>4. /\ p \in Pools /\ pool[p] \in Contents /\ Good(pool[p])
      /\ at[c].pc = "single"
  BY <1>1, <1>2 DEF Single, Calls, Types, Owners
<1>5. CASE at[c].op = "get" /\ x # NoInstance /\ Take(c, x, SingleTaken(p))
  <2>1. PICK s : s = [pool[p] EXCEPT !.single = NoInstance]
    OBVIOUS
  <2>2. s \in Contents /\ Good(s) /\ Items(s) = Items(pool[p]) \ {x}
        /\ x \in Instances /\ x \in Items(pool[p])
    BY <1>3, <1>4, <1>5, <2>1, SingleOut
  <2>3. SingleTaken(p) = [pool EXCEPT ![p] = s]
    BY <1>1, <1>4, <2>1 DEF SingleTaken, Types
  <2> QED
    BY <1>4, <1>5, <2>2, <2>3, TakeInd
<1>6. CASE /\ at[c].op = "put" /\ x = NoInstance
           /\ Restore(c, [pool EXCEPT ![p].single = at[c].x])
  <2>1. PICK s : s = [pool[p] EXCEPT !.single = at[c].x]
    OBVIOUS
  <2>2. at[c].x \in Instances /\ at[c].x \notin Items(pool[p])
    <3>1. at[c].x \in Instances /\ at[c].x \in User(c)
      BY <1>1, <1>6, Numbers DEF Calls, User
    <3> QED
      BY <1>1, <1>4, <3>1, OtherOwners
  <2>3. s \in Contents /\ Good(s) /\ Items(s) = Items(pool[p]) \cup {at[c].x}
    BY <1>3, <1>4, <1>6, <2>1, <2>2, SingleIn
  <2>4. [pool EXCEPT ![p].single = at[c].x] = [pool EXCEPT ![p] = s]
    BY <1>1, <1>4, <2>1 DEF Types
  <2> QED
    BY <1>4, <1>6, <2>3, <2>4, RestoreInd
<1>7. CASE /\ at' = [at EXCEPT ![c].pc = "shared"]
           /\ UNCHANGED <<m_level, vectors, pool, held, others>>
  <2>1. PICK b : b = [at[c] EXCEPT !.pc = "shared"]
    OBVIOUS
  <2>2. at' = [at EXCEPT ![c] = b]
    BY <1>1, <1>7, <2>1 DEF Types
  <2>3. /\ b \in [pc : {"copy", "single", "shared", "construct"},
                  op : {"get", "put"}, from : {"local", "victim"},
                  level : Levels, k : Levels,
                  p : Pools \cup {NoPool}, x : Instances \cup {NoInstance}]
        /\ b.pc = "shared" /\ b.p = p /\ b.op = at[c].op /\ b.x = at[c].x
        /\ b.from = at[c].from
    BY <1>1, <1>2, <2>1 DEF Types
  <2>4. UNCHANGED <<m_level, m_local, m_victim, pool, held, evict, m_closed, m_sem, dtor>>
    BY <1>7 DEF vectors, others
  <2>5. b.op = "put" => b.from = "local"
    BY <1>1, <2>3 DEF Calls
  <2> QED
    BY <1>4, <2>2, <2>3, <2>4, <2>5, GoOnInd
<1> QED
  BY <1>2, <1>3, <1>5, <1>6, <1>7 DEF Single

LEMMA SharedInd ==
    ASSUME IndInv, NEW c \in Clients, Shared(c)
    PROVE  IndInv'
<1>1. Types /\ Calls /\ Owners
  BY DEF IndInv
<1>2. PICK a : a = at[c]
  OBVIOUS
<1>3. PICK p : p = a.p
  OBVIOUS
<1>4. PICK q : q = pool[p].shared
  OBVIOUS
<1>5. /\ p \in Pools /\ pool[p] \in Contents /\ Good(pool[p])
      /\ a.pc = "shared"
      /\ a \in [pc : {"idle", "copy", "single", "shared", "construct"},
                op : {"get", "put"}, from : {"local", "victim"},
                level : Levels, k : Levels,
                p : Pools \cup {NoPool}, x : Instances \cup {NoInstance}]
  BY <1>1, <1>2, <1>3 DEF Shared, Calls, Types, Owners
<1>6. CASE a.op = "put" /\ Restore(c, [pool EXCEPT ![a.p].shared = Append(@, a.x)])
  <2>1. PICK s : s = [pool[p] EXCEPT !.shared = Append(@, a.x)]
    OBVIOUS
  <2>2. a.x \in Instances /\ a.x \notin Items(pool[p])
    <3>1. a.x \in Instances /\ a.x \in User(c)
      BY <1>1, <1>2, <1>6, Numbers DEF Calls, User
    <3> QED
      BY <1>1, <1>5, <3>1, OtherOwners
  <2>3. s \in Contents /\ Good(s) /\ Items(s) = Items(pool[p]) \cup {a.x}
    BY <1>5, <2>1, <2>2, SharedIn
  <2>4. [pool EXCEPT ![a.p].shared = Append(@, a.x)] = [pool EXCEPT ![p] = s]
    BY <1>1, <1>3, <1>5, <2>1 DEF Types, Contents
  <2> QED
    BY <1>2, <1>5, <1>6, <2>3, <2>4, RestoreInd
<1>7. CASE /\ a.op = "get" /\ q # <<>>
           /\ Take(c, Head(q), [pool EXCEPT ![a.p].shared = Tail(@)])
  <2>1. PICK s : s = [pool[p] EXCEPT !.shared = Tail(@)]
    OBVIOUS
  <2>2. PICK x : x = Head(q)
    OBVIOUS
  <2>3. s \in Contents /\ Good(s) /\ Items(s) = Items(pool[p]) \ {x}
        /\ x \in Instances /\ x \in Items(pool[p])
    BY <1>4, <1>5, <1>7, <2>1, <2>2, SharedOut
  <2>4. [pool EXCEPT ![a.p].shared = Tail(@)] = [pool EXCEPT ![p] = s]
    BY <1>1, <1>3, <1>5, <2>1 DEF Types, Contents
  <2> QED
    BY <1>5, <1>7, <2>2, <2>3, <2>4, TakeInd
<1>8. CASE /\ a.op = "get" /\ q = <<>>
           /\ at' = [at EXCEPT ![c] = [@ EXCEPT !.p = NoPool,
                !.pc = IF a.k = m_levelSize - 1 /\ a.from = "victim"
                       THEN "construct" ELSE "copy",
                !.k = (a.k + 1) % m_levelSize,
                !.from = IF a.k = m_levelSize - 1 THEN "victim" ELSE a.from]]
           /\ pool' = Kept(pool, Refs(m_local, m_victim, evict.newLocal, at'))
           /\ UNCHANGED <<m_level, vectors, held, others>>
  <2>1. PICK b : b = [at[c] EXCEPT !.p = NoPool,
                !.pc = IF a.k = m_levelSize - 1 /\ a.from = "victim"
                       THEN "construct" ELSE "copy",
                !.k = (a.k + 1) % m_levelSize,
                !.from = IF a.k = m_levelSize - 1 THEN "victim" ELSE a.from]
    OBVIOUS
  <2>2. at' = [at EXCEPT ![c] = b]
    BY <1>2, <1>8, <2>1
  <2>3. (a.k + 1) % m_levelSize \in Levels
    BY <1>5, Numbers DEF NextLevel
  <2>4. /\ b \in [pc : {"copy", "single", "shared", "construct"},
                  op : {"get", "put"}, from : {"local", "victim"},
                  level : Levels, k : Levels,
                  p : Pools \cup {NoPool}, x : Instances \cup {NoInstance}]
        /\ b.pc \in {"copy", "construct"} /\ b.op = "get" /\ b.x = a.x
    BY <1>2, <1>5, <1>8, <2>1, <2>3
  <2>5. UNCHANGED <<m_level, m_local, m_victim, held, evict, m_closed, m_sem, dtor>>
    BY <1>8 DEF vectors, others
  <2>6. \E refs : pool' = Kept(pool, refs)
    BY <1>8
  <2> QED
    <3>1. b.op = at[c].op /\ b.x = at[c].x /\ b.op # "put"
      BY <1>2, <1>8, <2>4
    <3>2. b.pc \notin {"single", "shared"}
      BY <2>4
    <3> QED
      BY <2>2, <2>4, <2>5, <2>6, <3>1, <3>2, GoOnInd
<1> QED
  BY <1>2, <1>3, <1>4, <1>6, <1>7, <1>8 DEF Shared

LEMMA ConstructInd ==
    ASSUME IndInv, NEW c \in Clients, Construct(c)
    PROVE  IndInv'
<1>1. Types /\ Calls /\ Owners
  BY DEF IndInv
<1>2. PICK x \in Instances \ (Pooled \cup InHand) : Take(c, x, pool)
  BY DEF Construct
<1>3. /\ pool \in [Pools -> Contents]
      /\ Finish(c, pool) /\ held' = [held EXCEPT ![c] = @ \cup {x}]
  BY <1>1, <1>2 DEF Take, Types
<1>4. /\ held' \in [Clients -> SUBSET Instances]
      /\ held'[c] = held[c] \cup {x}
      /\ \A d \in Clients \ {c} : held'[d] = held[d]
  BY <1>1, <1>2, <1>3 DEF Types
<1>5. \A p \in Pools : x \notin Items(pool[p])
  BY <1>1, <1>2, HeldItems DEF Pooled
<1>6. \A d \in Clients : x \notin User(d)
  <2> SUFFICES ASSUME NEW d \in Clients, x \in held[d] \cup {at[d].x}
               PROVE  FALSE
    BY DEF User
  <2>1. x # NoInstance
    BY <1>2, Numbers
  <2>2. held[d] \cup {at[d].x} \in {held[e] \cup {at[e].x} : e \in Clients}
    OBVIOUS
  <2>3. x \in InHand
    BY <2>1, <2>2 DEF InHand
  <2> QED
    BY <1>2, <2>3
<1>7. \A p \in Pools : Good(pool[p]) /\ Items(pool[p]) \subseteq Items(pool[p]) \cup {x}
  BY <1>1 DEF Owners
<1> QED
  BY <1>2, <1>3, <1>4, <1>5, <1>6, <1>7, FinishInd

(* A new round renames the level pools.                                    *)
LEMMA RoundInd ==
    ASSUME IndInv, Round
    PROVE  IndInv'
<1>1. Types /\ Calls /\ Phase /\ Closing /\ Owners
  BY DEF IndInv
<1>2. /\ evict.pc = "check"
      /\ \A c \in Clients : at[c].p # NoPool => at[c].p[1] < MaxAge
      /\ evict' = [pc |-> "victim", l |-> 0, newLocal |-> All(0)]
      /\ m_local' = Aged(m_local) /\ m_victim' = Aged(m_victim)
      /\ at' = [c \in Clients |-> AgedCall(at[c])]
      /\ pool' = [p \in Pools |-> IF p[1] = 0 THEN EmptyPool ELSE pool[<<p[1] - 1, p[2]>>]]
      /\ UNCHANGED <<m_level, held, m_closed, dtor, m_sem>>
  BY DEF Round, calls, All
<1>3. \A p \in Pools : p = <<p[1], p[2]>> /\ p[1] \in 0..MaxAge /\ p[2] \in Levels
  BY DEF Pools, Ages
<1>4. \A p \in Pools : p[1] # 0 => <<p[1] - 1, p[2]>> \in Pools
  <2> SUFFICES ASSUME NEW p \in Pools, p[1] # 0 PROVE <<p[1] - 1, p[2]>> \in Pools
    OBVIOUS
  <2>1. p[1] - 1 \in Ages
    BY <1>3, Numbers DEF Ages
  <2> QED
    BY <1>3, <2>1 DEF Pools
<1>5. \A p \in Pools : p[1] < MaxAge => <<p[1] + 1, p[2]>> \in Pools
  <2> SUFFICES ASSUME NEW p \in Pools, p[1] < MaxAge PROVE <<p[1] + 1, p[2]>> \in Pools
    OBVIOUS
  <2>1. p[1] + 1 \in Ages
    BY <1>3, Numbers DEF Ages
  <2> QED
    BY <1>3, <2>1 DEF Pools
<1>6. \A c \in Clients :
         /\ at'[c] \in [pc : {"idle", "copy", "single", "shared", "construct"},
                op : {"get", "put"}, from : {"local", "victim"},
                level : Levels, k : Levels,
                p : Pools \cup {NoPool}, x : Instances \cup {NoInstance}]
         /\ at'[c].pc = at[c].pc /\ at'[c].op = at[c].op
         /\ at'[c].from = at[c].from /\ at'[c].x = at[c].x
         /\ at[c].p \in Pools => at'[c].p \in Pools
  <2> SUFFICES ASSUME NEW c \in Clients
               PROVE  /\ at'[c] \in [pc : {"idle", "copy", "single", "shared", "construct"},
                            op : {"get", "put"}, from : {"local", "victim"},
                            level : Levels, k : Levels,
                            p : Pools \cup {NoPool}, x : Instances \cup {NoInstance}]
                      /\ at'[c].pc = at[c].pc /\ at'[c].op = at[c].op
                      /\ at'[c].from = at[c].from /\ at'[c].x = at[c].x
                      /\ at[c].p \in Pools => at'[c].p \in Pools
    OBVIOUS
  <2>1. at'[c] = AgedCall(at[c])
    BY <1>2
  <2>2. CASE at[c].p = NoPool
    BY <1>1, <2>1, <2>2 DEF AgedCall, Types
  <2>3. CASE at[c].p # NoPool
    <3>1. PICK n : n = <<at[c].p[1] + 1, at[c].p[2]>>
      OBVIOUS
    <3>2. at'[c] = [at[c] EXCEPT !.p = n]
      BY <1>1, <2>1, <2>3, <3>1 DEF AgedCall, Types
    <3>3. n \in Pools
      BY <1>1, <1>2, <1>5, <2>3, <3>1 DEF Types
    <3> QED
      BY <1>1, <3>2, <3>3 DEF Types
  <2> QED
    BY <2>2, <2>3
<1>7. pool' \in [Pools -> Contents]
  BY <1>1, <1>2, <1>4, Empty DEF Types
<1>8. Types'
  BY <1>1, <1>2, <1>6, <1>7, Numbers DEF Types
<1>9. Calls'
  BY <1>1, <1>2, <1>6 DEF Calls
<1>10. Phase'
  <2>1. m_local = All(0) /\ m_victim \in {Nothing, All(1)}
    BY <1>1, <1>2 DEF Phase
  <2>2. Aged(All(0)) = All(1) /\ Aged(Nothing) = Nothing
    BY DEF Aged, All, Nothing
  <2>3. Aged(All(1)) = [l \in Levels |-> IF l < 0 THEN 1 ELSE 2]
    BY Numbers DEF Aged, All
  <2>4. evict'.pc = "victim" /\ evict'.l = 0 /\ evict'.newLocal = All(0)
    BY <1>2
  <2>5. 0 \in Levels /\ m_local' = All(1)
    BY <1>2, <2>1, <2>2, Numbers
  <2>6. m_victim' = Nothing \/ m_victim' = [l \in Levels |-> IF l < 0 THEN 1 ELSE 2]
    BY <1>2, <2>1, <2>2, <2>3
  <2> QED
    BY <2>4, <2>5, <2>6 DEF Phase, All
<1>11. Closing'
  BY <1>1, <1>2 DEF Closing
<1>12. Owners'
  <2>1. \A c \in Clients : User(c)' = User(c)
    BY <1>2, <1>6 DEF User
  <2>2. \A p \in Pools :
           pool'[p] = IF p[1] = 0 THEN EmptyPool ELSE pool[<<p[1] - 1, p[2]>>]
    BY <1>2
  <2>3. \A p \in Pools : Good(pool'[p])
    BY <1>1, <1>4, <2>2, Empty DEF Owners
  <2>4. ASSUME NEW p \in Pools, NEW q \in Pools, p # q
        PROVE  Items(pool'[p]) \cap Items(pool'[q]) = {}
    <3>1. CASE p[1] = 0 \/ q[1] = 0
      BY <2>2, <3>1, Empty
    <3>2. CASE p[1] # 0 /\ q[1] # 0
      <4>1. p[1] - 1 # q[1] - 1 \/ p[2] # q[2]
        BY <1>3, <2>4, Numbers
      <4>2. <<p[1] - 1, p[2]>> # <<q[1] - 1, q[2]>>
        BY <4>1
      <4> QED
        BY <1>1, <1>4, <2>2, <3>2, <4>2, ZenonT(30) DEF Owners
    <3> QED
      BY <3>1, <3>2
  <2>5. ASSUME NEW c \in Clients, NEW p \in Pools
        PROVE  User(c)' \cap Items(pool'[p]) = {}
    BY <1>1, <1>4, <2>1, <2>2, Empty DEF Owners
  <2> QED
    BY <1>1, <2>1, <2>3, <2>4, <2>5 DEF Owners
<1> QED
  BY <1>8, <1>9, <1>10, <1>11, <1>12 DEF IndInv

(* The steps of the evict thread that drop level pools lose instances but  *)
(* move none.                                                              *)
LEMMA DropInd ==
    ASSUME IndInv, Phase', evict.pc \in {"victim", "local"}, evict'.pc # "exit",
           \E refs : pool' = Kept(pool, refs),
           evict' \in [pc : {"check", "victim", "local", "exit"}, l : Levels,
                       newLocal : {Nothing, All(0)}],
           UNCHANGED <<m_level, held, m_closed, dtor, at, m_sem>>
    PROVE  IndInv'
<1>1. Types /\ Calls /\ Closing /\ Owners
  BY DEF IndInv
<1>2. PICK refs : pool' = Kept(pool, refs)
  OBVIOUS
<1>3. /\ pool' \in [Pools -> Contents]
      /\ \A p \in Pools : Good(pool'[p]) /\ Items(pool'[p]) \subseteq Items(pool[p])
  BY <1>1, <1>2, KeptContent DEF Types, Owners
<1>4. Types' /\ Calls'
  BY <1>1, <1>3 DEF Types, Calls
<1>5. Closing'
  BY <1>1 DEF Closing
<1>6. Owners'
  <2>1. \A c \in Clients : User(c)' = User(c)
    BY DEF User
  <2> QED
    BY <1>1, <1>3, <2>1 DEF Owners
<1> QED
  BY <1>4, <1>5, <1>6 DEF IndInv

(* The thread's index within a vector.                                     *)
LEMMA IndexSteps ==
    ASSUME NEW n \in Levels
    PROVE  /\ n # m_levelSize - 1 => n + 1 \in Levels
           /\ \A l \in Levels : /\ l < n + 1 <=> l < n \/ l = n
                                /\ n = m_levelSize - 1 => l < n \/ l = n
                                /\ ~(l < 0)
           /\ ~(n < n)
<1>1. m_levelSize \in Nat /\ n \in Nat /\ n <= m_levelSize - 1
  BY Numbers
<1>2. \A l \in Levels : l \in Nat /\ l <= m_levelSize - 1
  BY Numbers
<1>3. n # m_levelSize - 1 => n + 1 \in Levels
  BY <1>1, Numbers
<1> QED
  BY <1>1, <1>2, <1>3

(* One element of m_victim is replaced, or the whole of it the first time. *)
LEMMA AssignVictimInd ==
    ASSUME IndInv, AssignVictim
    PROVE  /\ IndInv'
           /\ m_victim = Nothing => m_victim' = m_local
           /\ m_victim # Nothing =>
                 /\ m_victim \in [Levels -> Nat] /\ m_victim' \in [Levels -> Nat]
                 /\ evict.l \in Levels /\ m_victim[evict.l] = 2
                 /\ \A l \in Levels \ {evict.l} : m_victim'[l] = m_victim[l]
<1>1. Phase /\ Types
  BY DEF IndInv
<1>2. PICK n : n = evict.l
  OBVIOUS
<1>3. /\ evict.pc = "victim" /\ n \in Levels
      /\ evict.newLocal = All(0) /\ m_local = All(1)
      /\ m_victim # Nothing => m_victim = [l \in Levels |-> IF l < n THEN 1 ELSE 2]
  BY <1>1, <1>2 DEF AssignVictim, Phase
<1>4. /\ m_victim' = NewVictim
      /\ UNCHANGED <<m_level, held, m_closed, dtor, at, m_local, m_sem>>
      /\ \E refs : pool' = Kept(pool, refs)
  BY DEF AssignVictim, calls
<1>5. CASE m_victim = Nothing
  <2>1. evict' = [evict EXCEPT !.pc = "local", !.l = 0]
    BY <1>5 DEF AssignVictim
  <2>2. /\ evict'.pc = "local" /\ evict'.l = 0 /\ evict'.newLocal = All(0)
        /\ evict' \in [pc : {"check", "victim", "local", "exit"}, l : Levels,
                       newLocal : {Nothing, All(0)}]
    BY <1>1, <1>3, <2>1, Numbers DEF Types
  <2>3. m_victim' = All(1)
    BY <1>3, <1>4, <1>5 DEF NewVictim
  <2>4. All(1) = [l \in Levels |-> IF l < 0 THEN 0 ELSE 1]
    BY <1>3, IndexSteps DEF All
  <2>5. Phase'
    BY <1>3, <1>4, <2>2, <2>3, <2>4, Numbers DEF Phase, All
  <2> QED
    BY <1>3, <1>4, <1>5, <2>2, <2>3, <2>5, DropInd
<1>6. CASE m_victim # Nothing
  <2>1. m_victim' = [m_victim EXCEPT ![n] = 1]
    BY <1>2, <1>3, <1>4, <1>6 DEF NewVictim, All
  <2>2. m_victim' = [l \in Levels |-> IF l < n \/ l = n THEN 1 ELSE 2]
    BY <1>3, <1>6, <2>1
  <2>3. ASSUME Last PROVE IndInv'
    <3>1. evict' = [evict EXCEPT !.pc = "local", !.l = 0]
      BY <2>3 DEF AssignVictim
    <3>2. /\ evict'.pc = "local" /\ evict'.l = 0 /\ evict'.newLocal = All(0)
          /\ evict' \in [pc : {"check", "victim", "local", "exit"}, l : Levels,
                         newLocal : {Nothing, All(0)}]
      BY <1>1, <1>3, <3>1, Numbers DEF Types
    <3>3. m_victim' = All(1)
      BY <1>2, <1>3, <2>2, <2>3, IndexSteps DEF Last, All
    <3>4. All(1) = [l \in Levels |-> IF l < 0 THEN 0 ELSE 1]
      BY <1>3, IndexSteps DEF All
    <3>5. Phase'
      BY <1>3, <1>4, <3>2, <3>3, <3>4, Numbers DEF Phase, All
    <3> QED
      BY <1>3, <1>4, <3>2, <3>5, DropInd
  <2>4. ASSUME ~Last PROVE IndInv'
    <3>1. evict' = [evict EXCEPT !.l = n + 1]
      BY <1>2, <1>6, <2>4 DEF AssignVictim
    <3>2. n + 1 \in Levels
      BY <1>2, <1>3, <2>4, IndexSteps DEF Last
    <3>3. /\ evict'.pc = "victim" /\ evict'.l = n + 1 /\ evict'.newLocal = All(0)
          /\ evict' \in [pc : {"check", "victim", "local", "exit"}, l : Levels,
                         newLocal : {Nothing, All(0)}]
      BY <1>1, <1>3, <3>1, <3>2 DEF Types
    <3>4. m_victim' = [l \in Levels |-> IF l < n + 1 THEN 1 ELSE 2]
      BY <1>3, <2>2, IndexSteps
    <3>5. Phase'
      BY <1>3, <1>4, <3>2, <3>3, <3>4 DEF Phase, All
    <3> QED
      BY <1>3, <1>4, <3>3, <3>5, DropInd
  <2>5. /\ m_victim \in [Levels -> Nat] /\ m_victim' \in [Levels -> Nat]
        /\ m_victim[n] = 2
        /\ \A l \in Levels \ {n} : m_victim'[l] = m_victim[l]
    BY <1>3, <1>6, <2>1, <2>2, IndexSteps
  <2> QED
    BY <1>2, <1>3, <1>6, <2>3, <2>4, <2>5
<1> QED
  BY <1>5, <1>6

(* An element of m_local is replaced; the old one is in m_victim by now.   *)
LEMMA AssignLocalInd ==
    ASSUME IndInv, AssignLocal
    PROVE  /\ IndInv'
           /\ m_local \in [Levels -> Nat] /\ m_local' \in [Levels -> Nat]
           /\ evict.l \in Levels /\ m_local[evict.l] = 1 /\ m_victim = All(1)
           /\ \A l \in Levels \ {evict.l} : m_local'[l] = m_local[l]
<1>1. Phase /\ Types
  BY DEF IndInv
<1>2. PICK n : n = evict.l
  OBVIOUS
<1>3. /\ evict.pc = "local" /\ n \in Levels
      /\ evict.newLocal = All(0) /\ m_victim = All(1)
      /\ m_local = [l \in Levels |-> IF l < n THEN 0 ELSE 1]
  BY <1>1, <1>2 DEF AssignLocal, Phase
<1>4. /\ m_local' = NewLocal
      /\ UNCHANGED <<m_level, held, m_closed, dtor, at, m_victim, m_sem>>
      /\ \E refs : pool' = Kept(pool, refs)
  BY DEF AssignLocal, calls
<1>5. m_local' = [m_local EXCEPT ![n] = 0]
  BY <1>2, <1>3, <1>4 DEF NewLocal, All
<1>6. m_local' = [l \in Levels |-> IF l < n \/ l = n THEN 0 ELSE 1]
  BY <1>3, <1>5
<1>7. ASSUME Last PROVE IndInv'
  <2>1. /\ evict'.pc = "check" /\ evict'.l = 0 /\ evict'.newLocal = Nothing
        /\ evict' \in [pc : {"check", "victim", "local", "exit"}, l : Levels,
                       newLocal : {Nothing, All(0)}]
    BY <1>7, Numbers DEF AssignLocal
  <2>2. m_local' = All(0)
    BY <1>2, <1>3, <1>6, <1>7, IndexSteps DEF Last, All
  <2>3. Phase'
    BY <1>3, <1>4, <2>1, <2>2 DEF Phase
  <2> QED
    BY <1>3, <1>4, <2>1, <2>3, DropInd
<1>8. ASSUME ~Last PROVE IndInv'
  <2>1. evict' = [evict EXCEPT !.l = n + 1]
    BY <1>2, <1>8 DEF AssignLocal
  <2>2. n + 1 \in Levels
    BY <1>2, <1>3, <1>8, IndexSteps DEF Last
  <2>3. /\ evict'.pc = "local" /\ evict'.l = n + 1 /\ evict'.newLocal = All(0)
        /\ evict' \in [pc : {"check", "victim", "local", "exit"}, l : Levels,
                       newLocal : {Nothing, All(0)}]
    BY <1>1, <1>3, <2>1, <2>2 DEF Types
  <2>4. m_local' = [l \in Levels |-> IF l < n + 1 THEN 0 ELSE 1]
    BY <1>3, <1>6, IndexSteps
  <2>5. Phase'
    BY <1>3, <1>4, <2>2, <2>3, <2>4 DEF Phase
  <2> QED
    BY <1>3, <1>4, <2>3, <2>5, DropInd
<1>9. /\ m_local \in [Levels -> Nat] /\ m_local' \in [Levels -> Nat]
      /\ m_local[n] = 1
      /\ \A l \in Levels \ {n} : m_local'[l] = m_local[l]
  BY <1>3, <1>5, <1>6, IndexSteps
<1> QED
  BY <1>2, <1>3, <1>7, <1>8, <1>9

(* The end of the thread and the two steps of the destructor.              *)
LEMMA CloseInd ==
    ASSUME IndInv, Leave \/ Destroy \/ Destroyed
    PROVE  IndInv'
<1>1. Types /\ Calls /\ Phase /\ Closing /\ Owners
  BY DEF IndInv
<1>2. UNCHANGED <<m_level, m_local, m_victim, pool, held, at>>
  BY DEF Leave, Destroy, Destroyed, calls, vectors
<1>3. /\ Types' /\ Phase' /\ Closing'
  <2>1. CASE Leave
    <3>1. /\ evict' = [evict EXCEPT !.pc = "exit"] /\ evict.pc = "check"
          /\ m_sem' = m_sem + 1 /\ dtor' = dtor
      BY <2>1 DEF Leave, Notify, calls
    <3>2. Types'
      BY <1>1, <1>2, <3>1 DEF Types
    <3>3. evict'.pc = "exit" /\ evict'.l = evict.l /\ evict'.newLocal = evict.newLocal
      BY <1>1, <3>1 DEF Types
    <3>4. Phase' /\ Closing'
      BY <1>1, <1>2, <3>1, <3>3 DEF Phase, Closing
    <3> QED
      BY <3>2, <3>4
  <2>2. CASE Destroy
    BY <1>1, <1>2, <2>2 DEF Destroy, Types, Phase, Closing
  <2>3. CASE Destroyed
    BY <1>1, <1>2, <2>3 DEF Destroyed, Woken, Types, Phase, Closing
  <2> QED
    BY <2>1, <2>2, <2>3
<1>4. Calls' /\ Owners'
  BY <1>1, <1>2 DEF Calls, Owners, User
<1> QED
  BY <1>3, <1>4 DEF IndInv

LEMMA NextInd == IndInv /\ [Next]_vars => IndInv'
<1> SUFFICES ASSUME IndInv, [Next]_vars PROVE IndInv'
  OBVIOUS
<1>1. CASE UNCHANGED vars
  BY <1>1 DEF vars, IndInv, Types, Calls, Phase, Closing, Owners, User
<1>2. CASE Next
  <2>1. ASSUME NEW c \in Clients,
               Get(c) \/ (\E x \in Instances : Put(c, x))
               \/ Copy(c) \/ Single(c) \/ Shared(c) \/ Construct(c)
        PROVE  IndInv'
    BY <2>1, BeginInd, CopyInd, SingleInd, SharedInd, ConstructInd
  <2>2. CASE EvictStep
    BY <2>2, RoundInd, AssignVictimInd, AssignLocalInd, CloseInd DEF EvictStep
  <2>3. CASE Destroy \/ Destroyed
    BY <2>3, CloseInd
  <2> QED
    BY <1>2, <2>1, <2>2, <2>3 DEF Next
<1> QED
  BY <1>1, <1>2

LEMMA InstancePoolIndInv == Spec => []IndInv
BY InitInd, NextInd, PTL DEF Spec

-----------------------------------------------------------------------------
LEMMA AtMostOne ==
    ASSUME NEW S, \A u, v \in S : u = v
    PROVE  Cardinality(S) <= 1
<1>1. CASE S = {}
  BY <1>1, FS_EmptySet
<1>2. CASE S # {}
  <2>1. PICK u \in S : TRUE
    BY <1>2
  <2>2. S = {u}
    BY <2>1
  <2>3. Cardinality({u}) = 1
    BY FS_Singleton
  <2> QED
    BY <2>2, <2>3
<1> QED
  BY <1>1, <1>2

(* An instance is with one client at most or in one slot of one level pool,*)
(* so that get() never hands it to two users, however the calls and the    *)
(* rounds of the evict thread fall together.                               *)
THEOREM InstancePoolOneOwner == Spec => []OneOwner
<1>1. IndInv => OneOwner
  <2> SUFFICES ASSUME IndInv, NEW x \in Instances
               PROVE  Cardinality(Places(x)) <= 1
    BY DEF OneOwner
  <2>1. Types /\ Owners /\ x # NoInstance
    BY Numbers DEF IndInv
  <2>2. \A c \in Clients : x \in held[c] \/ at[c].x = x => x \in User(c)
    BY <2>1 DEF User
  <2>3. \A p \in Pools : /\ pool[p].single = x => x \in Items(pool[p])
                         /\ \A i \in DOMAIN pool[p].shared :
                               pool[p].shared[i] = x =>
                                  x \in ElemsOf(pool[p].shared) /\ x \in Items(pool[p])
    BY <2>1 DEF Items, ElemsOf
  <2>4. PICK Cs : Cs = {<<"client", c>> : c \in {d \in Clients : x \in held[d] \/ at[d].x = x}}
    OBVIOUS
  <2>5. PICK Si : Si = {<<"single", p>> : p \in {r \in Pools : pool[r].single = x}}
    OBVIOUS
  <2>6. PICK Sh : Sh = UNION {{<<"shared", p, i>> : i \in {j \in DOMAIN pool[p].shared :
                                            pool[p].shared[j] = x}} : p \in Pools}
    OBVIOUS
  <2>7. Places(x) = Cs \cup Si \cup Sh
    BY <2>4, <2>5, <2>6 DEF Places
  <2>8. \A u \in Cs : \E c \in Clients : u = <<"client", c>> /\ x \in User(c)
    BY <2>2, <2>4
  <2>9. \A u \in Si : \E p \in Pools :
           u = <<"single", p>> /\ pool[p].single = x /\ x \in Items(pool[p])
    BY <2>3, <2>5
  <2>10. \A u \in Sh : \E p \in Pools : \E i \in DOMAIN pool[p].shared :
           /\ u = <<"shared", p, i>> /\ pool[p].shared[i] = x
           /\ x \in ElemsOf(pool[p].shared) /\ x \in Items(pool[p])
    BY <2>3, <2>6
  <2>11. \A u, v \in Cs : u = v
    BY <2>1, <2>8, OtherOwners
  <2>12. \A u, v \in Si : u = v
    BY <2>1, <2>9, OtherOwners
  <2>13. ASSUME NEW u \in Sh, NEW v \in Sh PROVE u = v
    <3>1. PICK p \in Pools : \E i \in DOMAIN pool[p].shared :
             u = <<"shared", p, i>> /\ pool[p].shared[i] = x /\ x \in Items(pool[p])
      BY <2>10
    <3>2. PICK q \in Pools : \E j \in DOMAIN pool[q].shared :
             v = <<"shared", q, j>> /\ pool[q].shared[j] = x /\ x \in Items(pool[q])
      BY <2>10
    <3>3. p = q
      BY <2>1, <3>1, <3>2, OtherOwners
    <3> QED
      BY <2>1, <3>1, <3>2, <3>3 DEF Owners, Good, Distinct
  <2>14. \A u \in Cs, v \in Si \cup Sh : FALSE
    BY <2>1, <2>8, <2>9, <2>10, OtherOwners
  <2>15. \A u \in Si, v \in Sh : FALSE
    <3> SUFFICES ASSUME NEW u \in Si, NEW v \in Sh PROVE FALSE
      OBVIOUS
    <3>1. PICK p \in Pools : pool[p].single = x /\ x \in Items(pool[p])
      BY <2>9
    <3>2. PICK q \in Pools : x \in ElemsOf(pool[q].shared) /\ x \in Items(pool[q])
      BY <2>10
    <3>3. p = q
      BY <2>1, <3>1, <3>2, OtherOwners
    <3> QED
      BY <2>1, <3>1, <3>2, <3>3 DEF Owners, Good
  <2>16. \A u, v \in Places(x) : u = v
    BY <2>7, <2>11, <2>12, <2>13, <2>14, <2>15
  <2> QED
    BY <2>16, AtMostOne
<1> QED
  BY <1>1, InstancePoolIndInv, PTL

(* Between two rounds m_local has level pools of the last round only, and  *)
(* m_victim, if it was ever filled, those of the round before: what nobody *)
(* used for two rounds has been freed.                                     *)
THEOREM InstancePoolExpires == Spec => []Expires
<1>1. IndInv => Expires
  <2> SUFFICES ASSUME IndInv, evict.pc = "check", NEW p \in InVectors
               PROVE  p[1] <= 1 /\ (p \in Elements(m_local) => p[1] = 0)
    BY DEF Expires
  <2>1. m_local = All(0) /\ m_victim \in {Nothing, All(1)}
    BY DEF IndInv, Phase
  <2>2. \A u \in Elements(All(0)) : u[1] = 0
    BY DEF Elements, All
  <2>3. \A u \in Elements(All(1)) : u[1] = 1
    BY DEF Elements, All
  <2>4. Elements(Nothing) = {}
    BY DEF Elements, Nothing
  <2> QED
    BY <2>1, <2>2, <2>3, <2>4 DEF InVectors
<1> QED
  BY <1>1, InstancePoolIndInv, PTL

(* The destructor returns after the evict thread's last step.              *)
THEOREM InstancePoolDestructorLast == Spec => []DestructorLast
<1>1. IndInv => DestructorLast
  BY DEF IndInv, Closing, DestructorLast
<1> QED
  BY <1>1, InstancePoolIndInv, PTL

(* What is in a level pool that keeps a reference is pooled after the step.*)
LEMMA PooledStays ==
    ASSUME Types', NEW pl \in [Pools -> Contents], NEW refs, pool' = Kept(pl, refs),
           NEW p \in Pools, p \in refs, NEW x \in Items(pl[p])
    PROVE  x \in Pooled'
<1>1. pool'[p] = pl[p]
  BY KeptContent
<1>2. Items(pool'[p]) = Held(pool[p])'
  BY HeldItems DEF Items, Held, ElemsOf
<1> QED
  BY <1>1, <1>2 DEF Pooled

LEMMA InVectorsPools ==
    ASSUME Phase
    PROVE  /\ InVectors \subseteq Pools
           /\ \A p \in InVectors : p[2] \in Levels
                 /\ (p = <<m_local[p[2]], p[2]>> \/ p = <<m_victim[p[2]], p[2]>>)
<1>1. /\ \A l \in DOMAIN m_local : l \in Levels /\ m_local[l] \in Ages
      /\ \A l \in DOMAIN m_victim : l \in Levels /\ m_victim[l] \in Ages
  BY Numbers, ZenonT(30) DEF Phase, All, Nothing
<1> QED
  BY <1>1 DEF InVectors, Elements, Pools

(* The end of a call, with pools pl, loses nothing but what is in hand.    *)
LEMMA FinishKeeps ==
    ASSUME IndInv, IndInv', NEW c \in Clients, NEW pl \in [Pools -> Contents],
           Finish(c, pl),
           \A p \in Pools : \A x \in Items(pool[p]) : x \in Items(pl[p]) \/ x \in held'[c]
    PROVE  \A p \in InVectors : \A x \in Held(pool[p]) : x \in (Pooled \cup InHand)'
<1> SUFFICES ASSUME NEW p \in InVectors, NEW x \in Held(pool[p])
             PROVE  x \in Pooled' \/ x \in InHand'
  OBVIOUS
<1>1. Types' /\ Types /\ Phase
  BY DEF IndInv
<1>2. p \in Pools /\ x \in Items(pool[p])
  BY <1>1, InVectorsPools, HeldItems
<1>3. x # NoInstance
  BY <1>2 DEF Items
<1>4. CASE x \in Items(pl[p])
  <2>1. PICK refs : /\ pool' = Kept(pl, refs)
                    /\ refs = Refs(m_local, m_victim, evict.newLocal, at')
    BY DEF Finish
  <2>2. p \in refs
    BY <2>1 DEF InVectors, Refs
  <2> QED
    BY <1>1, <1>2, <1>4, <2>1, <2>2, PooledStays
<1>5. CASE x \in held'[c]
  <2>1. held'[c] \cup {at'[c].x} \in {held'[d] \cup {at'[d].x} : d \in Clients}
    OBVIOUS
  <2> QED
    BY <1>3, <1>5, <2>1 DEF InHand
<1> QED
  BY <1>2, <1>4, <1>5

LEMMA CallKeeps ==
    ASSUME IndInv, IndInv', NEW c \in Clients, Single(c) \/ Shared(c) \/ Construct(c)
    PROVE  \A p \in InVectors : \A x \in Held(pool[p]) : x \in (Pooled \cup InHand)'
<1>1. Types /\ Calls /\ Owners /\ Phase
  BY DEF IndInv
<1>2. \A y, pl : Take(c, y, pl) => Finish(c, pl) /\ y \in held'[c]
  BY <1>1 DEF Take, Types
<1>3. \A pl : Restore(c, pl) => Finish(c, pl)
  BY DEF Restore
<1>4. CASE UNCHANGED pool
  <2> SUFFICES ASSUME NEW p \in InVectors, NEW x \in Held(pool[p]) PROVE x \in Pooled'
    OBVIOUS
  <2>1. p \in Pools
    BY <1>1, InVectorsPools
  <2>2. Pooled' = Pooled
    BY <1>4 DEF Pooled, Held
  <2> QED
    BY <2>1, <2>2 DEF Pooled
<1>5. CASE /\ Single(c) /\ ~UNCHANGED pool
  <2>1. PICK p : p = at[c].p
    OBVIOUS
  <2>2. p \in Pools /\ pool[p] \in Contents /\ Good(pool[p])
    BY <1>1, <1>5, <2>1 DEF Single, Calls, Types, Owners
  <2>3. CASE /\ pool[p].single # NoInstance
             /\ Take(c, pool[p].single, SingleTaken(p))
    <3>1. PICK s : s = [pool[p] EXCEPT !.single = NoInstance]
      OBVIOUS
    <3>2. s \in Contents /\ Items(s) = Items(pool[p]) \ {pool[p].single}
      BY <2>2, <2>3, <3>1, SingleOut
    <3>3. PICK pl : pl = [pool EXCEPT ![p] = s]
      OBVIOUS
    <3>4. SingleTaken(p) = pl
      BY <1>1, <2>2, <3>1, <3>3 DEF SingleTaken, Types
    <3>5. /\ pl \in [Pools -> Contents]
          /\ \A q \in Pools : \A x \in Items(pool[q]) :
                x \in Items(pl[q]) \/ x = pool[p].single
      BY <1>1, <2>2, <3>2, <3>3 DEF Types
    <3> QED
      BY <1>2, <2>3, <3>4, <3>5, FinishKeeps
  <2>4. CASE /\ at[c].op = "put" /\ pool[p].single = NoInstance
             /\ Restore(c, [pool EXCEPT ![p].single = at[c].x])
    <3>1. PICK s : s = [pool[p] EXCEPT !.single = at[c].x]
      OBVIOUS
    <3>2. PICK pl : pl = [pool EXCEPT ![p] = s]
      OBVIOUS
    <3>3. [pool EXCEPT ![p].single = at[c].x] = pl
      BY <1>1, <2>2, <3>1, <3>2 DEF Types
    <3>4. s \in Contents /\ s.shared = pool[p].shared
      BY <1>1, <2>2, <2>4, <3>1 DEF Contents, Calls
    <3>5. Items(pool[p]) \subseteq Items(s)
      BY <2>4, <3>4 DEF Items
    <3>6. /\ pl \in [Pools -> Contents]
          /\ \A q \in Pools : \A x \in Items(pool[q]) : x \in Items(pl[q])
      BY <1>1, <2>2, <3>2, <3>4, <3>5 DEF Types
    <3> QED
      BY <1>3, <2>4, <3>3, <3>6, FinishKeeps
  <2> QED
    BY <1>5, <2>1, <2>3, <2>4 DEF Single
<1>6. CASE Construct(c)
  <2>1. pool \in [Pools -> Contents] /\ Finish(c, pool)
    BY <1>1, <1>2, <1>6 DEF Construct, Types
  <2> QED
    BY <2>1, FinishKeeps
<1>7. CASE Shared(c)
  <2>1. PICK p : p = at[c].p
    OBVIOUS
  <2>2. p \in Pools /\ pool[p] \in Contents /\ Good(pool[p])
    BY <1>1, <1>7, <2>1 DEF Shared, Calls, Types, Owners
  <2>3. PICK q : q = pool[p].shared
    OBVIOUS
  <2>4. CASE /\ at[c].op = "put"
             /\ Restore(c, [pool EXCEPT ![p].shared = Append(@, at[c].x)])
    <3>1. PICK s : s = [pool[p] EXCEPT !.shared = Append(@, at[c].x)]
      OBVIOUS
    <3>2. PICK pl : pl = [pool EXCEPT ![p] = s]
      OBVIOUS
    <3>3. [pool EXCEPT ![p].shared = Append(@, at[c].x)] = pl
      BY <1>1, <2>2, <3>1, <3>2 DEF Types, Contents
    <3>4. at[c].x \in Instances /\ at[c].x \notin Items(pool[p])
      <4>1. at[c].x \in Instances /\ at[c].x \in User(c)
        BY <1>1, <2>4, Numbers DEF Calls, User
      <4> QED
        BY <1>1, <2>2, <4>1, OtherOwners
    <3>5. s \in Contents /\ Items(s) = Items(pool[p]) \cup {at[c].x}
      BY <2>2, <3>1, <3>4, SharedIn
    <3>6. /\ pl \in [Pools -> Contents]
          /\ \A r \in Pools : \A x \in Items(pool[r]) : x \in Items(pl[r])
      BY <1>1, <2>2, <3>2, <3>5 DEF Types
    <3> QED
      BY <1>3, <2>4, <3>3, <3>6, FinishKeeps
  <2>5. CASE q # <<>> /\ Take(c, Head(q), [pool EXCEPT ![p].shared = Tail(@)])
    <3>1. PICK s : s = [pool[p] EXCEPT !.shared = Tail(@)]
      OBVIOUS
    <3>2. s \in Contents /\ Items(s) = Items(pool[p]) \ {Head(q)}
      BY <2>2, <2>3, <2>5, <3>1, SharedOut
    <3>3. PICK pl : pl = [pool EXCEPT ![p] = s]
      OBVIOUS
    <3>4. [pool EXCEPT ![p].shared = Tail(@)] = pl
      BY <1>1, <2>2, <3>1, <3>3 DEF Types, Contents
    <3>5. /\ pl \in [Pools -> Contents]
          /\ \A r \in Pools : \A x \in Items(pool[r]) : x \in Items(pl[r]) \/ x = Head(q)
      BY <1>1, <2>2, <3>2, <3>3 DEF Types
    <3> QED
      BY <1>2, <2>5, <3>4, <3>5, FinishKeeps
  <2>6. CASE pool' = Kept(pool, Refs(m_local, m_victim, evict.newLocal, at'))
    <3> SUFFICES ASSUME NEW r \in InVectors, NEW x \in Held(pool[r]) PROVE x \in Pooled'
      OBVIOUS
    <3>1. PICK refs : refs = Refs(m_local, m_victim, evict.newLocal, at')
      OBVIOUS
    <3>2. r \in refs
      BY <3>1 DEF InVectors, Refs
    <3>3. r \in Pools /\ x \in Items(pool[r]) /\ pool \in [Pools -> Contents]
      BY <1>1, InVectorsPools, HeldItems DEF Types
    <3>4. Types'
      BY DEF IndInv
    <3> QED
      BY <2>6, <3>1, <3>2, <3>3, <3>4, PooledStays
  <2> QED
    BY <1>7, <2>1, <2>3, <2>4, <2>5, <2>6 DEF Shared
<1> QED
  BY <1>4, <1>5, <1>6, <1>7

LEMMA EvictKeeps ==
    ASSUME IndInv, IndInv', Round \/ AssignVictim \/ AssignLocal
    PROVE  \A p \in InVectors : \A x \in Held(pool[p]) :
              p[1] >= 2 \/ x \in (Pooled \cup InHand)'
<1> SUFFICES ASSUME NEW p \in InVectors, ~(p[1] >= 2), NEW x \in Held(pool[p])
             PROVE  x \in Pooled'
  OBVIOUS
<1>1. Types /\ Phase /\ Types' /\ pool \in [Pools -> Contents]
  BY DEF IndInv, Types
<1>2. /\ p \in Pools /\ x \in Items(pool[p]) /\ p[2] \in Levels
      /\ p = <<m_local[p[2]], p[2]>> \/ p = <<m_victim[p[2]], p[2]>>
  BY <1>1, InVectorsPools, HeldItems
<1>3. p = <<p[1], p[2]>> /\ p[1] \in Nat
  BY <1>2 DEF Pools, Ages
<1>4. CASE Round
  <2>1. p[1] + 1 \in Ages
    BY <1>3, Numbers DEF Ages
  <2>2. PICK q : q = <<p[1] + 1, p[2]>>
    OBVIOUS
  <2>3. q \in Pools /\ q[1] = p[1] + 1 /\ q[2] = p[2]
    BY <1>2, <2>1, <2>2 DEF Pools
  <2>4. pool'[q] = pool[p]
    <3>1. pool'[q] = IF q[1] = 0 THEN EmptyPool ELSE pool[<<q[1] - 1, q[2]>>]
      BY <1>4, <2>3 DEF Round
    <3>2. q[1] # 0 /\ q[1] - 1 = p[1]
      BY <1>3, <2>3
    <3> QED
      BY <1>3, <2>3, <3>1, <3>2
  <2>5. x \in Held(pool'[q])
    BY <2>4
  <2> QED
    BY <2>3, <2>5 DEF Pooled
<1>5. CASE AssignVictim
  <2>1. PICK refs : /\ pool' = Kept(pool, refs)
                    /\ refs = Refs(m_local, m_victim', evict.newLocal, at)
    BY <1>5 DEF AssignVictim
  <2>2. Elements(m_local) \subseteq refs /\ Elements(m_victim') \subseteq refs
    BY <2>1 DEF Refs
  <2>3. p \in refs
    <3>1. CASE p \in Elements(m_local)
      BY <2>2, <3>1
    <3>2. CASE p \in Elements(m_victim)
      <4>1. PICK l \in DOMAIN m_victim : p = <<m_victim[l], l>>
        BY <3>2 DEF Elements
      <4>2. m_victim # Nothing
        BY <4>1 DEF Nothing
      <4>3. /\ m_victim \in [Levels -> Nat] /\ m_victim' \in [Levels -> Nat]
            /\ m_victim[evict.l] = 2
            /\ \A k \in Levels \ {evict.l} : m_victim'[k] = m_victim[k]
        BY <1>5, <4>2, AssignVictimInd
      <4>4. l \in Levels /\ p[1] = m_victim[l] /\ l # evict.l
        BY <4>1, <4>3
      <4>5. p = <<m_victim'[l], l>> /\ l \in DOMAIN m_victim'
        BY <4>1, <4>3, <4>4
      <4>6. p \in Elements(m_victim')
        BY <4>5 DEF Elements
      <4> QED
        BY <2>2, <4>6
    <3> QED
      BY <3>1, <3>2 DEF InVectors
  <2> QED
    BY <1>1, <1>2, <2>1, <2>3, PooledStays
<1>6. CASE AssignLocal
  <2>1. PICK refs : /\ pool' = Kept(pool, refs)
                    /\ refs = Refs(m_local', m_victim, evict'.newLocal, at)
    BY <1>6 DEF AssignLocal
  <2>2. Elements(m_local') \subseteq refs /\ Elements(m_victim) \subseteq refs
    BY <2>1 DEF Refs
  <2>3. p \in refs
    <3>1. CASE p \in Elements(m_victim)
      BY <2>2, <3>1
    <3>2. CASE p \in Elements(m_local)
      <4>1. PICK l \in DOMAIN m_local : p = <<m_local[l], l>>
        BY <3>2 DEF Elements
      <4>2. /\ m_local \in [Levels -> Nat] /\ m_local' \in [Levels -> Nat]
            /\ evict.l \in Levels /\ m_local[evict.l] = 1 /\ m_victim = All(1)
            /\ \A k \in Levels \ {evict.l} : m_local'[k] = m_local[k]
        BY <1>6, AssignLocalInd
      <4>3. CASE l = evict.l
        <5>1. p = <<m_victim[l], l>> /\ l \in DOMAIN m_victim
          BY <4>1, <4>2, <4>3 DEF All
        <5> QED
          BY <2>2, <5>1 DEF Elements
      <4>4. CASE l # evict.l
        <5>1. p = <<m_local'[l], l>> /\ l \in DOMAIN m_local'
          BY <4>1, <4>2, <4>4
        <5>2. p \in Elements(m_local')
          BY <5>1 DEF Elements
        <5> QED
          BY <2>2, <5>2
      <4> QED
        BY <4>3, <4>4
    <3> QED
      BY <3>1, <3>2 DEF InVectors
  <2> QED
    BY <1>1, <1>2, <2>1, <2>3, PooledStays
<1> QED
  BY <1>4, <1>5, <1>6

(* An instance that was put back is only freed with a level pool that is   *)
(* two rounds old: no call and no earlier step of the evict thread loses   *)
(* it, although the thread moves the level pools about beside the calls.   *)
THEOREM InstancePoolKeptOneRound == Spec => KeptOneRound
<1>1. IndInv /\ IndInv' /\ [Next]_vars =>
         [\A p \in InVectors : \A x \in Held(pool[p]) :
             p[1] >= 2 \/ x \in (Pooled \cup InHand)']_vars
  <2> SUFFICES ASSUME IndInv, IndInv', Next
               PROVE  \A p \in InVectors : \A x \in Held(pool[p]) :
                         p[1] >= 2 \/ x \in (Pooled \cup InHand)'
    OBVIOUS
  <2>1. CASE UNCHANGED pool
    <3> SUFFICES ASSUME NEW p \in InVectors, NEW x \in Held(pool[p]) PROVE x \in Pooled'
      OBVIOUS
    <3>1. p \in Pools
      BY InVectorsPools DEF IndInv
    <3>2. Pooled' = Pooled
      BY <2>1 DEF Pooled, Held
    <3> QED
      BY <3>1, <3>2 DEF Pooled
  <2>2. ASSUME NEW c \in Clients,
               Get(c) \/ (\E x \in Instances : Put(c, x)) \/ Copy(c)
        PROVE  UNCHANGED pool
    BY <2>2 DEF Get, Put, Begin, Copy
  <2>3. ASSUME NEW c \in Clients, Single(c) \/ Shared(c) \/ Construct(c)
        PROVE  \A p \in InVectors : \A x \in Held(pool[p]) : x \in (Pooled \cup InHand)'
    BY <2>3, CallKeeps
  <2>4. CASE Round \/ AssignVictim \/ AssignLocal
    BY <2>4, EvictKeeps
  <2>5. CASE Leave \/ Destroy \/ Destroyed
    BY <2>1, <2>5 DEF Leave, Destroy, Destroyed
  <2> QED
    BY <2>1, <2>2, <2>3, <2>4, <2>5 DEF Next, EvictStep
<1> QED
  BY <1>1, InstancePoolIndInv, PTL DEF Spec, KeptOneRound
=============================================================================
