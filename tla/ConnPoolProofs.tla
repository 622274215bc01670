---------------------------- MODULE ConnPoolProofs ----------------------------
(***************************************************************************)
(* Proofs about ConnPool, for every set of clients and connections, every  *)
(* minSize and m_maxSize and everything an uninitialised m_minSize may     *)
(* hold, as ConnPoolAssumption allows.                                     *)
(***************************************************************************)
EXTENDS ConnPool, SeqLemmas

Places == {"idle", "lock", "wait", "spin", "woken", "leave"}

(* The types of the variables.                                             *)
Types ==
    /\ m_minSize \in Int /\ m_activeCnt \in Int /\ m_subscribeCnt \in Int
    /\ m_pool \in Seq(Conns)
    /\ m_closed \in BOOLEAN
    /\ held \in [Clients -> SUBSET Conns]
    /\ pc \in [Clients -> Places]
    /\ recycler \in {"top", "sleep", "exit"}
    /\ dtor \in {"alive", "wait", "woken", "gone"}
    /\ late \in Nat

(* OneUser, with the places of m_pool one by one.                          *)
Ownership ==
    /\ Distinct(m_pool)
    /\ \A c, d \in Clients : c # d => held[c] \cap held[d] = {}
    /\ Pooled \cap InHand = {}

InGetConn == {c \in Clients : pc[c] # "idle"}

(* CountExact, with the connections in m_pool and in hand apart.           *)
Counts ==
    /\ m_subscribeCnt = Cardinality(InGetConn)
    /\ m_activeCnt - m_minSize = (Len(m_pool) + Cardinality(InHand)) - minSize + late

(* WithinMaxSize, in the same way.                                         *)
Most == IF m_minSize <= m_maxSize THEN m_maxSize - m_minSize ELSE 0

Bound == Len(m_pool) + Cardinality(InHand) <= minSize + Most

(* What the destructor has done when it waits and when it has returned.    *)
Closing ==
    /\ m_closed <=> dtor # "alive"
    /\ m_closed => m_pool = <<>>
    /\ dtor = "gone" => m_activeCnt = 0 /\ m_subscribeCnt = 0

IndInv == Types /\ Ownership /\ Counts /\ Bound /\ Closing

-----------------------------------------------------------------------------
(* The connections that exist are the pooled ones and those in hand.       *)
LEMMA ExistingCount ==
    ASSUME Types, Ownership
    PROVE  /\ Pooled = ElemsOf(m_pool)
           /\ Cardinality(Pooled) = Len(m_pool)
           /\ IsFiniteSet(InHand) /\ Cardinality(InHand) \in Nat
           /\ Cardinality(Existing) = Len(m_pool) + Cardinality(InHand)
           /\ Len(m_pool) \in Nat
<1>1. InHand \subseteq Conns
  BY DEF InHand, Types
<1>2. IsFiniteSet(InHand) /\ Cardinality(InHand) \in Nat
  BY <1>1, FS_Subset, FS_CardinalityType, ConnPoolAssumption
<1>3. Pooled = ElemsOf(m_pool)
  BY DEF Pooled, ElemsOf
<1>4. IsFiniteSet(Pooled) /\ Cardinality(Pooled) = Len(m_pool)
  BY <1>3, DistinctCardinality DEF Types, Ownership
<1>5. Cardinality(Existing) =
        Cardinality(Pooled) + Cardinality(InHand) - Cardinality(Pooled \cap InHand)
  BY <1>2, <1>4, FS_Union DEF Existing
<1>6. Cardinality(Pooled \cap InHand) = 0
  BY FS_EmptySet DEF Ownership
<1>7. Len(m_pool) \in Nat
  BY DEF Types
<1> QED
  BY <1>2, <1>3, <1>4, <1>5, <1>6, <1>7

(* A connection that nobody has is given to c.                             *)
LEMMA HandOut ==
    ASSUME Types, Ownership, NEW c \in Clients, NEW x \in Conns, x \notin InHand,
           held' = [held EXCEPT ![c] = @ \cup {x}]
    PROVE  /\ held' \in [Clients -> SUBSET Conns]
           /\ \A a, b \in Clients : a # b => held'[a] \cap held'[b] = {}
           /\ InHand' = InHand \cup {x}
           /\ Cardinality(InHand') = Cardinality(InHand) + 1
<1>1. \A a \in Clients : held'[a] = IF a = c THEN held[a] \cup {x} ELSE held[a]
  BY DEF Types
<1>2. InHand' = InHand \cup {x}
  BY <1>1 DEF InHand
<1>3. \A a, b \in Clients : a # b => held'[a] \cap held'[b] = {}
  BY <1>1 DEF InHand, Ownership
<1>4. Cardinality(InHand') = Cardinality(InHand) + 1
  BY <1>2, ExistingCount, FS_AddElement
<1>5. held' \in [Clients -> SUBSET Conns]
  BY DEF Types
<1> QED
  BY <1>2, <1>3, <1>4, <1>5

(* c gives a connection back.                                              *)
LEMMA HandBack ==
    ASSUME Types, Ownership, NEW c \in Clients, NEW x \in held[c],
           held' = [held EXCEPT ![c] = @ \ {x}]
    PROVE  /\ held' \in [Clients -> SUBSET Conns]
           /\ \A a, b \in Clients : a # b => held'[a] \cap held'[b] = {}
           /\ x \in Conns /\ x \in InHand /\ x \notin Pooled
           /\ InHand' = InHand \ {x}
           /\ Cardinality(InHand') = Cardinality(InHand) - 1
<1>1. \A a \in Clients : held'[a] = IF a = c THEN held[a] \ {x} ELSE held[a]
  BY DEF Types
<1>2. \A a \in Clients : a # c => x \notin held[a]
  BY DEF Ownership
<1>3. x \in InHand /\ x \in Conns /\ x \notin Pooled
  BY DEF InHand, Types, Ownership
<1>4. InHand' = InHand \ {x}
  <2>1. ASSUME NEW y \in InHand' PROVE y \in InHand \ {x}
    BY <1>1, <1>2, <2>1 DEF InHand
  <2>2. ASSUME NEW y \in InHand, y # x PROVE y \in InHand'
    BY <1>1, <2>2 DEF InHand
  <2> QED
    BY <2>1, <2>2
<1>5. \A a, b \in Clients : a # b => held'[a] \cap held'[b] = {}
  BY <1>1 DEF Ownership
<1>6. Cardinality(InHand') = Cardinality(InHand) - 1
  BY <1>3, <1>4, ExistingCount, FS_RemoveElement
<1>7. held' \in [Clients -> SUBSET Conns]
  BY DEF Types
<1> QED
  BY <1>3, <1>4, <1>5, <1>6, <1>7

(* The number of calls of getConn, when one begins, goes on or ends.       *)
LEMMA Subscribers ==
    ASSUME Types, NEW c \in Clients, NEW l, pc' = [pc EXCEPT ![c] = l]
    PROVE  /\ Cardinality(InGetConn) \in Nat
           /\ pc[c] = "idle" /\ l # "idle" =>
                Cardinality(InGetConn') = Cardinality(InGetConn) + 1
           /\ pc[c] # "idle" /\ l = "idle" =>
                Cardinality(InGetConn') = Cardinality(InGetConn) - 1
           /\ pc[c] # "idle" /\ l # "idle" => InGetConn' = InGetConn
<1>1. \A a \in Clients : pc'[a] = IF a = c THEN l ELSE pc[a]
  BY DEF Types
<1>2. IsFiniteSet(InGetConn) /\ Cardinality(InGetConn) \in Nat
  BY ConnPoolAssumption, FS_Subset, FS_CardinalityType DEF InGetConn
<1>3. CASE pc[c] = "idle" /\ l # "idle"
  <2>1. InGetConn' = InGetConn \cup {c} /\ c \notin InGetConn
    BY <1>1, <1>3 DEF InGetConn
  <2> QED
    BY <1>2, <1>3, <2>1, FS_AddElement
<1>4. CASE pc[c] # "idle" /\ l = "idle"
  <2>1. InGetConn' = InGetConn \ {c} /\ c \in InGetConn
    BY <1>1, <1>4 DEF InGetConn
  <2> QED
    BY <1>2, <1>4, <2>1, FS_RemoveElement
<1>5. CASE pc[c] # "idle" /\ l # "idle"
  <2>1. InGetConn' = InGetConn
    BY <1>1, <1>5 DEF InGetConn
  <2> QED
    BY <1>2, <1>5, <2>1
<1>6. CASE pc[c] = "idle" /\ l = "idle"
  BY <1>2, <1>6
<1> QED
  BY <1>3, <1>4, <1>5, <1>6

LEMMA Init_IndInv == Init => IndInv
<1> SUFFICES ASSUME Init PROVE IndInv
  OBVIOUS
<1>1. minSize \in Nat /\ m_maxSize \in Nat /\ minSize <= m_maxSize /\ m_minSize \in Int
  BY ConnPoolAssumption DEF Init
<1>2. m_pool \in Seq(Conns) /\ Len(m_pool) = minSize /\ Distinct(m_pool)
  <2>1. m_pool \in [1..minSize -> Conns] /\ DOMAIN m_pool = 1..minSize
    BY DEF Init
  <2>2. m_pool \in Seq(Conns) /\ Len(m_pool) = minSize
    BY <1>1, <2>1
  <2>3. Distinct(m_pool)
    BY <2>1 DEF Init, Distinct
  <2> QED
    BY <2>2, <2>3
<1>3. InHand = {} /\ InGetConn = {}
  BY DEF Init, InHand, InGetConn
<1>4. Types
  <2>1. held \in [Clients -> SUBSET Conns]
    BY DEF Init
  <2>2. pc \in [Clients -> Places]
    BY DEF Init, Places
  <2>3. m_closed \in BOOLEAN
    BY DEF Init
  <2>4. m_minSize \in Int /\ m_activeCnt \in Int /\ m_subscribeCnt \in Int /\ late \in Nat
    BY <1>1 DEF Init
  <2> QED
    BY <1>2, <2>1, <2>2, <2>3, <2>4 DEF Init, Types
<1>5. Ownership
  BY <1>2, <1>3 DEF Init, Ownership
<1>6. Counts
  BY <1>1, <1>2, <1>3, FS_EmptySet DEF Init, Counts
<1>7. Bound
  BY <1>1, <1>2, <1>3, FS_EmptySet DEF Init, Bound, Most
<1>8. Closing
  BY DEF Init, Closing
<1> QED
  BY <1>4, <1>5, <1>6, <1>7, <1>8 DEF IndInv

(* Every step keeps the invariant: the steps that leave the connections    *)
(* where they are first.                                                   *)
LEMMA QuietSteps ==
    ASSUME IndInv,
           \/ \E c \in Clients : GetConn(c) \/ StopSpinning(c) \/ Woken(c) \/ Spurious(c) \/ Leave(c)
           \/ WakeUp \/ Destroyed
           \/ UNCHANGED vars
    PROVE  IndInv'
<1> USE DEF IndInv
<1>1. /\ m_minSize' = m_minSize /\ m_pool' = m_pool /\ held' = held
      /\ m_activeCnt' = m_activeCnt /\ m_closed' = m_closed /\ late' = late
  BY DEF GetConn, StopSpinning, Woken, Spurious, Leave, WakeUp, Destroyed, vars
<1>2. InHand' = InHand /\ Pooled' = Pooled
  BY <1>1 DEF InHand, Pooled
<1>3. Ownership' /\ Bound'
  BY <1>1, <1>2 DEF Ownership, Distinct, Bound, Most
<1>4. SUFFICES /\ Types'
               /\ m_subscribeCnt' = Cardinality(InGetConn)'
               /\ Closing'
  BY <1>1, <1>2, <1>3 DEF Counts
<1>5. ASSUME NEW c \in Clients, GetConn(c)
      PROVE  Types' /\ m_subscribeCnt' = Cardinality(InGetConn)' /\ Closing'
  <2>1. Types'
    BY <1>5 DEF GetConn, Goto, Types, Places
  <2>2. m_subscribeCnt' = Cardinality(InGetConn')
    <3>1. pc[c] = "idle" /\ pc' = [pc EXCEPT ![c] = "lock"]
      BY <1>5 DEF GetConn, Goto
    <3>2. "lock" # "idle" /\ Types
      OBVIOUS
    <3>3. Cardinality(InGetConn') = Cardinality(InGetConn) + 1
      BY <3>1, <3>2, Subscribers
    <3> QED
      BY <1>5, <3>3 DEF GetConn, Counts
  <2> QED
    BY <1>5, <2>1, <2>2 DEF GetConn, Closing
<1>6. ASSUME NEW c \in Clients, StopSpinning(c) \/ Woken(c) \/ Spurious(c)
      PROVE  Types' /\ m_subscribeCnt' = Cardinality(InGetConn)' /\ Closing'
  <2>1. Types'
    BY <1>6 DEF StopSpinning, Woken, Spurious, Goto, Types, Places
  <2>2. InGetConn' = InGetConn
    BY <1>6, Subscribers DEF StopSpinning, Woken, Spurious, Goto
  <2> QED
    BY <1>6, <2>1, <2>2 DEF StopSpinning, Woken, Spurious, Counts, Closing
<1>7. ASSUME NEW c \in Clients, Leave(c)
      PROVE  Types' /\ m_subscribeCnt' = Cardinality(InGetConn)' /\ Closing'
  <2>1. Types'
    BY <1>7 DEF Leave, Unsubscribed, Goto, Types, Places
  <2>2. m_subscribeCnt' = Cardinality(InGetConn')
    BY <1>7, Subscribers DEF Leave, Unsubscribed, Goto, Counts
  <2>3. Cardinality(InGetConn) # 0
    <3>1. IsFiniteSet(InGetConn) /\ c \in InGetConn
      BY <1>7, ConnPoolAssumption, FS_Subset DEF Leave, InGetConn
    <3> QED
      BY <3>1, FS_EmptySet
  <2>4. dtor # "gone"
    BY <2>3 DEF Closing, Counts
  <2> QED
    BY <1>7, <2>1, <2>2, <2>4 DEF Leave, Closing
<1>8. CASE WakeUp
  BY <1>8 DEF WakeUp, Types, Counts, InGetConn, Closing
<1>9. CASE Destroyed
  BY <1>9 DEF Destroyed, Busy, Types, Counts, InGetConn, Closing
<1>10. CASE UNCHANGED vars
  BY <1>10 DEF vars, Types, Counts, InGetConn, Closing
<1> QED
  BY <1>5, <1>6, <1>7, <1>8, <1>9, <1>10

(* getConn looks at the pool under the lock.                               *)
LEMMA LookSteps ==
    ASSUME IndInv, NEW c \in Clients, LockOrTimeout(c)
    PROVE  IndInv'
<1> USE DEF IndInv
<1>0. /\ UNCHANGED <<m_minSize, m_subscribeCnt, m_closed, recycler, late>>
      /\ pc[c] \in {"lock", "wait"} /\ Look(c)
  BY DEF LockOrTimeout
<1>1. InGetConn' = InGetConn /\ pc' \in [Clients -> Places]
  BY <1>0, Subscribers DEF Look, Goto, Types, Places
<1>2. CASE UNCHANGED <<m_pool, m_activeCnt, held>>
  <2>1. InHand' = InHand /\ Pooled' = Pooled
    BY <1>2 DEF InHand, Pooled
  <2>2. Ownership' /\ Bound' /\ Counts'
    BY <1>0, <1>1, <1>2, <2>1 DEF Ownership, Distinct, Bound, Most, Counts
  <2>3. dtor' \in {"alive", "wait", "woken", "gone"} /\ Closing'
    BY <1>0, <1>2 DEF Look, WakeDestructor, Types, Closing
  <2> QED
    BY <1>0, <1>1, <1>2, <2>2, <2>3 DEF Types
<1>3. CASE /\ ~m_closed /\ m_pool # <<>>
           /\ held' = [held EXCEPT ![c] = @ \cup {Head(m_pool)}]
           /\ m_pool' = Tail(m_pool)
           /\ UNCHANGED <<m_activeCnt, dtor>>
  <2>1. /\ m_pool' \in Seq(Conns) /\ Len(m_pool') = Len(m_pool) - 1
        /\ Distinct(m_pool')
        /\ Head(m_pool) \in Conns
        /\ ElemsOf(m_pool') = ElemsOf(m_pool) \ {Head(m_pool)}
        /\ Head(m_pool) \in ElemsOf(m_pool)
    BY <1>3, DistinctTail DEF Types, Ownership
  <2>2. Pooled = ElemsOf(m_pool) /\ Pooled' = ElemsOf(m_pool')
    BY DEF Pooled, ElemsOf
  <2>3. Head(m_pool) \notin InHand
    BY <2>1, <2>2 DEF Ownership
  <2>4. /\ held' \in [Clients -> SUBSET Conns]
        /\ \A a, b \in Clients : a # b => held'[a] \cap held'[b] = {}
        /\ InHand' = InHand \cup {Head(m_pool)}
        /\ Cardinality(InHand') = Cardinality(InHand) + 1
    BY <1>3, <2>1, <2>3, HandOut
  <2>5. Types'
    BY <1>0, <1>1, <1>3, <2>1, <2>4 DEF Types
  <2>6. Ownership'
    BY <2>1, <2>2, <2>4 DEF Ownership
  <2>7. Len(m_pool') + Cardinality(InHand') = Len(m_pool) + Cardinality(InHand)
    BY <2>1, <2>4, ExistingCount
  <2>8. Counts' /\ Bound'
    BY <1>0, <1>1, <1>3, <2>7 DEF Counts, Bound, Most
  <2>9. Closing'
    BY <1>0, <1>3 DEF Closing
  <2> QED
    BY <2>5, <2>6, <2>8, <2>9
<1>4. CASE /\ ~m_closed /\ m_pool = <<>> /\ ~Full
           /\ \E x \in Conns \ Existing : held' = [held EXCEPT ![c] = @ \cup {x}]
           /\ m_activeCnt' = m_activeCnt + 1
           /\ UNCHANGED <<m_pool, dtor>>
  <2>1. PICK x \in Conns \ Existing : held' = [held EXCEPT ![c] = @ \cup {x}]
    BY <1>4
  <2>2. x \notin InHand /\ x \notin Pooled /\ Pooled' = Pooled
    BY <1>4 DEF Existing, Pooled
  <2>4. /\ held' \in [Clients -> SUBSET Conns]
        /\ \A a, b \in Clients : a # b => held'[a] \cap held'[b] = {}
        /\ InHand' = InHand \cup {x}
        /\ Cardinality(InHand') = Cardinality(InHand) + 1
    BY <2>1, <2>2, HandOut
  <2>5. Types'
    BY <1>0, <1>1, <1>4, <2>4 DEF Types
  <2>6. Ownership'
    BY <1>4, <2>2, <2>4 DEF Ownership, Distinct
  <2>7. Len(m_pool') + Cardinality(InHand') = Len(m_pool) + Cardinality(InHand) + 1
    BY <1>4, <2>4, ExistingCount
  <2>8. Counts'
    BY <1>0, <1>1, <1>4, <2>7, ExistingCount, ConnPoolAssumption DEF Counts, Types
  <2>9. m_activeCnt < m_maxSize
    BY <1>4, ConnPoolAssumption DEF Full, Types
  <2>10. Bound'
    BY <1>0, <2>7, <2>9, ExistingCount, ConnPoolAssumption DEF Counts, Bound, Most, Types
  <2>11. Closing'
    BY <1>0, <1>4 DEF Closing
  <2> QED
    BY <2>5, <2>6, <2>8, <2>10, <2>11
<1> QED
  BY <1>0, <1>2, <1>3, <1>4 DEF Look, Noticed

(* A connection comes back.                                                *)
LEMMA PutConnStep ==
    ASSUME IndInv, NEW c \in Clients, NEW x \in Conns, PutConn(c, x)
    PROVE  IndInv'
<1> USE DEF IndInv
<1>0. /\ UNCHANGED <<m_minSize, m_activeCnt, m_subscribeCnt, m_closed, recycler>>
      /\ x \in held[c]
      /\ held' = [held EXCEPT ![c] = @ \ {x}]
  BY DEF PutConn, Returned
<1>1. /\ held' \in [Clients -> SUBSET Conns]
      /\ \A a, b \in Clients : a # b => held'[a] \cap held'[b] = {}
      /\ x \in Conns /\ x \in InHand /\ x \notin Pooled
      /\ InHand' = InHand \ {x}
      /\ Cardinality(InHand') = Cardinality(InHand) - 1
  BY <1>0, HandBack
<1>2. CASE /\ m_closed /\ late' = late + 1 /\ WakeDestructor
           /\ UNCHANGED <<m_pool, pc>>
  <2>1. Pooled' = Pooled /\ InGetConn' = InGetConn
    BY <1>2 DEF Pooled, InGetConn
  <2>2. Types'
    BY <1>0, <1>1, <1>2 DEF Types, WakeDestructor
  <2>3. Ownership'
    BY <1>1, <1>2, <2>1 DEF Ownership, Distinct
  <2>4. Counts' /\ Bound'
    BY <1>0, <1>1, <1>2, <2>1, ExistingCount, ConnPoolAssumption, SMTT(30) DEF Counts, Bound, Most, Types
  <2>5. Closing'
    BY <1>0, <1>2 DEF Closing, WakeDestructor, Types
  <2> QED
    BY <2>2, <2>3, <2>4, <2>5
<1>3. CASE /\ ~m_closed /\ m_pool' = Append(m_pool, x)
           /\ \/ \E d \in Clients : pc[d] = "wait" /\ Goto(d, "woken")
              \/ UNCHANGED pc
           /\ UNCHANGED <<late, dtor>>
  <2>1. Pooled = ElemsOf(m_pool) /\ Pooled' = ElemsOf(m_pool')
    BY DEF Pooled, ElemsOf
  <2>2. /\ m_pool' \in Seq(Conns) /\ Distinct(m_pool')
        /\ Pooled' = Pooled \cup {x}
    BY <1>1, <1>3, <2>1, DistinctAppend DEF Types, Ownership
  <2>3. Len(m_pool') = Len(m_pool) + 1
    BY <1>3 DEF Types
  <2>4. /\ InGetConn' = InGetConn
        /\ pc' \in [Clients -> Places]
    <3>1. CASE UNCHANGED pc
      BY <3>1 DEF InGetConn, Types
    <3>2. CASE \E d \in Clients : pc[d] = "wait" /\ Goto(d, "woken")
      BY <3>2, Subscribers DEF Goto, Types, Places
    <3> QED
      BY <1>3, <3>1, <3>2
  <2>5. Types'
    BY <1>0, <1>1, <1>3, <2>2, <2>4 DEF Types
  <2>6. Ownership'
    BY <1>1, <2>2 DEF Ownership
  <2>7. Len(m_pool') + Cardinality(InHand') = Len(m_pool) + Cardinality(InHand)
    BY <1>1, <2>3, ExistingCount
  <2>8. Counts' /\ Bound'
    BY <1>0, <1>3, <2>4, <2>7 DEF Counts, Bound, Most
  <2>9. Closing'
    BY <1>0, <1>3 DEF Closing
  <2> QED
    BY <2>5, <2>6, <2>8, <2>9
<1> QED
  BY <1>2, <1>3 DEF PutConn

(* The books stay balanced when n idle connections are closed.             *)
LEMMA CountsAfterClosing ==
    ASSUME Counts, NEW n \in Int,
           m_activeCnt \in Int, m_minSize \in Int, minSize \in Int, late \in Int,
           Len(m_pool) \in Int, Cardinality(InHand) \in Int,
           UNCHANGED <<m_minSize, m_subscribeCnt, late>>,
           m_activeCnt' = m_activeCnt - n,
           Len(m_pool') = Len(m_pool) - n,
           Cardinality(InHand') = Cardinality(InHand),
           Cardinality(InGetConn') = Cardinality(InGetConn)
    PROVE  Counts'
  BY SMTT(30) DEF Counts

(* Idle connections are closed.                                            *)
LEMMA RecycleStep == IndInv /\ Recycle => IndInv'
<1> SUFFICES ASSUME IndInv, Recycle PROVE IndInv'
  OBVIOUS
<1> USE DEF IndInv
<1>1. /\ UNCHANGED <<m_minSize, m_subscribeCnt, m_closed, held, pc, dtor, late>>
      /\ recycler' \in {"top", "sleep", "exit"}
  BY DEF Recycle
<1>2. InHand' = InHand /\ InGetConn' = InGetConn
  BY <1>1 DEF InHand, InGetConn
<1>3. CASE m_closed /\ UNCHANGED <<m_pool, m_activeCnt>>
  <2>1. Pooled' = Pooled
    BY <1>3 DEF Pooled
  <2> QED
    BY <1>1, <1>2, <1>3, <2>1 DEF Types, Ownership, Distinct, Counts, Bound, Most, Closing
<1>4. CASE /\ ~m_closed
           /\ \E n \in 0..Len(m_pool) :
                 /\ m_pool' = SubSeq(m_pool, n + 1, Len(m_pool))
                 /\ m_activeCnt' = m_activeCnt - n
  <2>1. PICK n \in 0..Len(m_pool) : /\ m_pool' = SubSeq(m_pool, n + 1, Len(m_pool))
                                   /\ m_activeCnt' = m_activeCnt - n
    BY <1>4
  <2>2. /\ m_pool' \in Seq(Conns) /\ Len(m_pool') = Len(m_pool) - n
        /\ Distinct(m_pool')
        /\ ElemsOf(m_pool') \subseteq ElemsOf(m_pool)
    BY <2>1, DistinctSuffix DEF Types, Ownership
  <2>3. Pooled' \subseteq Pooled
    BY <2>2 DEF Pooled, ElemsOf
  <2>4. Types'
    BY <1>1, <2>1, <2>2 DEF Types
  <2>5. Ownership'
    BY <1>1, <1>2, <2>2, <2>3 DEF Ownership
  <2>6. /\ Cardinality(InHand) \in Nat /\ Len(m_pool) \in Nat
        /\ Cardinality(InHand') = Cardinality(InHand)
        /\ Cardinality(InGetConn') = Cardinality(InGetConn)
    BY <1>2, ExistingCount
  <2>8. Counts'
    <3>1. /\ m_activeCnt \in Int /\ m_minSize \in Int /\ minSize \in Int /\ late \in Int
          /\ n \in Int /\ Len(m_pool) \in Int /\ Cardinality(InHand) \in Int
      BY <2>6, ConnPoolAssumption DEF Types
    <3>2. Counts
      OBVIOUS
    <3> QED
      BY <1>1, <2>1, <2>2, <2>6, <3>1, <3>2, CountsAfterClosing, ZenonT(30)
  <2>9. Bound'
    BY <1>1, <2>1, <2>2, <2>6, ConnPoolAssumption DEF Bound, Most, Types
  <2>7. Closing'
    BY <1>1, <1>4 DEF Closing
  <2> QED
    BY <2>4, <2>5, <2>7, <2>8, <2>9
<1> QED
  BY <1>3, <1>4 DEF Recycle

(* The destructor begins.                                                  *)
LEMMA DestroyStep == IndInv /\ Destroy => IndInv'
<1> SUFFICES ASSUME IndInv, Destroy PROVE IndInv'
  OBVIOUS
<1> USE DEF IndInv
<1>1. /\ UNCHANGED <<m_minSize, m_subscribeCnt, held, recycler, late>>
      /\ m_pool' = <<>> /\ m_closed' = TRUE
      /\ m_activeCnt' = m_activeCnt - Len(m_pool)
  BY DEF Destroy
<1>0. /\ pc' \in [Clients -> Places]
      /\ \A c \in Clients : pc'[c] = "idle" <=> pc[c] = "idle"
  <2>1. PICK W \in SUBSET {c \in Clients : pc[c] = "wait"} :
               pc' = [c \in Clients |-> IF c \in W THEN "woken" ELSE pc[c]]
    BY DEF Destroy
  <2> QED
    BY <2>1 DEF Types, Places
<1>2. InHand' = InHand /\ InGetConn' = InGetConn
  BY <1>0, <1>1 DEF InHand, InGetConn
<1>3. Pooled' = {} /\ Distinct(m_pool') /\ m_pool' \in Seq(Conns) /\ Len(m_pool') = 0
  BY <1>1 DEF Pooled, Distinct
<1>4. /\ dtor' \in {"wait", "gone"}
      /\ dtor' = "gone" => m_activeCnt' = 0 /\ m_subscribeCnt = 0
  BY DEF Destroy, Busy
<1>5. m_activeCnt' \in Int /\ Len(m_pool) \in Nat
  BY <1>1 DEF Types
<1>7. Types'
  <2>1. m_closed' \in BOOLEAN
    BY <1>1
  <2> QED
    BY <1>0, <1>1, <1>3, <1>4, <1>5, <2>1 DEF Types
<1>8. Ownership'
  BY <1>1, <1>2, <1>3 DEF Ownership
<1>9. Counts' /\ Bound'
  <2>1. /\ Cardinality(InHand) \in Nat
        /\ Cardinality(InHand') = Cardinality(InHand)
        /\ Cardinality(InGetConn') = Cardinality(InGetConn)
    BY <1>2, ExistingCount
  <2>2. Counts'
    <3>1. /\ m_activeCnt \in Int /\ m_minSize \in Int /\ minSize \in Int /\ late \in Int
          /\ Len(m_pool) \in Int /\ Cardinality(InHand) \in Int
      BY <1>5, <2>1, ConnPoolAssumption DEF Types
    <3>2. Len(m_pool') = Len(m_pool) - Len(m_pool)
      BY <1>3, <3>1
    <3>3. Counts
      OBVIOUS
    <3> QED
      BY <1>1, <2>1, <3>1, <3>2, <3>3, CountsAfterClosing, ZenonT(30)
  <2>3. Bound'
    BY <1>1, <1>3, <1>5, <2>1, ConnPoolAssumption DEF Bound, Most, Types
  <2> QED
    BY <2>2, <2>3
<1>10. Closing'
  BY <1>1, <1>4 DEF Closing
<1> QED
  BY <1>7, <1>8, <1>9, <1>10

LEMMA Next_IndInv == IndInv /\ [Next]_vars => IndInv'
  BY QuietSteps, LookSteps, PutConnStep, RecycleStep, DestroyStep DEF Next

(* The inductive invariant holds in every reachable state.                 *)
THEOREM ConnPoolIndInv == Spec => []IndInv
  BY Init_IndInv, Next_IndInv, PTL DEF Spec

(* No two clients have one connection, and none is in m_pool at the same   *)
(* time, once or twice (getConn, putConn, recycleIdleConns).               *)
THEOREM ConnPoolOneUser == Spec => []OneUser
<1>1. IndInv => OneUser
  BY ExistingCount DEF IndInv, Ownership, OneUser
<1> QED
  BY <1>1, ConnPoolIndInv, PTL

(* The counters of the pool are what the destructor takes them for.        *)
THEOREM ConnPoolCountExact == Spec => []CountExact
<1>1. IndInv => CountExact
  BY ExistingCount DEF IndInv, Counts, CountExact, InGetConn
<1> QED
  BY <1>1, ConnPoolIndInv, PTL

(* Beside the connections of init() no more than m_maxSize - m_minSize     *)
(* exist, whatever init() left in m_minSize (getConn, pool.cpp:107).       *)
THEOREM ConnPoolWithinMaxSize == Spec => []WithinMaxSize
<1>1. IndInv => WithinMaxSize
  BY ExistingCount DEF IndInv, Bound, Most, WithinMaxSize
<1> QED
  BY <1>1, ConnPoolIndInv, PTL

(* What the destructor has waited for when it returns: every call of       *)
(* getConn, and connections up to what m_minSize falls short of minSize.   *)
THEOREM ConnPoolDestroyedLast == Spec => []DestroyedLast
<1>1. IndInv => DestroyedLast
  <2> SUFFICES ASSUME IndInv, dtor = "gone"
               PROVE  /\ \A c \in Clients : pc[c] = "idle"
                      /\ Cardinality(InHand) + late = minSize - m_minSize
    BY DEF DestroyedLast
  <2>1. IsFiniteSet(InGetConn) /\ Cardinality(InGetConn) = 0
    BY ConnPoolAssumption, FS_Subset DEF IndInv, Closing, Counts, InGetConn
  <2>2. InGetConn = {}
    BY <2>1, FS_EmptySet
  <2>3. m_activeCnt = 0 /\ Len(m_pool) = 0
    BY DEF IndInv, Closing
  <2>4. Cardinality(InHand) + late = minSize - m_minSize
    BY <2>3, ExistingCount, ConnPoolAssumption DEF IndInv, Counts, Types
  <2> QED
    BY <2>2, <2>4 DEF InGetConn
<1> QED
  BY <1>1, ConnPoolIndInv, PTL
=============================================================================
