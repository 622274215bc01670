---------------------------- MODULE ChannelProofs ----------------------------
(***************************************************************************)
(* Proofs about Channel, for every set of threads, capacity, set of        *)
(* batches and set of read sizes that ChannelAssumption allows.            *)
(***************************************************************************)
EXTENDS Channel, FiniteSetTheorems, SequenceTheorems, TLAPS

(* Arithmetic of the ring: an index that has gone at most once around is   *)
(* brought back by one subtraction.                                        *)
LEMMA ModLow == \A x \in 0..(Cap - 1) : x % Cap = x
  BY ChannelAssumption, SMT

LEMMA ModHigh == \A x \in Cap..(2 * Cap - 1) : x % Cap = x - Cap
  BY ChannelAssumption, SMT

LEMMA ModRange == \A x \in Int : x % Cap \in Slots
  BY ChannelAssumption, SMT DEF Slots

LEMMA AdvanceType ==
    \A cur \in Slots \cup {-1}, n \in Nat : Advance(cur, n) \in Slots \cup {-1}
  BY ModRange, ChannelAssumption DEF Advance, Slots

LEMMA AdvanceCases ==
    ASSUME NEW cur \in Slots \cup {-1}, NEW n \in 1..Cap
    PROVE  Advance(cur, n) = IF cur + n < Cap THEN cur + n ELSE (cur + n) - Cap
<1>1. /\ Advance(cur, n) = (cur + n) % Cap
      /\ cur + n \in 0..(2 * Cap - 1)
  BY ChannelAssumption DEF Advance, Slots
<1>2. CASE cur + n < Cap
  <2>1. cur + n \in 0..(Cap - 1)
    BY <1>1, <1>2, ChannelAssumption DEF Slots
  <2> QED
    BY <1>1, <1>2, <2>1, ModLow
<1>3. CASE ~(cur + n < Cap)
  <2>1. cur + n \in Cap..(2 * Cap - 1)
    BY <1>1, <1>3, ChannelAssumption DEF Slots
  <2>2. (cur + n) % Cap = (cur + n) - Cap
    BY <2>1, ModHigh, ChannelAssumption DEF Slots
  <2> QED
    BY <1>1, <1>3, <2>2
<1> QED
  BY <1>2, <1>3

(* Advancing by n and then by k, at most once around in all.               *)
LEMMA AdvanceAdd ==
    ASSUME NEW cur \in Slots \cup {-1}, NEW n \in Nat, NEW k \in Nat,
           n + k <= Cap
    PROVE  Advance(Advance(cur, n), k) = Advance(cur, n + k)
<1>1. CASE n = 0
  BY <1>1 DEF Advance
<1>2. CASE k = 0
  BY <1>2 DEF Advance
<1>3. CASE n # 0 /\ k # 0
  <2>1. n \in 1..Cap /\ k \in 1..Cap /\ n + k \in 1..Cap
    BY <1>3, ChannelAssumption
  <2>2. Advance(cur, n) \in Slots \cup {-1}
    BY AdvanceType
  <2>3. Advance(cur, n) = IF cur + n < Cap THEN cur + n ELSE (cur + n) - Cap
    BY <2>1, AdvanceCases
  <2>4. Advance(cur, n + k) =
          IF cur + (n + k) < Cap THEN cur + (n + k) ELSE (cur + (n + k)) - Cap
    BY <2>1, AdvanceCases
  <2>5. Advance(Advance(cur, n), k) =
          IF Advance(cur, n) + k < Cap THEN Advance(cur, n) + k
                                       ELSE (Advance(cur, n) + k) - Cap
    BY <2>1, <2>2, AdvanceCases
  <2> QED
    BY <2>1, <2>3, <2>4, <2>5, ChannelAssumption DEF Slots
<1> QED
  BY <1>1, <1>2, <1>3

(* Advance is the iteration of roundTrip that the copy loops perform.      *)
LEMMA AdvanceIsIteratedRoundTrip ==
    ASSUME NEW cur \in Slots \cup {-1}, NEW n \in 0..(Cap - 1)
    PROVE  /\ Advance(cur, 0) = cur
           /\ Advance(cur, n + 1) = roundTrip(Advance(cur, n))
<1>1. Advance(Advance(cur, n), 1) = Advance(cur, n + 1)
  BY AdvanceAdd, ChannelAssumption
<1> QED
  BY <1>1 DEF Advance, roundTrip

(* The fields of a call, by its operation.                                 *)
LEMMA CallFields ==
    ASSUME NEW c \in Calls \cup {NoCall}
    PROVE  /\ c.op = "writeN" => /\ c.datas \in WriteBatches
                                 /\ c.datas \in Seq(Data)
                                 /\ Len(c.datas) \in Nat
           /\ c.op = "readN" => c.size \in ReadSizes /\ c.size \in Nat
           /\ c.op # "none" => c \in Calls
<1>1. c.op = "writeN" => c.datas \in WriteBatches
  BY DEF Calls, WriteCalls, ReadCalls, CloseCalls, NoCall
<1>2. c.op = "readN" => c.size \in ReadSizes
  BY DEF Calls, WriteCalls, ReadCalls, CloseCalls, NoCall
<1>3. c.op # "none" => c \in Calls
  BY DEF NoCall
<1>4. \A s \in Seq(Data) : Len(s) \in Nat
  OBVIOUS
<1>5. WriteBatches \subseteq Seq(Data) /\ ReadSizes \subseteq Nat
  BY ChannelAssumption
<1> QED
  BY <1>1, <1>2, <1>3, <1>4, <1>5

LEMMA FrontType ==
    ASSUME TypeOK, NEW n \in 0..Cap
    PROVE  /\ Front(n) \in Seq(Data \cup {Default})
           /\ Len(Front(n)) = n
<1>1. ASSUME NEW i \in 1..n
      PROVE  Advance(m_front, i) \in Slots
  <2>1. m_front + i \in Int /\ i # 0
    BY ChannelAssumption DEF TypeOK, Slots
  <2> QED
    BY <2>1, ModRange DEF Advance
<1>2. Front(n) \in [1..n -> Data \cup {Default}]
  BY <1>1 DEF Front, TypeOK
<1> QED
  BY <1>2, ChannelAssumption

LEMMA FilledType ==
    ASSUME TypeOK, NEW datas \in Seq(Data)
    PROVE  Filled(datas) \in [Slots -> Data \cup {Default}]
<1>1. ASSUME NEW i \in Slots
      PROVE  Distance(i) \in 1..Cap
  <2>1. i + Cap - m_back - 1 \in Int
    BY ChannelAssumption DEF TypeOK, Slots
  <2>2. (i + Cap - m_back - 1) % Cap \in Slots
    BY <2>1, ModRange
  <2> QED
    BY <2>2, ChannelAssumption DEF Distance, Slots
<1>2. \A i \in Slots : Distance(i) <= Len(datas) => datas[Distance(i)] \in Data
  BY <1>1, ChannelAssumption
<1> QED
  BY <1>2 DEF Filled, TypeOK

-----------------------------------------------------------------------------
(* Type correctness.                                                       *)

LEMMA InitTypeOK == Init => TypeOK
<1> SUFFICES ASSUME Init PROVE TypeOK
  OBVIOUS
<1>1. Failure \in [ok : BOOLEAN, datas : Seq(Data \cup {Default})]
  BY DEF Failure, Result
<1>2. /\ m_lock \in Threads \cup {NoThread}
      /\ m_front \in Slots \cup {-1}
      /\ m_back \in Slots \cup {-1}
      /\ m_subscribers \in Int
  BY DEF Init
<1>5. m_size \in 0..Cap
  BY ChannelAssumption DEF Init
<1>6. m_closed \in BOOLEAN
  BY DEF Init
<1>3. m_array \in [Slots -> Data \cup {Default}]
  BY DEF Init
<1>4. /\ pc \in [Threads -> Locations]
      /\ call \in [Threads -> Calls \cup {NoCall}]
      /\ res \in [Threads -> [ok : BOOLEAN, datas : Seq(Data \cup {Default})]]
  BY <1>1 DEF Init, Locations
<1> QED
  BY <1>2, <1>3, <1>4, <1>5, <1>6 DEF TypeOK

LEMMA LeaveType ==
    ASSUME TypeOK, NEW t \in Threads, NEW r, Leave(t, r),
           r \in [ok : BOOLEAN, datas : Seq(Data \cup {Default})]
    PROVE  /\ m_lock' \in Threads \cup {NoThread}
           /\ res' \in [Threads -> [ok : BOOLEAN, datas : Seq(Data \cup {Default})]]
           /\ m_subscribers' \in Int
  BY DEF TypeOK, Leave

LEMMA SignalType ==
    ASSUME TypeOK, NEW t \in Threads, NEW cond \in SUBSET Threads,
           SignalAndLeave(t, cond)
    PROVE  pc' \in [Threads -> Locations]
  BY DEF TypeOK, SignalAndLeave, Locations

LEMMA NextTypeOK == TypeOK /\ [Next]_vars => TypeOK'
<1> SUFFICES ASSUME TypeOK, [Next]_vars PROVE TypeOK'
  OBVIOUS
<1>0. /\ \A ds \in Seq(Data \cup {Default}) : \A b \in BOOLEAN :
            Result(b, ds) \in [ok : BOOLEAN, datas : Seq(Data \cup {Default})]
      /\ <<>> \in Seq(Data \cup {Default})
  BY DEF Result
<1>1. Failure \in [ok : BOOLEAN, datas : Seq(Data \cup {Default})]
  BY <1>0 DEF Failure
<1>2. ASSUME NEW t \in Threads, NEW c \in Calls, Enter(t, c)
      PROVE  TypeOK'
  BY <1>2 DEF Enter, TypeOK, Locations, ring
<1>3. ASSUME NEW t \in Threads, FindClosed(t)
      PROVE  TypeOK'
  BY <1>1, <1>3, LeaveType DEF FindClosed, TypeOK, Locations, ring
<1>4. ASSUME NEW t \in Threads, Write(t)
      PROVE  TypeOK'
  <2>1. /\ call[t].datas \in Seq(Data)
        /\ Len(call[t].datas) \in Nat
    BY <1>4, CallFields DEF Write, TypeOK
  <2>2. m_array' \in [Slots -> Data \cup {Default}]
    BY <1>4, <2>1, FilledType DEF Write, Push
  <2>3. m_back' \in Slots \cup {-1}
    BY <1>4, <2>1, AdvanceType DEF Write, Push, TypeOK
  <2>4. m_size' \in 0..Cap
    BY <1>4, <2>1, ChannelAssumption DEF Write, Push, Fits, TypeOK
  <2>5. pc' \in [Threads -> Locations]
    BY <1>4, SignalType DEF Write, ReadCond
  <2>6. Leave(t, Result(TRUE, <<>>))
    BY <1>4 DEF Write
  <2> QED
    BY <1>0, <1>4, <2>2, <2>3, <2>4, <2>5, <2>6, LeaveType DEF Write, TypeOK
<1>5. ASSUME NEW t \in Threads, Read(t)
      PROVE  TypeOK'
  <2>1. call[t].size \in 0..Cap
    BY <1>5, CallFields, ChannelAssumption DEF Read, Available, TypeOK
  <2>2. m_front' \in Slots \cup {-1}
    BY <1>5, <2>1, AdvanceType DEF Read, Pop, TypeOK
  <2>3. m_size' \in 0..Cap
    BY <1>5, <2>1, ChannelAssumption DEF Read, Pop, Available, TypeOK
  <2>4. pc' \in [Threads -> Locations]
    BY <1>5, SignalType DEF Read, WriteCond
  <2>5. Front(call[t].size) \in Seq(Data \cup {Default})
    BY <2>1, FrontType
  <2>6. Leave(t, Result(TRUE, Front(call[t].size)))
    BY <1>5 DEF Read
  <2> QED
    BY <1>0, <1>5, <2>2, <2>3, <2>4, <2>5, <2>6, LeaveType DEF Read, TypeOK
<1>6. ASSUME NEW t \in Threads, GiveUp(t)
      PROVE  TypeOK'
  BY <1>1, <1>6, LeaveType DEF GiveUp, TypeOK, Locations, ring
<1>7. ASSUME NEW t \in Threads, Wait(t)
      PROVE  TypeOK'
  BY <1>7 DEF Wait, TypeOK, Locations, ring
<1>8. ASSUME NEW t \in Threads, SpuriousWakeup(t)
      PROVE  TypeOK'
  BY <1>8 DEF SpuriousWakeup, TypeOK, Locations, ring
<1>9. ASSUME NEW t \in Threads, Close(t)
      PROVE  TypeOK'
  <2>1. pc' \in [Threads -> Locations]
    BY <1>9 DEF Close, TypeOK, Locations
  <2>2. Leave(t, Result(TRUE, <<>>))
    BY <1>9 DEF Close
  <2> QED
    BY <1>0, <1>9, <2>1, <2>2, LeaveType DEF Close, TypeOK, ring
<1>10. ASSUME NEW t \in Threads, Unlock(t) \/ Drained(t) \/ Return(t)
       PROVE  TypeOK'
  <2>1. CASE Unlock(t)
    BY <1>1, <2>1 DEF Unlock, TypeOK, Locations, ring
  <2>2. CASE Drained(t)
    BY <1>1, <2>2 DEF Drained, TypeOK, Locations, ring
  <2>3. CASE Return(t)
    BY <1>1, <2>3 DEF Return, TypeOK, Locations, ring
  <2> QED
    BY <1>10, <2>1, <2>2, <2>3
<1>11. CASE UNCHANGED vars
  BY <1>11 DEF vars, TypeOK
<1> QED
  BY <1>2, <1>3, <1>4, <1>5, <1>6, <1>7, <1>8, <1>9, <1>10, <1>11
     DEF Next, Step

(* Every reachable state is well typed; in particular both indexes stay    *)
(* inside the ring and the size never exceeds the capacity, whatever the   *)
(* batches.                                                                *)
THEOREM ChannelTypeOK == Spec => []TypeOK
  BY InitTypeOK, NextTypeOK, PTL DEF Spec

-----------------------------------------------------------------------------
(* The parts of IndInv, one lemma for each that a step must preserve.      *)

LEMMA NextLockHolder ==
    TypeOK /\ LockHolder /\ [Next]_vars => LockHolder'
<1> SUFFICES ASSUME TypeOK, LockHolder, [Next]_vars PROVE LockHolder'
  OBVIOUS
<1> USE ChannelAssumption DEF TypeOK, LockHolder
<1>1. ASSUME NEW t \in Threads, NEW c \in Calls, Enter(t, c)
      PROVE  LockHolder'
  BY <1>1 DEF Enter
<1>2. ASSUME NEW t \in Threads, FindClosed(t) \/ GiveUp(t)
      PROVE  LockHolder'
  BY <1>2 DEF FindClosed, GiveUp, CanLock, Leave
<1>3. ASSUME NEW t \in Threads, NEW cond \in SUBSET Threads,
             CanLock(t), \A w \in cond : pc[w] = "wait",
             SignalAndLeave(t, cond), m_lock' = t
      PROVE  LockHolder'
  BY <1>3 DEF SignalAndLeave, CanLock
<1>4. ASSUME NEW t \in Threads, Write(t) \/ Read(t)
      PROVE  LockHolder'
  BY <1>3, <1>4 DEF Write, Read, Leave, ReadCond, WriteCond
<1>5. ASSUME NEW t \in Threads, Wait(t) \/ SpuriousWakeup(t)
      PROVE  LockHolder'
  BY <1>5 DEF Wait, SpuriousWakeup, CanLock
<1>6. ASSUME NEW t \in Threads, Close(t)
      PROVE  LockHolder'
  BY <1>6 DEF Close, CanLock, Leave, Waiters, ReadCond, WriteCond
<1>7. ASSUME NEW t \in Threads, Unlock(t) \/ Drained(t) \/ Return(t)
      PROVE  LockHolder'
  BY <1>7 DEF Unlock, Drained, Return
<1>8. CASE UNCHANGED vars
  BY <1>8 DEF vars
<1> QED
  BY <1>1, <1>2, <1>4, <1>5, <1>6, <1>7, <1>8 DEF Next, Step

LEMMA NextRingConsistent ==
    TypeOK /\ RingConsistent /\ [Next]_vars => RingConsistent'
<1> SUFFICES ASSUME TypeOK, RingConsistent, [Next]_vars PROVE RingConsistent'
  OBVIOUS
<1>1. ASSUME NEW t \in Threads, Write(t)
      PROVE  RingConsistent'
  <2> DEFINE n == Len(call[t].datas)
  <2>1. n \in Nat /\ m_size + n <= Cap
    BY <1>1, CallFields DEF Write, Fits, TypeOK
  <2>2. Advance(Advance(m_front, m_size), n) = Advance(m_front, m_size + n)
    BY <2>1, AdvanceAdd, ChannelAssumption DEF TypeOK
  <2>3. /\ m_front' = m_front
        /\ m_back' = Advance(m_back, n)
        /\ m_size' = m_size + n
    BY <1>1 DEF Write, Push
  <2> QED
    BY <2>2, <2>3 DEF RingConsistent
<1>2. ASSUME NEW t \in Threads, Read(t)
      PROVE  RingConsistent'
  <2> DEFINE n == call[t].size
  <2>1. n \in Nat /\ n <= m_size
    BY <1>2, CallFields DEF Read, Available, TypeOK
  <2>2. /\ m_size - n \in Nat
        /\ n + (m_size - n) = m_size
        /\ m_size <= Cap
    BY <2>1, ChannelAssumption DEF TypeOK
  <2>3. Advance(Advance(m_front, n), m_size - n) = Advance(m_front, m_size)
    BY <2>1, <2>2, AdvanceAdd DEF TypeOK
  <2>4. /\ m_front' = Advance(m_front, n)
        /\ m_back' = m_back
        /\ m_size' = m_size - n
    BY <1>2 DEF Read, Pop
  <2> QED
    BY <2>3, <2>4 DEF RingConsistent
<1>3. CASE UNCHANGED ring
  BY <1>3 DEF ring, RingConsistent
<1>4. ASSUME NEW t \in Threads,
             \/ \E c \in Calls : Enter(t, c)
             \/ FindClosed(t) \/ GiveUp(t) \/ Wait(t) \/ SpuriousWakeup(t)
             \/ Close(t) \/ Unlock(t) \/ Drained(t) \/ Return(t)
      PROVE  UNCHANGED ring
  BY <1>4 DEF Enter, FindClosed, GiveUp, Wait, SpuriousWakeup, Close, Unlock,
              Drained, Return, ring
<1>5. CASE UNCHANGED vars
  BY <1>5, <1>3 DEF vars, ring
<1> QED
  BY <1>1, <1>2, <1>3, <1>4, <1>5 DEF Next, Step

(* The set that m_subscribers counts.                                      *)
Subscribers == {t \in Threads : pc[t] \in {"wait", "relock"}}

LEMMA NextSubscriberCount ==
    TypeOK /\ SubscriberCount /\ [Next]_vars => SubscriberCount'
<1> SUFFICES ASSUME TypeOK, SubscriberCount, [Next]_vars
             PROVE  SubscriberCount'
  OBVIOUS
<1>1. /\ IsFiniteSet(Subscribers)
      /\ m_subscribers = Cardinality(Subscribers)
  BY ChannelAssumption, FS_Subset DEF Subscribers, SubscriberCount
<1>2. SUFFICES m_subscribers' = Cardinality(Subscribers')
  BY DEF SubscriberCount, Subscribers
<1>3. CASE /\ Subscribers' = Subscribers
           /\ m_subscribers' = m_subscribers
  BY <1>1, <1>3
<1>4. ASSUME NEW t \in Threads, CanLock(t),
             Subscribers' = Subscribers \ {t},
             m_subscribers' = IF Subscribed(t) THEN m_subscribers - 1
                                               ELSE m_subscribers
      PROVE  m_subscribers' = Cardinality(Subscribers')
  <2>1. t \in Subscribers <=> Subscribed(t)
    BY <1>4 DEF Subscribers, Subscribed, CanLock
  <2>2. CASE t \in Subscribers
    BY <1>1, <1>4, <2>1, <2>2, FS_RemoveElement
  <2>3. CASE t \notin Subscribers
    <3>1. Subscribers' = Subscribers
      BY <1>4, <2>3
    <3> QED
      BY <1>1, <1>4, <2>1, <2>3, <3>1
  <2> QED
    BY <2>2, <2>3
<1>5. ASSUME NEW t \in Threads, NEW cond \in SUBSET Threads, CanLock(t),
             \A w \in cond : pc[w] = "wait", SignalAndLeave(t, cond)
      PROVE  Subscribers' = Subscribers \ {t}
  BY <1>5 DEF SignalAndLeave, CanLock, Subscribers, TypeOK
<1>6. ASSUME NEW t \in Threads, Write(t)
      PROVE  m_subscribers' = Cardinality(Subscribers')
  <2>1. Subscribers' = Subscribers \ {t}
    BY <1>5, <1>6 DEF Write, ReadCond
  <2> QED
    BY <1>4, <1>6, <2>1 DEF Write, Leave
<1>7. ASSUME NEW t \in Threads, Read(t)
      PROVE  m_subscribers' = Cardinality(Subscribers')
  <2>1. Subscribers' = Subscribers \ {t}
    BY <1>5, <1>7 DEF Read, WriteCond
  <2> QED
    BY <1>4, <1>7, <2>1 DEF Read, Leave
<1>8. ASSUME NEW t \in Threads, FindClosed(t) \/ GiveUp(t)
      PROVE  m_subscribers' = Cardinality(Subscribers')
  <2>1. Subscribers' = Subscribers \ {t}
    BY <1>8 DEF FindClosed, GiveUp, Subscribers, TypeOK
  <2> QED
    BY <1>4, <1>8, <2>1 DEF FindClosed, GiveUp, Leave
<1>9. ASSUME NEW t \in Threads, Wait(t)
      PROVE  m_subscribers' = Cardinality(Subscribers')
  <2>1. Subscribers' = Subscribers \cup {t}
    BY <1>9 DEF Wait, Subscribers, TypeOK
  <2>2. t \in Subscribers <=> Subscribed(t)
    BY <1>9 DEF Wait, Subscribers, Subscribed, CanLock
  <2>3. CASE t \in Subscribers
    <3>1. Subscribers' = Subscribers
      BY <2>1, <2>3
    <3> QED
      BY <1>1, <1>9, <2>2, <2>3, <3>1 DEF Wait
  <2>4. CASE t \notin Subscribers
    BY <1>1, <1>9, <2>1, <2>2, <2>4, FS_AddElement DEF Wait
  <2> QED
    BY <2>3, <2>4
<1>10. ASSUME NEW t \in Threads, Close(t)
       PROVE  m_subscribers' = Cardinality(Subscribers')
  <2>1. Subscribers' = Subscribers \ {t}
    BY <1>10 DEF Close, Subscribers, TypeOK, Waiters, ReadCond, WriteCond
  <2> QED
    BY <1>4, <1>10, <2>1 DEF Close, Leave
<1>11. ASSUME NEW t \in Threads,
              \/ \E c \in Calls : Enter(t, c)
              \/ SpuriousWakeup(t) \/ Unlock(t) \/ Drained(t) \/ Return(t)
       PROVE  Subscribers' = Subscribers /\ m_subscribers' = m_subscribers
  BY <1>11 DEF Enter, SpuriousWakeup, Unlock, Drained, Return, Subscribers,
               TypeOK
<1>12. CASE UNCHANGED vars
  BY <1>3, <1>12 DEF vars, Subscribers
<1> QED
  BY <1>3, <1>6, <1>7, <1>8, <1>9, <1>10, <1>11, <1>12 DEF Next, Step

LEMMA NextNoWaitAfterClose ==
    TypeOK /\ NoWaitAfterClose /\ [Next]_vars => NoWaitAfterClose'
<1> SUFFICES ASSUME TypeOK, NoWaitAfterClose, [Next]_vars
             PROVE  NoWaitAfterClose'
  OBVIOUS
<1> USE DEF TypeOK, NoWaitAfterClose
<1>1. ASSUME NEW t \in Threads, NEW c \in Calls, Enter(t, c)
      PROVE  NoWaitAfterClose'
  BY <1>1 DEF Enter
<1>2. ASSUME NEW t \in Threads,
             FindClosed(t) \/ GiveUp(t) \/ Wait(t) \/ SpuriousWakeup(t)
      PROVE  NoWaitAfterClose'
  BY <1>2 DEF FindClosed, GiveUp, Wait, Stuck, SpuriousWakeup
<1>3. ASSUME NEW t \in Threads, Write(t) \/ Read(t)
      PROVE  NoWaitAfterClose'
  BY <1>3 DEF Write, Read, SignalAndLeave
<1>4. ASSUME NEW t \in Threads, Close(t)
      PROVE  NoWaitAfterClose'
  BY <1>4 DEF Close, Waiters, ReadCond, WriteCond
<1>5. ASSUME NEW t \in Threads, Unlock(t) \/ Drained(t) \/ Return(t)
      PROVE  NoWaitAfterClose'
  BY <1>5 DEF Unlock, Drained, Return
<1>6. CASE UNCHANGED vars
  BY <1>6 DEF vars
<1> QED
  BY <1>1, <1>2, <1>3, <1>4, <1>5, <1>6 DEF Next, Step

LEMMA NextResultsInOrder ==
    TypeOK /\ ResultsInOrder /\ [Next]_vars => ResultsInOrder'
<1> SUFFICES ASSUME TypeOK, ResultsInOrder, [Next]_vars
             PROVE  ResultsInOrder'
  OBVIOUS
<1>0. Failure.ok = FALSE
  BY DEF Failure, Result
<1> USE DEF TypeOK, ResultsInOrder
<1>1. ASSUME NEW t \in Threads, NEW c \in Calls, Enter(t, c)
      PROVE  ResultsInOrder'
  BY <1>0, <1>1 DEF Enter
<1>2. ASSUME NEW t \in Threads, FindClosed(t) \/ GiveUp(t)
      PROVE  ResultsInOrder'
  BY <1>0, <1>2 DEF FindClosed, GiveUp, Leave
<1>3. ASSUME NEW t \in Threads, Wait(t) \/ SpuriousWakeup(t)
      PROVE  ResultsInOrder'
  BY <1>3 DEF Wait, CanLock, SpuriousWakeup
<1>4. ASSUME NEW t \in Threads, Write(t) \/ Read(t)
      PROVE  ResultsInOrder'
  <2>1. CASE Write(t)
    BY <2>1 DEF Write, SignalAndLeave, Leave, ReadCond, WriteCond
  <2>2. CASE Read(t)
    BY <2>2 DEF Read, SignalAndLeave, Leave, ReadCond, WriteCond
  <2> QED
    BY <1>4, <2>1, <2>2
<1>5. ASSUME NEW t \in Threads, Close(t)
      PROVE  ResultsInOrder'
  BY <1>5 DEF Close, Leave, Waiters, ReadCond, WriteCond
<1>6. ASSUME NEW t \in Threads, Unlock(t) \/ Drained(t) \/ Return(t)
      PROVE  ResultsInOrder'
  BY <1>0, <1>6 DEF Unlock, Drained, Return
<1>7. CASE UNCHANGED vars
  BY <1>7 DEF vars
<1> QED
  BY <1>1, <1>2, <1>3, <1>4, <1>5, <1>6, <1>7 DEF Next, Step

(* No step leads a thread into Cond::wait or out of it once the channel is *)
(* closed and every waiter has gone.                                       *)
LEMMA NextCloseDrains ==
    IndInv /\ [Next]_vars => CloseDrains'
<1> SUFFICES ASSUME IndInv, [Next]_vars,
                    NEW s \in Threads, pc'[s] = "return",
                    call'[s].op = "close", res'[s].ok
             PROVE  \A u \in Threads : pc'[u] \notin {"wait", "relock"}
  BY DEF CloseDrains
<1> DEFINE Clear == \A u \in Threads : pc[u] \notin {"wait", "relock"}
<1>0. Failure.ok = FALSE
  BY DEF Failure, Result
<1> USE DEF IndInv, TypeOK
<1>1. ASSUME NEW t \in Threads, NEW c \in Calls, Enter(t, c)
      PROVE  Clear /\ \A u \in Threads : pc'[u] \notin {"wait", "relock"}
  <2>1. s # t
    BY <1>0, <1>1 DEF Enter, ResultsInOrder
  <2>2. pc[s] = "return" /\ call[s].op = "close" /\ res[s].ok
    BY <1>1, <2>1 DEF Enter
  <2>3. Clear
    BY <2>2 DEF CloseDrains
  <2> QED
    BY <1>1, <2>3 DEF Enter
<1>2. ASSUME NEW t \in Threads,
             \/ FindClosed(t) \/ GiveUp(t) \/ Write(t) \/ Read(t)
             \/ Wait(t) \/ SpuriousWakeup(t) \/ Close(t)
      PROVE  \A u \in Threads : pc'[u] \notin {"wait", "relock"}
  <2>1. /\ pc[s] = "return"
        /\ call[s].op = "close"
        /\ s # t
    BY <1>2 DEF FindClosed, GiveUp, Write, Read, Wait, SpuriousWakeup, Close,
                SignalAndLeave, ReadCond, WriteCond, Waiters
  <2>2. res[s].ok
    BY <1>2, <2>1 DEF FindClosed, GiveUp, Write, Read, Wait, SpuriousWakeup,
                      Close, Leave
  <2>3. Clear /\ m_closed
    BY <2>1, <2>2 DEF CloseDrains, ResultsInOrder
  <2>4. FindClosed(t)
    BY <1>2, <2>3 DEF GiveUp, Write, Read, Wait, SpuriousWakeup, Close
  <2> QED
    BY <2>3, <2>4 DEF FindClosed
<1>3. ASSUME NEW t \in Threads, Unlock(t)
      PROVE  \A u \in Threads : pc'[u] \notin {"wait", "relock"}
  <2>1. pc[s] = "return" /\ call[s].op = "close" /\ res[s].ok
    BY <1>3 DEF Unlock
  <2> QED
    BY <1>3, <2>1 DEF Unlock, CloseDrains
<1>4. ASSUME NEW t \in Threads, Drained(t)
      PROVE  \A u \in Threads : pc'[u] \notin {"wait", "relock"}
  <2>1. IsFiniteSet(Subscribers) /\ Cardinality(Subscribers) = 0
    BY <1>4, ChannelAssumption, FS_Subset
       DEF Drained, SubscriberCount, Subscribers
  <2>2. Subscribers = {}
    BY <2>1, FS_EmptySet
  <2> QED
    BY <1>4, <2>2 DEF Drained, Subscribers
<1>5. ASSUME NEW t \in Threads, Return(t)
      PROVE  \A u \in Threads : pc'[u] \notin {"wait", "relock"}
  <2>1. pc[s] = "return" /\ call[s].op = "close" /\ res[s].ok
    BY <1>5 DEF Return
  <2> QED
    BY <1>5, <2>1 DEF Return, CloseDrains
<1>6. CASE UNCHANGED vars
  BY <1>6 DEF vars, CloseDrains
<1> QED
  BY <1>1, <1>2, <1>3, <1>4, <1>5, <1>6 DEF Next, Step

LEMMA InitIndInv == Init => IndInv
<1> SUFFICES ASSUME Init PROVE IndInv
  OBVIOUS
<1>1. TypeOK
  BY InitTypeOK
<1>2. SubscriberCount
  <2>1. {t \in Threads : pc[t] \in {"wait", "relock"}} = {}
    BY DEF Init
  <2> QED
    BY <2>1, FS_EmptySet DEF Init, SubscriberCount
<1>3. LockHolder /\ NoWaitAfterClose /\ CloseDrains
  BY ChannelAssumption DEF Init, LockHolder, NoWaitAfterClose, CloseDrains
<1>4. ResultsInOrder
  BY DEF Init, ResultsInOrder, NoCall
<1>5. RingConsistent
  BY DEF Init, RingConsistent, Advance
<1> QED
  BY <1>1, <1>2, <1>3, <1>4, <1>5 DEF IndInv

LEMMA NextIndInv == IndInv /\ [Next]_vars => IndInv'
  BY NextTypeOK, NextLockHolder, NextRingConsistent, NextSubscriberCount,
     NextNoWaitAfterClose, NextResultsInOrder, NextCloseDrains DEF IndInv

(* The inductive invariant, and with it the consistency of the ring, the   *)
(* meaning of m_subscribers and what close() waits for, hold in every      *)
(* reachable state.                                                        *)
THEOREM ChannelIndInv == Spec => []IndInv
  BY InitIndInv, NextIndInv, PTL DEF Spec

(* m_subscribers counts exactly the calls inside Cond::wait.               *)
THEOREM ChannelSubscriberCount == Spec => []SubscriberCount
<1>1. IndInv => SubscriberCount
  BY DEF IndInv
<1> QED
  BY <1>1, ChannelIndInv, PTL

(* close() does not return before every blocked reader and writer has left *)
(* Cond::wait for good.                                                    *)
THEOREM ChannelCloseDrains == Spec => []CloseDrains
<1>1. IndInv => CloseDrains
  BY DEF IndInv
<1> QED
  BY <1>1, ChannelIndInv, PTL

(* The two indexes and the size of the ring never drift apart.             *)
THEOREM ChannelRingConsistent == Spec => []RingConsistent
<1>1. IndInv => RingConsistent
  BY DEF IndInv
<1> QED
  BY <1>1, ChannelIndInv, PTL

-----------------------------------------------------------------------------
(* No lost wakeup, when the channel is used through read() and write()     *)
(* only.                                                                   *)

SingleElements == /\ \A b \in WriteBatches : Len(b) = 1
                  /\ ReadSizes \subseteq {1}

LEMMA UnitCalls ==
    ASSUME SingleElements, TypeOK, NEW t \in Threads
    PROVE  /\ call[t].op = "writeN" => Len(call[t].datas) = 1
           /\ call[t].op = "readN" => call[t].size = 1
  BY CallFields DEF SingleElements, TypeOK

LEMMA WokenFinite ==
    \A op : IsFiniteSet(Woken(op)) /\ Cardinality(Woken(op)) \in Nat
  BY ChannelAssumption, FS_Subset, FS_CardinalityType DEF Woken

(* How the woken threads change, in the three ways they do.                *)
LEMMA WokenLess ==
    ASSUME NEW op, NEW t, Woken(op)' = Woken(op) \ {t}
    PROVE  /\ Cardinality(Woken(op)') \in Nat
           /\ Cardinality(Woken(op)) - 1 <= Cardinality(Woken(op)')
<1>1. CASE t \in Woken(op)
  <2>1. /\ IsFiniteSet(Woken(op) \ {t})
        /\ Cardinality(Woken(op) \ {t}) = Cardinality(Woken(op)) - 1
    BY <1>1, WokenFinite, FS_RemoveElement
  <2>2. Cardinality(Woken(op) \ {t}) \in Nat
    BY <2>1, FS_CardinalityType
  <2> QED
    BY <2>1, <2>2, WokenFinite
<1>2. CASE t \notin Woken(op)
  <2>1. Woken(op)' = Woken(op)
    BY <1>2
  <2> QED
    BY <2>1, WokenFinite
<1> QED
  BY <1>1, <1>2

LEMMA WokenMore ==
    ASSUME NEW op, NEW w, w \notin Woken(op), NEW S,
           S = Woken(op) \cup {w}
    PROVE  Cardinality(S) = Cardinality(Woken(op)) + 1
  BY WokenFinite, FS_AddElement

LEMMA NextNoLostWakeup ==
    ASSUME SingleElements
    PROVE  IndInv /\ NoLostWakeup /\ [Next]_vars => NoLostWakeup'
<1> SUFFICES ASSUME IndInv, NoLostWakeup, [Next]_vars
             PROVE  NoLostWakeup'
  OBVIOUS
<1> USE ChannelAssumption, WokenFinite DEF IndInv, TypeOK
<1>1. ASSUME NEW t \in Threads, Write(t)
      PROVE  NoLostWakeup'
  <2>0. Len(call[t].datas) = 1
    BY <1>1, UnitCalls DEF Write
  <2>1. /\ m_size' = m_size + 1
        /\ m_size < Cap
    BY <1>1, <2>0 DEF Write, Push, Fits
  <2>2. /\ WriteCond' = WriteCond
        /\ Woken("writeN")' = Woken("writeN") \ {t}
    BY <1>1 DEF Write, CanLock, SignalAndLeave, WriteCond, ReadCond, Woken
  <2>3. WriteCond' # {} => Cap - m_size' <= Cardinality(Woken("writeN")')
    <3>1. /\ Cardinality(Woken("writeN")') \in Nat
          /\ Cardinality(Woken("writeN")) - 1 <= Cardinality(Woken("writeN")')
      BY <2>2, WokenLess
    <3> QED
      BY <2>1, <2>2, <3>1 DEF NoLostWakeup
  <2>4. CASE ReadCond = {}
    <3>1. ReadCond' = {}
      BY <1>1, <2>4 DEF Write, CanLock, SignalAndLeave, ReadCond
    <3> QED
      BY <2>3, <3>1 DEF NoLostWakeup
  <2>5. CASE ReadCond # {}
    <3>1. PICK w \in ReadCond :
              pc' = [pc EXCEPT ![t] = "unlock", ![w] = "relock"]
      BY <1>1, <2>5 DEF Write, SignalAndLeave
    <3>2. w \notin Woken("readN") /\ w # t
      BY <1>1, <3>1 DEF Write, CanLock, ReadCond, Woken
    <3>3. Woken("readN")' = Woken("readN") \cup {w}
      BY <1>1, <3>1, <3>2 DEF Write, CanLock, ReadCond, Woken
    <3>4. Cardinality(Woken("readN")') = Cardinality(Woken("readN")) + 1
      BY <3>2, <3>3, WokenMore
    <3> QED
      BY <2>1, <2>3, <2>5, <3>4 DEF NoLostWakeup
  <2> QED
    BY <2>4, <2>5
<1>2. ASSUME NEW t \in Threads, Read(t)
      PROVE  NoLostWakeup'
  <2>1. /\ m_size' = m_size - 1
        /\ m_size > 0
    BY <1>2, UnitCalls DEF Read, Pop, Available
  <2>2. /\ ReadCond' = ReadCond
        /\ Woken("readN")' = Woken("readN") \ {t}
    BY <1>2 DEF Read, CanLock, SignalAndLeave, WriteCond, ReadCond, Woken
  <2>3. ReadCond' # {} => m_size' <= Cardinality(Woken("readN")')
    <3>1. /\ Cardinality(Woken("readN")') \in Nat
          /\ Cardinality(Woken("readN")) - 1 <= Cardinality(Woken("readN")')
      BY <2>2, WokenLess
    <3> QED
      BY <2>1, <2>2, <3>1 DEF NoLostWakeup
  <2>4. CASE WriteCond = {}
    <3>1. WriteCond' = {}
      BY <1>2, <2>4 DEF Read, CanLock, SignalAndLeave, WriteCond
    <3> QED
      BY <2>3, <3>1 DEF NoLostWakeup
  <2>5. CASE WriteCond # {}
    <3>1. PICK w \in WriteCond :
              pc' = [pc EXCEPT ![t] = "unlock", ![w] = "relock"]
      BY <1>2, <2>5 DEF Read, SignalAndLeave
    <3>2. w \notin Woken("writeN") /\ w # t
      BY <1>2, <3>1 DEF Read, CanLock, WriteCond, Woken
    <3>3. Woken("writeN")' = Woken("writeN") \cup {w}
      BY <1>2, <3>1, <3>2 DEF Read, CanLock, WriteCond, Woken
    <3>4. Cardinality(Woken("writeN")') = Cardinality(Woken("writeN")) + 1
      BY <3>2, <3>3, WokenMore
    <3> QED
      BY <2>1, <2>3, <2>5, <3>4 DEF NoLostWakeup
  <2> QED
    BY <2>4, <2>5
<1>3. ASSUME NEW t \in Threads, GiveUp(t) \/ Wait(t)
      PROVE  NoLostWakeup'
  <2>1. m_size' = m_size /\ Stuck(call[t])
    BY <1>3 DEF GiveUp, Wait, ring
  <2>2. CASE call[t].op = "readN"
    <3>0. call[t].size = 1
      BY <2>2, UnitCalls
    <3>1. m_size = 0
      BY <2>1, <2>2, <3>0 DEF Stuck, Available
    <3>2. /\ WriteCond' = WriteCond
          /\ Woken("writeN")' = Woken("writeN")
      BY <1>3, <2>2 DEF GiveUp, Wait, WriteCond, Woken
    <3>3. Cardinality(Woken("readN")') \in Nat
      BY ChannelAssumption, FS_Subset, FS_CardinalityType DEF Woken
    <3> QED
      BY <2>1, <3>1, <3>2, <3>3 DEF NoLostWakeup
  <2>3. CASE call[t].op = "writeN"
    <3>0. Len(call[t].datas) = 1
      BY <2>3, UnitCalls
    <3>1. m_size = Cap
      BY <2>1, <2>3, <3>0 DEF Stuck, Fits
    <3>2. /\ ReadCond' = ReadCond
          /\ Woken("readN")' = Woken("readN")
      BY <1>3, <2>3 DEF GiveUp, Wait, ReadCond, Woken
    <3>3. Cardinality(Woken("writeN")') \in Nat
      BY ChannelAssumption, FS_Subset, FS_CardinalityType DEF Woken
    <3> QED
      BY <2>1, <3>1, <3>2, <3>3 DEF NoLostWakeup
  <2> QED
    BY <2>1, <2>2, <2>3 DEF Stuck
<1>4. ASSUME NEW t \in Threads, SpuriousWakeup(t)
      PROVE  NoLostWakeup'
  <2>1. /\ m_size' = m_size
        /\ ReadCond' \subseteq ReadCond
        /\ WriteCond' \subseteq WriteCond
    BY <1>4 DEF SpuriousWakeup, ring, ReadCond, WriteCond
  <2>2. \A op : \/ Woken(op)' = Woken(op)
                \/ t \notin Woken(op) /\ Woken(op)' = Woken(op) \cup {t}
    BY <1>4 DEF SpuriousWakeup, Woken
  <2>3. \A op : Cardinality(Woken(op)) <= Cardinality(Woken(op)')
    <3> TAKE op
    <3>1. CASE Woken(op)' = Woken(op)
      BY <3>1
    <3>2. CASE t \notin Woken(op) /\ Woken(op)' = Woken(op) \cup {t}
      <4>1. Cardinality(Woken(op)') = Cardinality(Woken(op)) + 1
        BY <3>2, WokenMore
      <4> QED
        BY <4>1
    <3> QED
      BY <2>2, <3>1, <3>2
  <2>4. Cardinality(Woken("readN")') \in Int /\ Cardinality(Woken("writeN")') \in Int
    BY FS_Subset, FS_CardinalityType DEF Woken
  <2> QED
    BY <2>1, <2>3, <2>4 DEF NoLostWakeup
<1>5. ASSUME NEW t \in Threads, FindClosed(t) \/ Close(t)
      PROVE  NoLostWakeup'
  <2>1. \A u \in Threads : pc'[u] # "wait"
    BY <1>5, ZenonT(30) DEF FindClosed, Close, NoWaitAfterClose, ReadCond, WriteCond, Waiters
  <2>2. ReadCond' = {} /\ WriteCond' = {}
    BY <2>1 DEF ReadCond, WriteCond
  <2> QED
    BY <2>2 DEF NoLostWakeup
<1>6. ASSUME NEW t \in Threads,
             \/ \E c \in Calls : Enter(t, c)
             \/ Unlock(t) \/ Drained(t) \/ Return(t)
      PROVE  /\ m_size' = m_size
             /\ ReadCond' = ReadCond
             /\ WriteCond' = WriteCond
             /\ \A op : Woken(op)' = Woken(op)
  BY <1>6 DEF Enter, Unlock, Drained, Return, ring, ReadCond, WriteCond, Woken
<1>7. CASE UNCHANGED vars
  BY <1>7 DEF vars, NoLostWakeup, ReadCond, WriteCond, Woken
<1> QED
  BY <1>1, <1>2, <1>3, <1>4, <1>5, <1>6, <1>7 DEF Next, Step, NoLostWakeup

(* Used through read() and write() alone, the channel never leaves a       *)
(* reader asleep on data, or a writer asleep on free slots, that no woken  *)
(* thread is about to take.                                                *)
THEOREM ChannelNoLostWakeup ==
    ASSUME SingleElements
    PROVE  Spec => []NoLostWakeup
<1>1. Init => NoLostWakeup
  BY DEF Init, NoLostWakeup, ReadCond, WriteCond
<1>2. IndInv /\ NoLostWakeup /\ [Next]_vars => NoLostWakeup'
  BY NextNoLostWakeup
<1> QED
  BY <1>1, <1>2, ChannelIndInv, PTL DEF Spec

-----------------------------------------------------------------------------
(* Refinement: the ring implements the queue of FifoChannel.               *)

LEMMA ContentsType ==
    ASSUME TypeOK
    PROVE  /\ Contents \in Seq(Data \cup {Default})
           /\ Len(Contents) = m_size
           /\ DOMAIN Contents = 1..m_size
           /\ \A i \in 1..m_size : Contents[i] = m_array[Advance(m_front, i)]
<1>1. m_size \in 0..Cap
  BY DEF TypeOK
<1> QED
  BY <1>1, FrontType DEF Contents, Front

(* The slots that the copy loop of writeN overwrites are the free ones.    *)
LEMMA DistanceOfUnread ==
    ASSUME TypeOK, RingConsistent, NEW i \in 1..m_size
    PROVE  Distance(Advance(m_front, i)) = (Cap + i) - m_size
<1>1. i \in 1..Cap /\ m_size \in 1..Cap /\ i <= m_size
  BY ChannelAssumption DEF TypeOK
<1>2. Advance(m_front, i) =
        IF m_front + i < Cap THEN m_front + i ELSE (m_front + i) - Cap
  BY <1>1, AdvanceCases DEF TypeOK
<1>3. m_back = IF m_front + m_size < Cap THEN m_front + m_size
                                         ELSE (m_front + m_size) - Cap
  BY <1>1, AdvanceCases DEF TypeOK, RingConsistent
<1> DEFINE x == Advance(m_front, i) + Cap - m_back - 1
<1>4. \/ x = (Cap + i) - (m_size + 1) /\ x \in 0..(Cap - 1)
      \/ /\ x = (Cap + Cap + i) - (m_size + 1)
         /\ x \in Cap..(2 * Cap - 1)
  BY <1>1, <1>2, <1>3, ChannelAssumption DEF TypeOK, Slots
<1>5. x % Cap = (Cap + i) - (m_size + 1)
  <2>1. CASE x \in 0..(Cap - 1) /\ x = (Cap + i) - (m_size + 1)
    BY <2>1, ModLow
  <2>2. CASE x \in Cap..(2 * Cap - 1) /\ x = (Cap + Cap + i) - (m_size + 1)
    <3>1. x % Cap = x - Cap
      BY <2>2, ModHigh
    <3> QED
      BY <1>1, <2>2, <3>1, ChannelAssumption
  <2> QED
    BY <1>4, <2>1, <2>2
<1> QED
  BY <1>1, <1>5, ChannelAssumption DEF Distance

LEMMA DistanceOfFree ==
    ASSUME TypeOK, NEW k \in 1..Cap
    PROVE  Distance(Advance(m_back, k)) = k
<1>1. Advance(m_back, k) =
        IF m_back + k < Cap THEN m_back + k ELSE (m_back + k) - Cap
  BY AdvanceCases DEF TypeOK
<1> DEFINE x == Advance(m_back, k) + Cap - m_back - 1
<1>2. \/ x = k - 1 /\ x \in 0..(Cap - 1)
      \/ x = (k - 1) + Cap /\ x \in Cap..(2 * Cap - 1)
  BY <1>1, ChannelAssumption DEF TypeOK, Slots
<1>3. x % Cap = k - 1
  <2>1. CASE x = k - 1 /\ x \in 0..(Cap - 1)
    BY <2>1, ModLow
  <2>2. CASE x = (k - 1) + Cap /\ x \in Cap..(2 * Cap - 1)
    <3>1. x % Cap = x - Cap
      BY <2>2, ModHigh
    <3> QED
      BY <2>2, <3>1, ChannelAssumption
  <2> QED
    BY <1>2, <2>1, <2>2
<1> QED
  BY <1>3, ChannelAssumption DEF Distance

LEMMA SeqAsFunction ==
    ASSUME NEW S, NEW s \in Seq(S)
    PROVE  s = [i \in 1..Len(s) |-> s[i]]
  OBVIOUS

(* writeN appends its batch to the contents.                               *)
LEMMA PushAppends ==
    ASSUME TypeOK, TypeOK', RingConsistent, NEW datas \in Seq(Data),
           m_size + Len(datas) <= Cap, m_front' = m_front, Push(datas)
    PROVE  Contents' = Contents \o datas
<1> DEFINE n == Len(datas)
<1>1. n \in Nat /\ m_size \in Nat /\ m_size' = m_size + n
  BY DEF Push, TypeOK
<1>2. /\ Len(Contents) = m_size
      /\ Contents \in Seq(Data \cup {Default})
      /\ \A i \in 1..m_size : Contents[i] = m_array[Advance(m_front, i)]
  BY ContentsType
<1>3. Contents' = [i \in 1..(m_size + n) |-> Filled(datas)[Advance(m_front, i)]]
  BY <1>1 DEF Contents, Front, Push
<1>4. ASSUME NEW i \in 1..(m_size + n)
      PROVE  Advance(m_front, i) \in Slots
  <2>1. i \in Int /\ i # 0 /\ m_front \in Int
    BY <1>1, ChannelAssumption DEF TypeOK, Slots
  <2> QED
    BY <2>1, ModRange DEF Advance
<1>5. ASSUME NEW i \in 1..m_size
      PROVE  Filled(datas)[Advance(m_front, i)] = Contents[i]
  <2>1. Distance(Advance(m_front, i)) = (Cap + i) - m_size
    BY DistanceOfUnread
  <2>2. ~(Distance(Advance(m_front, i)) <= n)
    BY <1>1, <2>1, ChannelAssumption
  <2>3. Advance(m_front, i) \in Slots
    BY <1>1, <1>4
  <2> QED
    BY <1>2, <2>2, <2>3 DEF Filled
<1>6. ASSUME NEW i \in (m_size + 1)..(m_size + n)
      PROVE  Filled(datas)[Advance(m_front, i)] = datas[i - m_size]
  <2>1. i - m_size \in 1..Cap /\ i - m_size <= n /\ m_size + (i - m_size) = i
    BY <1>1, ChannelAssumption
  <2>2. Advance(m_back, i - m_size) = Advance(m_front, i)
    <3>1. /\ i - m_size \in Nat
          /\ m_size + (i - m_size) <= Cap
          /\ m_front \in Slots \cup {-1}
      BY <1>1, <2>1, ChannelAssumption DEF TypeOK
    <3>2. Advance(Advance(m_front, m_size), i - m_size)
            = Advance(m_front, m_size + (i - m_size))
      BY <1>1, <3>1, AdvanceAdd
    <3> QED
      BY <2>1, <3>2 DEF RingConsistent
  <2>3. Distance(Advance(m_front, i)) = i - m_size
    BY <2>1, <2>2, DistanceOfFree
  <2>4. Advance(m_front, i) \in Slots
    BY <1>1, <1>4
  <2> QED
    BY <2>1, <2>3, <2>4 DEF Filled
<1>7. Contents \o datas =
        [i \in 1..(m_size + n) |-> IF i <= m_size THEN Contents[i]
                                                  ELSE datas[i - m_size]]
  <2>1. /\ datas \in Seq(Data \cup {Default})
        /\ Contents \o datas \in Seq(Data \cup {Default})
    BY <1>2
  <2>2. /\ Len(Contents \o datas) = m_size + n
        /\ \A i \in 1..(m_size + n) :
              (Contents \o datas)[i] = IF i <= m_size THEN Contents[i]
                                                      ELSE datas[i - m_size]
    BY <1>2, <2>1, ConcatProperties
  <2>3. Contents \o datas =
          [i \in 1..Len(Contents \o datas) |-> (Contents \o datas)[i]]
    BY <2>1, SeqAsFunction
  <2> QED
    BY <2>2, <2>3
<1>8. ASSUME NEW i \in 1..(m_size + n)
      PROVE  Filled(datas)[Advance(m_front, i)] =
               IF i <= m_size THEN Contents[i] ELSE datas[i - m_size]
  <2>1. CASE i <= m_size
    <3>1. i \in 1..m_size
      BY <1>1, <2>1
    <3> QED
      BY <2>1, <3>1, <1>5
  <2>2. CASE ~(i <= m_size)
    <3>1. i \in (m_size + 1)..(m_size + n)
      BY <1>1, <2>2
    <3> QED
      BY <2>2, <3>1, <1>6
  <2> QED
    BY <2>1, <2>2
<1> QED
  BY <1>3, <1>7, <1>8

(* readN takes its batch off the front of the contents.                    *)
LEMMA PopTakesFront ==
    ASSUME TypeOK, NEW n \in 0..m_size, m_array' = m_array, Pop(n)
    PROVE  /\ Front(n) = SubSeq(Contents, 1, n)
           /\ Contents' = SubSeq(Contents, n + 1, Len(Contents))
<1>1. n \in Nat /\ m_size \in 0..Cap /\ n <= m_size /\ Cap \in Nat
  BY ChannelAssumption DEF TypeOK
<1>2. /\ Len(Contents) = m_size
      /\ Contents \in Seq(Data \cup {Default})
      /\ \A i \in 1..m_size : Contents[i] = m_array[Advance(m_front, i)]
  BY ContentsType
<1>3. SubSeq(Contents, 1, n) = [i \in 1..n |-> Contents[i]]
  BY <1>1, <1>2
<1>4. SubSeq(Contents, n + 1, Len(Contents)) =
        [i \in 1..(m_size - n) |-> Contents[i + n]]
  BY <1>1, <1>2
<1>5. Contents' = [i \in 1..(m_size - n) |->
                     m_array[Advance(Advance(m_front, n), i)]]
  BY DEF Contents, Front, Pop
<1>6. ASSUME NEW i \in 1..(m_size - n)
      PROVE  m_array[Advance(Advance(m_front, n), i)] = Contents[i + n]
  <2>1. i \in Nat /\ n + i <= Cap /\ i + n \in 1..m_size /\ n + i = i + n
    BY <1>1
  <2>2. Advance(Advance(m_front, n), i) = Advance(m_front, i + n)
    BY <1>1, <2>1, AdvanceAdd DEF TypeOK
  <2> QED
    BY <1>2, <2>1, <2>2
<1>7. ASSUME NEW i \in 1..n
      PROVE  m_array[Advance(m_front, i)] = Contents[i]
  BY <1>1, <1>2
<1> QED
  BY <1>3, <1>4, <1>5, <1>6, <1>7 DEF Front

Phases == [t \in Threads |-> Phase(t)]

(* A step of Channel that moves t through the channel moves only t's phase:*)
(* a waiter that is woken stays in a call that has had no effect.          *)
LEMMA LeavingPhase ==
    ASSUME TypeOK, NEW t \in Threads, NEW cond \in SUBSET Threads,
           \A w \in cond : pc[w] = "wait",
           CanLock(t),
           SignalAndLeave(t, cond)
    PROVE  /\ Phases' = [Phases EXCEPT ![t] = "done"]
           /\ Phases[t] = "called"
<1>1. /\ \A u \in Threads \ {t} : Phase(u)' = Phase(u)
      /\ Phase(t)' = "done"
  BY DEF CanLock, SignalAndLeave, Phase, TypeOK
<1> QED
  BY <1>1 DEF Phases, Phase, CanLock

LEMMA OwnPhase ==
    ASSUME TypeOK, NEW t \in Threads, NEW l, pc' = [pc EXCEPT ![t] = l]
    PROVE  Phases' = [Phases EXCEPT ![t] =
                        IF l = "idle" THEN "idle"
                        ELSE IF l \in {"lock", "wait", "relock"} THEN "called"
                        ELSE "done"]
<1>1. /\ \A u \in Threads \ {t} : Phase(u)' = Phase(u)
      /\ Phase(t)' = IF l = "idle" THEN "idle"
                     ELSE IF l \in {"lock", "wait", "relock"} THEN "called"
                     ELSE "done"
  BY DEF Phase, TypeOK
<1> QED
  BY <1>1 DEF Phases

LEMMA InitRefines == Init => Fifo!Init
<1> SUFFICES ASSUME Init PROVE Fifo!Init
  OBVIOUS
<1>1. Contents = <<>>
  <2>1. Contents = [i \in 1..0 |-> m_array[Advance(m_front, i)]]
    BY DEF Init, Contents, Front
  <2> QED
    BY <2>1
<1>2. [t \in Threads |-> Phase(t)] = [t \in Threads |-> "idle"]
  BY DEF Init, Phase
<1>3. res = [t \in Threads |-> Fifo!Failure]
  BY DEF Init, Failure, Result, Fifo!Failure, Fifo!Result
<1> QED
  BY <1>1, <1>2, <1>3 DEF Init, Fifo!Init

(* The ring is the same before and after: so are the contents.             *)
LEMMA SameContents == UNCHANGED ring => Contents' = Contents
  BY DEF ring, Contents, Front, Advance

LEMMA NextRefines == IndInv /\ IndInv' /\ [Next]_vars => [Fifo!Next]_Fifo!vars
<1> SUFFICES ASSUME IndInv, IndInv', [Next]_vars
             PROVE  Fifo!Next \/ UNCHANGED Fifo!vars
  BY DEF Fifo!vars
<1>0. /\ TypeOK /\ TypeOK' /\ RingConsistent /\ ResultsInOrder
      /\ Phases = [t \in Threads |-> Phase(t)]
      /\ Failure = Fifo!Failure
      /\ \A b, ds : Result(b, ds) = Fifo!Result(b, ds)
      /\ Len(Contents) = m_size
  BY ContentsType DEF IndInv, Phases, Failure, Result, Fifo!Failure, Fifo!Result
<1>1. ASSUME NEW t \in Threads, NEW c \in Calls, Enter(t, c)
      PROVE  Fifo!Next
  <2>1. /\ Contents' = Contents
        /\ Phases[t] = "idle"
        /\ m_closed' = m_closed
    BY <1>1, SameContents DEF Enter, Phases, Phase
  <2>2. CASE m_closed
    <3>1. Phases' = [Phases EXCEPT ![t] = "done"]
      BY <1>0, <1>1, <2>2, OwnPhase DEF Enter
    <3>2. res' = [res EXCEPT ![t] = Fifo!Failure]
      BY <1>0, <1>1 DEF Enter, ResultsInOrder, TypeOK
    <3>3. Fifo!Reject(t, c)
      BY <1>0, <1>1, <2>1, <2>2, <3>1, <3>2 DEF Enter, Phases, Fifo!Reject, Fifo!Done
    <3> QED
      BY <3>3 DEF Fifo!Next
  <2>3. CASE ~m_closed
    <3>1. Phases' = [Phases EXCEPT ![t] = "called"]
      BY <1>0, <1>1, <2>3, OwnPhase DEF Enter
    <3>2. Fifo!Start(t, c)
      BY <1>0, <1>1, <2>1, <2>3, <3>1 DEF Enter, Phases, Fifo!Start
    <3> QED
      BY <3>2 DEF Fifo!Next
  <2> QED
    BY <2>2, <2>3
<1>2. ASSUME NEW t \in Threads, FindClosed(t) \/ GiveUp(t)
      PROVE  Fifo!Next
  <2>1. /\ Contents' = Contents
        /\ Phases' = [Phases EXCEPT ![t] = "done"]
        /\ Phases[t] = "called"
    BY <1>0, <1>2, SameContents, OwnPhase
       DEF FindClosed, GiveUp, CanLock, Phases, Phase
  <2>2. \/ m_closed
        \/ call[t].op # "close" /\ call[t].nonblock /\ ~Fifo!Served(call[t])
    BY <1>0, <1>2 DEF FindClosed, GiveUp, Stuck, Fits, Available, Fifo!Served
  <2>3. Fifo!Fail(t)
    BY <1>0, <1>2, <2>1, <2>2
       DEF FindClosed, GiveUp, Leave, Phases, Fifo!Fail, Fifo!Done
  <2> QED
    BY <2>3 DEF Fifo!Next
<1>3. ASSUME NEW t \in Threads, Write(t)
      PROVE  Fifo!Next
  <2>1. Contents' = Contents \o call[t].datas
    BY <1>0, <1>3, PushAppends, CallFields DEF Write, Fits, TypeOK
  <2>2. /\ Phases' = [Phases EXCEPT ![t] = "done"]
        /\ Phases[t] = "called"
    BY <1>0, <1>3, LeavingPhase DEF Write, ReadCond
  <2>3. Fifo!Write(t)
    BY <1>0, <1>3, <2>1, <2>2
       DEF Write, Fits, Leave, Phases, Fifo!Write, Fifo!Done, Fifo!Served
  <2> QED
    BY <2>3 DEF Fifo!Next
<1>4. ASSUME NEW t \in Threads, Read(t)
      PROVE  Fifo!Next
  <2>1. call[t].size \in 0..m_size
    BY <1>0, <1>4, CallFields DEF Read, Available, TypeOK
  <2>2. /\ Front(call[t].size) = SubSeq(Contents, 1, call[t].size)
        /\ Contents' = SubSeq(Contents, call[t].size + 1, Len(Contents))
    BY <1>0, <1>4, <2>1, PopTakesFront DEF Read
  <2>3. /\ Phases' = [Phases EXCEPT ![t] = "done"]
        /\ Phases[t] = "called"
    BY <1>0, <1>4, LeavingPhase DEF Read, WriteCond
  <2>4. Fifo!Read(t)
    BY <1>0, <1>4, <2>2, <2>3
       DEF Read, Available, Leave, Phases, Fifo!Read, Fifo!Done, Fifo!Served
  <2> QED
    BY <2>4 DEF Fifo!Next
<1>5. ASSUME NEW t \in Threads, Close(t)
      PROVE  Fifo!Next
  <2>1. /\ \A u \in Threads \ {t} : Phase(u)' = Phase(u)
        /\ Phase(t)' = "done"
        /\ Phase(t) = "called"
    BY <1>0, <1>5
       DEF Close, CanLock, Phase, TypeOK, Waiters, ReadCond, WriteCond
  <2>2. /\ Phases' = [Phases EXCEPT ![t] = "done"]
        /\ Phases[t] = "called"
        /\ Contents' = Contents
    BY <1>5, <2>1, SameContents DEF Phases, Close
  <2>3. Fifo!Close(t)
    BY <1>0, <1>5, <2>2 DEF Close, Leave, Phases, Fifo!Close, Fifo!Done
  <2> QED
    BY <2>3 DEF Fifo!Next
<1>6. ASSUME NEW t \in Threads, Return(t)
      PROVE  Fifo!Next
  <2>1. /\ Contents' = Contents
        /\ Phases' = [Phases EXCEPT ![t] = "idle"]
        /\ Phases[t] = "done"
    BY <1>0, <1>6, SameContents, OwnPhase DEF Return, Phases, Phase
  <2>2. Fifo!Finish(t)
    BY <1>0, <1>6, <2>1 DEF Return, Phases, Fifo!Finish
  <2> QED
    BY <2>2 DEF Fifo!Next
<1>7. ASSUME NEW t \in Threads,
             Wait(t) \/ SpuriousWakeup(t) \/ Unlock(t) \/ Drained(t)
      PROVE  UNCHANGED Fifo!vars
  <2>1. /\ Contents' = Contents
        /\ UNCHANGED <<m_closed, call, res>>
    BY <1>7, SameContents DEF Wait, SpuriousWakeup, Unlock, Drained
  <2>2. \A u \in Threads : Phase(u)' = Phase(u)
    BY <1>0, <1>7
       DEF Wait, SpuriousWakeup, Unlock, Drained, CanLock, Phase, TypeOK
  <2> QED
    BY <2>1, <2>2 DEF Fifo!vars
<1>8. CASE UNCHANGED vars
  <2>1. Contents' = Contents
    BY <1>8, SameContents DEF vars, ring
  <2> QED
    BY <1>8, <2>1 DEF vars, Fifo!vars, Phase
<1> QED
  BY <1>1, <1>2, <1>3, <1>4, <1>5, <1>6, <1>7, <1>8 DEF Next, Step

(* Channel implements FifoChannel: whatever the threads do, their calls    *)
(* behave as calls on one closable FIFO queue of capacity Cap, each        *)
(* taking effect atomically.                                               *)
THEOREM ChannelImplementsFifo == Spec => ImplementsFifo
<1>1. Init => Fifo!Init
  BY InitRefines
<1>2. IndInv /\ IndInv' /\ [Next]_vars => [Fifo!Next]_Fifo!vars
  BY NextRefines
<1> QED
  BY <1>1, <1>2, ChannelIndInv, PTL DEF Spec, ImplementsFifo, Fifo!Spec
=============================================================================
