----------------------------- MODULE BricksProofs -----------------------------
(***************************************************************************)
(* Proofs about the small components as MCBricks composes them.            *)
(***************************************************************************)
EXTENDS MCBricks, SeqLemmas

(* The cardinality that the instances use is the one of FiniteSets.        *)
LEMMA SameCardinality ==
    \A S : /\ One!Cardinality(S) = Cardinality(S) /\ Ptr!Cardinality(S) = Cardinality(S)
           /\ Log!Cardinality(S) = Cardinality(S)
  BY DEF One!Cardinality, Ptr!Cardinality, Log!Cardinality, Cardinality

-----------------------------------------------------------------------------
(* Once.                                                                   *)

Locations == {"outside", "lock", "test", "begin", "end", "done", "unlock", "returned"}

OnceTypes ==
    /\ m_done \in BOOLEAN
    /\ at \in [Callers -> Locations]

(* Who is between the lock and the unlock has the lock.                    *)
OnceLocked ==
    \A c \in Callers :
        at[c] \in {"test", "begin", "end", "done", "unlock"} => onceLock = c

(* What has been executed, from where the callers are.                     *)
OncePhase ==
    /\ m_done => \E d \in Callers : began = {d} /\ ended = {d}
    /\ \A c \in Callers :
          /\ at[c] = "begin" => ~m_done
          /\ at[c] = "end" => ~m_done /\ began = {c} /\ ended = {}
          /\ at[c] = "done" => ~m_done /\ began = {c} /\ ended = {c}
          /\ at[c] \in {"unlock", "returned"} => m_done
    /\ ~m_done /\ (\A c \in Callers : at[c] \notin {"end", "done"})
          => began = {} /\ ended = {}

OnceInv == OnceTypes /\ OnceLocked /\ OncePhase

LEMMA OnceInit == One!Init => OnceInv
  BY DEF One!Init, OnceInv, OnceTypes, OnceLocked, OncePhase, Locations

LEMMA OnceNext == OnceInv /\ [One!Next]_oneVars => OnceInv'
<1> SUFFICES ASSUME OnceInv, [One!Next]_oneVars PROVE OnceInv'
  OBVIOUS
<1> USE DEF OnceInv
<1>1. CASE UNCHANGED oneVars
  BY <1>1 DEF oneVars, OnceTypes, OnceLocked, OncePhase
<1>2. ASSUME NEW c \in Callers,
             \/ One!Enter(c) \/ One!Lock(c) \/ One!Test(c) \/ One!Begin(c)
             \/ One!End(c) \/ One!Done(c) \/ One!Unlock(c) \/ One!Return(c)
      PROVE  OnceInv'
  <2> USE DEF One!Goto, OnceTypes, Locations
  <2>1. CASE One!Enter(c)
    BY <2>1 DEF One!Enter, OnceLocked, OncePhase
  <2>2. CASE One!Lock(c)
    BY <2>2, BricksAssumption DEF One!Lock, OnceLocked, OncePhase
  <2>3. CASE One!Test(c)
    BY <2>3 DEF One!Test, One!Again, OnceLocked, OncePhase
  <2>4. CASE One!Begin(c)
    BY <2>4 DEF One!Begin, OnceLocked, OncePhase
  <2>5. CASE One!End(c)
    BY <2>5 DEF One!End, OnceLocked, OncePhase
  <2>6. CASE One!Done(c)
    BY <2>6 DEF One!Done, OnceLocked, OncePhase
  <2>7. CASE One!Unlock(c)
    BY <2>7 DEF One!Unlock, OnceLocked, OncePhase
  <2>8. CASE One!Return(c)
    BY <2>8 DEF One!Return, OnceLocked, OncePhase
  <2> QED
    BY <1>2, <2>1, <2>2, <2>3, <2>4, <2>5, <2>6, <2>7, <2>8
<1> QED
  BY <1>1, <1>2 DEF One!Next

-----------------------------------------------------------------------------
(* SharedPtr.                                                              *)

PtrTypes ==
    /\ m_ptr \in [Instances -> Objects \cup {Nothing, "unborn"}]
    /\ count \in [Objects -> Int]
    /\ deleted \in [Objects -> {-1, 0, 1}]
    /\ call \in [Users -> PtrCalls \cup {Nothing}]

(* The instance a call changes is in the hands of that call alone.         *)
PtrAlone ==
    \A u, v \in Ptr!Calling :
        u # v => call[u].this # call[v].this /\ call[u].this # call[v].other

(* What each call has found or made by the time it is where it is.         *)
PtrProgress ==
    \A u \in Ptr!Calling :
        LET c == call[u] IN
        /\ c.op = "copy" => c.this # c.other /\ m_ptr[c.other] # "unborn"
        /\ c.at = "release" => m_ptr[c.this] # "unborn"
        /\ c.at = "count" =>
              /\ c.op = "copy"
              /\ m_ptr[c.this] \in Objects
              /\ m_ptr[c.other] = m_ptr[c.this]
        /\ c.at = "delete" =>
              /\ m_ptr[c.this] \in Objects
              /\ deleted[m_ptr[c.this]] = 0
              /\ count[m_ptr[c.this]] = 0

(* One call deletes an object.                                             *)
PtrOneDeleter ==
    \A u, v \in Ptr!Calling :
        call[u].at = "delete" /\ call[v].at = "delete"
            /\ m_ptr[call[u].this] = m_ptr[call[v].this] => u = v

Counted(o) == {i \in Instances : m_ptr[i] = o /\ ~Ptr!Uncounted(i)}

PtrCounts ==
    /\ \A i \in Instances : m_ptr[i] \in Objects => deleted[m_ptr[i]] # -1
    /\ \A o \in Objects : deleted[o] # -1 => count[o] = Cardinality(Counted(o))
    /\ \A o \in Objects : deleted[o] = 1 => count[o] = 0

PtrInv == PtrTypes /\ PtrAlone /\ PtrProgress /\ PtrOneDeleter /\ PtrCounts

LEMMA PtrInit == Ptr!Init => PtrInv
<1> SUFFICES ASSUME Ptr!Init PROVE PtrInv
  OBVIOUS
<1>1. Ptr!Calling = {}
  BY DEF Ptr!Init, Ptr!Calling
<1>2. PtrTypes
  BY DEF Ptr!Init, PtrTypes
<1>3. PtrCounts
  BY BricksAssumption DEF Ptr!Init, PtrCounts
<1> QED
  BY <1>1, <1>2, <1>3 DEF PtrInv, PtrAlone, PtrProgress, PtrOneDeleter

(* Which instances are between two steps of a call, when the call of u     *)
(* becomes x.                                                              *)
LEMMA PtrUncounted ==
    ASSUME PtrTypes, PtrAlone, NEW u \in Users, NEW x \in PtrCalls \cup {Nothing},
           call' = [call EXCEPT ![u] = x], NEW i \in Instances
    PROVE  /\ call'[u] = x
           /\ \A v \in Users : v # u => call'[v] = call[v]
           /\ x # Nothing /\ x.this = i /\ x.at \in {"delete", "assign", "count"}
                => Ptr!Uncounted(i)'
           /\ (call[u] # Nothing => call[u].this # i) /\ (x # Nothing => x.this # i)
                => (Ptr!Uncounted(i)' <=> Ptr!Uncounted(i))
           /\ call[u] # Nothing /\ call[u].this = i
                => (Ptr!Uncounted(i) <=> call[u].at \in {"delete", "assign", "count"})
           /\ call[u] # Nothing /\ call[u].this = i
              /\ (x # Nothing => x.this # i \/ x.at = "release")
                => ~Ptr!Uncounted(i)'
<1>1. call'[u] = x /\ \A v \in Users : v # u => call'[v] = call[v]
  BY DEF PtrTypes
<1>2. x # Nothing /\ x.this = i /\ x.at \in {"delete", "assign", "count"}
        => Ptr!Uncounted(i)'
  BY <1>1 DEF Ptr!Uncounted, Ptr!Calling
<1>3. (call[u] # Nothing => call[u].this # i) /\ (x # Nothing => x.this # i)
        => (Ptr!Uncounted(i)' <=> Ptr!Uncounted(i))
  BY <1>1 DEF Ptr!Uncounted, Ptr!Calling
<1>4. call[u] # Nothing /\ call[u].this = i
        => (Ptr!Uncounted(i) <=> call[u].at \in {"delete", "assign", "count"})
  BY DEF Ptr!Uncounted, Ptr!Calling, PtrAlone
<1>5. call[u] # Nothing /\ call[u].this = i
      /\ (x # Nothing => x.this # i \/ x.at = "release")
        => ~Ptr!Uncounted(i)'
  <2>1. SUFFICES ASSUME call[u] # Nothing, call[u].this = i,
                        x # Nothing => x.this # i \/ x.at = "release",
                        NEW v \in Users, call'[v] # Nothing, call'[v].this = i,
                        call'[v].at \in {"delete", "assign", "count"}
                 PROVE  FALSE
    BY DEF Ptr!Uncounted, Ptr!Calling
  <2>2. CASE v = u
    BY <1>1, <2>1, <2>2
  <2>3. CASE v # u
    <3>1. u \in Ptr!Calling /\ v \in Ptr!Calling /\ call[v].this = i
      BY <1>1, <2>1, <2>3 DEF Ptr!Calling
    <3> QED
      BY <2>1, <2>3, <3>1 DEF PtrAlone
  <2> QED
    BY <2>2, <2>3
<1> QED
  BY <1>1, <1>2, <1>3, <1>4, <1>5

(* A call begins: CopyConstruct, Assign and Reset.                         *)
LEMMA PtrBegins ==
    ASSUME PtrInv, NEW u \in Users, NEW i \in Instances, NEW j \in Instances,
           Ptr!CopyConstruct(u, i, j) \/ Ptr!Assign(u, i, j) \/ Ptr!Reset(u, i)
    PROVE  PtrInv'
<1> USE DEF PtrInv
<1>1. PICK x \in PtrCalls :
          /\ call' = [call EXCEPT ![u] = x]
          /\ x.this = i /\ m_ptr[x.other] # "unborn"
          /\ x.op = "copy" => x.other = j /\ i # j
          /\ x.op # "copy" => x.other = i
          /\ x.at = "release" \/ (x.at = "assign" /\ m_ptr[i] = "unborn")
          /\ x.at = "release" => m_ptr[i] # "unborn"
          /\ \A v \in Ptr!Calling : call[v].this # x.other
  <2>1. CASE Ptr!CopyConstruct(u, i, j)
    <3> DEFINE x == Ptr!Call("copy", i, j, "assign")
    <3>1. x \in PtrCalls /\ x.this = i /\ x.other = j /\ x.op = "copy" /\ x.at = "assign"
      BY DEF Ptr!Call, PtrCalls
    <3> QED
      BY <2>1, <3>1 DEF Ptr!CopyConstruct, Ptr!Untouched
  <2>2. CASE Ptr!Assign(u, i, j)
    <3> DEFINE x == Ptr!Call("copy", i, j, "release")
    <3>1. x \in PtrCalls /\ x.this = i /\ x.other = j /\ x.op = "copy" /\ x.at = "release"
      BY DEF Ptr!Call, PtrCalls
    <3> QED
      BY <2>2, <3>1 DEF Ptr!Assign, Ptr!Untouched
  <2>3. CASE Ptr!Reset(u, i)
    <3>1. PICK op \in {"reset", "resetTo", "destroy"} :
              call' = [call EXCEPT ![u] = Ptr!Call(op, i, i, "release")]
      BY <2>3 DEF Ptr!Reset
    <3> DEFINE x == Ptr!Call(op, i, i, "release")
    <3>2. x \in PtrCalls /\ x.this = i /\ x.other = i /\ x.op # "copy" /\ x.at = "release"
      BY DEF Ptr!Call, PtrCalls
    <3> QED
      BY <2>3, <3>1, <3>2 DEF Ptr!Reset, Ptr!Unused, Ptr!Untouched
  <2> QED
    BY <2>1, <2>2, <2>3
<1>2. /\ UNCHANGED <<m_ptr, count, deleted>> /\ call[u] = Nothing
      /\ \A v \in Ptr!Calling : call[v].this # i /\ call[v].other # i
  BY DEF Ptr!CopyConstruct, Ptr!Assign, Ptr!Reset, Ptr!Unused, Ptr!Untouched
<1>3. /\ call'[u] = x /\ x # Nothing
      /\ \A v \in Users : v # u => call'[v] = call[v]
      /\ Ptr!Calling' = Ptr!Calling \cup {u} /\ u \notin Ptr!Calling
  BY <1>1, <1>2, BricksAssumption DEF PtrTypes, Ptr!Calling
<1>4. PtrTypes'
  BY <1>1, <1>2 DEF PtrTypes
<1>5. PtrAlone'
  BY <1>1, <1>2, <1>3 DEF PtrAlone
<1>6. PtrProgress' /\ PtrOneDeleter'
  BY <1>1, <1>2, <1>3 DEF PtrProgress, PtrOneDeleter
<1>7. ASSUME NEW o \in Objects PROVE Counted(o)' = Counted(o)
  <2>1. ASSUME NEW k \in Instances, k # i PROVE Ptr!Uncounted(k)' <=> Ptr!Uncounted(k)
    BY <1>1, <1>2, <2>1, PtrUncounted, ZenonT(30)
  <2>2. ~Ptr!Uncounted(i) /\ (m_ptr[i] = "unborn" \/ ~Ptr!Uncounted(i)')
    BY <1>1, <1>2, <1>3 DEF Ptr!Uncounted
  <2>3. m_ptr[i] = "unborn" => m_ptr[i] # o
    BY BricksAssumption
  <2> QED
    BY <1>2, <2>1, <2>2, <2>3 DEF Counted
<1>8. PtrCounts'
  BY <1>2, <1>7 DEF PtrCounts
<1> QED
  BY <1>4, <1>5, <1>6, <1>8

(* An instance refers to no object, or to one that it counts: the counter  *)
(* of a living object is positive while an instance outside a call, or     *)
(* before its release, refers to it.                                       *)
LEMMA PtrCountedAlive ==
    ASSUME PtrInv, NEW i \in Instances, ~Ptr!Uncounted(i), m_ptr[i] \in Objects
    PROVE  /\ i \in Counted(m_ptr[i])
           /\ deleted[m_ptr[i]] = 0
           /\ count[m_ptr[i]] \in Nat \ {0}
           /\ count[m_ptr[i]] = Cardinality(Counted(m_ptr[i]))
<1> DEFINE o == m_ptr[i]
<1>1. i \in Counted(o)
  BY DEF Counted
<1>2. IsFiniteSet(Counted(o))
  BY BricksAssumption, FS_Subset DEF Counted
<1>3. Cardinality(Counted(o)) \in Nat \ {0}
  BY <1>1, <1>2, FS_CardinalityType, FS_EmptySet
<1>4. deleted[o] # -1 /\ count[o] = Cardinality(Counted(o))
  BY DEF PtrInv, PtrCounts
<1>5. deleted[o] # 1
  BY <1>3, <1>4 DEF PtrInv, PtrCounts
<1> QED
  BY <1>1, <1>3, <1>4, <1>5 DEF PtrInv, PtrTypes

(* SharedPtr(T* ) outside any call.                                        *)
LEMMA PtrConstruct ==
    ASSUME PtrInv, NEW u \in Users, NEW i \in Instances, Ptr!Construct(u, i)
    PROVE  PtrInv'
<1> USE DEF PtrInv
<1>1. /\ UNCHANGED call /\ m_ptr[i] = "unborn" /\ ~Ptr!Uncounted(i)
      /\ \A v \in Ptr!Calling : call[v].this # i /\ call[v].other # i
  BY DEF Ptr!Construct, Ptr!Unused, Ptr!Untouched, Ptr!Uncounted
<1>2. /\ Ptr!Calling' = Ptr!Calling
      /\ \A v \in Ptr!Calling : call'[v] = call[v] /\ call[v] \in PtrCalls
  BY <1>1 DEF Ptr!Calling, PtrTypes
<1>3. \A k \in Instances : Ptr!Uncounted(k)' <=> Ptr!Uncounted(k)
  BY <1>1, <1>2 DEF Ptr!Uncounted
<1>4. \A k \in Instances : k # i => m_ptr'[k] = m_ptr[k]
  BY DEF Ptr!Construct, PtrTypes
<1>5. \A v \in Ptr!Calling : /\ m_ptr'[call[v].this] = m_ptr[call[v].this]
                             /\ m_ptr'[call[v].other] = m_ptr[call[v].other]
  BY <1>1, <1>2, <1>4 DEF PtrCalls
<1>6. PtrAlone' /\ PtrOneDeleter'
  BY <1>1, <1>2, <1>5 DEF PtrAlone, PtrOneDeleter
<1>7. CASE m_ptr' = [m_ptr EXCEPT ![i] = Nothing] /\ UNCHANGED <<count, deleted>>
  <2>1. PtrTypes' /\ PtrProgress'
    BY <1>1, <1>2, <1>5, <1>7 DEF PtrTypes, PtrProgress
  <2>2. \A o \in Objects : Counted(o)' = Counted(o)
    BY <1>1, <1>3, <1>4, <1>7, BricksAssumption DEF Counted, PtrTypes
  <2>3. m_ptr'[i] \notin Objects
    BY <1>7, BricksAssumption DEF PtrTypes
  <2>4. PtrCounts'
    BY <1>4, <1>7, <2>2, <2>3 DEF PtrCounts
  <2> QED
    BY <1>6, <2>1, <2>4
<1>8. ASSUME NEW n \in Objects, Ptr!Fresh(n),
             m_ptr' = [m_ptr EXCEPT ![i] = n],
             count' = [count EXCEPT ![n] = 1],
             deleted' = [deleted EXCEPT ![n] = 0]
      PROVE  PtrInv'
  <2>1. \A k \in Instances : m_ptr[k] # n
    BY <1>8 DEF PtrCounts, Ptr!Fresh
  <2>2. PtrTypes'
    BY <1>1, <1>8 DEF PtrTypes
  <2>3. PtrProgress'
    BY <1>1, <1>2, <1>5, <1>8, <2>1 DEF PtrProgress, PtrTypes, PtrCalls
  <2>4. Counted(n)' = {i}
    BY <1>1, <1>3, <1>4, <1>8, <2>1 DEF Counted, PtrTypes
  <2>5. ASSUME NEW o \in Objects, o # n PROVE Counted(o)' = Counted(o)
    BY <1>1, <1>3, <1>4, <1>8, <2>5, BricksAssumption DEF Counted, PtrTypes
  <2>6. count'[n] = Cardinality(Counted(n)')
    BY <1>8, <2>4, FS_Singleton DEF PtrTypes
  <2>7. PtrCounts'
    BY <1>4, <1>8, <2>1, <2>5, <2>6 DEF PtrCounts, PtrTypes
  <2> QED
    BY <1>6, <2>2, <2>3, <2>7
<1> QED
  BY <1>7, <1>8 DEF Ptr!Construct

(* The reference of an instance is given up.                               *)
LEMMA PtrRelease ==
    ASSUME PtrInv, NEW u \in Users, Ptr!Release(u)
    PROVE  PtrInv'
<1> USE DEF PtrInv
<1>0. PICK i \in Instances, o \in Objects \cup {Nothing, "unborn"} :
          i = call[u].this /\ o = m_ptr[i]
  BY DEF Ptr!Release, PtrTypes, PtrCalls
<1>1. /\ u \in Ptr!Calling /\ call[u] \in PtrCalls /\ call[u].at = "release"
      /\ i = call[u].this /\ o = m_ptr[i]
      /\ UNCHANGED <<m_ptr, deleted>>
  BY <1>0 DEF Ptr!Release, Ptr!Calling, PtrTypes
<1>2. ~Ptr!Uncounted(i)
  BY <1>1 DEF Ptr!Uncounted, PtrAlone
<1>3. o # "unborn"
  BY <1>1 DEF PtrProgress
<1>4. PICK l \in {"assign", "delete"} :
          /\ call' = [call EXCEPT ![u].at = l]
          /\ o = Nothing => l = "assign" /\ count' = count
          /\ o # Nothing => /\ count' = [count EXCEPT ![o] = @ - 1]
                            /\ l = IF count'[o] <= 0 THEN "delete" ELSE "assign"
  BY <1>1 DEF Ptr!Release, Ptr!Goto
<1> DEFINE x == [call[u] EXCEPT !.at = l]
<1>5. /\ x \in PtrCalls /\ x.this = i /\ x.other = call[u].other /\ x.op = call[u].op
      /\ x.at = l
  BY <1>1 DEF PtrCalls
<1>6. call' = [call EXCEPT ![u] = x]
  BY <1>4
<1> HIDE DEF x
<1>7. /\ call'[u] = x /\ Ptr!Calling' = Ptr!Calling
      /\ \A v \in Users : v # u => call'[v] = call[v]
  BY <1>1, <1>5, <1>6, BricksAssumption DEF PtrTypes, Ptr!Calling
<1>8. PtrTypes'
  BY <1>1, <1>4, <1>5, <1>6 DEF PtrTypes
<1>9. PtrAlone'
  BY <1>1, <1>5, <1>7 DEF PtrAlone, Ptr!Calling
<1>10. Ptr!Uncounted(i)'
  <2>1. x # Nothing
    BY <1>5, BricksAssumption
  <2> QED
    BY <1>5, <1>6, <2>1, PtrUncounted
<1>11. \A k \in Instances : k # i => (Ptr!Uncounted(k)' <=> Ptr!Uncounted(k))
  BY <1>1, <1>5, <1>6, PtrUncounted
<1>12. CASE o = Nothing
  <2>1. PtrProgress' /\ PtrOneDeleter'
    BY <1>1, <1>4, <1>5, <1>7, <1>12 DEF PtrProgress, PtrOneDeleter
  <2>2. \A p \in Objects : Counted(p)' = Counted(p)
    BY <1>1, <1>11, <1>12, BricksAssumption DEF Counted
  <2>3. PtrCounts'
    BY <1>1, <1>4, <1>12, <2>2 DEF PtrCounts
  <2> QED
    BY <1>8, <1>9, <2>1, <2>3
<1>13. CASE o \in Objects
  <2>0. o # Nothing
    BY <1>13, BricksAssumption
  <2>1. /\ i \in Counted(o) /\ deleted[o] = 0
        /\ count[o] \in Nat \ {0} /\ count[o] = Cardinality(Counted(o))
    BY <1>1, <1>2, <1>13, PtrCountedAlive
  <2>2. /\ count' = [count EXCEPT ![o] = @ - 1]
        /\ count'[o] = count[o] - 1
        /\ l = "delete" <=> count'[o] = 0
        /\ \A p \in Objects : p # o => count'[p] = count[p]
    BY <1>4, <1>13, <2>0, <2>1 DEF PtrTypes
  <2>3. \A v \in Ptr!Calling : call[v].at = "delete" => m_ptr[call[v].this] # o
    BY <2>1 DEF PtrProgress
  <2>4. PtrProgress'
    <3>1. ASSUME NEW v \in Ptr!Calling, v # u
          PROVE  call'[v].at = "delete" =>
                    /\ m_ptr'[call'[v].this] \in Objects
                    /\ deleted'[m_ptr'[call'[v].this]] = 0
                    /\ count'[m_ptr'[call'[v].this]] = 0
      BY <1>1, <1>7, <2>2, <2>3, <3>1 DEF PtrProgress, Ptr!Calling
    <3>2. call'[u].at = "delete" =>
              /\ m_ptr'[call'[u].this] \in Objects
              /\ deleted'[m_ptr'[call'[u].this]] = 0
              /\ count'[m_ptr'[call'[u].this]] = 0
      BY <1>1, <1>5, <1>7, <1>13, <2>1, <2>2
    <3>3. ASSUME NEW v \in Ptr!Calling
          PROVE  LET c == call'[v] IN
                 /\ c.op = "copy" => c.this # c.other /\ m_ptr'[c.other] # "unborn"
                 /\ c.at = "release" => m_ptr'[c.this] # "unborn"
                 /\ c.at = "count" =>
                       /\ c.op = "copy"
                       /\ m_ptr'[c.this] \in Objects
                       /\ m_ptr'[c.other] = m_ptr'[c.this]
      BY <1>1, <1>5, <1>7 DEF PtrProgress, Ptr!Calling
    <3> QED
      BY <1>7, <3>1, <3>2, <3>3 DEF PtrProgress
  <2>5. PtrOneDeleter'
    BY <1>1, <1>5, <1>7, <2>3 DEF PtrOneDeleter, Ptr!Calling
  <2>6. Counted(o)' = Counted(o) \ {i}
    BY <1>1, <1>10, <1>11 DEF Counted
  <2>7. \A p \in Objects : p # o => Counted(p)' = Counted(p)
    BY <1>1, <1>11 DEF Counted
  <2>8. Cardinality(Counted(o)') = Cardinality(Counted(o)) - 1
    <3>1. IsFiniteSet(Counted(o))
      BY BricksAssumption, FS_Subset DEF Counted
    <3> QED
      BY <2>1, <2>6, <3>1, FS_RemoveElement
  <2>9. PtrCounts'
    BY <1>1, <1>13, <2>1, <2>2, <2>7, <2>8 DEF PtrCounts
  <2> QED
    BY <1>8, <1>9, <2>4, <2>5, <2>9
<1> QED
  BY <1>3, <1>12, <1>13

(* Who copies from an instance keeps it counted.                           *)
LEMMA PtrSourceCounted ==
    ASSUME PtrInv, NEW u \in Ptr!Calling, call[u].op = "copy"
    PROVE  /\ call[u].other \in Instances
           /\ ~Ptr!Uncounted(call[u].other)
           /\ m_ptr[call[u].other] # "unborn"
<1>1. call[u] \in PtrCalls
  BY DEF PtrInv, PtrTypes, Ptr!Calling
<1>2. call[u].this # call[u].other /\ m_ptr[call[u].other] # "unborn"
  BY DEF PtrInv, PtrProgress
<1>3. ~Ptr!Uncounted(call[u].other)
  BY <1>2 DEF Ptr!Uncounted, PtrInv, PtrAlone
<1> QED
  BY <1>1, <1>2, <1>3 DEF PtrCalls

(* An object without a reference is deleted.                               *)
LEMMA PtrDelete ==
    ASSUME PtrInv, NEW u \in Users, Ptr!Delete(u)
    PROVE  PtrInv'
<1> USE DEF PtrInv
<1>0. PICK i \in Instances, o \in Objects : i = call[u].this /\ o = m_ptr[i]
  BY DEF Ptr!Delete, PtrTypes, PtrCalls, PtrProgress, Ptr!Calling
<1>1. /\ u \in Ptr!Calling /\ call[u] \in PtrCalls /\ call[u].at = "delete"
      /\ i = call[u].this /\ o = m_ptr[i]
      /\ UNCHANGED <<m_ptr, count>>
      /\ deleted[o] = 0 /\ count[o] = 0
      /\ deleted' = [deleted EXCEPT ![o] = 1]
  <2>1. /\ u \in Ptr!Calling /\ call[u] \in PtrCalls /\ call[u].at = "delete"
        /\ UNCHANGED <<m_ptr, count>>
        /\ deleted' = [deleted EXCEPT ![o] = @ + 1]
    BY <1>0 DEF Ptr!Delete, Ptr!Calling, PtrTypes
  <2>2. deleted[o] = 0 /\ count[o] = 0
    BY <1>0, <2>1 DEF PtrProgress
  <2>3. deleted[o] + 1 = 1
    BY <2>2
  <2> QED
    BY <1>0, <2>1, <2>2, <2>3
<1> DEFINE x == [call[u] EXCEPT !.at = "assign"]
<1>5. /\ x \in PtrCalls /\ x.this = i /\ x.other = call[u].other /\ x.op = call[u].op
      /\ x.at = "assign"
  BY <1>1 DEF PtrCalls
<1>6. call' = [call EXCEPT ![u] = x]
  BY DEF Ptr!Delete, Ptr!Goto
<1> HIDE DEF x
<1>7. /\ call'[u] = x /\ Ptr!Calling' = Ptr!Calling /\ x # Nothing
      /\ \A v \in Users : v # u => call'[v] = call[v]
  BY <1>1, <1>5, <1>6, BricksAssumption DEF PtrTypes, Ptr!Calling
<1>8. PtrTypes'
  BY <1>1, <1>5, <1>6 DEF PtrTypes
<1>9. PtrAlone' /\ PtrOneDeleter'
  BY <1>1, <1>5, <1>7 DEF PtrAlone, PtrOneDeleter, Ptr!Calling
<1>10. \A k \in Instances : Ptr!Uncounted(k)' <=> Ptr!Uncounted(k)
  <2>0. call[u] # Nothing
    BY <1>1 DEF Ptr!Calling
  <2>1. Ptr!Uncounted(i) /\ Ptr!Uncounted(i)'
    BY <1>1, <1>5, <1>6, <1>7, <2>0, PtrUncounted
  <2>2. \A k \in Instances : k # i => (Ptr!Uncounted(k)' <=> Ptr!Uncounted(k))
    BY <1>1, <1>5, <1>6, PtrUncounted
  <2> QED
    BY <2>1, <2>2
<1>11. \A v \in Ptr!Calling :
          v # u /\ call[v].at = "delete" => m_ptr[call[v].this] # o
  BY <1>1 DEF PtrOneDeleter
<1>12. \A p \in Objects : p # o => deleted'[p] = deleted[p]
  BY <1>1 DEF PtrTypes
<1>13. PtrProgress'
  BY <1>1, <1>5, <1>7, <1>11, <1>12 DEF PtrProgress, Ptr!Calling
<1>14. \A p \in Objects : Counted(p)' = Counted(p)
  BY <1>1, <1>10 DEF Counted
<1>15. PtrCounts'
  BY <1>1, <1>12, <1>14 DEF PtrCounts, PtrTypes
<1> QED
  BY <1>8, <1>9, <1>13, <1>15

(* The reference that was copied is counted.                               *)
LEMMA PtrCount ==
    ASSUME PtrInv, NEW u \in Users, Ptr!Count(u)
    PROVE  PtrInv'
<1> USE DEF PtrInv
<1>0. PICK i \in Instances, o \in Objects : i = call[u].this /\ o = m_ptr[i]
  BY DEF Ptr!Count, PtrTypes, PtrCalls, PtrProgress, Ptr!Calling
<1>1. /\ u \in Ptr!Calling /\ call[u] \in PtrCalls /\ call[u].at = "count"
      /\ i = call[u].this /\ o = m_ptr[i]
      /\ call[u].op = "copy" /\ m_ptr[call[u].other] = o
      /\ UNCHANGED <<m_ptr, deleted>>
      /\ count' = [count EXCEPT ![o] = @ + 1]
      /\ call' = [call EXCEPT ![u] = Nothing]
  BY <1>0 DEF Ptr!Count, Ptr!Calling, PtrTypes, PtrProgress
<1>2. /\ deleted[o] = 0 /\ count[o] \in Nat \ {0}
      /\ count[o] = Cardinality(Counted(o))
  BY <1>1, PtrSourceCounted, PtrCountedAlive
<1>3. Ptr!Calling' = Ptr!Calling \ {u} /\ \A v \in Users : v # u => call'[v] = call[v]
  BY <1>1 DEF Ptr!Calling, PtrTypes
<1>4. \A p \in Objects : p # o => count'[p] = count[p]
  BY <1>1 DEF PtrTypes
<1>5. count'[o] = count[o] + 1
  BY <1>1 DEF PtrTypes
<1>6. PtrTypes'
  BY <1>1 DEF PtrTypes
<1>7. PtrAlone' /\ PtrOneDeleter'
  BY <1>1, <1>3 DEF PtrAlone, PtrOneDeleter, Ptr!Calling
<1>8. \A v \in Ptr!Calling : call[v].at = "delete" => m_ptr[call[v].this] # o
  BY <1>2 DEF PtrProgress
<1>9. PtrProgress'
  BY <1>1, <1>3, <1>4, <1>8 DEF PtrProgress, Ptr!Calling
<1>10. Ptr!Uncounted(i) /\ ~Ptr!Uncounted(i)'
  BY <1>1, PtrUncounted DEF Ptr!Calling
<1>11. \A k \in Instances : k # i => (Ptr!Uncounted(k)' <=> Ptr!Uncounted(k))
  BY <1>1, PtrUncounted
<1>12. Counted(o)' = Counted(o) \cup {i} /\ i \notin Counted(o)
  BY <1>1, <1>10, <1>11 DEF Counted
<1>13. \A p \in Objects : p # o => Counted(p)' = Counted(p)
  BY <1>1, <1>11 DEF Counted
<1>14. Cardinality(Counted(o)') = Cardinality(Counted(o)) + 1
  <2>1. IsFiniteSet(Counted(o))
    BY BricksAssumption, FS_Subset DEF Counted
  <2> QED
    BY <1>12, <2>1, FS_AddElement
<1>15. PtrCounts'
  BY <1>1, <1>2, <1>4, <1>5, <1>13, <1>14 DEF PtrCounts
<1> QED
  BY <1>6, <1>7, <1>9, <1>15

(* m_ptr and m_cnt are assigned.                                           *)
LEMMA PtrAssign ==
    ASSUME PtrInv, NEW u \in Users, Ptr!AssignMembers(u)
    PROVE  PtrInv'
<1> USE DEF PtrInv
<1>0. PICK i \in Instances, j \in Instances : i = call[u].this /\ j = call[u].other
  BY DEF Ptr!AssignMembers, PtrTypes, PtrCalls
<1>1. /\ u \in Ptr!Calling /\ call[u] \in PtrCalls /\ call[u].at = "assign"
      /\ i = call[u].this /\ j = call[u].other /\ call[u] # Nothing
  BY <1>0 DEF Ptr!AssignMembers, Ptr!Calling, PtrTypes
<1>2. \A v \in Ptr!Calling : v # u => call[v].this # i /\ call[v].other # i
  BY <1>1 DEF PtrAlone
<1>3. Ptr!Uncounted(i)
  BY <1>1 DEF Ptr!Uncounted
(* The call is over: only i refers to something else than before.          *)
<1>4. ASSUME NEW n \in Objects \cup {Nothing, "unborn"},
             m_ptr' = [m_ptr EXCEPT ![i] = n],
             call' = [call EXCEPT ![u] = Nothing],
             \/ n \notin Objects /\ UNCHANGED <<count, deleted>>
             \/ /\ n \in Objects /\ Ptr!Fresh(n)
                /\ count' = [count EXCEPT ![n] = 1]
                /\ deleted' = [deleted EXCEPT ![n] = 0]
      PROVE  PtrInv'
  <2>1. Ptr!Calling' = Ptr!Calling \ {u} /\ \A v \in Users : v # u => call'[v] = call[v]
    BY <1>1, <1>4 DEF Ptr!Calling, PtrTypes
  <2>2. m_ptr'[i] = n /\ \A k \in Instances : k # i => m_ptr'[k] = m_ptr[k]
    BY <1>4 DEF PtrTypes
  <2>3. PtrTypes'
    BY <1>4 DEF PtrTypes
  <2>4. \A v \in Ptr!Calling' : /\ v \in Ptr!Calling /\ call'[v] = call[v]
                                /\ call[v] \in PtrCalls
                                /\ m_ptr'[call[v].this] = m_ptr[call[v].this]
                                /\ m_ptr'[call[v].other] = m_ptr[call[v].other]
    BY <1>2, <2>1, <2>2 DEF Ptr!Calling, PtrTypes, PtrCalls
  <2>5. PtrAlone' /\ PtrOneDeleter'
    BY <2>4 DEF PtrAlone, PtrOneDeleter
  <2>6. \A k \in Instances : m_ptr[k] # n \/ n \notin Objects
    BY <1>4 DEF PtrCounts, Ptr!Fresh
  <2>7. \A o \in Objects : o # n => deleted'[o] = deleted[o] /\ count'[o] = count[o]
    BY <1>4 DEF PtrTypes
  <2>8. PtrProgress'
    <3>1. ASSUME NEW v \in Ptr!Calling'
          PROVE  m_ptr[call[v].this] \in Objects => m_ptr[call[v].this] # n
      BY <2>4, <2>6 DEF PtrCalls
    <3> QED
      BY <2>4, <2>7, <3>1 DEF PtrProgress
  <2>9. ~Ptr!Uncounted(i)' /\ \A k \in Instances : k # i => (Ptr!Uncounted(k)' <=> Ptr!Uncounted(k))
    BY <1>1, <1>4, PtrUncounted
  <2>10. \A o \in Objects : o # n => Counted(o)' = Counted(o)
    BY <1>3, <2>2, <2>9 DEF Counted
  <2>11. ASSUME n \in Objects
         PROVE  /\ count'[n] = 1 /\ deleted'[n] = 0
                /\ Cardinality(Counted(n)') = 1
    <3>1. n # Nothing /\ n # "unborn"
      BY <2>11, BricksAssumption
    <3>2. Counted(n)' = {i}
      BY <1>3, <2>2, <2>6, <2>9, <2>11 DEF Counted
    <3>3. count'[n] = 1 /\ deleted'[n] = 0
      BY <1>4, <2>11 DEF PtrTypes
    <3> QED
      BY <3>2, <3>3, FS_Singleton
  <2>12. PtrCounts'
    BY <2>2, <2>6, <2>7, <2>10, <2>11 DEF PtrCounts
  <2> QED
    BY <2>3, <2>5, <2>8, <2>12
<1>5. CASE /\ call[u].op \in {"reset", "destroy"}
           /\ m_ptr' = [m_ptr EXCEPT ![i] = IF call[u].op = "reset" THEN Nothing ELSE "unborn"]
           /\ call' = [call EXCEPT ![u] = Nothing]
           /\ UNCHANGED <<count, deleted>>
  BY <1>4, <1>5, BricksAssumption
<1>6. CASE \E n \in Objects :
             /\ call[u].op = "resetTo" /\ Ptr!Fresh(n)
             /\ m_ptr' = [m_ptr EXCEPT ![i] = n]
             /\ count' = [count EXCEPT ![n] = 1]
             /\ deleted' = [deleted EXCEPT ![n] = 0]
             /\ call' = [call EXCEPT ![u] = Nothing]
  BY <1>4, <1>6
<1>7. CASE /\ call[u].op = "copy"
           /\ m_ptr' = [m_ptr EXCEPT ![i] = m_ptr[j]]
           /\ call' = [call EXCEPT ![u] = Ptr!AfterCopy(call[u], m_ptr[j])]
           /\ UNCHANGED <<count, deleted>>
  <2>0. m_ptr[j] \in Objects \cup {Nothing} /\ i # j
    BY <1>1, <1>7 DEF PtrTypes, PtrProgress
  <2>1. CASE m_ptr[j] = Nothing
    <3>1. Ptr!AfterCopy(call[u], m_ptr[j]) = Nothing /\ Nothing \notin Objects
      BY <2>1, BricksAssumption DEF Ptr!AfterCopy
    <3> QED
      BY <1>4, <1>7, <2>1, <3>1
  <2>2. CASE m_ptr[j] \in Objects
    <3> DEFINE x == [call[u] EXCEPT !.at = "count"]
    <3>1. /\ x \in PtrCalls /\ x.this = i /\ x.other = j /\ x.op = "copy"
          /\ x.at = "count"
      BY <1>1, <1>7 DEF PtrCalls
    <3>2. call' = [call EXCEPT ![u] = x]
      BY <1>7, <2>2, BricksAssumption DEF Ptr!AfterCopy
    <3> HIDE DEF x
    <3>3. /\ call'[u] = x /\ Ptr!Calling' = Ptr!Calling /\ x # Nothing
          /\ \A v \in Users : v # u => call'[v] = call[v]
      BY <1>1, <3>1, <3>2, BricksAssumption DEF PtrTypes, Ptr!Calling
    <3>4. m_ptr'[i] = m_ptr[j] /\ \A k \in Instances : k # i => m_ptr'[k] = m_ptr[k]
      BY <1>7 DEF PtrTypes
    <3>5. PtrTypes'
      BY <1>1, <1>7, <3>1, <3>2 DEF PtrTypes
    <3>6. \A v \in Ptr!Calling : v # u => /\ call'[v] = call[v]
                                         /\ call[v] \in PtrCalls
                                         /\ m_ptr'[call[v].this] = m_ptr[call[v].this]
                                         /\ m_ptr'[call[v].other] = m_ptr[call[v].other]
      BY <1>2, <3>3, <3>4 DEF Ptr!Calling, PtrTypes, PtrCalls
    <3>7. PtrAlone'
      BY <1>1, <3>1, <3>3, <3>6 DEF PtrAlone
    <3>8. PtrOneDeleter'
      BY <1>1, <3>1, <3>3, <3>6 DEF PtrOneDeleter
    <3>9. PtrProgress'
      BY <1>1, <1>7, <2>0, <2>2, <3>1, <3>3, <3>4, <3>6 DEF PtrProgress
    <3>10. Ptr!Uncounted(i)' /\ \A k \in Instances : k # i => (Ptr!Uncounted(k)' <=> Ptr!Uncounted(k))
      BY <1>1, <3>1, <3>2, <3>3, PtrUncounted
    <3>11. \A o \in Objects : Counted(o)' = Counted(o)
      BY <1>3, <3>4, <3>10 DEF Counted
    <3>12. PtrCounts'
      BY <1>7, <2>2, <3>4, <3>11 DEF PtrCounts
    <3> QED
      BY <3>5, <3>7, <3>8, <3>9, <3>12
  <2> QED
    BY <2>0, <2>1, <2>2
<1> QED
  BY <1>1, <1>5, <1>6, <1>7 DEF Ptr!AssignMembers

LEMMA PtrNext == PtrInv /\ [Ptr!Next]_ptrVars => PtrInv'
<1> SUFFICES ASSUME PtrInv, [Ptr!Next]_ptrVars PROVE PtrInv'
  OBVIOUS
<1>1. CASE UNCHANGED ptrVars
  BY <1>1 DEF ptrVars, PtrInv, PtrTypes, PtrAlone, PtrProgress, PtrOneDeleter, PtrCounts,
              Counted, Ptr!Calling, Ptr!Uncounted
<1> QED
  BY <1>1, PtrBegins, PtrConstruct, PtrRelease, PtrDelete, PtrCount, PtrAssign DEF Ptr!Next

-----------------------------------------------------------------------------
(* Coroutine.                                                              *)

CoTypes ==
    /\ m_state \in [Co!All -> {"Idle", "Runnable", "Running", "Waiting", "Dead"}]
    /\ lap \in [Co!All -> Nat]
    /\ m_core \in [Co!All -> {NoContext} \cup Co!All \X Nat]
    /\ flow \in Co!All

(* Before the first coroutine there is no main one; from then on GetThis() *)
(* is the one that runs, and the main one waits for the others.            *)
CoWhoRuns ==
    /\ m_state[Main] = "Idle" =>
          /\ t_curWorker = NoContext /\ flow = Main
          /\ \A c \in Coroutines : m_state[c] = "Idle"
    /\ m_state[Main] # "Idle" =>
          /\ t_curWorker = flow
          /\ \A c \in Co!All : m_state[c] = "Running" <=> c = flow
          /\ m_state[Main] = "Waiting" <=> flow # Main

(* The context of a coroutine that may be resumed is that of its own flow, *)
(* where it was left last.                                                 *)
CoSaved ==
    /\ \A c \in Coroutines :
          /\ m_state[c] = "Idle" => lap[c] = 0
          /\ m_state[c] = "Runnable" => m_core[c] = <<c, lap[c]>>
    /\ flow # Main => m_core[Main] = <<Main, lap[Main]>>

CoInv == CoTypes /\ CoWhoRuns /\ CoSaved /\ fresh = TRUE

LEMMA CoInit == Co!Init => CoInv
  BY BricksAssumption DEF Co!Init, Co!All, CoInv, CoTypes, CoWhoRuns, CoSaved

LEMMA CoCreate == \A c \in Coroutines : CoInv /\ Co!Create(c) => CoInv'
<1> SUFFICES ASSUME NEW c \in Coroutines, CoInv, Co!Create(c) PROVE CoInv'
  OBVIOUS
<1> USE BricksAssumption DEF CoInv, Co!Create, Co!All
<1>1. CoTypes'
  BY DEF CoTypes
<1>2. CoWhoRuns'
  BY DEF CoTypes, CoWhoRuns
<1>3. CoSaved'
  BY DEF CoTypes, CoWhoRuns, CoSaved
<1> QED
  BY <1>1, <1>2, <1>3

(* go(): from the main coroutine to one that was left or never ran.        *)
LEMMA CoGo == \A c \in Coroutines : CoInv /\ Co!Go(c) => CoInv'
<1> SUFFICES ASSUME NEW c \in Coroutines, CoInv, Co!Go(c) PROVE CoInv'
  OBVIOUS
<1> USE BricksAssumption DEF CoInv, Co!All
<1>1. /\ flow = Main /\ m_state[c] = "Runnable" /\ m_state[Main] # "Idle"
      /\ m_state' = [m_state EXCEPT ![c] = "Running", ![Main] = "Waiting"]
      /\ t_curWorker' = c
      /\ m_core[c] = <<c, lap[c]>>
  BY DEF Co!Go, CoTypes, CoWhoRuns, CoSaved
<1>2. PICK n \in Nat : lap' = [lap EXCEPT ![Main] = n]
  <2>1. lap[Main] \in Nat /\ Laps \in Nat /\ Laps > 0
    BY DEF CoTypes
  <2>2. (lap[Main] + 1) % Laps \in Nat
    BY <2>1
  <2>3. lap' = [lap EXCEPT ![Main] = (lap[Main] + 1) % Laps]
    BY <1>1 DEF Co!Go, Co!SwapContext, CoTypes
  <2> QED
    BY <2>2, <2>3
<1>3. /\ m_core' = [m_core EXCEPT ![Main] = <<Main, n>>]
      /\ flow' = c /\ fresh' = TRUE
  <2>1. lap'[Main] = n /\ lap'[c] = lap[c]
    BY <1>1, <1>2 DEF CoTypes
  <2>2. m_core' = [m_core EXCEPT ![Main] = <<Main, n>>]
    BY <1>1, <2>1 DEF Co!Go, Co!SwapContext, Co!Saved
  <2>3. m_core'[c] = <<c, lap[c]>>
    BY <1>1, <2>2 DEF CoTypes
  <2>4. flow' = c
    BY <2>3 DEF Co!Go, Co!SwapContext
  <2>5. fresh' = (m_core'[c][2] = lap'[flow'])
    BY Zenon DEF Co!Go, Co!SwapContext
  <2>6. m_core'[c][2] = lap'[flow']
    BY <2>1, <2>3, <2>4
  <2>7. fresh' = TRUE
    BY <2>5, <2>6, Zenon
  <2> QED
    BY <2>2, <2>4, <2>7
<1>4. CoTypes'
  BY <1>1, <1>2, <1>3 DEF CoTypes
<1>5. CoWhoRuns'
  BY <1>1, <1>3 DEF CoTypes, CoWhoRuns
<1>6. CoSaved'
  BY <1>1, <1>2, <1>3 DEF CoTypes, CoWhoRuns, CoSaved
<1> QED
  BY <1>3, <1>4, <1>5, <1>6

(* Back to the main coroutine, from the one that runs.                     *)
LEMMA CoLeave ==
    \A c \in Coroutines, s \in {"Runnable", "Dead"} :
        CoInv /\ flow = c /\ Co!Leave(c, s) => CoInv'
<1> SUFFICES ASSUME NEW c \in Coroutines, NEW s \in {"Runnable", "Dead"},
                    CoInv, flow = c, Co!Leave(c, s)
             PROVE  CoInv'
  OBVIOUS
<1> USE BricksAssumption DEF CoInv, Co!All
<1>1. /\ m_state[Main] # "Idle"
      /\ m_state' = [m_state EXCEPT ![Main] = "Running", ![c] = s]
      /\ t_curWorker' = Main
      /\ m_core[Main] = <<Main, lap[Main]>>
  BY DEF Co!Leave, CoTypes, CoWhoRuns, CoSaved
<1>2. PICK n \in Nat : lap' = [lap EXCEPT ![c] = n]
  <2>1. lap[c] \in Nat /\ Laps \in Nat /\ Laps > 0
    BY DEF CoTypes
  <2>2. (lap[c] + 1) % Laps \in Nat
    BY <2>1
  <2>3. lap' = [lap EXCEPT ![c] = (lap[c] + 1) % Laps]
    BY <1>1 DEF Co!Leave, Co!SwapContext, CoTypes
  <2> QED
    BY <2>2, <2>3
<1>3. /\ m_core' = [m_core EXCEPT ![c] = <<c, n>>]
      /\ flow' = Main /\ fresh' = TRUE
  <2>1. lap'[c] = n /\ lap'[Main] = lap[Main]
    BY <1>1, <1>2 DEF CoTypes
  <2>2. m_core' = [m_core EXCEPT ![c] = <<c, n>>]
    BY <1>1, <2>1 DEF Co!Leave, Co!SwapContext, Co!Saved
  <2>3. m_core'[Main] = <<Main, lap[Main]>>
    BY <1>1, <2>2 DEF CoTypes
  <2>4. flow' = Main
    BY <2>3 DEF Co!Leave, Co!SwapContext
  <2>5. fresh' = (m_core'[Main][2] = lap'[flow'])
    BY Zenon DEF Co!Leave, Co!SwapContext
  <2>6. m_core'[Main][2] = lap'[flow']
    BY <2>1, <2>3, <2>4
  <2>7. fresh' = TRUE
    BY <2>5, <2>6, Zenon
  <2> QED
    BY <2>2, <2>4, <2>7
<1>4. CoTypes'
  BY <1>1, <1>2, <1>3 DEF CoTypes
<1>5. CoWhoRuns'
  BY <1>1, <1>3 DEF CoTypes, CoWhoRuns
<1>6. CoSaved'
  BY <1>1, <1>2, <1>3 DEF CoTypes, CoWhoRuns, CoSaved
<1> QED
  BY <1>3, <1>4, <1>5, <1>6

LEMMA CoNext == CoInv /\ [Co!Next]_coVars => CoInv'
<1> SUFFICES ASSUME CoInv, [Co!Next]_coVars PROVE CoInv'
  OBVIOUS
<1> USE BricksAssumption
<1>1. CASE UNCHANGED coVars
  BY <1>1 DEF coVars, CoInv, CoTypes, CoWhoRuns, CoSaved
<1>2. CASE Co!Exit
  <2>1. flow \in Coroutines /\ t_curWorker = flow
    BY <1>2 DEF Co!Exit, Co!All, CoInv, CoTypes, CoWhoRuns
  <2> QED
    BY <1>2, <2>1, CoLeave DEF Co!Exit
<1>3. ASSUME NEW c \in Coroutines, Co!Sched(c) PROVE CoInv'
  <2>1. flow = c
    BY <1>3 DEF Co!Sched, Co!All, CoInv, CoTypes, CoWhoRuns
  <2> QED
    BY <1>3, <2>1, CoLeave DEF Co!Sched
<1> QED
  BY <1>1, <1>2, <1>3, CoCreate, CoGo DEF Co!Next

-----------------------------------------------------------------------------
(* Logger.                                                                 *)

Line == [run : Nat, file : Nat \X Nat, line : Nat, day : Nat]

LogTypes ==
    /\ day \in Nat /\ seen \in Nat /\ run \in Nat /\ m_cnt \in Nat /\ logged \in Nat
    /\ m_buffer \in Seq(Nat) /\ written \in Seq(Line)
    /\ writer \in {"none", "read", "preprocess", "put", "exit"}
    /\ writer \in {"preprocess", "put"} => item[1] \in Nat
    /\ ending = "done" => writer \in {"exit", "none"}

OfThisRun(i) == written[i].run = run

(* What is open belongs to the day that the writer knows; a count of zero  *)
(* before a line is put means that this run has written nothing.           *)
LogOpen ==
    /\ writer \in {"read", "preprocess", "put"} =>
          m_file \in Nat \X Nat /\ m_today = Log!tm_mday(m_file[1])
    /\ \A i \in DOMAIN written : written[i].run <= run
    /\ writer \in {"read", "preprocess"} /\ m_cnt = 0 =>
          \A i \in DOMAIN written : ~OfThisRun(i)
    /\ writer = "put" =>
          \/ Log!tm_mday(m_file[1]) = Log!tm_mday(seen)
          \/ \A i \in DOMAIN written : ~OfThisRun(i)

LogInv == LogTypes /\ LogOpen /\ Log!FileOfItsDay

LEMMA LogInit == Log!Init => LogInv
  BY DEF Log!Init, LogInv, LogTypes, LogOpen, Log!FileOfItsDay

(* The steps that write no line and open no file.                          *)
LEMMA LogAround ==
    LogInv /\ (\/ UNCHANGED logVars \/ Log!Midnight \/ Log!Crash \/ Log!Log
               \/ Log!Read \/ Log!Destroy \/ Log!CloseFile) => LogInv'
<1> SUFFICES ASSUME LogInv,
                    \/ UNCHANGED logVars \/ Log!Midnight \/ Log!Crash \/ Log!Log
                    \/ Log!Read \/ Log!Destroy \/ Log!CloseFile
             PROVE  LogInv'
  OBVIOUS
<1> USE DEF logVars, Log!Midnight, Log!Crash, Log!Log, Log!Read, Log!Rest, Log!Destroy,
            Log!CloseFile, Log!WriterLeft
<1>1. LogTypes'
  <2>1. CASE UNCHANGED logVars \/ Log!Midnight \/ Log!Crash \/ Log!Destroy \/ Log!CloseFile
    BY <2>1 DEF LogInv, LogTypes
  <2>2. CASE Log!Log
    <3>1. /\ logged' \in Nat /\ UNCHANGED <<day, seen, run, m_cnt, written, writer, item, ending>>
          /\ m_buffer' \in {m_buffer, Append(m_buffer, logged')}
      BY <2>2 DEF LogInv, LogTypes
    <3>2. m_buffer \in Seq(Nat)
      BY DEF LogInv, LogTypes
    <3>3. Append(m_buffer, logged') \in Seq(Nat)
      BY <3>1, <3>2
    <3>4. m_buffer' \in Seq(Nat)
      BY <3>1, <3>2, <3>3
    <3> QED
      BY <3>1, <3>4 DEF LogInv, LogTypes
  <2>3. CASE Log!Read
    <3>1. CASE bufferClosed
      BY <2>3, <3>1 DEF LogInv, LogTypes
    <3>2. CASE ~bufferClosed
      <4>1. Tail(m_buffer) \in Seq(Nat) /\ Head(m_buffer) \in Nat
        <5>1. m_buffer # <<>> /\ m_buffer \in Seq(Nat)
          BY <2>3, <3>2 DEF LogInv, LogTypes
        <5> QED
          BY <5>1
      <4>2. /\ m_buffer' = Tail(m_buffer) /\ item' = <<Head(m_buffer)>>
            /\ writer = "read" /\ writer' = "preprocess"
            /\ UNCHANGED <<day, seen, run, m_cnt, logged, written, ending>>
        BY <2>3, <3>2
      <4>3. item'[1] \in Nat
        BY <4>1, <4>2
      <4> QED
        BY <4>1, <4>2, <4>3 DEF LogInv, LogTypes
    <3> QED
      BY <3>1, <3>2
  <2> QED
    BY <2>1, <2>2, <2>3
<1>2. UNCHANGED <<written, run, m_cnt, seen>>
  OBVIOUS
<1>3. LogOpen'
  BY <1>2 DEF LogInv, LogTypes, LogOpen, OfThisRun
<1>4. Log!FileOfItsDay'
  BY <1>2 DEF LogInv, Log!FileOfItsDay
<1> QED
  BY <1>1, <1>3, <1>4 DEF LogInv

(* A new run has written nothing yet.                                      *)
LEMMA LogStart == LogInv /\ Log!LoggerInit => LogInv'
<1> SUFFICES ASSUME LogInv, Log!LoggerInit PROVE LogInv'
  OBVIOUS
<1>1. LogTypes'
  BY DEF LogInv, LogTypes, Log!LoggerInit
<1>2. \A i \in DOMAIN written : written[i].run < run' /\ written[i].run \in Nat
  <2>1. \A i \in DOMAIN written : written[i].run \in Nat
    <3>1. written \in Seq(Line)
      BY DEF LogInv, LogTypes
    <3>2. \A i \in DOMAIN written : written[i] \in Line
      BY <3>1
    <3> QED
      BY <3>2 DEF Line
  <2>2. run \in Nat /\ run' = run + 1
    BY DEF LogInv, LogTypes, Log!LoggerInit
  <2>3. \A i \in DOMAIN written : written[i].run <= run
    BY DEF LogInv, LogOpen
  <2> QED
    BY <2>1, <2>2, <2>3
<1>3. LogOpen'
  <2>1. \A i \in DOMAIN written : written[i].run <= run' /\ written[i].run # run'
    <3>1. run' \in Nat
      BY DEF LogInv, LogTypes, Log!LoggerInit
    <3> QED
      BY <1>2, <3>1
  <2>2. /\ written' = written /\ writer' = "read"
        /\ m_file' = <<day, 0>> /\ m_today' = Log!tm_mday(day) /\ day \in Nat
    BY DEF Log!LoggerInit, LogInv, LogTypes
  <2> QED
    BY <2>1, <2>2 DEF LogOpen, OfThisRun
<1>4. Log!FileOfItsDay'
  BY DEF LogInv, Log!FileOfItsDay, Log!LoggerInit
<1> QED
  BY <1>1, <1>3, <1>4 DEF LogInv

(* Either the file is one of today, or it is the one that Init opened.     *)
LEMMA LogPreprocess == LogInv /\ Log!Preprocess => LogInv'
<1> SUFFICES ASSUME LogInv, Log!Preprocess PROVE LogInv'
  OBVIOUS
<1>1. /\ UNCHANGED <<day, run, logged, m_buffer, written, item, ending>>
      /\ writer = "preprocess" /\ writer' = "put" /\ seen' = day
      /\ m_file \in Nat \X Nat /\ m_today = Log!tm_mday(m_file[1])
  BY DEF Log!Preprocess, LogInv, LogOpen
<1>2. /\ m_file' \in Nat \X Nat /\ m_cnt' \in Nat
      /\ m_today' = Log!tm_mday(m_file'[1])
      /\ m_cnt # 0 => Log!tm_mday(m_file'[1]) = Log!tm_mday(day)
  <2>1. CASE m_cnt # 0 /\ (Log!NewDay \/ Log!Full)
    <3>1. m_file' = Log!FileAfter /\ m_today' = Log!tm_mday(day) /\ m_cnt' = Log!CountAfter
      BY <2>1 DEF Log!Preprocess
    <3>2. m_cnt \div m_splitLines \in Nat
      BY BricksAssumption DEF LogInv, LogTypes
    <3> QED
      BY <1>1, <3>1, <3>2 DEF LogInv, LogTypes, Log!FileAfter, Log!CountAfter
  <2>2. CASE ~(m_cnt # 0 /\ (Log!NewDay \/ Log!Full))
    BY <1>1, <2>2 DEF Log!Preprocess, Log!NewDay, LogInv, LogTypes
  <2> QED
    BY <2>1, <2>2
<1>3. LogTypes'
  BY <1>1, <1>2 DEF LogInv, LogTypes
<1>4. LogOpen'
  BY <1>1, <1>2 DEF LogInv, LogTypes, LogOpen, OfThisRun
<1>5. Log!FileOfItsDay'
  BY <1>1 DEF LogInv, Log!FileOfItsDay
<1> QED
  BY <1>3, <1>4, <1>5 DEF LogInv

LEMMA LogPut == LogInv /\ Log!Put => LogInv'
<1> SUFFICES ASSUME LogInv, Log!Put PROVE LogInv'
  OBVIOUS
<1> DEFINE w == [run |-> run, file |-> m_file, line |-> item[1], day |-> seen]
           n == Len(written)
<1>1. /\ writer = "put" /\ writer' = "read" /\ m_cnt' = m_cnt + 1
      /\ written' = Append(written, w)
      /\ UNCHANGED <<day, run, logged, m_buffer, seen, m_today, m_file, ending>>
  BY DEF Log!Put
<1>2. w \in Line
  BY <1>1 DEF LogInv, LogTypes, LogOpen, Line
<1>3. /\ n \in Nat /\ DOMAIN written = 1..n
      /\ written' \in Seq(Line) /\ DOMAIN written' = 1..(n + 1)
      /\ written'[n + 1] = w
      /\ \A i \in 1..n : written'[i] = written[i]
  BY <1>1, <1>2 DEF LogInv, LogTypes
<1>4. LogTypes'
  BY <1>1, <1>3 DEF LogInv, LogTypes
<1>5. LogOpen'
  <2>1. ASSUME NEW i \in 1..(n + 1) PROVE written'[i].run <= run
    <3>1. CASE i = n + 1
      <4>1. written'[i].run = run /\ run \in Nat
        BY <1>3, <3>1 DEF LogInv, LogTypes
      <4> QED
        BY <4>1
    <3>2. CASE i \in 1..n
      BY <1>3, <3>2 DEF LogInv, LogOpen
    <3> QED
      BY <1>3, <3>1, <3>2
  <2>2. m_cnt' # 0
    BY <1>1 DEF LogInv, LogTypes
  <2> QED
    BY <1>1, <1>3, <2>1, <2>2 DEF LogInv, LogOpen
<1>6. Log!FileOfItsDay'
  <2> SUFFICES ASSUME NEW i \in 1..(n + 1)
               PROVE  \/ Log!tm_mday(written'[i].file[1]) = Log!tm_mday(written'[i].day)
                      \/ \A j \in 1..i - 1 : written'[j].run # written'[i].run
    BY <1>3 DEF Log!FileOfItsDay
  <2>1. CASE i \in 1..n
    BY <1>3, <2>1 DEF LogInv, Log!FileOfItsDay
  <2>2. CASE i = n + 1
    BY <1>1, <1>3, <2>2 DEF LogInv, LogOpen, OfThisRun
  <2> QED
    BY <1>3, <2>1, <2>2
<1> QED
  BY <1>4, <1>5, <1>6 DEF LogInv

LEMMA LogNext == LogInv /\ [Log!Next]_logVars => LogInv'
  BY LogAround, LogStart, LogPreprocess, LogPut DEF Log!Next

(* What happens to a line between m_buffer and its file: what this run has *)
(* written, the line in the writer's hand and what m_buffer still holds    *)
(* are together all that the channel took; after a crash the first part.   *)
LogHand ==
    /\ accepted \in Seq(Nat)
    /\ item = IF writer \in {"preprocess", "put"} THEN <<item[1]>> ELSE <<>>

ThisRunAfter(b) == \A i \in DOMAIN written : written[i].run = run <=> i > b

LogOrder ==
    \E b \in 0..Len(written) :
        /\ ThisRunAfter(b)
        /\ IF writer = "none" THEN Log!IsPrefix(Log!LinesAfter(b), accepted)
           ELSE Log!LinesAfter(b) \o item \o m_buffer = accepted

(* The count of lines goes with the number of the file, which is the last  *)
(* that this run has opened.                                               *)
InFile(f) == {j \in DOMAIN written : OfThisRun(j) /\ written[j].file = f}

NotAfter(f, g) == f[1] < g[1] \/ (f[1] = g[1] /\ f[2] <= g[2])

LogSplit ==
    /\ writer \in {"read", "preprocess", "put"} =>
          /\ m_file[1] <= day
          /\ m_cnt = m_splitLines * m_file[2] + Cardinality(InFile(m_file))
          /\ \A j \in DOMAIN written : OfThisRun(j) => NotAfter(written[j].file, m_file)
    /\ writer \in {"read", "preprocess"} /\ m_cnt # 0 => Cardinality(InFile(m_file)) > 0
    /\ writer = "put" => Cardinality(InFile(m_file)) < m_splitLines
    /\ writer \in {"read", "preprocess"} => Cardinality(InFile(m_file)) <= m_splitLines

LogFull == LogInv /\ LogHand /\ LogOrder /\ LogSplit /\ Log!SplitsInTime

LEMMA LogLines ==
    ASSUME LogTypes, NEW b \in 0..Len(written)
    PROVE  /\ Log!LinesAfter(b) \in Seq(Nat)
           /\ Len(Log!LinesAfter(b)) = Len(written) - b
           /\ \A i \in 1..Len(written) - b : Log!LinesAfter(b)[i] = written[b + i].line
<1>1. written \in Seq(Line) /\ Len(written) - b \in Nat /\ Len(written) \in Nat
  BY DEF LogTypes
<1>2. \A i \in 1..Len(written) - b : written[b + i].line \in Nat
  <2>1. \A i \in 1..Len(written) - b : b + i \in 1..Len(written)
    BY <1>1
  <2>2. \A i \in 1..Len(written) : written[i] \in Line
    BY <1>1
  <2> QED
    BY <2>1, <2>2 DEF Line
<1>3. Log!LinesAfter(b) = [i \in 1..Len(written) - b |-> written[b + i].line]
  BY DEF Log!LinesAfter
<1>4. PICK s, m : s = Log!LinesAfter(b) /\ m = Len(written) - b
  OBVIOUS
<1>5. /\ m \in Nat /\ s \in [1..m -> Nat]
      /\ \A i \in 1..m : s[i] = written[b + i].line
  BY <1>1, <1>2, <1>3, <1>4
<1>6. s \in Seq(Nat) /\ Len(s) = m
  BY <1>5
<1> QED
  BY <1>4, <1>5, <1>6

LEMMA LogFullInit == Log!Init => LogFull
<1> SUFFICES ASSUME Log!Init PROVE LogFull
  OBVIOUS
<1>1. LogInv /\ LogHand
  BY LogInit DEF Log!Init, LogHand
<1>2. LogOrder
  <2>1. /\ written = <<>> /\ accepted = <<>> /\ writer = "none" /\ Len(written) = 0
    BY DEF Log!Init
  <2>2. Log!LinesAfter(0) \in Seq(Nat) /\ Len(Log!LinesAfter(0)) = 0
    BY <1>1, <2>1, LogLines DEF LogInv
  <2>3. Log!LinesAfter(0) = <<>>
    BY <2>2
  <2>4. Log!IsPrefix(Log!LinesAfter(0), accepted)
    BY <2>1, <2>3 DEF Log!IsPrefix
  <2> QED
    BY <2>1, <2>4 DEF LogOrder, ThisRunAfter
<1>3. LogSplit
  BY DEF Log!Init, LogSplit
<1>4. Log!SplitsInTime
  BY DEF Log!Init, Log!SplitsInTime
<1> QED
  BY <1>1, <1>2, <1>3, <1>4 DEF LogFull

LEMMA LogHandNext == LogFull /\ [Log!Next]_logVars => LogHand'
<1> SUFFICES ASSUME LogInv, LogHand, [Log!Next]_logVars PROVE LogHand'
  BY DEF LogFull
<1>1. CASE \/ UNCHANGED logVars \/ Log!Midnight \/ Log!Crash \/ Log!LoggerInit
           \/ Log!Preprocess \/ Log!Put \/ Log!Destroy \/ Log!CloseFile
  <2>1. accepted' = accepted \/ accepted' = <<>>
    BY <1>1 DEF logVars, Log!Midnight, Log!Crash, Log!LoggerInit, Log!Preprocess, Log!Put,
                Log!Destroy, Log!CloseFile
  <2>2. accepted \in Seq(Nat) /\ <<>> \in Seq(Nat)
    BY DEF LogHand
  <2>3. accepted' \in Seq(Nat)
    BY <2>1, <2>2
  <2>4. CASE item' = item /\ (writer' = writer \/ (writer = "preprocess" /\ writer' = "put")
                              \/ (writer = "none" /\ writer' = "read"))
    BY <2>3, <2>4 DEF LogHand
  <2>5. CASE item' = <<>> /\ writer' \in {"none", "read"}
    BY <2>3, <2>5 DEF LogHand
  <2> QED
    BY <1>1, <2>4, <2>5 DEF logVars, Log!Midnight, Log!Crash, Log!LoggerInit, Log!Preprocess,
                            Log!Put, Log!Destroy, Log!CloseFile
<1>2. CASE Log!Log
  <2>1. /\ logged' \in Nat /\ accepted \in Seq(Nat) /\ UNCHANGED <<writer, item>>
        /\ accepted' = accepted \/ accepted' = Append(accepted, logged')
    BY <1>2 DEF Log!Log, LogInv, LogTypes, LogHand
  <2>2. Append(accepted, logged') \in Seq(Nat)
    BY <2>1
  <2> QED
    BY <2>1, <2>2 DEF LogHand
<1>3. CASE Log!Read
  BY <1>3 DEF Log!Read, LogHand
<1> QED
  BY <1>1, <1>2, <1>3 DEF Log!Next

(* Lines only move on: from log() into m_buffer, into the writer's hand,   *)
(* into the file.                                                          *)
LEMMA LogOrderNext == LogFull /\ [Log!Next]_logVars => LogOrder'
<1> SUFFICES ASSUME LogInv, LogHand, LogOrder, [Log!Next]_logVars PROVE LogOrder'
  BY DEF LogFull
<1>1. PICK b \in 0..Len(written) :
         /\ ThisRunAfter(b)
         /\ IF writer = "none" THEN Log!IsPrefix(Log!LinesAfter(b), accepted)
            ELSE Log!LinesAfter(b) \o item \o m_buffer = accepted
  BY DEF LogOrder
<1>2. PICK s : s = Log!LinesAfter(b)
  OBVIOUS
<1>3. /\ s \in Seq(Nat) /\ Len(s) = Len(written) - b
      /\ \A i \in 1..Len(written) - b : s[i] = written[b + i].line
  BY <1>2, LogLines DEF LogInv
<1>4. /\ m_buffer \in Seq(Nat) /\ accepted \in Seq(Nat) /\ item \in Seq(Nat)
      /\ writer \in {"none", "read", "preprocess", "put", "exit"} /\ written \in Seq(Line)
      /\ Len(written) \in Nat /\ DOMAIN written = 1..Len(written)
  <2>1. <<>> \in Seq(Nat) /\ (writer \in {"preprocess", "put"} => <<item[1]>> \in Seq(Nat))
    BY DEF LogInv, LogTypes
  <2>2. item \in Seq(Nat)
    BY <2>1 DEF LogHand
  <2> QED
    BY <2>2 DEF LogInv, LogTypes, LogHand
<1>5. s \o item \in Seq(Nat)
  BY <1>3, <1>4, ConcatProperties
<1>6. CASE UNCHANGED <<written, run>>
  <2>1. b \in 0..Len(written') /\ ThisRunAfter(b)' /\ (Log!LinesAfter(b)' = s)
    BY <1>1, <1>2, <1>6 DEF ThisRunAfter, Log!LinesAfter
  <2>2. CASE /\ UNCHANGED <<item, m_buffer, accepted>>
             /\ writer' = writer \/ (writer # "none" /\ writer' # "none")
    BY <1>1, <1>2, <2>1, <2>2 DEF LogOrder
  <2>3. CASE Log!Crash
    <3>1. Log!IsPrefix(s, accepted)
      <4>1. (s \o item) \o m_buffer = s \o (item \o m_buffer)
        <5>1. s \in Seq(Nat) /\ item \in Seq(Nat) /\ m_buffer \in Seq(Nat)
          BY <1>3, <1>4
        <5> QED
          BY <5>1, ConcatAssociative, SMTT(30)
      <4>2. (s \o item) \o m_buffer = accepted
        BY <1>1, <1>2, <2>3 DEF Log!Crash
      <4>3. item \o m_buffer \in Seq(Nat)
        BY <1>4, ConcatProperties
      <4>4. s \o (item \o m_buffer) = accepted
        BY <4>1, <4>2
      <4> QED
        BY <1>3, <4>3, <4>4, PrefixOfConcat DEF Log!IsPrefix
    <3>2. writer' = "none" /\ accepted' = accepted
      BY <2>3 DEF Log!Crash
    <3>3. Log!IsPrefix(s, accepted)'
      BY <1>6, <3>1, <3>2 DEF Log!IsPrefix
    <3> QED
      BY <2>1, <3>1, <3>2 DEF LogOrder
  <2>4. CASE Log!Log /\ Log!Fits
    <3>1. /\ m_buffer' = Append(m_buffer, logged') /\ accepted' = Append(accepted, logged')
          /\ item' = item /\ writer' = writer /\ writer # "none" /\ logged' \in Nat
      BY <2>4 DEF Log!Log, LogInv, LogTypes
    <3>2. (s \o item) \o m_buffer = accepted
      BY <1>1, <1>2, <3>1
    <3>3. (s \o item) \o Append(m_buffer, logged') = Append((s \o item) \o m_buffer, logged')
      <4>1. s \o item \in Seq(Nat) /\ m_buffer \in Seq(Nat) /\ logged' \in Nat
        BY <1>4, <1>5, <3>1
      <4>2. PICK a : a = s \o item
        OBVIOUS
      <4>3. a \in Seq(Nat)
        BY <4>1, <4>2
      <4>4. a \o Append(m_buffer, logged') = Append(a \o m_buffer, logged')
        BY <4>1, <4>3, ConcatAppend
      <4> QED
        BY <4>2, <4>4
    <3>4. (s \o item') \o m_buffer' = accepted'
      BY <3>1, <3>2, <3>3
    <3> QED
      BY <2>1, <3>1, <3>4 DEF LogOrder
  <2>5. CASE Log!Read /\ ~bufferClosed
    <3>1. /\ writer = "read" /\ writer' = "preprocess" /\ m_buffer # <<>>
          /\ item' = <<Head(m_buffer)>> /\ m_buffer' = Tail(m_buffer) /\ accepted' = accepted
          /\ item = <<>>
      BY <2>5 DEF Log!Read, Log!Rest, LogHand
    <3>2. (s \o item) \o m_buffer = accepted
      BY <1>1, <1>2, <3>1
    <3>3. s \o item = s
      BY <1>3, <3>1, ConcatEmptySeq
    <3>4. (s \o <<Head(m_buffer)>>) \o Tail(m_buffer) = s \o m_buffer
      BY <1>3, <1>4, <3>1, HeadMoves
    <3>5. (s \o item') \o m_buffer' = accepted'
      BY <3>1, <3>2, <3>3, <3>4
    <3> QED
      BY <2>1, <3>1, <3>5 DEF LogOrder
  <2>6. ~Log!Put /\ ~Log!LoggerInit
    <3>1. Log!Put => Len(written') = Len(written) + 1
      BY <1>4 DEF Log!Put
    <3>2. Log!LoggerInit => run' # run
      BY DEF Log!LoggerInit, LogInv, LogTypes
    <3>3. Len(written') # Len(written) + 1
      <4>1. Len(written') = Len(written) /\ Len(written) \in Nat
        BY <1>4, <1>6
      <4> QED
        BY <4>1
    <3> QED
      BY <1>6, <3>1, <3>2, <3>3
  <2>7. CASE \/ UNCHANGED logVars \/ Log!Midnight \/ (Log!Log /\ ~Log!Fits)
             \/ (Log!Read /\ bufferClosed) \/ Log!Preprocess \/ Log!Destroy \/ Log!CloseFile
    <3>1. /\ UNCHANGED <<item, m_buffer, accepted>>
          /\ writer' = writer \/ (writer # "none" /\ writer' # "none")
      BY <2>7 DEF logVars, Log!Midnight, Log!Log, Log!Read, Log!Preprocess, Log!Destroy,
                  Log!CloseFile
    <3> QED
      BY <2>2, <3>1
  <2> QED
    BY <2>3, <2>4, <2>5, <2>6, <2>7 DEF Log!Next
<1>7. CASE Log!LoggerInit
  <2>1. /\ written' = written /\ run' = run + 1 /\ run \in Nat /\ writer' = "read"
        /\ accepted' = <<>> /\ m_buffer' = <<>> /\ item' = <<>>
    BY <1>7 DEF Log!LoggerInit, LogInv, LogTypes, LogHand
  <2>2. \A i \in DOMAIN written : written[i].run # run'
    <3>1. \A i \in DOMAIN written : written[i].run \in Nat
      <4>1. \A i \in DOMAIN written : written[i] \in Line
        BY <1>4
      <4> QED
        BY <4>1 DEF Line
    <3>2. \A i \in DOMAIN written : written[i].run <= run
      BY DEF LogInv, LogOpen
    <3> QED
      BY <2>1, <3>1, <3>2
  <2>3. PICK n : n = Len(written)
    OBVIOUS
  <2>4. ThisRunAfter(n)' /\ n \in 0..Len(written')
    BY <1>4, <2>1, <2>2, <2>3 DEF ThisRunAfter
  <2>5. Log!LinesAfter(n)' = <<>>
    <3>1. Log!LinesAfter(n) \in Seq(Nat) /\ Len(Log!LinesAfter(n)) = 0
      <4>1. n \in 0..Len(written) /\ Len(written) - n = 0 /\ LogTypes
        BY <1>4, <2>3 DEF LogInv
      <4>2. Log!LinesAfter(n) \in Seq(Nat) /\ Len(Log!LinesAfter(n)) = Len(written) - n
        BY <4>1, LogLines
      <4> QED
        BY <4>1, <4>2
    <3>2. Log!LinesAfter(n) = <<>>
      BY <3>1
    <3> QED
      BY <2>1, <3>2 DEF Log!LinesAfter
  <2>6. Log!LinesAfter(n)' \o item' \o m_buffer' = accepted'
    BY <2>1, <2>5
  <2> QED
    BY <2>1, <2>4, <2>6 DEF LogOrder
<1>8. CASE Log!Put
  <2>1. PICK w : w = [run |-> run, file |-> m_file, line |-> item[1], day |-> seen]
    OBVIOUS
  <2>2. /\ written' = Append(written, w) /\ writer = "put" /\ writer' = "read"
        /\ item' = <<>> /\ UNCHANGED <<m_buffer, accepted, run>>
        /\ item = <<item[1]>> /\ item[1] \in Nat
    BY <1>8, <2>1 DEF Log!Put, LogInv, LogTypes, LogHand
  <2>3. /\ Len(written') = Len(written) + 1 /\ DOMAIN written' = 1..Len(written) + 1
        /\ \A i \in 1..Len(written) : written'[i] = written[i]
        /\ written'[Len(written) + 1] = w
    BY <1>4, <2>2
  <2>4. b \in 0..Len(written') /\ ThisRunAfter(b)'
    <3>1. b \in 0..Len(written')
      BY <1>4, <2>3
    <3>2. ASSUME NEW i \in 1..Len(written) PROVE written'[i].run = run' <=> i > b
      BY <1>1, <1>4, <2>2, <2>3, <3>2 DEF ThisRunAfter
    <3>3. written'[Len(written) + 1].run = run' /\ Len(written) + 1 > b
      BY <1>4, <2>1, <2>2, <2>3
    <3>4. \A i \in 1..Len(written) + 1 : i \in 1..Len(written) \/ i = Len(written) + 1
      BY <1>4
    <3> QED
      BY <2>3, <3>1, <3>2, <3>3, <3>4 DEF ThisRunAfter
  <2>5. Log!LinesAfter(b)' = s \o item
    <3>1. Log!LinesAfter(b)' = [i \in 1..Len(written) + 1 - b |-> written'[b + i].line]
      BY <2>3 DEF Log!LinesAfter
    <3>2. PICK u : u = s \o item
      OBVIOUS
    <3>3. /\ u \in Seq(Nat) /\ Len(u) = Len(s) + 1
          /\ \A i \in 1..Len(s) : u[i] = s[i]
          /\ u[Len(s) + 1] = item[1]
      <4>1. PICK x : x = item[1]
        OBVIOUS
      <4>2. x \in Nat /\ item = <<x>>
        BY <2>2, <4>1
      <4>3. s \o <<x>> = Append(s, x)
        BY <1>3, <4>2, AppendIsConcat
      <4>4. u = Append(s, x)
        BY <3>2, <4>2, <4>3
      <4> QED
        BY <1>3, <4>1, <4>2, <4>4
    <3>4. DOMAIN u = 1..Len(written) + 1 - b
      BY <1>1, <1>3, <1>4, <3>3
    <3>5. ASSUME NEW i \in 1..Len(written) + 1 - b PROVE u[i] = written'[b + i].line
      <4>1. CASE i = Len(s) + 1
        BY <1>1, <1>3, <1>4, <2>1, <2>3, <3>3, <4>1, SMTT(30)
      <4>2. CASE i \in 1..Len(s)
        <5>1. i \in 1..Len(written) - b /\ b + i \in 1..Len(written)
          BY <1>1, <1>3, <1>4, <4>2
        <5>2. u[i] = s[i] /\ s[i] = written[b + i].line /\ written'[b + i] = written[b + i]
          BY <1>3, <2>3, <3>3, <4>2, <5>1
        <5> QED
          BY <5>2
      <4>3. i = Len(s) + 1 \/ i \in 1..Len(s)
        <5>1. Len(s) = Len(written) - b /\ b \in Nat /\ Len(written) \in Nat
          BY <1>1, <1>3, <1>4
        <5> QED
          BY <5>1
      <4> QED
        BY <4>1, <4>2, <4>3
    <3>6. u = [i \in 1..Len(written) + 1 - b |-> u[i]]
      BY <3>3, <3>4
    <3> QED
      BY <3>1, <3>2, <3>5, <3>6
  <2>6. (s \o item) \o <<>> = s \o item
    BY <1>5, ConcatEmptySeq
  <2>7. Log!LinesAfter(b)' \o item' \o m_buffer' = accepted'
    BY <1>1, <1>2, <2>2, <2>5, <2>6
  <2> QED
    BY <2>2, <2>4, <2>7 DEF LogOrder
<1>9. Log!Put \/ Log!LoggerInit \/ UNCHANGED <<written, run>>
  BY DEF Log!Next, logVars, Log!Midnight, Log!Crash, Log!Log, Log!Read, Log!Preprocess,
         Log!Destroy, Log!CloseFile
<1> QED
  BY <1>6, <1>7, <1>8, <1>9

-----------------------------------------------------------------------------
(* n lines, at least one, come after the s * f lines of the files before:  *)
(* the count is a multiple of s when there are s of them.                  *)
LEMMA FullFile ==
    ASSUME NEW f \in Nat, NEW n \in 1..m_splitLines
    PROVE  LET c == m_splitLines * f + n
           IN  /\ c % m_splitLines = 0 <=> n = m_splitLines
               /\ n = m_splitLines => c \div m_splitLines = f + 1
<1>1. PICK s : s = m_splitLines
  OBVIOUS
<1>2. s \in Nat \ {0} /\ n \in 1..s
  BY <1>1, BricksAssumption
<1>3. PICK c : c = s * f + n
  OBVIOUS
<1>4. c \in Nat
  BY <1>2, <1>3
<1>5. PICK q, r : q = c \div s /\ r = c % s
  OBVIOUS
<1>6. q \in Int /\ r \in 0..(s - 1) /\ c = s * q + r
  BY <1>2, <1>4, <1>5
<1>7. PICK k : k = f - q
  OBVIOUS
<1>8. k \in Int /\ s * k = r - n
  <2>1. k \in Int /\ s * k = s * f - s * q
    BY <1>2, <1>6, <1>7
  <2>2. s * f \in Int /\ s * q \in Int /\ s * f + n = s * q + r
    BY <1>2, <1>3, <1>6
  <2> QED
    BY <1>2, <1>6, <2>1, <2>2
<1>9. k = 0 \/ k = -1
  <2>1. CASE k >= 1
    <3>1. s * k >= s
      BY <1>2, <1>8, <2>1
    <3> QED
      BY <1>2, <1>6, <1>8, <3>1
  <2>2. CASE k <= -2
    <3>1. s * k <= -2 * s
      BY <1>2, <1>8, <2>2
    <3> QED
      BY <1>2, <1>6, <1>8, <3>1
  <2> QED
    BY <1>8, <2>1, <2>2
<1>10. CASE k = 0
  <2>1. r = n
    BY <1>2, <1>6, <1>8, <1>10
  <2> QED
    BY <1>1, <1>2, <1>3, <1>5, <1>6, <2>1
<1>11. CASE k = -1
  <2>1. r = n - s
    BY <1>2, <1>6, <1>8, <1>11
  <2>2. r = 0 /\ n = s
    BY <1>2, <1>6, <2>1
  <2>3. q = f + 1
    BY <1>6, <1>7, <1>11
  <2> QED
    BY <1>1, <1>3, <1>5, <2>2, <2>3
<1> QED
  BY <1>9, <1>10, <1>11

LEMMA LogFiles ==
    ASSUME LogTypes, NEW f
    PROVE  /\ IsFiniteSet(InFile(f)) /\ Cardinality(InFile(f)) \in Nat
           /\ Cardinality(InFile(f)) = 0 => InFile(f) = {}
           /\ InFile(f) \subseteq 1..Len(written)
           /\ \A i \in DOMAIN written : IsFiniteSet({j \in DOMAIN written : Log!Beside(i, j)})
<1>1. DOMAIN written = 1..Len(written) /\ IsFiniteSet(1..Len(written))
  <2>1. Len(written) \in Nat /\ DOMAIN written = 1..Len(written)
    BY DEF LogTypes
  <2> QED
    BY <2>1, FS_Interval
<1>2. InFile(f) \subseteq 1..Len(written) /\ IsFiniteSet(InFile(f))
  BY <1>1, FS_Subset DEF InFile
<1>3. \A i \in DOMAIN written : IsFiniteSet({j \in DOMAIN written : Log!Beside(i, j)})
  BY <1>1, FS_Subset
<1> QED
  BY <1>2, <1>3, FS_CardinalityType, FS_EmptySet

(* The steps that write no line and change no file.                        *)
LEMMA LogSplitAround ==
    LogFull /\ (\/ UNCHANGED logVars \/ Log!Midnight \/ Log!Crash \/ Log!Log
                \/ Log!Read \/ Log!Destroy \/ Log!CloseFile)
        => LogSplit' /\ Log!SplitsInTime'
<1> SUFFICES ASSUME LogFull,
                    \/ UNCHANGED logVars \/ Log!Midnight \/ Log!Crash \/ Log!Log
                    \/ Log!Read \/ Log!Destroy \/ Log!CloseFile
             PROVE  LogSplit' /\ Log!SplitsInTime'
  OBVIOUS
<1> USE DEF logVars, Log!Midnight, Log!Crash, Log!Log, Log!Read, Log!Destroy, Log!CloseFile,
            Log!WriterLeft
<1>1. UNCHANGED <<written, run, m_cnt>>
  OBVIOUS
<1>2. /\ day' = day \/ day' = day + 1
      /\ \/ writer' \in {"none", "exit"}
         \/ writer' = writer /\ m_file' = m_file
         \/ writer = "read" /\ writer' = "preprocess" /\ m_file' = m_file
         \/ writer = "exit" /\ writer' = "exit"
  OBVIOUS
<1>3. \A f : InFile(f)' = InFile(f)
  BY <1>1 DEF InFile, OfThisRun
<1>4. Log!SplitsInTime'
  BY <1>1 DEF LogFull, Log!SplitsInTime, Log!Beside
<1>5. LogSplit'
  <2>1. CASE writer' \in {"none", "exit"}
    BY <2>1 DEF LogSplit
  <2>2. CASE /\ m_file' = m_file
             /\ writer' = writer \/ (writer = "read" /\ writer' = "preprocess")
    <3>1. InFile(m_file)' = InFile(m_file)
      BY <1>1, <2>2 DEF InFile, OfThisRun
    <3>2. writer \in {"read", "preprocess", "put"} => m_file[1] \in Nat /\ day \in Nat
      BY DEF LogFull, LogInv, LogTypes, LogOpen
    <3>3. \A j \in DOMAIN written : OfThisRun(j)' <=> OfThisRun(j)
      BY <1>1 DEF OfThisRun
    <3> QED
      BY <1>1, <1>2, <2>2, <3>1, <3>2, <3>3 DEF LogFull, LogSplit
  <2> QED
    BY <1>2, <2>1, <2>2
<1> QED
  BY <1>4, <1>5

LEMMA LogSplitStart == LogFull /\ Log!LoggerInit => LogSplit' /\ Log!SplitsInTime'
<1> SUFFICES ASSUME LogFull, Log!LoggerInit PROVE LogSplit' /\ Log!SplitsInTime'
  OBVIOUS
<1>1. /\ written' = written /\ run' = run + 1 /\ run \in Nat /\ writer' = "read" /\ m_cnt' = 0
      /\ m_file' = <<day, 0>> /\ day' = day /\ day \in Nat
  BY DEF Log!LoggerInit, LogFull, LogInv, LogTypes
<1>2. \A i \in DOMAIN written : written[i].run # run'
  <2>1. \A i \in DOMAIN written : written[i].run \in Nat
    <3>1. \A i \in DOMAIN written : written[i] \in Line
      BY DEF LogFull, LogInv, LogTypes
    <3> QED
      BY <3>1 DEF Line
  <2>2. \A i \in DOMAIN written : written[i].run <= run
    BY DEF LogFull, LogInv, LogOpen
  <2> QED
    BY <1>1, <2>1, <2>2
<1>3. InFile(m_file)' = {} /\ \A j \in DOMAIN written' : ~OfThisRun(j)'
  BY <1>1, <1>2 DEF InFile, OfThisRun
<1>4. Cardinality(InFile(m_file)') = 0
  BY <1>3, FS_EmptySet
<1>5. m_splitLines \in Nat \ {0} /\ m_splitLines * 0 = 0
  BY BricksAssumption
<1>6. LogSplit'
  BY <1>1, <1>3, <1>4, <1>5 DEF LogSplit
<1>7. Log!SplitsInTime'
  BY <1>1 DEF LogFull, Log!SplitsInTime, Log!Beside
<1> QED
  BY <1>6, <1>7

(* A new file is opened as soon as there are splitLines lines in the last  *)
(* one, and it is one that this run has not written to.                    *)
LEMMA LogSplitPreprocess == LogFull /\ Log!Preprocess => LogSplit' /\ Log!SplitsInTime'
<1> SUFFICES ASSUME LogFull, Log!Preprocess PROVE LogSplit' /\ Log!SplitsInTime'
  OBVIOUS
<1>1. /\ UNCHANGED <<day, run, written>> /\ writer = "preprocess" /\ writer' = "put"
      /\ LogTypes /\ LogSplit /\ day \in Nat /\ m_cnt \in Nat
      /\ m_file \in Nat \X Nat /\ m_today = Log!tm_mday(m_file[1])
      /\ m_splitLines \in Nat \ {0}
  BY BricksAssumption DEF Log!Preprocess, LogFull, LogInv, LogTypes, LogOpen
<1>2. PICK n, s, f : n = Cardinality(InFile(m_file)) /\ s = m_splitLines /\ f = m_file[2]
  OBVIOUS
<1>3. /\ n \in Nat /\ s \in Nat \ {0} /\ f \in Nat /\ m_cnt = s * f + n
      /\ m_file[1] \in Nat /\ m_file[1] <= day /\ n <= s
      /\ m_cnt # 0 => n > 0
      /\ \A j \in DOMAIN written : OfThisRun(j) => NotAfter(written[j].file, m_file)
  BY <1>1, <1>2, LogFiles DEF LogSplit
<1>4. Log!SplitsInTime'
  BY <1>1 DEF LogFull, Log!SplitsInTime, Log!Beside
<1>5. \A j \in DOMAIN written : OfThisRun(j)' <=> OfThisRun(j)
  BY <1>1 DEF OfThisRun
<1>6. \A j \in DOMAIN written : written[j].file[1] \in Nat /\ written[j].file[2] \in Nat
  <2>1. \A j \in DOMAIN written : written[j] \in Line
    BY <1>1 DEF LogTypes
  <2> QED
    BY <2>1 DEF Line
<1>7. ASSUME NEW d \in Nat, NEW g \in Nat, m_file' = <<d, g>>, d <= day,
             d > m_file[1] \/ (d = m_file[1] /\ g > f), m_cnt' = s * g
      PROVE  LogSplit'
  <2>1. \A j \in DOMAIN written : OfThisRun(j) =>
           NotAfter(written[j].file, <<d, g>>) /\ written[j].file # <<d, g>>
    BY <1>2, <1>3, <1>6, <1>7 DEF NotAfter
  <2>2. InFile(m_file)' = {}
    BY <1>1, <1>5, <1>7, <2>1 DEF InFile
  <2>3. Cardinality(InFile(m_file)') = 0
    BY <2>2, FS_EmptySet
  <2>4. m_cnt' = s * g + 0 /\ s > 0
    BY <1>3, <1>7
  <2> QED
    BY <1>1, <1>2, <1>5, <1>7, <2>1, <2>3, <2>4 DEF LogSplit
<1>8. CASE m_cnt # 0 /\ Log!NewDay
  <2>1. m_file' = <<day, 0>> /\ m_cnt' = 0
    BY <1>8 DEF Log!Preprocess, Log!FileAfter, Log!CountAfter
  <2>2. day > m_file[1]
    BY <1>1, <1>3, <1>8 DEF Log!NewDay
  <2>3. s * 0 = 0 /\ day <= day
    BY <1>1, <1>3
  <2> QED
    BY <1>1, <1>4, <1>7, <2>1, <2>2, <2>3
<1>9. CASE m_cnt # 0 /\ ~Log!NewDay /\ Log!Full
  <2>1. n \in 1..m_splitLines /\ m_cnt = m_splitLines * f + n
    BY <1>2, <1>3, <1>9
  <2>2. m_cnt % m_splitLines = 0
    BY <1>9 DEF Log!Full
  <2>3. n = s /\ m_cnt \div m_splitLines = f + 1
    BY <1>2, <1>3, <2>1, <2>2, FullFile
  <2>4. m_file' = <<day, f + 1>> /\ m_cnt' = m_cnt
    BY <1>9, <2>3 DEF Log!Preprocess, Log!FileAfter, Log!CountAfter
  <2>5. m_cnt' = s * (f + 1) /\ f + 1 \in Nat /\ f + 1 > f
    BY <1>3, <2>3, <2>4
  <2>6. day > m_file[1] \/ day = m_file[1]
    BY <1>1, <1>3
  <2> QED
    BY <1>1, <1>4, <1>7, <2>4, <2>5, <2>6
<1>10. CASE ~(m_cnt # 0 /\ (Log!NewDay \/ Log!Full))
  <2>1. m_file' = m_file /\ m_cnt' = m_cnt
    BY <1>10 DEF Log!Preprocess
  <2>2. n < s
    <3>1. CASE m_cnt = 0
      <4>1. s * f \in Nat
        BY <1>3
      <4> QED
        BY <1>3, <3>1, <4>1
    <3>2. CASE m_cnt # 0
      <4>1. n \in 1..m_splitLines /\ m_cnt = m_splitLines * f + n
        BY <1>2, <1>3, <3>2
      <4>2. m_cnt % m_splitLines # 0
        BY <1>10, <3>2 DEF Log!Full
      <4>3. n # m_splitLines
        <5>1. f \in Nat /\ n \in 1..m_splitLines
          BY <1>3, <4>1
        <5>2. (m_splitLines * f + n) % m_splitLines = 0 <=> n = m_splitLines
          BY <5>1, FullFile, Zenon
        <5> QED
          BY <4>1, <4>2, <5>2
      <4> QED
        BY <1>2, <1>3, <4>3
    <3> QED
      BY <3>1, <3>2
  <2>3. InFile(m_file)' = InFile(m_file)
    BY <1>1, <1>5, <2>1 DEF InFile
  <2>4. LogSplit'
    BY <1>1, <1>2, <1>3, <1>5, <2>1, <2>2, <2>3 DEF LogSplit
  <2> QED
    BY <1>4, <2>4
<1> QED
  BY <1>8, <1>9, <1>10

LEMMA LogSplitPut == LogFull /\ Log!Put => LogSplit' /\ Log!SplitsInTime'
<1> SUFFICES ASSUME LogFull, Log!Put PROVE LogSplit' /\ Log!SplitsInTime'
  OBVIOUS
<1>1. PICK w, n : /\ w = [run |-> run, file |-> m_file, line |-> item[1], day |-> seen]
                  /\ n = Len(written)
  OBVIOUS
<1>2. /\ UNCHANGED <<day, run, m_file>> /\ writer = "put" /\ writer' = "read"
      /\ m_cnt' = m_cnt + 1 /\ m_cnt \in Nat /\ written' = Append(written, w)
      /\ LogTypes /\ LogSplit /\ day \in Nat /\ m_file \in Nat \X Nat
      /\ m_splitLines \in Nat \ {0}
  BY <1>1, BricksAssumption DEF Log!Put, LogFull, LogInv, LogTypes, LogOpen
<1>3. /\ n \in Nat /\ DOMAIN written = 1..n /\ DOMAIN written' = 1..(n + 1)
      /\ written'[n + 1] = w /\ w.run = run /\ w.file = m_file
      /\ \A i \in 1..n : written'[i] = written[i]
  BY <1>1, <1>2 DEF LogTypes
<1>4. /\ IsFiniteSet(InFile(m_file)) /\ Cardinality(InFile(m_file)) \in Nat
      /\ InFile(m_file) \subseteq 1..n /\ n + 1 \notin InFile(m_file)
  BY <1>1, <1>2, <1>3, LogFiles
<1>5. InFile(m_file)' = InFile(m_file) \cup {n + 1}
  BY <1>2, <1>3 DEF InFile, OfThisRun
<1>6. Cardinality(InFile(m_file)') = Cardinality(InFile(m_file)) + 1
  BY <1>4, <1>5, FS_AddElement
<1>7. Cardinality(InFile(m_file)) + 1 <= m_splitLines
  BY <1>2, <1>4 DEF LogSplit
<1>8. LogSplit'
  <2>1. \A j \in DOMAIN written' : OfThisRun(j)' => NotAfter(written'[j].file, m_file)
    <3>1. NotAfter(m_file, m_file)
      BY <1>2 DEF NotAfter
    <3>2. \A j \in 1..n : OfThisRun(j)' => NotAfter(written'[j].file, m_file)
      BY <1>2, <1>3 DEF LogSplit, OfThisRun
    <3> QED
      BY <1>3, <3>1, <3>2
  <2>2. m_cnt' = m_splitLines * m_file[2] + Cardinality(InFile(m_file)')
    <3>1. m_cnt = m_splitLines * m_file[2] + Cardinality(InFile(m_file))
      BY <1>2 DEF LogSplit
    <3>2. m_splitLines * m_file[2] \in Nat
      BY <1>2
    <3> QED
      BY <1>2, <1>4, <1>6, <3>1, <3>2
  <2>3. m_file[1] <= day /\ Cardinality(InFile(m_file)') > 0
    BY <1>2, <1>4, <1>6 DEF LogSplit
  <2> QED
    BY <1>2, <1>4, <1>6, <1>7, <2>1, <2>2, <2>3 DEF LogSplit, NotAfter
<1>9. Log!SplitsInTime'
  <2> SUFFICES ASSUME NEW i \in DOMAIN written'
               PROVE  Cardinality({j \in DOMAIN written' : Log!Beside(i, j)'}) <= m_splitLines
    BY SameCardinality DEF Log!SplitsInTime
  <2>1. CASE written'[i].run = run /\ written'[i].file = m_file
    <3>1. {j \in DOMAIN written' : Log!Beside(i, j)'} = InFile(m_file)'
      BY <1>2, <2>1 DEF InFile, OfThisRun, Log!Beside
    <3> QED
      BY <1>6, <1>7, <3>1
  <2>2. CASE ~(written'[i].run = run /\ written'[i].file = m_file)
    <3>1. i \in 1..n
      BY <1>3, <2>2
    <3>2. {j \in DOMAIN written' : Log!Beside(i, j)'} = {j \in DOMAIN written : Log!Beside(i, j)}
      BY <1>3, <2>2, <3>1 DEF Log!Beside
    <3>3. Cardinality({j \in DOMAIN written : Log!Beside(i, j)}) <= m_splitLines
      BY <1>3, <3>1, SameCardinality DEF LogFull, Log!SplitsInTime
    <3> QED
      BY <3>2, <3>3
  <2> QED
    BY <2>1, <2>2
<1> QED
  BY <1>8, <1>9

LEMMA LogFullNext == LogFull /\ [Log!Next]_logVars => LogFull'
<1>1. LogFull /\ [Log!Next]_logVars => LogSplit' /\ Log!SplitsInTime'
  BY LogSplitAround, LogSplitStart, LogSplitPreprocess, LogSplitPut DEF Log!Next
<1>2. LogFull /\ [Log!Next]_logVars => LogInv'
  BY LogNext DEF LogFull
<1> QED
  BY <1>1, <1>2, LogHandNext, LogOrderNext DEF LogFull

-----------------------------------------------------------------------------
(* The composition: each component takes its own steps.                    *)

LEMMA BricksSteps ==
    [BricksNext]_<<which, vars, logVars, ptrVars, oneVars, coVars>> =>
        /\ [Ptr!Next]_ptrVars /\ [One!Next]_oneVars /\ [Co!Next]_coVars
        /\ [Log!Next]_logVars
  BY DEF BricksNext

(* One function is executed, and every call of onceDo returns after it has *)
(* ended, whatever the number of callers.                                  *)
THEOREM BricksRunsOnce == BricksSpec => []RunsOnce
<1>1. BricksInit => OnceInv
  BY OnceInit DEF BricksInit
<1>2. OnceInv /\ [BricksNext]_<<which, vars, logVars, ptrVars, oneVars, coVars>> => OnceInv'
  BY OnceNext, BricksSteps
<1>3. OnceInv => RunsOnce
  <2> SUFFICES ASSUME OnceInv
               PROVE  /\ Cardinality(began) <= 1
                      /\ \A c \in Callers : at[c] = "returned" => Cardinality(ended) = 1
    BY SameCardinality DEF RunsOnce, One!RunsOnce
  <2>1. CASE m_done
    <3>1. PICK d \in Callers : began = {d} /\ ended = {d}
      BY <2>1 DEF OnceInv, OncePhase
    <3>2. Cardinality({d}) = 1
      BY FS_Singleton
    <3> QED
      BY <3>1, <3>2
  <2>2. CASE ~m_done
    <3>1. began = {} \/ \E d \in Callers : began = {d}
      BY <2>2 DEF OnceInv, OncePhase
    <3>2. Cardinality(began) <= 1
      BY <3>1, FS_Singleton, FS_EmptySet
    <3> QED
      BY <2>2, <3>2 DEF OnceInv, OncePhase
  <2> QED
    BY <2>1, <2>2
<1> QED
  BY <1>1, <1>2, <1>3, PTL DEF BricksSpec

(* The counters of SharedPtr are exact at every step of every thread, an   *)
(* object is deleted once, by the last reference, and nobody counts on a   *)
(* deleted object.                                                         *)
THEOREM BricksUseCountExact == BricksSpec => []UseCountExact
<1>1. BricksInit => PtrInv
  BY PtrInit DEF BricksInit
<1>2. PtrInv /\ [BricksNext]_<<which, vars, logVars, ptrVars, oneVars, coVars>> => PtrInv'
  BY PtrNext, BricksSteps
<1>3. PtrInv => UseCountExact
  <2> SUFFICES ASSUME PtrInv, NEW o \in Objects, deleted[o] # -1
               PROVE  /\ count[o] = Cardinality({i \in Instances :
                                        m_ptr[i] = o /\ ~Ptr!Uncounted(i)})
                      /\ deleted[o] <= 1
                      /\ deleted[o] = 1 => count[o] = 0
                      /\ \A u \in Ptr!Calling :
                            call[u].at \in {"release", "delete", "count"}
                                /\ m_ptr[call[u].this] = o => deleted[o] = 0
    BY SameCardinality DEF UseCountExact, Ptr!UseCountExact
  <2>1. /\ count[o] = Cardinality({i \in Instances : m_ptr[i] = o /\ ~Ptr!Uncounted(i)})
        /\ deleted[o] = 1 => count[o] = 0
    BY DEF PtrInv, PtrCounts, Counted
  <2>2. deleted[o] <= 1
    BY DEF PtrInv, PtrTypes
  <2>3. ASSUME NEW u \in Ptr!Calling, m_ptr[call[u].this] = o
        PROVE  call[u].at \in {"release", "delete", "count"} => deleted[o] = 0
    <3>1. call[u] \in PtrCalls /\ call[u].this \in Instances
      BY DEF PtrInv, PtrTypes, PtrCalls, Ptr!Calling
    <3>2. CASE call[u].at = "release"
      <4>1. ~Ptr!Uncounted(call[u].this)
        BY <3>2 DEF Ptr!Uncounted, PtrInv, PtrAlone
      <4> QED
        BY <2>3, <3>1, <4>1, PtrCountedAlive
    <3>3. CASE call[u].at = "delete"
      BY <2>3, <3>3 DEF PtrInv, PtrProgress
    <3>4. CASE call[u].at = "count"
      <4>1. call[u].op = "copy" /\ m_ptr[call[u].other] = o
        BY <2>3, <3>4 DEF PtrInv, PtrProgress
      <4> QED
        BY <4>1, PtrSourceCounted, PtrCountedAlive
    <3> QED
      BY <3>2, <3>3, <3>4
  <2> QED
    BY <2>1, <2>2, <2>3
<1> QED
  BY <1>1, <1>2, <1>3, PTL DEF BricksSpec

(* A coroutine goes on where it was left, on its own stack, and GetThis()  *)
(* is the one that runs, whatever the number of coroutines.                *)
THEOREM BricksResumesWhereLeft == BricksSpec => []ResumesWhereLeft
<1>1. BricksInit => CoInv
  BY CoInit DEF BricksInit
<1>2. CoInv /\ [BricksNext]_<<which, vars, logVars, ptrVars, oneVars, coVars>> => CoInv'
  BY CoNext, BricksSteps
<1>3. CoInv => ResumesWhereLeft
  BY BricksAssumption
     DEF ResumesWhereLeft, Co!ResumesWhereLeft, CoInv, CoTypes, CoWhoRuns, Co!All
<1> QED
  BY <1>1, <1>2, <1>3, PTL DEF BricksSpec

(* A line is in a file of the day on which it was written, the first line  *)
(* of a run aside, for every splitLines and any number of days and runs.   *)
THEOREM BricksFileOfItsDay == BricksSpec => []FileOfItsDay
<1>1. BricksInit => LogInv
  BY LogInit DEF BricksInit
<1>2. LogInv /\ [BricksNext]_<<which, vars, logVars, ptrVars, oneVars, coVars>> => LogInv'
  BY LogNext, BricksSteps
<1>3. LogInv => FileOfItsDay
  BY DEF LogInv, FileOfItsDay
<1> QED
  BY <1>1, <1>2, <1>3, PTL DEF BricksSpec

LEMMA LogAlways == BricksSpec => []LogFull
<1>1. BricksInit => LogFull
  BY LogFullInit DEF BricksInit
<1>2. LogFull /\ [BricksNext]_<<which, vars, logVars, ptrVars, oneVars, coVars>> => LogFull'
  BY LogFullNext, BricksSteps
<1> QED
  BY <1>1, <1>2, PTL DEF BricksSpec

(* The lines of a run come into its files once each and in the order in    *)
(* which m_buffer took them, over any number of crashes, restarts and      *)
(* midnights; until the destructor closes m_buffer nothing is missing      *)
(* between what was written and what is still to be.                       *)
THEOREM BricksInOrder == BricksSpec => []InOrder
<1>1. LogFull => InOrder
  <2> SUFFICES ASSUME LogFull PROVE Log!InOrder
    BY DEF InOrder
  <2>1. PICK b \in 0..Len(written) :
           /\ ThisRunAfter(b)
           /\ IF writer = "none" THEN Log!IsPrefix(Log!LinesAfter(b), accepted)
              ELSE Log!LinesAfter(b) \o item \o m_buffer = accepted
    BY DEF LogFull, LogOrder
  <2>2. PICK s : s = Log!LinesAfter(b)
    OBVIOUS
  <2>3. s \in Seq(Nat)
    BY <2>2, LogLines DEF LogFull, LogInv
  <2>4. item \in Seq(Nat) /\ m_buffer \in Seq(Nat)
    <3>1. <<>> \in Seq(Nat) /\ (writer \in {"preprocess", "put"} => <<item[1]>> \in Seq(Nat))
      BY DEF LogFull, LogInv, LogTypes
    <3>2. item \in Seq(Nat)
      BY <3>1 DEF LogFull, LogHand
    <3> QED
      BY <3>2 DEF LogFull, LogInv, LogTypes
  <2>5. ASSUME writer # "none" PROVE Log!IsPrefix(s, accepted)
    <3>1. (s \o item) \o m_buffer = s \o (item \o m_buffer)
      BY <2>3, <2>4, ConcatAssociative, SMTT(30)
    <3>2. item \o m_buffer \in Seq(Nat)
      BY <2>4, ConcatProperties
    <3>3. s \o (item \o m_buffer) = accepted
      BY <2>1, <2>2, <2>5, <3>1
    <3> QED
      BY <2>3, <3>2, <3>3, PrefixOfConcat DEF Log!IsPrefix
  <2>6. IF writer = "none" \/ bufferClosed THEN Log!IsPrefix(s, accepted)
        ELSE s \o item \o m_buffer = accepted
    BY <2>1, <2>2, <2>5
  <2> QED
    BY <2>1, <2>2, <2>6 DEF Log!InOrder, ThisRunAfter
<1> QED
  BY LogAlways, <1>1, PTL

(* No run puts more than splitLines lines into a file, whatever the number *)
(* of lines, of days and of runs before it.                                *)
THEOREM BricksSplitsInTime == BricksSpec => []SplitsInTime
<1>1. LogFull => SplitsInTime
  BY DEF LogFull, SplitsInTime
<1> QED
  BY LogAlways, <1>1, PTL
=============================================================================
