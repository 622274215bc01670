------------------------------ MODULE SeqLemmas ------------------------------
(***************************************************************************)
(* Lemmas about sequences without repetitions and about cardinalities, for *)
(* the proofs of the components that keep their resources in queues.       *)
(***************************************************************************)
EXTENDS Integers, Sequences, FiniteSets, FiniteSetTheorems, SequenceTheorems, TLAPS

ElemsOf(q) == {q[i] : i \in DOMAIN q}

Distinct(q) == \A i, j \in DOMAIN q : q[i] = q[j] => i = j

(* A sequence without repetitions has as many elements as slots.           *)
LEMMA DistinctCardinality ==
    ASSUME NEW S, NEW q \in Seq(S), Distinct(q)
    PROVE  IsFiniteSet(ElemsOf(q)) /\ Cardinality(ElemsOf(q)) = Len(q)
<1> DEFINE f == [i \in 1..Len(q) |-> q[i]]
<1>1. DOMAIN q = 1..Len(q) /\ Len(q) \in Nat
  OBVIOUS
<1>2. IsFiniteSet(1..Len(q)) /\ Cardinality(1..Len(q)) = Len(q)
  <2>1. 1 \in Int /\ Len(q) \in Int
    BY <1>1
  <2>2. /\ IsFiniteSet(1..Len(q))
        /\ Cardinality(1..Len(q)) = IF 1 > Len(q) THEN 0 ELSE Len(q) - 1 + 1
    BY <2>1, FS_Interval, Zenon
  <2> QED
    BY <1>1, <2>2
<1>3. f \in Bijection(1..Len(q), ElemsOf(q))
  <2>1. f \in [1..Len(q) -> ElemsOf(q)]
    BY <1>1 DEF ElemsOf
  <2>2. \A i, j \in 1..Len(q) : f[i] = f[j] => i = j
    BY <1>1 DEF Distinct
  <2>3. \A x \in ElemsOf(q) : \E i \in 1..Len(q) : f[i] = x
    BY <1>1 DEF ElemsOf
  <2> QED
    BY <2>1, <2>2, <2>3 DEF Bijection, Injection, Surjection, IsInjective
<1>4. ExistsBijection(1..Len(q), ElemsOf(q))
  BY <1>3 DEF ExistsBijection
<1> QED
  BY <1>2, <1>4, FS_Bijection

(* An element that is not in the sequence is appended.                     *)
LEMMA DistinctAppend ==
    ASSUME NEW S, NEW q \in Seq(S), NEW x \in S, Distinct(q), x \notin ElemsOf(q)
    PROVE  /\ Append(q, x) \in Seq(S)
           /\ Distinct(Append(q, x))
           /\ ElemsOf(Append(q, x)) = ElemsOf(q) \cup {x}
<1> DEFINE r == Append(q, x)
<1>1. /\ r \in Seq(S) /\ Len(r) = Len(q) + 1
      /\ DOMAIN q = 1..Len(q) /\ DOMAIN r = 1..(Len(q) + 1)
      /\ Len(q) \in Nat
      /\ \A i \in 1..Len(q) : r[i] = q[i]
      /\ r[Len(q) + 1] = x
  OBVIOUS
<1> HIDE DEF r
<1>2. Distinct(r)
  BY <1>1 DEF Distinct, ElemsOf
<1>3. ElemsOf(r) = ElemsOf(q) \cup {x}
  BY <1>1, SMTT(30) DEF ElemsOf
<1> QED
  BY <1>1, <1>2, <1>3 DEF r

(* The first n elements are taken off.                                     *)
LEMMA DistinctSuffix ==
    ASSUME NEW S, NEW q \in Seq(S), NEW n \in 0..Len(q), Distinct(q)
    PROVE  LET r == SubSeq(q, n + 1, Len(q))
           IN  /\ r \in Seq(S) /\ Len(r) = Len(q) - n
               /\ Distinct(r)
               /\ ElemsOf(r) \subseteq ElemsOf(q)
<1> DEFINE r == SubSeq(q, n + 1, Len(q))
<1>1. /\ r \in Seq(S) /\ Len(r) = Len(q) - n
      /\ DOMAIN q = 1..Len(q) /\ DOMAIN r = 1..(Len(q) - n)
      /\ Len(q) \in Nat
      /\ \A i \in 1..(Len(q) - n) : r[i] = q[n + i]
  OBVIOUS
<1> HIDE DEF r
<1>2. Distinct(r)
  <2>1. ASSUME NEW i \in 1..(Len(q) - n), NEW j \in 1..(Len(q) - n), r[i] = r[j]
        PROVE  i = j
    <3>1. n + i \in DOMAIN q /\ n + j \in DOMAIN q /\ q[n + i] = q[n + j]
      BY <1>1, <2>1
    <3>2. n + i = n + j
      BY <3>1 DEF Distinct
    <3> QED
      BY <3>2
  <2> QED
    BY <1>1, <2>1 DEF Distinct
<1>3. ElemsOf(r) \subseteq ElemsOf(q)
  <2>1. ASSUME NEW i \in 1..(Len(q) - n) PROVE r[i] \in ElemsOf(q)
    <3>1. n + i \in DOMAIN q /\ r[i] = q[n + i]
      BY <1>1, <2>1
    <3> QED
      BY <3>1 DEF ElemsOf
  <2> QED
    BY <1>1, <2>1 DEF ElemsOf
<1> QED
  BY <1>1, <1>2, <1>3 DEF r

(* The first element is taken out.                                         *)
LEMMA DistinctTail ==
    ASSUME NEW S, NEW q \in Seq(S), Distinct(q), q # <<>>
    PROVE  /\ Tail(q) \in Seq(S) /\ Len(Tail(q)) = Len(q) - 1
           /\ Distinct(Tail(q))
           /\ Head(q) \in S
           /\ ElemsOf(Tail(q)) = ElemsOf(q) \ {Head(q)}
           /\ Head(q) \in ElemsOf(q)
<1> DEFINE r == Tail(q)
<1>1. /\ r \in Seq(S) /\ Len(r) = Len(q) - 1
      /\ DOMAIN q = 1..Len(q) /\ DOMAIN r = 1..(Len(q) - 1)
      /\ Len(q) \in Nat \ {0}
      /\ \A i \in 1..(Len(q) - 1) : r[i] = q[i + 1]
      /\ Head(q) = q[1]
      /\ q[1] \in S
  OBVIOUS
<1> HIDE DEF r
<1>2. Distinct(r)
  <2>1. ASSUME NEW i \in 1..(Len(q) - 1), NEW j \in 1..(Len(q) - 1), r[i] = r[j]
        PROVE  i = j
    <3>1. i + 1 \in DOMAIN q /\ j + 1 \in DOMAIN q /\ q[i + 1] = q[j + 1]
      BY <1>1, <2>1
    <3>2. i + 1 = j + 1
      BY <3>1 DEF Distinct
    <3> QED
      BY <3>2
  <2> QED
    BY <1>1, <2>1 DEF Distinct
<1>3. ASSUME NEW x \in ElemsOf(r) PROVE x \in ElemsOf(q) \ {Head(q)}
  <2>1. PICK i \in 1..(Len(q) - 1) : x = r[i]
    BY <1>1, <1>3 DEF ElemsOf
  <2>2. i + 1 \in DOMAIN q /\ 1 \in DOMAIN q /\ i + 1 # 1 /\ x = q[i + 1]
    BY <1>1, <2>1
  <2>3. x # q[1]
    BY <2>2 DEF Distinct
  <2> QED
    BY <1>1, <2>2, <2>3 DEF ElemsOf
<1>4. ASSUME NEW x \in ElemsOf(q), x # Head(q) PROVE x \in ElemsOf(r)
  <2>1. PICK i \in 1..Len(q) : x = q[i]
    BY <1>1 DEF ElemsOf
  <2>2. i # 1 /\ i - 1 \in 1..(Len(q) - 1)
    BY <1>1, <1>4, <2>1
  <2>3. i - 1 \in DOMAIN r /\ r[i - 1] = x
    BY <1>1, <2>1, <2>2
  <2> QED
    BY <2>3 DEF ElemsOf
<1>5. Head(q) \in ElemsOf(q)
  BY <1>1, SMTT(30) DEF ElemsOf
<1> QED
  BY <1>1, <1>2, <1>3, <1>4, <1>5 DEF r

(* The first n elements are taken off and kept.                            *)
LEMMA DistinctSplit ==
    ASSUME NEW S, NEW q \in Seq(S), NEW n \in 0..Len(q), Distinct(q)
    PROVE  LET p == SubSeq(q, 1, n)
               r == SubSeq(q, n + 1, Len(q))
           IN  /\ p \in Seq(S) /\ Len(p) = n /\ Distinct(p)
               /\ r \in Seq(S) /\ Len(r) = Len(q) - n /\ Distinct(r)
               /\ ElemsOf(p) \subseteq ElemsOf(q)
               /\ ElemsOf(r) = ElemsOf(q) \ ElemsOf(p)
<1> DEFINE p == SubSeq(q, 1, n)
           r == SubSeq(q, n + 1, Len(q))
<1>1. /\ p \in Seq(S) /\ Len(p) = n /\ DOMAIN p = 1..n
      /\ DOMAIN q = 1..Len(q) /\ Len(q) \in Nat /\ n \in Nat /\ n <= Len(q)
      /\ \A i \in 1..n : p[i] = q[i]
  OBVIOUS
<1>2. /\ r \in Seq(S) /\ Len(r) = Len(q) - n /\ Distinct(r) /\ ElemsOf(r) \subseteq ElemsOf(q)
  BY DistinctSuffix
<1>3. DOMAIN r = 1..(Len(q) - n) /\ \A i \in 1..(Len(q) - n) : r[i] = q[n + i]
  OBVIOUS
<1> HIDE DEF p, r
<1>4. Distinct(p) /\ ElemsOf(p) \subseteq ElemsOf(q)
  BY <1>1 DEF Distinct, ElemsOf
<1>5. ASSUME NEW x \in ElemsOf(r) PROVE x \notin ElemsOf(p)
  <2> SUFFICES ASSUME NEW i \in 1..n, NEW j \in 1..(Len(q) - n), p[i] = r[j] PROVE FALSE
    BY <1>1, <1>3, <1>5 DEF ElemsOf
  <2>1. i \in DOMAIN q /\ n + j \in DOMAIN q /\ q[i] = q[n + j] /\ i # n + j
    BY <1>1, <1>3
  <2> QED
    BY <2>1 DEF Distinct
<1>6. ASSUME NEW x \in ElemsOf(q), x \notin ElemsOf(p) PROVE x \in ElemsOf(r)
  <2>1. PICK i \in 1..Len(q) : x = q[i]
    BY <1>1 DEF ElemsOf
  <2>2. i \notin 1..n
    BY <1>1, <1>6, <2>1 DEF ElemsOf
  <2>3. i - n \in 1..(Len(q) - n) /\ n + (i - n) = i
    BY <1>1, <2>2
  <2>4. r[i - n] = x
    BY <1>3, <2>1, <2>3
  <2> QED
    BY <1>3, <2>3, <2>4 DEF ElemsOf
<1>7. ElemsOf(r) = ElemsOf(q) \ ElemsOf(p)
  BY <1>2, <1>5, <1>6
<1> QED
  BY <1>1, <1>2, <1>4, <1>7 DEF p, r

(* Two sequences with nothing in common are joined.                        *)
LEMMA DistinctConcat ==
    ASSUME NEW S, NEW p \in Seq(S), NEW q \in Seq(S), Distinct(p), Distinct(q),
           ElemsOf(p) \cap ElemsOf(q) = {}
    PROVE  /\ p \o q \in Seq(S) /\ Len(p \o q) = Len(p) + Len(q)
           /\ Distinct(p \o q)
           /\ ElemsOf(p \o q) = ElemsOf(p) \cup ElemsOf(q)
<1> DEFINE r == p \o q
           m == Len(p)
           n == Len(q)
<1>1. /\ r \in Seq(S) /\ Len(r) = m + n /\ DOMAIN r = 1..(m + n)
      /\ DOMAIN p = 1..m /\ DOMAIN q = 1..n /\ m \in Nat /\ n \in Nat
      /\ \A i \in 1..m : r[i] = p[i]
      /\ \A i \in 1..(m + n) : i > m => r[i] = q[i - m]
  OBVIOUS
<1> HIDE DEF r, m, n
<1>2. \A i \in 1..(m + n) : i > m => i - m \in 1..n
  BY <1>1
<1>3. \A i \in 1..(m + n) : i <= m => i \in 1..m
  BY <1>1
<1>4. ASSUME NEW i \in 1..(m + n)
      PROVE  /\ i <= m \/ i > m
             /\ i <= m => r[i] \in ElemsOf(p) /\ r[i] = p[i]
             /\ i > m => r[i] \in ElemsOf(q) /\ r[i] = q[i - m]
  <2>1. i <= m \/ i > m
    BY <1>1
  <2>2. i <= m => r[i] \in ElemsOf(p) /\ r[i] = p[i]
    BY <1>1, <1>3 DEF ElemsOf
  <2>3. i > m => r[i] \in ElemsOf(q) /\ r[i] = q[i - m]
    BY <1>1, <1>2 DEF ElemsOf
  <2> QED
    BY <2>1, <2>2, <2>3
<1>5. ASSUME NEW i \in 1..(m + n), NEW j \in 1..(m + n), r[i] = r[j] PROVE i = j
  <2>1. (i <= m) <=> (j <= m)
    BY <1>4, <1>5
  <2>2. CASE i <= m /\ j <= m
    BY <1>1, <1>3, <1>4, <1>5, <2>2 DEF Distinct
  <2>3. CASE i > m /\ j > m
    <3>1. q[i - m] = q[j - m] /\ i - m \in 1..n /\ j - m \in 1..n
      BY <1>1, <1>2, <1>5, <2>3
    <3>2. i - m = j - m
      BY <1>1, <3>1 DEF Distinct
    <3> QED
      BY <1>1, <3>2
  <2> QED
    BY <1>1, <2>1, <2>2, <2>3
<1>6. Distinct(r)
  BY <1>1, <1>5 DEF Distinct
<1>7. ElemsOf(r) \subseteq ElemsOf(p) \cup ElemsOf(q)
  BY <1>1, <1>4 DEF ElemsOf
<1>8. \A i \in 1..m : i \in 1..(m + n)
  BY <1>1
<1>9. ElemsOf(p) \subseteq ElemsOf(r)
  BY <1>1, <1>8 DEF ElemsOf
<1>10. \A i \in 1..n : i + m \in 1..(m + n) /\ r[i + m] = q[i]
  BY <1>1
<1>11. ElemsOf(q) \subseteq ElemsOf(r)
  BY <1>1, <1>10 DEF ElemsOf
<1> QED
  BY <1>1, <1>6, <1>7, <1>9, <1>11 DEF r, m, n

(* An element that is appended to the second part of a sequence.           *)
LEMMA ConcatAppend ==
    ASSUME NEW S, NEW s \in Seq(S), NEW t \in Seq(S), NEW x \in S
    PROVE  s \o Append(t, x) = Append(s \o t, x)
<1>1. /\ s \o t \in Seq(S) /\ Append(t, x) \in Seq(S) /\ Append(s \o t, x) \in Seq(S)
      /\ s \o Append(t, x) \in Seq(S)
  BY ConcatProperties
<1>2. /\ Len(s \o t) = Len(s) + Len(t)
      /\ \A i \in 1..Len(s) + Len(t) :
            (s \o t)[i] = IF i <= Len(s) THEN s[i] ELSE t[i - Len(s)]
  BY ConcatProperties
<1>3. /\ Len(s \o Append(t, x)) = Len(s) + Len(t) + 1
      /\ \A i \in 1..Len(s) + Len(t) + 1 :
            (s \o Append(t, x))[i] = IF i <= Len(s) THEN s[i] ELSE Append(t, x)[i - Len(s)]
  <2>1. Len(Append(t, x)) = Len(t) + 1 /\ Len(s) \in Nat /\ Len(t) \in Nat
    OBVIOUS
  <2>2. Len(s) + Len(Append(t, x)) = Len(s) + Len(t) + 1
    BY <2>1
  <2>3. /\ Len(s \o Append(t, x)) = Len(s) + Len(Append(t, x))
        /\ \A i \in 1..Len(s) + Len(Append(t, x)) :
              (s \o Append(t, x))[i] = IF i <= Len(s) THEN s[i] ELSE Append(t, x)[i - Len(s)]
    BY <1>1, ConcatProperties
  <2> QED
    BY <2>2, <2>3
<1>4. /\ Len(Append(s \o t, x)) = Len(s) + Len(t) + 1
      /\ \A i \in 1..Len(s) + Len(t) : Append(s \o t, x)[i] = (s \o t)[i]
      /\ Append(s \o t, x)[Len(s) + Len(t) + 1] = x
  BY <1>1, <1>2
<1>5. /\ \A i \in 1..Len(t) : Append(t, x)[i] = t[i]
      /\ Append(t, x)[Len(t) + 1] = x
      /\ Len(s) \in Nat /\ Len(t) \in Nat
  OBVIOUS
<1>6. ASSUME NEW i \in 1..Len(s) + Len(t) + 1
      PROVE  (s \o Append(t, x))[i] = Append(s \o t, x)[i]
  <2>1. (s \o Append(t, x))[i] = IF i <= Len(s) THEN s[i] ELSE Append(t, x)[i - Len(s)]
    BY <1>3
  <2>2. CASE i = Len(s) + Len(t) + 1
    <3>1. ~(i <= Len(s)) /\ i - Len(s) = Len(t) + 1
      BY <1>5, <2>2
    <3> QED
      BY <1>4, <1>5, <2>1, <2>2, <3>1
  <2>3. CASE i \in 1..Len(s) + Len(t)
    <3>1. Append(s \o t, x)[i] = IF i <= Len(s) THEN s[i] ELSE t[i - Len(s)]
      BY <1>2, <1>4, <2>3
    <3>2. ~(i <= Len(s)) => i - Len(s) \in 1..Len(t)
      BY <1>5, <2>3
    <3> QED
      BY <1>5, <2>1, <3>1, <3>2
  <2> QED
    BY <1>5, <2>2, <2>3
<1> QED
  BY <1>1, <1>3, <1>4, <1>6, SeqEqual

(* The head of the second part goes over to the first.                     *)
LEMMA HeadMoves ==
    ASSUME NEW S, NEW s \in Seq(S), NEW t \in Seq(S), t # <<>>
    PROVE  (s \o <<Head(t)>>) \o Tail(t) = s \o t
<1>1. Head(t) \in S /\ Tail(t) \in Seq(S) /\ <<Head(t)>> \in Seq(S)
  BY HeadTailProperties
<1>2. <<Head(t)>> \o Tail(t) = t
  BY <1>1
<1>3. (s \o <<Head(t)>>) \o Tail(t) = s \o (<<Head(t)>> \o Tail(t))
  BY <1>1, ConcatAssociative
<1> QED
  BY <1>2, <1>3

(* The first part of a joined sequence is a prefix of it.                  *)
LEMMA PrefixOfConcat ==
    ASSUME NEW S, NEW s \in Seq(S), NEW t \in Seq(S)
    PROVE  Len(s) <= Len(s \o t) /\ SubSeq(s, 1, Len(s)) = SubSeq(s \o t, 1, Len(s))
<1>1. /\ s \o t \in Seq(S) /\ Len(s \o t) = Len(s) + Len(t)
      /\ \A i \in 1..Len(s) + Len(t) :
            (s \o t)[i] = IF i <= Len(s) THEN s[i] ELSE t[i - Len(s)]
      /\ Len(s) \in Nat /\ Len(t) \in Nat
  BY ConcatProperties
<1>2. \A i \in 1..Len(s) : s[i] \in S /\ (s \o t)[i] = s[i]
  BY <1>1
<1> DEFINE u == SubSeq(s \o t, 1, Len(s))
<1>3. /\ u \in Seq(S) /\ Len(u) = Len(s)
      /\ \A i \in 1..Len(s) : u[i] = s[i]
  BY <1>1, <1>2
<1>4. SubSeq(s, 1, Len(s)) = s
  BY SubSeqFull
<1> HIDE DEF u
<1>5. u = s
  BY <1>3, SeqEqual
<1> QED
  BY <1>1, <1>4, <1>5 DEF u
=============================================================================
