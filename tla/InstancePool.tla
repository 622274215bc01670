---------------------------- MODULE InstancePool ----------------------------
(***************************************************************************)
(* pool::InstancePool (src/pool/instancepool.cpp): instances wait for reuse*)
(* in the level pools of m_local; an evict thread turns m_local into       *)
(* m_victim and drops the old m_victim, so that what stays unused for two  *)
(* rounds is freed.                                                        *)
(*                                                                         *)
(* A LevelPool is an object held by shared pointers: in the two vectors, in*)
(* the evict thread's newLocal and in the calls of get and put that use it.*)
(* It is named by its age, the rounds begun since its own, and its level.  *)
(* The evict thread assigns the vectors one element at a time and without a*)
(* lock; a read of an element beside that gives the old or the new one (the*)
(* build may also crash there, which ends the behaviour).  Only the        *)
(* remainder of m_level by m_levelSize is kept.                            *)
(***************************************************************************)
EXTENDS Integers, Sequences, FiniteSets

CONSTANTS
    Clients, Instances,
    m_levelSize,
    MaxHeld,        \* instances that a client has at a time
    MaxAge,         \* rounds that a call of get or put lasts
    NoInstance, NoPool

ASSUME InstancePoolAssumption ==
    /\ m_levelSize \in Nat \ {0} /\ MaxHeld \in Nat \ {0}
    /\ MaxAge \in Nat \ {0, 1}
    /\ NoInstance \notin Instances
    /\ IsFiniteSet(Clients) /\ IsFiniteSet(Instances)

VARIABLES
    m_level,
    m_local, m_victim,  \* the ages of their level pools; m_victim is empty first
    pool,       \* pool[g][l]: the content of the level pool of age g, level l
    held,       \* held[c]: the instances client c works with
    at,         \* at[c]: where c is in a call of get or put
    evict,      \* the evict thread
    m_closed, m_sem,
    dtor        \* the destructor: "alive", "wait", "gone"

vars == <<m_level, m_local, m_victim, pool, held, at, evict, m_closed, m_sem,
          dtor>>

Levels == 0..(m_levelSize - 1)
Ages == 0..MaxAge
Pools == Ages \X Levels
EmptyPool == [single |-> NoInstance, shared |-> <<>>]
Nothing == [l \in {} |-> NoPool]
Outside == [pc |-> "idle", op |-> "get", from |-> "local", level |-> 0, k |-> 0,
            p |-> NoPool, x |-> NoInstance]

Held(p) == ({p.single} \cup {p.shared[i] : i \in DOMAIN p.shared}) \ {NoInstance}

(* A level pool goes, with what is in it, when its last reference does.    *)
Elements(v) == {<<v[l], l>> : l \in DOMAIN v}
InVectors == Elements(m_local) \cup Elements(m_victim)
Refs(loc, vic, new, cl) ==
    Elements(loc) \cup Elements(vic) \cup Elements(new) \cup {cl[c].p : c \in Clients}
Kept(pl, refs) == [p \in Pools |-> IF p \in refs THEN pl[p] ELSE EmptyPool]

Pooled == UNION {Held(pool[p]) : p \in Pools}
InHand == (UNION {held[c] \cup {at[c].x} : c \in Clients}) \ {NoInstance}

Init ==
    /\ m_level = 0
    /\ m_local = [l \in Levels |-> 0]
    /\ m_victim = Nothing
    /\ pool = [p \in Pools |-> EmptyPool]
    /\ held = [c \in Clients |-> {}]
    /\ at = [c \in Clients |-> Outside]
    /\ evict = [pc |-> "check", l |-> 0, newLocal |-> Nothing]
    /\ m_closed = FALSE /\ m_sem = 0
    /\ dtor = "alive"

others == <<evict, m_closed, m_sem, dtor>>
vectors == <<m_local, m_victim>>

-----------------------------------------------------------------------------
(* get() and put().  The user ends its calls before it destroys the pool.  *)

NextLevel(n) == (n + 1) % m_levelSize

Begin(c, op, x) ==
    /\ at[c].pc = "idle" /\ dtor = "alive"
    /\ m_level' = NextLevel(m_level)
    /\ at' = [at EXCEPT ![c] = [Outside EXCEPT !.pc = "copy", !.op = op, !.x = x,
                                    !.level = m_level]]
    /\ UNCHANGED <<vectors, pool, others>>

Get(c) ==
    /\ Cardinality(held[c]) < MaxHeld
    /\ Begin(c, "get", NoInstance)
    /\ UNCHANGED held

Put(c, x) ==
    /\ x \in held[c]
    /\ Begin(c, "put", x)
    /\ held' = [held EXCEPT ![c] = @ \ {x}]

(* The k-th level that getFromPool looks at: its own, then the others.     *)
LevelAt(level, k) ==
    IF k = 0 THEN level ELSE IF k <= level THEN k - 1 ELSE k

(* A copy of the shared pointer to the level pool.                         *)
Copy(c) ==
    LET a == at[c]
        v == IF a.from = "local" THEN m_local ELSE m_victim IN
    /\ a.pc = "copy"
    /\ at' = [at EXCEPT ![c] =
                 IF v = Nothing THEN [@ EXCEPT !.pc = "construct"]
                 ELSE [@ EXCEPT !.p = LET l == LevelAt(a.level, a.k) IN <<v[l], l>>,
                                !.pc = IF a.k = 0 THEN "single" ELSE "shared"]]
    /\ UNCHANGED <<m_level, vectors, pool, held, others>>

(* The call of c ends with pools pl; the reference to its level pool goes. *)
Finish(c, pl) ==
    /\ at' = [at EXCEPT ![c] = Outside]
    /\ pool' = Kept(pl, Refs(m_local, m_victim, evict.newLocal, at'))
    /\ UNCHANGED <<m_level, vectors, others>>

Take(c, x, pl) ==
    /\ held' = [held EXCEPT ![c] = @ \cup {x}]
    /\ Finish(c, pl)

Restore(c, pl) == Finish(c, pl) /\ UNCHANGED held

\* Mutant of SingleTaken: single is copied, not moved.
SingleCopied(p) == pool

SingleTaken(p) == [pool EXCEPT ![p].single = NoInstance]

(* The section under singleLock.                                           *)
Single(c) ==
    LET p == at[c].p
        x == pool[p].single IN
    /\ at[c].pc = "single"
    /\ \/ at[c].op = "get" /\ x # NoInstance /\ Take(c, x, SingleTaken(p))
       \/ /\ at[c].op = "put" /\ x = NoInstance
          /\ Restore(c, [pool EXCEPT ![p].single = at[c].x])
       \/ /\ (at[c].op = "get") = (x = NoInstance)
          /\ at' = [at EXCEPT ![c].pc = "shared"]
          /\ UNCHANGED <<m_level, vectors, pool, held, others>>

(* The section under sharedLock; a get goes on with the next level, then   *)
(* with m_victim, then it constructs an instance.                          *)
Shared(c) ==
    LET a == at[c]
        q == pool[a.p].shared IN
    /\ a.pc = "shared"
    /\ \/ a.op = "put" /\ Restore(c, [pool EXCEPT ![a.p].shared = Append(@, a.x)])
       \/ /\ a.op = "get" /\ q # <<>>
          /\ Take(c, Head(q), [pool EXCEPT ![a.p].shared = Tail(@)])
       \/ /\ a.op = "get" /\ q = <<>>
          /\ at' = [at EXCEPT ![c] = [@ EXCEPT !.p = NoPool,
                !.pc = IF a.k = m_levelSize - 1 /\ a.from = "victim"
                       THEN "construct" ELSE "copy",
                !.k = (a.k + 1) % m_levelSize,
                !.from = IF a.k = m_levelSize - 1 THEN "victim" ELSE a.from]]
          /\ pool' = Kept(pool, Refs(m_local, m_victim, evict.newLocal, at'))
          /\ UNCHANGED <<m_level, vectors, held, others>>

Construct(c) ==
    /\ at[c].pc = "construct"
    /\ \E x \in Instances \ (Pooled \cup InHand) : Take(c, x, pool)

-----------------------------------------------------------------------------
(* asyncEvict().                                                           *)

calls == <<m_level, held, m_closed, dtor>>

(* The names of the level pools after a new round has begun.               *)
Aged(v) == [l \in DOMAIN v |-> v[l] + 1]
AgedCall(a) == IF a.p = NoPool THEN a ELSE [a EXCEPT !.p = <<@[1] + 1, @[2]>>]

(* The loop test; then the sleep, and a new level pool for each level.     *)
Round ==
    /\ evict.pc = "check" /\ ~m_closed
    /\ \A c \in Clients : at[c].p # NoPool => at[c].p[1] < MaxAge
    /\ evict' = [pc |-> "victim", l |-> 0, newLocal |-> [l \in Levels |-> 0]]
    /\ m_local' = Aged(m_local) /\ m_victim' = Aged(m_victim)
    /\ at' = [c \in Clients |-> AgedCall(at[c])]
    /\ pool' = [p \in Pools |-> IF p[1] = 0 THEN EmptyPool ELSE pool[<<p[1] - 1, p[2]>>]]
    /\ UNCHANGED <<calls, m_sem>>

\* Mutant of NewVictim: m_local is replaced first.
VictimSwapped == evict.newLocal

(* m_victim = m_local: the first time a new buffer, then in place.         *)
NewVictim == IF m_victim = Nothing THEN m_local
             ELSE [m_victim EXCEPT ![evict.l] = m_local[evict.l]]

\* Mutant of NewLocal: m_local goes on with the level pools it has.
NewLocalKept == m_local

NewLocal == [m_local EXCEPT ![evict.l] = evict.newLocal[evict.l]]

Last == evict.l = m_levelSize - 1

AssignVictim ==
    /\ evict.pc = "victim"
    /\ m_victim' = NewVictim
    /\ evict' = IF m_victim = Nothing \/ Last
                THEN [evict EXCEPT !.pc = "local", !.l = 0]
                ELSE [evict EXCEPT !.l = @ + 1]
    /\ pool' = Kept(pool, Refs(m_local, m_victim', evict.newLocal, at))
    /\ UNCHANGED <<calls, at, m_local, m_sem>>

AssignLocal ==
    /\ evict.pc = "local"
    /\ m_local' = NewLocal
    /\ evict' = IF Last THEN [pc |-> "check", l |-> 0, newLocal |-> Nothing]
                ELSE [evict EXCEPT !.l = @ + 1]
    /\ pool' = Kept(pool, Refs(m_local', m_victim, evict'.newLocal, at))
    /\ UNCHANGED <<calls, at, m_victim, m_sem>>

\* Mutant of Notify: the thread leaves without its defer.
NotifyNobody(n) == n

(* The defer of the thread.                                                *)
Notify(n) == n + 1

Leave ==
    /\ evict.pc = "check" /\ m_closed
    /\ evict' = [evict EXCEPT !.pc = "exit"]
    /\ m_sem' = Notify(m_sem)
    /\ UNCHANGED <<calls, at, vectors, pool>>

Destroy ==
    /\ dtor = "alive" /\ \A c \in Clients : at[c].pc = "idle"
    /\ m_closed' = TRUE
    /\ dtor' = "wait"
    /\ UNCHANGED <<m_level, vectors, pool, held, at, evict, m_sem>>

\* Mutant of Woken: the destructor does not wait.
NotWaiting == TRUE

Woken == m_sem > 0

Destroyed ==
    /\ dtor = "wait" /\ Woken
    /\ m_sem' = m_sem - 1
    /\ dtor' = "gone"
    /\ UNCHANGED <<m_level, vectors, pool, held, at, evict, m_closed>>

-----------------------------------------------------------------------------
EvictStep == Round \/ AssignVictim \/ AssignLocal \/ Leave

Next ==
    \/ \E c \in Clients :
          \/ Get(c) \/ (\E x \in Instances : Put(c, x))
          \/ Copy(c) \/ Single(c) \/ Shared(c) \/ Construct(c)
    \/ EvictStep \/ Destroy \/ Destroyed

Spec == Init /\ [][Next]_vars

(* The evict thread runs on and the destructor wakes up.                   *)
FairSpec == Spec /\ WF_vars(EvictStep) /\ WF_vars(Destroyed)

-----------------------------------------------------------------------------
(* An instance is with one client, or in one slot of one level pool, or is *)
(* nowhere: get() never gives it to two users, whatever rounds of the evict*)
(* thread fall into their calls.                                           *)
Places(x) ==
    {<<"client", c>> : c \in {d \in Clients : x \in held[d] \/ at[d].x = x}}
    \cup {<<"single", p>> : p \in {r \in Pools : pool[r].single = x}}
    \cup UNION {{<<"shared", p, i>> : i \in {j \in DOMAIN pool[p].shared :
                                            pool[p].shared[j] = x}} : p \in Pools}

OneOwner == \A x \in Instances : Cardinality(Places(x)) <= 1

(* "Instances that reach their expiry are cleaned" (instancepool.cpp:106): *)
(* between two rounds the vectors hold nothing that was put before the last*)
(* two rounds began, and m_local nothing from before the last one.         *)
Expires ==
    evict.pc = "check" =>
        \A p \in InVectors :
            Held(pool[p]) # {} => p[1] <= 1 /\ (p \in Elements(m_local) => p[1] = 0)

(* An instance is only freed with a level pool that is two rounds old; no  *)
(* earlier round and no get that fails to find it loses it.  (A put that   *)
(* finds the old local pool in a round that has begun gets one less.)      *)
KeptOneRound ==
    [][\A p \in InVectors : \A x \in Held(pool[p]) :
          p[1] >= 2 \/ x \in (Pooled \cup InHand)']_vars

(* Nothing runs in the pool once the destructor has returned ...           *)
DestructorLast == dtor = "gone" => evict.pc = "exit"

(* ... and it returns.                                                     *)
DestructorReturns == dtor = "wait" ~> dtor = "gone"
=============================================================================
