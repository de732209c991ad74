-------------------------- MODULE GuildQueueProofs --------------------------
(***************************************************************************)
(* What holds of the queue for every client, every set of songs and every    *)
(* number of concurrent calls: the type invariant with the cursor's bounds    *)
(* (I1 of docs/ARCHITECTURE.md) and the lock's exclusion.  Each needs the     *)
(* other: the lock's queue is non-empty when its holder leaves it because an  *)
(* operation under way is in it, and an operation under way is one the type    *)
(* invariant knows.  Then the types of what is written to Redis: what each       *)
(* operation leaves to be sent, and what sending any of it makes of the list.    *)
(***************************************************************************)
EXTENDS GuildQueue, FiniteSetTheorems, SequenceTheorems, TLAPS

QueueInv == QueueTypeOK /\ MutexOK

Distinct(s) == \A j, k \in DOMAIN s : s[j] = s[k] => j = k
In(p, s) == \E k \in DOMAIN s : s[k] = p
-----------------------------------------------------------------------------
(* Sequences of distinct elements, as the lock's queue is one.               *)

LEMMA JoinLine ==
    ASSUME NEW S, NEW s \in Seq(S), Distinct(s), NEW p \in S, ~In(p, s)
    PROVE  /\ Append(s, p) \in Seq(S)
           /\ Distinct(Append(s, p))
           /\ \A q : In(q, Append(s, p)) <=> In(q, s) \/ q = p
           /\ s # <<>> => Head(Append(s, p)) = Head(s)
<1> DEFINE t == Append(s, p)
<1>1. /\ Len(s) \in Nat /\ DOMAIN s = 1 .. Len(s)
      /\ t \in Seq(S) /\ DOMAIN t = 1 .. Len(s) + 1
      /\ \A i \in 1 .. Len(s) : t[i] = s[i]
      /\ t[Len(s) + 1] = p
  BY AppendProperties, LenProperties
<1> HIDE DEF t
<1>2. Distinct(t)
  BY <1>1 DEF Distinct, In
<1>3. ASSUME NEW q PROVE In(q, t) <=> In(q, s) \/ q = p
  BY <1>1 DEF In
<1>4. ASSUME s # <<>> PROVE Head(t) = Head(s)
  <2>1. Len(s) \in Nat \ {0}
    BY <1>4, EmptySeq
  <2>2. Head(s) = s[1] /\ Head(t) = t[1] /\ t[1] = s[1]
    BY <1>1, <2>1
  <2> QED BY <2>2
<1> QED BY <1>1, <1>2, <1>3, <1>4 DEF t

LEMMA LeaveHead ==
    ASSUME NEW S, NEW s \in Seq(S), Distinct(s), s # <<>>
    PROVE  /\ Tail(s) \in Seq(S)
           /\ Distinct(Tail(s))
           /\ \A q : In(q, Tail(s)) <=> In(q, s) /\ q # Head(s)
<1>1. /\ Tail(s) \in Seq(S)
      /\ DOMAIN Tail(s) = 1 .. Len(s) - 1
      /\ \A i \in 1 .. Len(s) - 1 : Tail(s)[i] = s[i + 1]
  BY HeadTailProperties, LenProperties
<1>2. Head(s) = s[1] /\ Len(s) \in Nat \ {0} /\ DOMAIN s = 1 .. Len(s)
  BY EmptySeq, LenProperties
<1>3. Distinct(Tail(s))
  BY <1>1, <1>2 DEF Distinct
<1>4. ASSUME NEW q PROVE In(q, Tail(s)) <=> In(q, s) /\ q # Head(s)
  <2>1. ASSUME In(q, Tail(s)) PROVE In(q, s) /\ q # Head(s)
    BY <1>1, <1>2, <2>1 DEF In, Distinct
  <2>2. ASSUME In(q, s), q # Head(s) PROVE In(q, Tail(s))
    <3>1. PICK k \in 2 .. Len(s) : s[k] = q
      BY <1>2, <2>2 DEF In
    <3>2. k - 1 \in 1 .. Len(s) - 1 /\ Tail(s)[k - 1] = q
      BY <1>1, <1>2, <3>1
    <3> QED BY <1>1, <3>2 DEF In
  <2> QED BY <2>1, <2>2
<1> QED BY <1>1, <1>3, <1>4

LEMMA LeaveLine ==
    ASSUME NEW S, NEW s \in Seq(S), Distinct(s), NEW i \in DOMAIN s
    PROVE  /\ RemoveAt(s, i) \in Seq(S)
           /\ Distinct(RemoveAt(s, i))
           /\ \A q : In(q, RemoveAt(s, i)) <=> In(q, s) /\ q # s[i]
           /\ i # 1 => Head(RemoveAt(s, i)) = Head(s)
<1> DEFINE t == RemoveAt(s, i)
<1>1. /\ Len(s) \in Nat \ {0} /\ DOMAIN s = 1 .. Len(s) /\ i \in 1 .. Len(s)
      /\ s \in [1 .. Len(s) -> S] /\ Head(s) = s[1]
  BY LenProperties
<1> DEFINE a == SubSeq(s, 1, i - 1)
           b == SubSeq(s, i + 1, Len(s))
<1>2. /\ a \in Seq(S) /\ Len(a) = i - 1
      /\ \A j \in 1 .. i - 1 : a[j] = s[j]
  BY <1>1, SubSeqProperties
<1>3. /\ b \in Seq(S) /\ Len(b) = Len(s) - i
      /\ \A j \in 1 .. Len(s) - i : b[j] = s[i + j]
  BY <1>1, SubSeqProperties
<1>4. /\ t \in Seq(S)
      /\ Len(t) = Len(s) - 1
      /\ \A j \in 1 .. Len(s) - 1 : t[j] = IF j < i THEN s[j] ELSE s[j + 1]
  <2>1. t = a \o b
    BY DEF RemoveAt
  <2> HIDE DEF a, b, t
  <2>2. /\ t \in Seq(S)
        /\ Len(t) = Len(a) + Len(b)
        /\ \A j \in 1 .. Len(a) + Len(b) :
              t[j] = IF j <= Len(a) THEN a[j] ELSE b[j - Len(a)]
    BY <1>2, <1>3, <2>1, ConcatProperties
  <2>3. ASSUME NEW j \in 1 .. Len(s) - 1
        PROVE  t[j] = IF j < i THEN s[j] ELSE s[j + 1]
    <3>1. CASE j < i  BY <1>1, <1>2, <1>3, <2>2, <3>1
    <3>2. CASE ~(j < i)
      <4>1. /\ j - Len(a) \in 1 .. Len(s) - i /\ i + (j - Len(a)) = j + 1
            /\ ~(j <= Len(a)) /\ j \in 1 .. Len(a) + Len(b)
        BY <1>1, <1>2, <1>3, <3>2
      <4>2. t[j] = b[j - Len(a)] /\ b[j - Len(a)] = s[i + (j - Len(a))]
        BY <1>3, <2>2, <4>1
      <4> QED BY <3>2, <4>1, <4>2
    <3> QED BY <3>1, <3>2
  <2> QED BY <1>1, <1>2, <1>3, <2>2, <2>3
<1> HIDE DEF t
<1>5. DOMAIN t = 1 .. Len(s) - 1
  BY <1>4, LenProperties
<1>6. Distinct(t)
  <2>1. SUFFICES ASSUME NEW j \in 1 .. Len(s) - 1, NEW k \in 1 .. Len(s) - 1, t[j] = t[k]
                 PROVE  j = k
    BY <1>5 DEF Distinct
  <2> DEFINE From(n) == IF n < i THEN n ELSE n + 1
  <2>2. From(j) \in DOMAIN s /\ From(k) \in DOMAIN s
    BY <1>1
  <2>3. s[From(j)] = s[From(k)]
    BY <1>4, <2>1
  <2>4. From(j) = From(k)
    BY <2>2, <2>3 DEF Distinct
  <2> QED BY <1>1, <2>4
<1>7. ASSUME NEW q PROVE In(q, t) <=> In(q, s) /\ q # s[i]
  <2>1. ASSUME In(q, t) PROVE In(q, s) /\ q # s[i]
    <3>1. PICK j \in 1 .. Len(s) - 1 : t[j] = q
      BY <1>5, <2>1 DEF In
    <3>2. CASE j < i  BY <1>1, <1>4, <3>1, <3>2 DEF In, Distinct
    <3>3. CASE ~(j < i)
      <4>1. j + 1 \in DOMAIN s /\ j + 1 # i /\ s[j + 1] = q
        BY <1>1, <1>4, <3>1, <3>3
      <4> QED BY <4>1 DEF In, Distinct
    <3> QED BY <3>2, <3>3
  <2>2. ASSUME In(q, s), q # s[i] PROVE In(q, t)
    <3>1. PICK k \in 1 .. Len(s) : s[k] = q /\ k # i
      BY <1>1, <2>2 DEF In
    <3>2. CASE k < i
      <4>1. k \in 1 .. Len(s) - 1 /\ t[k] = q
        BY <1>1, <1>4, <3>1, <3>2
      <4> QED BY <1>5, <4>1 DEF In
    <3>3. CASE k > i
      <4>1. k - 1 \in 1 .. Len(s) - 1 /\ ~(k - 1 < i) /\ (k - 1) + 1 = k
        BY <1>1, <3>1, <3>3
      <4>2. t[k - 1] = q
        BY <1>4, <3>1, <4>1
      <4> QED BY <1>5, <4>1, <4>2 DEF In
    <3> QED BY <1>1, <3>1, <3>2, <3>3
  <2> QED BY <2>1, <2>2
<1>8. ASSUME i # 1 PROVE Head(t) = Head(s)
  BY <1>1, <1>4, <1>8
<1> QED BY <1>4, <1>6, <1>7, <1>8 DEF t
-----------------------------------------------------------------------------
(* What the steps do to the lock.                                            *)

\* The invariant in the lemmas' words.
LEMMA LockFacts ==
    ASSUME QueueInv
    PROVE  /\ mutex \in Seq(Procs)
           /\ Distinct(mutex)
           /\ \A q \in Procs : op[q].phase \in {"lock", "store"} <=> In(q, mutex)
           /\ \A q \in Procs : op[q].phase = "store" => Head(mutex) = q
           /\ op \in [Procs -> Operation]
  BY DEF QueueInv, QueueTypeOK, MutexOK, Distinct, In

LEMMA LockRestored ==
    ASSUME Distinct(mutex)',
           (\A q \in Procs : op[q].phase \in {"lock", "store"} <=> In(q, mutex))',
           (\A q \in Procs : op[q].phase = "store" => Head(mutex) = q)'
    PROVE  MutexOK'
  BY DEF MutexOK, Distinct, In

LockOK == mutex \in Seq(Procs) /\ op \in [Procs -> Operation] /\ MutexOK

LEMMA CallLock ==
    ASSUME QueueInv, NEW p \in Procs, NEW name \in OpNames, NEW arg \in Seq(Item),
           NEW gen \in Nat, Call(p, name, arg, gen)
    PROVE  LockOK'
<1>1. ~In(p, mutex) /\ op[p].phase = "idle"
  BY LockFacts DEF Call, Idle
<1>2. /\ mutex' = Append(mutex, p)
      /\ op' \in [Procs -> Operation]
      /\ op'[p].phase = "lock"
      /\ \A q \in Procs : q # p => op'[q] = op[q]
  BY LockFacts DEF Call, Operation
<1>3. /\ mutex' \in Seq(Procs) /\ Distinct(mutex')
      /\ \A q : In(q, mutex') <=> In(q, mutex) \/ q = p
      /\ mutex # <<>> => Head(mutex') = Head(mutex)
  BY <1>1, <1>2, LockFacts, JoinLine
<1>4. \A q \in Procs : op'[q].phase = "store" => Head(mutex') = q
  <2>1. SUFFICES ASSUME NEW q \in Procs, op'[q].phase = "store" PROVE Head(mutex') = q
    OBVIOUS
  <2>2. q # p /\ op[q].phase = "store"
    BY <1>2, <2>1
  <2>3. Head(mutex) = q /\ In(q, mutex)
    BY <2>2, LockFacts
  <2>4. mutex # <<>>
    BY <2>3 DEF In
  <2> QED BY <1>3, <2>3, <2>4
<1>5. \A q \in Procs : op'[q].phase \in {"lock", "store"} <=> In(q, mutex')
  BY <1>2, <1>3, LockFacts
<1>6. MutexOK'
  BY <1>3, <1>4, <1>5, LockRestored
<1> QED BY <1>2, <1>3, <1>6 DEF LockOK

\* A call that is over leaves the lock to the next one.
LEMMA LeaveLock ==
    ASSUME QueueInv, NEW p \in Procs, In(p, mutex), Head(mutex) = p,
           NEW phase \in {"idle", "done"},
           mutex' = Tail(mutex), op' \in [Procs -> Operation], op'[p].phase = phase,
           \A q \in Procs : q # p => op'[q] = op[q]
    PROVE  LockOK'
<1>1. mutex # <<>>
  BY DEF In
<1>2. /\ mutex' \in Seq(Procs) /\ Distinct(mutex')
      /\ \A q : In(q, mutex') <=> In(q, mutex) /\ q # p
  BY <1>1, LockFacts, LeaveHead
<1>3. \A q \in Procs : op'[q].phase = "store" => Head(mutex') = q
  BY LockFacts
<1>4. \A q \in Procs : op'[q].phase \in {"lock", "store"} <=> In(q, mutex')
  BY <1>2, LockFacts
<1>5. MutexOK'
  BY <1>2, <1>3, <1>4, LockRestored
<1> QED BY <1>2, <1>5 DEF LockOK

LEMMA KeepLock ==
    ASSUME QueueInv, NEW p \in Procs, In(p, mutex), Head(mutex) = p,
           mutex' = mutex, op' \in [Procs -> Operation], op'[p].phase = "store",
           \A q \in Procs : q # p => op'[q] = op[q]
    PROVE  LockOK'
<1>1. \A q \in Procs : op'[q].phase = "store" => Head(mutex') = q
  BY LockFacts
<1>2. \A q \in Procs : op'[q].phase \in {"lock", "store"} <=> In(q, mutex')
  BY LockFacts
<1>3. MutexOK'
  BY <1>1, <1>2, LockFacts, LockRestored
<1> QED BY <1>3, LockFacts DEF LockOK

LEMMA ProceedLock ==
    ASSUME QueueInv, NEW p \in Procs, NEW name, Holds(p, name), NEW todo,
           NEW result \in Seq(Item), Proceed(p, todo, result)
    PROVE  LockOK'
<1>1. In(p, mutex) /\ Head(mutex) = p
  BY LockFacts DEF Holds
<1>2. /\ op' \in [Procs -> Operation]
      /\ op'[p].phase = IF todo = <<>> THEN "done" ELSE "store"
      /\ \A q \in Procs : q # p => op'[q] = op[q]
  BY LockFacts DEF Proceed, Operation
<1>3. CASE todo = <<>>
  <2>1. mutex' = Tail(mutex) /\ op'[p].phase = "done"
    BY <1>2, <1>3 DEF Proceed
  <2> QED BY <1>1, <1>2, <2>1, LeaveLock
<1>4. CASE todo # <<>>
  <2>1. mutex' = mutex /\ op'[p].phase = "store"
    BY <1>2, <1>4 DEF Proceed
  <2> QED BY <1>1, <1>2, <2>1, KeepLock
<1> QED BY <1>3, <1>4

LEMMA IssuedLock ==
    ASSUME QueueInv, NEW p \in Procs, op[p].phase = "store", NEW todo, Issued(p, todo)
    PROVE  LockOK'
<1>1. In(p, mutex) /\ Head(mutex) = p
  BY LockFacts
<1>2. CASE todo = <<>>
  <2>1. /\ mutex' = Tail(mutex) /\ op' \in [Procs -> Operation]
        /\ op'[p].phase = "done"
        /\ \A q \in Procs : q # p => op'[q] = op[q]
    BY <1>2, LockFacts DEF Issued, Operation
  <2> QED BY <1>1, <2>1, LeaveLock
<1>3. CASE todo # <<>>
  <2>1. mutex' = mutex /\ op' = op
    BY <1>3 DEF Issued
  <2> QED BY <1>1, <2>1, LockFacts, KeepLock
<1> QED BY <1>2, <1>3

LEMMA AbandonLock ==
    ASSUME QueueInv, NEW p \in Procs, Abandon(p)
    PROVE  LockOK'
<1>1. PICK k \in DOMAIN mutex : mutex[k] = p /\ mutex' = RemoveAt(mutex, k)
  BY DEF Abandon
<1>2. /\ op' \in [Procs -> Operation]
      /\ op'[p].phase = "idle"
      /\ \A q \in Procs : q # p => op'[q] = op[q]
  <2>1. Idle \in Operation
    BY EmptySeq DEF Idle, Operation
  <2> QED BY <2>1, LockFacts DEF Abandon, Idle
<1>3. /\ mutex' \in Seq(Procs) /\ Distinct(mutex')
      /\ \A q : In(q, mutex') <=> In(q, mutex) /\ q # p
      /\ k # 1 => Head(mutex') = Head(mutex)
  BY <1>1, LockFacts, LeaveLine
<1>4. \A q \in Procs : op'[q].phase = "store" => Head(mutex') = q
  <2>1. SUFFICES ASSUME NEW q \in Procs, op'[q].phase = "store" PROVE Head(mutex') = q
    OBVIOUS
  <2>2. q # p /\ Head(mutex) = q
    BY <1>2, <2>1, LockFacts
  <2>3. mutex # <<>> /\ Head(mutex) = mutex[1]
    BY <1>1, LockFacts, EmptySeq
  <2>4. k # 1
    BY <1>1, <2>2, <2>3
  <2> QED BY <1>3, <2>2, <2>4
<1>5. \A q \in Procs : op'[q].phase \in {"lock", "store"} <=> In(q, mutex')
  BY <1>2, <1>3, LockFacts
<1>6. MutexOK'
  BY <1>3, <1>4, <1>5, LockRestored
<1> QED BY <1>2, <1>3, <1>6 DEF LockOK

LEMMA ReturnLock ==
    ASSUME QueueInv, NEW p \in Procs, Returned(p)
    PROVE  LockOK'
<1>1. /\ mutex' = mutex /\ op' \in [Procs -> Operation]
      /\ op[p].phase = "done" /\ op'[p].phase = "idle"
      /\ \A q \in Procs : q # p => op'[q] = op[q]
  <2>1. Idle \in Operation
    BY EmptySeq DEF Idle, Operation
  <2> QED BY <2>1, LockFacts DEF Returned, Return, Idle
<1>2. ~In(p, mutex)
  BY <1>1, LockFacts
<1>3. \A q \in Procs : op'[q].phase \in {"lock", "store"} <=> In(q, mutex')
  BY <1>1, <1>2, LockFacts
<1>4. \A q \in Procs : op'[q].phase = "store" => Head(mutex') = q
  BY <1>1, LockFacts
<1>5. MutexOK'
  BY <1>1, <1>3, <1>4, LockFacts, LockRestored
<1> QED BY <1>1, <1>5, LockFacts DEF LockOK
-----------------------------------------------------------------------------
(* What the steps do to the deque.                                           *)

DequeOK ==
    /\ items \in Seq(Item)
    /\ cursor \in 0 .. Len(items)
    /\ cleared \in BOOLEAN
    /\ generation \in Nat

LEMMA Parts == QueueInv <=> DequeOK /\ LockOK
  BY DEF QueueInv, QueueTypeOK, DequeOK, LockOK

LEMMA PartsNext == QueueInv' <=> DequeOK' /\ LockOK'
  BY DEF QueueInv, QueueTypeOK, DequeOK, LockOK

LEMMA DequeFacts ==
    ASSUME QueueInv
    PROVE  /\ items \in Seq(Item)
           /\ Len(items) \in Nat
           /\ DOMAIN items = 1 .. Len(items)
           /\ cursor \in 0 .. Len(items)
           /\ \A k \in 1 .. Len(items) : items[k] \in Item
           /\ cleared \in BOOLEAN
           /\ generation \in Nat
           /\ \A p \in Procs : op[p].arg \in Seq(Item)
<1>1. items \in Seq(Item)
  BY DEF QueueInv, QueueTypeOK
<1>2. Len(items) \in Nat /\ DOMAIN items = 1 .. Len(items)
  BY <1>1, LenProperties
<1>3. \A k \in 1 .. Len(items) : items[k] \in Item
  BY <1>1, ElementOfSeq
<1>4. \A p \in Procs : op[p].arg \in Seq(Item)
  BY DEF QueueInv, QueueTypeOK, Operation
<1> QED BY <1>1, <1>2, <1>3, <1>4 DEF QueueInv, QueueTypeOK

(***************************************************************************)
(* At(s, S): a position of S is found from its rank, the number of positions  *)
(* of S before it, because ranks grow with positions and so take every value   *)
(* below the size of S.                                                      *)
(***************************************************************************)

Rank(S, i) == Cardinality({j \in S : j < i})

LEMMA RanksGrow ==
    ASSUME NEW S \in SUBSET Nat, IsFiniteSet(S), NEW a \in S, NEW b \in Nat, a < b
    PROVE  /\ Rank(S, a) \in Nat /\ Rank(S, b) \in Nat
           /\ Rank(S, a) < Rank(S, b)
<1> DEFINE A == {j \in S : j < a}
           B == {j \in S : j < b}
<1>1. IsFiniteSet(A) /\ IsFiniteSet(B)
  BY FS_Subset
<1>2. /\ IsFiniteSet(A \cup {a})
      /\ Cardinality(A \cup {a}) = Cardinality(A) + 1
  <2>1. a \notin A
    OBVIOUS
  <2> HIDE DEF A
  <2> QED BY <1>1, <2>1, FS_AddElement
<1>3. A \cup {a} \subseteq B
  <2>1. \A j \in S : j \in Nat
    OBVIOUS
  <2>2. \A j \in S : j < a => j < b
    BY <2>1
  <2> QED BY <2>2
<1>4. Cardinality(A \cup {a}) <= Cardinality(B)
  BY <1>1, <1>3, FS_Subset
<1>5. Cardinality(A) \in Nat /\ Cardinality(B) \in Nat
  BY <1>1, FS_CardinalityType
<1> HIDE DEF A, B
<1>6. Cardinality(A) < Cardinality(B)
  BY <1>2, <1>4, <1>5
<1> QED BY <1>5, <1>6 DEF Rank, A, B

LEMMA RankTaken ==
    ASSUME NEW S \in SUBSET Nat, IsFiniteSet(S), NEW k \in 1 .. Cardinality(S)
    PROVE  \E i \in S : Rank(S, i) = k - 1
<1> DEFINE n == Cardinality(S)
           T == (0 .. n - 1) \ {k - 1}
           f == [i \in S |-> Rank(S, i)]
<1>1. n \in Nat /\ n # 0
  <2>1. n \in Nat
    BY FS_CardinalityType
  <2> QED BY <2>1
<1>2. \A i \in S : Rank(S, i) \in 0 .. n - 1
  <2>1. SUFFICES ASSUME NEW i \in S PROVE Rank(S, i) \in 0 .. n - 1
    OBVIOUS
  <2> DEFINE A == {j \in S : j < i}
  <2>2. IsFiniteSet(A) /\ Cardinality(A) <= n /\ (Cardinality(A) = n => A = S)
    BY FS_Subset
  <2>3. A # S /\ Cardinality(A) \in Nat
    <3>1. i \notin A
      OBVIOUS
    <3> QED BY <2>2, <3>1, FS_CardinalityType
  <2> HIDE DEF A, n
  <2>4. Cardinality(A) \in 0 .. n - 1
    BY <1>1, <2>2, <2>3
  <2> QED BY <2>4 DEF Rank, A
<1>3. \A i, j \in S : i # j => Rank(S, i) # Rank(S, j)
  <2>1. SUFFICES ASSUME NEW i \in S, NEW j \in S, i # j
                 PROVE  Rank(S, i) # Rank(S, j)
    OBVIOUS
  <2>2. CASE i < j
    <3>1. Rank(S, i) \in Nat /\ Rank(S, j) \in Nat /\ Rank(S, i) < Rank(S, j)
      BY <2>2, RanksGrow
    <3> QED BY <3>1
  <2>3. CASE j < i
    <3>1. Rank(S, i) \in Nat /\ Rank(S, j) \in Nat /\ Rank(S, j) < Rank(S, i)
      BY <2>3, RanksGrow
    <3> QED BY <3>1
  <2> QED BY <2>1, <2>2, <2>3
<1>4. IsFiniteSet(T) /\ Cardinality(T) = n - 1
  <2> HIDE DEF n
  <2>1. IsFiniteSet(0 .. n - 1) /\ Cardinality(0 .. n - 1) = n
    BY <1>1, FS_Interval
  <2>2. k - 1 \in 0 .. n - 1
    BY <1>1 DEF n
  <2> DEFINE R == 0 .. n - 1
  <2>3. IsFiniteSet(R \ {k - 1}) /\ Cardinality(R \ {k - 1}) = Cardinality(R) - 1
    <3> HIDE DEF R
    <3> QED BY <2>1, <2>2, FS_RemoveElement DEF R
  <2> QED BY <2>1, <2>3
<1>5. SUFFICES ASSUME \A i \in S : Rank(S, i) # k - 1
               PROVE  FALSE
  OBVIOUS
<1>6. f \in [S -> T]
  BY <1>2, <1>5
<1>7. n - 1 < n
  <2> HIDE DEF n
  <2> QED BY <1>1
<1>8. \E i, j \in S : i # j /\ f[i] = f[j]
  <2> HIDE DEF T, f
  <2> QED BY <1>4, <1>6, <1>7, FS_PigeonHole
<1> QED BY <1>3, <1>8

LEMMA AtType ==
    ASSUME NEW T, NEW s \in Seq(T), NEW S \in SUBSET DOMAIN s
    PROVE  /\ At(s, S) \in Seq(T)
           /\ Cardinality(S) \in Nat
           /\ Len(At(s, S)) = Cardinality(S)
           /\ \A k \in 1 .. Cardinality(S) :
                 \E i \in S : Rank(S, i) = k - 1 /\ At(s, S)[k] = s[i]
<1>1. Len(s) \in Nat /\ DOMAIN s = 1 .. Len(s) /\ \A i \in DOMAIN s : s[i] \in T
  BY LenProperties, ElementOfSeq
<1>2. IsFiniteSet(S) /\ S \in SUBSET Nat
  <2>1. IsFiniteSet(1 .. Len(s))
    BY <1>1, FS_Interval
  <2> QED BY <1>1, <2>1, FS_Subset
<1> DEFINE n == Cardinality(S)
           i(k) == CHOOSE i \in S : Rank(S, i) = k - 1
<1>3. n \in Nat
  BY <1>2, FS_CardinalityType
<1>4. At(s, S) = [k \in 1 .. n |-> s[i(k)]]
  BY DEF At, Rank
<1>5. \A k \in 1 .. n : i(k) \in S /\ Rank(S, i(k)) = k - 1
  BY <1>2, RankTaken
<1> HIDE DEF n, i
<1>6. At(s, S) \in [1 .. n -> T]
  BY <1>1, <1>4, <1>5
<1>7. At(s, S) \in Seq(T)
  BY <1>3, <1>6, SeqDef
<1>8. Len(At(s, S)) = n
  BY <1>3, <1>6, <1>7, LenProperties
<1>9. \A k \in 1 .. n : \E h \in S : Rank(S, h) = k - 1 /\ At(s, S)[k] = s[h]
  BY <1>4, <1>5
<1> QED BY <1>3, <1>7, <1>8, <1>9 DEF n

\* A prefix of the positions that is all there stays where it is.
LEMMA AtKeepsPrefix ==
    ASSUME NEW T, NEW s \in Seq(T), NEW S \in SUBSET DOMAIN s,
           NEW n \in Nat, 1 .. n \subseteq S
    PROVE  /\ n <= Len(At(s, S))
           /\ \A k \in 1 .. n : At(s, S)[k] = s[k]
<1>1. Len(s) \in Nat /\ DOMAIN s = 1 .. Len(s)
  BY LenProperties
<1>2. IsFiniteSet(S) /\ S \in SUBSET Nat
  <2>1. IsFiniteSet(1 .. Len(s))
    BY <1>1, FS_Interval
  <2> QED BY <1>1, <2>1, FS_Subset
<1>3. IsFiniteSet(1 .. n) /\ Cardinality(1 .. n) = n
  BY FS_Interval
<1>4. Cardinality(S) \in Nat /\ n <= Cardinality(S)
  BY <1>2, <1>3, FS_Subset, FS_CardinalityType
<1>5. ASSUME NEW k \in 1 .. n
      PROVE  At(s, S)[k] = s[k]
  <2>1. PICK i \in S : Rank(S, i) = k - 1 /\ At(s, S)[k] = s[i]
    BY <1>4, AtType
  <2>2. Rank(S, k) = k - 1
    <3>1. {j \in S : j < k} = 1 .. k - 1
      BY <1>1
    <3>2. Cardinality(1 .. k - 1) = k - 1
      BY FS_Interval
    <3> QED BY <3>1, <3>2 DEF Rank
  <2>3. i = k
    <3>1. i \in Nat /\ k \in S /\ k \in Nat
      BY <1>2
    <3>2. CASE i < k
      <4>1. Rank(S, i) < Rank(S, k)
        BY <1>2, <3>1, <3>2, RanksGrow
      <4> QED BY <2>1, <2>2, <4>1
    <3>3. CASE k < i
      <4>1. Rank(S, k) < Rank(S, i)
        BY <1>2, <3>1, <3>3, RanksGrow
      <4> QED BY <2>1, <2>2, <4>1
    <3> QED BY <3>1, <3>2, <3>3
  <2> QED BY <2>1, <2>3
<1> QED BY <1>4, <1>5, AtType

\* Both halves of the split are sequences of items.
LEMMA HalvesType ==
    ASSUME QueueInv
    PROVE  /\ Claimed \in Seq(Item)
           /\ Len(Claimed) = cursor
           /\ SubSeq(items, cursor + 1, Len(items)) \in Seq(Item)
           /\ Len(SubSeq(items, cursor + 1, Len(items))) = Len(items) - cursor
<1>1. /\ SubSeq(items, 1, cursor) \in Seq(Item)
      /\ Len(SubSeq(items, 1, cursor)) = cursor
  <2>1. \A k \in 1 .. cursor : items[k] \in Item
    BY DequeFacts
  <2> QED BY <2>1, DequeFacts, SubSeqProperties
<1>2. /\ SubSeq(items, cursor + 1, Len(items)) \in Seq(Item)
      /\ Len(SubSeq(items, cursor + 1, Len(items))) = Len(items) - cursor
  <2>1. \A k \in cursor + 1 .. Len(items) : items[k] \in Item
    BY DequeFacts
  <2> QED BY <2>1, DequeFacts, SubSeqProperties
<1> QED BY <1>1, <1>2 DEF Claimed

LEMMA PutKeeps ==
    ASSUME QueueInv, NEW p \in Procs, EnterPut(p)
    PROVE  QueueInv'
<1>1. PICK name \in {"put", "putBatch"} : Holds(p, name)
  BY DEF EnterPut
<1>2. PICK todo : Proceed(p, todo, <<>>)
  BY DEF EnterPut
<1>3. <<>> \in Seq(Item)
  BY EmptySeq
<1>4. LockOK'
  BY <1>1, <1>2, <1>3, ProceedLock
<1>5. DequeOK'
  <2>1. /\ items' \in Seq(Item)
        /\ Len(items') = Len(items) + Len(op[p].arg)
    BY DequeFacts, ConcatProperties DEF EnterPut
  <2>2. Len(op[p].arg) \in Nat
    BY DequeFacts, LenProperties
  <2> QED BY <2>1, <2>2, DequeFacts DEF EnterPut, DequeOK
<1> QED BY <1>4, <1>5, PartsNext

LEMMA PutFrontKeeps ==
    ASSUME QueueInv, NEW p \in Procs, EnterPutFront(p)
    PROVE  QueueInv'
<1>1. PICK todo : Proceed(p, todo, <<>>)
  BY DEF EnterPutFront
<1>2. LockOK'
  BY <1>1, EmptySeq, ProceedLock DEF EnterPutFront
<1>3. DequeOK'
  <2> DEFINE arg == op[p].arg
             rest == SubSeq(items, cursor + 1, Len(items))
  <2>1. arg \in Seq(Item) /\ Len(arg) \in Nat
    BY DequeFacts, LenProperties
  <2>2. /\ Claimed \in Seq(Item) /\ Len(Claimed) = cursor
        /\ rest \in Seq(Item) /\ Len(rest) = Len(items) - cursor
    BY HalvesType
  <2>3. items' = (Claimed \o arg) \o rest
    BY DEF EnterPutFront
  <2> HIDE DEF arg, rest
  <2>4. Claimed \o arg \in Seq(Item) /\ Len(Claimed \o arg) = cursor + Len(arg)
    BY <2>1, <2>2, ConcatProperties
  <2> DEFINE left == Claimed \o arg
  <2> HIDE DEF left
  <2>5. items' \in Seq(Item) /\ Len(items') = Len(left) + Len(rest)
    BY <2>2, <2>3, <2>4, ConcatProperties DEF left
  <2>6. Len(items') = cursor + Len(arg) + (Len(items) - cursor)
    BY <2>2, <2>4, <2>5 DEF left
  <2>7. UNCHANGED <<cursor, cleared, generation>>
    BY DEF EnterPutFront
  <2> QED BY <2>1, <2>5, <2>6, <2>7, DequeFacts DEF DequeOK
<1> QED BY <1>2, <1>3, PartsNext

LEMMA ClearKeeps ==
    ASSUME QueueInv, NEW p \in Procs, EnterClear(p)
    PROVE  QueueInv'
<1>1. PICK todo : Proceed(p, todo, items)
  BY DEF EnterClear
<1>2. LockOK'
  BY <1>1, DequeFacts, ProceedLock DEF EnterClear
<1>3. DequeOK'
  BY EmptySeq, DequeFacts DEF EnterClear, DequeOK
<1> QED BY <1>2, <1>3, PartsNext

LEMMA ShuffleKeeps ==
    ASSUME QueueInv, NEW p \in Procs, EnterShuffle(p)
    PROVE  QueueInv'
<1>1. PICK todo : Proceed(p, todo, <<>>)
  <2>1. CASE Len(items) - cursor < ShuffleMin
    BY <2>1 DEF EnterShuffle
  <2>2. CASE ~(Len(items) - cursor < ShuffleMin)
    <3> DEFINE todo == IF Pending = {} THEN <<>> ELSE Rewrite(items')
    <3>1. Proceed(p, todo, <<>>)
      BY <2>2, Zenon DEF EnterShuffle
    <3> QED BY <3>1
  <2> QED BY <2>1, <2>2
<1>2. LockOK'
  BY <1>1, EmptySeq, ProceedLock DEF EnterShuffle
<1>3. UNCHANGED <<cursor, cleared, generation>>
  BY Zenon DEF EnterShuffle
<1>4. items' \in Seq(Item) /\ Len(items') = Len(items)
  <2>1. CASE items' = items
    BY <2>1, DequeFacts
  <2>2. CASE items' # items
    <3>1. PICK pi \in Bijection(Pending, Pending) :
             items' = [k \in DOMAIN items |->
                         IF k \in Pending THEN items[pi[k]] ELSE items[k]]
      BY <2>2 DEF EnterShuffle
    <3>2. pi \in [Pending -> Pending] /\ Pending \subseteq 1 .. Len(items)
      BY DequeFacts DEF Bijection, Injection, Pending
    <3>3. items' \in [1 .. Len(items) -> Item]
      BY <3>1, <3>2, DequeFacts
    <3>4. items' \in Seq(Item)
      BY <3>3, DequeFacts, SeqDef
    <3> QED BY <3>3, <3>4, DequeFacts, LenProperties
  <2> QED BY <2>1, <2>2
<1>5. DequeOK'
  BY <1>3, <1>4, DequeFacts DEF DequeOK
<1> QED BY <1>2, <1>5, PartsNext

\* What -remove takes is pending: the claimed items stay, and stay in place.
LEMMA RemoveDeque ==
    ASSUME QueueInv, NEW gone \in SUBSET Pending
    PROVE  /\ At(items, gone) \in Seq(Item)
           /\ At(items, DOMAIN items \ gone) \in Seq(Item)
           /\ cursor <= Len(At(items, DOMAIN items \ gone))
           /\ \A k \in 1 .. cursor : At(items, DOMAIN items \ gone)[k] = items[k]
<1>1. gone \subseteq DOMAIN items
  BY DequeFacts DEF Pending
<1>2. 1 .. cursor \subseteq DOMAIN items \ gone /\ cursor \in Nat
  BY DequeFacts DEF Pending
<1> QED BY <1>1, <1>2, DequeFacts, AtType, AtKeepsPrefix

LEMMA RemoveKeeps ==
    ASSUME QueueInv, NEW p \in Procs, EnterRemove(p)
    PROVE  QueueInv'
<1>1. Holds(p, "remove") /\ UNCHANGED <<cursor, cleared, generation>>
  BY DEF EnterRemove
<1>2. PICK gone \in SUBSET Pending :
         \/ Proceed(p, <<>>, <<>>) /\ items' = items
         \/ /\ items' = At(items, DOMAIN items \ gone)
            /\ Proceed(p, RewriteAfterRemoval(items', At(items, gone)), At(items, gone))
  BY DEF EnterRemove
<1>3. CASE Proceed(p, <<>>, <<>>) /\ items' = items
  <2>1. LockOK'
    BY <1>1, <1>3, EmptySeq, ProceedLock
  <2>2. DequeOK'
    BY <1>1, <1>3, DequeFacts DEF DequeOK
  <2> QED BY <2>1, <2>2, PartsNext
<1>4. CASE /\ items' = At(items, DOMAIN items \ gone)
           /\ Proceed(p, RewriteAfterRemoval(items', At(items, gone)), At(items, gone))
  <2> DEFINE todo == RewriteAfterRemoval(items', At(items, gone))
             removed == At(items, gone)
             kept == At(items, DOMAIN items \ gone)
  <2>1. /\ removed \in Seq(Item)
        /\ kept \in Seq(Item) /\ cursor <= Len(kept) /\ Len(kept) \in Nat
    BY RemoveDeque, LenProperties
  <2>2. items' = kept /\ Proceed(p, todo, removed)
    BY <1>4
  <2> HIDE DEF todo, removed, kept
  <2>3. LockOK'
    BY <1>1, <2>1, <2>2, ProceedLock
  <2>4. DequeOK'
    BY <1>1, <2>1, <2>2, DequeFacts DEF DequeOK
  <2> QED BY <2>3, <2>4, PartsNext
<1> QED BY <1>2, <1>3, <1>4

\* A settled claim leaves one item less, and one claim less.
LEMMA ReleaseDeque ==
    ASSUME QueueInv, cursor > 0, Release, UNCHANGED <<cleared, generation>>
    PROVE  DequeOK'
<1>1. items # <<>>
  BY DequeFacts, EmptySeq
<1>2. items' \in Seq(Item) /\ Len(items') = Len(items) - 1
  BY <1>1, DequeFacts, HeadTailProperties DEF Release
<1> QED BY <1>2, DequeFacts DEF Release, DequeOK

LEMMA FinishFailedKeeps ==
    ASSUME QueueInv, NEW p \in Procs, EnterFinishFailed(p)
    PROVE  QueueInv'
<1>1. PICK todo : Proceed(p, todo, op[p].arg)
  BY DEF EnterFinishFailed
<1>2. LockOK'
  BY <1>1, DequeFacts, ProceedLock DEF EnterFinishFailed
<1>3. DequeOK'
  <2>1. CASE cursor = 0
    BY <2>1, DequeFacts DEF EnterFinishFailed, DequeOK
  <2>2. CASE cursor # 0
    BY <2>2, DequeFacts, ReleaseDeque DEF EnterFinishFailed
  <2> QED BY <2>1, <2>2
<1> QED BY <1>2, <1>3, PartsNext

LEMMA CommitKeeps ==
    ASSUME QueueInv, NEW p \in Procs, EnterCommit(p)
    PROVE  QueueInv'
<1>1. LockOK'
  <2>1. In(p, mutex) /\ Head(mutex) = p /\ mutex' = Tail(mutex)
    BY LockFacts DEF EnterCommit, Holds
  <2>2. /\ op' \in [Procs -> Operation]
        /\ op'[p].phase = "idle"
        /\ \A q \in Procs : q # p => op'[q] = op[q]
    <3>1. Idle \in Operation
      BY EmptySeq DEF Idle, Operation
    <3> QED BY <3>1, LockFacts DEF EnterCommit, Idle
  <2> QED BY <2>1, <2>2, LeaveLock
<1>2. DequeOK'
  <2>1. CASE CommitOK(p)
    BY <2>1, DequeFacts, ReleaseDeque DEF EnterCommit, CommitOK
  <2>2. CASE ~CommitOK(p)
    BY <2>2, DequeFacts DEF EnterCommit, DequeOK
  <2> QED BY <2>1, <2>2
<1> QED BY <1>1, <1>2, PartsNext

LEMMA CommandKeeps ==
    ASSUME QueueInv, NEW p \in Procs, Write(p) \/ WriteFails(p)
    PROVE  QueueInv'
<1>1. PICK todo : Issued(p, todo)
  BY DEF Write, WriteFails
<1>2. LockOK'
  BY <1>1, IssuedLock DEF Write, WriteFails
<1>3. DequeOK'
  BY DequeFacts DEF Write, WriteFails, memory, DequeOK
<1> QED BY <1>2, <1>3, PartsNext

LEMMA AbandonKeeps ==
    ASSUME QueueInv, NEW p \in Procs, Abandon(p)
    PROVE  QueueInv'
<1>1. DequeOK'
  BY DequeFacts DEF Abandon, memory, DequeOK
<1> QED BY <1>1, AbandonLock, PartsNext

LEMMA UnlockedKeeps ==
    ASSUME QueueInv, Unlocked
    PROVE  QueueInv'
<1>1. cleared' \in BOOLEAN /\ generation' \in Nat
  BY DequeFacts DEF Unlocked, ConsumeClearedFlag
<1>2. items' \in Seq(Item) /\ cursor' \in 0 .. Len(items')
  <2>1. CASE Claim
    BY <2>1, DequeFacts DEF Claim, Empty
  <2>2. CASE GivenBack
    <3> DEFINE item == items'[cursor]
    <3>1. /\ cursor > 0 /\ cursor' = cursor - 1 /\ item \in Item
          /\ items' = [items EXCEPT ![cursor] = item]
      BY <2>2 DEF GivenBack, GiveBack
    <3> HIDE DEF item
    <3>2. items' \in Seq(Item) /\ Len(items') = Len(items)
      BY <3>1, DequeFacts, ExceptSeq
    <3> QED BY <3>1, <3>2, DequeFacts
  <2>3. CASE UNCHANGED <<items, cursor>>
    BY <2>3, DequeFacts
  <2> QED BY <2>1, <2>2, <2>3 DEF Unlocked
<1>3. LockOK'
  <2>1. ASSUME NEW p \in Procs, Called(p) PROVE LockOK'
    BY <2>1, CallLock DEF Called
  <2>2. ASSUME NEW p \in Procs, Returned(p) PROVE LockOK'
    BY <2>2, ReturnLock
  <2>3. CASE UNCHANGED <<op, mutex>>
    BY <2>3, Parts DEF LockOK, MutexOK
  <2> QED BY <2>1, <2>2, <2>3 DEF Unlocked
<1>4. DequeOK'
  BY <1>1, <1>2 DEF DequeOK
<1> QED BY <1>3, <1>4, PartsNext
-----------------------------------------------------------------------------
LEMMA InitHolds == Init => QueueInv
<1> SUFFICES ASSUME Init PROVE QueueInv
  OBVIOUS
<1>1. DequeOK
  <2>1. items \in Seq(Item)
    BY QueueAssumption DEF Init
  <2>2. cursor = 0 /\ cleared \in BOOLEAN /\ generation \in Nat
    BY DEF Init
  <2>3. Len(items) \in Nat
    BY <2>1, LenProperties
  <2> QED BY <2>1, <2>2, <2>3 DEF DequeOK
<1>2. LockOK
  <2>1. Idle \in Operation
    BY EmptySeq DEF Idle, Operation
  <2>2. mutex = <<>> /\ op = [p \in Procs |-> Idle] /\ mutex \in Seq(Procs)
    BY EmptySeq DEF Init
  <2>3. MutexOK
    BY <2>2 DEF MutexOK, Idle
  <2> QED BY <2>1, <2>2, <2>3 DEF LockOK
<1> QED BY <1>1, <1>2, Parts

LEMMA StepKeeps == QueueInv /\ [Next]_queueVars => QueueInv'
<1> SUFFICES ASSUME QueueInv, [Next]_queueVars PROVE QueueInv'
  OBVIOUS
<1>1. ASSUME NEW p \in Procs, Critical(p) PROVE QueueInv'
  BY <1>1, PutKeeps, PutFrontKeeps, ClearKeeps, ShuffleKeeps, RemoveKeeps,
     FinishFailedKeeps, CommitKeeps DEF Critical
<1>2. ASSUME NEW p \in Procs, Locked(p) PROVE QueueInv'
  BY <1>1, <1>2, CommandKeeps, AbandonKeeps DEF Locked
<1>3. CASE Unlocked
  BY <1>3, UnlockedKeeps
<1>4. CASE UNCHANGED <<memory, mutex, op>>
  BY <1>4 DEF memory, QueueInv, QueueTypeOK, MutexOK
<1> QED BY <1>2, <1>3, <1>4 DEF Next, Started, queueVars

\* The two halves of the invariant, together inductive.
THEOREM QueueInvariant == Spec => []QueueInv
<1> QED BY InitHolds, StepKeeps, PTL DEF Spec

\* Whatever the clients do, the cursor stays inside the deque and every part of the
\* queue keeps its type: guild_queue.py's claims are settled and given back by
\* position, and no order of those steps can overrun either end.
THEOREM QueueTypeCorrect == Spec => []QueueTypeOK
<1>1. QueueInv => QueueTypeOK
  BY DEF QueueInv
<1> QED BY <1>1, QueueInvariant, PTL

\* Whatever the clients do, and whichever call is cancelled, the lock has one
\* holder, only the holder has Redis commands outstanding, and no call is lost from
\* the lock's queue or stays in it after it ended.
THEOREM LockExclusive == Spec => []MutexOK
<1>1. QueueInv => MutexOK
  BY DEF QueueInv
<1> QED BY <1>1, QueueInvariant, PTL
-----------------------------------------------------------------------------
(* The list in Redis and the commands that are to change it.                 *)

CommandKinds == {"rpush", "lpush", "lpop", "del", "rebuild", "lrem"}
RedisCommand == [cmd : CommandKinds, ents : Seq(Item), drop : Seq(Item)]

StoreOK ==
    /\ mirror \in Seq(Item) /\ owed \in Seq(Item) /\ degraded \in BOOLEAN
    /\ writes \in [Procs -> Seq(RedisCommand)]

LEMMA EntriesType ==
    ASSUME NEW s \in Seq(Item)
    PROVE  Entries(s) \in Seq(Item)
<1>1. {k \in DOMAIN s : IsPersisted(s[k])} \in SUBSET DOMAIN s
  OBVIOUS
<1> QED BY <1>1, AtType DEF Entries

LEMMA CommandType ==
    ASSUME NEW ents \in Seq(Item), NEW c \in CommandKinds
    PROVE  Command(c, ents) \in RedisCommand
BY EmptySeq DEF Command, RedisCommand

\* Every list of commands an operation leaves is one of Redis commands.
LEMMA RewriteType ==
    ASSUME NEW s \in Seq(Item)
    PROVE  Rewrite(s) \in Seq(RedisCommand)
<1>1. Command("del", <<>>) \in RedisCommand /\ Command("rebuild", Entries(s)) \in RedisCommand
  BY EntriesType, CommandType, EmptySeq DEF CommandKinds
<1> DEFINE a == Command("del", <<>>)
           b == Command("rebuild", Entries(s))
<1> HIDE DEF a, b
<1>2. <<a>> \in Seq(RedisCommand) /\ <<b>> \in Seq(RedisCommand)
  BY <1>1 DEF a, b
<1> QED BY <1>2 DEF Rewrite, a, b

LEMMA RemovalType ==
    ASSUME NEW s \in Seq(Item), NEW dropped \in Seq(Item)
    PROVE  RewriteAfterRemoval(s, dropped) \in Seq(RedisCommand)
<1> DEFINE gone == Entries(dropped)
           c == [cmd |-> "lrem", ents |-> <<>>, drop |-> gone]
<1>1. gone \in Seq(Item) /\ <<>> \in Seq(Item)
  BY EntriesType, EmptySeq
<1> HIDE DEF gone
<1>2. c \in RedisCommand
  BY <1>1 DEF RedisCommand, CommandKinds
<1> HIDE DEF c
<1>3. <<c>> \in Seq(RedisCommand)
  BY <1>2
<1>4. RewriteAfterRemoval(s, dropped) \in {<<c>>, Rewrite(s)}
  BY DEF RewriteAfterRemoval, c, gone
<1> QED BY <1>3, <1>4, RewriteType

LEMMA PushesType ==
    ASSUME NEW ents \in Seq(Item)
    PROVE  Pushes(ents) \in Seq(RedisCommand)
<1>1. Len(ents) \in Nat /\ DOMAIN ents = 1 .. Len(ents)
  BY LenProperties
<1>2. \A k \in 1 .. Len(ents) : Command("rpush", <<ents[k]>>) \in RedisCommand
  <2>1. SUFFICES ASSUME NEW k \in 1 .. Len(ents)
                 PROVE  Command("rpush", <<ents[k]>>) \in RedisCommand
    OBVIOUS
  <2> DEFINE e == ents[k]
  <2>2. e \in Item
    BY <1>1, ElementOfSeq
  <2> HIDE DEF e
  <2>3. <<e>> \in Seq(Item)
    BY <2>2
  <2> QED BY <2>3, CommandType DEF CommandKinds, e
<1>3. Pushes(ents) \in [1 .. Len(ents) -> RedisCommand]
  BY <1>1, <1>2 DEF Pushes
<1> QED BY <1>1, <1>3, SeqDef

LEMMA AppliedType ==
    ASSUME NEW c \in RedisCommand, mirror \in Seq(Item)
    PROVE  Applied(c) \in Seq(Item)
<1>1. c.cmd \in CommandKinds /\ c.ents \in Seq(Item) /\ c.drop \in Seq(Item)
  BY DEF RedisCommand
<1> DEFINE ents == c.ents
<1>2. mirror \o ents \in Seq(Item) /\ ents \o mirror \in Seq(Item)
  BY <1>1, ConcatProperties
<1>3. (IF mirror = <<>> THEN mirror ELSE Tail(mirror)) \in Seq(Item)
  BY HeadTailProperties
<1>4. At(mirror, DOMAIN mirror \ LremHits(c.drop)) \in Seq(Item)
  BY AtType
<1>5. <<>> \in Seq(Item)
  BY EmptySeq
<1> QED BY <1>1, <1>2, <1>3, <1>4, <1>5 DEF Applied, CommandKinds

\* What is left to issue, after an operation's memory part and after each command.
LEMMA ProceedStore ==
    ASSUME StoreOK, NEW p \in Procs, NEW todo \in Seq(RedisCommand), NEW result,
           Proceed(p, todo, result), UNCHANGED <<mirror, owed>>, degraded' \in BOOLEAN
    PROVE  StoreOK'
BY DEF StoreOK, Proceed

\* An operation under the lock.
LEMMA CriticalStore ==
    ASSUME QueueInv, StoreOK, NEW p \in Procs, Critical(p)
    PROVE  StoreOK'
<1> DEFINE arg == op[p].arg
<1>1. arg \in Seq(Item) /\ <<>> \in Seq(RedisCommand) /\ degraded \in BOOLEAN
  BY DequeFacts, EmptySeq DEF StoreOK
<1>2. items' \in Seq(Item)
  <2>1. QueueInv'
    BY PutKeeps, PutFrontKeeps, ClearKeeps, ShuffleKeeps, RemoveKeeps,
       FinishFailedKeeps, CommitKeeps DEF Critical
  <2> QED BY <2>1 DEF QueueInv, QueueTypeOK
<1>3. ASSUME NEW c \in CommandKinds, NEW ents \in Seq(Item)
      PROVE  <<Command(c, ents)>> \in Seq(RedisCommand)
  <2> DEFINE r == Command(c, ents)
  <2>1. r \in RedisCommand
    BY CommandType
  <2> HIDE DEF r
  <2>2. <<r>> \in Seq(RedisCommand)
    BY <2>1
  <2> QED BY <2>2 DEF r
<1>4. CASE EnterPut(p)
  <2> DEFINE ents == Entries(arg)
             todo == IF ents # <<>> /\ op[p].name = "putBatch"
                     THEN <<Command("rpush", ents)>> ELSE Pushes(ents)
  <2>1. Proceed(p, todo, <<>>) /\ UNCHANGED store
    BY <1>4 DEF EnterPut
  <2>2. ents \in Seq(Item)
    BY <1>1, EntriesType
  <2> HIDE DEF ents
  <2>3. todo \in Seq(RedisCommand)
    BY <1>3, <2>2, PushesType DEF CommandKinds
  <2> HIDE DEF todo
  <2> QED BY <1>1, <2>1, <2>3, ProceedStore DEF store
<1>5. CASE EnterPutFront(p)
  <2> DEFINE ents == Entries(arg)
             todo == IF cursor > 0 THEN Rewrite(items')
                     ELSE IF ents = <<>> THEN <<>> ELSE <<Command("lpush", ents)>>
  <2>1. Proceed(p, todo, <<>>) /\ UNCHANGED <<mirror, owed>> /\ degraded' \in BOOLEAN
    BY <1>1, <1>5 DEF EnterPutFront, RacesOwedPop
  <2>2. ents \in Seq(Item)
    BY <1>1, EntriesType
  <2>3. Rewrite(items') \in Seq(RedisCommand)
    <3>1. PICK s \in Seq(Item) : s = items'
      BY <1>2
    <3> QED BY <3>1, RewriteType
  <2> HIDE DEF ents
  <2>4. todo \in Seq(RedisCommand)
    BY <1>1, <1>3, <2>2, <2>3 DEF CommandKinds
  <2> HIDE DEF todo
  <2> QED BY <2>1, <2>4, ProceedStore
<1>6. CASE EnterClear(p)
  <2>1. <<Command("del", <<>>)>> \in Seq(RedisCommand)
    BY <1>3, EmptySeq DEF CommandKinds
  <2>2. /\ Proceed(p, <<Command("del", <<>>)>>, items)
        /\ UNCHANGED <<mirror, owed>> /\ degraded' \in BOOLEAN
    BY <1>1, <1>6 DEF EnterClear, RacesOwedPop
  <2> QED BY <2>1, <2>2, ProceedStore
<1>7. CASE EnterShuffle(p)
  <2> DEFINE todo == IF Pending = {} THEN <<>> ELSE Rewrite(items')
  <2>1. Proceed(p, <<>>, <<>>) \/ Proceed(p, todo, <<>>)
    BY <1>7, Zenon DEF EnterShuffle
  <2>4. UNCHANGED <<mirror, owed>> /\ (UNCHANGED degraded \/ RacesOwedPop)
    <3>1. UNCHANGED <<cursor, cleared, generation, mirror, owed>>
      BY <1>7, Zenon DEF EnterShuffle
    <3>2. CASE Len(items) - cursor < ShuffleMin
      BY <1>7, <3>1, <3>2 DEF EnterShuffle
    <3>3. CASE ~(Len(items) - cursor < ShuffleMin)
      <4>1. RacesOwedPop
        BY <1>7, <3>3, Zenon DEF EnterShuffle
      <4> QED BY <3>1, <4>1
    <3> QED BY <3>2, <3>3
  <2>5. degraded' \in BOOLEAN
    BY <1>1, <2>4 DEF RacesOwedPop
  <2>2. Rewrite(items') \in Seq(RedisCommand)
    <3>1. PICK s \in Seq(Item) : s = items'
      BY <1>2
    <3> QED BY <3>1, RewriteType
  <2>3. todo \in Seq(RedisCommand)
    BY <1>1, <2>2
  <2> HIDE DEF todo
  <2> QED BY <1>1, <2>1, <2>3, <2>4, <2>5, ProceedStore
<1>8. CASE EnterRemove(p)
  <2>1. PICK gone \in SUBSET Pending :
           \/ Proceed(p, <<>>, <<>>)
           \/ Proceed(p, RewriteAfterRemoval(items', At(items, gone)), At(items, gone))
    BY <1>8 DEF EnterRemove
  <2>2. UNCHANGED <<mirror, owed>> /\ degraded' \in BOOLEAN
    BY <1>1, <1>8 DEF EnterRemove, RacesOwedPop
  <2>3. At(items, gone) \in Seq(Item)
    BY RemoveDeque
  <2> DEFINE dropped == At(items, gone)
             todo == RewriteAfterRemoval(items', dropped)
  <2>4. todo \in Seq(RedisCommand)
    <3> HIDE DEF dropped
    <3>1. PICK s \in Seq(Item) : s = items'
      BY <1>2
    <3>2. RewriteAfterRemoval(s, dropped) \in Seq(RedisCommand)
      BY <2>3, RemovalType DEF dropped
    <3> QED BY <3>1, <3>2
  <2>5. Proceed(p, <<>>, <<>>) \/ Proceed(p, todo, dropped)
    BY <2>1
  <2> HIDE DEF todo, dropped
  <2> QED BY <1>1, <2>2, <2>4, <2>5, ProceedStore
<1>9. CASE EnterFinishFailed(p)
  <2> DEFINE todo == IF Entries(arg) = <<>> THEN <<>> ELSE <<Command("lpop", <<>>)>>
  <2>1. Proceed(p, <<>>, arg) \/ Proceed(p, todo, arg)
    BY <1>9 DEF EnterFinishFailed
  <2>2. todo \in Seq(RedisCommand)
    BY <1>1, <1>3, EmptySeq DEF CommandKinds
  <2> HIDE DEF todo
  <2> QED BY <1>1, <1>9, <2>1, <2>2, ProceedStore DEF EnterFinishFailed, store
<1>10. CASE EnterCommit(p)
  <2>1. owed' \in Seq(Item)
    <3>1. CASE CommitOK(p)
      <4>1. Head(items) \in Item
        BY <3>1, DequeFacts DEF CommitOK
      <4> DEFINE h == Head(items)
      <4> HIDE DEF h
      <4>2. <<h>> \in Seq(Item)
        BY <4>1 DEF h
      <4> QED BY <1>10, <3>1, <4>2, EmptySeq DEF EnterCommit, h
    <3>2. CASE ~CommitOK(p)
      BY <1>10, <3>2 DEF EnterCommit, StoreOK
    <3> QED BY <3>1, <3>2
  <2> QED BY <1>10, <2>1 DEF EnterCommit, StoreOK
<1> QED BY <1>4, <1>5, <1>6, <1>7, <1>8, <1>9, <1>10 DEF Critical

\* A command that is issued or fails, and the rewrite that follows a short LREM.
LEMMA WriteStore ==
    ASSUME QueueInv, StoreOK, NEW p \in Procs, Write(p) \/ WriteFails(p)
    PROVE  StoreOK'
<1> DEFINE c == Head(writes[p])
<1>1. writes[p] \in Seq(RedisCommand) /\ writes[p] # <<>>
  BY DEF StoreOK, Write, WriteFails
<1>2. c \in RedisCommand /\ Tail(writes[p]) \in Seq(RedisCommand)
  BY <1>1, HeadTailProperties
<1>3. Applied(c) \in Seq(Item) /\ Rewrite(items) \in Seq(RedisCommand)
  BY <1>2, AppliedType, RewriteType, DequeFacts DEF StoreOK
<1>4. PICK todo \in Seq(RedisCommand) : Issued(p, todo)
  BY <1>2, <1>3 DEF Write, WriteFails
<1>5. mirror' \in {mirror, Applied(c)} /\ owed' = owed /\ degraded' \in BOOLEAN
  BY DEF Write, WriteFails, StoreOK
<1>6. writes' \in [Procs -> Seq(RedisCommand)]
  BY <1>4 DEF Issued, StoreOK
<1> QED BY <1>3, <1>5, <1>6 DEF StoreOK

LEMMA AbandonStore ==
    ASSUME StoreOK, NEW p \in Procs, Abandon(p)
    PROVE  StoreOK'
<1>1. writes[p] # <<>> => Head(writes[p]) \in RedisCommand
  BY HeadTailProperties DEF StoreOK
<1>2. mirror' \in Seq(Item)
  BY <1>1, AppliedType DEF Abandon, StoreOK
<1>3. writes' \in [Procs -> Seq(RedisCommand)]
  BY EmptySeq DEF Abandon, StoreOK
<1>4. degraded' \in BOOLEAN /\ owed' = owed
  BY DEF Abandon, StoreOK
<1> QED BY <1>2, <1>3, <1>4 DEF StoreOK

LEMMA StartedStore ==
    ASSUME StoreOK, Started
    PROVE  StoreOK'
<1>1. Applied(Command("lpop", <<>>)) \in Seq(Item)
  BY CommandType, AppliedType, EmptySeq DEF CommandKinds, StoreOK
<1> QED BY <1>1, EmptySeq DEF Started, PopOwed, ForfeitOwed, StoreOK

LEMMA StoreStepwise == QueueInv /\ StoreOK /\ [Next]_queueVars => StoreOK'
<1> SUFFICES ASSUME QueueInv, StoreOK, [Next]_queueVars PROVE StoreOK'
  OBVIOUS
<1>1. CASE UNCHANGED <<writes, store>>
  BY <1>1 DEF store, StoreOK
<1> QED BY <1>1, CriticalStore, WriteStore, AbandonStore, StartedStore
        DEF Next, Locked, Unlocked, queueVars

\* Whatever the clients do and whichever command fails or is cut off, the list in Redis
\* and every command still to come hold queue entries, and LREM, LPOP and the rebuild
\* turn such a list into such a list.
THEOREM StoreTypeCorrect == Spec => []StoreOK
<1>1. Init => StoreOK
  <2>1. SUFFICES ASSUME Init PROVE StoreOK
    OBVIOUS
  <2>2. items \in Seq(Item)
    BY <2>1, QueueAssumption DEF Init
  <2> QED BY <2>1, <2>2, EntriesType, EmptySeq DEF Init, StoreOK
<1> QED BY <1>1, StoreStepwise, QueueInvariant, PTL DEF Spec
-----------------------------------------------------------------------------
(* At(s, S) reads s at the positions of S, counted up by Pos(S).              *)

\* The positions in S, in order.
Pos(S) == [k \in 1 .. Cardinality(S) |-> CHOOSE i \in S : Rank(S, i) = k - 1]

\* g counts up the positions in S.
Counts(g, n, S) ==
    /\ g \in [1 .. n -> S]
    /\ \A j, k \in 1 .. n : j < k => g[j] < g[k]
    /\ \A i \in S : \E k \in 1 .. n : g[k] = i

\* No two positions have the same rank.
LEMMA RanksDiffer ==
    ASSUME NEW S \in SUBSET Nat, IsFiniteSet(S), NEW i \in S, NEW j \in S,
           Rank(S, i) = Rank(S, j)
    PROVE  i = j
<1>1. CASE i < j
  <2>1. Rank(S, i) \in Nat /\ Rank(S, j) \in Nat /\ Rank(S, i) < Rank(S, j)
    BY <1>1, RanksGrow
  <2> QED BY <2>1
<1>2. CASE j < i
  <2>1. Rank(S, i) \in Nat /\ Rank(S, j) \in Nat /\ Rank(S, j) < Rank(S, i)
    BY <1>2, RanksGrow
  <2> QED BY <2>1
<1> QED BY <1>1, <1>2

\* Positions are counted up in one way only.
LEMMA CountsOnce ==
    ASSUME NEW S \in SUBSET Nat, NEW n \in Nat, NEW g, Counts(g, n, S)
    PROVE  IsFiniteSet(S) /\ Cardinality(S) = n /\ g = Pos(S)
<1>1. \A j, k \in 1 .. n : g[j] = g[k] => j = k
  <2>1. \A k \in 1 .. n : g[k] \in Nat
    BY DEF Counts
  <2> QED BY <2>1 DEF Counts
<1>2. IsFiniteSet(S) /\ Cardinality(S) = n
  <2>1. g \in Bijection(1 .. n, S)
    BY <1>1 DEF Counts, Bijection, Injection, Surjection, IsInjective
  <2>2. IsFiniteSet(1 .. n) /\ Cardinality(1 .. n) = n
    BY FS_Interval
  <2> QED BY <2>1, <2>2, FS_Bijection DEF ExistsBijection
<1>3. ASSUME NEW k \in 1 .. n
      PROVE  Rank(S, g[k]) = k - 1
  <2> DEFINE low == 1 .. k - 1
             before == {j \in S : j < g[k]}
             f == [j \in low |-> g[j]]
  <2>1. IsFiniteSet(low) /\ Cardinality(low) = k - 1 /\ low \subseteq 1 .. n
    <3>1. k - 1 \in Nat
      OBVIOUS
    <3>2. IsFiniteSet(low) /\ Cardinality(low) = k - 1
      BY <3>1, FS_Interval
    <3>3. low \subseteq 1 .. n
      OBVIOUS
    <3> QED BY <3>2, <3>3
  <2>2. \A j \in low : g[j] \in before
    <3>1. \A j \in low : j \in 1 .. n /\ j < k
      BY <2>1
    <3> HIDE DEF low
    <3> QED BY <3>1 DEF Counts
  <2>3. \A i \in before : \E j \in low : g[j] = i
    <3>1. SUFFICES ASSUME NEW i \in before PROVE \E j \in low : g[j] = i
      OBVIOUS
    <3>2. PICK j \in 1 .. n : g[j] = i
      BY DEF Counts
    <3>3. j < k
      <4>1. g[j] < g[k] /\ g[j] \in Nat /\ g[k] \in Nat
        BY <3>2 DEF Counts
      <4>2. ~(k < j) /\ j # k
        BY <4>1 DEF Counts
      <4> QED BY <4>2
    <3>4. j \in low
      BY <3>3
    <3> QED BY <3>2, <3>4
  <2>4. \A i, j \in low : f[i] = f[j] => i = j
    BY <1>1, <2>1
  <2>5. f \in Bijection(low, before)
    <3> HIDE DEF low, before
    <3> QED BY <2>2, <2>3, <2>4 DEF Bijection, Injection, Surjection, IsInjective
  <2>6. Cardinality(before) = k - 1
    <3> HIDE DEF low, before, f
    <3> QED BY <2>1, <2>5, FS_Bijection DEF ExistsBijection
  <2> QED BY <2>6 DEF Rank
<1>4. ASSUME NEW k \in 1 .. n
      PROVE  Pos(S)[k] = g[k]
  <2> DEFINE i == CHOOSE i \in S : Rank(S, i) = k - 1
  <2>1. g[k] \in S /\ Rank(S, g[k]) = k - 1
    BY <1>3 DEF Counts
  <2>2. i \in S /\ Rank(S, i) = k - 1
    BY <2>1
  <2>3. Pos(S)[k] = i
    BY <1>2 DEF Pos
  <2> HIDE DEF i
  <2>4. i = g[k]
    BY <1>2, <2>1, <2>2, RanksDiffer
  <2> QED BY <2>3, <2>4
<1>5. g = [k \in 1 .. n |-> g[k]]
  BY DEF Counts
<1>6. Pos(S) = [k \in 1 .. n |-> Pos(S)[k]]
  BY <1>2 DEF Pos
<1> QED BY <1>2, <1>4, <1>5, <1>6

\* Pos(S) is the way to count up S.
LEMMA PosCounts ==
    ASSUME NEW S \in SUBSET Nat, IsFiniteSet(S)
    PROVE  Cardinality(S) \in Nat /\ Counts(Pos(S), Cardinality(S), S)
<1> DEFINE n == Cardinality(S)
           i(k) == CHOOSE i \in S : Rank(S, i) = k - 1
<1>1. n \in Nat
  BY FS_CardinalityType
<1>2. \A k \in 1 .. n : i(k) \in S /\ Rank(S, i(k)) = k - 1
  BY RankTaken
<1>3. Pos(S) = [k \in 1 .. n |-> i(k)]
  BY DEF Pos
<1> HIDE DEF i
<1>4. \A j, k \in 1 .. n : j < k => Pos(S)[j] < Pos(S)[k]
  <2>1. SUFFICES ASSUME NEW j \in 1 .. n, NEW k \in 1 .. n, j < k
                 PROVE  i(j) < i(k)
    BY <1>3
  <2>2. i(j) \in S /\ i(k) \in S /\ Rank(S, i(j)) < Rank(S, i(k))
    <3> HIDE DEF n
    <3> QED BY <1>1, <1>2, <2>1
  <2>3. CASE i(k) < i(j)
    <3>1. Rank(S, i(j)) \in Nat /\ Rank(S, i(k)) \in Nat /\ Rank(S, i(k)) < Rank(S, i(j))
      BY <2>2, <2>3, RanksGrow
    <3> QED BY <2>2, <3>1
  <2>4. CASE i(k) = i(j)
    <3>1. Rank(S, i(j)) \in Nat
      <4> DEFINE x == i(j)
      <4>1. x \in S /\ Rank(S, x) = j - 1
        BY <1>2
      <4>2. j - 1 \in Nat
        BY <1>1
      <4> HIDE DEF x
      <4>3. Rank(S, x) \in Nat
        BY <4>1, <4>2
      <4> QED BY <4>3 DEF x
    <3>2. FALSE
      BY <2>2, <2>4, <3>1
    <3> QED BY <3>2
  <2>5. i(j) \in Nat /\ i(k) \in Nat
    BY <2>2
  <2> QED BY <2>3, <2>4, <2>5
<1>5. \A h \in S : \E k \in 1 .. n : Pos(S)[k] = h
  <2>1. SUFFICES ASSUME NEW h \in S PROVE \E k \in 1 .. n : i(k) = h
    BY <1>3
  <2>2. Rank(S, h) \in 0 .. n - 1
    <3> DEFINE A == {j \in S : j < h}
    <3>1. IsFiniteSet(A) /\ Cardinality(A) <= n /\ (Cardinality(A) = n => A = S)
      BY FS_Subset
    <3>2. h \notin A /\ Cardinality(A) \in Nat
      BY <3>1, FS_CardinalityType
    <3>3. Cardinality(A) = Rank(S, h) /\ A # S
      BY <3>2 DEF Rank
    <3> HIDE DEF A, n
    <3> QED BY <1>1, <3>1, <3>2, <3>3
  <2> DEFINE k == Rank(S, h) + 1
  <2>3. k \in 1 .. n /\ k - 1 = Rank(S, h)
    <3> HIDE DEF n
    <3> QED BY <1>1, <2>2
  <2> HIDE DEF k
  <2>4. i(k) \in S /\ Rank(S, i(k)) = Rank(S, h)
    BY <1>2, <2>3
  <2>5. i(k) = h
    BY <2>4, RanksDiffer
  <2> QED BY <2>3, <2>5
<1> QED BY <1>1, <1>2, <1>3, <1>4, <1>5 DEF Counts

\* At(s, S) reads s at those positions.
LEMMA AtPos ==
    ASSUME NEW T, NEW s \in Seq(T), NEW S \in SUBSET DOMAIN s
    PROVE  /\ S \in SUBSET Nat /\ IsFiniteSet(S)
           /\ At(s, S) = [k \in 1 .. Cardinality(S) |-> s[Pos(S)[k]]]
<1>1. DOMAIN s = 1 .. Len(s) /\ Len(s) \in Nat
  BY LenProperties
<1>2. IsFiniteSet(S)
  <2>1. IsFiniteSet(DOMAIN s)
    BY <1>1, FS_Interval
  <2> QED BY <2>1, FS_Subset
<1> DEFINE n == Cardinality(S)
           i(k) == CHOOSE i \in S : Cardinality({j \in S : j < i}) = k - 1
<1>3. At(s, S) = [k \in 1 .. n |-> s[i(k)]]
  BY DEF At
<1>4. \A k \in 1 .. n : Pos(S)[k] = i(k)
  BY DEF Pos, Rank
<1> HIDE DEF n, i
<1>5. At(s, S) = [k \in 1 .. n |-> s[Pos(S)[k]]]
  BY <1>3, <1>4
<1> QED BY <1>1, <1>2, <1>5 DEF n

\* Reading s along any count of S is reading it at S.
LEMMA AtCounted ==
    ASSUME NEW T, NEW s \in Seq(T), NEW S \in SUBSET DOMAIN s, NEW n \in Nat, NEW g,
           Counts(g, n, S)
    PROVE  At(s, S) = [k \in 1 .. n |-> s[g[k]]]
BY AtPos, CountsOnce

\* What is read, and where from.
LEMMA AtFacts ==
    ASSUME NEW T, NEW s \in Seq(T), NEW S \in SUBSET DOMAIN s
    PROVE  /\ Cardinality(S) \in Nat /\ IsFiniteSet(S) /\ S \in SUBSET Nat
           /\ At(s, S) \in Seq(T) /\ Len(At(s, S)) = Cardinality(S)
           /\ DOMAIN At(s, S) = 1 .. Cardinality(S)
           /\ \A k \in 1 .. Cardinality(S) : Pos(S)[k] \in S /\ At(s, S)[k] = s[Pos(S)[k]]
           /\ \A j, k \in 1 .. Cardinality(S) : j < k => Pos(S)[j] < Pos(S)[k]
           /\ \A i \in S : \E k \in 1 .. Cardinality(S) : Pos(S)[k] = i
<1> DEFINE n == Cardinality(S)
           t == At(s, S)
<1>1. S \in SUBSET Nat /\ IsFiniteSet(S) /\ t = [k \in 1 .. n |-> s[Pos(S)[k]]]
  BY AtPos
<1>2. t \in Seq(T) /\ Len(t) = n
  BY AtType
<1>3. n \in Nat /\ Counts(Pos(S), n, S)
  BY <1>1, PosCounts
<1>4. DOMAIN t = 1 .. n
  BY <1>1
<1>5. \A k \in 1 .. n : t[k] = s[Pos(S)[k]]
  BY <1>1
<1> HIDE DEF n, t
<1>6. /\ \A k \in 1 .. n : Pos(S)[k] \in S
      /\ \A j, k \in 1 .. n : j < k => Pos(S)[j] < Pos(S)[k]
      /\ \A i \in S : \E k \in 1 .. n : Pos(S)[k] = i
  BY <1>3 DEF Counts
<1> QED BY <1>1, <1>2, <1>3, <1>4, <1>5, <1>6 DEF n, t

\* No position is read twice.
LEMMA PosOnce ==
    ASSUME NEW S \in SUBSET Nat, IsFiniteSet(S),
           NEW j \in 1 .. Cardinality(S), NEW k \in 1 .. Cardinality(S), Pos(S)[j] = Pos(S)[k]
    PROVE  j = k
<1>1. /\ Cardinality(S) \in Nat
      /\ \A h \in 1 .. Cardinality(S) : Pos(S)[h] \in Nat
      /\ \A h, i \in 1 .. Cardinality(S) : h < i => Pos(S)[h] < Pos(S)[i]
  BY PosCounts DEF Counts
<1>2. Pos(S)[j] \in Nat /\ j \in Nat /\ k \in Nat
  BY <1>1
<1>3. ~(j < k) /\ ~(k < j)
  <2> DEFINE n == Cardinality(S)
             f == Pos(S)
  <2> HIDE DEF n, f
  <2> QED BY <1>1, <1>2 DEF n, f
<1> QED BY <1>2, <1>3

\* Reading twice is reading once, where the second reading points.
LEMMA AtAt ==
    ASSUME NEW T, NEW s \in Seq(T), NEW S \in SUBSET DOMAIN s,
           NEW R \in SUBSET (1 .. Cardinality(S))
    PROVE  At(At(s, S), R) = At(s, {Pos(S)[r] : r \in R})
<1> DEFINE t == At(s, S)
           n == Cardinality(R)
           g == [k \in 1 .. n |-> Pos(S)[Pos(R)[k]]]
           V == {Pos(S)[r] : r \in R}
<1>1. /\ Cardinality(S) \in Nat /\ t \in Seq(T) /\ DOMAIN t = 1 .. Cardinality(S)
      /\ \A k \in 1 .. Cardinality(S) : Pos(S)[k] \in S /\ t[k] = s[Pos(S)[k]]
      /\ \A j, k \in 1 .. Cardinality(S) : j < k => Pos(S)[j] < Pos(S)[k]
  BY AtFacts
<1> HIDE DEF t
<1>2. /\ n \in Nat
      /\ At(t, R) = [k \in 1 .. n |-> t[Pos(R)[k]]]
      /\ \A k \in 1 .. n : Pos(R)[k] \in R
      /\ \A j, k \in 1 .. n : j < k => Pos(R)[j] < Pos(R)[k]
      /\ \A i \in R : \E k \in 1 .. n : Pos(R)[k] = i
  <2>1. R \in SUBSET DOMAIN t
    BY <1>1
  <2>2. At(t, R) = [k \in 1 .. n |-> t[Pos(R)[k]]]
    BY <1>1, <2>1, AtPos
  <2> QED BY <1>1, <2>1, <2>2, AtFacts
<1>3. V \in SUBSET DOMAIN s
  BY <1>1
<1>4. Counts(g, n, V)
  <2>1. g \in [1 .. n -> V]
    BY <1>2
  <2>2. \A j, k \in 1 .. n : j < k => g[j] < g[k]
    <3>1. SUFFICES ASSUME NEW j \in 1 .. n, NEW k \in 1 .. n, j < k PROVE g[j] < g[k]
      OBVIOUS
    <3>2. Pos(R)[j] \in 1 .. Cardinality(S) /\ Pos(R)[k] \in 1 .. Cardinality(S)
      BY <1>2
    <3>3. Pos(R)[j] < Pos(R)[k]
      BY <1>2, <3>1
    <3> QED BY <1>1, <3>2, <3>3
  <2>3. \A i \in V : \E k \in 1 .. n : g[k] = i
    BY <1>2
  <2> HIDE DEF g, V, n
  <2> QED BY <2>1, <2>2, <2>3 DEF Counts
<1>5. At(s, V) = [k \in 1 .. n |-> s[g[k]]]
  <2> HIDE DEF g, V, n
  <2> QED BY <1>2, <1>3, <1>4, AtCounted
<1>6. \A k \in 1 .. n : s[g[k]] = t[Pos(R)[k]]
  BY <1>1, <1>2
<1>7. At(t, R) = At(s, V)
  <2> HIDE DEF g, V, n
  <2> QED BY <1>2, <1>5, <1>6
<1> QED BY <1>7 DEF t, V
-----------------------------------------------------------------------------
(* The entries of a sequence of items.                                      *)

\* The positions whose items have an entry in Redis.
Persisted(s) == {k \in DOMAIN s : IsPersisted(s[k])}

\* An entry is the item it was made from.
LEMMA EntriesFacts ==
    ASSUME NEW s \in Seq(Item)
    PROVE  /\ Entries(s) = At(s, Persisted(s)) /\ Entries(s) \in Seq(Item)
           /\ Persisted(s) \in SUBSET DOMAIN s /\ IsFiniteSet(Persisted(s))
           /\ Len(Entries(s)) = Cardinality(Persisted(s))
           /\ DOMAIN Entries(s) = 1 .. Cardinality(Persisted(s))
           /\ \A k \in DOMAIN Entries(s) :
                 /\ Pos(Persisted(s))[k] \in DOMAIN s /\ IsPersisted(s[Pos(Persisted(s))[k]])
                 /\ Entries(s)[k] = s[Pos(Persisted(s))[k]]
<1>1. Persisted(s) \in SUBSET DOMAIN s /\ Entries(s) = At(s, Persisted(s))
  BY DEF Persisted, Entries
<1>2. /\ At(s, Persisted(s)) \in Seq(Item) /\ IsFiniteSet(Persisted(s))
      /\ Len(At(s, Persisted(s))) = Cardinality(Persisted(s))
      /\ DOMAIN At(s, Persisted(s)) = 1 .. Cardinality(Persisted(s))
      /\ \A k \in 1 .. Cardinality(Persisted(s)) :
            /\ Pos(Persisted(s))[k] \in Persisted(s)
            /\ At(s, Persisted(s))[k] = s[Pos(Persisted(s))[k]]
  BY <1>1, AtFacts
<1>3. \A i \in Persisted(s) : i \in DOMAIN s /\ IsPersisted(s[i])
  BY DEF Persisted
<1> QED BY <1>1, <1>2, <1>3

\* What of the entries belongs to the positions in S is the entries of what is there.
LEMMA EntriesAt ==
    ASSUME NEW s \in Seq(Item), NEW S \in SUBSET DOMAIN s
    PROVE  Entries(At(s, S)) =
             At(Entries(s), {k \in DOMAIN Entries(s) : Pos(Persisted(s))[k] \in S})
<1> DEFINE t == At(s, S)
           P == Persisted(s)
           R == {k \in DOMAIN Entries(s) : Pos(P)[k] \in S}
           Q == Persisted(t)
<1>1. /\ t \in Seq(Item) /\ DOMAIN t = 1 .. Cardinality(S)
      /\ \A k \in 1 .. Cardinality(S) : Pos(S)[k] \in S /\ t[k] = s[Pos(S)[k]]
      /\ \A i \in S : \E k \in 1 .. Cardinality(S) : Pos(S)[k] = i
  BY AtFacts
<1>2. /\ P \in SUBSET DOMAIN s /\ DOMAIN Entries(s) = 1 .. Cardinality(P) /\ Entries(s) = At(s, P)
      /\ \A i \in P : \E k \in 1 .. Cardinality(P) : Pos(P)[k] = i
      /\ \A k \in 1 .. Cardinality(P) : Pos(P)[k] \in P
  BY EntriesFacts, AtFacts
<1>3. Q \in SUBSET (1 .. Cardinality(S)) /\ Entries(t) = At(t, Q)
  BY <1>1 DEF Persisted, Entries
<1>4. R \in SUBSET (1 .. Cardinality(P))
  BY <1>2
<1>5. {Pos(S)[k] : k \in Q} = S \cap P
  BY <1>1 DEF Persisted
<1>6. {Pos(P)[k] : k \in R} = S \cap P
  BY <1>2
<1>7. Entries(t) = At(s, S \cap P)
  <2> HIDE DEF Q
  <2> QED BY <1>3, <1>5, AtAt DEF t
<1>8. At(Entries(s), R) = At(s, S \cap P)
  <2> HIDE DEF R, P
  <2> QED BY <1>2, <1>4, <1>6, AtAt
<1> QED BY <1>7, <1>8

\* Sequences that differ in nothing an entry depends on have entries of one shape.
LEMMA EntriesAlong ==
    ASSUME NEW s \in Seq(Item), NEW t \in Seq(Item), Len(s) = Len(t),
           \A k \in DOMAIN s : IsPersisted(s[k]) <=> IsPersisted(t[k])
    PROVE  /\ DOMAIN Entries(s) = DOMAIN Entries(t) /\ Len(Entries(s)) = Len(Entries(t))
           /\ \A k \in DOMAIN Entries(s) : \E i \in DOMAIN s :
                 Entries(s)[k] = s[i] /\ Entries(t)[k] = t[i]
<1>1. DOMAIN s = DOMAIN t
  BY LenProperties
<1>2. Persisted(s) = Persisted(t)
  BY <1>1 DEF Persisted
<1> DEFINE P == Persisted(s)
           a == Entries(s)
           b == Entries(t)
<1>3. /\ DOMAIN a = 1 .. Cardinality(P) /\ Len(a) = Cardinality(P)
      /\ \A k \in DOMAIN a : Pos(P)[k] \in DOMAIN s /\ a[k] = s[Pos(P)[k]]
  BY EntriesFacts
<1>4. /\ DOMAIN b = 1 .. Cardinality(P) /\ Len(b) = Cardinality(P)
      /\ \A k \in DOMAIN b : b[k] = t[Pos(P)[k]]
  BY <1>2, EntriesFacts
<1> HIDE DEF P, a, b
<1>5. \A k \in DOMAIN a : \E i \in DOMAIN s : a[k] = s[i] /\ b[k] = t[i]
  BY <1>3, <1>4
<1> QED BY <1>3, <1>4, <1>5 DEF a, b

\* The entries of two sequences in a row.
LEMMA EntriesConcat ==
    ASSUME NEW a \in Seq(Item), NEW b \in Seq(Item)
    PROVE  Entries(a \o b) = Entries(a) \o Entries(b)
<1> DEFINE c == a \o b
           A == Persisted(a)
           B == Persisted(b)
           C == Persisted(c)
           m == Cardinality(A)
           n == Cardinality(B)
           l == Len(a)
           f == Pos(A)
           h == Pos(B)
           g == [k \in 1 .. m + n |-> IF k <= m THEN f[k] ELSE l + h[k - m]]
           ea == Entries(a)
           eb == Entries(b)
           e == ea \o eb
<1>1. /\ l \in Nat /\ Len(b) \in Nat /\ DOMAIN a = 1 .. l /\ DOMAIN b = 1 .. Len(b)
      /\ c \in Seq(Item) /\ Len(c) = l + Len(b) /\ DOMAIN c = 1 .. l + Len(b)
      /\ \A k \in 1 .. l + Len(b) : c[k] = IF k <= l THEN a[k] ELSE b[k - l]
  <2>1. /\ c \in Seq(Item) /\ Len(c) = l + Len(b)
        /\ \A k \in 1 .. l + Len(b) : c[k] = IF k <= l THEN a[k] ELSE b[k - l]
    BY ConcatProperties
  <2>2. l \in Nat /\ Len(b) \in Nat /\ DOMAIN a = 1 .. l /\ DOMAIN b = 1 .. Len(b)
    BY LenProperties
  <2> HIDE DEF c
  <2>3. DOMAIN c = 1 .. l + Len(b)
    BY <2>1, LenProperties
  <2> QED BY <2>1, <2>2, <2>3
<1>2. /\ m \in Nat /\ A \in SUBSET (1 .. l) /\ Counts(f, m, A)
      /\ ea \in Seq(Item) /\ Len(ea) = m /\ \A k \in 1 .. m : ea[k] = a[f[k]]
  <2>1. /\ A \in SUBSET DOMAIN a /\ IsFiniteSet(A) /\ ea \in Seq(Item) /\ Len(ea) = m
        /\ DOMAIN ea = 1 .. m /\ \A k \in DOMAIN ea : ea[k] = a[f[k]]
    BY EntriesFacts
  <2>2. A \in SUBSET (1 .. l) /\ A \in SUBSET Nat
    BY <1>1, <2>1
  <2>3. m \in Nat /\ Counts(f, m, A)
    BY <2>1, <2>2, PosCounts
  <2> QED BY <2>1, <2>2, <2>3
<1>3. /\ n \in Nat /\ B \in SUBSET (1 .. Len(b)) /\ Counts(h, n, B)
      /\ eb \in Seq(Item) /\ Len(eb) = n /\ \A k \in 1 .. n : eb[k] = b[h[k]]
  <2>1. /\ B \in SUBSET DOMAIN b /\ IsFiniteSet(B) /\ eb \in Seq(Item) /\ Len(eb) = n
        /\ DOMAIN eb = 1 .. n /\ \A k \in DOMAIN eb : eb[k] = b[h[k]]
    BY EntriesFacts
  <2>2. B \in SUBSET (1 .. Len(b)) /\ B \in SUBSET Nat
    BY <1>1, <2>1
  <2>3. n \in Nat /\ Counts(h, n, B)
    BY <2>1, <2>2, PosCounts
  <2> QED BY <2>1, <2>2, <2>3
<1> HIDE DEF c
<1>4. C \in SUBSET DOMAIN c /\ Entries(c) = At(c, C)
  BY <1>1, EntriesFacts
<1>5. \A i : i \in C <=> i \in A \/ \E j \in B : i = l + j
  <2>1. ASSUME NEW i, i \in C PROVE i \in A \/ \E j \in B : i = l + j
    <3>1. i \in 1 .. l + Len(b) /\ IsPersisted(c[i])
      BY <1>1, <2>1 DEF Persisted
    <3>2. CASE i <= l
      <4>1. i \in DOMAIN a /\ c[i] = a[i]
        BY <1>1, <3>1, <3>2
      <4> QED BY <3>1, <4>1 DEF Persisted
    <3>3. CASE ~(i <= l)
      <4>1. i - l \in DOMAIN b /\ c[i] = b[i - l] /\ i = l + (i - l)
        BY <1>1, <3>1, <3>3
      <4>2. i - l \in B
        BY <3>1, <4>1 DEF Persisted
      <4> HIDE DEF B
      <4> QED BY <4>1, <4>2
    <3> QED BY <3>2, <3>3
  <2>2. ASSUME NEW i, i \in A PROVE i \in C
    <3>1. i \in 1 .. l /\ IsPersisted(a[i])
      BY <1>1, <2>2 DEF Persisted
    <3>2. i \in 1 .. l + Len(b) /\ c[i] = a[i]
      BY <1>1, <3>1
    <3> QED BY <1>1, <3>1, <3>2 DEF Persisted
  <2>3. ASSUME NEW j \in B PROVE l + j \in C
    <3>1. j \in 1 .. Len(b) /\ IsPersisted(b[j])
      BY <1>1 DEF Persisted
    <3>2. l + j \in 1 .. l + Len(b) /\ c[l + j] = b[j]
      <4>1. l + j \in 1 .. l + Len(b) /\ ~(l + j <= l) /\ (l + j) - l = j
        BY <1>1, <3>1
      <4>2. c[l + j] = b[(l + j) - l]
        BY <1>1, <4>1
      <4> QED BY <4>1, <4>2
    <3> QED BY <1>1, <3>1, <3>2 DEF Persisted
  <2> HIDE DEF A, B, C
  <2> QED BY <2>1, <2>2, <2>3
<1> HIDE DEF A, B, C, m, n, l, f, h, ea, eb
<1>6. m + n \in Nat /\ B \in SUBSET (Nat \ {0})
  BY <1>1, <1>2, <1>3
<1>7. Counts(g, m + n, C)
  <2>1. /\ \A k \in 1 .. m : f[k] \in A /\ f[k] \in 1 .. l
        /\ \A k \in 1 .. n : h[k] \in B /\ h[k] \in Nat \ {0}
        /\ l \in Nat /\ m \in Nat /\ n \in Nat
    <3>1. f \in [1 .. m -> A] /\ h \in [1 .. n -> B]
      BY <1>2, <1>3 DEF Counts
    <3> QED BY <1>1, <1>2, <1>3, <1>6, <3>1
  <2>2. \A k \in 1 .. m + n : /\ k <= m => k \in 1 .. m
                              /\ ~(k <= m) => k - m \in 1 .. n
    BY <2>1
  <2>3. /\ \A k \in 1 .. m + n : g[k] = IF k <= m THEN f[k] ELSE l + h[k - m]
        /\ DOMAIN g = 1 .. m + n /\ g = [k \in 1 .. m + n |-> g[k]]
    OBVIOUS
  <2> HIDE DEF g
  <2>4. g \in [1 .. m + n -> C]
    <3>1. \A k \in 1 .. m + n : g[k] \in C
      BY <1>5, <2>1, <2>2, <2>3
    <3> QED BY <2>3, <3>1
  <2>5. \A j, k \in 1 .. m + n : j < k => g[j] < g[k]
    <3>1. SUFFICES ASSUME NEW j \in 1 .. m + n, NEW k \in 1 .. m + n, j < k
                   PROVE  g[j] < g[k]
      OBVIOUS
    <3>2. CASE k <= m
      <4>1. j \in 1 .. m /\ k \in 1 .. m /\ j <= m
        BY <2>1, <3>1, <3>2
      <4>2. f[j] < f[k]
        BY <1>2, <3>1, <4>1 DEF Counts
      <4> QED BY <2>3, <3>2, <4>1, <4>2
    <3>3. CASE j <= m /\ ~(k <= m)
      <4>1. f[j] \in 1 .. l /\ h[k - m] \in Nat \ {0}
        BY <2>1, <2>2, <3>3
      <4>2. g[j] = f[j] /\ g[k] = l + h[k - m]
        BY <2>3, <3>3
      <4> QED BY <2>1, <4>1, <4>2
    <3>4. CASE ~(j <= m)
      <4>1. ~(k <= m) /\ j - m \in 1 .. n /\ k - m \in 1 .. n /\ j - m < k - m
        BY <2>1, <2>2, <3>1, <3>4
      <4>2. h[j - m] < h[k - m] /\ h[j - m] \in Nat /\ h[k - m] \in Nat
        BY <1>3, <2>1, <4>1 DEF Counts
      <4>3. g[j] = l + h[j - m] /\ g[k] = l + h[k - m]
        BY <2>3, <3>4, <4>1
      <4> QED BY <2>1, <4>2, <4>3
    <3> QED BY <3>2, <3>3, <3>4
  <2>6. \A i \in C : \E k \in 1 .. m + n : g[k] = i
    <3>1. SUFFICES ASSUME NEW i \in C PROVE \E k \in 1 .. m + n : g[k] = i
      OBVIOUS
    <3>2. CASE i \in A
      <4>1. PICK k \in 1 .. m : f[k] = i
        BY <1>2, <3>2 DEF Counts
      <4>2. k \in 1 .. m + n /\ k <= m
        BY <2>1
      <4> QED BY <2>3, <4>1, <4>2
    <3>3. CASE \E j \in B : i = l + j
      <4>1. PICK j \in B : i = l + j
        BY <3>3
      <4>2. PICK k \in 1 .. n : h[k] = j
        BY <1>3 DEF Counts
      <4>3. m + k \in 1 .. m + n /\ ~(m + k <= m) /\ (m + k) - m = k
        BY <2>1
      <4>4. g[m + k] = l + h[k]
        BY <2>3, <4>3
      <4> QED BY <4>1, <4>2, <4>3, <4>4
    <3> QED BY <1>5, <3>2, <3>3
  <2> QED BY <2>4, <2>5, <2>6 DEF Counts
<1>8. Entries(c) = [k \in 1 .. m + n |-> c[g[k]]]
  <2> HIDE DEF g
  <2> QED BY <1>1, <1>4, <1>6, <1>7, AtCounted
<1>9. /\ e \in Seq(Item) /\ Len(e) = m + n
      /\ \A k \in 1 .. m + n : e[k] = IF k <= m THEN ea[k] ELSE eb[k - m]
  BY <1>2, <1>3, ConcatProperties
<1> HIDE DEF e
<1>10. e = [k \in 1 .. m + n |-> e[k]]
  BY <1>9, LenProperties, SeqDef
<1>11. ASSUME NEW k \in 1 .. m + n PROVE c[g[k]] = e[k]
  <2>1. CASE k <= m
    <3>1. k \in 1 .. m /\ g[k] = f[k] /\ f[k] \in A
      BY <1>2, <2>1 DEF Counts
    <3> DEFINE i == f[k]
    <3>2. i \in 1 .. l + Len(b) /\ i <= l /\ g[k] = i
      <4>1. i \in 1 .. l
        BY <1>2, <3>1
      <4> HIDE DEF i, g
      <4>2. i \in 1 .. l + Len(b) /\ i <= l
        BY <1>1, <4>1
      <4> QED BY <3>1, <4>2 DEF i
    <3> HIDE DEF i, g
    <3>3. c[g[k]] = a[i]
      BY <1>1, <3>2
    <3>4. ea[k] = a[i] /\ e[k] = ea[k]
      BY <1>2, <1>9, <2>1, <3>1 DEF i
    <3> QED BY <3>3, <3>4
  <2>2. CASE ~(k <= m)
    <3> DEFINE j == k - m
    <3>1. j \in 1 .. n /\ g[k] = l + h[j]
      BY <1>2, <1>3, <2>2
    <3> HIDE DEF g
    <3>2. h[j] \in 1 .. Len(b)
      BY <1>3, <3>1 DEF Counts
    <3> HIDE DEF j
    <3>3. l + h[j] \in 1 .. l + Len(b) /\ ~(l + h[j] <= l) /\ (l + h[j]) - l = h[j]
      BY <1>1, <3>2
    <3>4. c[g[k]] = b[h[j]]
      <4>1. c[l + h[j]] = b[(l + h[j]) - l]
        BY <1>1, <3>3
      <4> QED BY <3>1, <3>3, <4>1
    <3>5. e[k] = eb[j]
      BY <1>9, <2>2 DEF j
    <3>6. eb[j] = b[h[j]]
      BY <1>3, <3>1
    <3> QED BY <3>4, <3>5, <3>6
  <2> QED BY <2>1, <2>2
<1> HIDE DEF g
<1>12. Entries(c) = e
  BY <1>8, <1>10, <1>11
<1> QED BY <1>12 DEF c, e, ea, eb

\* The entries of short sequences, and of a sequence without its head.
LEMMA EntriesEmpty == Entries(<<>>) = <<>>
<1>1. <<>> \in Seq(Item) /\ DOMAIN <<>> = {}
  BY EmptySeq
<1>2. Persisted(<<>>) = {}
  BY <1>1 DEF Persisted
<1>3. Len(Entries(<<>>)) = 0 /\ Entries(<<>>) \in Seq(Item)
  <2>1. Cardinality(Persisted(<<>>)) = 0
    BY <1>2, FS_EmptySet
  <2> QED BY <1>1, <2>1, EntriesFacts
<1> QED BY <1>3, EmptySeq

\* A sequence of one item.
LEMMA EntriesOne ==
    ASSUME NEW i \in Item
    PROVE  Entries(<<i>>) = IF IsPersisted(i) THEN <<i>> ELSE <<>>
<1> DEFINE s == <<i>>
           P == Persisted(s)
           e == Entries(s)
<1>1. s \in Seq(Item) /\ DOMAIN s = {1} /\ s[1] = i
  OBVIOUS
<1> HIDE DEF s
<1>2. /\ e \in Seq(Item) /\ Len(e) = Cardinality(P) /\ DOMAIN e = 1 .. Cardinality(P)
      /\ \A k \in DOMAIN e : Pos(P)[k] \in DOMAIN s /\ e[k] = s[Pos(P)[k]]
  BY <1>1, EntriesFacts
<1>3. CASE IsPersisted(i)
  <2>1. P = {1}
    BY <1>1, <1>3 DEF Persisted
  <2>2. Cardinality(P) = 1
    BY <2>1, FS_Singleton
  <2> HIDE DEF P, e
  <2>3. Len(e) = 1 /\ e[1] = i
    BY <1>1, <1>2, <2>2
  <2>4. e = <<i>>
    BY <1>2, <2>3
  <2> QED BY <1>3, <2>4 DEF e, s
<1>4. CASE ~IsPersisted(i)
  <2>1. P = {}
    BY <1>1, <1>4 DEF Persisted
  <2>2. Cardinality(P) = 0
    BY <2>1, FS_EmptySet
  <2> HIDE DEF P, e
  <2>3. e = <<>>
    BY <1>2, <2>2, EmptySeq
  <2> QED BY <1>4, <2>3 DEF e, s
<1> QED BY <1>3, <1>4

\* A sequence without its head.
LEMMA EntriesTail ==
    ASSUME NEW s \in Seq(Item), s # <<>>
    PROVE  /\ s[1] \in Item /\ Head(s) = s[1] /\ Tail(s) \in Seq(Item)
           /\ Entries(s) = (IF IsPersisted(s[1]) THEN <<s[1]>> ELSE <<>>) \o Entries(Tail(s))
<1> DEFINE i == s[1]
           t == Tail(s)
<1>1. /\ Len(s) \in Nat \ {0} /\ DOMAIN s = 1 .. Len(s) /\ Head(s) = i /\ i \in Item
      /\ t \in Seq(Item) /\ Len(t) = Len(s) - 1
      /\ \A k \in 1 .. Len(s) - 1 : t[k] = s[k + 1]
  BY EmptySeq, LenProperties, HeadTailProperties, ElementOfSeq
<1> HIDE DEF i, t
<1>2. <<i>> \in Seq(Item) /\ Len(<<i>>) = 1 /\ <<i>>[1] = i
  BY <1>1
<1> DEFINE h == <<i>>
           c == h \o t
<1> HIDE DEF h
<1>3. /\ c \in Seq(Item) /\ Len(c) = Len(s)
      /\ \A k \in 1 .. Len(s) : c[k] = IF k <= 1 THEN h[k] ELSE t[k - 1]
  <2>1. /\ c \in Seq(Item) /\ Len(c) = Len(h) + Len(t)
        /\ \A k \in 1 .. Len(h) + Len(t) : c[k] = IF k <= Len(h) THEN h[k] ELSE t[k - Len(h)]
    BY <1>1, <1>2, ConcatProperties DEF h
  <2> HIDE DEF c
  <2>2. Len(h) = 1 /\ Len(h) + Len(t) = Len(s)
    BY <1>1, <1>2 DEF h
  <2> QED BY <2>1, <2>2
<1> HIDE DEF c
<1>4. \A k \in 1 .. Len(s) : c[k] = s[k]
  <2>1. SUFFICES ASSUME NEW k \in 1 .. Len(s) PROVE c[k] = s[k]
    OBVIOUS
  <2>2. CASE k <= 1
    <3>1. k = 1
      BY <1>1, <2>2
    <3> QED BY <1>2, <1>3, <2>2, <3>1 DEF h, i
  <2>3. CASE ~(k <= 1)
    <3>1. k - 1 \in 1 .. Len(s) - 1 /\ (k - 1) + 1 = k
      BY <1>1, <2>3
    <3>2. c[k] = t[k - 1] /\ t[k - 1] = s[(k - 1) + 1]
      BY <1>1, <1>3, <2>3, <3>1
    <3> QED BY <3>1, <3>2
  <2> QED BY <2>2, <2>3
<1>5. s = c
  BY <1>1, <1>3, <1>4, SeqEqual
<1>6. Entries(s) = Entries(<<i>>) \o Entries(t)
  BY <1>1, <1>2, <1>5, EntriesConcat DEF c, h
<1> QED BY <1>1, <1>6, EntriesOne DEF i, t
=============================================================================
