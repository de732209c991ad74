------------------------- MODULE OutboxDrainerProofs -------------------------
(***************************************************************************)
(* What the outbox keeps for every number of drainers, plays, faults and      *)
(* every batch and cap: types, no play lost, a bounded pending set, and that   *)
(* the whole implements HistoryLedger; and what the cap promises while there    *)
(* is one drainer and nobody deletes entries.                                *)
(***************************************************************************)
EXTENDS OutboxDrainer, FiniteSetTheorems, WellFoundedInduction, TLAPS

-----------------------------------------------------------------------------
(* Bounded sets of ids. *)

\* A non-empty set of naturals has the least element Min chooses.
LEMMA LeastId ==
    ASSUME NEW S \in SUBSET Nat, S # {}
    PROVE  /\ Min(S) \in S
           /\ \A j \in S : Min(S) <= j
<1>. DEFINE Less == {ss \in Nat \X Nat : ss[1] < ss[2]}
<1>1. IsWellFoundedOn(Less, Nat)
  BY NatLessThanWellFounded DEF OpToRel
<1>2. PICK m \in S : \A j \in S : ~ (<<j, m>> \in Less)
  <2>. HIDE DEF Less
  <2>. QED BY <1>1, WFMin
<1>3. ASSUME NEW j \in S PROVE m <= j
  <2>1. j < m => <<j, m>> \in Less
    OBVIOUS
  <2>. HIDE DEF Less
  <2>. QED BY <1>2, <2>1
<1>. QED
  BY <1>3 DEF Min

\* A non-empty set of ids has the greatest element Max chooses.
LEMMA GreatestId ==
    ASSUME NEW k \in Nat, NEW S \in SUBSET (1 .. k), S # {}
    PROVE  /\ Max(S) \in S
           /\ \A j \in S : j <= Max(S)
<1>. DEFINE T == {k - i : i \in S}
<1>1. T \in SUBSET Nat /\ T # {}
  <2>1. \A i \in S : k - i \in Nat
    OBVIOUS
  <2>. QED BY <2>1
<1>2. Min(T) \in T /\ \A t \in T : Min(T) <= t
  BY <1>1, LeastId
<1>3. PICK m \in S : Min(T) = k - m
  BY <1>2
<1>. HIDE DEF T
<1>4. \A j \in S : k - j \in T
  BY DEF T
<1>5. \A j \in S : j <= m
  BY <1>2, <1>3, <1>4
<1>. QED
  BY <1>5 DEF Max

LEMMA FiniteIds ==
    ASSUME NEW k \in Nat, NEW S \in SUBSET (1 .. k)
    PROVE  IsFiniteSet(S) /\ Cardinality(S) \in Nat
<1>1. IsFiniteSet(1 .. k)
  BY FS_Interval
<1>. QED
  BY <1>1, FS_Subset, FS_CardinalityType

\* COUNT n returns at most n entries.
LEMMA OldestBounded ==
    ASSUME NEW k \in Nat, NEW S \in SUBSET (1 .. k), NEW n \in Nat
    PROVE  Cardinality(Oldest(S, n)) <= n
<1>. DEFINE O == Oldest(S, n)
<1>1. O \subseteq S
  BY DEF Oldest
<1>2. CASE O = {}
  BY <1>2, FS_EmptySet
<1>3. CASE O # {}
  <2>1. PICK m \in O : \A j \in O : j <= m
    <3>. HIDE DEF O
    <3>. QED BY <1>1, <1>3, GreatestId
  <2>. DEFINE L == {j \in O : j < m}
              B == {j \in S : j < m}
  <2>2. Cardinality(B) < n
    BY <2>1 DEF Oldest
  <2>3. B \in SUBSET (1 .. k) /\ L \in SUBSET (1 .. k) /\ L \subseteq B
    BY <1>1
  <2>4. Cardinality(L) <= Cardinality(B) /\ IsFiniteSet(L)
    BY <2>3, FiniteIds, FS_Subset
  <2>5. O = L \cup {m} /\ m \notin L
    <3>. HIDE DEF O
    <3>1. \A j \in O : j \in Nat
      BY <1>1
    <3>. QED BY <2>1, <3>1
  <2>6. Cardinality(O) = Cardinality(L) + 1
    <3>. HIDE DEF O, L
    <3>. QED BY <2>4, <2>5, FS_AddElement
  <2>7. Cardinality(L) \in Nat /\ Cardinality(B) \in Nat
    BY <2>3, FiniteIds
  <2>. HIDE DEF O, L, B
  <2>8. Cardinality(O) <= n
    BY <2>2, <2>4, <2>6, <2>7
  <2>. QED
    BY <2>8 DEF O
<1>. QED
  BY <1>2, <1>3

\* What is older than an entry returned is returned too.
LEMMA OldestClosed ==
    ASSUME NEW k \in Nat, NEW S \in SUBSET (1 .. k), NEW n \in Nat,
           NEW m \in Oldest(S, n), NEW i \in S, i <= m
    PROVE  i \in Oldest(S, n)
<1>. DEFINE Below(x) == {j \in S : j < x}
<1>1. m \in S /\ Cardinality(Below(m)) < n
  BY DEF Oldest
<1>2. Below(i) \subseteq Below(m) /\ Below(m) \in SUBSET (1 .. k)
  <2>1. i \in Nat /\ m \in Nat /\ \A j \in S : j \in Nat
    BY <1>1
  <2>2. \A j \in S : j < i => j < m
    BY <2>1
  <2>. QED BY <2>2
<1>3. Cardinality(Below(i)) <= Cardinality(Below(m))
  BY <1>2, FiniteIds, FS_Subset
<1>4. Cardinality(Below(i)) \in Nat /\ Cardinality(Below(m)) \in Nat
  BY <1>2, FiniteIds
<1>5. Cardinality(Below(i)) < n
  <2>. HIDE DEF Below
  <2>. QED BY <1>1, <1>3, <1>4
<1>. QED
  BY <1>5 DEF Oldest

-----------------------------------------------------------------------------
(* The inductive invariant. *)

\* What a drainer knows about the batch it holds: its tombstones have no body any
\* more, and what it is about to retire is in the archive, refused or unreadable.
DrainerOK(d) ==
    /\ tombs[d] \subseteq (1 .. pushed) \ stream
    /\ todo[d] \subseteq 1 .. pushed
    /\ pc[d] \in {"insert", "isolate", "reject", "isoRetire"} => todo[d] # {}
    /\ pc[d] = "reject" => Play(Item(d)) \in Readable \ Accepted
    /\ pc[d] = "retire" => \A i \in todo[d] : Settled(i) \/ Play(i) \notin Readable
    /\ pc[d] = "isoRetire" => Settled(Item(d)) \/ Play(Item(d)) \notin Readable

\* A group that is gone has delivered nothing.
GroupOK == ~group => delivered = 0 /\ pending = {}

\* A drainer about to read new entries has seen the pending set empty; until it
\* has read, the others' batches are all there is.
PelOK ==
    Cardinality(pending) <= BatchSize * Cardinality({d \in Drainers : pc[d] # "new"})

DrainInv ==
    /\ TypeOK
    /\ \A d \in Drainers : DrainerOK(d)
    /\ GroupOK
    /\ NoPlayLost
    /\ PelOK

-----------------------------------------------------------------------------
(* How a step moves the drainer that takes it. *)

Calm == Labels \ {"tombs", "insert", "retire", "isolate", "reject", "isoRetire", "new"}

Others(d) ==
    \A e \in Drainers \ {d} :
        pc'[e] = pc[e] /\ todo'[e] = todo[e] /\ tombs'[e] = tombs[e]

\* The drainer is between batches and holds nothing.
Calmed(d) ==
    /\ LocalTypeOK'
    /\ Others(d)
    /\ pc'[d] \in Calm
    /\ todo'[d] = {}
    /\ tombs'[d] = {}

LEMMA LeaveCalms ==
    ASSUME NEW d \in Drainers, LocalTypeOK, NEW l \in Calm,
           NEW m \in {"run", "failed", "final"}, Leave(d, l, m)
    PROVE  Calmed(d)
<1>1. NoCap \in CapLocals
  BY DEF NoCap, CapLocals
<1>. QED
  BY <1>1 DEF Calmed, LocalTypeOK, Leave, Others, Calm

LEMMA RaiseCalms ==
    ASSUME NEW d \in Drainers, LocalTypeOK, Raise(d)
    PROVE  Calmed(d)
<1>1. {"down", "backoff", "depth"} \subseteq Calm
  BY DEF Calm, Labels
<1>2. PICK l \in Calm, m \in {"run", "failed", "final"} : Leave(d, l, m)
  BY <1>1 DEF Raise
<1>. QED
  BY <1>2, LeaveCalms

LEMMA ReplyLostCalms ==
    ASSUME NEW d \in Drainers, LocalTypeOK, faults \in 0 .. MaxFaults, ReplyLost(d)
    PROVE  Calmed(d) /\ faults' \in 0 .. MaxFaults
BY RaiseCalms, DrainerAssumption DEF ReplyLost, Fault, DrainerAssumption

LEMMA CapOverCalms ==
    ASSUME NEW d \in Drainers, LocalTypeOK, CapOver(d)
    PROVE  Calmed(d)
<1>1. {"sweep", "backoff"} \subseteq Calm
  BY DEF Calm, Labels
<1>2. PICK l \in Calm, m \in {"run", "failed", "final"} : Leave(d, l, m)
  BY <1>1 DEF CapOver
<1>. QED
  BY <1>2, LeaveCalms

LEMMA BatchOverCalms ==
    ASSUME NEW d \in Drainers, LocalTypeOK, BatchOver(d)
    PROVE  Calmed(d)
<1>1. {"pending", "sweep", "depth"} \subseteq Calm
  BY DEF Calm, Labels
<1>2. PICK l \in Calm, m \in {"run", "failed", "final"} : Leave(d, l, m)
  BY <1>1 DEF BatchOver
<1>. QED
  BY <1>2, LeaveCalms

LEMMA NothingNewCalms ==
    ASSUME NEW d \in Drainers, LocalTypeOK, NothingNew(d)
    PROVE  Calmed(d)
<1>1. {"idle", "down"} \subseteq Calm
  BY DEF Calm, Labels
<1>2. PICK l \in Calm, m \in {"run", "failed", "final"} : Leave(d, l, m)
  BY <1>1 DEF NothingNew
<1>. QED
  BY <1>2, LeaveCalms

LEMMA GoOnMoves ==
    ASSUME NEW d \in Drainers, LocalTypeOK, NEW l \in Labels, NEW rest \in SUBSET Ids,
           GoOn(d, l, rest)
    PROVE  /\ LocalTypeOK'
           /\ Others(d)
           /\ pc'[d] = l
           /\ todo'[d] = rest
           /\ tombs'[d] = tombs[d]
BY DEF LocalTypeOK, GoOn, Others

LEMMA DeliveredMoves ==
    ASSUME NEW d \in Drainers, LocalTypeOK, NEW ids \in SUBSET Ids, Delivered(d, ids)
    PROVE  /\ LocalTypeOK'
           /\ Others(d)
           /\ pc'[d] \in {"tombs", "insert", "retire"}
           /\ pc'[d] \in {"insert", "retire"} => pc'[d] = Live(todo'[d])
           /\ todo'[d] = ids \cap stream
           /\ tombs'[d] = ids \ stream
<1>1. Live(ids) \in {"insert", "retire"}
  BY DEF Live
<1>2. ids \subseteq stream => ids \cap stream = ids
  OBVIOUS
<1>3. LocalTypeOK'
  BY <1>1 DEF LocalTypeOK, Delivered, Labels
<1>. QED
  BY <1>1, <1>2, <1>3 DEF LocalTypeOK, Delivered, Others

-----------------------------------------------------------------------------
(* What a step does not disturb. *)

LEMMA CalmOK ==
    ASSUME NEW d \in Drainers, Calmed(d)
    PROVE  DrainerOK(d)'
BY DEF Calmed, DrainerOK, Calm

\* Archive and rejects only grow and bodies only disappear: what the others know
\* of their batches stays true.
LEMMA OthersKept ==
    ASSUME NEW d \in Drainers, \A e \in Drainers : DrainerOK(e), Others(d),
           archive \subseteq archive', refused \subseteq refused',
           pushed' = pushed, stream' \subseteq stream, DrainerOK(d)'
    PROVE  \A e \in Drainers : DrainerOK(e)'
<1>. SUFFICES ASSUME NEW e \in Drainers, e # d PROVE DrainerOK(e)'
  OBVIOUS
<1>1. pc'[e] = pc[e] /\ todo'[e] = todo[e] /\ tombs'[e] = tombs[e]
  BY DEF Others
<1>2. Item(e)' = Item(e)
  BY <1>1 DEF Item
<1>3. \A i : Settled(i) => Settled(i)'
  BY DEF Settled
<1>4. DrainerOK(e)
  OBVIOUS
<1>. QED
  BY <1>1, <1>2, <1>3, <1>4 DEF DrainerOK, Play

LEMMA ReadersGrow ==
    ASSUME NEW d \in Drainers, LocalTypeOK, Others(d), pc[d] = "new" \/ pc'[d] # "new"
    PROVE  /\ Cardinality({e \in Drainers : pc[e] # "new"}) \in Nat
           /\ Cardinality({e \in Drainers : pc'[e] # "new"}) \in Nat
           /\ Cardinality({e \in Drainers : pc[e] # "new"})
                <= Cardinality({e \in Drainers : pc'[e] # "new"})
           /\ pc[d] = "new" /\ pc'[d] # "new" =>
                Cardinality({e \in Drainers : pc'[e] # "new"})
                  = Cardinality({e \in Drainers : pc[e] # "new"}) + 1
<1>. DEFINE Old == {e \in Drainers : pc[e] # "new"}
            New == {e \in Drainers : pc'[e] # "new"}
<1>1. IsFiniteSet(Old) /\ IsFiniteSet(New)
  BY DrainerAssumption, FS_Subset DEF DrainerAssumption
<1>2. Old \subseteq New
  BY DEF Others
<1>3. pc[d] = "new" /\ pc'[d] # "new" => New = Old \cup {d} /\ d \notin Old
  BY DEF Others
<1>. HIDE DEF Old, New
<1>4. Cardinality(Old) \in Nat /\ Cardinality(New) \in Nat
  BY <1>1, FS_CardinalityType
<1>5. Cardinality(Old) <= Cardinality(New)
  BY <1>1, <1>2, FS_Subset
<1>6. pc[d] = "new" /\ pc'[d] # "new" => Cardinality(New) = Cardinality(Old) + 1
  BY <1>1, <1>3, FS_AddElement
<1>. QED
  BY <1>4, <1>5, <1>6 DEF Old, New

LEMMA PendingIds ==
    ASSUME SharedTypeOK
    PROVE  /\ pushed \in Nat
           /\ delivered \in Nat
           /\ stream \in SUBSET (1 .. pushed)
           /\ pending \in SUBSET (1 .. pushed)
           /\ 1 .. pushed \subseteq Ids
           /\ IsFiniteSet(pending)
           /\ Cardinality(pending) \in Nat
<1>1. Len(Produced) \in Nat
  BY DrainerAssumption DEF DrainerAssumption
<1>2. pushed \in Nat /\ delivered \in Nat /\ delivered <= pushed /\ pushed <= Len(Produced)
  BY <1>1 DEF SharedTypeOK
<1>3. pending \in SUBSET (1 .. pushed)
  BY <1>2 DEF SharedTypeOK
<1>. QED
  <2>1. IsFiniteSet(pending) /\ Cardinality(pending) \in Nat
    BY <1>2, <1>3, FiniteIds
  <2>2. 1 .. pushed \subseteq Ids
    BY <1>1, <1>2 DEF Ids
  <2>. QED
    BY <1>2, <1>3, <2>1, <2>2 DEF SharedTypeOK

LEMMA PelKept ==
    ASSUME NEW d \in Drainers, TypeOK, PelOK, Others(d), pending' \subseteq pending,
           pc[d] = "new" \/ pc'[d] # "new"
    PROVE  PelOK'
<1>. DEFINE o == Cardinality({e \in Drainers : pc[e] # "new"})
            n == Cardinality({e \in Drainers : pc'[e] # "new"})
<1>1. o \in Nat /\ n \in Nat /\ o <= n
  BY ReadersGrow DEF TypeOK
<1>2. Cardinality(pending') \in Nat /\ Cardinality(pending') <= Cardinality(pending)
  BY PendingIds, FS_Subset, FS_CardinalityType DEF TypeOK
<1>3. BatchSize \in Nat /\ Cardinality(pending) \in Nat
  BY DrainerAssumption, PendingIds DEF DrainerAssumption, TypeOK
<1>4. Cardinality(pending) <= BatchSize * o
  BY DEF PelOK
<1>. HIDE DEF o, n
<1>5. BatchSize * o <= BatchSize * n
  BY <1>1, <1>3
<1>6. BatchSize * o \in Nat /\ BatchSize * n \in Nat
  BY <1>1, <1>3
<1>7. Cardinality(pending') <= BatchSize * n
  BY <1>2, <1>3, <1>4, <1>5, <1>6
<1>. QED
  BY <1>7 DEF PelOK, n

LEMMA LossKept ==
    ASSUME NoPlayLost, UNCHANGED <<stream, pushed, delivered, pending>>,
           archive \subseteq archive', refused \subseteq refused', dropped \subseteq dropped'
    PROVE  NoPlayLost'
BY DEF NoPlayLost, Settled, Deliverable, Play

\* Settling may take what has no body or has arrived.
LEMMA SettleLosesNothing ==
    ASSUME NEW ids, NoPlayLost, Settle(ids), UNCHANGED dropped,
           archive \subseteq archive', refused \subseteq refused',
           \A i \in ids : i \notin stream \/ Settled(i)'
    PROVE  NoPlayLost'
<1>. SUFFICES ASSUME NEW i \in 1 .. pushed', ~ Settled(i)', i \notin dropped'
              PROVE  Deliverable(i)'
  BY DEF NoPlayLost
<1>1. i \in 1 .. pushed
  BY DEF Settle
<1>2. ~ Settled(i)
  BY DEF Settled
<1>3. Deliverable(i)
  BY <1>1, <1>2 DEF NoPlayLost
<1>4. i \notin ids
  BY <1>3 DEF Deliverable
<1>. QED
  BY <1>3, <1>4 DEF Deliverable, Settle

\* The common case of a drainer's step.
LEMMA StepKeeps ==
    ASSUME NEW d \in Drainers, DrainInv, SharedTypeOK', LocalTypeOK', Others(d),
           archive \subseteq archive', refused \subseteq refused',
           pushed' = pushed, stream' \subseteq stream, pending' \subseteq pending,
           pc[d] = "new" \/ pc'[d] # "new",
           DrainerOK(d)', GroupOK', NoPlayLost'
    PROVE  DrainInv'
<1>1. \A e \in Drainers : DrainerOK(e)'
  BY OthersKept DEF DrainInv
<1>2. PelOK'
  BY PelKept DEF DrainInv
<1>. QED
  BY <1>1, <1>2 DEF DrainInv, TypeOK

\* A step that sends a drainer off without touching a database.
LEMMA CalmStep ==
    ASSUME NEW d \in Drainers, DrainInv, Calmed(d), faults' \in 0 .. MaxFaults,
           UNCHANGED <<redis, postgres, losses>>
    PROVE  DrainInv'
<1>1. DrainerOK(d)'
  BY CalmOK
<1>2. SharedTypeOK'
  BY DEF DrainInv, TypeOK, SharedTypeOK, redis, postgres, losses
<1>3. NoPlayLost'
  BY LossKept DEF DrainInv, redis, postgres, losses
<1>4. GroupOK'
  BY DEF DrainInv, GroupOK, redis
<1>. QED
  BY <1>1, <1>2, <1>3, <1>4, StepKeeps DEF Calmed, Calm, redis, postgres

-----------------------------------------------------------------------------
(* The steps of a drainer: reading. *)

LEMMA SweepKeeps ==
    ASSUME NEW d \in Drainers, DrainInv, Sweep(d)
    PROVE  DrainInv'
<1>1. LocalTypeOK /\ SharedTypeOK
  BY DEF DrainInv, TypeOK
<1>2. PICK gone \in SUBSET (pending \ stream) : pending' = pending \ gone
  BY DEF Sweep
<1>3. GoOn(d, "pending", {})
  BY DEF Sweep
<1>4. /\ LocalTypeOK' /\ Others(d) /\ pc'[d] = "pending" /\ todo'[d] = {}
      /\ tombs'[d] = tombs[d]
  BY <1>1, <1>3, GoOnMoves DEF Labels
<1>5. UNCHANGED <<stream, pushed, group, delivered, postgres, losses, faults>>
  BY DEF Sweep
<1>6. SharedTypeOK'
  BY <1>1, <1>2, <1>5 DEF SharedTypeOK, postgres, losses
<1>7. DrainerOK(d)'
  BY <1>4, <1>5 DEF DrainInv, DrainerOK
<1>8. NoPlayLost'
  BY <1>2, <1>5 DEF DrainInv, NoPlayLost, Settled, Deliverable, Play, postgres, losses
<1>9. GroupOK'
  BY <1>2, <1>5 DEF DrainInv, GroupOK
<1>. QED
  BY <1>2, <1>4, <1>5, <1>6, <1>7, <1>8, <1>9, StepKeeps DEF postgres

\* What Delivered establishes, whether or not the ids are new.
LEMMA DeliveredOK ==
    ASSUME NEW d \in Drainers, SharedTypeOK, LocalTypeOK,
           NEW ids \in SUBSET (1 .. pushed), Delivered(d, ids),
           UNCHANGED <<stream, pushed>>
    PROVE  /\ LocalTypeOK' /\ Others(d) /\ DrainerOK(d)'
           /\ pc'[d] # "new"
<1>1. ids \in SUBSET Ids
  BY PendingIds
<1>2. /\ LocalTypeOK' /\ Others(d)
      /\ pc'[d] \in {"tombs", "insert", "retire"}
      /\ pc'[d] \in {"insert", "retire"} => pc'[d] = Live(todo'[d])
      /\ todo'[d] = ids \cap stream
      /\ tombs'[d] = ids \ stream
  BY <1>1, DeliveredMoves
<1>3. pc'[d] = "insert" => todo'[d] # {}
  BY <1>2 DEF Live, Parsed
<1>4. pc'[d] = "retire" => \A i \in todo'[d] : Play(i) \notin Readable
  BY <1>2 DEF Live, Parsed
<1>. QED
  BY <1>2, <1>3, <1>4 DEF DrainerOK, Play

LEMMA ReadPendingKeeps ==
    ASSUME NEW d \in Drainers, DrainInv, ReadPending(d)
    PROVE  DrainInv'
<1>1. LocalTypeOK /\ SharedTypeOK /\ \A e \in Drainers : DrainerOK(e)
  BY DEF DrainInv, TypeOK
<1>2. UNCHANGED <<redis, postgres, losses, faults>>
  BY DEF ReadPending
<1>3. SharedTypeOK' /\ NoPlayLost' /\ GroupOK'
  <2>1. SharedTypeOK'
    BY <1>1, <1>2 DEF SharedTypeOK, redis, postgres, losses
  <2>2. NoPlayLost'
    BY <1>2, LossKept DEF DrainInv, redis, postgres, losses
  <2>3. GroupOK'
    BY <1>2 DEF DrainInv, GroupOK, redis
  <2>. QED
    BY <2>1, <2>2, <2>3
<1>4. CASE Delivered(d, Oldest(pending, BatchSize))
  <2>1. Oldest(pending, BatchSize) \in SUBSET (1 .. pushed)
    BY <1>1, PendingIds DEF Oldest
  <2>2. LocalTypeOK' /\ Others(d) /\ DrainerOK(d)' /\ pc'[d] # "new"
    <3>1. UNCHANGED <<stream, pushed>>
      BY <1>2 DEF redis
    <3>. QED
      BY <1>1, <1>4, <2>1, <3>1, DeliveredOK
  <2>. QED
    BY <1>2, <1>3, <2>2, StepKeeps DEF redis, postgres
<1>5. CASE pending = {} /\ GoOn(d, "new", {})
  <2>1. /\ LocalTypeOK' /\ Others(d) /\ pc'[d] = "new" /\ todo'[d] = {}
        /\ tombs'[d] = tombs[d]
    BY <1>1, <1>5, GoOnMoves DEF Labels
  <2>2. DrainerOK(d)'
    BY <1>1, <1>2, <2>1 DEF DrainerOK, redis
  <2>3. \A e \in Drainers : DrainerOK(e)'
    BY <1>1, <1>2, <2>1, <2>2, OthersKept DEF redis, postgres
  <2>4. PelOK'
    <3>. DEFINE n == Cardinality({e \in Drainers : pc'[e] # "new"})
    <3>1. n \in Nat
      BY DrainerAssumption, FS_Subset, FS_CardinalityType DEF DrainerAssumption
    <3>2. Cardinality(pending') = 0
      BY <1>2, <1>5, FS_EmptySet DEF redis
    <3>3. BatchSize \in Nat
      BY DrainerAssumption DEF DrainerAssumption
    <3>. HIDE DEF n
    <3>4. 0 <= BatchSize * n
      BY <3>1, <3>3
    <3>. QED
      BY <3>2, <3>4 DEF PelOK, n
  <2>. QED
    BY <1>3, <2>1, <2>3, <2>4 DEF DrainInv, TypeOK
<1>. QED
  BY <1>4, <1>5 DEF ReadPending

\* New entries enter the pending set whether or not the reply arrives.
LEMMA ReadNewKeeps ==
    ASSUME NEW d \in Drainers, DrainInv, ReadNew(d)
    PROVE  DrainInv'
<1>1. LocalTypeOK /\ SharedTypeOK /\ \A e \in Drainers : DrainerOK(e)
  BY DEF DrainInv, TypeOK
<1>2. pc[d] = "new" /\ group /\ UNCHANGED <<postgres, losses>>
  BY DEF ReadNew
<1>3. CASE NothingNew(d) /\ UNCHANGED <<redis, faults>>
  <2>1. Calmed(d)
    BY <1>1, <1>3, NothingNewCalms
  <2>2. faults' \in 0 .. MaxFaults
    BY <1>1, <1>3 DEF SharedTypeOK
  <2>. QED
    BY <1>2, <1>3, <2>1, <2>2, CalmStep
<1>4. ASSUME NEW fresh, fresh = Oldest(Undelivered, BatchSize), fresh # {},
             delivered' = Max(fresh), pending' = pending \cup fresh,
             UNCHANGED <<stream, pushed, group>>,
             (Delivered(d, fresh) /\ UNCHANGED faults) \/ ReplyLost(d)
      PROVE  DrainInv'
  <2>1. /\ pushed \in Nat /\ delivered \in Nat /\ stream \in SUBSET (1 .. pushed)
        /\ pending \in SUBSET (1 .. pushed) /\ BatchSize \in Nat
        /\ IsFiniteSet(pending) /\ Cardinality(pending) \in Nat
    BY <1>1, PendingIds, DrainerAssumption DEF DrainerAssumption
  <2>2. Undelivered \in SUBSET (1 .. pushed)
    BY <2>1 DEF Undelivered
  <2>3. fresh \in SUBSET (1 .. pushed) /\ fresh \subseteq Undelivered
    BY <1>4, <2>2 DEF Oldest
  <2>4. delivered' \in fresh /\ \A j \in fresh : j <= delivered'
    BY <1>4, <2>1, <2>3, GreatestId
  <2>5. delivered' \in 1 .. pushed /\ delivered < delivered'
    BY <2>1, <2>3, <2>4 DEF Undelivered
  <2>6. SharedTypeOK'
    <3>1. pending' \subseteq 1 .. delivered'
      <4>1. \A j \in pending : 1 <= j /\ j <= delivered /\ j \in Nat
        BY <1>1, <2>1 DEF SharedTypeOK
      <4>2. \A j \in fresh : 1 <= j /\ j <= delivered' /\ j \in Nat
        BY <2>1, <2>3, <2>4
      <4>3. \A j \in pending' : 1 <= j /\ j <= delivered' /\ j \in Nat
        BY <1>4, <2>1, <2>5, <4>1, <4>2
      <4>. QED
        BY <2>1, <2>5, <4>3
    <3>2. faults' \in 0 .. MaxFaults
      BY <1>1, <1>4, ReplyLostCalms DEF SharedTypeOK
    <3>. QED
      BY <1>1, <1>2, <1>4, <2>5, <3>1, <3>2 DEF SharedTypeOK, postgres, losses
  <2>7. NoPlayLost'
    <3>. SUFFICES ASSUME NEW i \in 1 .. pushed, Deliverable(i) PROVE Deliverable(i)'
      BY <1>2, <1>4 DEF DrainInv, NoPlayLost, Settled, Play, postgres, losses
    <3>1. CASE i \in pending
      BY <1>4, <3>1 DEF Deliverable
    <3>2. CASE i \notin pending /\ i <= delivered'
      <4>1. i \in Undelivered
        BY <3>2 DEF Deliverable, Undelivered
      <4>2. i \in fresh
        BY <1>4, <2>1, <2>2, <2>4, <3>2, <4>1, OldestClosed
      <4>. QED
        BY <1>4, <4>2 DEF Deliverable
    <3>3. CASE ~ (i <= delivered')
      BY <1>4, <2>1, <2>5, <3>3 DEF Deliverable
    <3>. QED
      BY <3>1, <3>2, <3>3
  <2>8. GroupOK'
    BY <1>2, <1>4 DEF GroupOK
  <2>9. LocalTypeOK' /\ Others(d) /\ DrainerOK(d)' /\ pc'[d] # "new"
    <3>1. CASE Delivered(d, fresh)
      BY <1>1, <1>4, <2>3, <3>1, DeliveredOK
    <3>2. CASE ReplyLost(d)
      <4>1. Calmed(d)
        BY <1>1, <3>2, ReplyLostCalms DEF SharedTypeOK
      <4>. QED
        BY <4>1, CalmOK DEF Calmed, Calm
    <3>. QED
      BY <1>4, <3>1, <3>2
  <2>10. \A e \in Drainers : DrainerOK(e)'
    BY <1>1, <1>2, <1>4, <2>9, OthersKept DEF postgres
  <2>11. PelOK'
    <3>. DEFINE o == Cardinality({e \in Drainers : pc[e] # "new"})
                n == Cardinality({e \in Drainers : pc'[e] # "new"})
    <3>1. o \in Nat /\ n = o + 1
      BY <1>1, <1>2, <2>9, ReadersGrow
    <3>2. Cardinality(pending) <= BatchSize * o
      BY DEF DrainInv, PelOK
    <3>3. Cardinality(fresh) <= BatchSize /\ Cardinality(fresh) \in Nat /\ IsFiniteSet(fresh)
      BY <1>4, <2>1, <2>2, <2>3, OldestBounded, FiniteIds
    <3>4. Cardinality(pending') <= Cardinality(pending) + Cardinality(fresh)
          /\ Cardinality(pending') \in Nat
      <4>1. /\ Cardinality(pending') = Cardinality(pending) + Cardinality(fresh)
                                        - Cardinality(pending \cap fresh)
            /\ IsFiniteSet(pending')
        BY <1>4, <2>1, <3>3, FS_Union
      <4>2. Cardinality(pending \cap fresh) \in Nat
        BY <2>1, FS_Intersection, FS_CardinalityType
      <4>. QED
        BY <2>1, <3>3, <4>1, <4>2, FS_CardinalityType
    <3>. HIDE DEF o, n
    <3>5. BatchSize * n = BatchSize * o + BatchSize
      BY <2>1, <3>1
    <3>6. BatchSize * o \in Nat
      BY <2>1, <3>1
    <3>7. Cardinality(pending') <= BatchSize * n
      BY <2>1, <3>2, <3>3, <3>4, <3>5, <3>6
    <3>. QED
      BY <3>7 DEF PelOK, n
  <2>. QED
    BY <2>6, <2>7, <2>8, <2>9, <2>10, <2>11 DEF DrainInv, TypeOK
<1>. QED
  BY <1>3, <1>4 DEF ReadNew

LEMMA NoGroupKeeps ==
    ASSUME NEW d \in Drainers, DrainInv, NoGroup(d)
    PROVE  DrainInv'
<1>1. LocalTypeOK /\ SharedTypeOK /\ \A e \in Drainers : DrainerOK(e)
  BY DEF DrainInv, TypeOK
<1>2. faults' \in 0 .. MaxFaults /\ UNCHANGED <<redis, postgres, losses>>
  BY <1>1 DEF NoGroup, SharedTypeOK
<1>3. CASE Raise(d)
  BY <1>1, <1>2, <1>3, RaiseCalms, CalmStep
<1>4. CASE GoOn(d, "heal", {})
  <2>1. /\ LocalTypeOK' /\ Others(d) /\ pc'[d] = "heal" /\ todo'[d] = {}
        /\ tombs'[d] = tombs[d]
    BY <1>1, <1>4, GoOnMoves DEF Labels
  <2>2. DrainerOK(d)'
    BY <1>1, <1>2, <2>1 DEF DrainerOK, redis
  <2>3. SharedTypeOK'
    BY <1>1, <1>2 DEF SharedTypeOK, redis, postgres, losses
  <2>4. NoPlayLost'
    BY <1>2, LossKept DEF DrainInv, redis, postgres, losses
  <2>5. GroupOK'
    BY <1>2 DEF DrainInv, GroupOK, redis
  <2>. QED
    BY <1>2, <2>1, <2>2, <2>3, <2>4, <2>5, StepKeeps DEF redis, postgres
<1>. QED
  BY <1>3, <1>4 DEF NoGroup

\* Rebuilding a group that is gone forgets nothing, and an existing one is left alone.
LEMMA EnsureGroupKeeps ==
    ASSUME SharedTypeOK, GroupOK, NoPlayLost, EnsureGroup,
           UNCHANGED <<postgres, losses>>, faults' \in 0 .. MaxFaults
    PROVE  /\ SharedTypeOK' /\ GroupOK' /\ NoPlayLost'
           /\ UNCHANGED <<stream, pushed, delivered, pending>>
<1>1. UNCHANGED <<stream, pushed, delivered, pending>> /\ group' = TRUE
  BY DEF EnsureGroup, GroupOK
<1>2. NoPlayLost'
  BY <1>1, LossKept DEF postgres, losses
<1>. QED
  BY <1>1, <1>2 DEF SharedTypeOK, GroupOK, postgres, losses

LEMMA HealKeeps ==
    ASSUME NEW d \in Drainers, DrainInv, Heal(d)
    PROVE  DrainInv'
<1>1. LocalTypeOK /\ SharedTypeOK /\ GroupOK /\ NoPlayLost /\ \A e \in Drainers : DrainerOK(e)
  BY DEF DrainInv, TypeOK
<1>2. EnsureGroup /\ UNCHANGED <<postgres, losses>>
  BY DEF Heal
<1>3. CASE /\ pc' = [pc EXCEPT ![d] = "pending"]
           /\ healed' = [healed EXCEPT ![d] = TRUE]
           /\ UNCHANGED <<mode, tombs, todo, cap, faults>>
  <2>1. faults' \in 0 .. MaxFaults
    BY <1>1, <1>3 DEF SharedTypeOK
  <2>2. /\ SharedTypeOK' /\ GroupOK' /\ NoPlayLost'
        /\ UNCHANGED <<stream, pushed, delivered, pending>>
    BY <1>1, <1>2, <2>1, EnsureGroupKeeps
  <2>3. LocalTypeOK' /\ Others(d) /\ pc'[d] = "pending"
    BY <1>1, <1>3 DEF LocalTypeOK, Others, Labels
  <2>4. DrainerOK(d)'
    BY <1>1, <1>3, <2>2, <2>3 DEF DrainerOK
  <2>. QED
    BY <1>2, <2>2, <2>3, <2>4, StepKeeps DEF postgres
<1>4. CASE ReplyLost(d)
  <2>1. Calmed(d) /\ faults' \in 0 .. MaxFaults
    BY <1>1, <1>4, ReplyLostCalms DEF SharedTypeOK
  <2>2. /\ SharedTypeOK' /\ GroupOK' /\ NoPlayLost'
        /\ UNCHANGED <<stream, pushed, delivered, pending>>
    BY <1>1, <1>2, <2>1, EnsureGroupKeeps
  <2>. QED
    BY <1>2, <2>1, <2>2, CalmOK, StepKeeps DEF Calmed, Calm, postgres
<1>. QED
  BY <1>3, <1>4 DEF Heal

-----------------------------------------------------------------------------
(* The steps of a drainer: settling. *)

\* What settling leaves of the type invariant and of the group.
LEMMA SettleKeeps ==
    ASSUME NEW ids, SharedTypeOK, Settle(ids), UNCHANGED losses,
           archive' \subseteq Accepted, refused' \subseteq Plays \ Accepted,
           faults' \in 0 .. MaxFaults, GroupOK
    PROVE  SharedTypeOK' /\ GroupOK'
BY DEF SharedTypeOK, Settle, GroupOK, losses

LEMMA SettleTombstonesKeeps ==
    ASSUME NEW d \in Drainers, DrainInv, SettleTombstones(d)
    PROVE  DrainInv'
<1>1. /\ LocalTypeOK /\ SharedTypeOK /\ GroupOK /\ NoPlayLost /\ DrainerOK(d)
      /\ pc[d] = "tombs"
  BY DEF DrainInv, TypeOK, SettleTombstones
<1>2. Settle(tombs[d]) /\ UNCHANGED <<postgres, losses>>
  BY DEF SettleTombstones
<1>3. /\ LocalTypeOK' /\ Others(d) /\ DrainerOK(d)' /\ pc'[d] # "new"
      /\ faults' \in 0 .. MaxFaults
  <2>1. CASE /\ todo[d] # {}
             /\ pc' = [pc EXCEPT ![d] = Live(todo[d])]
             /\ tombs' = [tombs EXCEPT ![d] = {}]
             /\ UNCHANGED <<mode, healed, todo, cap, faults>>
    <3>1. Live(todo[d]) \in {"insert", "retire"}
      BY DEF Live
    <3>2. LocalTypeOK' /\ Others(d) /\ pc'[d] = Live(todo[d])
          /\ todo'[d] = todo[d] /\ tombs'[d] = {}
      BY <1>1, <2>1, <3>1 DEF LocalTypeOK, Others, Labels
    <3>3. pc'[d] = "retire" => \A i \in todo[d] : Play(i) \notin Readable
      BY <3>2 DEF Live, Parsed
    <3>4. DrainerOK(d)'
      BY <1>1, <1>2, <2>1, <3>1, <3>2, <3>3 DEF DrainerOK, Settle, Play
    <3>. QED
      BY <1>1, <2>1, <3>1, <3>2, <3>4 DEF SharedTypeOK
  <2>2. CASE BatchOver(d) /\ UNCHANGED faults
    BY <1>1, <2>2, BatchOverCalms, CalmOK DEF Calmed, Calm, SharedTypeOK
  <2>3. CASE ReplyLost(d)
    BY <1>1, <2>3, ReplyLostCalms, CalmOK DEF Calmed, Calm, SharedTypeOK
  <2>. QED
    BY <2>1, <2>2, <2>3 DEF SettleTombstones
<1>4. SharedTypeOK' /\ GroupOK'
  <2>1. archive' \subseteq Accepted /\ refused' \subseteq Plays \ Accepted
    BY <1>1, <1>2 DEF SharedTypeOK, postgres
  <2>. QED
    BY <1>1, <1>2, <1>3, <2>1, SettleKeeps
<1>5. NoPlayLost'
  <2>1. \A i \in tombs[d] : i \notin stream
    BY <1>1 DEF DrainerOK
  <2>. QED
    BY <1>1, <1>2, <2>1, SettleLosesNothing DEF postgres, losses
<1>. QED
  BY <1>2, <1>3, <1>4, <1>5, StepKeeps DEF Settle, postgres

\* A row inserted is a row settled.
LEMMA InsertBatchKeeps ==
    ASSUME NEW d \in Drainers, DrainInv, InsertBatch(d)
    PROVE  DrainInv'
<1>1. /\ LocalTypeOK /\ SharedTypeOK /\ GroupOK /\ NoPlayLost /\ DrainerOK(d)
      /\ pc[d] = "insert" /\ todo[d] \in SUBSET Ids /\ todo[d] # {}
  BY DEF DrainInv, TypeOK, InsertBatch, LocalTypeOK, DrainerOK
<1>2. UNCHANGED <<redis, refused, losses>>
  BY DEF InsertBatch
<1>3. archive \subseteq archive' /\ archive' \subseteq Accepted
  BY <1>1 DEF InsertBatch, SharedTypeOK
<1>4. /\ LocalTypeOK' /\ Others(d) /\ DrainerOK(d)' /\ pc'[d] # "new"
      /\ faults' \in 0 .. MaxFaults
  <2>1. CASE /\ archive' = archive \cup PlaysOf(Parsed(todo[d]))
             /\ GoOn(d, "retire", todo[d]) /\ UNCHANGED faults
    <3>1. /\ LocalTypeOK' /\ Others(d) /\ pc'[d] = "retire" /\ todo'[d] = todo[d]
          /\ tombs'[d] = tombs[d]
      BY <1>1, <2>1, GoOnMoves DEF Labels
    <3>2. \A i \in todo[d] : Play(i) \in archive' \/ Play(i) \notin Readable
      BY <2>1 DEF PlaysOf, Parsed
    <3>3. DrainerOK(d)'
      BY <1>1, <1>2, <3>1, <3>2 DEF DrainerOK, Settled, Play, redis
    <3>. QED
      BY <1>1, <2>1, <3>1, <3>3 DEF SharedTypeOK
  <2>2. CASE UNCHANGED archive /\ GoOn(d, "isolate", todo[d]) /\ UNCHANGED faults
    <3>1. /\ LocalTypeOK' /\ Others(d) /\ pc'[d] = "isolate" /\ todo'[d] = todo[d]
          /\ tombs'[d] = tombs[d]
      BY <1>1, <2>2, GoOnMoves DEF Labels
    <3>2. DrainerOK(d)'
      BY <1>1, <1>2, <3>1 DEF DrainerOK, redis
    <3>. QED
      BY <1>1, <2>2, <3>1, <3>2 DEF SharedTypeOK
  <2>3. CASE ReplyLost(d)
    BY <1>1, <2>3, ReplyLostCalms, CalmOK DEF Calmed, Calm, SharedTypeOK
  <2>. QED
    BY <2>1, <2>2, <2>3 DEF InsertBatch
<1>5. SharedTypeOK' /\ GroupOK'
  BY <1>1, <1>2, <1>3, <1>4 DEF SharedTypeOK, GroupOK, redis, losses
<1>6. NoPlayLost'
  BY <1>1, <1>2, <1>3, LossKept DEF redis, losses
<1>. QED
  BY <1>2, <1>3, <1>4, <1>5, <1>6, StepKeeps DEF redis

LEMMA RetireBatchKeeps ==
    ASSUME NEW d \in Drainers, DrainInv, RetireBatch(d)
    PROVE  DrainInv'
<1>1. /\ LocalTypeOK /\ SharedTypeOK /\ GroupOK /\ NoPlayLost /\ DrainerOK(d)
      /\ pc[d] = "retire" /\ todo[d] \in SUBSET Ids
  BY DEF DrainInv, TypeOK, RetireBatch, LocalTypeOK
<1>2. /\ Settle(todo[d]) /\ UNCHANGED <<archive, losses>>
      /\ refused' = refused \cup PlaysOf(todo[d] \ Parsed(todo[d]))
  BY DEF RetireBatch
<1>3. Calmed(d) /\ faults' \in 0 .. MaxFaults
  <2>1. CASE BatchOver(d) /\ UNCHANGED faults
    BY <1>1, <2>1, BatchOverCalms DEF SharedTypeOK
  <2>2. CASE ReplyLost(d)
    BY <1>1, <2>2, ReplyLostCalms DEF SharedTypeOK
  <2>. QED
    BY <2>1, <2>2 DEF RetireBatch
<1>4. refused' \subseteq Plays \ Accepted
  <2>1. \A i \in Ids : Play(i) \in Plays
    BY DrainerAssumption DEF DrainerAssumption, Ids, Play
  <2>2. \A i \in todo[d] \ Parsed(todo[d]) : Play(i) \notin Accepted
    BY DrainerAssumption DEF DrainerAssumption, Parsed
  <2>. QED
    BY <1>1, <1>2, <2>1, <2>2 DEF PlaysOf, SharedTypeOK
<1>5. SharedTypeOK' /\ GroupOK'
  <2>1. archive' \subseteq Accepted
    BY <1>1, <1>2 DEF SharedTypeOK
  <2>. QED
    BY <1>1, <1>2, <1>3, <1>4, <2>1, SettleKeeps
<1>6. NoPlayLost'
  <2>1. \A i \in todo[d] : Settled(i)'
    BY <1>1, <1>2 DEF DrainerOK, Settled, PlaysOf, Parsed, Play
  <2>. QED
    BY <1>1, <1>2, <2>1, SettleLosesNothing DEF losses
<1>. QED
  BY <1>2, <1>3, <1>5, <1>6, CalmOK, StepKeeps DEF Calmed, Calm, Settle

\* The entry a row-by-row pass has come to is one of those left.
LEMMA ItemOfBatch ==
    ASSUME NEW d \in Drainers, LocalTypeOK, todo[d] # {}
    PROVE  Item(d) \in todo[d] /\ Play(Item(d)) \in Plays
<1>1. Item(d) \in todo[d]
  BY LeastId DEF LocalTypeOK, Item, Ids
<1>. QED
  BY <1>1, DrainerAssumption DEF LocalTypeOK, DrainerAssumption, Ids, Play

LEMMA IsolateKeeps ==
    ASSUME NEW d \in Drainers, DrainInv, Isolate(d)
    PROVE  DrainInv'
<1>1. /\ LocalTypeOK /\ SharedTypeOK /\ GroupOK /\ NoPlayLost /\ DrainerOK(d)
      /\ pc[d] = "isolate" /\ todo[d] \in SUBSET Ids /\ todo[d] # {}
  BY DEF DrainInv, TypeOK, Isolate, LocalTypeOK, DrainerOK
<1>2. UNCHANGED <<redis, refused, losses>>
  BY DEF Isolate
<1>3. archive \subseteq archive' /\ archive' \subseteq Accepted
  BY <1>1 DEF Isolate, SharedTypeOK
<1>4. /\ LocalTypeOK' /\ Others(d) /\ DrainerOK(d)' /\ pc'[d] # "new"
      /\ faults' \in 0 .. MaxFaults
  <2>1. CASE /\ GoOn(d, "isoRetire", todo[d]) /\ UNCHANGED faults
             /\ Play(Item(d)) \in archive' \/ Play(Item(d)) \notin Readable
    <3>1. /\ LocalTypeOK' /\ Others(d) /\ pc'[d] = "isoRetire" /\ todo'[d] = todo[d]
          /\ tombs'[d] = tombs[d]
      BY <1>1, <2>1, GoOnMoves DEF Labels
    <3>2. DrainerOK(d)'
      BY <1>1, <1>2, <2>1, <3>1 DEF DrainerOK, Settled, Play, Item, redis
    <3>. QED
      BY <1>1, <2>1, <3>1, <3>2 DEF SharedTypeOK
  <2>2. CASE /\ GoOn(d, "reject", todo[d]) /\ UNCHANGED faults
             /\ Play(Item(d)) \in Readable \ Accepted
    <3>1. /\ LocalTypeOK' /\ Others(d) /\ pc'[d] = "reject" /\ todo'[d] = todo[d]
          /\ tombs'[d] = tombs[d]
      BY <1>1, <2>2, GoOnMoves DEF Labels
    <3>2. DrainerOK(d)'
      BY <1>1, <1>2, <2>2, <3>1 DEF DrainerOK, Play, Item, redis
    <3>. QED
      BY <1>1, <2>2, <3>1, <3>2 DEF SharedTypeOK
  <2>3. CASE ReplyLost(d)
    BY <1>1, <2>3, ReplyLostCalms, CalmOK DEF Calmed, Calm, SharedTypeOK
  <2>. QED
    BY <2>1, <2>2, <2>3 DEF Isolate
<1>5. SharedTypeOK' /\ GroupOK'
  BY <1>1, <1>2, <1>3, <1>4 DEF SharedTypeOK, GroupOK, redis, losses
<1>6. NoPlayLost'
  BY <1>1, <1>2, <1>3, LossKept DEF redis, losses
<1>. QED
  BY <1>2, <1>3, <1>4, <1>5, <1>6, StepKeeps DEF redis

LEMMA RejectKeeps ==
    ASSUME NEW d \in Drainers, DrainInv, Reject(d)
    PROVE  DrainInv'
<1>1. /\ LocalTypeOK /\ SharedTypeOK /\ GroupOK /\ NoPlayLost /\ DrainerOK(d)
      /\ pc[d] = "reject" /\ todo[d] \in SUBSET Ids /\ todo[d] # {}
      /\ Play(Item(d)) \in Readable \ Accepted
  BY DEF DrainInv, TypeOK, Reject, LocalTypeOK, DrainerOK
<1>2. UNCHANGED <<redis, archive, losses>> /\ refused' = refused \cup {Play(Item(d))}
  BY DEF Reject
<1>3. /\ LocalTypeOK' /\ Others(d) /\ DrainerOK(d)' /\ pc'[d] # "new"
      /\ faults' \in 0 .. MaxFaults
  <2>1. CASE GoOn(d, "isoRetire", todo[d]) /\ UNCHANGED faults
    <3>1. /\ LocalTypeOK' /\ Others(d) /\ pc'[d] = "isoRetire" /\ todo'[d] = todo[d]
          /\ tombs'[d] = tombs[d]
      BY <1>1, <2>1, GoOnMoves DEF Labels
    <3>2. DrainerOK(d)'
      BY <1>1, <1>2, <3>1 DEF DrainerOK, Settled, Play, Item, redis
    <3>. QED
      BY <1>1, <2>1, <3>1, <3>2 DEF SharedTypeOK
  <2>2. CASE ReplyLost(d)
    BY <1>1, <2>2, ReplyLostCalms, CalmOK DEF Calmed, Calm, SharedTypeOK
  <2>. QED
    BY <2>1, <2>2 DEF Reject
<1>4. refused' \subseteq Plays \ Accepted
  BY <1>1, <1>2, ItemOfBatch DEF SharedTypeOK
<1>5. SharedTypeOK' /\ GroupOK'
  BY <1>1, <1>2, <1>3, <1>4 DEF SharedTypeOK, GroupOK, redis, losses
<1>6. NoPlayLost'
  BY <1>1, <1>2, LossKept DEF redis, losses
<1>. QED
  BY <1>2, <1>3, <1>5, <1>6, StepKeeps DEF redis

LEMMA IsolateRetireKeeps ==
    ASSUME NEW d \in Drainers, DrainInv, IsolateRetire(d)
    PROVE  DrainInv'
<1>1. /\ LocalTypeOK /\ SharedTypeOK /\ GroupOK /\ NoPlayLost /\ DrainerOK(d)
      /\ pc[d] = "isoRetire" /\ todo[d] \in SUBSET Ids /\ todo[d] # {}
  BY DEF DrainInv, TypeOK, IsolateRetire, LocalTypeOK, DrainerOK
<1>2. /\ Settle({Item(d)}) /\ UNCHANGED <<archive, losses>>
      /\ refused' = refused \cup PlaysOf({Item(d)} \ Parsed({Item(d)}))
  BY DEF IsolateRetire
<1>3. /\ LocalTypeOK' /\ Others(d) /\ DrainerOK(d)' /\ pc'[d] # "new"
      /\ faults' \in 0 .. MaxFaults
  <2>1. CASE /\ todo[d] \ {Item(d)} # {}
             /\ GoOn(d, "isolate", todo[d] \ {Item(d)}) /\ UNCHANGED faults
    <3>1. /\ LocalTypeOK' /\ Others(d) /\ pc'[d] = "isolate"
          /\ todo'[d] = todo[d] \ {Item(d)} /\ tombs'[d] = tombs[d]
      BY <1>1, <2>1, GoOnMoves DEF Labels
    <3>2. DrainerOK(d)'
      BY <1>1, <1>2, <2>1, <3>1 DEF DrainerOK, Settle
    <3>. QED
      BY <1>1, <2>1, <3>1, <3>2 DEF SharedTypeOK
  <2>2. CASE BatchOver(d) /\ UNCHANGED faults
    BY <1>1, <2>2, BatchOverCalms, CalmOK DEF Calmed, Calm, SharedTypeOK
  <2>3. CASE ReplyLost(d)
    BY <1>1, <2>3, ReplyLostCalms, CalmOK DEF Calmed, Calm, SharedTypeOK
  <2>. QED
    BY <2>1, <2>2, <2>3 DEF IsolateRetire, Rest
<1>4. refused' \subseteq Plays \ Accepted
  <2>1. Play(Item(d)) \in Plays
    BY <1>1, ItemOfBatch
  <2>2. Item(d) \notin Parsed({Item(d)}) => Play(Item(d)) \notin Accepted
    BY DrainerAssumption DEF DrainerAssumption, Parsed
  <2>. QED
    BY <1>1, <1>2, <2>1, <2>2 DEF PlaysOf, SharedTypeOK
<1>5. SharedTypeOK' /\ GroupOK'
  <2>1. archive' \subseteq Accepted
    BY <1>1, <1>2 DEF SharedTypeOK
  <2>. QED
    BY <1>1, <1>2, <1>3, <1>4, <2>1, SettleKeeps
<1>6. NoPlayLost'
  <2>1. \A i \in {Item(d)} : Settled(i)'
    BY <1>1, <1>2 DEF DrainerOK, Settled, PlaysOf, Parsed, Play
  <2>2. refused \subseteq refused'
    BY <1>2
  <2>. QED
    BY <1>1, <1>2, <2>1, <2>2, SettleLosesNothing DEF losses
<1>. QED
  BY <1>2, <1>3, <1>5, <1>6, StepKeeps DEF Settle

-----------------------------------------------------------------------------
(* The steps of a drainer: the cap. *)

\* A cap step that only computes: the batch is over and the locals stay typed.
LEMMA CapStep ==
    ASSUME NEW d \in Drainers, DrainInv, NEW l \in Calm, NEW c \in CapLocals,
           pc' = [pc EXCEPT ![d] = l], cap' = [cap EXCEPT ![d] = c],
           UNCHANGED <<redis, postgres, losses, faults, mode, healed, tombs, todo>>
    PROVE  DrainInv'
<1>1. LocalTypeOK /\ SharedTypeOK /\ DrainerOK(d)
  BY DEF DrainInv, TypeOK
<1>2. LocalTypeOK' /\ Others(d) /\ pc'[d] \in Calm
  BY <1>1 DEF LocalTypeOK, Others, Calm
<1>3. DrainerOK(d)'
  BY <1>1, <1>2 DEF DrainerOK, Calm, redis
<1>4. SharedTypeOK'
  BY <1>1 DEF SharedTypeOK, redis, postgres, losses
<1>5. NoPlayLost'
  BY LossKept DEF DrainInv, redis, postgres, losses
<1>6. GroupOK'
  BY DEF DrainInv, GroupOK, redis
<1>. QED
  BY <1>2, <1>3, <1>4, <1>5, <1>6, StepKeeps DEF Calm, redis, postgres

LEMMA CapLocalsTyped ==
    ASSUME NEW d \in Drainers, LocalTypeOK
    PROVE  /\ cap[d].page \in Nat /\ cap[d].minid \in Nat /\ cap[d].inFlight \in SUBSET Ids
           /\ \A n \in Nat : [cap[d] EXCEPT !.page = n] \in CapLocals
           /\ \A n \in Nat : [cap[d] EXCEPT !.minid = n] \in CapLocals
           /\ \A S \in SUBSET Ids : [cap[d] EXCEPT !.inFlight = S] \in CapLocals
BY DEF LocalTypeOK, CapLocals

LEMMA CapDepthKeeps ==
    ASSUME NEW d \in Drainers, DrainInv, CapDepth(d)
    PROVE  DrainInv'
<1>1. LocalTypeOK /\ SharedTypeOK
  BY DEF DrainInv, TypeOK
<1>2. UNCHANGED <<redis, postgres, losses, faults>>
  BY DEF CapDepth
<1>3. CASE CapOver(d)
  BY <1>1, <1>2, <1>3, CapOverCalms, CalmStep DEF SharedTypeOK
<1>4. ASSUME NEW over, over = Cardinality(stream) - OutboxMax, over > 0,
             pc' = [pc EXCEPT ![d] = "range"],
             cap' = [cap EXCEPT ![d].page = Min({over, CapPage})],
             UNCHANGED <<mode, healed, tombs, todo>>
      PROVE  DrainInv'
  <2>1. over \in Nat /\ CapPage \in Nat
    BY <1>1, <1>4, PendingIds, FiniteIds, DrainerAssumption DEF DrainerAssumption
  <2>2. Min({over, CapPage}) \in Nat
    BY <2>1, LeastId
  <2>. DEFINE c == [cap[d] EXCEPT !.page = Min({over, CapPage})]
  <2>3. c \in CapLocals
    BY <1>1, <2>2, CapLocalsTyped
  <2>4. cap' = [cap EXCEPT ![d] = c]
    BY <1>1, <1>4 DEF LocalTypeOK
  <2>5. "range" \in Calm
    BY DEF Calm, Labels
  <2>. QED
    BY <1>2, <1>4, <2>3, <2>4, <2>5, CapStep
<1>. QED
  BY <1>3, <1>4 DEF CapDepth

LEMMA CapRangeKeeps ==
    ASSUME NEW d \in Drainers, DrainInv, CapRange(d)
    PROVE  DrainInv'
<1>1. LocalTypeOK /\ SharedTypeOK
  BY DEF DrainInv, TypeOK
<1>2. UNCHANGED <<redis, postgres, losses, faults>>
  BY DEF CapRange
<1>3. CASE CapOver(d)
  BY <1>1, <1>2, <1>3, CapOverCalms, CalmStep DEF SharedTypeOK
<1>4. ASSUME NEW oldest, oldest = Oldest(stream, cap[d].page + 1),
             Cardinality(oldest) > cap[d].page,
             pc' = [pc EXCEPT ![d] = "below"],
             cap' = [cap EXCEPT ![d].minid = Max(oldest)],
             UNCHANGED <<mode, healed, tombs, todo>>
      PROVE  DrainInv'
  <2>1. oldest \in SUBSET (1 .. pushed) /\ pushed \in Nat
    BY <1>1, <1>4, PendingIds DEF Oldest
  <2>2. oldest # {}
    <3>1. Cardinality({}) = 0
      BY FS_EmptySet
    <3>2. cap[d].page \in Nat
      BY <1>1, CapLocalsTyped
    <3>3. ASSUME oldest = {} PROVE Cardinality(oldest) = 0
      BY <3>1, <3>3, Zenon
    <3>4. Cardinality(oldest) # 0
      BY <1>4, <3>2
    <3>. QED
      BY <3>3, <3>4, Zenon
  <2>3. Max(oldest) \in Nat
    <3>1. Max(oldest) \in oldest
      BY <2>1, <2>2, GreatestId, Zenon
    <3>2. 1 .. pushed \subseteq Nat
      BY <2>1
    <3>. QED
      BY <2>1, <3>1, <3>2, Zenon
  <2>. DEFINE c == [cap[d] EXCEPT !.minid = Max(oldest)]
  <2>4. c \in CapLocals
    BY <1>1, <2>3, CapLocalsTyped
  <2>5. cap' = [cap EXCEPT ![d] = c]
    BY <1>1, <1>4 DEF LocalTypeOK
  <2>6. "below" \in Calm
    BY DEF Calm, Labels
  <2>. QED
    BY <1>2, <1>4, <2>4, <2>5, <2>6, CapStep
<1>. QED
  BY <1>3, <1>4 DEF CapRange

LEMMA CapBelowKeeps ==
    ASSUME NEW d \in Drainers, DrainInv, CapBelow(d)
    PROVE  DrainInv'
<1>1. LocalTypeOK /\ SharedTypeOK
  BY DEF DrainInv, TypeOK
<1>. DEFINE inFlight == {i \in pending : i < cap[d].minid}
            c == [cap[d] EXCEPT !.inFlight = inFlight]
            l == IF inFlight = {} THEN "trim" ELSE "ack"
<1>2. inFlight \in SUBSET Ids
  BY <1>1, PendingIds
<1>3. c \in CapLocals
  BY <1>1, <1>2, CapLocalsTyped
<1>4. cap' = [cap EXCEPT ![d] = c] /\ pc' = [pc EXCEPT ![d] = l]
  BY <1>1 DEF CapBelow, LocalTypeOK
<1>5. l \in Calm
  BY DEF Calm, Labels
<1>6. UNCHANGED <<redis, postgres, losses, faults, mode, healed, tombs, todo>>
  BY DEF CapBelow
<1>. HIDE DEF c, l
<1>. QED
  BY <1>3, <1>4, <1>5, <1>6, CapStep

\* What the cap acknowledges without archiving it is given up.
LEMMA CapAckKeeps ==
    ASSUME NEW d \in Drainers, DrainInv, CapAck(d)
    PROVE  DrainInv'
<1>1. /\ LocalTypeOK /\ SharedTypeOK /\ GroupOK /\ NoPlayLost /\ DrainerOK(d)
      /\ pc[d] = "ack"
  BY DEF DrainInv, TypeOK, CapAck
<1>2. /\ pending' = pending \ cap[d].inFlight
      /\ dropped' = dropped \cup (cap[d].inFlight \cap pending)
      /\ UNCHANGED <<stream, pushed, group, delivered, postgres, reported>>
  BY DEF CapAck
<1>3. LocalTypeOK' /\ Others(d) /\ DrainerOK(d)' /\ pc'[d] # "new"
      /\ faults' \in 0 .. MaxFaults
  <2>1. CASE GoOn(d, "trim", {}) /\ UNCHANGED faults
    <3>1. /\ LocalTypeOK' /\ Others(d) /\ pc'[d] = "trim" /\ todo'[d] = {}
          /\ tombs'[d] = tombs[d]
      BY <1>1, <2>1, GoOnMoves DEF Labels
    <3>2. DrainerOK(d)'
      BY <1>1, <1>2, <3>1 DEF DrainerOK
    <3>. QED
      BY <1>1, <2>1, <3>1, <3>2 DEF SharedTypeOK
  <2>2. CASE ReplyLost(d)
    BY <1>1, <2>2, ReplyLostCalms, CalmOK DEF Calmed, Calm, SharedTypeOK
  <2>. QED
    BY <2>1, <2>2 DEF CapAck
<1>4. SharedTypeOK' /\ GroupOK'
  BY <1>1, <1>2, <1>3, PendingIds DEF SharedTypeOK, GroupOK, postgres
<1>5. NoPlayLost'
  BY <1>1, <1>2 DEF NoPlayLost, Settled, Deliverable, Play, postgres
<1>. QED
  BY <1>2, <1>3, <1>4, <1>5, StepKeeps DEF postgres

LEMMA CapTrimKeeps ==
    ASSUME NEW d \in Drainers, DrainInv, CapTrim(d)
    PROVE  DrainInv'
<1>1. /\ LocalTypeOK /\ SharedTypeOK /\ GroupOK /\ NoPlayLost
      /\ mode[d] \in {"run", "failed", "final"}
  BY DEF DrainInv, TypeOK, LocalTypeOK
<1>2. PICK doomed \in {{i \in stream : i < cap[d].minid}} :
        /\ stream' = stream \ doomed
        /\ dropped' = dropped \cup doomed
        /\ \/ /\ reported' = reported \cup doomed
              /\ UNCHANGED faults
              /\ \/ doomed # {} /\ Leave(d, "depth", mode[d])
                 \/ doomed = {} /\ CapOver(d)
           \/ ReplyLost(d) /\ UNCHANGED reported
  BY DEF CapTrim
<1>3. doomed \subseteq stream
  OBVIOUS
<1>4. UNCHANGED <<pushed, group, delivered, pending, postgres>>
  BY DEF CapTrim
<1>5. Calmed(d) /\ faults' \in 0 .. MaxFaults
  <2>1. CASE Leave(d, "depth", mode[d]) /\ UNCHANGED faults
    <3>1. "depth" \in Calm
      BY DEF Calm, Labels
    <3>. QED
      BY <1>1, <2>1, <3>1, LeaveCalms DEF SharedTypeOK
  <2>2. CASE CapOver(d) /\ UNCHANGED faults
    BY <1>1, <2>2, CapOverCalms DEF SharedTypeOK
  <2>3. CASE ReplyLost(d)
    BY <1>1, <2>3, ReplyLostCalms DEF SharedTypeOK
  <2>. QED
    BY <1>2, <2>1, <2>2, <2>3
<1>6. reported' \subseteq dropped'
  BY <1>1, <1>2 DEF SharedTypeOK
<1>7. SharedTypeOK' /\ GroupOK'
  BY <1>1, <1>2, <1>3, <1>4, <1>5, <1>6 DEF SharedTypeOK, GroupOK, postgres
<1>8. NoPlayLost'
  BY <1>1, <1>2, <1>4 DEF NoPlayLost, Settled, Deliverable, Play, postgres
<1>. QED
  BY <1>2, <1>4, <1>5, <1>7, <1>8, CalmOK, StepKeeps DEF Calmed, Calm, postgres

-----------------------------------------------------------------------------
(* The life of a drainer. *)

LEMMA LifeKeeps ==
    ASSUME NEW d \in Drainers, DrainInv,
           WakeUp(d) \/ Respawn(d) \/ Fails(d) \/ Dies(d) \/ Stop(d) \/ Crash(d)
    PROVE  DrainInv'
<1>1. LocalTypeOK /\ SharedTypeOK /\ faults \in 0 .. MaxFaults
  BY DEF DrainInv, TypeOK, SharedTypeOK
<1>2. UNCHANGED <<redis, postgres, losses>>
  BY DEF WakeUp, Respawn, Fails, Dies, Stop, Crash
<1>3. {"sweep", "dead", "pending", "down"} \subseteq Calm
  BY DEF Calm, Labels
<1>4. CASE ReplyLost(d)
  BY <1>1, <1>2, <1>4, ReplyLostCalms, CalmStep
<1>5. CASE \E l \in Calm, m \in {"run", "failed", "final"} : Leave(d, l, m)
  <2>1. Calmed(d)
    BY <1>1, <1>5, LeaveCalms
  <2>2. faults' \in 0 .. MaxFaults
    BY <1>1, <1>4, ReplyLostCalms, DrainerAssumption
       DEF WakeUp, Respawn, Fails, Dies, Stop, Crash, Fault, DrainerAssumption
  <2>. QED
    BY <1>2, <2>1, <2>2, CalmStep
<1>6. Fails(d) => ReplyLost(d)
  BY DEF Fails
<1>7. WakeUp(d) \/ Respawn(d) \/ Dies(d) \/ Stop(d) \/ Crash(d)
      => \E l \in Calm, m \in {"run", "failed", "final"} : Leave(d, l, m)
  BY <1>3 DEF WakeUp, Respawn, Dies, Stop, Crash
<1>. QED
  BY <1>4, <1>5, <1>6, <1>7

LEMMA StartKeeps ==
    ASSUME NEW d \in Drainers, DrainInv, Start(d)
    PROVE  DrainInv'
<1>1. /\ LocalTypeOK /\ SharedTypeOK /\ GroupOK /\ NoPlayLost
      /\ faults \in 0 .. MaxFaults
  BY DEF DrainInv, TypeOK, SharedTypeOK
<1>2. UNCHANGED <<postgres, losses>>
  BY DEF Start
<1>3. Calmed(d)
  <2>1. "sweep" \in Calm
    BY DEF Calm, Labels
  <2>. QED
    BY <1>1, <2>1, LeaveCalms DEF Start
<1>4. CASE EnsureGroup /\ UNCHANGED faults
  BY <1>1, <1>2, <1>3, <1>4, EnsureGroupKeeps, CalmOK, StepKeeps DEF Calmed, Calm, postgres
<1>5. CASE Fault("fail") /\ UNCHANGED redis
  <2>1. faults' \in 0 .. MaxFaults
    BY <1>1, <1>5, DrainerAssumption DEF Fault, DrainerAssumption
  <2>. QED
    BY <1>2, <1>3, <1>5, <2>1, CalmStep
<1>. QED
  BY <1>4, <1>5 DEF Start

-----------------------------------------------------------------------------
(* The producer and the operator. *)

\* Steps of nobody's drainer.
LEMMA LocalsKept ==
    ASSUME DrainInv, UNCHANGED locals, UNCHANGED postgres,
           pushed \in Nat, pushed' \in {pushed, pushed + 1},
           stream' \cap (1 .. pushed) \subseteq stream
    PROVE  LocalTypeOK' /\ \A e \in Drainers : DrainerOK(e)'
<1>1. LocalTypeOK'
  BY DEF DrainInv, TypeOK, LocalTypeOK, locals
<1>2. ASSUME NEW e \in Drainers PROVE DrainerOK(e)'
  <2>1. DrainerOK(e)
    BY DEF DrainInv
  <2>2. tombs[e] \subseteq (1 .. pushed') \ stream'
    BY <2>1 DEF DrainerOK
  <2>3. todo[e] \subseteq 1 .. pushed'
    BY <2>1 DEF DrainerOK
  <2>. QED
    BY <2>1, <2>2, <2>3 DEF DrainerOK, Settled, Play, Item, locals, postgres
<1>. QED
  BY <1>1, <1>2

\* The number of drainers that may still read is theirs to change.
LEMMA PelKeptByOthers ==
    ASSUME DrainInv, UNCHANGED locals, pending' \subseteq pending
    PROVE  PelOK'
<1>1. Cardinality(pending') \in Nat /\ Cardinality(pending') <= Cardinality(pending)
      /\ Cardinality(pending) \in Nat
  BY PendingIds, FS_Subset, FS_CardinalityType DEF DrainInv, TypeOK
<1>2. Cardinality(pending) <= BatchSize * Cardinality({d \in Drainers : pc[d] # "new"})
  BY DEF DrainInv, PelOK
<1>3. BatchSize * Cardinality({d \in Drainers : pc[d] # "new"}) \in Nat
  <2>1. Cardinality({d \in Drainers : pc[d] # "new"}) \in Nat
    BY DrainerAssumption, FS_Subset, FS_CardinalityType DEF DrainerAssumption
  <2>. QED
    BY <2>1, DrainerAssumption DEF DrainerAssumption
<1>4. Cardinality(pending') <= BatchSize * Cardinality({d \in Drainers : pc[d] # "new"})
  BY <1>1, <1>2, <1>3
<1>. QED
  BY <1>4 DEF PelOK, locals

LEMMA PushKeeps ==
    ASSUME DrainInv, Push
    PROVE  DrainInv'
<1>1. /\ SharedTypeOK /\ pushed \in Nat /\ delivered \in Nat /\ Len(Produced) \in Nat
      /\ stream \in SUBSET (1 .. pushed) /\ delivered <= pushed
  <2>1. SharedTypeOK
    BY DEF DrainInv, TypeOK
  <2>2. pushed \in Nat /\ delivered \in Nat /\ stream \in SUBSET (1 .. pushed)
    BY <2>1, PendingIds
  <2>. QED
    BY <2>1, <2>2, DrainerAssumption DEF DrainerAssumption, SharedTypeOK
<1>2. /\ pushed < Len(Produced) /\ pushed' = pushed + 1 /\ stream' = stream \cup {pushed + 1}
      /\ UNCHANGED <<group, delivered, pending, postgres, locals, losses, faults>>
  BY DEF Push
<1>3. SharedTypeOK'
  <2>1. pushed' \in 0 .. Len(Produced) /\ delivered' \in 0 .. pushed'
    BY <1>1, <1>2
  <2>2. stream' \subseteq 1 .. pushed' /\ dropped' \subseteq 1 .. pushed'
    BY <1>1, <1>2 DEF SharedTypeOK, losses
  <2>. QED
    BY <1>1, <1>2, <2>1, <2>2 DEF SharedTypeOK, postgres, losses
<1>4. LocalTypeOK' /\ \A e \in Drainers : DrainerOK(e)'
  BY <1>1, <1>2, LocalsKept
<1>5. GroupOK'
  BY <1>2 DEF DrainInv, GroupOK
<1>6. NoPlayLost'
  <2>. SUFFICES ASSUME NEW i \in 1 .. pushed'
                PROVE  Settled(i)' \/ i \in dropped' \/ Deliverable(i)'
    BY DEF NoPlayLost
  <2>1. CASE i = pushed + 1
    BY <1>1, <1>2, <2>1 DEF Deliverable
  <2>2. CASE i \in 1 .. pushed
    BY <1>2, <2>2 DEF DrainInv, NoPlayLost, Settled, Deliverable, Play, postgres, losses
  <2>. QED
    BY <1>1, <1>2, <2>1, <2>2
<1>7. PelOK'
  BY <1>2, PelKeptByOthers
<1>. QED
  BY <1>3, <1>4, <1>5, <1>6, <1>7 DEF DrainInv, TypeOK

LEMMA OperatorKeeps ==
    ASSUME DrainInv, DeleteKey \/ DeleteEntry
    PROVE  DrainInv'
<1>1. SharedTypeOK /\ GroupOK /\ NoPlayLost /\ pushed \in Nat /\ faults \in 0 .. MaxFaults
  BY PendingIds DEF DrainInv, TypeOK, SharedTypeOK
<1>2. /\ stream' \subseteq stream /\ dropped' = dropped \cup (stream \ stream')
      /\ UNCHANGED <<pushed, postgres, locals, reported>>
  BY DEF DeleteKey, DeleteEntry
<1>3. faults' \in 0 .. MaxFaults
  BY <1>1, DrainerAssumption DEF DeleteKey, DeleteEntry, Fault, DrainerAssumption
<1>4. \/ stream' = {} /\ group' = FALSE /\ delivered' = 0 /\ pending' = {}
      \/ UNCHANGED <<group, delivered, pending>>
  BY DEF DeleteKey, DeleteEntry
<1>5. SharedTypeOK'
  <2>1. stream' \subseteq 1 .. pushed' /\ dropped' \subseteq 1 .. pushed' /\ reported' \subseteq dropped'
    BY <1>1, <1>2 DEF SharedTypeOK
  <2>2. group' \in BOOLEAN /\ delivered' \in 0 .. pushed' /\ pending' \subseteq 1 .. delivered'
    <3>1. CASE group' = FALSE /\ delivered' = 0 /\ pending' = {}
      <4>1. group' \in BOOLEAN
        BY <3>1, Zenon
      <4>2. pushed' = pushed
        BY <1>2
      <4>3. 0 \in 0 .. pushed
        BY <1>1
      <4>. QED
        BY <3>1, <4>1, <4>2, <4>3, Zenon
    <3>2. CASE UNCHANGED <<group, delivered, pending>>
      BY <1>1, <1>2, <3>2 DEF SharedTypeOK
    <3>. QED
      BY <1>4, <3>1, <3>2
  <2>3. pushed' \in 0 .. Len(Produced) /\ archive' \subseteq Accepted /\ refused' \subseteq Plays \ Accepted
    BY <1>1, <1>2 DEF SharedTypeOK, postgres
  <2>. QED
    BY <1>3, <2>1, <2>2, <2>3 DEF SharedTypeOK
<1>6. LocalTypeOK' /\ \A e \in Drainers : DrainerOK(e)'
  BY <1>1, <1>2, LocalsKept
<1>7. GroupOK'
  BY <1>1, <1>4 DEF GroupOK
<1>8. NoPlayLost'
  BY <1>1, <1>2, <1>4 DEF NoPlayLost, Settled, Deliverable, Play, postgres
<1>9. PelOK'
  BY <1>2, <1>4, PelKeptByOthers
<1>. QED
  BY <1>5, <1>6, <1>7, <1>8, <1>9 DEF DrainInv, TypeOK

-----------------------------------------------------------------------------
(* The theorems. *)

LEMMA DrainInitially == Init => DrainInv
<1>. SUFFICES ASSUME Init PROVE DrainInv
  OBVIOUS
<1>1. Len(Produced) \in Nat /\ MaxFaults \in Nat /\ BatchSize \in Nat
  BY DrainerAssumption DEF DrainerAssumption
<1>2. SharedTypeOK
  <2>1. 0 \in 0 .. Len(Produced) /\ 0 \in 0 .. MaxFaults /\ 0 \in 0 .. 0
    BY <1>1
  <2>2. pushed \in 0 .. Len(Produced) /\ faults \in 0 .. MaxFaults /\ delivered \in 0 .. pushed
    BY <2>1 DEF Init
  <2>3. /\ stream \subseteq 1 .. pushed /\ group \in BOOLEAN /\ pending \subseteq 1 .. delivered
        /\ archive \subseteq Accepted /\ refused \subseteq Plays \ Accepted
        /\ dropped \subseteq 1 .. pushed /\ reported \subseteq dropped
    BY DEF Init
  <2>. QED
    BY <2>2, <2>3 DEF SharedTypeOK
<1>3. LocalTypeOK
  <2>1. NoCap \in CapLocals
    BY DEF NoCap, CapLocals
  <2>. QED
    BY <2>1 DEF Init, LocalTypeOK, Labels
<1>4. \A d \in Drainers : DrainerOK(d)
  BY DEF Init, DrainerOK
<1>5. GroupOK /\ NoPlayLost
  BY DEF Init, GroupOK, NoPlayLost
<1>6. PelOK
  <2>1. Cardinality({d \in Drainers : pc[d] # "new"}) \in Nat
    BY DrainerAssumption, FS_Subset, FS_CardinalityType DEF DrainerAssumption
  <2>2. Cardinality(pending) = 0
    BY FS_EmptySet DEF Init
  <2>. QED
    BY <1>1, <2>1, <2>2 DEF PelOK
<1>. QED
  BY <1>2, <1>3, <1>4, <1>5, <1>6 DEF DrainInv, TypeOK

LEMMA DrainStep == DrainInv /\ [Next]_vars => DrainInv'
<1>. SUFFICES ASSUME DrainInv, [Next]_vars PROVE DrainInv'
  OBVIOUS
<1>1. CASE Push
  BY <1>1, PushKeeps
<1>2. CASE DeleteKey \/ DeleteEntry
  BY <1>2, OperatorKeeps
<1>3. ASSUME NEW d \in Drainers, Drain(d) \/ Mishap(d) PROVE DrainInv'
  <2>1. CASE Sweep(d) \/ ReadPending(d) \/ ReadNew(d) \/ NoGroup(d) \/ Heal(d)
    BY <2>1, SweepKeeps, ReadPendingKeeps, ReadNewKeeps, NoGroupKeeps, HealKeeps
  <2>2. CASE \/ SettleTombstones(d) \/ InsertBatch(d) \/ RetireBatch(d)
             \/ Isolate(d) \/ Reject(d) \/ IsolateRetire(d)
    BY <2>2, SettleTombstonesKeeps, InsertBatchKeeps, RetireBatchKeeps, IsolateKeeps,
       RejectKeeps, IsolateRetireKeeps
  <2>3. CASE CapDepth(d) \/ CapRange(d) \/ CapBelow(d) \/ CapAck(d) \/ CapTrim(d)
    BY <2>3, CapDepthKeeps, CapRangeKeeps, CapBelowKeeps, CapAckKeeps, CapTrimKeeps
  <2>4. CASE WakeUp(d) \/ Respawn(d) \/ Fails(d) \/ Dies(d) \/ Stop(d) \/ Crash(d)
    BY <2>4, LifeKeeps
  <2>5. CASE Start(d)
    BY <2>5, StartKeeps
  <2>. QED
    BY <1>3, <2>1, <2>2, <2>3, <2>4, <2>5 DEF Drain, Mishap
<1>4. CASE UNCHANGED vars
  <2>1. TypeOK'
    BY <1>4 DEF DrainInv, TypeOK, SharedTypeOK, LocalTypeOK, vars, redis, postgres,
                locals, losses
  <2>2. \A d \in Drainers : DrainerOK(d)'
    BY <1>4 DEF DrainInv, DrainerOK, Settled, Play, Item, vars, redis, postgres, locals
  <2>3. GroupOK' /\ NoPlayLost' /\ PelOK'
    BY <1>4 DEF DrainInv, GroupOK, NoPlayLost, PelOK, Settled, Deliverable, Play,
                vars, redis, postgres, locals, losses
  <2>. QED
    BY <2>1, <2>2, <2>3 DEF DrainInv
<1>. QED
  BY <1>1, <1>2, <1>3, <1>4 DEF Next

LEMMA DrainInvariant == Spec => []DrainInv
BY DrainInitially, DrainStep, PTL DEF Spec

\* Types, and with them: a delivered entry is the only one that can be pending, the
\* archive holds only what it accepts and refuses nothing it would accept.
THEOREM OutboxTypeCorrect == Spec => []TypeOK
<1>1. DrainInv => TypeOK
  BY DEF DrainInv
<1>. QED
  BY <1>1, DrainInvariant, PTL

\* At-least-once delivery: with any number of drainers, faults and restarts a play that
\* was pushed is archived, refused, given up by the cap or an operator, or will be
\* delivered again (retire_outbox, read_outbox_pending).
THEOREM PlaysSurvive == Spec => []NoPlayLost
<1>1. DrainInv => NoPlayLost
  BY DEF DrainInv
<1>. QED
  BY <1>1, DrainInvariant, PTL

\* The memory bound _read_batch claims: one batch for each drainer.
THEOREM PendingBounded == Spec => []PelBounded
<1>1. DrainInv => PelBounded
  <2>. SUFFICES ASSUME DrainInv PROVE PelBounded
    OBVIOUS
  <2>. DEFINE o == Cardinality({d \in Drainers : pc[d] # "new"})
              a == Cardinality(Drainers)
  <2>1. o \in Nat /\ a \in Nat /\ o <= a
    BY DrainerAssumption, FS_Subset, FS_CardinalityType DEF DrainerAssumption
  <2>2. Cardinality(pending) \in Nat /\ Cardinality(pending) <= BatchSize * o
    BY PendingIds DEF DrainInv, TypeOK, PelOK
  <2>3. BatchSize \in Nat
    BY DrainerAssumption DEF DrainerAssumption
  <2>. HIDE DEF o, a
  <2>4. BatchSize * o <= BatchSize * a /\ BatchSize * o \in Nat /\ BatchSize * a \in Nat
    BY <2>1, <2>3
  <2>5. Cardinality(pending) <= BatchSize * a
    BY <2>2, <2>4
  <2>. QED
    BY <2>5 DEF PelBounded, a
<1>. QED
  BY <1>1, DrainInvariant, PTL

-----------------------------------------------------------------------------
(* The refinement: the pipeline is a HistoryLedger.                         *)

CapLabels == {"depth", "range", "below", "ack", "trim"}

\* Only pushed plays have a fate; without a cap nobody runs its commands, and where
\* nobody agreed to lose plays, none is lost.
LedgerInv ==
    /\ archive \cup refused \subseteq PlaysOf(1 .. pushed)
    /\ OutboxMax = 0 => \A d \in Drainers : pc[d] \notin CapLabels
    /\ OutboxMax = 0 /\ {"del", "xdel"} \cap Events = {} => dropped = {}

\* Without a cap a drainer never comes to its commands.
LEMMA NoCapEntered ==
    ASSUME NEW d \in Drainers, LocalTypeOK, OutboxMax = 0, pc[d] \notin CapLabels,
           Drain(d) \/ Mishap(d)
    PROVE  \A e \in Drainers : pc[e] \notin CapLabels => pc'[e] \notin CapLabels
<1>. DEFINE Off == \E l : l \notin CapLabels /\ pc' = [pc EXCEPT ![d] = l]
<1>1. SUFFICES Off
  BY DEF LocalTypeOK
<1>2. Raise(d) \/ ReplyLost(d) \/ BatchOver(d) \/ NothingNew(d) => Off
  BY DEF Raise, ReplyLost, BatchOver, NothingNew, Leave, CapLabels
<1>3. \A l, rest : GoOn(d, l, rest) /\ l \notin CapLabels => Off
  BY DEF GoOn
<1>4. \A l, m : Leave(d, l, m) /\ l \notin CapLabels => Off
  BY DEF Leave
<1>5. \A ids : Live(ids) \notin CapLabels
  BY DEF Live, CapLabels
<1>6. \A ids : Delivered(d, ids) => Off
  BY <1>5 DEF Delivered, CapLabels
<1>7. ~ (CapDepth(d) \/ CapRange(d) \/ CapBelow(d) \/ CapAck(d) \/ CapTrim(d))
  BY DEF CapDepth, CapRange, CapBelow, CapAck, CapTrim, CapLabels
<1>. HIDE DEF Off
<1>8. CASE Sweep(d) \/ ReadPending(d) \/ ReadNew(d) \/ NoGroup(d)
  BY <1>2, <1>3, <1>6, <1>8 DEF Sweep, ReadPending, ReadNew, NoGroup, CapLabels
<1>9. CASE Heal(d)
  BY <1>2, <1>9 DEF Heal, CapLabels, Off
<1>10. CASE SettleTombstones(d)
  BY <1>2, <1>5, <1>10 DEF SettleTombstones, Off
<1>11. CASE InsertBatch(d) \/ RetireBatch(d)
  BY <1>2, <1>3, <1>11 DEF InsertBatch, RetireBatch, CapLabels
<1>12. CASE Isolate(d) \/ Reject(d) \/ IsolateRetire(d)
  BY <1>2, <1>3, <1>12 DEF Isolate, Reject, IsolateRetire, Rest, CapLabels
<1>13. CASE WakeUp(d) \/ Respawn(d) \/ Start(d) \/ Mishap(d)
  BY <1>2, <1>4, <1>13 DEF WakeUp, Respawn, Start, Mishap, Fails, Dies, Stop, Crash, CapLabels
<1>. QED
  BY <1>7, <1>8, <1>9, <1>10, <1>11, <1>12, <1>13 DEF Drain

\* What a drainer settles was pushed; it only ever adds to the archive and the rejects.
LEMMA DrainSettles ==
    ASSUME NEW d \in Drainers, DrainInv, Drain(d) \/ Mishap(d)
    PROVE  /\ pushed' = pushed
           /\ archive \subseteq archive' /\ archive' \subseteq archive \cup PlaysOf(1 .. pushed)
           /\ refused \subseteq refused' /\ refused' \subseteq refused \cup PlaysOf(1 .. pushed)
           /\ pc[d] \notin CapLabels => dropped' = dropped
<1>1. /\ DrainerOK(d) /\ LocalTypeOK
  BY DEF DrainInv, TypeOK
<1>2. todo[d] \subseteq 1 .. pushed
  BY <1>1 DEF DrainerOK
<1>3. PlaysOf(Parsed(todo[d])) \subseteq PlaysOf(1 .. pushed)
      /\ PlaysOf(todo[d] \ Parsed(todo[d])) \subseteq PlaysOf(1 .. pushed)
  BY <1>2 DEF PlaysOf, Parsed
<1>4. pc[d] \in {"isolate", "reject", "isoRetire"} =>
        /\ Play(Item(d)) \in PlaysOf(1 .. pushed)
        /\ PlaysOf({Item(d)} \ Parsed({Item(d)})) \subseteq PlaysOf(1 .. pushed)
  BY <1>1, <1>2, ItemOfBatch DEF DrainerOK, PlaysOf
<1>5. CASE Sweep(d) \/ ReadPending(d) \/ ReadNew(d) \/ NoGroup(d) \/ Heal(d)
  BY <1>5 DEF Sweep, ReadPending, ReadNew, NoGroup, Heal, EnsureGroup, redis, postgres, losses
<1>6. CASE SettleTombstones(d) \/ InsertBatch(d) \/ RetireBatch(d)
  BY <1>3, <1>6 DEF SettleTombstones, InsertBatch, RetireBatch, Settle, redis, postgres, losses
<1>7. CASE Isolate(d) \/ Reject(d) \/ IsolateRetire(d)
  BY <1>4, <1>7 DEF Isolate, Reject, IsolateRetire, Settle, redis, postgres, losses
<1>8. CASE CapDepth(d) \/ CapRange(d) \/ CapBelow(d) \/ CapAck(d) \/ CapTrim(d)
  BY <1>8 DEF CapDepth, CapRange, CapBelow, CapAck, CapTrim, CapLabels, redis, postgres, losses
<1>9. CASE WakeUp(d) \/ Respawn(d) \/ Start(d) \/ Mishap(d)
  BY <1>9 DEF WakeUp, Respawn, Start, Mishap, Fails, Dies, Stop, Crash, EnsureGroup,
              redis, postgres, losses
<1>. QED
  BY <1>5, <1>6, <1>7, <1>8, <1>9 DEF Drain

\* Every step lets archive and rejects grow, and only by what was pushed; only the bot
\* pushes, and it does nothing else.
LEMMA Grows ==
    ASSUME DrainInv, [Next]_vars
    PROVE  /\ archive \subseteq archive' /\ archive' \subseteq archive \cup PlaysOf(1 .. pushed)
           /\ refused \subseteq refused' /\ refused' \subseteq refused \cup PlaysOf(1 .. pushed)
           /\ pushed' # pushed => Push
<1>1. CASE Push
  BY <1>1 DEF Push, postgres
<1>2. CASE DeleteKey \/ DeleteEntry
  BY <1>2 DEF DeleteKey, DeleteEntry, postgres
<1>3. ASSUME NEW d \in Drainers, Drain(d) \/ Mishap(d) PROVE pushed' = pushed
  BY <1>3, DrainSettles
<1>4. ASSUME NEW d \in Drainers, Drain(d) \/ Mishap(d)
      PROVE  /\ archive \subseteq archive' /\ archive' \subseteq archive \cup PlaysOf(1 .. pushed)
             /\ refused \subseteq refused' /\ refused' \subseteq refused \cup PlaysOf(1 .. pushed)
  BY <1>4, DrainSettles
<1>5. CASE UNCHANGED vars
  BY <1>5 DEF vars, redis, postgres
<1>. QED
  BY <1>1, <1>2, <1>3, <1>4, <1>5 DEF Next

LEMMA LedgerStep ==
    ASSUME DrainInv, LedgerInv, [Next]_vars
    PROVE  LedgerInv'
<1>1. pushed \in Nat /\ pushed' \in Nat /\ pushed <= pushed'
  <2>1. pushed \in Nat
    BY PendingIds DEF DrainInv, TypeOK
  <2>2. pushed' = pushed \/ pushed' = pushed + 1
    BY Grows DEF Push
  <2>. QED
    BY <2>1, <2>2
<1>2. PlaysOf(1 .. pushed) \subseteq PlaysOf(1 .. pushed')
  BY <1>1 DEF PlaysOf
<1>3. PlaysOf(1 .. pushed)' = PlaysOf(1 .. pushed')
  BY DEF PlaysOf, Play
<1>4. (archive \cup refused \subseteq PlaysOf(1 .. pushed))'
  BY <1>2, <1>3, Grows DEF LedgerInv
<1>5. ASSUME OutboxMax = 0, NEW e \in Drainers PROVE pc'[e] \notin CapLabels
  <2>1. CASE Push \/ DeleteKey \/ DeleteEntry \/ UNCHANGED vars
    BY <1>5, <2>1 DEF LedgerInv, Push, DeleteKey, DeleteEntry, vars, locals
  <2>2. ASSUME NEW d \in Drainers, Drain(d) \/ Mishap(d) PROVE pc'[e] \notin CapLabels
    BY <1>5, <2>2, NoCapEntered DEF LedgerInv, DrainInv, TypeOK
  <2>. QED
    BY <2>1, <2>2 DEF Next
<1>6. ASSUME OutboxMax = 0, {"del", "xdel"} \cap Events = {} PROVE dropped' = {}
  <2>1. CASE Push \/ UNCHANGED vars
    BY <1>6, <2>1 DEF LedgerInv, Push, vars, losses
  <2>2. ~DeleteKey /\ ~DeleteEntry
    BY <1>6 DEF DeleteKey, DeleteEntry, Fault
  <2>3. ASSUME NEW d \in Drainers, Drain(d) \/ Mishap(d) PROVE dropped' = {}
    BY <1>6, <2>3, DrainSettles DEF LedgerInv
  <2>. QED
    BY <2>1, <2>2, <2>3 DEF Next
<1>. QED
  BY <1>4, <1>5, <1>6 DEF LedgerInv

MayLose == OutboxMax > 0 \/ {"del", "xdel"} \cap Events # {}

\* A play's fate, without the order in which Fate asks.
FatesAre ==
    \A p \in Plays :
        /\ Fate(p) \in {"none", "owed", "archived", "refused", "dropped"}
        /\ Fate(p) = "none" <=> \A i \in 1 .. pushed : Play(i) # p
        /\ Fate(p) = "archived" <=> p \in archive
        /\ Fate(p) = "refused" <=> p \in refused
        /\ Fate(p) = "archived" => p \in Accepted
        /\ Fate(p) = "refused" => p \notin Accepted
        /\ Fate(p) = "dropped" => MayLose

LEMMA FateIs == DrainInv /\ LedgerInv => FatesAre
<1>. SUFFICES ASSUME DrainInv, LedgerInv, NEW p \in Plays
              PROVE  /\ Fate(p) \in {"none", "owed", "archived", "refused", "dropped"}
                     /\ Fate(p) = "none" <=> \A i \in 1 .. pushed : Play(i) # p
                     /\ Fate(p) = "archived" <=> p \in archive
                     /\ Fate(p) = "refused" <=> p \in refused
                     /\ Fate(p) = "archived" => p \in Accepted
                     /\ Fate(p) = "refused" => p \notin Accepted
                     /\ Fate(p) = "dropped" => MayLose
  BY DEF FatesAre
<1>. DEFINE ids == {i \in 1 .. pushed : Play(i) = p}
<1>1. archive \subseteq Accepted /\ refused \subseteq Plays \ Accepted
  BY DEF DrainInv, TypeOK, SharedTypeOK
<1>2. p \in archive \cup refused => ids # {}
  BY DEF LedgerInv, PlaysOf
<1>3. ~MayLose => dropped = {}
  BY DrainerAssumption DEF LedgerInv, MayLose, DrainerAssumption
<1>4. p \notin archive \cup refused =>
        (\E i \in ids : Deliverable(i)) \/ ids \subseteq dropped
  BY DEF DrainInv, NoPlayLost, Settled
<1>5. ids = {} <=> \A i \in 1 .. pushed : Play(i) # p
  OBVIOUS
<1>6. Fate(p) = IF ids = {} THEN "none"
                ELSE IF p \in archive THEN "archived"
                ELSE IF p \in refused THEN "refused"
                ELSE IF \E i \in ids : Deliverable(i) THEN "owed"
                ELSE IF ids \subseteq dropped THEN "dropped"
                ELSE "lost"
  BY DEF Fate
<1>. HIDE DEF ids
<1>. QED
  BY <1>1, <1>2, <1>3, <1>4, <1>5, <1>6

\* A play that was handed over just now is owed.
LEMMA PushOwes ==
    ASSUME DrainInv, FatesAre, Push, NEW p \in Plays, Fate(p) = "none", Fate(p)' # "none"
    PROVE  Fate(p)' = "owed"
<1>1. /\ pushed \in Nat /\ delivered \in Nat /\ delivered <= pushed
      /\ pushed' = pushed + 1 /\ stream' = stream \cup {pushed + 1} /\ delivered' = delivered
      /\ archive' = archive /\ refused' = refused
  BY PendingIds DEF DrainInv, TypeOK, SharedTypeOK, Push, postgres
<1>2. p \notin archive' \cup refused'
  BY <1>1 DEF FatesAre
<1>3. \A i \in 1 .. pushed : Play(i) # p
  BY DEF FatesAre
<1>4. PICK n \in Nat : n = pushed + 1
  BY <1>1
<1>5. Deliverable(n)'
  BY <1>1, <1>4 DEF Deliverable
<1>. DEFINE ids == {i \in 1 .. pushed' : Play(i) = p}
<1>6. Fate(p)' = IF ids = {} THEN "none"
                ELSE IF p \in archive' THEN "archived"
                ELSE IF p \in refused' THEN "refused"
                ELSE IF \E i \in ids : Deliverable(i)' THEN "owed"
                ELSE IF ids \subseteq dropped' THEN "dropped"
                ELSE "lost"
  BY DEF Fate, Play
<1>7. ids # {}
  BY <1>6
<1>8. n \in ids
  BY <1>1, <1>3, <1>4, <1>7
<1>. HIDE DEF ids
<1>. QED
  BY <1>2, <1>5, <1>6, <1>7, <1>8

\* The outbox implements the ledger for any number of drainers, faults and plays, with or
\* without a cap: a play owed is archived if it can be, refused if it cannot, and neither
\* is undone; it is dropped only where somebody agreed to it (history_archive.py).
THEOREM OutboxKeepsContract == Spec => ArchiveContract
<1>1. Init => LedgerInv
  <2>. SUFFICES ASSUME Init PROVE LedgerInv
    OBVIOUS
  <2>1. /\ archive \cup refused = {} /\ dropped = {}
        /\ \A d \in Drainers : pc[d] = "down"
    BY DEF Init
  <2>. QED
    BY <2>1 DEF LedgerInv, CapLabels
<1>2. Init => Ledger!LedgerInit
  <2>. SUFFICES ASSUME Init, NEW p \in Plays PROVE Fate(p) = "none"
    BY DEF Ledger!LedgerInit
  <2>1. pushed = 0
    BY DEF Init
  <2>2. 1 .. pushed = {}
    BY <2>1
  <2>. QED
    BY <2>2 DEF Fate
<1>3. DrainInv /\ LedgerInv /\ [Next]_vars => LedgerInv'
  BY LedgerStep
<1>4. DrainInv /\ FatesAre /\ FatesAre' /\ [Next]_vars =>
        [Ledger!LedgerNext]_([p \in Plays |-> Fate(p)])
  <2>. SUFFICES ASSUME DrainInv, FatesAre, FatesAre', [Next]_vars PROVE Ledger!LedgerNext
    OBVIOUS
  <2>1. ASSUME NEW p \in Plays
        PROVE  /\ Fate(p)' \in Ledger!Fates
               /\ Fate(p)' # Fate(p) => <<Fate(p), Fate(p)'>> \in Ledger!Moves(p)
    <3>1. /\ archive \subseteq archive' /\ refused \subseteq refused'
          /\ pushed' # pushed => Push
      BY Grows
    <3>2. Fate(p)' \in {"none", "owed", "archived", "refused", "dropped"}
          /\ Fate(p) \in {"none", "owed", "archived", "refused", "dropped"}
      BY DEF FatesAre
    <3>3. Fate(p) = "archived" => Fate(p)' = "archived"
      BY <3>1 DEF FatesAre
    <3>4. Fate(p) = "refused" => Fate(p)' = "refused"
      BY <3>1 DEF FatesAre
    <3>5. Fate(p)' = "archived" => p \in Accepted
      BY DEF FatesAre
    <3>6. Fate(p)' = "refused" => p \notin Accepted
      BY DEF FatesAre
    <3>7. Fate(p) = "dropped" \/ Fate(p)' = "dropped" => MayLose
      BY DEF FatesAre, MayLose
    <3>8. Fate(p) = "none" => Fate(p)' \in {"none", "owed"}
      <4>1. CASE Push
        BY <4>1, PushOwes
      <4>2. CASE pushed' = pushed
        BY <4>2 DEF FatesAre, Play
      <4>. QED
        BY <3>1, <4>1, <4>2
    <3>9. Fate(p)' = "none" => Fate(p) = "none"
      <4>1. pushed \in Nat /\ (pushed' = pushed \/ pushed' = pushed + 1)
        BY <3>1, PendingIds DEF DrainInv, TypeOK, Push
      <4>. QED
        BY <4>1 DEF FatesAre, Play
    <3>. QED
      BY <3>2, <3>3, <3>4, <3>5, <3>6, <3>7, <3>8, <3>9 DEF Ledger!Moves, Ledger!Fates, MayLose
  <2>. QED
    BY <2>1 DEF Ledger!LedgerNext
<1>. QED
  BY DrainInitially, DrainStep, FateIs, <1>1, <1>2, <1>3, <1>4, PTL
     DEF Spec, ArchiveContract, Ledger!LedgerSpec

-----------------------------------------------------------------------------
(* The cap of a sole drainer.  A second one may drain or cap between two of its
   commands, and an operator delete, and then neither property below holds. *)

Undisturbed ==
    /\ \A d, e \in Drainers : d = e
    /\ {"del", "xdel"} \cap Events = {}

MidCap == {"range", "below", "ack", "trim"}

\* Enough plays are no older than k.
Survive(k) == Cardinality({j \in 1 .. pushed : j >= k}) >= OutboxMax

\* What a page of the cap still knows when its next command is sent: the page fits
\* above the cap, enough plays survive the bound, and nothing below the bound is pending
\* but what is about to be acknowledged.
CapOK(d) ==
    /\ pc[d] = "range" => cap[d].page + OutboxMax <= Cardinality(stream)
    /\ pc[d] \in {"below", "ack", "trim"} => Survive(cap[d].minid)
    /\ pc[d] = "ack" => \A i \in pending : i < cap[d].minid => i \in cap[d].inFlight
    /\ pc[d] = "trim" => \A i \in pending : ~ (i < cap[d].minid)

CapInv == NoTombstone /\ CapKeepsNewest /\ \A d \in Drainers : CapOK(d)

\* Every other step leaves the cap, keeps pending what has a body and reports nothing.
LEMMA OutsideCap ==
    ASSUME NEW d \in Drainers, LocalTypeOK, NoTombstone, Drain(d) \/ Mishap(d),
           ~ (CapDepth(d) \/ CapRange(d) \/ CapBelow(d) \/ CapAck(d) \/ CapTrim(d))
    PROVE  /\ pc'[d] \notin MidCap
           /\ reported' = reported
           /\ NoTombstone'
<1>. DEFINE Off == \E l : l \notin MidCap /\ pc' = [pc EXCEPT ![d] = l]
            Kept == reported' = reported /\ NoTombstone'
<1>1. SUFFICES Off /\ Kept
  BY DEF LocalTypeOK
<1>2. Raise(d) \/ ReplyLost(d) \/ BatchOver(d) \/ NothingNew(d) => Off
  BY DEF Raise, ReplyLost, BatchOver, NothingNew, Leave, MidCap
<1>3. \A l, rest : GoOn(d, l, rest) /\ l \notin MidCap => Off
  BY DEF GoOn
<1>4. \A l, m : Leave(d, l, m) /\ l \notin MidCap => Off
  BY DEF Leave
<1>5. \A ids : Live(ids) \notin MidCap
  BY DEF Live, MidCap
<1>6. \A ids : Delivered(d, ids) => Off
  BY <1>5 DEF Delivered, MidCap
<1>7. \A ids : Settle(ids) => NoTombstone'
  BY DEF Settle, NoTombstone
<1>8. EnsureGroup => NoTombstone'
  BY DEF EnsureGroup, NoTombstone
<1>9. \A n : Oldest(Undelivered, n) \subseteq stream
  BY DEF Oldest, Undelivered
<1>. HIDE DEF Off
<1>10. CASE Sweep(d) \/ ReadPending(d) \/ NoGroup(d)
  BY <1>2, <1>3, <1>6, <1>10
     DEF Sweep, ReadPending, NoGroup, MidCap, NoTombstone, redis, losses
<1>11. CASE ReadNew(d)
  BY <1>2, <1>6, <1>9, <1>11 DEF ReadNew, NoTombstone, redis, losses
<1>12. CASE Heal(d)
  BY <1>2, <1>8, <1>12 DEF Heal, MidCap, Off, losses
<1>13. CASE SettleTombstones(d)
  BY <1>2, <1>5, <1>7, <1>13 DEF SettleTombstones, Off, losses
<1>14. CASE InsertBatch(d) \/ RetireBatch(d)
  BY <1>2, <1>3, <1>7, <1>14
     DEF InsertBatch, RetireBatch, MidCap, NoTombstone, redis, losses
<1>15. CASE Isolate(d) \/ Reject(d) \/ IsolateRetire(d)
  BY <1>2, <1>3, <1>7, <1>15
     DEF Isolate, Reject, IsolateRetire, Rest, MidCap, NoTombstone, redis, losses
<1>16. CASE WakeUp(d) \/ Respawn(d) \/ Start(d) \/ Mishap(d)
  BY <1>2, <1>4, <1>8, <1>16
     DEF WakeUp, Respawn, Start, Mishap, Fails, Dies, Stop, Crash, MidCap, NoTombstone,
         redis, losses
<1>. QED
  BY <1>10, <1>11, <1>12, <1>13, <1>14, <1>15, <1>16 DEF Drain

\* Plays are only added at the new end.
LEMMA NewerGrow ==
    ASSUME pushed \in Nat, pushed' \in Nat, pushed <= pushed', OutboxMax \in Nat
    PROVE  /\ \A k \in Nat : Survive(k) => Cardinality({j \in 1 .. pushed' : j >= k}) >= OutboxMax
           /\ CapKeepsNewest /\ reported' = reported => CapKeepsNewest'
<1>1. ASSUME NEW S, NEW T, S \subseteq T, T \subseteq 1 .. pushed', Cardinality(S) >= OutboxMax,
             S \subseteq 1 .. pushed
      PROVE  Cardinality(T) >= OutboxMax
  <2>1. IsFiniteSet(T) /\ Cardinality(T) \in Nat /\ Cardinality(S) \in Nat
    BY <1>1, FiniteIds
  <2>2. Cardinality(S) <= Cardinality(T)
    BY <1>1, <2>1, FS_Subset
  <2>. QED
    BY <1>1, <2>1, <2>2
<1>2. ASSUME NEW k \in Nat, Survive(k)
      PROVE  Cardinality({j \in 1 .. pushed' : j >= k}) >= OutboxMax
  <2>. DEFINE S == {j \in 1 .. pushed : j >= k}
              T == {j \in 1 .. pushed' : j >= k}
  <2>1. S \subseteq T /\ T \subseteq 1 .. pushed' /\ S \subseteq 1 .. pushed
    OBVIOUS
  <2>2. Cardinality(S) >= OutboxMax
    BY <1>2 DEF Survive
  <2>. HIDE DEF S, T
  <2>3. Cardinality(T) >= OutboxMax
    BY <1>1, <2>1, <2>2
  <2>. QED BY <2>3 DEF T
<1>3. ASSUME CapKeepsNewest, reported' = reported, NEW i \in reported
      PROVE  Cardinality({j \in 1 .. pushed' : j > i}) >= OutboxMax
  <2>. DEFINE S == {j \in 1 .. pushed : j > i}
              T == {j \in 1 .. pushed' : j > i}
  <2>1. S \subseteq T /\ T \subseteq 1 .. pushed' /\ S \subseteq 1 .. pushed
    OBVIOUS
  <2>2. Cardinality(S) >= OutboxMax
    BY <1>3 DEF CapKeepsNewest
  <2>. HIDE DEF S, T
  <2>3. Cardinality(T) >= OutboxMax
    BY <1>1, <2>1, <2>2
  <2>. QED BY <2>3 DEF T
<1>. QED
  BY <1>2, <1>3 DEF CapKeepsNewest
\* The entries no older than the one CapRange reads: all but a page.
LEMMA RangeLeaves ==
    ASSUME SharedTypeOK, OutboxMax \in Nat, NEW n \in Nat, n + OutboxMax <= Cardinality(stream),
           Oldest(stream, n + 1) # {}
    PROVE  Survive(Max(Oldest(stream, n + 1)))
<1>. DEFINE O == Oldest(stream, n + 1)
            m == Max(O)
            B == {j \in stream : j < m}
            R == {j \in stream : ~ (j < m)}
            S == {j \in 1 .. pushed : j >= m}
<1>1. pushed \in Nat /\ stream \in SUBSET (1 .. pushed)
  BY PendingIds
<1>2. O \in SUBSET (1 .. pushed)
  BY <1>1 DEF Oldest
<1>3. m \in O
  <2>. HIDE DEF O
  <2>. QED BY <1>1, <1>2, GreatestId DEF O
<1>4. Cardinality(B) < n + 1 /\ m \in 1 .. pushed
  BY <1>2, <1>3 DEF Oldest
<1>5. /\ B \in SUBSET (1 .. pushed) /\ R \in SUBSET (1 .. pushed) /\ S \in SUBSET (1 .. pushed)
      /\ B \cap R = {} /\ stream = B \cup R
  BY <1>1
<1>6. R \subseteq S
  <2>1. \A j \in stream : j \in 1 .. pushed
    BY <1>1
  <2>. HIDE DEF m
  <2>2. m \in Nat
    BY <1>1, <1>4
  <2>3. \A j \in 1 .. pushed : ~ (j < m) => j >= m
    BY <1>1, <2>2
  <2>. QED BY <2>1, <2>3
<1>. HIDE DEF B, R, S
<1>7. /\ IsFiniteSet(B) /\ IsFiniteSet(R) /\ IsFiniteSet(S)
      /\ Cardinality(B) \in Nat /\ Cardinality(R) \in Nat /\ Cardinality(S) \in Nat
      /\ Cardinality(stream) \in Nat
  BY <1>1, <1>5, FiniteIds
<1>8. Cardinality(stream) = Cardinality(B) + Cardinality(R) - Cardinality(B \cap R)
  BY <1>5, <1>7, FS_Union
<1>9. Cardinality(B \cap R) = 0
  BY <1>5, FS_EmptySet
<1>10. Cardinality(R) <= Cardinality(S)
  BY <1>6, <1>7, FS_Subset
<1>11. Cardinality(S) >= OutboxMax
  BY <1>4, <1>7, <1>8, <1>9, <1>10
<1>. QED
  BY <1>11 DEF Survive, S

\* The bot pushes while the cap works.
LEMMA PushKeepsCap ==
    ASSUME DrainInv, CapInv, OutboxMax \in Nat, Push
    PROVE  CapInv'
<1>1. /\ pushed \in Nat /\ pushed' = pushed + 1 /\ stream' = stream \cup {pushed + 1}
      /\ pending' = pending /\ reported' = reported /\ pc' = pc /\ cap' = cap
      /\ stream \in SUBSET (1 .. pushed)
  BY PendingIds DEF DrainInv, TypeOK, Push, locals, losses
<1>2. pushed' \in Nat /\ pushed <= pushed'
  BY <1>1
<1>3. NoTombstone'
  BY <1>1 DEF CapInv, NoTombstone
<1>4. CapKeepsNewest'
  BY <1>1, <1>2, NewerGrow DEF CapInv
<1>5. Cardinality(stream) <= Cardinality(stream')
      /\ Cardinality(stream) \in Nat /\ Cardinality(stream') \in Nat
  <2>1. stream' \in SUBSET (1 .. pushed')
    BY <1>1
  <2>2. IsFiniteSet(stream') /\ stream \subseteq stream'
    BY <1>1, <1>2, <2>1, FiniteIds
  <2>. QED
    BY <1>1, <1>2, <2>1, <2>2, FiniteIds, FS_Subset
<1>6. ASSUME NEW d \in Drainers PROVE CapOK(d)'
  <2>1. cap[d] \in CapLocals
    BY DEF DrainInv, TypeOK, LocalTypeOK
  <2>2. cap[d].page \in Nat /\ cap[d].minid \in Nat
    BY <2>1 DEF CapLocals
  <2>3. CapOK(d) /\ pc'[d] = pc[d] /\ cap'[d] = cap[d]
    BY <1>1 DEF CapInv
  <2>4. pc[d] \in {"below", "ack", "trim"} => Survive(cap[d].minid)'
    BY <1>1, <1>2, <2>2, <2>3, NewerGrow DEF CapOK, Survive
  <2>5. pc[d] = "range" => cap[d].page + OutboxMax <= Cardinality(stream')
    BY <1>5, <2>2, <2>3 DEF CapOK
  <2>. QED
    BY <1>1, <2>3, <2>4, <2>5 DEF CapOK
<1>. QED
  BY <1>3, <1>4, <1>6 DEF CapInv

\* The next page, when it is over the cap, fits above it.
LEMMA CapDepthKeepsCap ==
    ASSUME NEW d \in Drainers, DrainInv, CapInv, CapDepth(d)
    PROVE  CapOK(d)'
<1>1. /\ LocalTypeOK /\ SharedTypeOK /\ stream' = stream /\ OutboxMax \in Nat /\ CapPage \in Nat
  BY DrainerAssumption DEF DrainInv, TypeOK, CapDepth, redis, DrainerAssumption
<1>2. CASE CapOver(d)
  BY <1>1, <1>2 DEF CapOver, Leave, LocalTypeOK, CapOK
<1>3. CASE ~ CapOver(d)
  <2>. DEFINE over == Cardinality(stream) - OutboxMax
              page == Min({over, CapPage})
  <2>1. Cardinality(stream) \in Nat
    BY <1>1, PendingIds, FiniteIds
  <2>2. over \in Nat /\ over > 0 /\ pc' = [pc EXCEPT ![d] = "range"]
        /\ cap' = [cap EXCEPT ![d].page = page]
    BY <1>1, <1>3, <2>1 DEF CapDepth
  <2>3. page <= over /\ page \in Nat
    <3>1. {over, CapPage} \in SUBSET Nat /\ {over, CapPage} # {}
      BY <1>1, <2>2
    <3>. HIDE DEF over
    <3>. QED BY <1>1, <3>1, LeastId
  <2>4. cap'[d].page = page /\ pc'[d] = "range"
    <3>1. cap[d] \in CapLocals
      BY <1>1 DEF LocalTypeOK
    <3>. HIDE DEF page
    <3>. QED BY <1>1, <2>2, <3>1 DEF LocalTypeOK, CapLocals
  <2>5. page + OutboxMax <= Cardinality(stream)
    <3>. HIDE DEF page
    <3>. QED BY <1>1, <2>1, <2>3
  <2>. QED
    BY <1>1, <2>4, <2>5 DEF CapOK
<1>. QED
  BY <1>2, <1>3

LEMMA CapRangeKeepsCap ==
    ASSUME NEW d \in Drainers, DrainInv, CapInv, CapRange(d)
    PROVE  CapOK(d)'
<1>1. /\ LocalTypeOK /\ SharedTypeOK /\ stream' = stream /\ pushed' = pushed /\ OutboxMax \in Nat
      /\ pc[d] = "range" /\ cap[d] \in CapLocals
  BY DrainerAssumption
     DEF DrainInv, TypeOK, LocalTypeOK, CapRange, redis, DrainerAssumption
<1>2. CASE CapOver(d)
  BY <1>1, <1>2 DEF CapOver, Leave, LocalTypeOK, CapOK
<1>3. CASE ~ CapOver(d)
  <2>. DEFINE oldest == Oldest(stream, cap[d].page + 1)
              m == Max(oldest)
  <2>1. /\ Cardinality(oldest) > cap[d].page /\ pc' = [pc EXCEPT ![d] = "below"]
        /\ cap' = [cap EXCEPT ![d].minid = m]
    BY <1>3 DEF CapRange
  <2>2. cap[d].page \in Nat /\ cap[d].page + OutboxMax <= Cardinality(stream)
    BY <1>1 DEF CapInv, CapOK, CapLocals
  <2>3. oldest # {}
    <3>1. Cardinality(oldest) # 0
      <4>. HIDE DEF oldest
      <4>. QED BY <2>1, <2>2
    <3>. HIDE DEF oldest
    <3>. QED BY <3>1, FS_EmptySet
  <2>4. Survive(m)
    BY <1>1, <2>2, <2>3, RangeLeaves
  <2>5. pc'[d] = "below" /\ cap'[d].minid = m
    <3>. HIDE DEF m
    <3>. QED BY <1>1, <2>1 DEF LocalTypeOK, CapLocals
  <2>. HIDE DEF m
  <2>. QED
    BY <1>1, <2>4, <2>5 DEF CapOK, Survive
<1>. QED
  BY <1>2, <1>3

LEMMA CapBelowKeepsCap ==
    ASSUME NEW d \in Drainers, DrainInv, CapInv, CapBelow(d)
    PROVE  CapOK(d)'
<1>. DEFINE inFlight == {i \in pending : i < cap[d].minid}
<1>1. /\ LocalTypeOK /\ pending' = pending /\ pushed' = pushed
      /\ pc[d] = "below" /\ cap[d] \in CapLocals /\ CapOK(d)
  BY DEF DrainInv, TypeOK, LocalTypeOK, CapInv, CapBelow, redis
<1>2. /\ cap' = [cap EXCEPT ![d].inFlight = inFlight]
      /\ pc' = [pc EXCEPT ![d] = IF inFlight = {} THEN "trim" ELSE "ack"]
  BY DEF CapBelow
<1>3. /\ cap'[d].inFlight = inFlight /\ cap'[d].minid = cap[d].minid
      /\ pc'[d] = IF inFlight = {} THEN "trim" ELSE "ack"
  <2>. HIDE DEF inFlight
  <2>. QED BY <1>1, <1>2 DEF LocalTypeOK, CapLocals
<1>4. Survive(cap[d].minid)
  BY <1>1 DEF CapOK
<1>5. pc'[d] = "trim" => \A i \in pending : ~ (i < cap[d].minid)
  BY <1>3
<1>. QED
  BY <1>1, <1>3, <1>4, <1>5 DEF CapOK, Survive

LEMMA CapAckKeepsCap ==
    ASSUME NEW d \in Drainers, DrainInv, CapInv, CapAck(d)
    PROVE  CapOK(d)'
<1>1. /\ LocalTypeOK /\ pending' = pending \ cap[d].inFlight /\ pushed' = pushed
      /\ pc[d] = "ack" /\ CapOK(d)
  BY DEF DrainInv, TypeOK, CapInv, CapAck
<1>2. CASE GoOn(d, "trim", {})
  <2>1. pc'[d] = "trim" /\ cap' = cap
    BY <1>1, <1>2 DEF GoOn, LocalTypeOK
  <2>. QED
    BY <1>1, <2>1 DEF CapOK, Survive
<1>3. CASE ReplyLost(d)
  BY <1>1, <1>3 DEF ReplyLost, Raise, Leave, LocalTypeOK, CapOK
<1>. QED
  BY <1>2, <1>3 DEF CapAck
\* The trim itself: nothing it takes is pending, and enough newer plays were pushed.
LEMMA CapTrimKeepsCap ==
    ASSUME NEW d \in Drainers, DrainInv, CapInv, CapTrim(d)
    PROVE  NoTombstone' /\ CapKeepsNewest' /\ CapOK(d)'
<1>. DEFINE k == cap[d].minid
<1>1. /\ LocalTypeOK /\ pending' = pending /\ pushed' = pushed /\ pc[d] = "trim"
      /\ CapOK(d) /\ cap[d] \in CapLocals /\ NoTombstone /\ CapKeepsNewest
  BY DEF DrainInv, TypeOK, LocalTypeOK, CapInv, CapTrim
<1>2. OutboxMax \in Nat /\ pushed \in Nat /\ k \in Nat /\ stream \in SUBSET (1 .. pushed)
  BY <1>1, DrainerAssumption, PendingIds
     DEF DrainerAssumption, DrainInv, TypeOK, CapLocals
<1>3. /\ stream' = stream \ {i \in stream : i < k}
      /\ reported' \subseteq reported \cup {i \in stream : i < k}
  BY DEF CapTrim
<1>4. CapOK(d)'
  <2>1. CASE CapOver(d)
    BY <1>1, <2>1 DEF CapOver, Leave, LocalTypeOK, CapOK
  <2>2. CASE Leave(d, "depth", mode[d])
    BY <1>1, <2>2 DEF Leave, LocalTypeOK, CapOK
  <2>3. CASE ReplyLost(d)
    BY <1>1, <2>3 DEF ReplyLost, Raise, Leave, LocalTypeOK, CapOK
  <2>. QED
    BY <2>1, <2>2, <2>3 DEF CapTrim
<1>5. NoTombstone'
  BY <1>1, <1>3 DEF NoTombstone, CapOK
<1>6. ASSUME NEW i \in stream, i < k
      PROVE  Cardinality({j \in 1 .. pushed : j > i}) >= OutboxMax
  <2>. DEFINE S == {j \in 1 .. pushed : j >= k}
              T == {j \in 1 .. pushed : j > i}
  <2>1. Cardinality(S) >= OutboxMax
    BY <1>1 DEF CapOK, Survive
  <2>2. S \subseteq T
    <3>1. i \in Nat
      BY <1>2
    <3>. HIDE DEF k
    <3>. QED BY <1>2, <1>6, <3>1
  <2>3. S \in SUBSET (1 .. pushed) /\ T \in SUBSET (1 .. pushed)
    OBVIOUS
  <2>. HIDE DEF S, T
  <2>4. Cardinality(S) \in Nat /\ Cardinality(T) \in Nat /\ Cardinality(S) <= Cardinality(T)
    BY <1>2, <2>2, <2>3, FiniteIds, FS_Subset
  <2>5. Cardinality(T) >= OutboxMax
    BY <1>2, <2>1, <2>4
  <2>. QED BY <2>5 DEF T
<1>7. CapKeepsNewest'
  BY <1>1, <1>3, <1>6 DEF CapKeepsNewest
<1>. QED
  BY <1>4, <1>5, <1>7

\* Init, and each step of a deployment with one drainer and no operator.
LEMMA CapInvInitially == DrainInv /\ Init => CapInv
<1>. SUFFICES ASSUME Init PROVE CapInv
  OBVIOUS
<1>1. pending = {} /\ reported = {} /\ \A d \in Drainers : pc[d] = "down"
  BY DEF Init
<1>. QED
  BY <1>1 DEF CapInv, NoTombstone, CapKeepsNewest, CapOK

LEMMA CapInvStep ==
    ASSUME Undisturbed, DrainInv, CapInv, [Next]_vars
    PROVE  CapInv'
<1>1. OutboxMax \in Nat /\ LocalTypeOK
  BY DrainerAssumption DEF DrainerAssumption, DrainInv, TypeOK
<1>2. CASE Push
  BY <1>1, <1>2, PushKeepsCap
<1>3. ~ DeleteKey /\ ~ DeleteEntry
  BY DEF Undisturbed, DeleteKey, DeleteEntry, Fault
<1>4. ASSUME NEW d \in Drainers, Drain(d) \/ Mishap(d) PROVE CapInv'
  <2>1. pushed' = pushed
    BY <1>4, DrainSettles
  <2>2. reported' = reported => CapKeepsNewest'
    BY <2>1 DEF CapInv, CapKeepsNewest
  <2>3. CapOK(d)' /\ NoTombstone' /\ CapKeepsNewest'
    <3>1. CASE CapDepth(d)
      BY <2>2, <3>1, CapDepthKeepsCap DEF CapDepth, CapInv, NoTombstone, redis, losses
    <3>2. CASE CapRange(d)
      BY <2>2, <3>2, CapRangeKeepsCap DEF CapRange, CapInv, NoTombstone, redis, losses
    <3>3. CASE CapBelow(d)
      BY <2>2, <3>3, CapBelowKeepsCap DEF CapBelow, CapInv, NoTombstone, redis, losses
    <3>4. CASE CapAck(d)
      BY <2>2, <3>4, CapAckKeepsCap DEF CapAck, CapInv, NoTombstone
    <3>5. CASE CapTrim(d)
      BY <3>5, CapTrimKeepsCap
    <3>6. CASE ~ (CapDepth(d) \/ CapRange(d) \/ CapBelow(d) \/ CapAck(d) \/ CapTrim(d))
      BY <1>1, <1>4, <2>2, <3>6, OutsideCap DEF CapInv, CapOK, MidCap
    <3>. QED
      BY <3>1, <3>2, <3>3, <3>4, <3>5, <3>6
  <2>. QED
    BY <2>3 DEF CapInv, Undisturbed
<1>5. CASE UNCHANGED vars
  BY <1>5
     DEF vars, redis, locals, losses, CapInv, NoTombstone, CapKeepsNewest, CapOK, Survive
<1>. QED
  BY <1>2, <1>3, <1>4, <1>5 DEF Next

\* One drainer and no operator's delete: no pending entry is without its body, because
\* the cap acknowledges below its bound before it trims, and nothing becomes pending below
\* the bound in between (_enforce_cap, retire_outbox).
THEOREM NoBodyLeftPending ==
    ASSUME Undisturbed
    PROVE  Spec => []NoTombstone
<1>1. CapInv => NoTombstone
  BY DEF CapInv
<1>. QED
  BY CapInvInitially, CapInvStep, DrainInvariant, <1>1, PTL DEF Spec

\* One drainer and no operator's delete: whatever the cap reports as trimmed, at least
\* OutboxMax newer plays had been pushed, although the depth, the bound and the trim are
\* three commands and the bot pushes between them (_enforce_cap).
THEOREM CapTakesOldest ==
    ASSUME Undisturbed
    PROVE  Spec => []CapKeepsNewest
<1>1. CapInv => CapKeepsNewest
  BY DEF CapInv
<1>. QED
  BY CapInvInitially, CapInvStep, DrainInvariant, <1>1, PTL DEF Spec
=============================================================================
