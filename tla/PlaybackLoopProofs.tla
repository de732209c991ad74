------------------------- MODULE PlaybackLoopProofs -------------------------
(***************************************************************************)
(* The loop, its prefetch and the commands keep the queue's contract and its    *)
(* claims, for any songs, users, commands and faults.  ClaimsAccounted is not     *)
(* inductive: that a cancelled prefetch gives back its own claim and not one the   *)
(* loop took meanwhile follows from where each of them can be while the other      *)
(* holds one (TurnsOK), that a settle past a clear takes nobody's claim from what   *)
(* the clear left behind (StaleOK).  Four further invariants rest on that one:      *)
(* who holds the live claims holds the songs at the head of the deque (OwnInv), the  *)
(* types of what the client hands over (TypeInv), that songs on their way to the     *)
(* queue are in it nowhere else (DropInv), and that the list in Redis is in line     *)
(* with the deque or the command in flight brings it there (MirrorInv).             *)
(***************************************************************************)
EXTENDS PlaybackLoop, GuildQueueProofs

LoopPoints == {"gate", "top", "get", "resolve", "retire", "commit", "start", "announce",
               "playing", "join", "settle", "raise", "stopped"}
TaskPoints == {"none", "new", "streaming", "retiring", "done"}
MaybeItem == Item \cup {NoItem}
UserCommand == [cmd : CommandNames \cup {"none"},
                pc : {"idle", "resolving", "queueing", "cancelling", "inserting"},
                target : MaybeItem, item : MaybeItem]

\* The types the queue calls depend on.
ClientOK ==
    /\ lpc \in LoopPoints
    /\ song \in MaybeItem /\ prefetched \in MaybeItem /\ current \in MaybeItem
    /\ pf \in [pc : TaskPoints, item : MaybeItem, cancel : BOOLEAN]
    /\ pfRef \in BOOLEAN
    /\ user \in [Users -> UserCommand]
    /\ arriving \in Seq(Songs)
    /\ commitGen \in Nat /\ pfGen \in Nat /\ stranded \in Nat

\* Who is about to hand an item to the queue has one.
InHandOK ==
    /\ lpc \in {"resolve", "retire", "commit"} => song \in Item
    /\ pf.pc \in {"streaming", "retiring"} => pf.item \in Item
    /\ pf.pc \in {"none", "new"} => pf.item = NoItem
    /\ \A u \in Users :
         /\ user[u].pc = "resolving" => user[u].item \in Item
         /\ user[u].pc = "cancelling" /\ user[u].cmd \in {"cutin", "playnow"} =>
              user[u].item \in Item /\ user[u].target \in Item

\* Which call each coroutine is in; only the two consumers settle claims.
LoopCallOK ==
    /\ lpc = "commit" =>
         op[Loop].name = "commit" /\ op[Loop].phase = "lock" /\ op[Loop].gen = commitGen
    /\ lpc = "retire" => op[Loop].name = "finishFailed"
    /\ lpc \notin {"commit", "retire"} => op[Loop] = Idle

TaskCallOK ==
    /\ pf.pc = "retiring" => op[Prefetch].name = "finishFailed"
    /\ pf.pc # "retiring" => op[Prefetch] = Idle

UserCallsOK == \A u \in Users : op[u].name \notin {"commit", "finishFailed"}

CallsOK == LoopCallOK /\ TaskCallOK /\ UserCallsOK

\* The prefetch holds nothing and will take nothing.
NoTask == pf.pc \in {"none", "done"} /\ pf.item = NoItem

\* The loop takes its next song only when the prefetch is through or its result has
\* been handed over; one left running is cancelled.
TurnsOK ==
    /\ lpc \in {"gate", "top", "get"} => song = NoItem
    /\ prefetched # NoItem => lpc = "top" /\ pf = NoPrefetch
    /\ pfRef => lpc = "playing"
    /\ ~pfRef /\ lpc # "join" => NoTask \/ (pf.cancel /\ lpc \in {"playing", "settle", "top"})
    /\ pf.cancel => PrefetchRuns

\* A claim a clear has voided leaves its holder alone with the queue: no claim has been
\* stranded since, and the flag that discards a prefetched song is up.
StaleOK ==
    /\ commitGen <= generation /\ pfGen <= generation
    /\ lpc \in {"resolve", "retire", "commit"} /\ commitGen # generation => stranded = 0
    /\ pf.item # NoItem /\ pfGen # generation => stranded = 0 /\ cleared
    /\ prefetched # NoItem /\ pfGen # generation => cleared

ClientInv == ClientOK /\ InHandOK /\ CallsOK /\ TurnsOK /\ StaleOK /\ ClaimsAccounted
LoopInv == QueueInv /\ ClientInv
-----------------------------------------------------------------------------
(* What the coroutines hand to the queue.                                   *)

\* A resolved search and a resume tail are items.
LEMMA MadeItems ==
    ASSUME NEW i \in Item
    PROVE  /\ Resolved(i) \in Item
           /\ Parked(i) \in Item
<1> USE DEF Item, Forms
<1>1. Resolved(i) \in Item
  BY DEF Resolved
<1>2. Parked(i) \in Item
  <2> DEFINE heardNow == i.played \/ ~NotStarted
             whole == [i EXCEPT !.form = "song"]
             cut == [whole EXCEPT !.frag = i.frag + 1]
  <2>1. heardNow \in BOOLEAN /\ i.frag + 1 \in Nat
    OBVIOUS
  <2>2. Parked(i) = [cut EXCEPT !.played = heardNow]
    BY DEF Parked
  <2>3. whole \in Item
    OBVIOUS
  <2> HIDE DEF heardNow, whole
  <2>4. cut \in Item
    BY <2>1, <2>3
  <2> HIDE DEF cut
  <2> QED BY <2>1, <2>2, <2>4
<1> QED BY <1>1, <1>2

\* A song as a user queues it is an item.
LEMMA FreshItem ==
    ASSUME NEW s \in Songs
    PROVE  Fresh(s) \in Item
BY LoopAssumption DEF Fresh, Item, Forms

\* A call with typed arguments is one the queue's specification knows.
LEMMA CallIsCalled ==
    ASSUME QueueInv, NEW p \in Procs, NEW name \in OpNames, NEW arg \in Seq(Item),
           NEW gen \in Nat, Call(p, name, arg, gen)
    PROVE  Called(p)
<1>1. op' = [op EXCEPT ![p] = [name |-> name, phase |-> "lock", arg |-> arg, gen |-> gen]]
  BY DEF Call
<1>2. op'[p] = [name |-> name, phase |-> "lock", arg |-> arg, gen |-> gen]
  BY <1>1, LockFacts
<1>3. op'[p].name = name /\ op'[p].arg = arg /\ op'[p].gen = gen
  BY <1>2
<1> QED BY <1>3 DEF Called

\* Short argument lists.
LEMMA Arguments ==
    ASSUME NEW i \in Item, NEW j \in Item
    PROVE  /\ <<i>> \in Seq(Item)
           /\ <<i, j>> \in Seq(Item)
OBVIOUS

\* Calling a consumer's or a user's operation.
LEMMA Callers ==
    /\ Loop \in Procs /\ Prefetch \in Procs /\ Users \subseteq Procs
    /\ Loop # Prefetch /\ Loop \notin Users /\ Prefetch \notin Users
    /\ NoItem \notin Item
    /\ \A p \in Procs : p = Loop \/ p = Prefetch \/ p \in Users
BY LoopAssumption
-----------------------------------------------------------------------------
(* Every step is one of the queue's.                                        *)

\* A locked call that joins the line, with nothing else of the queue changed.
LEMMA CallStep ==
    ASSUME QueueInv, NEW p \in Procs, NEW name \in OpNames, NEW arg \in Seq(Item),
           NEW gen \in Nat, Call(p, name, arg, gen), UNCHANGED <<memory, writes, store>>
    PROVE  Next
<1>1. Called(p)
  BY CallIsCalled
<1> QED BY <1>1 DEF Next, Unlocked, memory

\* A call that returns.
LEMMA ReturnStep ==
    ASSUME NEW p \in Procs, Return(p), UNCHANGED <<memory, mutex, writes, store>>
    PROVE  Next
BY DEF Returned, Next, Unlocked, memory

\* An item that is given back.
LEMMA GiveBackStep ==
    ASSUME QueueInv, NEW i \in Item, GiveBack(i), cursor > 0
    PROVE  GivenBack
<1>1. cursor \in DOMAIN items /\ items' = [items EXCEPT ![cursor] = i]
  BY DequeFacts DEF GiveBack
<1>2. items'[cursor] = i /\ DOMAIN items' = DOMAIN items
  BY <1>1
<1> QED BY <1>2 DEF GivenBack

\* The loop.
LEMMA LoopIsClient ==
    ASSUME QueueInv, ClientOK, InHandOK, LoopStep \/ SongRetired \/ SongEnds
    PROVE  [Next]_queueVars
<1> USE Callers, Arguments
<1>1. CASE PassGate \/ GateTimesOut \/ IdleOut \/ StartPrefetch \/ SongOver \/ SongEnds
  BY <1>1 DEF PassGate, GateTimesOut, IdleOut, StartPrefetch, SongOver, SongEnds
<1>2. CASE JoinPrefetch \/ SettleAlone
  BY <1>2 DEF JoinPrefetch, SettleAlone, Settle
<1>3. CASE TakePrefetched
  <2>1. prefetched \in Item /\ generation \in Nat
    BY <1>3, DequeFacts DEF TakePrefetched, ClientOK, MaybeItem
  <2>2. Called(Loop)
    BY <1>3, <2>1, CallIsCalled DEF TakePrefetched, OpNames
  <2> QED BY <1>3, <2>2 DEF TakePrefetched, Next, Unlocked
<1>4. CASE TakeFromQueue
  <2>1. Claim \/ UNCHANGED <<items, cursor>>
    BY <1>4 DEF TakeFromQueue
  <2> QED BY <1>4, <2>1 DEF TakeFromQueue, Next, Unlocked
<1>5. CASE WakeUp
  BY <1>5 DEF WakeUp, Next, Unlocked
<1>6. CASE StreamSong
  <2>1. Resolved(song) \in Item /\ commitGen \in Nat
    BY <1>6, MadeItems DEF StreamSong, ClientOK, InHandOK
  <2> QED BY <1>6, <2>1, CallStep DEF StreamSong, OpNames
<1>7. CASE StreamSongFails
  <2>1. song \in Item
    BY <1>7 DEF StreamSongFails, InHandOK
  <2> QED BY <1>7, <2>1, CallStep DEF StreamSongFails, OpNames
<1>8. CASE SongRetired
  BY <1>8, ReturnStep DEF SongRetired
<1>9. CASE CommitSong
  BY <1>9 DEF CommitSong, Next, Locked, Critical
<1>10. CASE StartSong
  BY <1>10 DEF StartSong, Next, Started, queueVars
<1>11. CASE LoopRaises
  BY <1>11 DEF LoopRaises, Next, Started, queueVars
<1> QED BY <1>1, <1>2, <1>3, <1>4, <1>5, <1>6, <1>7, <1>8, <1>9, <1>10, <1>11 DEF LoopStep

\* The prefetch.
LEMMA PrefetchIsClient ==
    ASSUME QueueInv, ClientOK, InHandOK, PrefetchStep \/ PrefetchRetired
    PROVE  [Next]_queueVars
<1> USE Callers, Arguments
<1>1. CASE PrefetchClaims
  BY <1>1 DEF PrefetchClaims, PrefetchUnchanged, Next, Unlocked, queueVars, memory
<1>2. CASE PrefetchStreams
  BY <1>2 DEF PrefetchStreams
<1>3. CASE PrefetchFails
  <2>1. pf.item \in Item
    BY <1>3 DEF PrefetchFails, InHandOK
  <2> QED BY <1>3, <2>1, CallStep DEF PrefetchFails, OpNames
<1>4. CASE PrefetchRetired
  BY <1>4, ReturnStep DEF PrefetchRetired
<1>5. CASE PrefetchCancelled
  <2>1. CASE pf.pc = "new" /\ UNCHANGED <<items, cursor, mutex, op, writes, store>>
    BY <1>5, <2>1 DEF PrefetchCancelled, queueVars, memory
  <2>2. CASE /\ pf.pc = "streaming" /\ UNCHANGED <<mutex, op, writes, store>>
             /\ \E form \in {pf.item, Resolved(pf.item)} : GiveBack(form)
    <3>1. PICK form \in Item : GiveBack(form)
      BY <2>2, MadeItems DEF InHandOK
    <3>2. CASE cursor > 0
      BY <1>5, <2>2, <3>1, <3>2, GiveBackStep DEF PrefetchCancelled, Next, Unlocked
    <3>3. CASE ~(cursor > 0)
      BY <1>5, <2>2, <3>1, <3>3 DEF GiveBack, PrefetchCancelled, queueVars, memory
    <3> QED BY <3>2, <3>3
  <2>3. CASE Abandon(Prefetch)
    BY <2>3 DEF Next, Locked
  <2> QED BY <1>5, <2>1, <2>2, <2>3 DEF PrefetchCancelled
<1> QED BY <1>1, <1>2, <1>3, <1>4, <1>5 DEF PrefetchStep

\* A song that arrives can be queued.
LEMMA Arriving ==
    ASSUME ClientOK, NEW n \in 1 .. 2, Len(arriving) >= n
    PROVE  [k \in 1 .. n |-> Fresh(arriving[k])] \in Seq(Item)
<1>1. \A k \in 1 .. n : arriving[k] \in Songs
  BY DEF ClientOK
<1>2. \A k \in 1 .. n : Fresh(arriving[k]) \in Item
  BY <1>1, FreshItem
<1> HIDE DEF Item
<1> QED BY <1>2, SeqDef

\* -play, in its forms.
LEMMA EnqueueIsClient ==
    ASSUME QueueInv, ClientOK, NEW u \in Users, NEW c, NEW name \in {"put", "putBatch", "putFront"},
           NEW n \in 1 .. 2, Enqueue(u, c, name, n)
    PROVE  Next
<1>1. [k \in 1 .. n |-> Fresh(arriving[k])] \in Seq(Item)
  BY Arriving DEF Enqueue, Arrive
<1>2. u \in Procs /\ name \in OpNames
  BY Callers DEF OpNames
<1> QED BY <1>1, <1>2, CallStep DEF Enqueue

\* The interjection's put_front() and its fallback.
LEMMA InsertCalls ==
    ASSUME QueueInv, NEW u \in Users, NEW q \in Item, NEW target \in Item,
           Insert(u, q, target) \/ FallBack(u, q)
    PROVE  Called(u)
<1>1. u \in Procs /\ Parked(target) \in Item /\ "putFront" \in OpNames
  BY Callers, MadeItems DEF OpNames
<1>2. CASE Call(u, "putFront", <<q>>, 0)
  BY <1>1, <1>2, Arguments, CallIsCalled
<1>3. CASE Call(u, "putFront", <<q, Parked(target)>>, 0)
  BY <1>1, <1>3, Arguments, CallIsCalled
<1> QED BY <1>2, <1>3 DEF Insert, FallBack

\* The commands.
LEMMA UserIsClient ==
    ASSUME QueueInv, ClientOK, InHandOK, TurnsOK, NEW u \in Users,
           UserStep(u) \/ Finish(u) \/ Inserted(u)
    PROVE  [Next]_queueVars
<1> USE Callers, Arguments
<1>1. CASE Play(u) \/ Playlist(u) \/ PlayFront(u)
  BY <1>1, EnqueueIsClient DEF Play, Playlist, PlayFront
<1>2. ASSUME NEW c \in BulkNames, Bulk(u, c) PROVE [Next]_queueVars
  <2>1. u \in Procs /\ c \in OpNames
    BY <1>2 DEF BulkNames, OpNames
  <2>2. CASE Call(u, c, <<>>, 0)
    BY <1>2, <2>1, <2>2, EmptySeq, CallStep DEF Bulk
  <2>3. CASE UNCHANGED <<op, mutex>>
    BY <1>2, <2>3 DEF Bulk, queueVars
  <2> QED BY <1>2, <2>2, <2>3 DEF Bulk
<1>3. CASE BulkCancelled(u)
  <2>1. u \in Procs /\ user[u].cmd \in OpNames
    BY <1>3 DEF BulkCancelled, BulkNames, OpNames
  <2> QED BY <1>3, <2>1, EmptySeq, CallStep DEF BulkCancelled
<1>4. CASE Skip(u)
  BY <1>4 DEF Skip
<1>5. CASE ResolveFirst(u, "playnow") \/ CutIn(u)
  BY <1>5 DEF ResolveFirst, CutIn
<1>6. CASE PlayNow(u)
  <2>1. CASE ResolveFirst(u, "playnow")
    BY <1>5, <2>1
  <2>2. CASE Enqueue(u, "playnow", "putFront", 1) \/ Enqueue(u, "playnow", "put", 1)
    BY <2>2, EnqueueIsClient
  <2> QED BY <1>6, <2>1, <2>2 DEF PlayNow
<1>7. CASE CutInTooLate(u)
  <2>1. user[u].item \in Item
    BY <1>7 DEF CutInTooLate, InHandOK
  <2> QED BY <1>7, <2>1, CallStep DEF CutInTooLate, OpNames
<1>8. CASE Interject(u)
  <2> DEFINE q == user[u].item
  <2>1. q \in Item
    BY <1>8 DEF Interject, InHandOK
  <2>2. CASE FallBack(u, q) /\ UNCHANGED <<items, cursor>>
    <3>1. Called(u)
      BY <2>1, <2>2, InsertCalls
    <3> QED BY <1>8, <2>2, <3>1 DEF Interject, Next, Unlocked
  <2>3. CASE UNCHANGED <<items, cursor, op, mutex>>
    BY <1>8, <2>3 DEF Interject, queueVars, memory
  <2>4. CASE /\ current # NoItem /\ Insert(u, q, current)
             /\ IF pfRef /\ pf.item # NoItem THEN GiveBack(pf.item)
                                            ELSE UNCHANGED <<items, cursor>>
    <3>1. current \in Item
      BY <2>4 DEF ClientOK, MaybeItem
    <3>2. Called(u)
      BY <2>1, <2>4, <3>1, InsertCalls
    <3>3. GivenBack \/ UNCHANGED <<items, cursor>>
      <4>1. CASE pfRef /\ pf.item # NoItem /\ cursor > 0
        BY <2>4, <4>1, GiveBackStep DEF ClientOK, MaybeItem
      <4>2. CASE ~(pfRef /\ pf.item # NoItem /\ cursor > 0)
        BY <2>4, <4>2 DEF GiveBack
      <4> QED BY <4>1, <4>2
    <3> QED BY <1>8, <3>2, <3>3 DEF Interject, Next, Unlocked
  <2> QED BY <1>8, <2>2, <2>3, <2>4 DEF Interject
<1>9. CASE InterjectCancelled(u)
  <2>1. user[u].item \in Item /\ user[u].target \in Item
    BY <1>9 DEF InterjectCancelled, InHandOK
  <2>2. Called(u)
    BY <1>9, <2>1, InsertCalls DEF InterjectCancelled
  <2> QED BY <1>9, <2>2 DEF InterjectCancelled, Next, Unlocked, memory
<1>10. CASE Finish(u) \/ Inserted(u)
  BY <1>10, ReturnStep DEF Finish, Inserted
<1> QED BY <1>1, <1>2, <1>3, <1>4, <1>6, <1>5, <1>7, <1>8, <1>9, <1>10 DEF UserStep

\* What goes on inside the calls.
LEMMA CallGoesOn ==
    ASSUME NEW p \in Procs, QueueStep(p)
    PROVE  Next
BY DEF QueueStep, EnterMutation, Next, Locked, Critical

\* No step of the player goes around the queue's operations.
LEMMA StepIsClient ==
    ASSUME QueueInv, ClientOK, InHandOK, TurnsOK, [LoopNext]_vars
    PROVE  [Next]_queueVars
<1>1. CASE Caller
  BY <1>1, LoopIsClient, PrefetchIsClient, UserIsClient DEF Caller
<1>2. CASE LoopStep \/ SongEnds
  BY <1>2, LoopIsClient
<1>3. CASE PrefetchStep
  BY <1>3, PrefetchIsClient
<1>4. ASSUME NEW u \in Users, UserStep(u) PROVE [Next]_queueVars
  BY <1>4, UserIsClient
<1>5. ASSUME NEW p \in Procs, QueueStep(p) PROVE [Next]_queueVars
  BY <1>5, CallGoesOn
<1>6. CASE UNCHANGED vars
  BY <1>6 DEF vars
<1> QED BY <1>1, <1>2, <1>3, <1>4, <1>5, <1>6 DEF LoopNext
-----------------------------------------------------------------------------
(* Every step keeps the claims.                                             *)

\* What a step does to the calls under way.
Same(p) == \A q \in Procs : q # p => op'[q] = op[q]

\* A call stands in line under its own name.
LEMMA CallFacts ==
    ASSUME QueueInv, NEW p \in Procs, NEW name, NEW arg, NEW gen, Call(p, name, arg, gen)
    PROVE  /\ Same(p) /\ op[p] = Idle
           /\ op'[p].name = name /\ op'[p].phase = "lock" /\ op'[p].gen = gen
BY LockFacts DEF Call, Same

\* A call that returns leaves its caller idle.
LEMMA ReturnFacts ==
    ASSUME QueueInv, NEW p \in Procs, Return(p)
    PROVE  Same(p) /\ op'[p] = Idle /\ op[p].phase = "done"
BY LockFacts DEF Return, Same

\* So does a cancelled one, which changed nothing.
LEMMA AbandonFacts ==
    ASSUME QueueInv, NEW p \in Procs, Abandon(p)
    PROVE  /\ Same(p) /\ op'[p] = Idle /\ UNCHANGED memory
           /\ op[p].phase \in {"lock", "store"}
BY LockFacts DEF Abandon, Same

\* Past the lock a call has its Redis commands left, or is done.
LEMMA ProceedFacts ==
    ASSUME QueueInv, NEW p \in Procs, NEW todo, NEW result, Proceed(p, todo, result)
    PROVE  /\ Same(p) /\ op'[p].name = op[p].name
           /\ op'[p].phase \in {"store", "done"}
<1>1. op' = [op EXCEPT ![p] = [@ EXCEPT !.phase = IF todo = <<>> THEN "done" ELSE "store",
                                         !.arg = result]]
  BY DEF Proceed
<1>2. op'[p] = [op[p] EXCEPT !.phase = IF todo = <<>> THEN "done" ELSE "store", !.arg = result]
  BY <1>1, LockFacts
<1>3. op[p] \in Operation
  BY LockFacts
<1>4. Same(p)
  BY <1>1, LockFacts DEF Same
<1> QED BY <1>2, <1>3, <1>4 DEF Operation

\* A Redis command later the same holds.
LEMMA IssuedFacts ==
    ASSUME QueueInv, NEW p \in Procs, NEW todo, Issued(p, todo), op[p].phase = "store"
    PROVE  /\ Same(p) /\ op'[p].name = op[p].name
           /\ op'[p].phase \in {"store", "done"}
BY LockFacts DEF Issued, Same, Operation

\* What the invariant says of the queue's numbers.
LEMMA Numbers ==
    ASSUME QueueInv
    PROVE  cursor \in Nat /\ generation \in Nat /\ cleared \in BOOLEAN
BY DequeFacts

\* What a consumer claims is an item.
LEMMA PendingItem ==
    ASSUME QueueInv, ~Empty
    PROVE  items[cursor + 1] \in Item
BY DequeFacts DEF Empty

\* The loop's own steps.
LEMMA LoopKeeps ==
    ASSUME LoopInv, LoopStep \/ SongRetired \/ SongEnds
    PROVE  ClientInv'
<1> USE Callers, Numbers
    DEF LoopInv, ClientInv, ClientOK, InHandOK, CallsOK, LoopCallOK, TaskCallOK, UserCallsOK,
        TurnsOK, NoTask, StaleOK, ClaimsAccounted, LiveClaims, LoopHoldsClaim,
        PrefetchHoldsClaim, PrefetchRuns, LoopPoints, TaskPoints, MaybeItem,
        queueVars, memory, store, loopVars, taskVars, userVars, auxVars
<1>1. CASE PassGate
  BY <1>1 DEF PassGate
<1>17. CASE GateTimesOut
  BY <1>17 DEF GateTimesOut
<1>2. CASE IdleOut
  BY <1>2 DEF IdleOut
<1>3. CASE StartPrefetch
  BY <1>3 DEF StartPrefetch, NoPrefetch
<1>4. CASE SongOver
  <2>1. ClientOK' /\ InHandOK' /\ CallsOK'
    BY <1>4 DEF SongOver
  <2>2. TurnsOK' /\ StaleOK' /\ ClaimsAccounted'
    BY <1>4 DEF SongOver
  <2> QED BY <2>1, <2>2
<1>5. CASE SongEnds
  BY <1>5 DEF SongEnds
<1>6. CASE JoinPrefetch
  BY <1>6 DEF JoinPrefetch, Settle, NoPrefetch
<1>7. CASE SettleAlone
  BY <1>7 DEF SettleAlone, Settle
<1>8. CASE TakePrefetched
  BY <1>8, CallFacts DEF TakePrefetched, Same, AtTop, ConsumeClearedFlag
<1>9. CASE TakeFromQueue
  <2>1. CASE Empty
    BY <1>9, <2>1 DEF TakeFromQueue, AtTop, ConsumeClearedFlag, Discard, Strand
  <2>2. CASE ~Empty
    <3>1. items[cursor + 1] \in Item
      BY <2>2, PendingItem
    <3> QED BY <1>9, <2>2, <3>1
            DEF TakeFromQueue, AtTop, ConsumeClearedFlag, Discard, Strand, Claim
  <2> QED BY <2>1, <2>2
<1>10. CASE WakeUp
  <2>1. items[cursor + 1] \in Item
    BY <1>10, PendingItem DEF WakeUp, Claim
  <2> QED BY <1>10, <2>1 DEF WakeUp, Claim
<1>11. CASE StreamSong
  BY <1>11, CallFacts, MadeItems DEF StreamSong, Same
<1>12. CASE StreamSongFails
  BY <1>12, CallFacts, SMTT(30) DEF StreamSongFails, Same
<1>13. CASE SongRetired
  BY <1>13, ReturnFacts DEF SongRetired, Same
<1>14. CASE CommitSong
  <2>1. op'[Loop] = Idle /\ Same(Loop)
    BY <1>14, LockFacts DEF CommitSong, EnterCommit, Same
  <2>2. CASE CommitOK(Loop)
    BY <1>14, <2>1, <2>2 DEF CommitSong, EnterCommit, CommitOK, Release, Same
  <2>3. CASE ~CommitOK(Loop)
    BY <1>14, <2>1, <2>3 DEF CommitSong, EnterCommit, CommitOK, Same
  <2> QED BY <2>2, <2>3
<1>15. CASE StartSong
  BY <1>15 DEF StartSong
<1>16. CASE LoopRaises
  BY <1>16 DEF LoopRaises
<1> QED BY <1>1, <1>2, <1>3, <1>4, <1>5, <1>6, <1>7, <1>8, <1>9, <1>10, <1>11, <1>12,
           <1>13, <1>14, <1>15, <1>16, <1>17 DEF LoopStep

\* The task is over with no item, as it was created.
IdleTask ==
    /\ pf \in [pc : TaskPoints, item : MaybeItem, cancel : BOOLEAN]
    /\ pf.pc = "done" /\ pf.item = NoItem /\ pf.cancel = FALSE

\* The prefetch task.
LEMMA PrefetchKeeps ==
    ASSUME LoopInv, PrefetchStep \/ PrefetchRetired
    PROVE  ClientInv'
<1> USE Callers, Numbers
    DEF LoopInv, ClientInv, ClientOK, InHandOK, CallsOK, LoopCallOK, TaskCallOK, UserCallsOK,
        TurnsOK, NoTask, StaleOK, ClaimsAccounted, LiveClaims, LoopHoldsClaim,
        PrefetchHoldsClaim, PrefetchRuns, LoopPoints, TaskPoints, MaybeItem,
        queueVars, memory, store, loopVars, taskVars, userVars, auxVars
<1> USE DEF PrefetchUnchanged
<1>1. CASE PrefetchClaims
  <2>1. CASE Empty
    BY <1>1, <2>1 DEF PrefetchClaims
  <2>2. CASE ~Empty
    <3>1. items[cursor + 1] \in Item
      BY <2>2, PendingItem
    <3> DEFINE it == items[cursor + 1]
    <3>2. pf' = [pf EXCEPT !.pc = "streaming", !.item = it] /\ ~pf.cancel
      BY <1>1, <2>2 DEF PrefetchClaims
    <3>3. it \in Item
      BY <3>1
    <3> HIDE DEF it
    <3>4. pf' \in [pc : TaskPoints, item : MaybeItem, cancel : BOOLEAN]
      BY <3>2, <3>3
    <3>5. pf'.pc = "streaming" /\ pf'.item = it /\ ~pf'.cancel
      BY <3>2
    <3> QED BY <1>1, <2>2, <3>5, <3>3, <3>4 DEF PrefetchClaims, Claim
  <2> QED BY <2>1, <2>2
<1>2. CASE PrefetchStreams
  BY <1>2, MadeItems DEF PrefetchStreams
<1>3. CASE PrefetchFails
  BY <1>3, CallFacts DEF PrefetchFails, Same
<1>4. CASE PrefetchRetired
  <2>1. op'[Prefetch] = Idle /\ Same(Prefetch) /\ op[Prefetch].phase = "done"
    BY <1>4, ReturnFacts DEF PrefetchRetired
  <2>2. IdleTask'
    BY <1>4 DEF PrefetchRetired, NoPrefetch, IdleTask
  <2> QED BY <1>4, <2>1, <2>2 DEF PrefetchRetired, Same, IdleTask
<1>5. CASE PrefetchCancelled
  <2>0. IdleTask'
    BY <1>5 DEF PrefetchCancelled, NoPrefetch, IdleTask
  <2>1. CASE pf.pc = "new" /\ UNCHANGED <<items, cursor, op, stranded>>
    BY <1>5, <2>0, <2>1 DEF PrefetchCancelled, IdleTask
  <2>2. CASE /\ pf.pc = "streaming" /\ UNCHANGED <<op, stranded>>
             /\ \E form \in {pf.item, Resolved(pf.item)} : GiveBack(form)
    <3>1. cursor' = IF cursor > 0 THEN cursor - 1 ELSE cursor
      BY <2>2 DEF GiveBack
    <3> QED BY <1>5, <2>0, <2>2, <3>1 DEF PrefetchCancelled, IdleTask
  <2>3. CASE /\ pf.pc = "retiring" /\ Abandon(Prefetch)
             /\ Strand(op[Prefetch].phase = "lock" /\ pfGen = generation)
    <3>1. op'[Prefetch] = Idle /\ Same(Prefetch) /\ UNCHANGED memory
      BY <2>3, AbandonFacts
    <3> QED BY <1>5, <2>0, <2>3, <3>1 DEF PrefetchCancelled, IdleTask, Strand, Same
  <2> QED BY <1>5, <2>1, <2>2, <2>3 DEF PrefetchCancelled
<1> QED BY <1>1, <1>2, <1>3, <1>4, <1>5 DEF PrefetchStep

\* What the queue does while a call is under way.
LEMMA QueueKeeps ==
    ASSUME LoopInv, NEW p \in Procs, QueueStep(p)
    PROVE  ClientInv'
<1> USE Callers, Numbers
    DEF LoopInv, ClientInv, ClientOK, InHandOK, CallsOK, LoopCallOK, TaskCallOK, UserCallsOK,
        TurnsOK, NoTask, StaleOK, ClaimsAccounted, LiveClaims, LoopHoldsClaim,
        PrefetchHoldsClaim, PrefetchRuns, LoopPoints, TaskPoints, MaybeItem,
        queueVars, memory, store, loopVars, taskVars, userVars, auxVars
<1>1. CASE EnterMutation(p)
  <2>1. Same(p) /\ op'[p].name = op[p].name /\ UNCHANGED <<cursor, cleared, generation>>
    BY <1>1, ProceedFacts
       DEF EnterMutation, EnterPut, EnterPutFront, EnterShuffle, EnterRemove
  <2>2. op[p].name \notin {"commit", "finishFailed", "none"}
    BY <1>1 DEF EnterMutation, EnterPut, EnterPutFront, EnterShuffle, EnterRemove, Holds
  <2>3. UNCHANGED stranded
    <3>1. ~EnterClear(p) /\ ~EnterFinishFailed(p)
      BY <1>1 DEF EnterClear, EnterFinishFailed, Holds, EnterMutation, EnterPut, EnterPutFront,
                  EnterShuffle, EnterRemove
    <3> QED BY <3>1 DEF QueueStep
  <2>4. p \in Users
    BY <2>2 DEF Idle
  <2> QED BY <2>1, <2>2, <2>3, <2>4 DEF QueueStep, Same
<1>2. CASE Write(p) \/ WriteFails(p)
  <2>1. Same(p) /\ op'[p].name = op[p].name /\ op'[p].phase # "lock" /\ op[p].phase = "store"
    BY <1>2, IssuedFacts DEF Write, WriteFails
  <2>2. ~EnterClear(p) /\ ~EnterFinishFailed(p)
    BY <2>1 DEF EnterClear, EnterFinishFailed, Holds
  <2>3. UNCHANGED <<memory, stranded>>
    BY <1>2, <2>2 DEF QueueStep, Write, WriteFails
  <2> QED BY <2>1, <2>3 DEF QueueStep, Same, Idle
<1>3. CASE EnterClear(p) /\ stranded' = 0
  <2>1. Same(p) /\ op'[p].name = op[p].name /\ op[p].name = "clear"
    BY <1>3, ProceedFacts DEF EnterClear, Holds
  <2> QED BY <1>3, <2>1 DEF QueueStep, Same, Idle, EnterClear
<1>4. CASE EnterFinishFailed(p) /\ UNCHANGED stranded
  <2>1. /\ Same(p) /\ op'[p].name = op[p].name /\ op[p].name = "finishFailed"
        /\ op'[p].phase # "lock" /\ op[p].phase = "lock"
    BY <1>4, ProceedFacts DEF EnterFinishFailed, Holds
  <2> QED BY <1>4, <2>1 DEF QueueStep, Same, Idle, EnterFinishFailed, Release
<1> QED BY <1>1, <1>2, <1>3, <1>4 DEF QueueStep

\* A user's command after a step, and what it has in hand.
UsersOK ==
    /\ user \in [Users -> UserCommand]
    /\ \A u \in Users :
         /\ user[u].pc = "resolving" => user[u].item \in Item
         /\ user[u].pc = "cancelling" /\ user[u].cmd \in {"cutin", "playnow"} =>
              user[u].item \in Item /\ user[u].target \in Item

\* A user's next command, typed and holding what it needs.
LEMMA UserMoves ==
    ASSUME UsersOK, NEW u \in Users, NEW c \in UserCommand, user' = [user EXCEPT ![u] = c],
           c.pc = "resolving" => c.item \in Item,
           c.pc = "cancelling" /\ c.cmd \in {"cutin", "playnow"} =>
              c.item \in Item /\ c.target \in Item
    PROVE  UsersOK'
BY DEF UsersOK

\* A command that waits in the queue, or for the prefetch it cancelled.
LEMMA UserBusy ==
    ASSUME UsersOK, NEW u \in Users, NEW c \in CommandNames \cup {"none"},
           NEW pc \in {"queueing", "cancelling"}, Busy(u, c, pc),
           pc = "cancelling" => c \in BulkNames
    PROVE  UsersOK'
<1> DEFINE r == [NoCommand EXCEPT !.cmd = c, !.pc = pc]
<1>1. user' = [user EXCEPT ![u] = r]
  BY DEF Busy
<1>2. NoCommand \in UserCommand
  BY DEF NoCommand, UserCommand, MaybeItem
<1>3. r \in UserCommand
  BY <1>2 DEF UserCommand, BulkNames
<1>4. r.pc = pc /\ r.cmd = c
  BY <1>2 DEF UserCommand
<1> HIDE DEF r
<1> QED BY <1>1, <1>3, <1>4, UserMoves DEF BulkNames

\* A command that is over.
LEMMA UserIdles ==
    ASSUME UsersOK, NEW u \in Users, user' = [user EXCEPT ![u] = NoCommand]
    PROVE  UsersOK'
<1>1. NoCommand \in UserCommand /\ NoCommand.pc = "idle"
  BY DEF NoCommand, UserCommand, MaybeItem
<1> QED BY <1>1, UserMoves

\* A command that goes on to its next await.
LEMMA UserGoesOn ==
    ASSUME UsersOK, NEW u \in Users, NEW pc \in {"queueing", "inserting", "cancelling"},
           NEW target \in MaybeItem,
           user' = [user EXCEPT ![u].pc = pc, ![u].target = target],
           pc = "cancelling" => user[u].item \in Item /\ target \in Item
    PROVE  UsersOK'
<1> DEFINE r == [user[u] EXCEPT !.pc = pc, !.target = target]
<1>1. user' = [user EXCEPT ![u] = r]
  BY DEF UsersOK
<1>2. user[u] \in UserCommand
  BY DEF UsersOK
<1>3. r \in UserCommand
  BY <1>2 DEF UserCommand
<1>4. r.pc = pc /\ r.target = target /\ r.item = user[u].item
  BY <1>2 DEF UserCommand
<1> HIDE DEF r
<1> QED BY <1>1, <1>3, <1>4, UserMoves

\* A user's call settles no claim.
LEMMA UserCall ==
    ASSUME LoopInv, NEW u \in Users, NEW name, NEW arg, NEW gen, Call(u, name, arg, gen),
           name \notin {"commit", "finishFailed"}
    PROVE  /\ UserCallsOK' /\ op'[Loop] = op[Loop] /\ op'[Prefetch] = op[Prefetch]
BY Callers, CallFacts DEF LoopInv, ClientInv, CallsOK, UserCallsOK, Same

\* Nor does one that returns.
LEMMA UserReturn ==
    ASSUME LoopInv, NEW u \in Users, Return(u)
    PROVE  /\ UserCallsOK' /\ op'[Loop] = op[Loop] /\ op'[Prefetch] = op[Prefetch]
<1>1. op'[u] = Idle /\ Same(u)
  BY Callers, ReturnFacts DEF LoopInv
<1> QED BY <1>1, Callers DEF LoopInv, ClientInv, CallsOK, UserCallsOK, Same, Idle

\* Queueing a song leaves everything else where it is.
LEMMA PutAside ==
    ASSUME LoopInv, NEW u \in Users, UsersOK', UserCallsOK', arriving' \in Seq(Songs),
           UNCHANGED <<memory, lpc, song, commitGen, prefetched, current, taskVars, pfGen, stranded>>,
           op'[Loop] = op[Loop], op'[Prefetch] = op[Prefetch]
    PROVE  ClientInv'
<1> USE Callers, Numbers
    DEF LoopInv, ClientInv, ClientOK, InHandOK, CallsOK, LoopCallOK, TaskCallOK, UserCallsOK,
        TurnsOK, NoTask, StaleOK, ClaimsAccounted, LiveClaims, LoopHoldsClaim,
        PrefetchHoldsClaim, PrefetchRuns, LoopPoints, TaskPoints, MaybeItem,
        queueVars, memory, store, loopVars, taskVars, userVars, auxVars
<1> QED BY DEF UsersOK

\* -play, in its forms.
LEMMA EnqueueKeeps ==
    ASSUME LoopInv, NEW u \in Users, NEW c \in CommandNames,
           NEW name \in {"put", "putBatch", "putFront"},
           NEW n \in 1 .. 2, Enqueue(u, c, name, n)
    PROVE  ClientInv'
<1>1. UsersOK
  BY DEF LoopInv, ClientInv, ClientOK, InHandOK, UsersOK
<1>2. UsersOK'
  BY <1>1, UserBusy DEF Enqueue
<1>3. UserCallsOK' /\ op'[Loop] = op[Loop] /\ op'[Prefetch] = op[Prefetch]
  BY UserCall DEF Enqueue
<1>4. arriving' \in Seq(Songs)
  BY DEF Enqueue, Arrive, LoopInv, ClientInv, ClientOK
<1> QED BY <1>2, <1>3, <1>4, PutAside DEF Enqueue, loopVars, auxVars

\* A command cancels the prefetch that runs.
LEMMA CancelKeeps ==
    ASSUME LoopInv, NEW u \in Users, UsersOK', PrefetchRuns, pfRef,
           pf' = [pf EXCEPT !.cancel = TRUE], pfRef' \in BOOLEAN,
           arriving' \in Seq(Songs),
           UNCHANGED <<memory, op, lpc, song, commitGen, prefetched, current, pfGen, stranded>>
    PROVE  ClientInv'
<1>1. /\ pf' \in [pc : TaskPoints, item : MaybeItem, cancel : BOOLEAN]
      /\ pf'.pc = pf.pc /\ pf'.item = pf.item /\ pf'.cancel = TRUE
  BY DEF LoopInv, ClientInv, ClientOK
<1> USE Callers, Numbers
    DEF LoopInv, ClientInv, ClientOK, InHandOK, CallsOK, LoopCallOK, TaskCallOK, UserCallsOK,
        TurnsOK, NoTask, StaleOK, ClaimsAccounted, LiveClaims, LoopHoldsClaim,
        PrefetchHoldsClaim, PrefetchRuns, LoopPoints, TaskPoints, MaybeItem,
        queueVars, memory, store, loopVars, taskVars, userVars, auxVars
<1> QED BY <1>1 DEF UsersOK

\* interject() inserts, having taken back what a finished prefetch had claimed.
LEMMA InterjectKeeps ==
    ASSUME LoopInv, NEW u \in Users, UsersOK', UserCallsOK', current # NoItem,
           ~(pfRef /\ PrefetchRuns), pfRef' = FALSE,
           IF pfRef /\ pf.item # NoItem THEN GiveBack(pf.item) ELSE UNCHANGED <<items, cursor>>,
           pf' = IF pfRef THEN NoPrefetch ELSE pf,
           UNCHANGED <<cleared, generation, lpc, song, commitGen, prefetched, current, pfGen,
                       stranded, arriving>>,
           op'[Loop] = op[Loop], op'[Prefetch] = op[Prefetch]
    PROVE  ClientInv'
<1>1. cursor' = IF pfRef /\ pf.item # NoItem /\ cursor > 0 THEN cursor - 1 ELSE cursor
  BY DEF GiveBack
<1>2. NoPrefetch.pc = "none" /\ NoPrefetch.item = NoItem /\ NoPrefetch.cancel = FALSE
  BY DEF NoPrefetch
<1>3. NoPrefetch \in [pc : TaskPoints, item : MaybeItem, cancel : BOOLEAN]
  BY DEF NoPrefetch, TaskPoints, MaybeItem
<1> USE Callers, Numbers
    DEF LoopInv, ClientInv, ClientOK, InHandOK, CallsOK, LoopCallOK, TaskCallOK, UserCallsOK,
        TurnsOK, NoTask, StaleOK, ClaimsAccounted, LiveClaims, LoopHoldsClaim,
        PrefetchHoldsClaim, PrefetchRuns, LoopPoints, TaskPoints, MaybeItem,
        queueVars, memory, store, loopVars, taskVars, userVars, auxVars
<1>4. CASE pfRef
  <2>1. lpc = "playing" /\ prefetched = NoItem /\ ~LoopHoldsClaim /\ ~LoopHoldsClaim'
    BY <1>4
  <2>2. pf' = NoPrefetch
    BY <1>4
  <2>3. ClientOK'
    BY <1>3, <2>2 DEF UsersOK
  <2>4. InHandOK'
    BY <1>2, <2>1, <2>2 DEF UsersOK
  <2>5. CallsOK'
    BY <1>2, <1>4, <2>1, <2>2
  <2>6. TurnsOK' /\ StaleOK'
    BY <1>2, <2>1, <2>2
  <2>7. cursor' = stranded
    <3>1. CASE pf.item = NoItem
      BY <1>1, <1>4, <2>1, <3>1
    <3>2. CASE pf.item # NoItem
      BY <1>1, <1>4, <2>1, <3>2
    <3> QED BY <3>1, <3>2
  <2>8. ~PrefetchHoldsClaim'
    BY <1>2, <2>2
  <2>9. ClaimsAccounted'
    BY <2>1, <2>7, <2>8
  <2> QED BY <2>3, <2>4, <2>5, <2>6, <2>9
<1>5. CASE ~pfRef
  <2>1. UNCHANGED <<memory, taskVars>>
    BY <1>5
  <2>2. arriving' \in Seq(Songs)
    OBVIOUS
  <2> QED BY <2>1, <2>2, PutAside
<1> QED BY <1>4, <1>5

\* The commands.
LEMMA UserKeeps ==
    ASSUME LoopInv, NEW u \in Users, UserStep(u) \/ Finish(u) \/ Inserted(u)
    PROVE  ClientInv'
<1>0. UsersOK
  BY DEF LoopInv, ClientInv, ClientOK, InHandOK, UsersOK
<1> USE DEF loopVars, taskVars, auxVars, queueVars, memory
<1>a. arriving' \in Seq(Songs) \/ UNCHANGED arriving => arriving' \in Seq(Songs)
  BY DEF LoopInv, ClientInv, ClientOK
<1>b. UNCHANGED op => UserCallsOK'
  BY DEF LoopInv, ClientInv, CallsOK, UserCallsOK
<1>1. CASE Play(u) \/ Playlist(u) \/ PlayFront(u)
  BY <1>1, EnqueueKeeps DEF Play, Playlist, PlayFront, CommandNames
<1>2. ASSUME NEW c \in BulkNames, Bulk(u, c) PROVE ClientInv'
  <2>1. c \in CommandNames /\ c \notin {"commit", "finishFailed"}
    BY DEF BulkNames, CommandNames
  <2>2. UsersOK'
    BY <1>0, <1>2, <2>1, UserBusy DEF Bulk
  <2>3. CASE pfRef /\ PrefetchRuns
    BY <1>2, <1>a, <2>2, <2>3, CancelKeeps DEF Bulk, LoopInv, ClientInv, ClientOK
  <2>4. CASE ~(pfRef /\ PrefetchRuns)
    <3>1. UserCallsOK' /\ op'[Loop] = op[Loop] /\ op'[Prefetch] = op[Prefetch]
      BY <1>2, <2>1, <2>4, UserCall DEF Bulk
    <3> QED BY <1>2, <1>a, <2>2, <2>4, <3>1, PutAside DEF Bulk
  <2> QED BY <2>3, <2>4
<1>3. CASE BulkCancelled(u)
  <2>1. user[u].cmd \notin {"commit", "finishFailed"}
    BY <1>3 DEF BulkCancelled, BulkNames
  <2>2. UserCallsOK' /\ op'[Loop] = op[Loop] /\ op'[Prefetch] = op[Prefetch]
    BY <1>3, <2>1, UserCall DEF BulkCancelled
  <2>3. UsersOK'
    BY <1>0, <1>3 DEF BulkCancelled, UsersOK, UserCommand
  <2> QED BY <1>3, <1>a, <2>2, <2>3, PutAside DEF BulkCancelled
<1>4. CASE Skip(u)
  <2>1. UsersOK'
    BY <1>0, <1>4 DEF Skip, UsersOK
  <2> QED BY <1>4, <1>a, <1>b, <2>1, PutAside DEF Skip
<1>5. ASSUME NEW c \in {"playnow", "cutin"}, ResolveFirst(u, c) PROVE ClientInv'
  <2> DEFINE it == Resolved(Fresh(Head(arriving)))
             r == [NoCommand EXCEPT !.cmd = c, !.pc = "resolving", !.item = it]
  <2>1. it \in Item /\ arriving' \in Seq(Songs)
    <3>1. arriving \in Seq(Songs) /\ Len(arriving) >= 1
      BY <1>5 DEF ResolveFirst, Arrive, LoopInv, ClientInv, ClientOK
    <3>2. Head(arriving) \in Songs
      BY <3>1
    <3>3. arriving' \in Seq(Songs)
      BY <1>5, <3>1 DEF ResolveFirst, Arrive
    <3> QED BY <3>2, <3>3, FreshItem, MadeItems
  <2>2. user' = [user EXCEPT ![u] = r]
    BY <1>5 DEF ResolveFirst
  <2>3. NoCommand \in UserCommand
    BY DEF NoCommand, UserCommand, MaybeItem
  <2> HIDE DEF it
  <2>4. r \in UserCommand /\ r.pc = "resolving" /\ r.item = it
    BY <2>1, <2>3 DEF UserCommand, CommandNames, MaybeItem
  <2> HIDE DEF r
  <2>5. UsersOK'
    BY <1>0, <2>1, <2>2, <2>4, UserMoves
  <2> QED BY <1>5, <1>b, <2>1, <2>5, PutAside DEF ResolveFirst
<1>6. CASE PlayNow(u)
  BY <1>5, <1>6, EnqueueKeeps DEF PlayNow, CommandNames
<1>7. CASE CutInTooLate(u)
  <2>1. UserCallsOK' /\ op'[Loop] = op[Loop] /\ op'[Prefetch] = op[Prefetch]
    BY <1>7, UserCall DEF CutInTooLate
  <2>2. UsersOK'
    BY <1>0, <1>7, UserBusy DEF CutInTooLate, CommandNames
  <2> QED BY <1>7, <1>a, <2>1, <2>2, PutAside DEF CutInTooLate
<1>8. ASSUME NEW q, NEW target \in Item, Insert(u, q, target)
      PROVE  UsersOK' /\ UserCallsOK' /\ op'[Loop] = op[Loop] /\ op'[Prefetch] = op[Prefetch]
  <2>1. UsersOK'
    BY <1>0, <1>8, UserGoesOn DEF Insert, MaybeItem
  <2> QED BY <1>8, <2>1, UserCall DEF Insert
<1>9. ASSUME NEW q, FallBack(u, q)
      PROVE  UsersOK' /\ UserCallsOK' /\ op'[Loop] = op[Loop] /\ op'[Prefetch] = op[Prefetch]
  <2>1. UsersOK'
    <3>1. user[u].cmd \in CommandNames \cup {"none"}
      BY <1>0 DEF UsersOK, UserCommand
    <3> QED BY <1>0, <1>9, <3>1, UserBusy DEF FallBack
  <2> QED BY <1>9, <2>1, UserCall DEF FallBack
<1>10. CASE Interject(u)
  <2> DEFINE q == user[u].item
  <2>1. q \in Item
    BY <1>0, <1>10 DEF Interject, UsersOK
  <2>2. CASE FallBack(u, q) /\ UNCHANGED <<items, cursor, taskVars>>
    BY <1>9, <1>10, <1>a, <2>2, PutAside DEF Interject
  <2>3. CASE /\ current # NoItem /\ pfRef /\ PrefetchRuns /\ pfRef' = FALSE
             /\ pf' = [pf EXCEPT !.cancel = TRUE]
             /\ user' = [user EXCEPT ![u].pc = "cancelling", ![u].target = current]
             /\ UNCHANGED <<items, cursor, op>>
    <3>1. current \in Item
      BY <2>3 DEF LoopInv, ClientInv, ClientOK, MaybeItem
    <3>2. UsersOK'
      BY <1>0, <2>1, <2>3, <3>1, UserGoesOn DEF MaybeItem
    <3> QED BY <1>10, <1>a, <2>3, <3>2, CancelKeeps DEF Interject
  <2>4. CASE /\ current # NoItem /\ ~(pfRef /\ PrefetchRuns) /\ pfRef' = FALSE
             /\ IF pfRef /\ pf.item # NoItem THEN GiveBack(pf.item)
                                             ELSE UNCHANGED <<items, cursor>>
             /\ pf' = IF pfRef THEN NoPrefetch ELSE pf
             /\ Insert(u, q, current)
    <3>1. current \in Item
      BY <2>4 DEF LoopInv, ClientInv, ClientOK, MaybeItem
    <3>2. UsersOK' /\ UserCallsOK' /\ op'[Loop] = op[Loop] /\ op'[Prefetch] = op[Prefetch]
      BY <1>8, <2>4, <3>1
    <3> QED BY <1>10, <2>4, <3>2, InterjectKeeps DEF Interject
  <2> QED BY <1>10, <2>2, <2>3, <2>4 DEF Interject
<1>11. CASE InterjectCancelled(u)
  <2>1. user[u].target \in Item
    BY <1>0, <1>11 DEF InterjectCancelled, UsersOK
  <2>2. UsersOK' /\ UserCallsOK' /\ op'[Loop] = op[Loop] /\ op'[Prefetch] = op[Prefetch]
    BY <1>8, <1>9, <1>11, <2>1 DEF InterjectCancelled
  <2> QED BY <1>11, <1>a, <2>2, PutAside DEF InterjectCancelled
<1>12. CASE Finish(u) \/ Inserted(u)
  <2>1. UserCallsOK' /\ op'[Loop] = op[Loop] /\ op'[Prefetch] = op[Prefetch]
    BY <1>12, UserReturn DEF Finish, Inserted
  <2>2. UsersOK'
    BY <1>0, <1>12, UserIdles DEF Finish, Inserted
  <2> QED BY <1>12, <1>a, <2>1, <2>2, PutAside DEF Finish, Inserted
<1> QED BY <1>1, <1>2, <1>3, <1>4, <1>5, <1>6, <1>7, <1>10, <1>11, <1>12
        DEF UserStep, CutIn
-----------------------------------------------------------------------------
\* The invariant holds at the start.
LEMMA LoopInitially == LoopInit => LoopInv
<1> SUFFICES ASSUME LoopInit PROVE LoopInv
  OBVIOUS
<1>1. QueueInv
  BY InitHolds DEF LoopInit
<1>2. /\ op = [p \in Procs |-> Idle] /\ cursor = 0 /\ generation \in Nat
      /\ lpc = "gate" /\ song = NoItem /\ prefetched = NoItem /\ current = NoItem
      /\ pf = NoPrefetch /\ pfRef = FALSE /\ commitGen = 0 /\ pfGen = 0 /\ stranded = 0
      /\ user = [u \in Users |-> NoCommand] /\ arriving = Arrivals
  BY DEF LoopInit, Init
<1>3. /\ NoPrefetch \in [pc : TaskPoints, item : MaybeItem, cancel : BOOLEAN]
      /\ NoPrefetch.pc = "none" /\ NoPrefetch.item = NoItem /\ NoPrefetch.cancel = FALSE
      /\ NoCommand \in UserCommand /\ NoCommand.pc = "idle"
  BY DEF NoPrefetch, NoCommand, UserCommand, TaskPoints, MaybeItem
<1>4. Idle.name = "none"
  BY DEF Idle
<1>5. ClientOK /\ InHandOK
  BY <1>2, <1>3, LoopAssumption DEF ClientOK, InHandOK, LoopPoints, MaybeItem
<1>6. CallsOK /\ TurnsOK
  BY <1>2, <1>3, <1>4, Callers
     DEF CallsOK, LoopCallOK, TaskCallOK, UserCallsOK, TurnsOK, NoTask
<1>7. StaleOK /\ ClaimsAccounted
  BY <1>2, <1>3
     DEF StaleOK, ClaimsAccounted, LiveClaims, LoopHoldsClaim, PrefetchHoldsClaim
<1> QED BY <1>1, <1>5, <1>6, <1>7 DEF LoopInv, ClientInv

\* Every step keeps it.
LEMMA LoopStepwise == LoopInv /\ [LoopNext]_vars => LoopInv'
<1> SUFFICES ASSUME LoopInv, [LoopNext]_vars PROVE LoopInv'
  OBVIOUS
<1>1. QueueInv'
  BY StepIsClient, StepKeeps DEF LoopInv, ClientInv
<1>2. ASSUME Caller PROVE ClientInv'
  BY <1>2, LoopKeeps, PrefetchKeeps, UserKeeps DEF Caller
<1>3. ASSUME LoopStep \/ SongEnds PROVE ClientInv'
  BY <1>3, LoopKeeps
<1>4. ASSUME PrefetchStep PROVE ClientInv'
  BY <1>4, PrefetchKeeps
<1>5. ASSUME NEW u \in Users, UserStep(u) PROVE ClientInv'
  BY <1>5, UserKeeps
<1>6. ASSUME NEW p \in Procs, QueueStep(p) PROVE ClientInv'
  BY <1>6, QueueKeeps
<1>7. ASSUME UNCHANGED vars PROVE ClientInv'
  BY <1>7 DEF vars, LoopInv, ClientInv, ClientOK, InHandOK, CallsOK, LoopCallOK, TaskCallOK,
              UserCallsOK, TurnsOK, NoTask, StaleOK, ClaimsAccounted, LiveClaims,
              LoopHoldsClaim, PrefetchHoldsClaim, PrefetchRuns, queueVars, memory, loopVars,
              taskVars, userVars, auxVars
<1> QED BY <1>1, <1>2, <1>3, <1>4, <1>5, <1>6, <1>7 DEF LoopNext, LoopInv

\* The invariant behind the theorems.
THEOREM LoopInvariant == PlaybackSpec => []LoopInv
<1> QED BY LoopInitially, LoopStepwise, PTL DEF PlaybackSpec

\* However many users, commands and faults there are, the loop, the prefetch and the
\* commands of musicplayer.py touch the queue only through the operations of
\* guild_queue.py, each under its lock: the player's specification implements the
\* queue's.
THEOREM PlaybackKeepsContract == PlaybackSpec => QueueContract
<1>1. LoopInit => Init
  BY DEF LoopInit
<1>2. LoopInv /\ [LoopNext]_vars => [Next]_queueVars
  BY StepIsClient DEF LoopInv, ClientInv
<1> QED BY <1>1, <1>2, LoopInvariant, PTL DEF PlaybackSpec, QueueContract, Spec

\* The claimed prefix of the deque is exactly what the loop and the prefetch hold,
\* plus what the two known leaks stranded: _neutralize_prefetch(), the stale-flag
\* discard, the commit and the failed dequeue settle or give back each claim once.
THEOREM ClaimsKept == PlaybackSpec => []ClaimsAccounted
<1>1. LoopInv => ClaimsAccounted
  BY DEF LoopInv, ClientInv
<1> QED BY <1>1, LoopInvariant, PTL
-----------------------------------------------------------------------------
(* The commit settles its own song.                                         *)

\* The voice client is the current song's, from its start to its settling.
VoiceOK == voice # "off" => lpc \in {"start", "announce", "playing", "join", "settle"}

\* With no claim stranded the only live claim is the deque's head, whoever holds it
\* and whatever became of the item meanwhile.
OwnSongOK ==
    stranded = 0 =>
      /\ lpc \in {"resolve", "commit"} /\ commitGen = generation =>
            song.song = items[1].song
      /\ prefetched # NoItem /\ pfGen = generation => prefetched.song = items[1].song
      /\ pf.pc \in {"streaming", "done"} /\ pf.item # NoItem /\ pfGen = generation =>
            pf.item.song = items[1].song

OwnInv == VoiceOK /\ OwnSongOK

\* Only a settle and a clear move a claimed head.
LEMMA MutationKeepsHead ==
    ASSUME QueueInv, cursor > 0, NEW p \in Procs, EnterMutation(p)
    PROVE  items'[1] = items[1]
<1>1. 1 \in 1 .. cursor /\ 1 \in 1 .. Len(items) /\ cursor \in Nat /\ cursor <= Len(items)
  BY DequeFacts
<1>2. CASE EnterPut(p)
  BY <1>1, <1>2, DequeFacts, ConcatProperties DEF EnterPut
<1>3. CASE EnterPutFront(p)
  <2> DEFINE arg == op[p].arg
             rest == SubSeq(items, cursor + 1, Len(items))
  <2>1. arg \in Seq(Item) /\ rest \in Seq(Item) /\ Claimed \in Seq(Item) /\ Len(Claimed) = cursor
    BY DequeFacts, HalvesType
  <2>2. items' = (Claimed \o arg) \o rest
    BY <1>3 DEF EnterPutFront
  <2>3. Claimed[1] = items[1]
    BY <1>1, DequeFacts, SubSeqProperties DEF Claimed
  <2> HIDE DEF arg, rest
  <2>4. /\ Claimed \o arg \in Seq(Item) /\ (Claimed \o arg)[1] = Claimed[1]
        /\ Len(Claimed \o arg) = cursor + Len(arg) /\ Len(arg) \in Nat
    <3> DEFINE head == Claimed
    <3>1. head \in Seq(Item) /\ Len(head) = cursor /\ Len(arg) \in Nat
      BY <2>1, LenProperties
    <3> HIDE DEF head
    <3>2. /\ head \o arg \in Seq(Item) /\ Len(head \o arg) = Len(head) + Len(arg)
          /\ \A i \in 1 .. Len(head) + Len(arg) :
                (head \o arg)[i] = IF i <= Len(head) THEN head[i] ELSE arg[i - Len(head)]
      BY <2>1, <3>1, ConcatProperties
    <3> QED BY <1>1, <3>1, <3>2 DEF head
  <2> DEFINE left == Claimed \o arg
  <2> HIDE DEF left
  <2>5. (left \o rest)[1] = left[1]
    BY <1>1, <2>1, <2>4, ConcatProperties, LenProperties DEF left
  <2> QED BY <2>2, <2>3, <2>4, <2>5 DEF left
<1>4. CASE EnterShuffle(p)
  <2>1. CASE items' = items
    BY <2>1
  <2>2. CASE items' # items
    <3>1. PICK pi \in Bijection(Pending, Pending) :
             items' = [k \in DOMAIN items |->
                         IF k \in Pending THEN items[pi[k]] ELSE items[k]]
      BY <1>4, <2>2 DEF EnterShuffle
    <3>2. 1 \in DOMAIN items /\ 1 \notin Pending
      BY <1>1, DequeFacts DEF Pending
    <3> QED BY <3>1, <3>2
  <2> QED BY <2>1, <2>2
<1>5. CASE EnterRemove(p)
  <2>1. PICK gone \in SUBSET Pending : items' = items \/ items' = At(items, DOMAIN items \ gone)
    BY <1>5 DEF EnterRemove
  <2> DEFINE kept == At(items, DOMAIN items \ gone)
  <2>2. \A k \in 1 .. cursor : kept[k] = items[k]
    BY RemoveDeque
  <2>3. items' = items \/ items' = kept
    BY <2>1
  <2> HIDE DEF kept
  <2> QED BY <1>1, <2>2, <2>3
<1> QED BY <1>2, <1>3, <1>4, <1>5 DEF EnterMutation

\* A live claim is one of the deque's.
LEMMA ClaimInDeque ==
    ASSUME LoopInv, LoopHoldsClaim \/ PrefetchHoldsClaim
    PROVE  cursor > 0
BY Numbers DEF LoopInv, ClientInv, ClientOK, ClaimsAccounted, LiveClaims

\* Resolving a search changes neither whose it is nor where its claim is.
LEMMA ResolvedSong ==
    ASSUME NEW i \in Item
    PROVE  Resolved(i).song = i.song
BY DEF Resolved, Item

\* The loop.
LEMMA LoopKeepsOwn ==
    ASSUME LoopInv, OwnInv, LoopStep \/ SongRetired \/ SongEnds
    PROVE  OwnInv'
<1> USE Callers, Numbers
    DEF LoopInv, ClientInv, ClientOK, InHandOK, TurnsOK, NoTask, StaleOK,
        OwnInv, VoiceOK, OwnSongOK, PrefetchRuns, memory, store, taskVars, auxVars, queueVars
<1>1. CASE PassGate
  BY <1>1 DEF PassGate
<1>2. CASE GateTimesOut \/ IdleOut
  BY <1>2 DEF GateTimesOut, IdleOut
<1>3. CASE StartPrefetch
  BY <1>3 DEF StartPrefetch, NoPrefetch
<1>4. CASE SongOver \/ SongEnds
  BY <1>4 DEF SongOver, SongEnds
<1>5. CASE JoinPrefetch
  BY <1>5 DEF JoinPrefetch, Settle, NoPrefetch
<1>6. CASE SettleAlone
  BY <1>6 DEF SettleAlone, Settle
<1>7. CASE TakePrefetched
  BY <1>7 DEF TakePrefetched, AtTop
<1>8. CASE TakeFromQueue
  <2>1. CASE Empty
    BY <1>8, <2>1 DEF TakeFromQueue, AtTop, Discard, Strand
  <2>2. CASE ~Empty
    <3>1. stranded' = 0 => cursor = 0
      BY <1>8, <2>2 DEF TakeFromQueue, AtTop, Discard, Strand, ClaimsAccounted, LiveClaims,
                        LoopHoldsClaim, PrefetchHoldsClaim
    <3>2. /\ lpc' = "resolve" /\ song' = items[cursor + 1] /\ prefetched' = NoItem
          /\ UNCHANGED <<items, pf, voice>> /\ pf.item = NoItem /\ voice = "off"
      BY <1>8, <2>2 DEF TakeFromQueue, AtTop, Discard, Claim
    <3> QED BY <3>1, <3>2
  <2> QED BY <2>1, <2>2
<1>9. CASE WakeUp
  <2>1. stranded' = 0 => cursor = 0
    BY <1>9 DEF WakeUp, ClaimsAccounted, LiveClaims, LoopHoldsClaim, PrefetchHoldsClaim
  <2>2. /\ lpc' = "resolve" /\ song' = items[cursor + 1] /\ prefetched' = NoItem
        /\ UNCHANGED <<items, pf, voice>> /\ pf.item = NoItem /\ voice = "off"
    BY <1>9 DEF WakeUp, Claim
  <2> QED BY <2>1, <2>2
<1>10. CASE StreamSong
  BY <1>10, ResolvedSong DEF StreamSong
<1>11. CASE StreamSongFails
  BY <1>11 DEF StreamSongFails
<1>12. CASE SongRetired
  BY <1>12 DEF SongRetired
<1>13. CASE CommitSong
  BY <1>13 DEF CommitSong, EnterCommit, Release
<1>14. CASE StartSong
  BY <1>14 DEF StartSong
<1>15. CASE LoopRaises
  BY <1>15 DEF LoopRaises
<1> QED BY <1>1, <1>2, <1>3, <1>4, <1>5, <1>6, <1>7, <1>8, <1>9, <1>10, <1>11, <1>12,
           <1>13, <1>14, <1>15 DEF LoopStep

\* The prefetch.
LEMMA PrefetchKeepsOwn ==
    ASSUME LoopInv, OwnInv, PrefetchStep \/ PrefetchRetired
    PROVE  OwnInv'
<1> USE Callers, Numbers
    DEF LoopInv, ClientInv, ClientOK, InHandOK, TurnsOK, NoTask, StaleOK,
        OwnInv, VoiceOK, OwnSongOK, PrefetchRuns, memory, store, loopVars, auxVars, queueVars,
        PrefetchUnchanged
<1>1. PrefetchRuns /\ lpc \notin {"resolve", "commit"} /\ prefetched = NoItem
  BY DEF PrefetchStep, PrefetchClaims, PrefetchStreams, PrefetchFails, PrefetchCancelled,
         PrefetchRetired, NoPrefetch
<1>2. UNCHANGED <<lpc, voice, prefetched>>
  BY DEF PrefetchStep, PrefetchClaims, PrefetchStreams, PrefetchFails, PrefetchCancelled,
         PrefetchRetired
<1>3. CASE PrefetchClaims /\ ~Empty
  <2> DEFINE it == items[cursor + 1]
  <2>1. it \in Item
    BY <1>3, PendingItem
  <2>2. stranded = 0 => cursor = 0
    BY <1>1, <1>3 DEF PrefetchClaims, ClaimsAccounted, LiveClaims, LoopHoldsClaim,
                      PrefetchHoldsClaim
  <2>3. pf' = [pf EXCEPT !.pc = "streaming", !.item = it] /\ UNCHANGED <<items, stranded>>
    BY <1>3 DEF PrefetchClaims, Claim
  <2>4. stranded = 0 => it.song = items[1].song
    BY <2>2
  <2> HIDE DEF it
  <2>5. pf'.item = it
    BY <2>3
  <2> QED BY <1>1, <1>2, <2>3, <2>4, <2>5
<1>4. CASE PrefetchClaims /\ Empty
  BY <1>1, <1>2, <1>4 DEF PrefetchClaims
<1>5. CASE PrefetchStreams
  <2> DEFINE it == Resolved(pf.item)
  <2>1. pf.item \in Item /\ it.song = pf.item.song
    BY <1>5, ResolvedSong DEF PrefetchStreams
  <2>2. pf' = [pf EXCEPT !.pc = "done", !.item = it]
    BY <1>5 DEF PrefetchStreams
  <2> HIDE DEF it
  <2>3. pf'.item = it
    BY <2>2
  <2> QED BY <1>1, <1>2, <1>5, <2>1, <2>3 DEF PrefetchStreams
<1>6. CASE PrefetchFails
  BY <1>1, <1>2, <1>6 DEF PrefetchFails
<1>7. CASE PrefetchRetired \/ PrefetchCancelled
  <2>1. pf'.item = NoItem
    BY <1>7 DEF PrefetchRetired, PrefetchCancelled, NoPrefetch
  <2> QED BY <1>1, <1>2, <2>1
<1> QED BY <1>3, <1>4, <1>5, <1>6, <1>7 DEF PrefetchStep

\* The queue.
LEMMA QueueKeepsOwn ==
    ASSUME LoopInv, OwnInv, NEW p \in Procs, QueueStep(p)
    PROVE  OwnInv'
<1> USE Callers, Numbers
    DEF LoopInv, ClientInv, ClientOK, TurnsOK, NoTask, StaleOK, OwnInv, VoiceOK, OwnSongOK,
        PrefetchRuns, memory, loopVars, taskVars
<1>1. UNCHANGED <<lpc, song, commitGen, prefetched, voice, pf, pfGen>>
  BY DEF QueueStep
<1>2. CASE EnterMutation(p) /\ UNCHANGED stranded
  <2>1. UNCHANGED generation
    BY <1>2 DEF EnterMutation, EnterPut, EnterPutFront, EnterShuffle, EnterRemove
  <2>2. cursor > 0 => items'[1] = items[1]
    BY <1>2, MutationKeepsHead
  <2>3. CASE cursor > 0
    BY <1>1, <1>2, <2>1, <2>2, <2>3
  <2>4. CASE ~(cursor > 0)
    <3>1. ~LoopHoldsClaim /\ ~PrefetchHoldsClaim
      BY <2>4, ClaimInDeque
    <3> QED BY <1>1, <2>1, <3>1 DEF LoopHoldsClaim, PrefetchHoldsClaim
  <2> QED BY <2>3, <2>4
<1>3. CASE (Write(p) \/ WriteFails(p)) /\ UNCHANGED stranded
  BY <1>1, <1>3 DEF Write, WriteFails
<1>4. CASE EnterClear(p)
  BY <1>1, <1>4 DEF EnterClear
<1>5. CASE EnterFinishFailed(p)
  <2>1. op[p].name = "finishFailed" /\ op[p].phase = "lock"
    BY <1>5 DEF EnterFinishFailed, Holds
  <2>2. \/ p = Loop /\ lpc = "retire"
        \/ p = Prefetch /\ pf.pc = "retiring"
    BY <2>1 DEF CallsOK, LoopCallOK, TaskCallOK, UserCallsOK, Idle
  <2>3. CASE p = Loop /\ lpc = "retire"
    BY <1>1, <2>3
  <2>4. CASE p = Prefetch /\ pf.pc = "retiring"
    BY <1>1, <2>4 DEF NoPrefetch
  <2> QED BY <2>2, <2>3, <2>4
<1> QED BY <1>2, <1>3, <1>4, <1>5 DEF QueueStep

\* The commands.
LEMMA UserKeepsOwn ==
    ASSUME LoopInv, OwnInv, NEW u \in Users, UserStep(u) \/ Finish(u) \/ Inserted(u)
    PROVE  OwnInv'
<1> USE Callers, Numbers
    DEF LoopInv, ClientInv, ClientOK, TurnsOK, NoTask, StaleOK, OwnInv, VoiceOK, OwnSongOK,
        PrefetchRuns, memory, loopVars, taskVars, auxVars, queueVars
<1>1. CASE Interject(u)
  <2>1. UNCHANGED <<generation, lpc, song, commitGen, prefetched, voice, pfGen, stranded>>
    BY <1>1 DEF Interject
  <2>2. CASE UNCHANGED <<items, pf>>
    BY <2>1, <2>2
  <2>3. CASE UNCHANGED items /\ pf' = [pf EXCEPT !.cancel = TRUE]
    BY <2>1, <2>3
  <2>4. CASE pfRef /\ pf' = NoPrefetch
    BY <2>1, <2>4 DEF NoPrefetch
  <2> QED BY <1>1, <2>2, <2>3, <2>4 DEF Interject
<1>2. CASE /\ UNCHANGED <<items, generation, lpc, song, commitGen, prefetched, pfGen, stranded>>
           /\ UNCHANGED pf \/ pf' = [pf EXCEPT !.cancel = TRUE]
           /\ UNCHANGED voice \/ voice = "on"
  BY <1>2
<1>3. CASE Play(u) \/ Playlist(u) \/ PlayFront(u) \/ PlayNow(u) \/ CutIn(u)
  BY <1>2, <1>3 DEF Play, Playlist, PlayFront, PlayNow, CutIn, Enqueue, ResolveFirst
<1>4. CASE \E c \in BulkNames : Bulk(u, c)
  BY <1>2, <1>4 DEF Bulk
<1>5. CASE BulkCancelled(u) \/ Skip(u) \/ CutInTooLate(u) \/ InterjectCancelled(u)
  BY <1>2, <1>5 DEF BulkCancelled, Skip, CutInTooLate, InterjectCancelled
<1>6. CASE Finish(u) \/ Inserted(u)
  BY <1>2, <1>6 DEF Finish, Inserted
<1> QED BY <1>1, <1>3, <1>4, <1>5, <1>6 DEF UserStep

LEMMA OwnStepwise == LoopInv /\ OwnInv /\ [LoopNext]_vars => OwnInv'
<1> SUFFICES ASSUME LoopInv, OwnInv, [LoopNext]_vars PROVE OwnInv'
  OBVIOUS
<1>1. ASSUME UNCHANGED vars PROVE OwnInv'
  BY <1>1 DEF vars, OwnInv, VoiceOK, OwnSongOK, queueVars, memory, loopVars, taskVars, auxVars
<1> QED BY <1>1, LoopKeepsOwn, PrefetchKeepsOwn, QueueKeepsOwn, UserKeepsOwn DEF LoopNext, Caller

\* A commit settles by position, whatever is at the head: in any interleaving of users,
\* commands, faults and cancelled prefetches it takes off the queue the very song the
\* loop is about to play, unless one of the two known leaks stranded a claim before.
THEOREM CommitSettlesOwn == PlaybackSpec => SettlesOwnSong
<1>1. LoopInit => OwnInv
  BY DEF LoopInit, OwnInv, VoiceOK, OwnSongOK, NoPrefetch
<1>2. LoopInv /\ OwnInv /\ [LoopNext]_vars =>
        [CommitSong /\ voice' = "on" /\ stranded = 0 => Head(items).song = song.song]_vars
  <2>1. SUFFICES ASSUME LoopInv, OwnInv, CommitSong, voice' = "on", stranded = 0
                 PROVE  Head(items).song = song.song
    OBVIOUS
  <2>2. lpc = "commit" /\ voice = "off"
    BY <2>1 DEF CommitSong, OwnInv, VoiceOK
  <2>3. CommitOK(Loop)
    BY <2>1, <2>2 DEF CommitSong
  <2>4. cursor > 0 /\ commitGen = generation
    BY <2>1, <2>2, <2>3 DEF CommitOK, LoopInv, ClientInv, CallsOK, LoopCallOK
  <2>5. Head(items) = items[1]
    BY <2>1, <2>4, DequeFacts, EmptySeq DEF LoopInv
  <2> QED BY <2>1, <2>2, <2>4, <2>5 DEF OwnInv, OwnSongOK
<1> QED BY <1>1, <1>2, OwnStepwise, LoopInvariant, PTL DEF PlaybackSpec, SettlesOwnSong
-----------------------------------------------------------------------------
(* Types.                                                                   *)

\* What a consumer handed to the queue is what it has in hand.
ArgsOK ==
    /\ lpc \in {"commit", "retire"} => op[Loop].arg = <<song>>
    /\ pf.pc = "retiring" => op[Prefetch].arg = <<pf.item>>

\* The rest of what the loop, the commands and the history write.
RecordOK ==
    /\ lpc \in {"start", "announce", "playing", "join", "settle", "raise"} => song \in Item
    /\ skipFor \in MaybeItem
    /\ voice \in {"off", "on", "ended", "dead"}
    /\ budget \in 0 .. MaxCommands
    /\ history \in [Songs -> Nat]
    /\ heard \subseteq Songs /\ dropped \subseteq Songs
    /\ lost \subseteq Songs /\ doubled \subseteq Songs
    /\ leaked \in BOOLEAN

TypeInv == ArgsOK /\ RecordOK

LEMMA CallArg ==
    ASSUME QueueInv, NEW p \in Procs, NEW name, NEW arg, NEW gen, Call(p, name, arg, gen)
    PROVE  op'[p].arg = arg
BY LockFacts DEF Call

LEMMA ProceedArg ==
    ASSUME QueueInv, NEW p \in Procs, NEW todo, NEW result, Proceed(p, todo, result)
    PROVE  op'[p].arg = result
BY LockFacts DEF Proceed, Operation

LEMMA IssuedArg ==
    ASSUME QueueInv, NEW p \in Procs, NEW todo, Issued(p, todo)
    PROVE  op'[p].arg = op[p].arg
BY LockFacts DEF Issued, Operation

\* A song is what an item carries.
LEMMA SongOf ==
    ASSUME NEW i \in Item
    PROVE  i.song \in Songs
BY DEF Item

\* _flush_played() adds rows, never takes any.
LEMMA FlushType ==
    ASSUME NEW gone \in Seq(Item), history \in [Songs -> Nat], Flush(gone)
    PROVE  history' \in [Songs -> Nat]
<1> DEFINE hits(s) == {k \in DOMAIN gone : gone[k].song = s /\ gone[k].played}
<1>1. DOMAIN gone = 1 .. Len(gone) /\ Len(gone) \in Nat
  BY LenProperties
<1>2. IsFiniteSet(DOMAIN gone)
  BY <1>1, FS_Interval
<1>3. \A s \in Songs : Cardinality(hits(s)) \in Nat
  <2>1. \A s \in Songs : hits(s) \in SUBSET DOMAIN gone
    OBVIOUS
  <2> QED BY <1>2, <2>1, FS_Subset, FS_CardinalityType
<1>4. history' = [s \in Songs |-> history[s] + Cardinality(hits(s))]
  BY DEF Flush
<1> HIDE DEF hits
<1> QED BY <1>3, <1>4

LEMMA LoopKeepsTypes ==
    ASSUME LoopInv, TypeInv, LoopStep \/ SongRetired \/ SongEnds
    PROVE  TypeInv'
<1> USE Callers DEF LoopInv, ClientInv, ClientOK, InHandOK, TurnsOK, NoTask, CallsOK,
                    TaskCallOK, TypeInv, ArgsOK, RecordOK, MaybeItem, memory, store,
                    taskVars, userVars, auxVars, queueVars
<1>1. CASE PassGate \/ GateTimesOut \/ IdleOut \/ StartSong
  BY <1>1 DEF PassGate, GateTimesOut, IdleOut, StartSong
<1>2. CASE StartPrefetch
  BY <1>2 DEF StartPrefetch, NoPrefetch
<1>3. CASE SongOver \/ SongEnds
  BY <1>3, SongOf DEF SongOver, SongEnds
<1>4. CASE JoinPrefetch \/ SettleAlone
  <2>1. song \in Item /\ song.song \in Songs
    BY <1>4, SongOf DEF JoinPrefetch, SettleAlone
  <2>2. history' \in [Songs -> Nat]
    BY <1>4, <2>1 DEF JoinPrefetch, SettleAlone, Settle
  <2> QED BY <1>4, <2>2 DEF JoinPrefetch, SettleAlone, Settle, NoPrefetch
<1>5. CASE TakePrefetched
  <2>1. op'[Loop].arg = <<prefetched>> /\ Same(Loop)
    BY <1>5, CallArg, CallFacts DEF TakePrefetched
  <2> QED BY <1>5, <2>1 DEF TakePrefetched, Same
<1>6. CASE TakeFromQueue
  BY <1>6 DEF TakeFromQueue, Discard, Strand
<1>7. CASE WakeUp
  BY <1>7 DEF WakeUp
<1>8. CASE StreamSong
  <2>1. op'[Loop].arg = <<Resolved(song)>> /\ Same(Loop)
    BY <1>8, CallArg, CallFacts DEF StreamSong
  <2> QED BY <1>8, <2>1 DEF StreamSong, Same
<1>9. CASE StreamSongFails
  <2>1. op'[Loop].arg = <<song>> /\ Same(Loop)
    BY <1>9, CallArg, CallFacts DEF StreamSongFails
  <2> QED BY <1>9, <2>1 DEF StreamSongFails, Same
<1>10. CASE SongRetired
  <2>1. op[Loop].arg \in Seq(Item)
    BY DequeFacts
  <2>2. history' \in [Songs -> Nat]
    BY <1>10, <2>1, FlushType DEF SongRetired
  <2>3. Same(Loop)
    BY <1>10, ReturnFacts DEF SongRetired
  <2> QED BY <1>10, <2>2, <2>3 DEF SongRetired, Same
<1>11. CASE CommitSong
  <2>1. op'[Prefetch] = op[Prefetch]
    BY <1>11, LockFacts DEF CommitSong, EnterCommit
  <2> QED BY <1>11, <2>1 DEF CommitSong
<1>12. CASE LoopRaises
  BY <1>12, SongOf DEF LoopRaises
<1> QED BY <1>1, <1>2, <1>3, <1>4, <1>5, <1>6, <1>7, <1>8, <1>9, <1>10, <1>11, <1>12
        DEF LoopStep

LEMMA PrefetchKeepsTypes ==
    ASSUME LoopInv, TypeInv, PrefetchStep \/ PrefetchRetired
    PROVE  TypeInv'
<1> USE Callers DEF LoopInv, ClientInv, ClientOK, InHandOK, TurnsOK, NoTask, CallsOK,
                    TaskCallOK, LoopCallOK, TypeInv, ArgsOK, RecordOK, MaybeItem, memory, store,
                    loopVars, userVars, auxVars, queueVars, PrefetchUnchanged
<1>1. CASE PrefetchClaims
  <2>1. pf'.pc # "retiring"
    BY <1>1 DEF PrefetchClaims
  <2> QED BY <1>1, <2>1 DEF PrefetchClaims
<1>2. CASE PrefetchStreams
  <2>1. pf'.pc # "retiring"
    BY <1>2 DEF PrefetchStreams
  <2> QED BY <1>2, <2>1 DEF PrefetchStreams
<1>3. CASE PrefetchFails
  <2>1. op'[Prefetch].arg = <<pf.item>> /\ Same(Prefetch)
    BY <1>3, CallArg, CallFacts DEF PrefetchFails
  <2>2. pf'.item = pf.item
    BY <1>3 DEF PrefetchFails
  <2> QED BY <1>3, <2>1, <2>2 DEF PrefetchFails, Same
<1>4. CASE PrefetchRetired
  <2>1. op[Prefetch].arg \in Seq(Item)
    BY DequeFacts
  <2>2. history' \in [Songs -> Nat]
    BY <1>4, <2>1, FlushType DEF PrefetchRetired
  <2>3. Same(Prefetch) /\ pf'.pc # "retiring"
    BY <1>4, ReturnFacts DEF PrefetchRetired, NoPrefetch
  <2> QED BY <1>4, <2>2, <2>3 DEF PrefetchRetired, Same
<1>5. CASE PrefetchCancelled
  <2>1. pf'.pc # "retiring" /\ op'[Loop] = op[Loop]
    <3>1. CASE UNCHANGED op
      BY <1>5, <3>1 DEF PrefetchCancelled, NoPrefetch
    <3>2. CASE Abandon(Prefetch)
      BY <1>5, <3>2, AbandonFacts DEF PrefetchCancelled, NoPrefetch, Same
    <3> QED BY <1>5, <3>1, <3>2 DEF PrefetchCancelled
  <2>2. lost' \subseteq Songs
    BY <1>5, SongOf DEF PrefetchCancelled
  <2>3. leaked' \in BOOLEAN
    BY <1>5 DEF PrefetchCancelled, Strand
  <2> QED BY <1>5, <2>1, <2>2, <2>3 DEF PrefetchCancelled
<1> QED BY <1>1, <1>2, <1>3, <1>4, <1>5 DEF PrefetchStep

LEMMA QueueKeepsTypes ==
    ASSUME LoopInv, TypeInv, NEW p \in Procs, QueueStep(p)
    PROVE  TypeInv'
<1> USE Callers DEF LoopInv, ClientInv, ClientOK, InHandOK, CallsOK, LoopCallOK, TaskCallOK,
                    UserCallsOK, TypeInv
<1>1. UNCHANGED <<lpc, song, pf, skipFor, voice, budget, history, heard, lost>>
  BY DEF QueueStep, loopVars, taskVars, userVars
<1>2. ArgsOK'
  <2>1. CASE EnterMutation(p) \/ EnterClear(p)
    <3>1. op[p].name \notin {"commit", "finishFailed", "none"}
      BY <2>1 DEF EnterMutation, EnterPut, EnterPutFront, EnterClear, EnterShuffle, EnterRemove,
                  Holds
    <3>2. p # Loop \/ lpc \notin {"commit", "retire"}
      BY <3>1
    <3>3. p # Prefetch \/ pf.pc # "retiring"
      BY <3>1
    <3>4. Same(p)
      BY <2>1, ProceedFacts DEF EnterMutation, EnterPut, EnterPutFront, EnterClear, EnterShuffle,
                                EnterRemove
    <3> QED BY <1>1, <3>2, <3>3, <3>4 DEF ArgsOK, Same
  <2>2. CASE Write(p) \/ WriteFails(p)
    <3>1. Same(p) /\ op'[p].arg = op[p].arg
      BY <2>2, IssuedFacts, IssuedArg DEF Write, WriteFails
    <3> QED BY <1>1, <3>1 DEF ArgsOK, Same
  <2>3. CASE EnterFinishFailed(p)
    <3>1. Same(p) /\ op'[p].arg = op[p].arg
      BY <2>3, ProceedFacts, ProceedArg DEF EnterFinishFailed
    <3> QED BY <1>1, <3>1 DEF ArgsOK, Same
  <2> QED BY <2>1, <2>2, <2>3 DEF QueueStep
<1>3. dropped' \subseteq Songs
  <2>1. \A k \in DOMAIN items : items[k].song \in Songs
    BY DequeFacts, SongOf
  <2> QED BY <2>1 DEF QueueStep, RecordOK
<1>4. doubled' \subseteq Songs
  <2>1. CASE EnterFinishFailed(p)
    <3>1. op[p].name = "finishFailed"
      BY <2>1 DEF EnterFinishFailed, Holds
    <3>2. \/ p = Loop /\ lpc = "retire"
          \/ p = Prefetch /\ pf.pc = "retiring"
      BY <3>1 DEF Idle
    <3>3. Head(op[p].arg) \in Item
      BY <3>2 DEF ArgsOK
    <3>4. Head(op[p].arg).song \in Songs
      BY <3>3, SongOf
    <3>5. doubled' \subseteq doubled \cup {Head(op[p].arg).song}
      BY <2>1 DEF QueueStep
    <3> QED BY <3>4, <3>5 DEF RecordOK
  <2> QED BY <2>1 DEF QueueStep, RecordOK
<1>5. leaked' = leaked
  BY DEF QueueStep
<1> QED BY <1>1, <1>2, <1>3, <1>4, <1>5 DEF RecordOK

LEMMA UserKeepsTypes ==
    ASSUME LoopInv, TypeInv, NEW u \in Users, UserStep(u) \/ Finish(u) \/ Inserted(u)
    PROVE  TypeInv'
<1> USE Callers DEF LoopInv, ClientInv, ClientOK, InHandOK, TypeInv, memory, loopVars, taskVars,
                    auxVars, queueVars
<1>1. op'[Loop] = op[Loop] /\ op'[Prefetch] = op[Prefetch]
  <2>1. CASE UNCHANGED op
    BY <2>1
  <2>2. ASSUME NEW name, NEW arg, NEW gen, Call(u, name, arg, gen)
        PROVE  op'[Loop] = op[Loop] /\ op'[Prefetch] = op[Prefetch]
    BY <2>2, CallFacts DEF Same
  <2>3. CASE Return(u)
    BY <2>3, ReturnFacts DEF Same
  <2>4. ASSUME NEW q, NEW target, Insert(u, q, target) \/ FallBack(u, q)
        PROVE  op'[Loop] = op[Loop] /\ op'[Prefetch] = op[Prefetch]
    BY <2>2, <2>4 DEF Insert, FallBack
  <2>5. ASSUME NEW c, NEW name, NEW n, Enqueue(u, c, name, n)
        PROVE  op'[Loop] = op[Loop] /\ op'[Prefetch] = op[Prefetch]
    BY <2>2, <2>5 DEF Enqueue
  <2>6. CASE Finish(u) \/ Inserted(u)
    BY <2>3, <2>6 DEF Finish, Inserted
  <2>7. CASE Play(u) \/ Playlist(u) \/ PlayFront(u)
    BY <2>5, <2>7 DEF Play, Playlist, PlayFront
  <2>8. CASE PlayNow(u) \/ CutIn(u) \/ Skip(u)
    BY <2>1, <2>5, <2>8 DEF PlayNow, CutIn, ResolveFirst, Skip
  <2>9. CASE (\E c \in BulkNames : Bulk(u, c)) \/ BulkCancelled(u) \/ CutInTooLate(u)
    BY <2>1, <2>2, <2>9 DEF Bulk, BulkCancelled, CutInTooLate
  <2>10. CASE Interject(u) \/ InterjectCancelled(u)
    BY <2>1, <2>4, <2>10 DEF Interject, InterjectCancelled
  <2> QED BY <2>6, <2>7, <2>8, <2>9, <2>10 DEF UserStep
<1>2. UNCHANGED <<lpc, song, heard, dropped, leaked>>
  BY DEF UserStep, Play, Playlist, PlayFront, PlayNow, CutIn, Enqueue, ResolveFirst, Bulk,
         BulkCancelled, Skip, CutInTooLate, Interject, InterjectCancelled, Finish, Inserted
<1>3. pf'.pc = "retiring" => pf.pc = "retiring" /\ pf'.item = pf.item
  <2>1. CASE Interject(u)
    BY <2>1 DEF Interject, NoPrefetch
  <2>2. UNCHANGED pf \/ pf' = [pf EXCEPT !.cancel = TRUE] \/ Interject(u)
    BY DEF UserStep, Play, Playlist, PlayFront, PlayNow, CutIn, Enqueue, ResolveFirst, Bulk,
           BulkCancelled, Skip, CutInTooLate, InterjectCancelled, Finish, Inserted
  <2> QED BY <2>1, <2>2
<1>4. ArgsOK'
  BY <1>1, <1>2, <1>3 DEF ArgsOK
<1>5. history' \in [Songs -> Nat]
  <2>1. CASE Finish(u)
    <3>1. op[u].arg \in Seq(Item)
      BY DequeFacts
    <3> QED BY <2>1, <3>1, FlushType DEF Finish, RecordOK
  <2>2. Finish(u) \/ UNCHANGED history
    BY DEF UserStep, Play, Playlist, PlayFront, PlayNow, CutIn, Enqueue, ResolveFirst, Bulk,
           BulkCancelled, Skip, CutInTooLate, Interject, InterjectCancelled, Inserted
  <2> QED BY <2>1, <2>2 DEF RecordOK
<1>6. budget' \in 0 .. MaxCommands
  <2>1. budget' = budget \/ (budget > 0 /\ budget' = budget - 1)
    BY DEF UserStep, Play, Playlist, PlayFront, PlayNow, CutIn, Enqueue, ResolveFirst, Bulk, Begin,
           BulkCancelled, Skip, CutInTooLate, Interject, InterjectCancelled, Finish, Inserted,
           userVars
  <2> QED BY <2>1, LoopAssumption DEF RecordOK
<1>7. voice' \in {"off", "on", "ended", "dead"}
  BY DEF UserStep, Play, Playlist, PlayFront, PlayNow, CutIn, Enqueue, ResolveFirst, Bulk, RecordOK,
         BulkCancelled, Skip, CutInTooLate, Interject, InterjectCancelled, Finish, Inserted
<1>8. skipFor' \in MaybeItem /\ lost' \subseteq Songs /\ doubled' \subseteq Songs
  <2>1. ASSUME NEW q, NEW target \in Item, Insert(u, q, target)
        PROVE  skipFor' \in MaybeItem /\ lost' \subseteq Songs /\ doubled' \subseteq Songs
    BY <2>1, SongOf DEF Insert, RecordOK, MaybeItem
  <2>2. CASE Interject(u)
    <3>1. current # NoItem => current \in Item
      BY DEF MaybeItem
    <3>2. CASE UNCHANGED <<skipFor, doubled, lost>>
      BY <3>2 DEF RecordOK
    <3>3. CASE current # NoItem /\ Insert(u, user[u].item, current)
      BY <2>1, <3>1, <3>3
    <3> QED BY <2>2, <3>2, <3>3 DEF Interject, FallBack
  <2>3. CASE InterjectCancelled(u)
    <3>1. user[u].target \in Item
      BY <2>3 DEF InterjectCancelled
    <3>2. CASE UNCHANGED <<skipFor, doubled, lost>>
      BY <3>2 DEF RecordOK
    <3>3. CASE Insert(u, user[u].item, user[u].target)
      BY <2>1, <3>1, <3>3
    <3> QED BY <2>3, <3>2, <3>3 DEF InterjectCancelled, FallBack
  <2>4. Interject(u) \/ InterjectCancelled(u) \/ UNCHANGED <<skipFor, doubled, lost>>
    BY DEF UserStep, Play, Playlist, PlayFront, PlayNow, CutIn, Enqueue, ResolveFirst, Bulk,
           BulkCancelled, Skip, CutInTooLate, Finish, Inserted
  <2> QED BY <2>2, <2>3, <2>4 DEF RecordOK
<1> QED BY <1>2, <1>4, <1>5, <1>6, <1>7, <1>8 DEF RecordOK

LEMMA TypesStepwise == LoopInv /\ TypeInv /\ [LoopNext]_vars => TypeInv'
<1> SUFFICES ASSUME LoopInv, TypeInv, [LoopNext]_vars PROVE TypeInv'
  OBVIOUS
<1>1. ASSUME UNCHANGED vars PROVE TypeInv'
  BY <1>1 DEF vars, TypeInv, ArgsOK, RecordOK, queueVars, loopVars, taskVars, userVars, auxVars
<1> QED BY <1>1, LoopKeepsTypes, PrefetchKeepsTypes, QueueKeepsTypes, UserKeepsTypes
        DEF LoopNext, Caller

LEMMA TypesInitially == LoopInit => TypeInv
<1> SUFFICES ASSUME LoopInit PROVE TypeInv
  OBVIOUS
<1>1. lpc = "gate" /\ voice = "off" /\ skipFor = NoItem /\ leaked = FALSE
  BY DEF LoopInit
<1>2. heard = {} /\ dropped = {} /\ lost = {} /\ doubled \subseteq Songs
  BY DEF LoopInit
<1>3. budget \in 0 .. MaxCommands
  BY LoopAssumption DEF LoopInit, LoopAssumption
<1>4. history \in [Songs -> Nat]
  <2> history = [s \in Songs |-> 0]
    BY DEF LoopInit
  <2> QED OBVIOUS
<1>5. pf.pc = "none"
  BY DEF LoopInit, NoPrefetch
<1> QED BY <1>1, <1>2, <1>3, <1>4, <1>5 DEF TypeInv, ArgsOK, RecordOK, MaybeItem

\* The player's variables and the queue's, the list in Redis and the commands still to
\* be sent to it keep to the values the Python attributes can hold, whatever fails.
THEOREM PlaybackTypeCorrect == PlaybackSpec => []TypeOK
<1>1. LoopInv /\ TypeInv /\ StoreOK => TypeOK
  <2>1. SUFFICES ASSUME LoopInv, TypeInv, StoreOK PROVE TypeOK
    OBVIOUS
  <2>2. /\ QueueTypeOK
        /\ mirror \in Seq(Item) /\ owed \in Seq(Item) /\ degraded \in BOOLEAN
    BY <2>1 DEF LoopInv, QueueInv, StoreOK
  <2>3. /\ lpc \in LoopPoints
        /\ {song, prefetched, current, skipFor} \subseteq Item \cup {NoItem}
        /\ voice \in {"off", "on", "ended", "dead"}
    BY <2>1 DEF LoopInv, ClientInv, ClientOK, TypeInv, RecordOK, MaybeItem
  <2>4. pf.pc \in TaskPoints /\ pf.item \in MaybeItem /\ pf.cancel \in BOOLEAN
    BY <2>1 DEF LoopInv, ClientInv, ClientOK
  <2>5. \A u \in Users : /\ user[u].cmd \in CommandNames \cup {"none"}
                         /\ user[u].pc \in {"idle", "resolving", "queueing", "cancelling",
                                          "inserting"}
    BY <2>1 DEF LoopInv, ClientInv, ClientOK, UserCommand
  <2>6. /\ pfRef \in BOOLEAN /\ arriving \in Seq(Songs)
        /\ commitGen \in Nat /\ pfGen \in Nat /\ stranded \in Nat
    BY <2>1 DEF LoopInv, ClientInv, ClientOK
  <2>7. /\ budget \in 0 .. MaxCommands /\ history \in [Songs -> Nat] /\ leaked \in BOOLEAN
        /\ heard \cup dropped \cup lost \cup doubled \subseteq Songs
    BY <2>1 DEF TypeInv, RecordOK
  <2> QED BY <2>2, <2>3, <2>4, <2>5, <2>6, <2>7 DEF TypeOK, LoopPoints, TaskPoints, MaybeItem
<1>2. PlaybackSpec => []StoreOK
  BY PlaybackKeepsContract, StoreTypeCorrect, PTL DEF QueueContract
<1> QED BY <1>1, <1>2, TypesInitially, TypesStepwise, LoopInvariant, PTL DEF PlaybackSpec
-----------------------------------------------------------------------------
PutNames == {"put", "putBatch", "putFront"}

\* What a command is about to queue: whole plays nobody has queued yet, and tails of
\* plays that have been.
Waits(u) == \/ user[u].pc = "resolving"
            \/ user[u].pc = "cancelling" /\ user[u].cmd \in {"cutin", "playnow"}
Putting(u) == op[u].name \in PutNames /\ op[u].phase = "lock"
Whole(s) == {s[k].song : k \in {j \in DOMAIN s : s[j].frag = 0}}
Tails(s) == {s[k].song : k \in {j \in DOMAIN s : s[j].frag # 0}}
Coming(u) == (IF Waits(u) THEN {user[u].item.song} ELSE {})
             \cup (IF Putting(u) THEN Whole(op[u].arg) ELSE {})

\* The songs in T are all that were ever queued.
KnownIn(T) ==
    /\ dropped \subseteq T
    /\ \A k \in DOMAIN items : items[k].song \in T
    /\ song # NoItem => song.song \in T
    /\ prefetched # NoItem => prefetched.song \in T
    /\ current # NoItem => current.song \in T
    /\ pf.item # NoItem => pf.item.song \in T
    /\ \A u \in Users : user[u].target # NoItem => user[u].target.song \in T
    /\ \A u \in Users : Putting(u) => Tails(op[u].arg) \subseteq T

\* A song somebody is resolving, or holds back for a cancelled prefetch, is whole and in
\* no call yet.
WaitsOK == \A u \in Users : /\ Waits(u) => user[u].item.frag = 0
                            /\ Waits(u) \/ user[u].pc = "idle" => op[u] = Idle

\* Nobody queues a song twice.
NewOK(T) ==
    /\ KnownIn(T)
    /\ \A j, k \in DOMAIN arriving : arriving[j] = arriving[k] => j = k
    /\ \A k \in DOMAIN arriving : arriving[k] \notin T
    /\ \A u \in Users : Coming(u) \cap T = {}
    /\ \A u \in Users, k \in DOMAIN arriving : arriving[k] \notin Coming(u)
    /\ \A u, v \in Users : u # v => Coming(u) \cap Coming(v) = {}
    /\ WaitsOK

\* What has been dropped is neither in the deque in one piece nor live in a claim.
Kept(i, gone) == i.frag = 0 => i.song \notin gone
KeptOK ==
    /\ \A k \in DOMAIN items : Kept(items[k], dropped)
    /\ lpc \in {"resolve", "commit"} /\ commitGen = generation => Kept(song, dropped)
    /\ prefetched # NoItem /\ pfGen = generation => Kept(prefetched, dropped)
    /\ pf.item # NoItem /\ pfGen = generation => Kept(pf.item, dropped)

DropInv == KeptOK /\ \E T \in SUBSET Songs : NewOK(T)

\* What a step leaves of the songs on their way, when it brings none.
LEMMA NoneArrive ==
    ASSUME NEW T, NewOK(T), KnownIn(T)', UNCHANGED arriving,
           \A u \in Users : Coming(u)' \subseteq Coming(u),
           WaitsOK'
    PROVE  NewOK(T)'
BY DEF NewOK

LEMMA SomeArrive ==
    ASSUME NEW T, NewOK(T), KnownIn(T)', ClientOK, NEW u \in Users, NEW n \in Nat, Arrive(n),
           Coming(u)' \subseteq {arriving[k] : k \in 1 .. n},
           \A v \in Users : v # u => Coming(v)' \subseteq Coming(v),
           WaitsOK'
    PROVE  NewOK(T)'
<1> DEFINE m == Len(arriving)
<1>1. m \in Nat /\ n <= m /\ DOMAIN arriving = 1 .. m
  BY LenProperties DEF ClientOK, Arrive
<1>2. DOMAIN arriving' = 1 .. m - n /\ \A k \in 1 .. m - n : arriving'[k] = arriving[n + k]
  <2>1. \A k \in n + 1 .. m : arriving[k] \in Songs
    BY <1>1, ElementOfSeq DEF ClientOK
  <2>2. arriving' = SubSeq(arriving, n + 1, m)
    BY DEF Arrive
  <2>3. /\ Len(SubSeq(arriving, n + 1, m)) = m - n
        /\ SubSeq(arriving, n + 1, m) \in Seq(Songs)
        /\ \A k \in 1 .. m - n : SubSeq(arriving, n + 1, m)[k] = arriving[n + k]
    <3> HIDE DEF m
    <3> QED BY <1>1, <2>1, SubSeqProperties DEF ClientOK
  <2> HIDE DEF m
  <2> QED BY <2>2, <2>3, LenProperties
<1>3. \A k \in DOMAIN arriving' : n + k \in DOMAIN arriving /\ arriving'[k] = arriving[n + k]
  BY <1>1, <1>2
<1>4. \A k \in 1 .. n : k \in DOMAIN arriving
  BY <1>1
<1>5. \A j \in 1 .. n, k \in DOMAIN arriving' : arriving[j] # arriving'[k]
  <2>1. SUFFICES ASSUME NEW j \in 1 .. n, NEW k \in DOMAIN arriving'
                 PROVE  arriving[j] # arriving'[k]
    OBVIOUS
  <2>2. k \in 1 .. m - n
    BY <1>2
  <2>3. j # n + k
    BY <2>2, <1>1
  <2> QED BY <1>3, <1>4, <2>3 DEF NewOK
<1>6. \A j, k \in DOMAIN arriving' : arriving'[j] = arriving'[k] => j = k
  <2>1. \A j, k \in DOMAIN arriving' : arriving'[j] = arriving'[k] => n + j = n + k
    BY <1>3 DEF NewOK
  <2> QED BY <1>1, <1>2, <2>1
<1>7. \A k \in DOMAIN arriving' : arriving'[k] \notin T
  BY <1>3 DEF NewOK
<1>8. \A v \in Users : Coming(v)' \cap T = {}
  BY <1>4 DEF NewOK
<1>9. \A v \in Users, k \in DOMAIN arriving' : arriving'[k] \notin Coming(v)'
  BY <1>3, <1>5 DEF NewOK
<1>10. \A v, w \in Users : v # w => Coming(v)' \cap Coming(w)' = {}
  BY <1>4 DEF NewOK
<1> QED BY <1>6, <1>7, <1>8, <1>9, <1>10 DEF NewOK

LEMMA SomeEnter ==
    ASSUME NEW T, NEW U, NewOK(T), NEW u \in Users, U = T \cup Coming(u), KnownIn(U)',
           UNCHANGED arriving, Coming(u)' = {},
           \A v \in Users : v # u => Coming(v)' \subseteq Coming(v),
           WaitsOK'
    PROVE  NewOK(U)'
BY DEF NewOK

\* Nothing a command is about to queue changes.
LEMMA SameComing ==
    ASSUME NEW u \in Users, user'[u] = user[u], op'[u] = op[u]
    PROVE  /\ Coming(u)' = Coming(u) /\ Waits(u)' = Waits(u)
           /\ Putting(u)' = Putting(u)
BY DEF Coming, Waits, Putting

LEMMA UsersAside ==
    ASSUME NEW T, NewOK(T), UNCHANGED <<user, arriving>>,
           \A u \in Users : op'[u] = op[u],
           dropped' \subseteq T,
           \A k \in DOMAIN items' : items'[k].song \in T,
           song' # NoItem => song'.song \in T,
           prefetched' # NoItem => prefetched'.song \in T,
           current' # NoItem => current'.song \in T,
           pf'.item # NoItem => pf'.item.song \in T
    PROVE  NewOK(T)'
<1>1. \A u \in Users : /\ Coming(u)' = Coming(u) /\ Waits(u)' = Waits(u)
                       /\ Putting(u)' = Putting(u)
  BY SameComing
<1>2. KnownIn(T)'
  BY <1>1 DEF KnownIn, NewOK
<1>3. WaitsOK'
  BY <1>1 DEF WaitsOK, NewOK
<1> QED BY <1>1, <1>2, <1>3, NoneArrive DEF NewOK

LEMMA ResolvedFrag ==
    ASSUME NEW i \in Item
    PROVE  Resolved(i) \in Item /\ Resolved(i).song = i.song /\ Resolved(i).frag = i.frag
BY MadeItems DEF Resolved, Item

\* The item the consumers are next to claim.
LEMMA ClaimedKept ==
    ASSUME LoopInv, KeptOK, NEW T, KnownIn(T), ~Empty
    PROVE  /\ items[cursor + 1] \in Item /\ items[cursor + 1].song \in T
           /\ Kept(items[cursor + 1], dropped)
BY PendingItem, DequeFacts DEF LoopInv, KnownIn, KeptOK, Empty

LEMMA LoopKeepsDropped ==
    ASSUME LoopInv, KeptOK, NEW T, NewOK(T), LoopStep \/ SongRetired \/ SongEnds
    PROVE  KeptOK' /\ NewOK(T)'
<1> USE Callers, Numbers
    DEF LoopInv, ClientInv, ClientOK, InHandOK, TurnsOK, NoTask, StaleOK, MaybeItem,
        PrefetchRuns, memory, store, taskVars, auxVars, queueVars, userVars
<1>1. UNCHANGED <<user, arriving, dropped, generation, pfGen>> /\ \A u \in Users : op'[u] = op[u]
  <2>1. UNCHANGED op \/ (\E n, a, g : Call(Loop, n, a, g)) \/ Return(Loop) \/ EnterCommit(Loop)
    BY DEF LoopStep, PassGate, GateTimesOut, TakePrefetched, TakeFromQueue, WakeUp, IdleOut,
           StreamSong, StreamSongFails, CommitSong, StartSong, StartPrefetch, SongOver,
           JoinPrefetch, SettleAlone, Settle, LoopRaises, SongRetired, SongEnds, PopOwed, ForfeitOwed
  <2>2. \A u \in Users : op'[u] = op[u]
    BY <2>1, CallFacts, ReturnFacts, LockFacts DEF Same, EnterCommit
  <2>3. UNCHANGED <<user, arriving, dropped, generation, pfGen>>
    BY DEF LoopStep, PassGate, GateTimesOut, TakePrefetched, TakeFromQueue, WakeUp, IdleOut,
           StreamSong, StreamSongFails, CommitSong, StartSong, StartPrefetch, SongOver,
           JoinPrefetch, SettleAlone, Settle, LoopRaises, SongRetired, SongEnds, EnterCommit
  <2> QED BY <2>2, <2>3
<1>2. (\A k \in DOMAIN items' : \E j \in DOMAIN items : items'[k] = items[j]) 
  <2>1. CASE UNCHANGED items
    BY <2>1
  <2>2. CASE CommitSong /\ Release /\ cursor > 0
    <3>1. Len(items) \in Nat /\ DOMAIN items = 1 .. Len(items) /\ items # <<>> /\ items \in Seq(Item)
      BY <2>2, DequeFacts, EmptySeq
    <3>2. \A k \in DOMAIN Tail(items) : k + 1 \in DOMAIN items /\ Tail(items)[k] = items[k + 1]
      BY <3>1, HeadTailProperties, LenProperties
    <3> QED BY <2>2, <3>2 DEF Release
  <2>3. UNCHANGED items \/ (CommitSong /\ Release /\ cursor > 0)
    BY DEF LoopStep, PassGate, GateTimesOut, TakePrefetched, TakeFromQueue, WakeUp, IdleOut, Claim,
           StreamSong, StreamSongFails, CommitSong, StartSong, StartPrefetch, SongOver, CommitOK,
           JoinPrefetch, SettleAlone, Settle, LoopRaises, SongRetired, SongEnds, EnterCommit
  <2> QED BY <2>1, <2>2, <2>3
<1>3. KnownIn(T)
  BY DEF NewOK
<1>4. /\ song' \in {NoItem, song, prefetched} 
         \/ (~Empty /\ song' = items[cursor + 1])
         \/ (lpc = "resolve" /\ song' = Resolved(song))
      /\ prefetched' \in {NoItem, prefetched, pf.item}
      /\ current' \in {NoItem, current, prefetched} \/ (lpc = "resolve" /\ current' = Resolved(song))
      /\ pf'.item \in {NoItem, pf.item}
  BY DEF LoopStep, PassGate, GateTimesOut, TakePrefetched, TakeFromQueue, WakeUp, IdleOut, Claim,
           StreamSong, StreamSongFails, CommitSong, StartSong, StartPrefetch, SongOver, Discard,
           JoinPrefetch, SettleAlone, Settle, LoopRaises, SongRetired, SongEnds, NoPrefetch
<1>5. lpc = "resolve" => Resolved(song).song = song.song
  BY ResolvedFrag
<1>6. ~Empty => items[cursor + 1].song \in T
  BY <1>3, ClaimedKept
<1>7. NewOK(T)'
  <2>1. song' # NoItem => song'.song \in T
    BY <1>3, <1>4, <1>5, <1>6 DEF KnownIn
  <2>2. prefetched' # NoItem => prefetched'.song \in T
    BY <1>3, <1>4 DEF KnownIn
  <2>3. current' # NoItem => current'.song \in T
    BY <1>3, <1>4, <1>5 DEF KnownIn
  <2>4. pf'.item # NoItem => pf'.item.song \in T
    BY <1>3, <1>4 DEF KnownIn
  <2>5. \A k \in DOMAIN items' : items'[k].song \in T
    BY <1>2, <1>3 DEF KnownIn
  <2>6. dropped' \subseteq T
    BY <1>1, <1>3 DEF KnownIn
  <2> QED BY <1>1, <2>1, <2>2, <2>3, <2>4, <2>5, <2>6, UsersAside
<1>8. dropped' = dropped
  BY <1>1
<1>9. \A k \in DOMAIN items' : Kept(items'[k], dropped')
  BY <1>2, <1>8 DEF KeptOK
<1>10. lpc' \in {"resolve", "commit"} /\ commitGen' = generation' => Kept(song', dropped')
  <2>1. CASE TakePrefetched
    BY <1>8, <2>1 DEF KeptOK, TakePrefetched
  <2>2. CASE TakeFromQueue \/ WakeUp
    BY <1>8, <2>2, ClaimedKept, <1>3 DEF TakeFromQueue, WakeUp, Claim
  <2>3. CASE StreamSong
    <3>1. Kept(Resolved(song), dropped) <=> Kept(song, dropped)
      BY <2>3, ResolvedFrag DEF StreamSong, Kept
    <3> QED BY <1>8, <2>3, <3>1 DEF KeptOK, StreamSong
  <2>4. (lpc' = lpc /\ UNCHANGED <<song, commitGen>>) \/ lpc' \notin {"resolve", "commit"}
        \/ TakePrefetched \/ TakeFromQueue \/ WakeUp \/ StreamSong
    BY DEF LoopStep, PassGate, GateTimesOut, IdleOut,
           StreamSongFails, CommitSong, StartSong, StartPrefetch, SongOver,
           JoinPrefetch, SettleAlone, Settle, LoopRaises, SongRetired, SongEnds
  <2> QED BY <1>1, <1>8, <2>1, <2>2, <2>3, <2>4 DEF KeptOK
<1>11. prefetched' # NoItem /\ pfGen' = generation' => Kept(prefetched', dropped')
  BY <1>1, <1>4, <1>8 DEF KeptOK
<1>12. pf'.item # NoItem /\ pfGen' = generation' => Kept(pf'.item, dropped')
  BY <1>1, <1>4, <1>8 DEF KeptOK
<1> QED BY <1>7, <1>9, <1>10, <1>11, <1>12 DEF KeptOK

\* A prefetch whose claim a clear has voided gives nothing back.
LEMMA StaleGivesNothing ==
    ASSUME LoopInv, pf.item # NoItem, pf.pc \in {"streaming", "done"}, pfGen # generation,
           pfRef \/ pf.cancel
    PROVE  cursor = 0
BY Numbers DEF LoopInv, ClientInv, ClientOK, TurnsOK, NoTask, StaleOK, ClaimsAccounted,
               LiveClaims, LoopHoldsClaim, PrefetchHoldsClaim, PrefetchRuns, NoPrefetch

\* What a prefetch gives back is what it claimed, searched for or resolved.
LEMMA GiveBackKept ==
    ASSUME LoopInv, KeptOK, NEW T, KnownIn(T), pf.item \in Item,
           pf.pc \in {"streaming", "done"}, pfRef \/ pf.cancel,
           NEW form \in {pf.item, Resolved(pf.item)}, GiveBack(form)
    PROVE  \A k \in DOMAIN items' : items'[k].song \in T /\ Kept(items'[k], dropped)
<1> USE Callers
<1>1. form.song = pf.item.song /\ form.frag = pf.item.frag
  BY ResolvedFrag
<1>2. CASE cursor = 0
  BY <1>2 DEF GiveBack, KeptOK, KnownIn
<1>3. CASE cursor # 0
  <2>1. cursor > 0 /\ items' = [items EXCEPT ![cursor] = form]
    BY <1>3, Numbers DEF GiveBack, LoopInv
  <2>2. form.song \in T /\ Kept(form, dropped)
    BY <1>1, <1>3, StaleGivesNothing DEF KnownIn, KeptOK, Kept
  <2>3. \A k \in DOMAIN items' : k \in DOMAIN items /\ (items'[k] = form \/ items'[k] = items[k])
    BY <2>1
  <2> QED BY <2>2, <2>3 DEF KeptOK, KnownIn
<1> QED BY <1>2, <1>3

LEMMA PrefetchKeepsDropped ==
    ASSUME LoopInv, KeptOK, NEW T, NewOK(T), PrefetchStep \/ PrefetchRetired
    PROVE  KeptOK' /\ NewOK(T)'
<1> USE Callers, Numbers
    DEF LoopInv, ClientInv, ClientOK, InHandOK, TurnsOK, NoTask, StaleOK, MaybeItem,
        PrefetchRuns, memory, store, loopVars, auxVars, queueVars, userVars, PrefetchUnchanged
<1>1. /\ UNCHANGED <<user, arriving, dropped, generation, lpc, song, commitGen, prefetched, current>>
      /\ \A u \in Users : op'[u] = op[u]
  <2>1. UNCHANGED op \/ (\E n, a, g : Call(Prefetch, n, a, g)) \/ Return(Prefetch) \/ Abandon(Prefetch)
    BY DEF PrefetchStep, PrefetchClaims, PrefetchStreams, PrefetchFails, PrefetchCancelled,
           PrefetchRetired
  <2>2. \A u \in Users : op'[u] = op[u]
    BY <2>1, CallFacts, ReturnFacts, AbandonFacts DEF Same
  <2>3. UNCHANGED <<user, arriving, dropped, generation, lpc, song, commitGen, prefetched, current>>
    BY DEF PrefetchStep, PrefetchClaims, PrefetchStreams, PrefetchFails, PrefetchCancelled,
           PrefetchRetired
  <2> QED BY <2>2, <2>3
<1>2. KnownIn(T)
  BY DEF NewOK
<1>3. \A k \in DOMAIN items' : items'[k].song \in T /\ Kept(items'[k], dropped)
  <2>1. CASE UNCHANGED items
    BY <1>2, <2>1 DEF KnownIn, KeptOK
  <2>2. CASE /\ pf.cancel /\ pf.pc = "streaming"
             /\ \E form \in {pf.item, Resolved(pf.item)} : GiveBack(form)
    BY <1>2, <2>2, GiveBackKept
  <2>3. \/ UNCHANGED items
        \/ /\ pf.cancel /\ pf.pc = "streaming"
           /\ \E form \in {pf.item, Resolved(pf.item)} : GiveBack(form)
    BY DEF PrefetchStep, PrefetchClaims, PrefetchStreams, PrefetchFails, PrefetchCancelled,
           PrefetchRetired, Claim, Abandon
  <2> QED BY <2>1, <2>2, <2>3
<1>4. /\ pf'.item # NoItem => pf'.item.song \in T
      /\ pf'.item # NoItem /\ pfGen' = generation => Kept(pf'.item, dropped)
  <2>1. CASE PrefetchClaims /\ ~Empty
    <3> DEFINE it == items[cursor + 1]
    <3>1. it.song \in T /\ Kept(it, dropped)
      BY <1>2, <2>1, ClaimedKept
    <3>2. pf' = [pf EXCEPT !.pc = "streaming", !.item = it]
      BY <2>1 DEF PrefetchClaims
    <3> HIDE DEF it
    <3>3. pf'.item = it
      BY <3>2
    <3> QED BY <3>1, <3>3
  <2>2. CASE PrefetchClaims /\ Empty
    <3>1. pf'.item = pf.item /\ pfGen' = pfGen
      BY <2>2 DEF PrefetchClaims
    <3> QED BY <1>2, <3>1 DEF KnownIn, KeptOK
  <2>3. CASE PrefetchStreams
    <3> DEFINE it == Resolved(pf.item)
    <3>1. pf.item \in Item /\ it.song = pf.item.song /\ it.frag = pf.item.frag
      BY <2>3, ResolvedFrag DEF PrefetchStreams
    <3>2. pf' = [pf EXCEPT !.pc = "done", !.item = it] /\ pfGen' = pfGen
      BY <2>3 DEF PrefetchStreams
    <3> HIDE DEF it
    <3>3. pf'.item = it
      BY <3>2
    <3> QED BY <1>2, <3>1, <3>2, <3>3 DEF KnownIn, KeptOK, Kept
  <2>4. CASE PrefetchFails
    <3>1. pf'.item = pf.item /\ pfGen' = pfGen
      BY <2>4 DEF PrefetchFails
    <3> QED BY <1>2, <3>1 DEF KnownIn, KeptOK
  <2>5. CASE PrefetchRetired \/ PrefetchCancelled
    <3>1. pf'.item = NoItem
      BY <2>5 DEF PrefetchRetired, PrefetchCancelled, NoPrefetch
    <3> QED BY <3>1
  <2> QED BY <2>1, <2>2, <2>3, <2>4, <2>5 DEF PrefetchStep
<1>5. prefetched # NoItem => UNCHANGED pfGen
  BY DEF PrefetchStep, PrefetchClaims, PrefetchStreams, PrefetchFails, PrefetchCancelled,
         PrefetchRetired, NoPrefetch
<1>6. NewOK(T)'
  BY <1>1, <1>2, <1>3, <1>4, UsersAside DEF KnownIn
<1>7. KeptOK'
  BY <1>1, <1>3, <1>4, <1>5 DEF KeptOK
<1> QED BY <1>6, <1>7
-----------------------------------------------------------------------------
\* Whatever holds of every item, queued and being queued, holds of what a mutation leaves.
LEMMA MutationTakes ==
    ASSUME QueueInv, NEW T, NEW p \in Procs, EnterMutation(p), items \in Seq(T),
           EnterPut(p) \/ EnterPutFront(p) => op[p].arg \in Seq(T)
    PROVE  items' \in Seq(T)
<1>1. Len(items) \in Nat /\ DOMAIN items = 1 .. Len(items) /\ cursor \in 0 .. Len(items)
  BY DequeFacts
<1>2. \A k \in 1 .. Len(items) : items[k] \in T
  BY ElementOfSeq
<1>3. CASE EnterPut(p)
  BY <1>3, ConcatProperties DEF EnterPut
<1>4. CASE EnterPutFront(p)
  <2> DEFINE arg == op[p].arg
             head == SubSeq(items, 1, cursor)
             rest == SubSeq(items, cursor + 1, Len(items))
  <2>1. arg \in Seq(T)
    BY <1>4
  <2>2. head \in Seq(T)
    BY <1>1, <1>2, SubSeqProperties
  <2>3. rest \in Seq(T)
    BY <1>1, <1>2, SubSeqProperties
  <2>4. items' = (head \o arg) \o rest
    BY <1>4 DEF EnterPutFront, Claimed
  <2> HIDE DEF arg, head, rest
  <2> DEFINE left == head \o arg
  <2>5. left \in Seq(T)
    BY <2>1, <2>2, ConcatProperties
  <2>6. items' = left \o rest
    BY <2>4
  <2> HIDE DEF left
  <2> QED BY <2>3, <2>5, <2>6, ConcatProperties
<1>5. CASE EnterShuffle(p)
  <2>1. CASE items' = items
    BY <2>1
  <2>2. CASE items' # items
    <3>1. PICK pi \in Bijection(Pending, Pending) :
             items' = [k \in DOMAIN items |->
                         IF k \in Pending THEN items[pi[k]] ELSE items[k]]
      BY <1>5, <2>2 DEF EnterShuffle
    <3>2. pi \in [Pending -> Pending] /\ Pending \subseteq 1 .. Len(items)
      BY DequeFacts DEF Bijection, Injection, Pending
    <3>3. items' \in [1 .. Len(items) -> T]
      BY <1>1, <1>2, <3>1, <3>2
    <3> QED BY <1>1, <3>3, SeqDef
  <2> QED BY <2>1, <2>2
<1>6. CASE EnterRemove(p)
  <2>1. PICK gone \in SUBSET Pending : items' = items \/ items' = At(items, DOMAIN items \ gone)
    BY <1>6 DEF EnterRemove
  <2>2. At(items, DOMAIN items \ gone) \in Seq(T)
    BY AtType
  <2>3. CASE items' = items
    BY <2>3
  <2>4. CASE items' = At(items, DOMAIN items \ gone)
    BY <2>2, <2>4
  <2> QED BY <2>1, <2>3, <2>4
<1> QED BY <1>3, <1>4, <1>5, <1>6 DEF EnterMutation

\* Only users mutate the queue.
LEMMA MutatorIsUser ==
    ASSUME LoopInv, WaitsOK, NEW p \in Procs, EnterMutation(p) \/ EnterClear(p)
    PROVE  /\ p \in Users /\ ~Waits(p) /\ user[p].pc # "idle"
           /\ Same(p) /\ ~Putting(p)'
           /\ Putting(p) <=> EnterPut(p) \/ EnterPutFront(p)
<1>1. op[p].name \notin {"commit", "finishFailed", "none"}
  BY DEF EnterMutation, EnterPut, EnterPutFront, EnterClear, EnterShuffle, EnterRemove, Holds
<1>2. p \in Users
  BY <1>1, Callers DEF LoopInv, ClientInv, CallsOK, LoopCallOK, TaskCallOK, Idle
<1>3. Same(p) /\ op'[p].phase \in {"store", "done"}
  BY ProceedFacts DEF EnterMutation, EnterPut, EnterPutFront, EnterClear, EnterShuffle,
                      EnterRemove, LoopInv
<1>4. ~Waits(p) /\ user[p].pc # "idle"
  BY <1>1, <1>2 DEF WaitsOK, Waits, Idle
<1>5. Putting(p) <=> EnterPut(p) \/ EnterPutFront(p)
  BY DEF EnterMutation, EnterPut, EnterPutFront, EnterClear, EnterShuffle, EnterRemove, Holds,
         Putting, PutNames
<1> QED BY <1>2, <1>3, <1>4, <1>5 DEF Putting

LEMMA QueueKeepsDropped ==
    ASSUME LoopInv, KeptOK, NEW T \in SUBSET Songs, NewOK(T), NEW p \in Procs, QueueStep(p)
    PROVE  KeptOK' /\ \E U \in SUBSET Songs : NewOK(U)'
<1> USE Callers, Numbers
    DEF LoopInv, ClientInv, ClientOK, StaleOK
<1>1. UNCHANGED <<user, arriving, lpc, song, commitGen, prefetched, current, pf, pfGen>>
  BY DEF QueueStep, loopVars, taskVars, userVars
<1>2. KnownIn(T) /\ WaitsOK
  BY DEF NewOK
<1>3. CASE EnterMutation(p) /\ UNCHANGED dropped
  <2> DEFINE U == T \cup Coming(p)
             Good == {i \in Item : i.song \in U /\ Kept(i, dropped)}
  <2>1. p \in Users /\ ~Waits(p) /\ user[p].pc # "idle" /\ Same(p) /\ ~Putting(p)'
    BY <1>2, <1>3, MutatorIsUser
  <2>2. Coming(p)' = {} /\ \A u \in Users : u # p => Coming(u)' = Coming(u) /\ Putting(u)' = Putting(u)
    BY <1>1, <2>1, SameComing DEF Coming, Waits, Same
  <2>3. WaitsOK'
    BY <1>1, <1>2, <2>1 DEF WaitsOK, Waits, Same
  <2>4. items \in Seq(Good)
    <3>1. \A k \in 1 .. Len(items) : items[k] \in Good
      BY <1>2, DequeFacts DEF KnownIn, KeptOK
    <3> HIDE DEF Good
    <3> QED BY <3>1, DequeFacts, SeqDef
  <2>5. Putting(p) => op[p].arg \in Seq(Good)
    <3>1. SUFFICES ASSUME Putting(p) PROVE op[p].arg \in Seq(Good)
      OBVIOUS
    <3> DEFINE arg == op[p].arg
    <3>2. arg \in Seq(Item) /\ DOMAIN arg = 1 .. Len(arg) /\ Len(arg) \in Nat
      BY DequeFacts, LenProperties
    <3>3. Whole(arg) \subseteq Coming(p) /\ Tails(arg) \subseteq T
      BY <1>2, <2>1, <3>1 DEF Coming, KnownIn
    <3>4. Coming(p) \cap dropped = {}
      BY <1>2, <2>1 DEF NewOK, KnownIn
    <3>5. \A k \in 1 .. Len(arg) : arg[k] \in Good
      <4>1. SUFFICES ASSUME NEW k \in 1 .. Len(arg) PROVE arg[k] \in Good
        OBVIOUS
      <4>2. arg[k] \in Item /\ k \in DOMAIN arg
        BY <3>2, ElementOfSeq
      <4>3. CASE arg[k].frag = 0
        <5>1. arg[k].song \in Whole(arg)
          BY <4>2, <4>3 DEF Whole
        <5> QED BY <3>3, <3>4, <4>2, <5>1 DEF Kept
      <4>4. CASE arg[k].frag # 0
        <5>1. arg[k].song \in Tails(arg)
          BY <4>2, <4>4 DEF Tails
        <5> QED BY <3>3, <4>2, <4>4, <5>1 DEF Kept
      <4> QED BY <4>3, <4>4
    <3> HIDE DEF Good, arg
    <3>6. arg \in Seq(Good)
      BY <3>2, <3>5, SeqDef
    <3> QED BY <3>6 DEF arg
  <2>6. items' \in Seq(Good)
    <3> HIDE DEF Good
    <3> QED BY <1>2, <1>3, <2>4, <2>5, MutationTakes, MutatorIsUser
  <2>7. \A k \in DOMAIN items' : items'[k].song \in U /\ Kept(items'[k], dropped)
    <3>1. \A k \in DOMAIN items' : items'[k] \in Good
      <4> HIDE DEF Good
      <4> QED BY <2>6, ElementOfSeq, LenProperties
    <3> QED BY <3>1
  <2>8. \E V \in SUBSET Songs : NewOK(V)'
    <3> HIDE DEF Good
    <3>1. \A u \in Users : Putting(u)' => Tails(op'[u].arg) \subseteq U
      BY <1>2, <2>1, <2>2 DEF KnownIn, Same
    <3>2. T \subseteq U
      OBVIOUS
    <3>3. PICK V : V = U
      OBVIOUS
    <3> HIDE DEF U
    <3>4. T \subseteq V /\ \A u \in Users : Putting(u)' => Tails(op'[u].arg) \subseteq V
      BY <3>1, <3>2, <3>3
    <3>5. \A k \in DOMAIN items' : items'[k].song \in V
      BY <2>7, <3>3
    <3>6. dropped' \subseteq V
      BY <1>2, <1>3, <3>4 DEF KnownIn
    <3>7. \A u \in Users : user'[u].target # NoItem => user'[u].target.song \in V
      BY <1>1, <1>2, <3>4 DEF KnownIn
    <3>8. /\ song' # NoItem => song'.song \in V
          /\ prefetched' # NoItem => prefetched'.song \in V
          /\ current' # NoItem => current'.song \in V
          /\ pf'.item # NoItem => pf'.item.song \in V
      BY <1>1, <1>2, <3>4 DEF KnownIn
    <3>9. KnownIn(V)'
      BY <3>4, <3>5, <3>6, <3>7, <3>8 DEF KnownIn
    <3>10. NewOK(V)'
      BY <1>1, <2>1, <2>2, <2>3, <3>3, <3>9, SomeEnter DEF U
    <3>11. V \subseteq Songs
      <4>1. Coming(p) \subseteq Songs
        <5>1. op[p].arg \in Seq(Item)
          BY DequeFacts
        <5>2. \A k \in DOMAIN op[p].arg : op[p].arg[k].song \in Songs
          BY <5>1, ElementOfSeq, LenProperties, SongOf
        <5> QED BY <2>1, <5>2 DEF Coming, Whole
      <4> QED BY <3>3, <4>1 DEF U
    <3> QED BY <3>10, <3>11
  <2>9. KeptOK'
    BY <1>1, <1>3, <2>7 DEF KeptOK, EnterMutation, EnterPut, EnterPutFront, EnterShuffle, EnterRemove
  <2> QED BY <2>8, <2>9
<1>4. CASE EnterClear(p)
  <2>1. p \in Users /\ ~Waits(p) /\ user[p].pc # "idle" /\ Same(p) /\ ~Putting(p)' /\ ~Putting(p)
    BY <1>2, <1>4, MutatorIsUser DEF EnterClear, Putting, PutNames, Holds
  <2>2. \A u \in Users : Coming(u)' = Coming(u) /\ (Putting(u)' => Putting(u) /\ op'[u] = op[u])
    BY <1>1, <2>1, SameComing DEF Coming, Waits, Same
  <2>3. WaitsOK'
    BY <1>1, <1>2, <2>1 DEF WaitsOK, Waits, Same
  <2>4. items' = <<>> /\ DOMAIN items' = {} /\ generation' = generation + 1
    BY <1>4 DEF EnterClear
  <2>5. dropped' \subseteq T
    BY <1>2, <1>4 DEF QueueStep, KnownIn, EnterMutation, EnterPut, EnterPutFront, EnterShuffle,
                      EnterRemove, EnterFinishFailed, EnterClear, Holds, Write, WriteFails
  <2>6. KnownIn(T)'
    BY <1>1, <1>2, <2>2, <2>4, <2>5 DEF KnownIn
  <2>7. NewOK(T)'
    BY <1>1, <2>2, <2>3, <2>6, NoneArrive
  <2>8. KeptOK'
    BY <1>1, <2>4 DEF KeptOK
  <2> QED BY <2>7, <2>8
<1>5. CASE UNCHANGED dropped /\ (EnterFinishFailed(p) \/ Write(p) \/ WriteFails(p))
  <2>1. Same(p) /\ ~Putting(p)' /\ ~Putting(p) /\ op[p] # Idle
    <3>1. CASE EnterFinishFailed(p)
      <4>1. PICK todo, result : Proceed(p, todo, result)
        BY <3>1 DEF EnterFinishFailed
      <4> QED BY <3>1, <4>1, ProceedFacts DEF EnterFinishFailed, Holds, Putting, PutNames, Idle
    <3>2. CASE Write(p) \/ WriteFails(p)
      <4>1. op[p].phase = "store" /\ \E todo : Issued(p, todo)
        BY <3>2 DEF Write, WriteFails
      <4> QED BY <4>1, IssuedFacts DEF Putting, Idle
    <3> QED BY <1>5, <3>1, <3>2
  <2>2. p \in Users => ~Waits(p) /\ user[p].pc # "idle"
    BY <1>2, <2>1 DEF WaitsOK, Waits
  <2>3. \A u \in Users : Coming(u)' = Coming(u) /\ (Putting(u)' => Putting(u) /\ op'[u] = op[u])
    BY <1>1, <2>1, <2>2, SameComing DEF Coming, Waits, Same
  <2>4. WaitsOK'
    BY <1>1, <1>2, <2>1, <2>2 DEF WaitsOK, Waits, Same
  <2>5. \A k \in DOMAIN items' : \E j \in DOMAIN items : items'[k] = items[j]
    <3>1. CASE UNCHANGED items
      BY <3>1
    <3>2. CASE Release /\ cursor # 0
      <4>1. Len(items) \in Nat /\ DOMAIN items = 1 .. Len(items) /\ items # <<>> /\ items \in Seq(Item)
        BY <3>2, DequeFacts, EmptySeq
      <4>2. \A k \in DOMAIN Tail(items) : k + 1 \in DOMAIN items /\ Tail(items)[k] = items[k + 1]
        BY <4>1, HeadTailProperties, LenProperties
      <4> QED BY <3>2, <4>2 DEF Release
    <3> QED BY <1>5, <3>1, <3>2 DEF EnterFinishFailed, Write, WriteFails, memory
  <2>6. generation' = generation
    BY <1>5 DEF EnterFinishFailed, Write, WriteFails, memory
  <2>7. \A k \in DOMAIN items' : items'[k].song \in T /\ Kept(items'[k], dropped)
    BY <1>2, <2>5 DEF KnownIn, KeptOK
  <2>8. KnownIn(T)'
    BY <1>1, <1>2, <1>5, <2>3, <2>7 DEF KnownIn
  <2>9. NewOK(T)'
    BY <1>1, <2>3, <2>4, <2>8, NoneArrive
  <2>10. KeptOK'
    BY <1>1, <1>5, <2>6, <2>7 DEF KeptOK
  <2> QED BY <2>9, <2>10
<1> QED BY <1>3, <1>4, <1>5 DEF QueueStep

\* What a command leaves alone.
LEMMA UserAround ==
    ASSUME LoopInv, KeptOK, NEW T, NewOK(T), NEW u \in Users,
           UserStep(u) \/ Finish(u) \/ Inserted(u)
    PROVE  /\ UNCHANGED <<dropped, lpc, song, commitGen, prefetched, current, generation, pfGen>>
           /\ pf'.item \in {NoItem, pf.item}
           /\ \A k \in DOMAIN items' : items'[k].song \in T /\ Kept(items'[k], dropped)
           /\ \A v \in Users : v # u => op'[v] = op[v] /\ user'[v] = user[v]
<1> USE Callers DEF LoopInv, ClientInv, ClientOK, memory, loopVars, taskVars, auxVars, userVars, queueVars
<1>1. /\ UNCHANGED <<dropped, lpc, song, commitGen, prefetched, current, generation, pfGen>>
      /\ pf'.item \in {NoItem, pf.item}
  <2>1. CASE Interject(u)
    <3>1. UNCHANGED pf \/ pf' = [pf EXCEPT !.cancel = TRUE] \/ pf' = NoPrefetch
      BY <2>1 DEF Interject
    <3>2. pf'.item \in {NoItem, pf.item}
      BY <3>1 DEF NoPrefetch
    <3> QED BY <2>1, <3>2 DEF Interject
  <2>2. CASE \E c \in BulkNames : Bulk(u, c)
    BY <2>2 DEF Bulk
  <2> QED BY <2>1, <2>2 DEF UserStep, Play, Playlist, PlayFront, PlayNow, CutIn, Enqueue, ResolveFirst,
         BulkCancelled, Skip, CutInTooLate, InterjectCancelled, Finish, Inserted
<1>2. \A v \in Users : v # u => op'[v] = op[v]
  <2>1. CASE UNCHANGED op
    BY <2>1
  <2>2. ASSUME NEW name, NEW arg, NEW gen, Call(u, name, arg, gen)
        PROVE  \A v \in Users : v # u => op'[v] = op[v]
    BY <2>2, CallFacts DEF Same
  <2>3. CASE Return(u)
    BY <2>3, ReturnFacts DEF Same
  <2>4. ASSUME NEW q, NEW target, Insert(u, q, target) \/ FallBack(u, q)
        PROVE  \A v \in Users : v # u => op'[v] = op[v]
    BY <2>2, <2>4 DEF Insert, FallBack
  <2>5. ASSUME NEW c, NEW name, NEW n, Enqueue(u, c, name, n)
        PROVE  \A v \in Users : v # u => op'[v] = op[v]
    BY <2>2, <2>5 DEF Enqueue
  <2>6. CASE Finish(u) \/ Inserted(u)
    BY <2>3, <2>6 DEF Finish, Inserted
  <2>7. CASE Play(u) \/ Playlist(u) \/ PlayFront(u)
    BY <2>5, <2>7 DEF Play, Playlist, PlayFront
  <2>8. CASE PlayNow(u) \/ CutIn(u) \/ Skip(u)
    BY <2>1, <2>5, <2>8 DEF PlayNow, CutIn, ResolveFirst, Skip
  <2>9. CASE (\E c \in BulkNames : Bulk(u, c)) \/ BulkCancelled(u) \/ CutInTooLate(u)
    BY <2>1, <2>2, <2>9 DEF Bulk, BulkCancelled, CutInTooLate
  <2>10. CASE Interject(u) \/ InterjectCancelled(u)
    BY <2>1, <2>4, <2>10 DEF Interject, InterjectCancelled
  <2> QED BY <2>6, <2>7, <2>8, <2>9, <2>10 DEF UserStep
<1>3. \A v \in Users : v # u => user'[v] = user[v]
  BY DEF UserStep, Play, Playlist, PlayFront, PlayNow, CutIn, Enqueue, ResolveFirst, Bulk, Busy,
         BulkCancelled, Skip, CutInTooLate, Interject, InterjectCancelled, Finish, Inserted,
         Insert, FallBack
<1>4. KnownIn(T)
  BY DEF NewOK
<1>5. \A k \in DOMAIN items' : items'[k].song \in T /\ Kept(items'[k], dropped)
  <2>1. CASE UNCHANGED items
    BY <1>4, <2>1 DEF KnownIn, KeptOK
  <2>2. CASE pfRef /\ ~PrefetchRuns /\ pf.item # NoItem /\ GiveBack(pf.item)
    <3>1. pf.item \in Item /\ pf.pc \in {"streaming", "done"}
      BY <2>2 DEF PrefetchRuns, InHandOK, TaskPoints, MaybeItem
    <3> QED BY <1>4, <2>2, <3>1, GiveBackKept
  <2>3. UNCHANGED items \/ (pfRef /\ ~PrefetchRuns /\ pf.item # NoItem /\ GiveBack(pf.item))
    BY DEF UserStep, Play, Playlist, PlayFront, PlayNow, CutIn, Enqueue, ResolveFirst, Bulk, Busy,
         BulkCancelled, Skip, CutInTooLate, Interject, InterjectCancelled, Finish, Inserted
  <2> QED BY <2>1, <2>2, <2>3
<1> QED BY <1>1, <1>2, <1>3, <1>5

\* What a command has to show for itself.
LEMMA UserLeaves ==
    ASSUME LoopInv, KeptOK, NEW T, NewOK(T), NEW u \in Users,
           UserStep(u) \/ Finish(u) \/ Inserted(u),
           user'[u].target # NoItem => user'[u].target.song \in T,
           Putting(u)' => Tails(op'[u].arg) \subseteq T,
           Waits(u)' => user'[u].item.frag = 0,
           Waits(u)' \/ user'[u].pc = "idle" => op'[u] = Idle,
           \/ UNCHANGED arriving /\ Coming(u)' \subseteq Coming(u)
           \/ \E n \in Nat : Arrive(n) /\ Coming(u)' \subseteq {arriving[k] : k \in 1 .. n}
    PROVE  KeptOK' /\ NewOK(T)'
<1>1. /\ UNCHANGED <<dropped, lpc, song, commitGen, prefetched, current, generation, pfGen>>
      /\ pf'.item \in {NoItem, pf.item}
      /\ \A k \in DOMAIN items' : items'[k].song \in T /\ Kept(items'[k], dropped)
      /\ \A v \in Users : v # u => op'[v] = op[v] /\ user'[v] = user[v]
  BY UserAround
<1>2. KeptOK'
  BY <1>1 DEF KeptOK
<1>3. \A v \in Users : v # u => /\ Coming(v)' = Coming(v) /\ Waits(v)' = Waits(v)
                                /\ Putting(v)' = Putting(v)
  BY <1>1, SameComing
<1>4. WaitsOK'
  BY <1>1, <1>3 DEF WaitsOK, NewOK
<1>5. KnownIn(T)'
  BY <1>1, <1>3 DEF KnownIn, NewOK
<1>6. CASE UNCHANGED arriving /\ Coming(u)' \subseteq Coming(u)
  <2>1. \A v \in Users : Coming(v)' \subseteq Coming(v)
    BY <1>3, <1>6
  <2> QED BY <1>2, <1>4, <1>5, <1>6, <2>1, NoneArrive
<1>7. CASE \E n \in Nat : Arrive(n) /\ Coming(u)' \subseteq {arriving[k] : k \in 1 .. n}
  <2>1. PICK n \in Nat : Arrive(n) /\ Coming(u)' \subseteq {arriving[k] : k \in 1 .. n}
    BY <1>7
  <2>2. \A v \in Users : v # u => Coming(v)' \subseteq Coming(v)
    BY <1>3
  <2>3. ClientOK
    BY DEF LoopInv, ClientInv
  <2> QED BY <1>2, <1>4, <1>5, <2>1, <2>2, <2>3, SomeArrive
<1> QED BY <1>2, <1>6, <1>7

\* One song, whole.
LEMMA OnePut ==
    ASSUME NEW i, i.frag = 0
    PROVE  Whole(<<i>>) = {i.song} /\ Tails(<<i>>) = {}
<1>1. DOMAIN <<i>> = {1} /\ <<i>>[1] = i
  OBVIOUS
<1> QED BY <1>1 DEF Whole, Tails

\* One song, whole, in front of the tail of another.
LEMMA TwoPut ==
    ASSUME NEW i, NEW j, i.frag = 0, j.frag # 0
    PROVE  Whole(<<i, j>>) = {i.song} /\ Tails(<<i, j>>) = {j.song}
<1>1. DOMAIN <<i, j>> = {1, 2} /\ <<i, j>>[1] = i /\ <<i, j>>[2] = j
  OBVIOUS
<1> QED BY <1>1 DEF Whole, Tails

LEMMA ParkedTail ==
    ASSUME NEW i \in Item
    PROVE  Parked(i).song = i.song /\ Parked(i).frag # 0
<1> DEFINE heardNow == i.played \/ ~NotStarted
           whole == [i EXCEPT !.form = "song"]
           cut == [whole EXCEPT !.frag = i.frag + 1]
<1>1. Parked(i) = [cut EXCEPT !.played = heardNow]
  BY DEF Parked, Item
<1>2. whole \in Item /\ whole.song = i.song
  BY DEF Item, Forms
<1>3. i.frag \in Nat
  BY DEF Item
<1> HIDE DEF whole, heardNow
<1>4. cut.song = i.song /\ cut.frag = i.frag + 1 /\ DOMAIN cut = {"song", "form", "frag", "played"}
  BY <1>2 DEF Item
<1> HIDE DEF cut
<1> QED BY <1>1, <1>3, <1>4

\* Songs as users queue them.
LEMMA FreshPut ==
    ASSUME ClientOK, NEW n \in 1 .. 2, Len(arriving) >= n,
           NEW arg, arg = [k \in 1 .. n |-> Fresh(arriving[k])]
    PROVE  Whole(arg) = {arriving[k] : k \in 1 .. n} /\ Tails(arg) = {}
<1>1. DOMAIN arg = 1 .. n
  OBVIOUS
<1>2. \A k \in 1 .. n : arg[k].song = arriving[k] /\ arg[k].frag = 0
  BY DEF Fresh
<1> QED BY <1>1, <1>2 DEF Whole, Tails

LEMMA EnqueueKeepsDropped ==
    ASSUME LoopInv, KeptOK, NEW T, NewOK(T), NEW u \in Users, UserStep(u),
           NEW c, NEW name \in PutNames, NEW n \in 1 .. 2, Enqueue(u, c, name, n)
    PROVE  KeptOK' /\ NewOK(T)'
<1> USE Callers DEF LoopInv, ClientInv
<1> DEFINE arg == [k \in 1 .. n |-> Fresh(arriving[k])]
<1>1. Whole(arg) = {arriving[k] : k \in 1 .. n} /\ Tails(arg) = {}
  BY FreshPut DEF Enqueue, Arrive
<1>2. Call(u, name, arg, 0) /\ Arrive(n)
  BY DEF Enqueue
<1> HIDE DEF arg
<1>3. op'[u].arg = arg
  BY <1>2, CallArg
<1>4. user'[u].pc = "queueing" /\ user'[u].target = NoItem
  BY DEF Enqueue, Busy, NoCommand, ClientOK
<1>5. ~Waits(u)'
  BY <1>4 DEF Waits
<1>6. Coming(u)' \subseteq {arriving[k] : k \in 1 .. n}
  BY <1>1, <1>3, <1>5 DEF Coming
<1>7. Tails(op'[u].arg) \subseteq T
  BY <1>1, <1>3
<1>8. n \in Nat
  OBVIOUS
<1> QED BY <1>2, <1>4, <1>5, <1>6, <1>7, <1>8, UserLeaves

\* A call that queues the song in hand, alone or in front of the current one's tail.
LEMMA InHandKeepsDropped ==
    ASSUME LoopInv, KeptOK, NEW T, NewOK(T), NEW u \in Users, UserStep(u),
           Waits(u), NEW name \in PutNames, UNCHANGED arriving,
           user'[u].pc \in {"queueing", "inserting"},
           user'[u].target # NoItem => user'[u].target.song \in T,
           \/ Call(u, name, <<user[u].item>>, 0)
           \/ \E i \in Item : i.song \in T /\ Call(u, name, <<user[u].item, Parked(i)>>, 0)
    PROVE  KeptOK' /\ NewOK(T)'
<1> USE Callers DEF LoopInv, ClientInv
<1> DEFINE q == user[u].item
<1>1. q.frag = 0 /\ q.song \in Coming(u)
  BY DEF NewOK, WaitsOK, Coming
<1>2. ~Waits(u)'
  BY DEF Waits
<1>3. Whole(op'[u].arg) \subseteq {q.song} /\ Tails(op'[u].arg) \subseteq T
  <2> HIDE DEF q
  <2>1. CASE Call(u, name, <<q>>, 0)
    BY <1>1, <2>1, CallArg, OnePut
  <2>2. CASE \E i \in Item : i.song \in T /\ Call(u, name, <<q, Parked(i)>>, 0)
    <3>1. PICK i \in Item : i.song \in T /\ Call(u, name, <<q, Parked(i)>>, 0)
      BY <2>2
    <3>2. op'[u].arg = <<q, Parked(i)>>
      BY <3>1, CallArg
    <3> QED BY <1>1, <3>1, <3>2, TwoPut, ParkedTail
  <2> QED BY <2>1, <2>2 DEF q
<1>4. Coming(u)' \subseteq Coming(u)
  BY <1>1, <1>2, <1>3 DEF Coming
<1> QED BY <1>2, <1>3, <1>4, UserLeaves

\* A call that queues nothing.
LEMMA OtherCallKeepsDropped ==
    ASSUME LoopInv, KeptOK, NEW T, NewOK(T), NEW u \in Users, UserStep(u) \/ Finish(u) \/ Inserted(u),
           ~Putting(u)', ~Waits(u)', user'[u].pc = "idle" => op'[u] = Idle,
           UNCHANGED arriving, user'[u].target # NoItem => user'[u].target.song \in T
    PROVE  KeptOK' /\ NewOK(T)'
<1>1. Coming(u)' = {}
  BY DEF Coming
<1> QED BY <1>1, UserLeaves

LEMMA UserKeepsDropped ==
    ASSUME LoopInv, KeptOK, NEW T, NewOK(T), NEW u \in Users,
           UserStep(u) \/ Finish(u) \/ Inserted(u)
    PROVE  KeptOK' /\ NewOK(T)'
<1> USE Callers DEF LoopInv, ClientInv, ClientOK
<1>1. /\ user[u] \in UserCommand /\ DOMAIN user = Users /\ WaitsOK /\ KnownIn(T)
      /\ user[u].target # NoItem => user[u].target.song \in T
  BY DEF NewOK, KnownIn
<1>2. CASE Play(u) \/ Playlist(u) \/ PlayFront(u)
  BY <1>2, EnqueueKeepsDropped DEF Play, Playlist, PlayFront, PutNames, UserStep
<1>3. ASSUME NEW c, ResolveFirst(u, c), UserStep(u)
      PROVE  KeptOK' /\ NewOK(T)'
  <2> DEFINE it == Resolved(Fresh(Head(arriving)))
  <2>1. user[u] = NoCommand /\ Arrive(1) /\ UNCHANGED op
    BY <1>3 DEF ResolveFirst, Begin, queueVars
  <2>2. op[u] = Idle
    BY <1>1, <2>1 DEF WaitsOK, NoCommand
  <2>3. Head(arriving) = arriving[1] /\ arriving[1] \in Songs
    <3>1. Len(arriving) >= 1 /\ Len(arriving) \in Nat /\ arriving # <<>>
      BY <2>1, LenProperties, EmptySeq DEF Arrive
    <3> QED BY <3>1, ElementOfSeq, HeadTailProperties
  <2>4. it.song = arriving[1] /\ it.frag = 0
    <3>1. Fresh(arriving[1]) \in Item /\ Fresh(arriving[1]).song = arriving[1]
          /\ Fresh(arriving[1]).frag = 0
      BY <2>3, FreshItem DEF Fresh
    <3> QED BY <2>3, <3>1, ResolvedFrag
  <2>5. user' = [user EXCEPT ![u] = [NoCommand EXCEPT !.cmd = c, !.pc = "resolving", !.item = it]]
    BY <1>3 DEF ResolveFirst
  <2> HIDE DEF it
  <2>6. user'[u].item = it /\ user'[u].target = NoItem /\ user'[u].pc = "resolving"
    BY <1>1, <2>5 DEF NoCommand
  <2>7. ~Putting(u)' /\ Coming(u)' \subseteq {arriving[k] : k \in 1 .. 1}
    BY <2>1, <2>2, <2>4, <2>6 DEF Coming, Putting, PutNames, Idle
  <2> QED BY <1>3, <2>1, <2>2, <2>4, <2>6, <2>7, UserLeaves
<1>4. CASE PlayNow(u) \/ CutIn(u)
  <2>1. ASSUME NEW name, name \in {"put", "putFront"}, Enqueue(u, "playnow", name, 1), UserStep(u)
        PROVE  KeptOK' /\ NewOK(T)'
    BY <2>1, EnqueueKeepsDropped DEF PutNames
  <2> QED BY <1>3, <1>4, <2>1 DEF PlayNow, CutIn, UserStep
<1>5. ASSUME NEW c \in BulkNames, Bulk(u, c), UserStep(u)
      PROVE  KeptOK' /\ NewOK(T)'
  <2>1. user[u] = NoCommand /\ UNCHANGED arriving
    BY <1>5 DEF Bulk, Begin
  <2>2. op[u] = Idle
    BY <1>1, <2>1 DEF WaitsOK, NoCommand
  <2>3. /\ user'[u].target = NoItem /\ user'[u].cmd = c
        /\ user'[u].pc \in {"cancelling", "queueing"}
    BY <1>1, <1>5 DEF Bulk, Busy, NoCommand
  <2>4. ~Waits(u)'
    BY <2>3 DEF Waits, BulkNames
  <2>5. ~Putting(u)'
    <3>1. CASE UNCHANGED op
      BY <2>2, <3>1 DEF Putting, PutNames, Idle
    <3>2. CASE Call(u, c, <<>>, 0)
      BY <3>2, CallFacts DEF Putting, PutNames, BulkNames
    <3> QED BY <1>5, <3>1, <3>2 DEF Bulk
  <2> QED BY <1>5, <2>1, <2>3, <2>4, <2>5, OtherCallKeepsDropped
<1>6. CASE BulkCancelled(u)
  <2>1. /\ user'[u].target = user[u].target /\ user'[u].pc = "queueing" /\ UNCHANGED arriving
    BY <1>1, <1>6 DEF BulkCancelled, UserCommand
  <2>2. ~Putting(u)'
    BY <1>6, CallFacts DEF BulkCancelled, Putting, PutNames, BulkNames
  <2> QED BY <1>1, <1>6, <2>1, <2>2, OtherCallKeepsDropped DEF UserStep, Waits
<1>7. CASE Skip(u)
  <2>1. UNCHANGED <<user, op, arriving>>
    BY <1>7 DEF Skip, Begin, queueVars
  <2>2. Coming(u)' = Coming(u) /\ Waits(u)' = Waits(u) /\ Putting(u)' = Putting(u)
    BY <2>1, SameComing
  <2>3. Putting(u) => Tails(op[u].arg) \subseteq T
    BY <1>1 DEF KnownIn
  <2> QED BY <1>1, <1>7, <2>1, <2>2, <2>3, UserLeaves DEF UserStep, WaitsOK
<1>8. CASE CutInTooLate(u)
  <2>1. Waits(u) /\ user'[u].pc = "queueing" /\ user'[u].target = NoItem /\ UNCHANGED arriving
    BY <1>1, <1>8 DEF CutInTooLate, Busy, NoCommand, Waits
  <2> QED BY <1>8, <2>1, InHandKeepsDropped DEF CutInTooLate, UserStep, PutNames
<1>9. ASSUME FallBack(u, user[u].item), Waits(u), UNCHANGED arriving, UserStep(u)
      PROVE  KeptOK' /\ NewOK(T)'
  <2>1. user'[u].pc = "queueing" /\ user'[u].target = NoItem
    BY <1>1, <1>9 DEF FallBack, Busy, NoCommand
  <2> QED BY <1>9, <2>1, InHandKeepsDropped DEF FallBack, PutNames
<1>10. ASSUME NEW i \in Item, i.song \in T, Insert(u, user[u].item, i), Waits(u),
              UNCHANGED arriving, UserStep(u)
       PROVE  KeptOK' /\ NewOK(T)'
  <2>1. user'[u].pc = "inserting" /\ user'[u].target = i
    BY <1>1, <1>10 DEF Insert, UserCommand
  <2>2. \/ Call(u, "putFront", <<user[u].item>>, 0)
        \/ Call(u, "putFront", <<user[u].item, Parked(i)>>, 0)
    BY <1>10 DEF Insert
  <2> QED BY <1>10, <2>1, <2>2, InHandKeepsDropped DEF PutNames
<1>11. CASE Interject(u)
  <2>1. Waits(u) /\ UNCHANGED arriving
    BY <1>11 DEF Interject, Waits
  <2>2. current # NoItem => current \in Item /\ current.song \in T
    BY <1>1 DEF KnownIn, MaybeItem
  <2>3. CASE /\ current # NoItem /\ UNCHANGED op
             /\ user' = [user EXCEPT ![u].pc = "cancelling", ![u].target = current]
    <3>1. /\ user'[u].target = current /\ user'[u].item = user[u].item /\ user'[u].pc = "cancelling"
      BY <1>1, <2>3 DEF UserCommand
    <3>2. op[u] = Idle /\ user[u].item.frag = 0
      BY <1>1, <2>1 DEF WaitsOK
    <3>3. ~Putting(u)' /\ Coming(u)' \subseteq Coming(u)
      BY <2>1, <2>3, <3>1, <3>2 DEF Coming, Putting, PutNames, Idle
    <3> QED BY <1>11, <2>1, <2>2, <2>3, <3>1, <3>2, <3>3, UserLeaves DEF UserStep
  <2> QED BY <1>9, <1>10, <1>11, <2>1, <2>2, <2>3 DEF Interject, UserStep
<1>12. CASE InterjectCancelled(u)
  <2>1. Waits(u) /\ UNCHANGED arriving
    BY <1>12 DEF InterjectCancelled, Waits
  <2>2. user[u].target \in Item /\ user[u].target.song \in T
    BY <1>1, <1>12 DEF InterjectCancelled, InHandOK
  <2> QED BY <1>9, <1>10, <1>12, <2>1, <2>2 DEF InterjectCancelled, UserStep
<1>13. CASE Finish(u) \/ Inserted(u)
  <2>1. op'[u] = Idle
    BY <1>13, ReturnFacts DEF Finish, Inserted
  <2>2. user'[u].pc = "idle" /\ user'[u].target = NoItem
    BY <1>1, <1>13 DEF Finish, Inserted, NoCommand
  <2>3. ~Putting(u)' /\ ~Waits(u)' /\ UNCHANGED arriving
    BY <1>13, <2>1, <2>2 DEF Finish, Inserted, Putting, PutNames, Waits, Idle
  <2> QED BY <1>13, <2>1, <2>2, <2>3, OtherCallKeepsDropped
<1> QED BY <1>2, <1>4, <1>5, <1>6, <1>7, <1>8, <1>11, <1>12, <1>13 DEF UserStep
-----------------------------------------------------------------------------
LEMMA DropStepwise == LoopInv /\ DropInv /\ [LoopNext]_vars => DropInv'
<1> SUFFICES ASSUME LoopInv, DropInv, [LoopNext]_vars PROVE DropInv'
  OBVIOUS
<1>1. KeptOK
  BY DEF DropInv
<1>2. PICK T \in SUBSET Songs : NewOK(T)
  BY DEF DropInv
<1>3. CASE UNCHANGED vars
  <2>1. KeptOK'
    BY <1>1, <1>3 DEF vars, KeptOK, queueVars, memory, loopVars, taskVars, auxVars
  <2>2. NewOK(T)'
    BY <1>2, <1>3 DEF vars, NewOK, WaitsOK, KnownIn, Coming, Waits, Putting, queueVars, memory, loopVars,
                      taskVars, userVars, auxVars
  <2> QED BY <2>1, <2>2 DEF DropInv
<1>4. CASE LoopStep \/ SongRetired \/ SongEnds
  BY <1>1, <1>2, <1>4, LoopKeepsDropped DEF DropInv
<1>5. CASE PrefetchStep \/ PrefetchRetired
  BY <1>1, <1>2, <1>5, PrefetchKeepsDropped DEF DropInv
<1>6. ASSUME NEW u \in Users, UserStep(u) \/ Finish(u) \/ Inserted(u)
      PROVE  DropInv'
  BY <1>1, <1>2, <1>6, UserKeepsDropped DEF DropInv
<1>7. ASSUME NEW p \in Procs, QueueStep(p)
      PROVE  DropInv'
  BY <1>1, <1>2, <1>7, QueueKeepsDropped DEF DropInv
<1> QED BY <1>3, <1>4, <1>5, <1>6, <1>7 DEF LoopNext, Caller

LEMMA DropInitially == LoopInit => DropInv
<1> SUFFICES ASSUME LoopInit PROVE DropInv
  OBVIOUS
<1> DEFINE T == {items[k].song : k \in DOMAIN items}
<1>1. /\ items \in RestoredQueues /\ op = [p \in Procs |-> Idle]
      /\ lpc = "gate" /\ song = NoItem /\ prefetched = NoItem /\ current = NoItem
      /\ pf = NoPrefetch /\ user = [u \in Users |-> NoCommand] /\ arriving = Arrivals
      /\ dropped = {}
  BY DEF LoopInit, Init
<1>2. KeptOK
  BY <1>1 DEF KeptOK, Kept, NoPrefetch
<1>3. T \subseteq Songs
  <2>1. items \in Seq(Item)
    BY <1>1, QueueAssumption DEF QueueAssumption
  <2> QED BY <2>1, ElementOfSeq, LenProperties, SongOf
<1>4. \A u \in Users : Coming(u) = {} /\ ~Waits(u) /\ ~Putting(u) /\ op[u] = Idle
  BY <1>1, Callers DEF Coming, Waits, Putting, PutNames, NoCommand, Idle
<1>5. KnownIn(T)
  BY <1>1, <1>4 DEF KnownIn, NoPrefetch, NoCommand
<1>6. WaitsOK
  BY <1>4 DEF WaitsOK
<1>7. NewOK(T)
  BY <1>1, <1>4, <1>5, <1>6, PlaysAssumption DEF NewOK, PlaysAssumption
<1> QED BY <1>2, <1>3, <1>7 DEF DropInv

\* A song -clear took off the queue, pending or in a prefetch's hands, never reaches
\* vc.play() afterwards: the generation it bumps voids every claim of before it, and no
\* command queues a song twice.
THEOREM DroppedStaysSilent == PlaybackSpec => NeverStartsDropped
<1>1. LoopInv /\ DropInv /\ [LoopNext]_vars =>
        [voice = "off" /\ voice' = "on" /\ song.frag = 0 => song.song \notin dropped]_vars
  <2>1. SUFFICES ASSUME LoopInv, DropInv, [LoopNext]_vars, voice = "off", voice' = "on",
                        song.frag = 0
                 PROVE  song.song \notin dropped
    OBVIOUS
  <2>2. CommitSong /\ CommitOK(Loop)
    BY <2>1 DEF LoopNext, Caller, LoopStep, PassGate, GateTimesOut, TakePrefetched, TakeFromQueue,
           WakeUp, IdleOut, StreamSong, StreamSongFails, CommitSong, StartSong, StartPrefetch,
           SongOver, JoinPrefetch, SettleAlone, Settle, LoopRaises, SongRetired, SongEnds,
           PrefetchStep, PrefetchClaims, PrefetchStreams, PrefetchFails, PrefetchCancelled,
           PrefetchRetired, PrefetchUnchanged, loopVars,
           UserStep, Play, Playlist, PlayFront, PlayNow, CutIn, Enqueue, ResolveFirst, Bulk,
           BulkCancelled, Skip, CutInTooLate, Interject, InterjectCancelled, Finish, Inserted,
           QueueStep, vars
  <2>3. lpc = "commit" /\ commitGen = generation
    BY <2>1, <2>2 DEF CommitSong, CommitOK, LoopInv, ClientInv, CallsOK, LoopCallOK
  <2> QED BY <2>1, <2>3 DEF DropInv, KeptOK, Kept
<1> QED BY <1>1, DropInitially, DropStepwise, LoopInvariant, PTL
        DEF PlaybackSpec, NeverStartsDropped
-----------------------------------------------------------------------------
(* An entry in Redis stands for an item of the deque: it is what the item was  *)
(* when it was queued, a search perhaps that has been resolved since.          *)

\* A search is a play nothing has interrupted, of a song queued as a search.
Sought(i) == i.form = "search" => i.frag = 0 /\ i.song \in SearchSongs
Stands(m, i) == Sought(m) /\ i \in {m, Resolved(m)}
Matches(m, s) == Len(m) = Len(s) /\ \A k \in 1 .. Len(m) : Stands(m[k], s[k])
AllSought(s) == \A k \in DOMAIN s : Sought(s[k])

\* What an entry stands for differs from it in the form alone.
LEMMA StandsFacts ==
    ASSUME NEW m \in Item, NEW i, Stands(m, i)
    PROVE  /\ i \in Item /\ i.song = m.song /\ i.frag = m.frag
           /\ IsPersisted(i) <=> IsPersisted(m)
           /\ m.form # "search" => i = m
           /\ Resolved(i) = Resolved(m)
<1>1. /\ Resolved(m) \in Item /\ Resolved(m).song = m.song /\ Resolved(m).frag = m.frag
      /\ m.form # "search" => Resolved(m) = m
      /\ m.form = "search" => Resolved(m).form = "song"
  BY MadeItems DEF Resolved, Item
<1>2. Resolved(Resolved(m)) = Resolved(m) /\ (IsPersisted(Resolved(m)) <=> IsPersisted(m))
  BY <1>1 DEF Resolved, IsPersisted
<1> QED BY <1>1, <1>2 DEF Stands

\* It still stands for the item when that is resolved.
LEMMA StandsOn ==
    ASSUME NEW m \in Item, NEW i, Stands(m, i), NEW j \in {i, Resolved(i)}
    PROVE  Stands(m, j)
BY StandsFacts DEF Stands

\* A list matches the items it was written from.
LEMMA MatchesSelf ==
    ASSUME NEW s \in Seq(Item), AllSought(s)
    PROVE  Matches(s, s)
BY LenProperties DEF Matches, Stands, AllSought

LEMMA MatchesEmpty == Matches(<<>>, <<>>)
<1>1. Len(<<>>) = 0
  OBVIOUS
<1> QED BY <1>1 DEF Matches

\* Appending keeps a match.
LEMMA MatchesConcat ==
    ASSUME NEW a \in Seq(Item), NEW b \in Seq(Item), NEW c \in Seq(Item), NEW d \in Seq(Item),
           Matches(a, c), Matches(b, d)
    PROVE  Matches(a \o b, c \o d)
<1> DEFINE m == a \o b
           s == c \o d
<1>1. /\ Len(a) \in Nat /\ Len(b) \in Nat /\ Len(m) = Len(a) + Len(b)
      /\ \A k \in 1 .. Len(a) + Len(b) : m[k] = IF k <= Len(a) THEN a[k] ELSE b[k - Len(a)]
  BY LenProperties, ConcatProperties
<1>2. /\ Len(s) = Len(a) + Len(b)
      /\ \A k \in 1 .. Len(a) + Len(b) : s[k] = IF k <= Len(a) THEN c[k] ELSE d[k - Len(a)]
  <2>1. Len(c) = Len(a) /\ Len(d) = Len(b)
    BY DEF Matches
  <2>2. /\ Len(c \o d) = Len(c) + Len(d)
        /\ \A k \in 1 .. Len(c) + Len(d) :
              (c \o d)[k] = IF k <= Len(c) THEN c[k] ELSE d[k - Len(c)]
    BY ConcatProperties
  <2> QED BY <2>1, <2>2
<1> HIDE DEF m, s
<1>3. \A k \in 1 .. Len(a) + Len(b) : Stands(m[k], s[k])
  <2>1. SUFFICES ASSUME NEW k \in 1 .. Len(a) + Len(b) PROVE Stands(m[k], s[k])
    OBVIOUS
  <2>2. CASE k <= Len(a)
    <3>1. k \in 1 .. Len(a) /\ m[k] = a[k] /\ s[k] = c[k]
      BY <1>1, <1>2, <2>2
    <3> QED BY <3>1 DEF Matches
  <2>3. CASE ~(k <= Len(a))
    <3>1. k - Len(a) \in 1 .. Len(b) /\ m[k] = b[k - Len(a)] /\ s[k] = d[k - Len(a)]
      BY <1>1, <1>2, <2>3
    <3> QED BY <3>1 DEF Matches
  <2> QED BY <2>2, <2>3
<1>4. Matches(m, s)
  BY <1>1, <1>2, <1>3 DEF Matches
<1> QED BY <1>4 DEF m, s

\* What a head pop leaves still matches.
LEMMA MatchesTail ==
    ASSUME NEW m \in Seq(Item), NEW s \in Seq(Item), Matches(m, s), s # <<>>
    PROVE  m # <<>> /\ Matches(Tail(m), Tail(s))
<1>1. Len(m) = Len(s) /\ Len(s) \in Nat \ {0} /\ m # <<>>
  BY EmptySeq, LenProperties DEF Matches
<1> DEFINE a == Tail(m)
           b == Tail(s)
<1>2. /\ Len(a) = Len(m) - 1 /\ Len(b) = Len(m) - 1
      /\ \A k \in 1 .. Len(m) - 1 : a[k] = m[k + 1] /\ b[k] = s[k + 1]
  BY <1>1, HeadTailProperties
<1> HIDE DEF a, b
<1>3. \A k \in 1 .. Len(m) - 1 : k + 1 \in 1 .. Len(m)
  BY <1>1
<1>4. Matches(a, b)
  BY <1>2, <1>3 DEF Matches
<1> QED BY <1>1, <1>4 DEF a, b

\* Taking off the head that was put in front.
LEMMA TailOfConcat ==
    ASSUME NEW h \in Item, NEW s \in Seq(Item)
    PROVE  <<h>> \o s \in Seq(Item) /\ <<h>> \o s # <<>> /\ Tail(<<h>> \o s) = s
<1> DEFINE a == <<h>>
           c == a \o s
<1>1. a \in Seq(Item) /\ Len(a) = 1 /\ Len(s) \in Nat
  BY LenProperties
<1> HIDE DEF a
<1>2. /\ c \in Seq(Item) /\ Len(c) = 1 + Len(s)
      /\ \A k \in 1 .. 1 + Len(s) : c[k] = IF k <= 1 THEN a[k] ELSE s[k - 1]
  BY <1>1, ConcatProperties
<1> HIDE DEF c
<1>3. c # <<>>
  BY <1>1, <1>2
<1>4. /\ Tail(c) \in Seq(Item) /\ Len(Tail(c)) = Len(s)
      /\ \A k \in 1 .. Len(s) : Tail(c)[k] = c[k + 1]
  BY <1>1, <1>2, <1>3, HeadTailProperties
<1>5. \A k \in 1 .. Len(s) : c[k + 1] = s[k]
  <2>1. SUFFICES ASSUME NEW k \in 1 .. Len(s) PROVE c[k + 1] = s[k]
    OBVIOUS
  <2>2. k + 1 \in 1 .. 1 + Len(s) /\ ~(k + 1 <= 1) /\ (k + 1) - 1 = k
    BY <1>1
  <2>3. c[k + 1] = s[(k + 1) - 1]
    BY <1>2, <2>2
  <2> QED BY <2>2, <2>3
<1>6. Tail(c) = s
  BY <1>4, <1>5, SeqEqual
<1> QED BY <1>2, <1>3, <1>6 DEF c, a

\* Taking the same positions out of both keeps a match.
LEMMA MatchesAt ==
    ASSUME NEW m \in Seq(Item), NEW s \in Seq(Item), Matches(m, s), NEW S \in SUBSET DOMAIN m
    PROVE  Matches(At(m, S), At(s, S))
<1>1. DOMAIN m = 1 .. Len(m) /\ DOMAIN s = 1 .. Len(m)
  BY LenProperties DEF Matches
<1> DEFINE n == Cardinality(S)
<1>2. /\ Len(At(m, S)) = n
      /\ \A k \in 1 .. n : Pos(S)[k] \in S /\ At(m, S)[k] = m[Pos(S)[k]]
  BY AtFacts
<1>3. /\ Len(At(s, S)) = n
      /\ \A k \in 1 .. n : At(s, S)[k] = s[Pos(S)[k]]
  <2>1. S \in SUBSET DOMAIN s
    BY <1>1
  <2> QED BY <2>1, AtFacts
<1> HIDE DEF n
<1> QED BY <1>1, <1>2, <1>3 DEF Matches

\* Resolving items of the deque disturbs nothing.
LEMMA MatchesResolved ==
    ASSUME NEW m \in Seq(Item), NEW s, NEW t, Matches(m, s), Len(t) = Len(s),
           \A k \in 1 .. Len(s) : t[k] \in {s[k], Resolved(s[k])}
    PROVE  Matches(m, t)
<1>1. \A k \in 1 .. Len(m) : m[k] \in Item
  BY ElementOfSeq
<1>2. \A k \in 1 .. Len(m) : Stands(m[k], s[k]) /\ k \in 1 .. Len(s)
  BY DEF Matches
<1>3. \A k \in 1 .. Len(m) : Stands(m[k], t[k])
  BY <1>1, <1>2, StandsOn
<1> QED BY <1>3 DEF Matches

\* A match is link by link.
LEMMA MatchesKeys ==
    ASSUME NEW m \in Seq(Item), NEW s \in Seq(Item), Matches(m, s)
    PROVE  Keys(m) = Keys(s)
<1>1. DOMAIN m = 1 .. Len(m) /\ DOMAIN s = 1 .. Len(m)
  BY LenProperties DEF Matches
<1>2. \A k \in 1 .. Len(m) : m[k] \in Item /\ s[k].song = m[k].song
  <2>1. \A k \in 1 .. Len(m) : m[k] \in Item
    BY ElementOfSeq
  <2> QED BY <2>1, StandsFacts DEF Matches
<1> QED BY <1>1, <1>2 DEF Keys
-----------------------------------------------------------------------------
(* Whose entry is at the head of the list.                                   *)

\* i is the deque's head, resolved in its holder's hand perhaps.
HeadIs(i) == i \in {items[1], Resolved(items[1])}

\* OwnSongOK with the whole item for its song, until the claim is settled: the
\* retirement of a failed song settles it under the lock, by position as well.
HeadOK ==
    stranded = 0 =>
      /\ /\ lpc \in {"resolve", "commit"} \/ (lpc = "retire" /\ op[Loop].phase = "lock")
         /\ commitGen = generation
         => HeadIs(song)
      /\ prefetched # NoItem /\ pfGen = generation => HeadIs(prefetched)
      /\ /\ \/ pf.pc \in {"streaming", "done"} /\ pf.item # NoItem
            \/ pf.pc = "retiring" /\ op[Prefetch].phase = "lock"
         /\ pfGen = generation
         => HeadIs(pf.item)

\* A command is in its own user's hands.
LEMMA UserAside ==
    ASSUME QueueInv, NEW u \in Users, UserStep(u) \/ Finish(u) \/ Inserted(u)
    PROVE  /\ Same(u) /\ op'[Loop] = op[Loop] /\ op'[Prefetch] = op[Prefetch]
           /\ UNCHANGED <<lpc, song, commitGen, prefetched, current, generation, pfGen, stranded,
                          writes, store>>
<1> USE Callers
<1>1. ASSUME NEW name, NEW arg, NEW gen, Call(u, name, arg, gen)
      PROVE  Same(u)
  BY <1>1, CallFacts
<1>2. ASSUME UNCHANGED op PROVE Same(u)
  BY <1>2 DEF Same
<1>3. ASSUME Return(u) PROVE Same(u)
  BY <1>3, ReturnFacts
<1>4. ASSUME NEW q, NEW target, Insert(u, q, target) \/ FallBack(u, q)
      PROVE  Same(u)
  BY <1>1, <1>4 DEF Insert, FallBack
<1>5. ASSUME NEW c, NEW name, NEW n, Enqueue(u, c, name, n)
      PROVE  Same(u)
  BY <1>1, <1>5 DEF Enqueue
<1>6. Same(u)
  <2>1. CASE Finish(u) \/ Inserted(u)
    BY <1>3, <2>1 DEF Finish, Inserted
  <2>2. CASE Play(u) \/ Playlist(u) \/ PlayFront(u)
    BY <1>5, <2>2 DEF Play, Playlist, PlayFront
  <2>3. CASE PlayNow(u) \/ CutIn(u) \/ Skip(u)
    BY <1>2, <1>5, <2>3 DEF PlayNow, CutIn, ResolveFirst, Skip, queueVars
  <2>4. CASE (\E c \in BulkNames : Bulk(u, c)) \/ BulkCancelled(u) \/ CutInTooLate(u)
    BY <1>1, <1>2, <2>4 DEF Bulk, BulkCancelled, CutInTooLate
  <2>5. CASE Interject(u) \/ InterjectCancelled(u)
    BY <1>2, <1>4, <2>5 DEF Interject, InterjectCancelled
  <2> QED BY <2>1, <2>2, <2>3, <2>4, <2>5 DEF UserStep
<1>7. UNCHANGED <<lpc, song, commitGen, prefetched, current, generation, pfGen, stranded,
                  writes, store>>
  BY DEF UserStep, Play, Playlist, PlayFront, PlayNow, CutIn, Enqueue, ResolveFirst, Bulk, Skip,
         BulkCancelled, CutInTooLate, Interject, InterjectCancelled, Finish, Inserted,
         memory, queueVars, loopVars, auxVars
<1>8. op'[Loop] = op[Loop] /\ op'[Prefetch] = op[Prefetch]
  BY <1>6 DEF Same
<1> QED BY <1>6, <1>7, <1>8

\* The head is an item, and stays the head when it is resolved.
LEMMA HeadResolved ==
    ASSUME QueueInv, cursor > 0, NEW i, HeadIs(i)
    PROVE  i \in Item /\ HeadIs(Resolved(i))
<1>1. 1 \in 1 .. Len(items) /\ items[1] \in Item
  BY DequeFacts
<1>2. Resolved(items[1]) \in Item /\ Resolved(Resolved(items[1])) = Resolved(items[1])
  BY <1>1, MadeItems DEF Resolved, Item
<1> QED BY <1>1, <1>2 DEF HeadIs

\* The loop.
LEMMA LoopKeepsHead ==
    ASSUME LoopInv, HeadOK, LoopStep \/ SongRetired \/ SongEnds
    PROVE  HeadOK'
<1> USE Callers, Numbers
    DEF LoopInv, ClientInv, ClientOK, InHandOK, TurnsOK, NoTask, StaleOK,
        HeadOK, PrefetchRuns, memory, store, taskVars, auxVars, queueVars
<1>1. CASE PassGate
  BY <1>1 DEF PassGate, HeadIs
<1>2. CASE GateTimesOut \/ IdleOut
  BY <1>2 DEF GateTimesOut, IdleOut, HeadIs
<1>3. CASE StartPrefetch
  BY <1>3 DEF StartPrefetch, NoPrefetch, HeadIs
<1>4. CASE SongOver \/ SongEnds
  BY <1>4 DEF SongOver, SongEnds, HeadIs
<1>5. CASE JoinPrefetch
  BY <1>5 DEF JoinPrefetch, Settle, NoPrefetch, HeadIs
<1>6. CASE SettleAlone
  BY <1>6 DEF SettleAlone, Settle, HeadIs
<1>7. CASE TakePrefetched
  <2>1. /\ UNCHANGED <<items, generation, stranded, pf, pfGen>> /\ pf = NoPrefetch /\ lpc' = "commit"
        /\ song' = prefetched /\ prefetched' = NoItem /\ prefetched # NoItem
    BY <1>7 DEF TakePrefetched, AtTop
  <2>2. pfGen = generation
    BY <1>7 DEF TakePrefetched
  <2> QED BY <2>1, <2>2 DEF HeadIs, NoPrefetch
<1>8. CASE TakeFromQueue
  <2>1. pf.item = NoItem /\ pf.pc \in {"none", "done"}
    BY <1>8 DEF TakeFromQueue, AtTop
  <2>2. CASE Empty
    <3>1. lpc' = "get" /\ prefetched' = NoItem /\ UNCHANGED pf
      BY <1>8, <2>2 DEF TakeFromQueue, Discard
    <3> QED BY <2>1, <3>1
  <2>3. CASE ~Empty
    <3>1. stranded' = 0 => cursor = 0
      BY <1>8, <2>3 DEF TakeFromQueue, AtTop, Discard, Strand, ClaimsAccounted, LiveClaims,
                        LoopHoldsClaim, PrefetchHoldsClaim
    <3>2. /\ lpc' = "resolve" /\ song' = items[cursor + 1] /\ prefetched' = NoItem
          /\ UNCHANGED <<items, pf>>
      BY <1>8, <2>3 DEF TakeFromQueue, Discard, Claim
    <3> QED BY <2>1, <3>1, <3>2 DEF HeadIs
  <2> QED BY <2>2, <2>3
<1>9. CASE WakeUp
  <2>1. stranded' = 0 => cursor = 0
    BY <1>9 DEF WakeUp, ClaimsAccounted, LiveClaims, LoopHoldsClaim, PrefetchHoldsClaim
  <2>2. /\ lpc' = "resolve" /\ song' = items[cursor + 1] /\ prefetched' = NoItem
        /\ UNCHANGED <<items, pf>> /\ pf.item = NoItem /\ pf.pc \in {"none", "done"}
    BY <1>9 DEF WakeUp, Claim
  <2> QED BY <2>1, <2>2 DEF HeadIs
<1>10. ASSUME lpc = "resolve", commitGen = generation, stranded = 0
       PROVE  HeadIs(song) /\ HeadIs(Resolved(song))
  <2>1. cursor > 0
    BY <1>10, ClaimInDeque DEF LoopHoldsClaim
  <2> QED BY <1>10, <2>1, HeadResolved
<1>11. ASSUME lpc = "resolve"
       PROVE  prefetched = NoItem /\ NoTask
  BY <1>11
<1>12. CASE StreamSong
  <2>1. /\ UNCHANGED <<items, generation, stranded, commitGen, prefetched, pf>>
        /\ lpc = "resolve" /\ lpc' = "commit" /\ song' = Resolved(song)
    BY <1>12 DEF StreamSong
  <2>2. stranded = 0 /\ commitGen = generation => HeadIs(Resolved(song))
    BY <1>10, <2>1
  <2> HIDE DEF ClientOK, LoopInv, ClientInv
  <2> QED BY <1>11, <2>1, <2>2 DEF HeadIs
<1>13. CASE StreamSongFails
  <2>1. /\ UNCHANGED <<items, generation, stranded, commitGen, prefetched, pf, song>>
        /\ lpc = "resolve" /\ lpc' = "retire"
    BY <1>13 DEF StreamSongFails
  <2> QED BY <1>10, <1>11, <2>1 DEF HeadIs
<1>14. CASE SongRetired
  <2>1. op'[Prefetch] = op[Prefetch] /\ lpc' = "top"
    BY <1>14, ReturnFacts DEF SongRetired, Same
  <2> QED BY <1>14, <2>1 DEF SongRetired, HeadIs
<1>15. CASE CommitSong
  <2>1. prefetched = NoItem /\ NoTask /\ prefetched' = prefetched /\ pf' = pf
    BY <1>15 DEF CommitSong
  <2>2. lpc' \in {"start", "raise", "top"}
    BY <1>15 DEF CommitSong
  <2> QED BY <2>1, <2>2
<1>16. CASE StartSong
  BY <1>16 DEF StartSong
<1>17. CASE LoopRaises
  BY <1>17 DEF LoopRaises
<1> QED BY <1>1, <1>2, <1>3, <1>4, <1>5, <1>6, <1>7, <1>8, <1>9, <1>12,
           <1>13, <1>14, <1>15, <1>16, <1>17 DEF LoopStep

\* The prefetch.
LEMMA PrefetchKeepsHead ==
    ASSUME LoopInv, HeadOK, PrefetchStep \/ PrefetchRetired
    PROVE  HeadOK'
<1> USE Callers, Numbers
    DEF LoopInv, ClientInv, ClientOK, InHandOK, TurnsOK, NoTask, StaleOK,
        HeadOK, PrefetchRuns, memory, store, loopVars, auxVars, queueVars, PrefetchUnchanged
<1>1. PrefetchRuns /\ lpc \notin {"resolve", "commit", "retire"} /\ prefetched = NoItem
  BY DEF PrefetchStep, PrefetchClaims, PrefetchStreams, PrefetchFails, PrefetchCancelled,
         PrefetchRetired, NoPrefetch
<1>2. UNCHANGED <<lpc, prefetched, generation>>
  BY DEF PrefetchStep, PrefetchClaims, PrefetchStreams, PrefetchFails, PrefetchCancelled,
         PrefetchRetired
<1>3. CASE PrefetchClaims /\ ~Empty
  <2> DEFINE it == items[cursor + 1]
  <2>1. stranded = 0 => cursor = 0
    BY <1>1, <1>3 DEF PrefetchClaims, ClaimsAccounted, LiveClaims, LoopHoldsClaim,
                      PrefetchHoldsClaim
  <2>2. pf' = [pf EXCEPT !.pc = "streaming", !.item = it] /\ UNCHANGED <<items, stranded>>
    BY <1>3 DEF PrefetchClaims, Claim
  <2>3. stranded = 0 => it = items[1]
    BY <2>1
  <2> HIDE DEF it
  <2>4. pf'.item = it /\ pf'.pc = "streaming"
    BY <2>2
  <2> QED BY <1>1, <1>2, <2>2, <2>3, <2>4 DEF HeadIs
<1>4. CASE PrefetchClaims /\ Empty
  <2>1. pf'.item = NoItem /\ pf'.pc = "done"
    BY <1>4 DEF PrefetchClaims
  <2> QED BY <1>1, <1>2, <2>1
<1>5. ASSUME pf.pc = "streaming", pfGen = generation, stranded = 0
      PROVE  HeadIs(pf.item) /\ HeadIs(Resolved(pf.item))
  <2>1. cursor > 0 /\ pf.item # NoItem
    BY <1>5, ClaimInDeque DEF PrefetchHoldsClaim
  <2> QED BY <1>5, <2>1, HeadResolved
<1>6. CASE PrefetchStreams
  <2> DEFINE it == Resolved(pf.item)
  <2>1. pf.pc = "streaming" /\ pf' = [pf EXCEPT !.pc = "done", !.item = it]
        /\ UNCHANGED <<items, pfGen, stranded>>
    BY <1>6 DEF PrefetchStreams
  <2>2. stranded = 0 /\ pfGen = generation => HeadIs(it)
    BY <1>5, <2>1
  <2> HIDE DEF it
  <2>3. pf'.item = it /\ pf'.pc = "done"
    BY <2>1
  <2> QED BY <1>1, <1>2, <2>1, <2>2, <2>3 DEF HeadIs
<1>7. CASE PrefetchFails
  <2>1. pf'.item = pf.item /\ pf'.pc = "retiring" /\ pf.pc = "streaming"
        /\ UNCHANGED <<items, pfGen, stranded>>
    BY <1>7 DEF PrefetchFails
  <2> QED BY <1>1, <1>2, <1>5, <2>1 DEF HeadIs
<1>8. CASE PrefetchRetired \/ PrefetchCancelled
  <2>1. pf'.item = NoItem /\ pf'.pc = "done"
    BY <1>8 DEF PrefetchRetired, PrefetchCancelled, NoPrefetch
  <2> QED BY <1>1, <1>2, <2>1
<1> QED BY <1>3, <1>4, <1>6, <1>7, <1>8 DEF PrefetchStep

\* The queue.
LEMMA QueueKeepsHead ==
    ASSUME LoopInv, HeadOK, NEW p \in Procs, QueueStep(p)
    PROVE  HeadOK'
<1> USE Callers, Numbers
    DEF LoopInv, ClientInv, ClientOK, TurnsOK, NoTask, StaleOK, HeadOK,
        PrefetchRuns, memory, loopVars, taskVars
<1>1. UNCHANGED <<lpc, song, commitGen, prefetched, pf, pfGen>>
  BY DEF QueueStep
<1>2. ASSUME NEW todo, NEW result, Proceed(p, todo, result), NEW q \in Procs, op'[q].phase = "lock"
      PROVE  op[q].phase = "lock" /\ q # p
  BY <1>2, ProceedFacts DEF Same
<1>3. CASE EnterMutation(p) /\ UNCHANGED stranded
  <2>1. UNCHANGED generation
    BY <1>3 DEF EnterMutation, EnterPut, EnterPutFront, EnterShuffle, EnterRemove
  <2>2. cursor > 0 => items'[1] = items[1]
    BY <1>3, MutationKeepsHead
  <2>3. \A q \in Procs : op'[q].phase = "lock" => op[q].phase = "lock"
    BY <1>2, <1>3 DEF EnterMutation, EnterPut, EnterPutFront, EnterShuffle, EnterRemove
  <2>4. CASE cursor > 0
    BY <1>1, <1>3, <2>1, <2>2, <2>3, <2>4 DEF HeadIs
  <2>5. CASE ~(cursor > 0)
    <3>1. ~LoopHoldsClaim /\ ~PrefetchHoldsClaim
      BY <2>5, ClaimInDeque
    <3> QED BY <1>1, <2>1, <2>3, <3>1 DEF LoopHoldsClaim, PrefetchHoldsClaim
  <2> QED BY <2>4, <2>5
<1>4. CASE (Write(p) \/ WriteFails(p)) /\ UNCHANGED stranded
  <2>1. PICK todo : Issued(p, todo) /\ op[p].phase = "store"
    BY <1>4 DEF Write, WriteFails
  <2>2. \A q \in Procs : op'[q].phase = "lock" => op[q].phase = "lock"
    BY <2>1, IssuedFacts DEF Same
  <2> QED BY <1>1, <1>4, <2>2 DEF Write, WriteFails, HeadIs
<1>5. CASE EnterClear(p)
  BY <1>1, <1>5 DEF EnterClear
<1>6. CASE EnterFinishFailed(p)
  <2>1. op[p].name = "finishFailed" /\ op[p].phase = "lock"
    BY <1>6 DEF EnterFinishFailed, Holds
  <2>2. op'[p].phase # "lock"
    BY <1>2, <1>6 DEF EnterFinishFailed
  <2>3. \/ p = Loop /\ lpc = "retire"
        \/ p = Prefetch /\ pf.pc = "retiring"
    BY <2>1 DEF CallsOK, LoopCallOK, TaskCallOK, UserCallsOK, Idle
  <2>4. CASE p = Loop /\ lpc = "retire"
    BY <1>1, <2>2, <2>4
  <2>5. CASE p = Prefetch /\ pf.pc = "retiring"
    BY <1>1, <2>2, <2>5 DEF NoPrefetch
  <2> QED BY <2>3, <2>4, <2>5
<1> QED BY <1>3, <1>4, <1>5, <1>6 DEF QueueStep

\* The commands.
LEMMA UserKeepsHead ==
    ASSUME LoopInv, HeadOK, NEW u \in Users, UserStep(u) \/ Finish(u) \/ Inserted(u)
    PROVE  HeadOK'
<1> USE Callers, Numbers
    DEF LoopInv, ClientInv, ClientOK, TurnsOK, NoTask, StaleOK, HeadOK,
        PrefetchRuns, memory, loopVars, taskVars, auxVars, queueVars
<1>1. op'[Loop] = op[Loop] /\ op'[Prefetch] = op[Prefetch]
  BY UserAside
<1>2. CASE Interject(u)
  <2>1. UNCHANGED <<generation, lpc, song, commitGen, prefetched, pfGen, stranded>>
    BY <1>2 DEF Interject
  <2>2. CASE UNCHANGED <<items, pf>>
    BY <1>1, <2>1, <2>2 DEF HeadIs
  <2>3. CASE UNCHANGED items /\ pf' = [pf EXCEPT !.cancel = TRUE]
    BY <1>1, <2>1, <2>3 DEF HeadIs
  <2>4. CASE pfRef /\ pf' = NoPrefetch
    BY <1>1, <2>1, <2>4 DEF NoPrefetch
  <2> QED BY <1>2, <2>2, <2>3, <2>4 DEF Interject
<1>3. CASE /\ UNCHANGED <<items, generation, lpc, song, commitGen, prefetched, pfGen, stranded>>
           /\ UNCHANGED pf \/ pf' = [pf EXCEPT !.cancel = TRUE]
  BY <1>1, <1>3 DEF HeadIs
<1>4. CASE Play(u) \/ Playlist(u) \/ PlayFront(u) \/ PlayNow(u) \/ CutIn(u)
  BY <1>3, <1>4 DEF Play, Playlist, PlayFront, PlayNow, CutIn, Enqueue, ResolveFirst
<1>5. CASE \E c \in BulkNames : Bulk(u, c)
  BY <1>3, <1>5 DEF Bulk
<1>6. CASE BulkCancelled(u) \/ Skip(u) \/ CutInTooLate(u) \/ InterjectCancelled(u)
  BY <1>3, <1>6 DEF BulkCancelled, Skip, CutInTooLate, InterjectCancelled
<1>7. CASE Finish(u) \/ Inserted(u)
  BY <1>3, <1>7 DEF Finish, Inserted
<1> QED BY <1>2, <1>4, <1>5, <1>6, <1>7 DEF UserStep

\* Every step keeps the live claim at the head.
LEMMA HeadStepwise == LoopInv /\ HeadOK /\ [LoopNext]_vars => HeadOK'
<1> SUFFICES ASSUME LoopInv, HeadOK, [LoopNext]_vars PROVE HeadOK'
  OBVIOUS
<1>1. ASSUME UNCHANGED vars PROVE HeadOK'
  BY <1>1 DEF vars, HeadOK, HeadIs, queueVars, memory, loopVars, taskVars, auxVars
<1> QED BY <1>1, LoopKeepsHead, PrefetchKeepsHead, QueueKeepsHead, UserKeepsHead DEF LoopNext, Caller
-----------------------------------------------------------------------------
(* No whole play is in the deque twice, and what is queued is as sought.      *)

ApartOK ==
    /\ stranded = 0 => OnePlay(items) /\ AllSought(items)
    /\ \A u \in Users : Putting(u) =>
          /\ OnePlay(op[u].arg) /\ AllSought(op[u].arg)
          /\ op[u].name = "put" => Len(op[u].arg) = 1
    /\ \A u \in Users : Waits(u) => user[u].item.form # "search"

\* Reading items at different places keeps plays apart.
LEMMA OnePlayAlong ==
    ASSUME NEW s, NEW t, OnePlay(s), AllSought(s), NEW g,
           \A k \in DOMAIN t : g[k] \in DOMAIN s /\ t[k] = s[g[k]],
           \A j, k \in DOMAIN t : g[j] = g[k] => j = k
    PROVE  OnePlay(t) /\ AllSought(t)
BY DEF OnePlay, AllSought

\* So does resolving them.
LEMMA OnePlayResolved ==
    ASSUME NEW s \in Seq(Item), NEW t, OnePlay(s), AllSought(s), DOMAIN t = DOMAIN s,
           \A k \in DOMAIN s : t[k] \in {s[k], Resolved(s[k])}
    PROVE  OnePlay(t) /\ AllSought(t)
<1>1. \A k \in DOMAIN s : s[k] \in Item
  BY ElementOfSeq, LenProperties
<1>2. \A k \in DOMAIN s : t[k].song = s[k].song /\ t[k].frag = s[k].frag /\ Sought(t[k])
  <2>1. SUFFICES ASSUME NEW k \in DOMAIN s
                 PROVE  t[k].song = s[k].song /\ t[k].frag = s[k].frag /\ Sought(t[k])
    OBVIOUS
  <2>2. /\ Resolved(s[k]).song = s[k].song /\ Resolved(s[k]).frag = s[k].frag
        /\ Resolved(s[k]).form = "search" => s[k].form = "search"
    BY <1>1 DEF Resolved, Item
  <2>3. Sought(s[k])
    BY DEF AllSought
  <2>4. t[k] \in {s[k], Resolved(s[k])}
    OBVIOUS
  <2> QED BY <2>2, <2>3, <2>4 DEF Sought
<1> QED BY <1>2 DEF OnePlay, AllSought

\* Joining sequences that share no whole play.
LEMMA OnePlayConcat ==
    ASSUME NEW a \in Seq(Item), NEW b \in Seq(Item), OnePlay(a), OnePlay(b),
           AllSought(a), AllSought(b),
           \A j \in DOMAIN a, k \in DOMAIN b :
              a[j].frag = 0 /\ b[k].frag = 0 => a[j].song # b[k].song
    PROVE  OnePlay(a \o b) /\ AllSought(a \o b)
<1> DEFINE s == a \o b
<1>1. /\ Len(a) \in Nat /\ Len(b) \in Nat /\ DOMAIN a = 1 .. Len(a) /\ DOMAIN b = 1 .. Len(b)
      /\ DOMAIN s = 1 .. Len(a) + Len(b)
      /\ \A k \in 1 .. Len(a) + Len(b) : s[k] = IF k <= Len(a) THEN a[k] ELSE b[k - Len(a)]
  <2>1. Len(a) \in Nat /\ Len(b) \in Nat /\ DOMAIN a = 1 .. Len(a) /\ DOMAIN b = 1 .. Len(b)
    BY LenProperties
  <2>2. /\ s \in Seq(Item) /\ Len(s) = Len(a) + Len(b)
        /\ \A k \in 1 .. Len(a) + Len(b) : s[k] = IF k <= Len(a) THEN a[k] ELSE b[k - Len(a)]
    BY ConcatProperties
  <2>3. DOMAIN s = 1 .. Len(s)
    BY <2>2, LenProperties
  <2> QED BY <2>1, <2>2, <2>3
<1> HIDE DEF s
<1>2. \A k \in DOMAIN s :
         \/ k \in DOMAIN a /\ s[k] = a[k]
         \/ k \notin DOMAIN a /\ k - Len(a) \in DOMAIN b /\ s[k] = b[k - Len(a)]
  BY <1>1
<1>3. AllSought(s)
  BY <1>2 DEF AllSought
<1>4. OnePlay(s)
  <2>1. SUFFICES ASSUME NEW j \in DOMAIN s, NEW k \in DOMAIN s,
                        s[j].frag = 0, s[k].frag = 0, s[j].song = s[k].song
                 PROVE  j = k
    BY DEF OnePlay
  <2>2. CASE j \in DOMAIN a /\ s[j] = a[j] /\ k \in DOMAIN a /\ s[k] = a[k]
    BY <2>1, <2>2 DEF OnePlay
  <2>3. CASE /\ j - Len(a) \in DOMAIN b /\ s[j] = b[j - Len(a)]
             /\ k - Len(a) \in DOMAIN b /\ s[k] = b[k - Len(a)]
    <3>1. j - Len(a) = k - Len(a)
      BY <2>1, <2>3 DEF OnePlay
    <3> QED BY <1>1, <3>1
  <2> QED BY <1>2, <2>1, <2>2, <2>3
<1> QED BY <1>3, <1>4 DEF s

\* A mutation keeps plays apart if what it puts in is another's.
LEMMA MutationKeepsApart ==
    ASSUME QueueInv, NEW p \in Procs, EnterMutation(p), OnePlay(items), AllSought(items),
           EnterPut(p) \/ EnterPutFront(p) =>
              /\ OnePlay(op[p].arg) /\ AllSought(op[p].arg)
              /\ \A j \in DOMAIN items, k \in DOMAIN op[p].arg :
                    items[j].frag = 0 /\ op[p].arg[k].frag = 0 => items[j].song # op[p].arg[k].song
    PROVE  OnePlay(items') /\ AllSought(items')
<1>1. /\ Len(items) \in Nat /\ DOMAIN items = 1 .. Len(items) /\ cursor \in 0 .. Len(items)
      /\ items \in Seq(Item) /\ op[p].arg \in Seq(Item)
  BY DequeFacts
<1>2. CASE EnterPut(p)
  <2>1. items' = items \o op[p].arg
    BY <1>2 DEF EnterPut
  <2> DEFINE arg == op[p].arg
  <2>2. arg \in Seq(Item) /\ OnePlay(arg) /\ AllSought(arg)
        /\ \A j \in DOMAIN items, k \in DOMAIN arg :
                    items[j].frag = 0 /\ arg[k].frag = 0 => items[j].song # arg[k].song
    BY <1>1, <1>2
  <2> HIDE DEF arg
  <2>3. OnePlay(items \o arg) /\ AllSought(items \o arg)
    BY <1>1, <2>2, OnePlayConcat
  <2> QED BY <2>1, <2>3 DEF arg
<1>3. CASE EnterPutFront(p)
  <2> DEFINE arg == op[p].arg
             head == SubSeq(items, 1, cursor)
             rest == SubSeq(items, cursor + 1, Len(items))
  <2>1. arg \in Seq(Item) /\ OnePlay(arg) /\ AllSought(arg)
        /\ \A j \in DOMAIN items, k \in DOMAIN arg :
                    items[j].frag = 0 /\ arg[k].frag = 0 => items[j].song # arg[k].song
    BY <1>1, <1>3
  <2>2. items' = (head \o arg) \o rest
    BY <1>3 DEF EnterPutFront, Claimed
  <2>3. \A k \in 1 .. Len(items) : items[k] \in Item
    BY DequeFacts
  <2>4. head \in Seq(Item) /\ Len(head) = cursor /\ \A k \in 1 .. cursor : head[k] = items[k]
    BY <1>1, <2>3, SubSeqProperties
  <2>5. /\ rest \in Seq(Item) /\ Len(rest) = Len(items) - cursor
        /\ \A k \in 1 .. Len(items) - cursor : rest[k] = items[k + cursor]
    <3>1. cursor + 1 \in Int /\ Len(items) \in Int /\ \A k \in cursor + 1 .. Len(items) : items[k] \in Item
      BY <1>1, <2>3
    <3>2. /\ rest \in Seq(Item)
          /\ Len(rest) = IF cursor + 1 <= Len(items) THEN Len(items) - (cursor + 1) + 1 ELSE 0
          /\ \A k \in 1 .. Len(items) - (cursor + 1) + 1 : rest[k] = items[cursor + 1 + k - 1]
      BY <3>1, SubSeqProperties
    <3>3. Len(items) - (cursor + 1) + 1 = Len(items) - cursor
          /\ \A k \in 1 .. Len(items) - cursor : cursor + 1 + k - 1 = k + cursor
      BY <1>1
    <3>4. Len(rest) = Len(items) - cursor
      BY HalvesType
    <3> HIDE DEF rest
    <3>5. ASSUME NEW k \in 1 .. Len(items) - cursor PROVE rest[k] = items[k + cursor]
      <4>1. rest[k] = items[cursor + 1 + k - 1]
        BY <3>2, <3>3
      <4> QED BY <3>3, <4>1
    <3> QED BY <3>2, <3>4, <3>5
  <2>6. /\ DOMAIN head = 1 .. cursor /\ DOMAIN rest = 1 .. Len(items) - cursor
    BY <2>4, <2>5, LenProperties
  <2> HIDE DEF arg, head, rest
  <2>7. \A k \in DOMAIN head : k \in DOMAIN items /\ head[k] = items[k]
    BY <1>1, <2>4, <2>6
  <2>8. \A k \in DOMAIN rest : k + cursor \in DOMAIN items /\ rest[k] = items[k + cursor] /\ k \in Nat
    BY <1>1, <2>5, <2>6
  <2>9. OnePlay(head) /\ AllSought(head)
    BY <2>7 DEF OnePlay, AllSought
  <2>10. OnePlay(rest) /\ AllSought(rest)
    <3>1. AllSought(rest)
      BY <2>8 DEF AllSought
    <3>2. SUFFICES ASSUME NEW j \in DOMAIN rest, NEW k \in DOMAIN rest, rest[j].frag = 0,
                          rest[k].frag = 0, rest[j].song = rest[k].song
                   PROVE  j = k
      BY <3>1 DEF OnePlay
    <3>3. j + cursor = k + cursor
      BY <2>8, <3>2 DEF OnePlay
    <3> QED BY <1>1, <2>8, <3>3
  <2> DEFINE left == head \o arg
  <2>11. left \in Seq(Item) /\ OnePlay(left) /\ AllSought(left)
    <3>1. \A j \in DOMAIN head, k \in DOMAIN arg :
             head[j].frag = 0 /\ arg[k].frag = 0 => head[j].song # arg[k].song
      BY <2>1, <2>7
    <3> QED BY <2>1, <2>4, <2>9, <3>1, OnePlayConcat, ConcatProperties
  <2>12. \A j \in DOMAIN left : \/ j \in DOMAIN head /\ left[j] = head[j]
                               \/ \E k \in DOMAIN arg : left[j] = arg[k]
    <3>1. /\ Len(left) = Len(head) + Len(arg) /\ Len(head) \in Nat /\ Len(arg) \in Nat
          /\ \A k \in 1 .. Len(head) + Len(arg) :
                left[k] = IF k <= Len(head) THEN head[k] ELSE arg[k - Len(head)]
      BY <2>1, <2>4, ConcatProperties, LenProperties
    <3>2. DOMAIN left = 1 .. Len(left) /\ DOMAIN arg = 1 .. Len(arg) /\ DOMAIN head = 1 .. Len(head)
      BY <2>1, <2>4, <2>11, LenProperties
    <3> HIDE DEF left
    <3>3. SUFFICES ASSUME NEW j \in DOMAIN left
                   PROVE  \/ j \in DOMAIN head /\ left[j] = head[j]
                          \/ \E k \in DOMAIN arg : left[j] = arg[k]
      OBVIOUS
    <3>4. j \in 1 .. Len(head) + Len(arg)
      BY <3>1, <3>2
    <3>5. CASE j <= Len(head)
      BY <3>1, <3>2, <3>4, <3>5
    <3>6. CASE ~(j <= Len(head))
      <4>1. j - Len(head) \in DOMAIN arg /\ left[j] = arg[j - Len(head)]
        BY <3>1, <3>2, <3>4, <3>6
      <4> QED BY <4>1
    <3> QED BY <3>5, <3>6
  <2> HIDE DEF left
  <2>13. \A j \in DOMAIN left, k \in DOMAIN rest :
            left[j].frag = 0 /\ rest[k].frag = 0 => left[j].song # rest[k].song
    <3>1. SUFFICES ASSUME NEW j \in DOMAIN left, NEW k \in DOMAIN rest, left[j].frag = 0,
                          rest[k].frag = 0, left[j].song = rest[k].song
                   PROVE  FALSE
      OBVIOUS
    <3>2. k + cursor \in DOMAIN items /\ rest[k] = items[k + cursor] /\ k + cursor > cursor
          /\ k \in Nat /\ cursor \in Nat
      BY <1>1, <2>6, <2>8
    <3>3. CASE j \in DOMAIN head /\ left[j] = head[j]
      <4>1. j \in DOMAIN items /\ left[j] = items[j] /\ j <= cursor /\ j \in Nat
        BY <1>1, <2>6, <2>7, <3>3
      <4>2. j = k + cursor
        BY <3>1, <3>2, <4>1 DEF OnePlay
      <4> QED BY <3>2, <4>1, <4>2
    <3>4. CASE \E i \in DOMAIN arg : left[j] = arg[i]
      BY <2>1, <3>1, <3>2, <3>4
    <3> QED BY <2>12, <3>3, <3>4
  <2>14. items' = left \o rest
    BY <2>2 DEF left
  <2>15. OnePlay(left \o rest) /\ AllSought(left \o rest)
    BY <2>5, <2>10, <2>11, <2>13, OnePlayConcat
  <2> QED BY <2>14, <2>15
<1>4. CASE EnterShuffle(p)
  <2>1. CASE items' = items
    BY <2>1
  <2>2. CASE items' # items
    <3>1. PICK pi \in Bijection(Pending, Pending) :
             items' = [k \in DOMAIN items |->
                         IF k \in Pending THEN items[pi[k]] ELSE items[k]]
      BY <1>4, <2>2 DEF EnterShuffle
    <3>2. /\ pi \in [Pending -> Pending] /\ Pending \subseteq DOMAIN items
          /\ \A j, k \in Pending : pi[j] = pi[k] => j = k
      <4>1. Pending \subseteq DOMAIN items
        BY <1>1 DEF Pending
      <4>2. pi \in [Pending -> Pending] /\ IsInjective(pi)
        BY <3>1 DEF Bijection, Injection
      <4>3. \A j, k \in Pending : pi[j] = pi[k] => j = k
        BY <4>2 DEF IsInjective
      <4> QED BY <4>1, <4>2, <4>3
    <3> DEFINE g == [k \in DOMAIN items |-> IF k \in Pending THEN pi[k] ELSE k]
    <3>3. DOMAIN items' = DOMAIN items
      BY <3>1
    <3>4. \A k \in DOMAIN items' : g[k] \in DOMAIN items /\ items'[k] = items[g[k]]
      BY <3>1, <3>2, <3>3
    <3>5. \A j, k \in DOMAIN items' : g[j] = g[k] => j = k
      BY <3>2, <3>3
    <3> HIDE DEF g
    <3> QED BY <3>4, <3>5, OnePlayAlong
  <2> QED BY <2>1, <2>2
<1>5. CASE EnterRemove(p)
  <2>1. PICK gone \in SUBSET Pending : items' = items \/ items' = At(items, DOMAIN items \ gone)
    BY <1>5 DEF EnterRemove
  <2> DEFINE kept == DOMAIN items \ gone
  <2>2. CASE items' = items
    BY <2>2
  <2>3. CASE items' = At(items, kept)
    <3>1. kept \in SUBSET DOMAIN items
      OBVIOUS
    <3> HIDE DEF kept
    <3>2. /\ IsFiniteSet(kept) /\ kept \in SUBSET Nat
          /\ DOMAIN At(items, kept) = 1 .. Cardinality(kept)
          /\ \A k \in 1 .. Cardinality(kept) :
                Pos(kept)[k] \in kept /\ At(items, kept)[k] = items[Pos(kept)[k]]
      BY <1>1, <3>1, AtFacts
    <3> DEFINE g == Pos(kept)
    <3>3. \A k \in DOMAIN items' : g[k] \in DOMAIN items /\ items'[k] = items[g[k]]
      BY <2>3, <3>1, <3>2
    <3>4. \A j, k \in DOMAIN items' : g[j] = g[k] => j = k
      BY <2>3, <3>2, PosOnce
    <3> HIDE DEF g
    <3> QED BY <3>3, <3>4, OnePlayAlong
  <2> QED BY <2>1, <2>2, <2>3
<1> QED BY <1>2, <1>3, <1>4, <1>5 DEF EnterMutation
-----------------------------------------------------------------------------
\* The loop's steps leave the commands alone, and only a commit takes an item.
LEMMA LoopAside ==
    ASSUME LoopInv, LoopStep \/ SongRetired \/ SongEnds
    PROVE  /\ Same(Loop) /\ UNCHANGED <<user, arriving, writes>>
           /\ UNCHANGED items \/ (CommitSong /\ Release /\ cursor > 0)
           /\ stranded' = 0 => stranded = 0
<1> USE Callers
<1>1. Same(Loop)
  <2>1. \/ UNCHANGED op \/ Return(Loop) \/ EnterCommit(Loop)
        \/ \E name, arg, gen : Call(Loop, name, arg, gen)
    BY DEF LoopStep, PassGate, GateTimesOut, TakePrefetched, TakeFromQueue, WakeUp, IdleOut,
           StreamSong, StreamSongFails, CommitSong, StartSong, StartPrefetch, SongOver,
           JoinPrefetch, SettleAlone, Settle, LoopRaises, SongRetired, SongEnds, queueVars
  <2>2. EnterCommit(Loop) => Same(Loop)
    BY DEF EnterCommit, Same, LoopInv, QueueInv, QueueTypeOK
  <2>3. UNCHANGED op => Same(Loop)
    BY DEF Same
  <2> QED BY <2>1, <2>2, <2>3, CallFacts, ReturnFacts DEF LoopInv
<1>2. UNCHANGED <<user, arriving, writes>>
  BY DEF LoopStep, PassGate, GateTimesOut, TakePrefetched, TakeFromQueue, WakeUp, IdleOut,
         StreamSong, StreamSongFails, CommitSong, EnterCommit, StartSong, StartPrefetch, SongOver,
         JoinPrefetch, SettleAlone, Settle, LoopRaises, SongRetired, SongEnds, queueVars, userVars
<1>3. UNCHANGED items \/ (CommitSong /\ Release /\ cursor > 0)
  BY DEF LoopStep, PassGate, GateTimesOut, TakePrefetched, TakeFromQueue, WakeUp, IdleOut,
         StreamSong, StreamSongFails, CommitSong, EnterCommit, CommitOK, StartSong, StartPrefetch,
         SongOver, JoinPrefetch, SettleAlone, Settle, LoopRaises, SongRetired, SongEnds, queueVars,
         memory, Claim
<1>4. stranded' = 0 => stranded = 0
  <2>1. CASE TakeFromQueue
    BY <2>1 DEF TakeFromQueue, Discard, Strand, LoopInv, ClientInv, ClientOK
  <2>2. CASE ~TakeFromQueue
    BY <2>2 DEF LoopStep, PassGate, GateTimesOut, TakePrefetched, WakeUp, IdleOut,
           StreamSong, StreamSongFails, CommitSong, StartSong, StartPrefetch, SongOver,
           JoinPrefetch, SettleAlone, Settle, LoopRaises, SongRetired, SongEnds, auxVars
  <2> QED BY <2>1, <2>2
<1> QED BY <1>1, <1>2, <1>3, <1>4

\* The prefetch's steps leave the commands and the loop alone.
LEMMA PrefetchAside ==
    ASSUME LoopInv, PrefetchStep \/ PrefetchRetired
    PROVE  /\ Same(Prefetch) /\ UNCHANGED <<user, arriving, lpc, song, owed>>
           /\ \/ UNCHANGED items
              \/ /\ pf.cancel /\ pf.pc = "streaming"
                 /\ \E form \in {pf.item, Resolved(pf.item)} : GiveBack(form)
           /\ stranded' = 0 => stranded = 0
<1> USE Callers
<1>1. Same(Prefetch)
  <2>1. \/ UNCHANGED op \/ Return(Prefetch) \/ Abandon(Prefetch)
        \/ \E name, arg, gen : Call(Prefetch, name, arg, gen)
    BY DEF PrefetchStep, PrefetchClaims, PrefetchStreams, PrefetchFails, PrefetchCancelled,
           PrefetchRetired, queueVars
  <2>2. UNCHANGED op => Same(Prefetch)
    BY DEF Same
  <2> QED BY <2>1, <2>2, CallFacts, ReturnFacts, AbandonFacts DEF LoopInv
<1>2. UNCHANGED <<user, arriving, lpc, song, owed>>
  BY DEF PrefetchStep, PrefetchClaims, PrefetchStreams, PrefetchFails, PrefetchCancelled,
         PrefetchRetired, Abandon, PrefetchUnchanged, queueVars, store, loopVars, userVars
<1>3. \/ UNCHANGED items
      \/ /\ pf.cancel /\ pf.pc = "streaming"
         /\ \E form \in {pf.item, Resolved(pf.item)} : GiveBack(form)
  BY DEF PrefetchStep, PrefetchClaims, PrefetchStreams, PrefetchFails, PrefetchCancelled,
         PrefetchRetired, Claim, Abandon, memory, queueVars
<1>4. stranded' = 0 => stranded = 0
  <2>1. UNCHANGED stranded \/ (\E c : Strand(c))
    BY DEF PrefetchStep, PrefetchClaims, PrefetchStreams, PrefetchFails, PrefetchCancelled,
           PrefetchRetired
  <2> QED BY <2>1 DEF Strand, LoopInv, ClientInv, ClientOK
<1> QED BY <1>1, <1>2, <1>3, <1>4

\* What a task gives back is the head, as it was or resolved, unless a clear came first.
LEMMA GiveBackResolves ==
    ASSUME LoopInv, HeadOK, stranded = 0, pf.item \in Item, pf.pc \in {"streaming", "done"},
           pfRef \/ pf.cancel, NEW form \in {pf.item, Resolved(pf.item)}, GiveBack(form)
    PROVE  /\ DOMAIN items' = DOMAIN items
           /\ \A k \in DOMAIN items : items'[k] \in {items[k], Resolved(items[k])}
<1> USE Callers, Numbers DEF LoopInv
<1>1. CASE cursor = 0
  BY <1>1 DEF GiveBack
<1>2. CASE cursor # 0
  <2>1. cursor > 0 /\ items' = [items EXCEPT ![cursor] = form]
    BY <1>2 DEF GiveBack
  <2>2. pf.item # NoItem /\ pfGen = generation
    BY <1>2, StaleGivesNothing
  <2>3. ~LoopHoldsClaim
    BY <2>2 DEF ClientInv, ClientOK, TurnsOK, NoTask, NoPrefetch, PrefetchRuns, LoopHoldsClaim
  <2>4. cursor = 1
    BY <2>1, <2>3 DEF ClientInv, ClientOK, ClaimsAccounted, LiveClaims
  <2>5. HeadIs(pf.item)
    BY <2>2 DEF HeadOK
  <2>6. HeadIs(form)
    BY <2>1, <2>5, HeadResolved
  <2> QED BY <2>1, <2>4, <2>6 DEF HeadIs
<1> QED BY <1>1, <1>2

\* A step that touches no command's call and keeps the deque's plays apart.
LEMMA ApartAside ==
    ASSUME ApartOK, stranded' = 0 => OnePlay(items') /\ AllSought(items'),
           UNCHANGED user, \A u \in Users : op'[u] = op[u]
    PROVE  ApartOK'
BY DEF ApartOK, Putting, Waits, OnePlay, AllSought, Sought

\* A settled claim leaves the rest apart.
LEMMA ReleaseApart ==
    ASSUME QueueInv, cursor > 0, Release, OnePlay(items), AllSought(items)
    PROVE  OnePlay(items') /\ AllSought(items')
<1>1. Len(items) \in Nat /\ DOMAIN items = 1 .. Len(items) /\ items # <<>> /\ items \in Seq(Item)
  BY DequeFacts, EmptySeq
<1> DEFINE t == Tail(items)
           g == [k \in DOMAIN t |-> k + 1]
<1>2. \A k \in DOMAIN t : k + 1 \in DOMAIN items /\ t[k] = items[k + 1] /\ k \in Nat
  BY <1>1, HeadTailProperties, LenProperties
<1> HIDE DEF t
<1>3. \A k \in DOMAIN t : g[k] \in DOMAIN items /\ t[k] = items[g[k]]
  BY <1>2
<1>4. \A j, k \in DOMAIN t : g[j] = g[k] => j = k
  BY <1>2
<1> HIDE DEF g
<1>5. OnePlay(t) /\ AllSought(t)
  BY <1>3, <1>4, OnePlayAlong
<1> QED BY <1>5 DEF Release, t

\* The loop.
LEMMA LoopKeepsApart ==
    ASSUME LoopInv, ApartOK, LoopStep \/ SongRetired \/ SongEnds
    PROVE  ApartOK'
<1>1. \A u \in Users : op'[u] = op[u]
  BY LoopAside, Callers DEF Same
<1>2. UNCHANGED user /\ (stranded' = 0 => stranded = 0)
  BY LoopAside
<1>3. stranded = 0 => OnePlay(items') /\ AllSought(items')
  BY LoopAside, ReleaseApart DEF ApartOK, LoopInv
<1> QED BY <1>1, <1>2, <1>3, ApartAside

\* The prefetch.
LEMMA PrefetchKeepsApart ==
    ASSUME LoopInv, HeadOK, ApartOK, PrefetchStep \/ PrefetchRetired
    PROVE  ApartOK'
<1>1. \A u \in Users : op'[u] = op[u]
  BY PrefetchAside, Callers DEF Same
<1>2. UNCHANGED user /\ (stranded' = 0 => stranded = 0)
  BY PrefetchAside
<1>3. stranded = 0 => OnePlay(items') /\ AllSought(items')
  <2>1. SUFFICES ASSUME stranded = 0 PROVE OnePlay(items') /\ AllSought(items')
    OBVIOUS
  <2>2. OnePlay(items) /\ AllSought(items)
    BY <2>1 DEF ApartOK
  <2>3. CASE UNCHANGED items
    BY <2>2, <2>3
  <2>4. CASE /\ pf.cancel /\ pf.pc = "streaming"
             /\ \E form \in {pf.item, Resolved(pf.item)} : GiveBack(form)
    <3>1. pf.item \in Item
      BY <2>4 DEF LoopInv, ClientInv, InHandOK
    <3>2. /\ DOMAIN items' = DOMAIN items
          /\ \A k \in DOMAIN items : items'[k] \in {items[k], Resolved(items[k])}
      BY <2>1, <2>4, <3>1, GiveBackResolves
    <3> QED BY <2>2, <3>2, OnePlayResolved, DequeFacts DEF LoopInv
  <2> QED BY <2>3, <2>4, PrefetchAside
<1> QED BY <1>1, <1>2, <1>3, ApartAside

\* The queue.
LEMMA QueueKeepsApart ==
    ASSUME LoopInv, ApartOK, NEW T, NewOK(T), NEW p \in Procs, QueueStep(p)
    PROVE  ApartOK'
<1> USE Callers
<1>1. UNCHANGED user /\ WaitsOK
  BY DEF QueueStep, userVars, NewOK
<1>2. ASSUME Same(p), ~Putting(p)', stranded' = 0 => OnePlay(items') /\ AllSought(items')
      PROVE  ApartOK'
  <2>1. \A u \in Users : Putting(u)' => Putting(u) /\ op'[u] = op[u]
    BY <1>2 DEF Putting, Same
  <2>2. \A u \in Users : Waits(u)' => Waits(u)
    BY <1>1 DEF Waits
  <2> QED BY <1>1, <1>2, <2>1, <2>2 DEF ApartOK, OnePlay, AllSought, Sought
<1>3. CASE EnterMutation(p) /\ UNCHANGED stranded
  <2>1. /\ p \in Users /\ ~Waits(p) /\ Same(p) /\ ~Putting(p)'
        /\ EnterPut(p) \/ EnterPutFront(p) => Putting(p)
    BY <1>1, <1>3, MutatorIsUser
  <2>2. ASSUME Putting(p), NEW j \in DOMAIN items, NEW k \in DOMAIN op[p].arg,
               op[p].arg[k].frag = 0
        PROVE  items[j].song # op[p].arg[k].song
    <3>1. op[p].arg[k].song \in Coming(p)
      BY <2>2 DEF Coming, Whole
    <3>2. items[j].song \in T /\ Coming(p) \cap T = {}
      BY <2>1, <2>2 DEF NewOK, KnownIn
    <3> QED BY <3>1, <3>2
  <2>3. ASSUME stranded = 0
        PROVE  OnePlay(items') /\ AllSought(items')
    <3>1. OnePlay(items) /\ AllSought(items)
      BY <2>3 DEF ApartOK
    <3>2. Putting(p) => OnePlay(op[p].arg) /\ AllSought(op[p].arg)
      BY <2>1 DEF ApartOK
    <3> QED BY <1>3, <2>1, <2>2, <3>1, <3>2, MutationKeepsApart DEF LoopInv
  <2> QED BY <1>2, <1>3, <2>1, <2>3
<1>4. CASE EnterClear(p)
  <2>1. Same(p) /\ ~Putting(p)'
    BY <1>1, <1>4, MutatorIsUser
  <2>2. items' = <<>> /\ DOMAIN items' = {}
    BY <1>4 DEF EnterClear
  <2>3. OnePlay(items') /\ AllSought(items')
    BY <2>2 DEF OnePlay, AllSought
  <2> QED BY <1>2, <2>1, <2>3
<1>5. CASE UNCHANGED stranded /\ (EnterFinishFailed(p) \/ Write(p) \/ WriteFails(p))
  <2>1. Same(p) /\ ~Putting(p)'
    <3>1. CASE EnterFinishFailed(p)
      <4>1. PICK todo, result : Proceed(p, todo, result)
        BY <3>1 DEF EnterFinishFailed
      <4> QED BY <4>1, ProceedFacts DEF Putting, LoopInv
    <3>2. CASE Write(p) \/ WriteFails(p)
      <4>1. op[p].phase = "store" /\ \E todo : Issued(p, todo)
        BY <3>2 DEF Write, WriteFails
      <4> QED BY <4>1, IssuedFacts DEF Putting, LoopInv
    <3> QED BY <1>5, <3>1, <3>2
  <2>2. UNCHANGED items \/ (Release /\ cursor # 0)
    BY <1>5 DEF EnterFinishFailed, Write, WriteFails, memory
  <2>3. cursor # 0 => cursor > 0
    BY Numbers DEF LoopInv
  <2> QED BY <1>2, <1>5, <2>1, <2>2, <2>3, ReleaseApart DEF ApartOK, LoopInv
<1> QED BY <1>3, <1>4, <1>5 DEF QueueStep
-----------------------------------------------------------------------------
\* What a command does to the queue without the lock.
LEMMA UserItems ==
    ASSUME LoopInv, NEW u \in Users, UserStep(u) \/ Finish(u) \/ Inserted(u)
    PROVE  /\ \A v \in Users : v # u => user'[v] = user[v]
           /\ \/ UNCHANGED items
              \/ pfRef /\ pf.pc = "done" /\ pf.item \in Item /\ GiveBack(pf.item)
<1>1. \A v \in Users : v # u => user'[v] = user[v]
  BY DEF LoopInv, ClientInv, ClientOK, UserStep, Play, Playlist, PlayFront, PlayNow, CutIn,
         Enqueue, ResolveFirst, Bulk, Busy, BulkCancelled, Skip, CutInTooLate, Interject,
         InterjectCancelled, Finish, Inserted, Insert, FallBack
<1>2. \/ UNCHANGED items
      \/ pfRef /\ ~PrefetchRuns /\ pf.item # NoItem /\ GiveBack(pf.item)
  BY DEF UserStep, Play, Playlist, PlayFront, PlayNow, CutIn, Enqueue, ResolveFirst, Bulk, Busy,
         BulkCancelled, Skip, CutInTooLate, Interject, InterjectCancelled, Finish, Inserted,
         memory, queueVars
<1>3. ~PrefetchRuns /\ pf.item # NoItem => pf.pc = "done" /\ pf.item \in Item
  BY DEF PrefetchRuns, LoopInv, ClientInv, ClientOK, InHandOK, TaskPoints, MaybeItem
<1> QED BY <1>1, <1>2, <1>3

\* What a command has to show for itself.
LEMMA UserLeavesApart ==
    ASSUME LoopInv, HeadOK, ApartOK, NEW u \in Users, UserStep(u) \/ Finish(u) \/ Inserted(u),
           Putting(u)' => /\ OnePlay(op'[u].arg) /\ AllSought(op'[u].arg)
                          /\ op'[u].name = "put" => Len(op'[u].arg) = 1,
           Waits(u)' => user'[u].item.form # "search"
    PROVE  ApartOK'
<1>1. Same(u) /\ UNCHANGED stranded
  BY UserAside DEF LoopInv
<1>2. \A v \in Users : v # u => op'[v] = op[v] /\ user'[v] = user[v]
  BY <1>1, UserItems, Callers DEF Same
<1>3. stranded = 0 => OnePlay(items') /\ AllSought(items')
  <2>1. SUFFICES ASSUME stranded = 0 PROVE OnePlay(items') /\ AllSought(items')
    OBVIOUS
  <2>2. OnePlay(items) /\ AllSought(items)
    BY <2>1 DEF ApartOK
  <2>3. CASE UNCHANGED items
    BY <2>2, <2>3
  <2>4. CASE pfRef /\ pf.pc = "done" /\ pf.item \in Item /\ GiveBack(pf.item)
    <3>1. /\ DOMAIN items' = DOMAIN items
          /\ \A k \in DOMAIN items : items'[k] \in {items[k], Resolved(items[k])}
      BY <2>1, <2>4, GiveBackResolves
    <3> QED BY <2>2, <3>1, OnePlayResolved, DequeFacts DEF LoopInv
  <2> QED BY <2>3, <2>4, UserItems
<1> QED BY <1>1, <1>2, <1>3 DEF ApartOK, Putting, Waits, OnePlay, AllSought, Sought

\* Songs as users queue them are plays of their own.
LEMMA FreshApart ==
    ASSUME ClientOK, \A j, k \in DOMAIN arriving : arriving[j] = arriving[k] => j = k,
           NEW n \in 1 .. 2, Len(arriving) >= n,
           NEW arg, arg = [k \in 1 .. n |-> Fresh(arriving[k])]
    PROVE  OnePlay(arg) /\ AllSought(arg) /\ Len(arg) = n
<1>1. DOMAIN arg = 1 .. n /\ Len(arg) = n
  OBVIOUS
<1>2. \A k \in 1 .. n : k \in DOMAIN arriving /\ arriving[k] \in Songs
  BY LenProperties, ElementOfSeq DEF ClientOK
<1>3. \A k \in 1 .. n : /\ arg[k].song = arriving[k] /\ arg[k].frag = 0
                        /\ arg[k].form = SongForm[arriving[k]]
  BY DEF Fresh
<1>4. OnePlay(arg)
  BY <1>1, <1>2, <1>3 DEF OnePlay
<1>5. AllSought(arg)
  BY <1>1, <1>2, <1>3 DEF AllSought, Sought, SearchSongs
<1> QED BY <1>1, <1>4, <1>5

\* -play, in its forms.
LEMMA EnqueueKeepsApart ==
    ASSUME LoopInv, HeadOK, ApartOK, NEW T, NewOK(T), NEW u \in Users, UserStep(u),
           NEW c, NEW name \in PutNames, NEW n \in 1 .. 2, Enqueue(u, c, name, n),
           name = "put" => n = 1
    PROVE  ApartOK'
<1> USE Callers DEF LoopInv, ClientInv
<1> DEFINE arg == [k \in 1 .. n |-> Fresh(arriving[k])]
<1>1. OnePlay(arg) /\ AllSought(arg) /\ Len(arg) = n
  BY FreshApart DEF Enqueue, Arrive, NewOK
<1>2. Call(u, name, arg, 0)
  BY DEF Enqueue
<1> HIDE DEF arg
<1>3. op'[u].arg = arg /\ op'[u].name = name
  BY <1>2, CallArg, CallFacts
<1>4. user'[u].pc = "queueing"
  BY DEF Enqueue, Busy, NoCommand, ClientOK
<1>5. ~Waits(u)'
  BY <1>4 DEF Waits
<1> QED BY <1>1, <1>3, <1>5, UserLeavesApart

\* The song in hand, alone or in front of the current one's tail.
LEMMA InHandApart ==
    ASSUME NEW i, i.form # "search", NEW j \in Item
    PROVE  /\ OnePlay(<<i>>) /\ AllSought(<<i>>) /\ Len(<<i>>) = 1
           /\ OnePlay(<<i, Parked(j)>>) /\ AllSought(<<i, Parked(j)>>)
<1>1. Parked(j).frag # 0 /\ Parked(j).form # "search"
  <2>1. Parked(j).frag # 0
    BY ParkedTail
  <2> DEFINE heardNow == j.played \/ ~NotStarted
             whole == [j EXCEPT !.form = "song"]
             cut == [whole EXCEPT !.frag = j.frag + 1]
  <2>2. Parked(j) = [cut EXCEPT !.played = heardNow]
    BY DEF Parked, Item
  <2>3. whole \in Item /\ whole.form = "song"
    BY DEF Item, Forms
  <2> HIDE DEF whole, heardNow
  <2>4. cut.form = "song" /\ DOMAIN cut = {"song", "form", "frag", "played"}
    BY <2>3 DEF Item
  <2> HIDE DEF cut
  <2>5. Parked(j).form = "song"
    BY <2>2, <2>4
  <2> QED BY <2>1, <2>5
<1> DEFINE t == Parked(j)
<1>2. t.frag # 0 /\ t.form # "search"
  BY <1>1
<1> HIDE DEF t
<1>3. DOMAIN <<i>> = {1} /\ <<i>>[1] = i /\ Len(<<i>>) = 1
  OBVIOUS
<1>4. DOMAIN <<i, t>> = {1, 2} /\ <<i, t>>[1] = i /\ <<i, t>>[2] = t
  OBVIOUS
<1>5. OnePlay(<<i>>) /\ AllSought(<<i>>)
  BY <1>3 DEF OnePlay, AllSought, Sought
<1>6. OnePlay(<<i, t>>) /\ AllSought(<<i, t>>)
  BY <1>2, <1>4 DEF OnePlay, AllSought, Sought
<1> QED BY <1>3, <1>5, <1>6 DEF t

\* A call that queues the song in hand.
LEMMA InHandKeepsApart ==
    ASSUME LoopInv, HeadOK, ApartOK, NEW u \in Users, UserStep(u),
           Waits(u), user'[u].pc \in {"queueing", "inserting"},
           NEW name, NEW i \in Item,
           \/ Call(u, name, <<user[u].item>>, 0)
           \/ name # "put" /\ Call(u, name, <<user[u].item, Parked(i)>>, 0)
    PROVE  ApartOK'
<1> DEFINE q == user[u].item
<1>1. q.form # "search" /\ ~Waits(u)'
  BY DEF ApartOK, Waits
<1> HIDE DEF q
<1>2. CASE Call(u, name, <<q>>, 0)
  <2>1. op'[u].arg = <<q>>
    BY <1>2, Callers, CallArg DEF LoopInv
  <2> QED BY <1>1, <2>1, InHandApart, UserLeavesApart
<1>3. CASE name # "put" /\ Call(u, name, <<q, Parked(i)>>, 0)
  <2>1. op'[u].arg = <<q, Parked(i)>> /\ op'[u].name # "put"
    BY <1>3, Callers, CallArg, CallFacts DEF LoopInv
  <2> QED BY <1>1, <2>1, InHandApart, UserLeavesApart
<1> QED BY <1>2, <1>3 DEF q

\* The commands.
LEMMA UserKeepsApart ==
    ASSUME LoopInv, HeadOK, ApartOK, NEW T, NewOK(T), NEW u \in Users,
           UserStep(u) \/ Finish(u) \/ Inserted(u)
    PROVE  ApartOK'
<1> USE Callers DEF LoopInv, ClientInv, ClientOK
<1>1. user[u] \in UserCommand /\ DOMAIN user = Users /\ WaitsOK
  BY DEF NewOK
<1>2. CASE Play(u) \/ Playlist(u) \/ PlayFront(u)
  BY <1>2, EnqueueKeepsApart DEF Play, Playlist, PlayFront, PutNames, UserStep
<1>3. ASSUME NEW c, ResolveFirst(u, c), UserStep(u)
      PROVE  ApartOK'
  <2> DEFINE it == Resolved(Fresh(Head(arriving)))
  <2>1. user[u] = NoCommand /\ Arrive(1) /\ UNCHANGED op
    BY <1>3 DEF ResolveFirst, Begin, queueVars
  <2>2. op[u] = Idle
    BY <1>1, <2>1 DEF WaitsOK, NoCommand
  <2>3. Head(arriving) \in Songs
    <3>1. Len(arriving) >= 1 /\ Len(arriving) \in Nat /\ arriving # <<>>
      BY <2>1, LenProperties, EmptySeq DEF Arrive
    <3> QED BY <3>1, ElementOfSeq, HeadTailProperties
  <2>4. it.form # "search"
    <3> DEFINE f == Fresh(Head(arriving))
    <3>1. f \in Item
      BY <2>3, FreshItem
    <3> HIDE DEF f
    <3>2. Resolved(f).form # "search"
      BY <3>1 DEF Resolved, Item
    <3> QED BY <3>2 DEF f
  <2>5. user' = [user EXCEPT ![u] = [NoCommand EXCEPT !.cmd = c, !.pc = "resolving", !.item = it]]
    BY <1>3 DEF ResolveFirst
  <2> HIDE DEF it
  <2>6. user'[u].item = it
    BY <1>1, <2>5 DEF NoCommand
  <2>7. ~Putting(u)'
    BY <2>1, <2>2 DEF Putting, Idle
  <2> QED BY <1>3, <2>4, <2>6, <2>7, UserLeavesApart
<1>4. CASE PlayNow(u) \/ CutIn(u)
  <2>1. ASSUME NEW name, name \in {"put", "putFront"}, Enqueue(u, "playnow", name, 1), UserStep(u)
        PROVE  ApartOK'
    BY <2>1, EnqueueKeepsApart DEF PutNames
  <2> QED BY <1>3, <1>4, <2>1 DEF PlayNow, CutIn, UserStep
<1>5. ASSUME NEW c \in BulkNames, Bulk(u, c), UserStep(u)
      PROVE  ApartOK'
  <2>1. user[u] = NoCommand
    BY <1>5 DEF Bulk, Begin
  <2>2. op[u] = Idle
    BY <1>1, <2>1 DEF WaitsOK, NoCommand
  <2>3. user'[u].cmd = c /\ user'[u].pc \in {"cancelling", "queueing"}
    BY <1>1, <1>5 DEF Bulk, Busy, NoCommand
  <2>4. ~Waits(u)'
    BY <2>3 DEF Waits, BulkNames
  <2>5. ~Putting(u)'
    <3>1. CASE UNCHANGED op
      BY <2>2, <3>1 DEF Putting, PutNames, Idle
    <3>2. CASE Call(u, c, <<>>, 0)
      BY <3>2, CallFacts DEF Putting, PutNames, BulkNames
    <3> QED BY <1>5, <3>1, <3>2 DEF Bulk
  <2> QED BY <1>5, <2>4, <2>5, UserLeavesApart
<1>6. CASE BulkCancelled(u)
  <2>1. user'[u].pc = "queueing"
    BY <1>1, <1>6 DEF BulkCancelled, UserCommand
  <2>2. ~Putting(u)' /\ ~Waits(u)'
    BY <1>6, <2>1, CallFacts DEF BulkCancelled, Putting, PutNames, BulkNames, Waits
  <2> QED BY <1>6, <2>2, UserLeavesApart DEF UserStep
<1>7. CASE Skip(u)
  <2>1. UNCHANGED <<user, op>>
    BY <1>7 DEF Skip, Begin, queueVars
  <2> QED BY <1>7, <2>1, UserLeavesApart DEF UserStep, ApartOK, Putting, Waits
<1>8. CASE CutInTooLate(u)
  <2>1. Waits(u) /\ user'[u].pc = "queueing"
    BY <1>1, <1>8 DEF CutInTooLate, Busy, NoCommand, Waits
  <2>2. user[u].item \in Item
    BY <1>8 DEF CutInTooLate, InHandOK
  <2> QED BY <1>8, <2>1, <2>2, InHandKeepsApart DEF CutInTooLate, UserStep
<1>9. ASSUME FallBack(u, user[u].item), Waits(u), user[u].item \in Item, UserStep(u)
      PROVE  ApartOK'
  <2>1. user'[u].pc = "queueing"
    BY <1>1, <1>9 DEF FallBack, Busy, NoCommand
  <2> QED BY <1>9, <2>1, InHandKeepsApart DEF FallBack
<1>10. ASSUME NEW i \in Item, Insert(u, user[u].item, i), Waits(u), UserStep(u)
       PROVE  ApartOK'
  <2>1. user'[u].pc = "inserting"
    BY <1>1, <1>10 DEF Insert, UserCommand
  <2>2. \/ Call(u, "putFront", <<user[u].item>>, 0)
        \/ Call(u, "putFront", <<user[u].item, Parked(i)>>, 0)
    BY <1>10 DEF Insert
  <2>3. "putFront" # "put"
    OBVIOUS
  <2> QED BY <1>10, <2>1, <2>2, <2>3, InHandKeepsApart
<1>11. CASE Interject(u)
  <2>1. Waits(u) /\ user[u].item \in Item
    BY <1>11 DEF Interject, Waits, InHandOK
  <2>2. current # NoItem => current \in Item
    BY DEF MaybeItem
  <2>3. CASE /\ UNCHANGED op
             /\ user' = [user EXCEPT ![u].pc = "cancelling", ![u].target = current]
    <3>1. user'[u].item = user[u].item
      BY <1>1, <2>3 DEF UserCommand
    <3>2. op[u] = Idle /\ user[u].item.form # "search"
      BY <1>1, <2>1 DEF WaitsOK, ApartOK
    <3>3. ~Putting(u)'
      BY <2>3, <3>2 DEF Putting, PutNames, Idle
    <3> QED BY <1>11, <3>1, <3>2, <3>3, UserLeavesApart DEF UserStep
  <2> QED BY <1>9, <1>10, <1>11, <2>1, <2>2, <2>3 DEF Interject, UserStep
<1>12. CASE InterjectCancelled(u)
  <2>1. Waits(u) /\ user[u].item \in Item /\ user[u].target \in Item
    BY <1>12 DEF InterjectCancelled, Waits, InHandOK
  <2> QED BY <1>9, <1>10, <1>12, <2>1 DEF InterjectCancelled, UserStep
<1>13. CASE Finish(u) \/ Inserted(u)
  <2>1. op'[u] = Idle
    BY <1>13, ReturnFacts DEF Finish, Inserted
  <2>2. user'[u].pc = "idle"
    BY <1>1, <1>13 DEF Finish, Inserted, NoCommand
  <2>3. ~Putting(u)' /\ ~Waits(u)'
    BY <2>1, <2>2 DEF Putting, PutNames, Waits, Idle
  <2> QED BY <1>13, <2>3, UserLeavesApart
<1> QED BY <1>2, <1>4, <1>5, <1>6, <1>7, <1>8, <1>11, <1>12, <1>13 DEF UserStep

\* Every step keeps whole plays apart.
LEMMA ApartStepwise ==
    LoopInv /\ DropInv /\ HeadOK /\ ApartOK /\ [LoopNext]_vars => ApartOK'
<1> SUFFICES ASSUME LoopInv, DropInv, HeadOK, ApartOK, [LoopNext]_vars PROVE ApartOK'
  OBVIOUS
<1>1. PICK T \in SUBSET Songs : NewOK(T)
  BY DEF DropInv
<1>2. CASE UNCHANGED vars
  BY <1>2 DEF vars, ApartOK, Putting, Waits, OnePlay, AllSought, Sought, queueVars, memory,
              userVars, auxVars
<1> QED BY <1>1, <1>2, LoopKeepsApart, PrefetchKeepsApart, QueueKeepsApart, UserKeepsApart
        DEF LoopNext, Caller
-----------------------------------------------------------------------------
(* The Redis list and the deque.                                             *)

\* What a committed song owes is owed until the loop has said that it started.
OwedOK == owed = <<>> \/ (Len(owed) = 1 /\ lpc \in {"start", "raise"})

\* Only the lock's holder has a command to issue, and no more than one.
ShapeOK ==
    \A p \in Procs : writes[p] # <<>> =>
        op[p].phase = "store" /\ \E c \in RedisCommand : writes[p] = <<c>>

\* An LREM that takes as many entries as it was asked for is not followed by a rewrite.
Complete(c) == c.cmd = "lrem" => ~(Cardinality(LremHits(c.drop)) < Len(c.drop))

\* The command under way will bring the list back in line, whatever else is popped.
InStep(c) ==
    IF c.cmd = "rpush"
    THEN /\ Matches(mirror \o c.ents, owed \o Entries(items))
         /\ Len(c.ents) <= Len(Entries(items))
    ELSE owed = <<>> /\ (Complete(c) => Matches(Applied(c), Entries(items)))

\* What the command in flight will make of the list.
OnTheWay(c) ==
    /\ c.cmd \in {"del", "rebuild"} => Matches(c.ents, Entries(items))
    /\ c.cmd = "del" => c.ents = <<>>
    /\ ~degraded => InStep(c)

\* With no claim stranded, the list is in line with the deque, or about to be.
SyncOK ==
    stranded = 0 =>
      /\ \A p \in Procs, c \in RedisCommand : writes[p] = <<c>> => OnTheWay(c)
      /\ Quiet /\ ~degraded => Matches(mirror, owed \o Entries(items))

\* A removal's LREM takes the entries of what it removed and no other: an entry that
\* reads the same is pending, so it was removed as well, or is a search's, and no other
\* search reads the same.
LEMMA LremTakesRemoved ==
    ASSUME QueueInv, mirror \in Seq(Item), OnePlay(items), AllSought(items),
           Matches(mirror, Entries(items)), NEW gone \in SUBSET Pending,
           \A j \in gone, k \in Pending : Alike(items[j], items[k]) => k \in gone,
           NEW drop, drop = Entries(At(items, gone)),
           \A k \in DOMAIN drop : Blob(drop[k]) \notin ClaimedBlobs,
           ~(Cardinality(LremHits(drop)) < Len(drop))
    PROVE  Matches(At(mirror, DOMAIN mirror \ LremHits(drop)),
                   Entries(At(items, DOMAIN items \ gone)))
<1> DEFINE E == Entries(items)
           P == Persisted(items)
           G == {k \in DOMAIN E : Pos(P)[k] \in gone}
           H == LremHits(drop)
           kept == DOMAIN items \ gone
           rest == {k \in DOMAIN E : Pos(P)[k] \in kept}
<1>1. /\ items \in Seq(Item) /\ DOMAIN items = 1 .. Len(items) /\ Len(items) \in Nat
      /\ cursor \in 0 .. Len(items) /\ Pending \subseteq DOMAIN items
  BY DequeFacts DEF Pending
<1>2. /\ E \in Seq(Item) /\ DOMAIN E = 1 .. Cardinality(P) /\ Cardinality(P) \in Nat
      /\ \A k \in DOMAIN E : Pos(P)[k] \in DOMAIN items /\ IsPersisted(items[Pos(P)[k]])
                             /\ E[k] = items[Pos(P)[k]] /\ items[Pos(P)[k]] \in Item
  <2>1. /\ E \in Seq(Item) /\ IsFiniteSet(P) /\ DOMAIN E = 1 .. Cardinality(P)
        /\ \A k \in DOMAIN E : Pos(P)[k] \in DOMAIN items /\ IsPersisted(items[Pos(P)[k]])
                               /\ E[k] = items[Pos(P)[k]]
    BY <1>1, EntriesFacts
  <2>2. Cardinality(P) \in Nat
    BY <2>1, FS_CardinalityType
  <2>3. \A k \in DOMAIN E : items[Pos(P)[k]] \in Item
    BY <1>1, <2>1, ElementOfSeq
  <2> QED BY <2>1, <2>2, <2>3
<1>3. drop = At(E, G)
  BY <1>1, EntriesAt
<1>4. Entries(At(items, kept)) = At(E, rest)
  BY <1>1, EntriesAt
<1>5. rest = DOMAIN E \ G
  BY <1>2
<1>6. DOMAIN mirror = DOMAIN E /\ \A k \in DOMAIN E : Stands(mirror[k], E[k]) /\ mirror[k] \in Item
  BY <1>2, LenProperties, ElementOfSeq DEF Matches
<1> HIDE DEF E, P, G, rest
<1>7. G \in SUBSET DOMAIN E
  BY DEF G
<1>8. /\ Cardinality(G) \in Nat /\ IsFiniteSet(G) /\ Len(drop) = Cardinality(G)
      /\ drop \in Seq(Item) /\ DOMAIN drop = 1 .. Cardinality(G)
      /\ \A j \in DOMAIN drop : \E g \in G : drop[j] = E[g]
  <2>1. /\ Cardinality(G) \in Nat /\ IsFiniteSet(G)
        /\ At(E, G) \in Seq(Item) /\ Len(At(E, G)) = Cardinality(G)
        /\ DOMAIN At(E, G) = 1 .. Cardinality(G)
        /\ \A k \in 1 .. Cardinality(G) : Pos(G)[k] \in G /\ At(E, G)[k] = E[Pos(G)[k]]
    BY <1>2, <1>7, AtFacts
  <2> QED BY <1>3, <2>1
<1>9. H \subseteq G
  <2>1. SUFFICES ASSUME NEW k \in H PROVE k \in G
    OBVIOUS
  <2> DEFINE m == mirror[k]
             before == {j \in 1 .. k : Blob(mirror[j]) = Blob(m)}
             asked == {j \in DOMAIN drop : Blob(drop[j]) = Blob(m)}
  <2>2. k \in DOMAIN mirror /\ Cardinality(before) <= Cardinality(asked)
    BY <2>1 DEF LremHits
  <2>3. k \in Nat /\ k \in 1 .. k /\ k \in DOMAIN E
    BY <1>2, <1>6, <2>2
  <2>4. asked # {}
    <3>1. k \in before /\ before \subseteq 1 .. k
      BY <2>3
    <3>2. IsFiniteSet(1 .. k)
      BY <2>3, FS_Interval
    <3> HIDE DEF before
    <3>3. IsFiniteSet(before) /\ Cardinality(before) # 0 /\ Cardinality(before) \in Nat
      BY <3>1, <3>2, FS_Subset, FS_EmptySet, FS_CardinalityType
    <3>4. ASSUME asked = {} PROVE FALSE
      <4>1. Cardinality(asked) = 0
        BY <3>4, FS_EmptySet
      <4> HIDE DEF asked
      <4> QED BY <2>2, <3>3, <4>1
    <3> QED BY <3>4
  <2>5. PICK j \in DOMAIN drop : Blob(drop[j]) = Blob(m)
    BY <2>4
  <2>6. PICK g \in G : drop[j] = E[g]
    BY <1>8
  <2> DEFINE i == items[Pos(P)[k]]
             d == items[Pos(P)[g]]
  <2>7. /\ Pos(P)[g] \in gone /\ d = drop[j] /\ d \in Item /\ IsPersisted(d)
        /\ Pos(P)[k] \in DOMAIN items /\ i = E[k] /\ i \in Item /\ IsPersisted(i)
        /\ Pos(P)[g] \in DOMAIN items
    BY <1>2, <2>3, <2>6 DEF G
  <2>8. /\ Link[d.song] = Link[m.song] /\ d.form = m.form /\ d.frag = m.frag
        /\ d.played = m.played
    BY <2>5, <2>7 DEF Blob
  <2>9. Stands(m, i) /\ m \in Item
    BY <1>6, <2>3, <2>7
  <2> HIDE DEF m
  <2>10. CASE m.form # "search"
    <3>1. i = m
      BY <2>9, <2>10, StandsFacts
    <3>2. Blob(i) \notin ClaimedBlobs
      BY <2>5, <3>1
    <3>3. Pos(P)[k] \notin 1 .. cursor
      BY <2>7, <3>2 DEF ClaimedBlobs
    <3>4. Pos(P)[k] \in Pending
      BY <1>1, <2>7, <3>3 DEF Pending
    <3>5. Alike(d, i)
      BY <2>8, <3>1 DEF Alike
    <3>6. Pos(P)[k] \in gone
      BY <2>7, <3>4, <3>5
    <3> QED BY <2>3, <3>6 DEF G
  <2>11. CASE m.form = "search"
    <3>1. m.song \in SearchSongs /\ m.frag = 0
      BY <2>9, <2>11 DEF Stands, Sought
    <3>2. Sought(d)
      BY <2>7 DEF AllSought
    <3>3. d.song \in SearchSongs /\ d.frag = 0
      BY <2>8, <2>11, <3>2 DEF Sought
    <3>4. m.song = d.song
      BY <2>8, <3>1, <3>3, SearchAssumption DEF SearchAssumption
    <3>5. i.song = m.song /\ i.frag = m.frag
      BY <2>9, StandsFacts
    <3>6. Pos(P)[k] = Pos(P)[g]
      BY <2>7, <3>1, <3>3, <3>4, <3>5 DEF OnePlay
    <3> QED BY <2>3, <2>7, <3>6 DEF G
  <2> QED BY <2>10, <2>11
<1>10. H = G
  <2>1. ~(Cardinality(H) < Cardinality(G))
    BY <1>8
  <2> HIDE DEF H
  <2>2. IsFiniteSet(H) /\ Cardinality(H) \in Nat /\ Cardinality(H) <= Cardinality(G)
        /\ (Cardinality(H) = Cardinality(G) => H = G)
    BY <1>8, <1>9, FS_Subset, FS_CardinalityType
  <2> QED BY <1>8, <2>1, <2>2
<1>11. Matches(At(mirror, DOMAIN mirror \ G), At(E, DOMAIN mirror \ G))
  <2> DEFINE S == DOMAIN mirror \ G
  <2>1. S \in SUBSET DOMAIN mirror
    OBVIOUS
  <2>2. Matches(mirror, E)
    BY DEF E
  <2> HIDE DEF S
  <2>3. Matches(At(mirror, S), At(E, S))
    BY <1>2, <2>1, <2>2, MatchesAt
  <2> QED BY <2>3 DEF S
<1> QED BY <1>4, <1>5, <1>6, <1>10, <1>11
-----------------------------------------------------------------------------
\* A call, a return and a commit issue no command.
LEMMA OpSteps ==
    ASSUME LoopInv
    PROVE  /\ LoopStep \/ SongRetired \/ SongEnds =>
                UNCHANGED op \/ op[Loop].phase # "store"
           /\ PrefetchStep \/ PrefetchRetired =>
                \/ UNCHANGED <<writes, store>> /\ (UNCHANGED op \/ op[Prefetch].phase # "store")
                \/ PrefetchCancelled /\ Abandon(Prefetch)
           /\ \A u \in Users : UserStep(u) \/ Finish(u) \/ Inserted(u) =>
                UNCHANGED op \/ op[u].phase # "store"
<1> USE Callers DEF LoopInv
<1>1. ASSUME NEW p \in Procs, NEW name, NEW arg, NEW gen, Call(p, name, arg, gen) \/ Return(p)
      PROVE  op[p].phase # "store"
  BY <1>1 DEF Call, Return, Idle
<1>2. LoopStep \/ SongRetired \/ SongEnds => UNCHANGED op \/ op[Loop].phase # "store"
  <2>1. LoopStep \/ SongRetired \/ SongEnds =>
          \/ UNCHANGED op \/ Return(Loop) \/ EnterCommit(Loop)
          \/ \E name, arg, gen : Call(Loop, name, arg, gen)
    BY DEF LoopStep, PassGate, GateTimesOut, TakePrefetched, TakeFromQueue, WakeUp, IdleOut,
           StreamSong, StreamSongFails, CommitSong, StartSong, StartPrefetch, SongOver,
           JoinPrefetch, SettleAlone, Settle, LoopRaises, SongRetired, SongEnds, queueVars
  <2>2. EnterCommit(Loop) => op[Loop].phase # "store"
    BY DEF EnterCommit, Holds
  <2> QED BY <1>1, <2>1, <2>2
<1>3. PrefetchStep \/ PrefetchRetired =>
         \/ UNCHANGED <<writes, store>> /\ (UNCHANGED op \/ op[Prefetch].phase # "store")
         \/ PrefetchCancelled /\ Abandon(Prefetch)
  <2>1. PrefetchStep \/ PrefetchRetired =>
          \/ /\ UNCHANGED <<writes, store>>
             /\ \/ UNCHANGED op \/ Return(Prefetch)
                \/ \E name, arg, gen : Call(Prefetch, name, arg, gen)
          \/ PrefetchCancelled /\ Abandon(Prefetch)
    BY DEF PrefetchStep, PrefetchClaims, PrefetchStreams, PrefetchFails, PrefetchCancelled,
           PrefetchRetired, queueVars
  <2> QED BY <1>1, <2>1
<1>4. ASSUME NEW u \in Users, UserStep(u) \/ Finish(u) \/ Inserted(u)
      PROVE  UNCHANGED op \/ op[u].phase # "store"
  <2>1. ASSUME NEW q, NEW target, Insert(u, q, target) \/ FallBack(u, q)
        PROVE  op[u].phase # "store"
    BY <1>1, <2>1 DEF Insert, FallBack
  <2>2. ASSUME NEW c, NEW name, NEW n, Enqueue(u, c, name, n)
        PROVE  op[u].phase # "store"
    BY <1>1, <2>2 DEF Enqueue
  <2>3. CASE Finish(u) \/ Inserted(u)
    BY <1>1, <2>3 DEF Finish, Inserted
  <2>4. CASE Play(u) \/ Playlist(u) \/ PlayFront(u)
    BY <2>2, <2>4 DEF Play, Playlist, PlayFront
  <2>5. CASE PlayNow(u) \/ CutIn(u) \/ Skip(u)
    BY <2>2, <2>5 DEF PlayNow, CutIn, ResolveFirst, Skip, queueVars
  <2>6. CASE (\E c \in BulkNames : Bulk(u, c)) \/ BulkCancelled(u) \/ CutInTooLate(u)
    BY <1>1, <2>6 DEF Bulk, BulkCancelled, CutInTooLate
  <2>7. CASE Interject(u) \/ InterjectCancelled(u)
    BY <2>1, <2>7 DEF Interject, InterjectCancelled
  <2> QED BY <1>4, <2>3, <2>4, <2>5, <2>6, <2>7 DEF UserStep
<1> QED BY <1>2, <1>3, <1>4

\* Steps that issue no command.
LEMMA ShapeAside ==
    ASSUME ShapeOK, NEW p \in Procs, Same(p), UNCHANGED op \/ op[p].phase # "store",
           UNCHANGED writes
    PROVE  ShapeOK'
<1>1. SUFFICES ASSUME NEW q \in Procs, writes'[q] # <<>>
               PROVE  op'[q].phase = "store" /\ \E c \in RedisCommand : writes'[q] = <<c>>
  BY DEF ShapeOK
<1>2. op[q].phase = "store" /\ \E c \in RedisCommand : writes[q] = <<c>>
  BY <1>1 DEF ShapeOK
<1>3. op'[q] = op[q]
  BY <1>2 DEF Same
<1> QED BY <1>2, <1>3

\* The lock's holder is alone with the list.
LEMMA HolderAlone ==
    ASSUME QueueInv, ShapeOK, NEW p \in Procs, NEW name, Holds(p, name)
    PROVE  \A q \in Procs : writes[q] = <<>>
<1>1. SUFFICES ASSUME NEW q \in Procs, writes[q] # <<>> PROVE FALSE
  OBVIOUS
<1>2. op[q].phase = "store" /\ Head(mutex) = q
  BY <1>1, LockFacts DEF ShapeOK
<1> QED BY <1>2 DEF Holds

\* So is the operation whose commands are being issued.
LEMMA WriterAlone ==
    ASSUME QueueInv, ShapeOK, NEW p \in Procs, op[p].phase = "store"
    PROVE  \A q \in Procs : q # p => writes[q] = <<>>
<1>1. SUFFICES ASSUME NEW q \in Procs, q # p, writes[q] # <<>> PROVE FALSE
  OBVIOUS
<1>2. op[q].phase = "store" /\ Head(mutex) = q
  BY <1>1, LockFacts DEF ShapeOK
<1>3. Head(mutex) = p
  BY LockFacts
<1> QED BY <1>1, <1>2, <1>3

\* The operation is over, its commands issued.
LEMMA Settled ==
    ASSUME StoreOK, NEW p \in Procs, \A q \in Procs : q # p => writes[q] = <<>>,
           writes' = [writes EXCEPT ![p] = <<>>],
           stranded' = 0 /\ ~degraded' => Matches(mirror', owed' \o Entries(items'))
    PROVE  ShapeOK' /\ SyncOK'
<1>1. \A q \in Procs : writes'[q] = <<>>
  BY DEF StoreOK
<1>2. \A c : <<c>> # <<>>
  OBVIOUS
<1> QED BY <1>1, <1>2 DEF ShapeOK, SyncOK

\* The operation has a command left.
LEMMA Sent ==
    ASSUME StoreOK, NEW p \in Procs, \A q \in Procs : q # p => writes[q] = <<>>,
           NEW c \in RedisCommand, writes' = [writes EXCEPT ![p] = <<c>>],
           op'[p].phase = "store", stranded' = 0 => OnTheWay(c)'
    PROVE  ShapeOK' /\ SyncOK'
<1>1. writes'[p] = <<c>> /\ \A q \in Procs : q # p => writes'[q] = <<>>
  BY DEF StoreOK
<1>2. \A d : <<d>> # <<>> /\ (<<d>> = <<c>> => d = c)
  OBVIOUS
<1>3. ShapeOK'
  BY <1>1 DEF ShapeOK
<1>4. ~Quiet'
  BY <1>1, <1>2 DEF Quiet
<1>5. \A q \in Procs, d \in RedisCommand : writes'[q] = <<d>> => d = c
  BY <1>1, <1>2
<1>6. SyncOK'
  BY <1>4, <1>5 DEF SyncOK
<1> QED BY <1>3, <1>6

\* What the writes of the mirror are.
LEMMA RewriteIs ==
    ASSUME NEW s \in Seq(Item)
    PROVE  \E c \in RedisCommand : /\ Rewrite(s) = <<c>> /\ c.cmd \in {"del", "rebuild"}
                                   /\ c.ents = Entries(s) /\ (c.cmd = "del" => c.ents = <<>>)
<1>1. <<>> \in Seq(Item) /\ Entries(s) \in Seq(Item)
  BY EntriesType
<1>2. CASE Entries(s) = <<>>
  <2> DEFINE c == Command("del", <<>>)
  <2>1. c \in RedisCommand /\ c.cmd = "del" /\ c.ents = <<>> /\ Rewrite(s) = <<c>>
    BY <1>1, <1>2, CommandType DEF Command, CommandKinds, Rewrite
  <2> HIDE DEF c
  <2>2. c.ents = Entries(s)
    BY <1>2, <2>1
  <2> QED BY <2>1, <2>2
<1>3. CASE Entries(s) # <<>>
  <2> DEFINE c == Command("rebuild", Entries(s))
  <2>1. c \in RedisCommand /\ c.cmd = "rebuild" /\ c.ents = Entries(s) /\ Rewrite(s) = <<c>>
    BY <1>1, <1>3, CommandType DEF Command, CommandKinds, Rewrite
  <2> HIDE DEF c
  <2> QED BY <2>1
<1> QED BY <1>2, <1>3

\* A removal sends one LREM of what it removed, or rewrites the list.
LEMMA RemovalIs ==
    ASSUME NEW s \in Seq(Item), NEW dropped0 \in Seq(Item)
    PROVE  \/ RewriteAfterRemoval(s, dropped0) = Rewrite(s)
           \/ \E c \in RedisCommand :
                 /\ RewriteAfterRemoval(s, dropped0) = <<c>>
                 /\ c.cmd = "lrem" /\ c.drop = Entries(dropped0)
                 /\ \A k \in DOMAIN Entries(dropped0) : Blob(Entries(dropped0)[k]) \notin ClaimedBlobs
<1> DEFINE gone == Entries(dropped0)
           c == [cmd |-> "lrem", ents |-> <<>>, drop |-> gone]
<1>1. <<>> \in Seq(Item) /\ gone \in Seq(Item)
  BY EntriesType
<1>2. c \in RedisCommand /\ c.cmd = "lrem" /\ c.drop = gone
  BY <1>1 DEF RedisCommand, CommandKinds
<1>3. CASE RewriteAfterRemoval(s, dropped0) = Rewrite(s)
  BY <1>3
<1>4. CASE RewriteAfterRemoval(s, dropped0) # Rewrite(s)
  <2>1. /\ RewriteAfterRemoval(s, dropped0) = <<c>>
        /\ \A k \in DOMAIN gone : Blob(gone[k]) \notin ClaimedBlobs
    BY <1>4 DEF RewriteAfterRemoval
  <2> HIDE DEF c
  <2>2. \E d \in RedisCommand :
                 /\ RewriteAfterRemoval(s, dropped0) = <<d>>
                 /\ d.cmd = "lrem" /\ d.drop = Entries(dropped0)
                 /\ \A k \in DOMAIN Entries(dropped0) : Blob(Entries(dropped0)[k]) \notin ClaimedBlobs
    <3> QED BY <1>2, <2>1
  <2> QED BY <2>2
<1> QED BY <1>3, <1>4

\* A put sends one RPUSH of its entries, or nothing.
LEMMA PutIs ==
    ASSUME QueueInv, NEW p \in Procs, EnterPut(p), op[p].name = "put" => Len(op[p].arg) = 1
    PROVE  \/ Entries(op[p].arg) = <<>> /\ Proceed(p, <<>>, <<>>)
           \/ \E c \in RedisCommand :
                 /\ c.cmd = "rpush" /\ c.ents = Entries(op[p].arg)
                 /\ Proceed(p, <<c>>, <<>>)
<1> DEFINE ents == Entries(op[p].arg)
           c == Command("rpush", ents)
           todo == IF ents # <<>> /\ op[p].name = "putBatch" THEN <<c>> ELSE Pushes(ents)
<1>1. op[p].arg \in Seq(Item) /\ ents \in Seq(Item)
  BY DequeFacts, EntriesType
<1>2. Proceed(p, todo, <<>>) /\ op[p].name \in {"put", "putBatch"}
  BY DEF EnterPut, Holds
<1>3. c \in RedisCommand /\ c.cmd = "rpush" /\ c.ents = ents
  BY <1>1, CommandType DEF Command, CommandKinds
<1>4. CASE ents = <<>>
  <2>1. todo = <<>>
    BY <1>4 DEF Pushes
  <2> QED BY <1>2, <1>4, <2>1
<1>5. CASE ents # <<>>
  <2>1. todo = <<c>>
    <3>1. CASE op[p].name = "putBatch"
      BY <1>5, <3>1
    <3>2. CASE op[p].name = "put"
      <4>1. Len(op[p].arg) = 1
        BY <3>2
      <4>2. op[p].arg = <<op[p].arg[1]>> /\ op[p].arg[1] \in Item
        BY <1>1, <4>1
      <4>3. PICK i \in Item : op[p].arg = <<i>>
        BY <4>2
      <4>4. Entries(<<i>>) = IF IsPersisted(i) THEN <<i>> ELSE <<>>
        BY EntriesOne
      <4>5. ents = <<i>>
        BY <1>5, <4>3, <4>4
      <4>6. Pushes(<<i>>) = <<Command("rpush", <<i>>)>>
        BY DEF Pushes
      <4>7. todo = Pushes(ents)
        BY <3>2
      <4> QED BY <4>5, <4>6, <4>7
    <3> QED BY <1>2, <3>1, <3>2
  <2> HIDE DEF c, todo
  <2>2. Proceed(p, <<c>>, <<>>)
    BY <1>2, <2>1
  <2>3. \E d \in RedisCommand :
                 /\ d.cmd = "rpush" /\ d.ents = Entries(op[p].arg)
                 /\ Proceed(p, <<d>>, <<>>)
    <3> QED BY <1>3, <2>2
  <2> QED BY <2>3
<1> QED BY <1>4, <1>5
-----------------------------------------------------------------------------
\* Only a commit comes to owe an LPOP, and the next step of the loop pays or forfeits it.
LEMMA OwedStepwise == LoopInv /\ StoreOK /\ OwedOK /\ [LoopNext]_vars => OwedOK'
<1> SUFFICES ASSUME LoopInv, StoreOK, OwedOK, [LoopNext]_vars PROVE OwedOK'
  OBVIOUS
<1>1. CASE UNCHANGED <<lpc, owed>>
  BY <1>1 DEF OwedOK
<1>2. CASE LoopStep
  <2>1. CASE CommitSong
    <3>1. owed = <<>>
      BY <2>1 DEF CommitSong, OwedOK
    <3>2. CASE CommitOK(Loop)
      <4>1. owed' = <<>> \/ owed' = <<Head(items)>>
        BY <2>1, <3>2 DEF CommitSong, EnterCommit
      <4>2. lpc' \in {"start", "raise"}
        BY <2>1, <3>2 DEF CommitSong
      <4>3. Len(<<Head(items)>>) = 1
        OBVIOUS
      <4> QED BY <4>1, <4>2, <4>3 DEF OwedOK
    <3>3. CASE ~CommitOK(Loop)
      BY <2>1, <3>1, <3>3 DEF CommitSong, EnterCommit, OwedOK
    <3> QED BY <3>2, <3>3
  <2>2. CASE StartSong \/ LoopRaises
    BY <2>2 DEF StartSong, LoopRaises, PopOwed, ForfeitOwed, store, OwedOK
  <2>3. ASSUME ~CommitSong, ~StartSong, ~LoopRaises
        PROVE  UNCHANGED owed /\ lpc \notin {"start", "raise"}
    <3>1. CASE PassGate \/ GateTimesOut \/ TakePrefetched \/ TakeFromQueue \/ WakeUp
      BY <3>1 DEF PassGate, GateTimesOut, TakePrefetched, TakeFromQueue, AtTop, WakeUp,
                  queueVars, store
    <3>2. CASE IdleOut \/ StreamSong \/ StreamSongFails \/ StartPrefetch
      BY <3>2 DEF IdleOut, StreamSong, StreamSongFails, StartPrefetch, queueVars, store
    <3>3. CASE SongOver \/ JoinPrefetch \/ SettleAlone
      BY <3>3 DEF SongOver, JoinPrefetch, SettleAlone, Settle, queueVars, store
    <3> QED BY <1>2, <2>3, <3>1, <3>2, <3>3 DEF LoopStep
  <2> QED BY <2>1, <2>2, <2>3 DEF OwedOK
<1>3. CASE SongRetired
  BY <1>3 DEF SongRetired, store, OwedOK
<1>4. CASE SongEnds
  BY <1>4 DEF SongEnds, queueVars, store, OwedOK
<1>5. CASE PrefetchStep \/ PrefetchRetired
  BY <1>5, PrefetchAside DEF OwedOK
<1>6. ASSUME NEW u \in Users, UserStep(u) \/ Finish(u) \/ Inserted(u)
      PROVE  OwedOK'
  BY <1>6, UserAside DEF LoopInv, store, OwedOK
<1>7. ASSUME NEW p \in Procs, QueueStep(p)
      PROVE  OwedOK'
  <2>1. UNCHANGED lpc
    BY <1>7 DEF QueueStep, loopVars
  <2>2. UNCHANGED owed
    BY <1>7 DEF QueueStep, EnterMutation, EnterPut, EnterPutFront, EnterShuffle, EnterRemove,
                EnterClear, EnterFinishFailed, Write, WriteFails, store
  <2> QED BY <2>1, <2>2 DEF OwedOK
<1>8. CASE UNCHANGED vars
  BY <1>8 DEF vars, queueVars, store, loopVars, OwedOK
<1> QED BY <1>2, <1>3, <1>4, <1>5, <1>6, <1>7, <1>8 DEF LoopNext, Caller

LEMMA SoughtEntries ==
    ASSUME NEW s \in Seq(Item), AllSought(s)
    PROVE  AllSought(Entries(s))
BY EntriesFacts DEF AllSought

\* The deque's own entries match themselves.
LEMMA EntriesMatch ==
    ASSUME NEW s \in Seq(Item), AllSought(s)
    PROVE  Matches(Entries(s), Entries(s))
BY EntriesFacts, SoughtEntries, MatchesSelf

\* Steps that leave the list and the commands alone, and resolve items at most.
LEMMA SyncAside ==
    ASSUME QueueInv, StoreOK, SyncOK, items' \in Seq(Item), UNCHANGED <<writes, store>>,
           stranded' = 0 => stranded = 0,
           stranded = 0 =>
              /\ DOMAIN items' = DOMAIN items
              /\ \A k \in DOMAIN items : items'[k] \in {items[k], Resolved(items[k])}
    PROVE  SyncOK'
<1> DEFINE E == Entries(items)
           F == Entries(items')
<1>1. SUFFICES ASSUME stranded' = 0
               PROVE  /\ \A p \in Procs, c \in RedisCommand : writes'[p] = <<c>> => OnTheWay(c)'
                      /\ Quiet' /\ ~degraded' => Matches(mirror', owed' \o F)
  BY DEF SyncOK
<1>2. items \in Seq(Item) /\ Len(items) \in Nat /\ DOMAIN items = 1 .. Len(items)
      /\ DOMAIN items' = 1 .. Len(items') /\ Len(items') \in Nat
  BY DequeFacts, LenProperties
<1>3. Len(items) = Len(items')
  <2> DEFINE m == Len(items)
             n == Len(items')
  <2>1. m \in Nat /\ n \in Nat /\ \A k \in Nat : k \in 1 .. m <=> k \in 1 .. n
    BY <1>1, <1>2
  <2> HIDE DEF m, n
  <2>2. (m > 0 => m <= n) /\ (n > 0 => n <= m)
    BY <2>1
  <2>3. m = n
    BY <2>1, <2>2
  <2> QED BY <2>3 DEF m, n
<1>4. \A k \in DOMAIN items : IsPersisted(items[k]) <=> IsPersisted(items'[k])
  <2>1. \A k \in DOMAIN items : items[k] \in Item
    BY DequeFacts
  <2> QED BY <1>1, <2>1 DEF Resolved, IsPersisted, Item
<1>5. /\ DOMAIN E = DOMAIN F /\ Len(E) = Len(F)
      /\ \A k \in DOMAIN E : \E i \in DOMAIN items : E[k] = items[i] /\ F[k] = items'[i]
  <2> DEFINE s == items
             t == items'
  <2>1. /\ s \in Seq(Item) /\ t \in Seq(Item) /\ Len(s) = Len(t)
        /\ \A k \in DOMAIN s : IsPersisted(s[k]) <=> IsPersisted(t[k])
    BY <1>2, <1>3, <1>4
  <2> HIDE DEF s, t
  <2>2. /\ DOMAIN Entries(s) = DOMAIN Entries(t) /\ Len(Entries(s)) = Len(Entries(t))
        /\ \A k \in DOMAIN Entries(s) : \E i \in DOMAIN s :
              Entries(s)[k] = s[i] /\ Entries(t)[k] = t[i]
    BY <2>1, EntriesAlong
  <2> QED BY <2>2 DEF s, t
<1>6. E \in Seq(Item) /\ F \in Seq(Item) /\ DOMAIN E = 1 .. Len(E) /\ Len(E) \in Nat
  BY <1>2, EntriesType, LenProperties
<1> HIDE DEF E, F
<1>7. \A k \in 1 .. Len(E) : F[k] \in {E[k], Resolved(E[k])}
  BY <1>1, <1>5, <1>6
<1>8. mirror \in Seq(Item) /\ owed \in Seq(Item) /\ mirror' = mirror /\ owed' = owed
      /\ degraded' = degraded
  BY DEF StoreOK, store
<1>9. ASSUME NEW m \in Seq(Item), Matches(m, E) PROVE Matches(m, F)
  BY <1>5, <1>6, <1>7, <1>9, MatchesResolved
<1>10. ASSUME NEW m \in Seq(Item), Matches(m, owed \o E) PROVE Matches(m, owed \o F)
  <2> DEFINE a == owed
             s == a \o E
             t == a \o F
  <2>1. a \in Seq(Item) /\ Len(a) \in Nat
    BY <1>8, LenProperties
  <2> HIDE DEF a
  <2>2. /\ Len(s) = Len(a) + Len(E)
        /\ \A k \in 1 .. Len(a) + Len(E) : s[k] = IF k <= Len(a) THEN a[k] ELSE E[k - Len(a)]
    BY <1>6, <2>1, ConcatProperties
  <2>3. /\ Len(t) = Len(a) + Len(F)
        /\ \A k \in 1 .. Len(a) + Len(F) : t[k] = IF k <= Len(a) THEN a[k] ELSE F[k - Len(a)]
    BY <1>6, <2>1, ConcatProperties
  <2>4. Matches(m, s)
    BY <1>10 DEF a
  <2> HIDE DEF s, t
  <2>5. ASSUME NEW k \in 1 .. Len(s) PROVE t[k] \in {s[k], Resolved(s[k])}
    <3>1. k \in 1 .. Len(a) + Len(E) /\ k \in 1 .. Len(a) + Len(F)
      BY <1>5, <2>2
    <3>2. ~(k <= Len(a)) => k - Len(a) \in 1 .. Len(E)
      BY <1>6, <2>1, <3>1
    <3> QED BY <1>7, <2>2, <2>3, <3>1, <3>2
  <2>6. Matches(m, t)
    BY <1>5, <2>2, <2>3, <2>4, <2>5, MatchesResolved
  <2> QED BY <2>6 DEF t, a
<1>11. ASSUME NEW p \in Procs, NEW c \in RedisCommand, writes'[p] = <<c>>
       PROVE  OnTheWay(c)'
  <2>1. OnTheWay(c)
    BY <1>1, <1>11 DEF SyncOK
  <2>2. c.ents \in Seq(Item)
    BY DEF RedisCommand
  <2>3. Applied(c)' = Applied(c) /\ LremHits(c.drop)' = LremHits(c.drop)
    BY <1>8 DEF Applied, LremHits
  <2>4. Applied(c) \in Seq(Item) /\ mirror \o c.ents \in Seq(Item)
    BY <1>8, <2>2, AppliedType, ConcatProperties
  <2>5. c.cmd \in {"del", "rebuild"} => Matches(c.ents, F)
    BY <1>9, <2>1, <2>2 DEF OnTheWay, E
  <2>6. c.cmd = "del" => c.ents = <<>>
    BY <2>1 DEF OnTheWay
  <2>7. ASSUME ~degraded PROVE InStep(c)'
    <3>1. InStep(c)
      BY <2>1, <2>7 DEF OnTheWay
    <3>2. CASE c.cmd = "rpush"
      <4>1. Matches(mirror \o c.ents, owed \o E) /\ Len(c.ents) <= Len(E)
        BY <3>1, <3>2 DEF InStep, E
      <4>2. Matches(mirror \o c.ents, owed \o F) /\ Len(c.ents) <= Len(F)
        BY <1>5, <1>10, <2>4, <4>1
      <4> QED BY <1>8, <3>2, <4>2 DEF InStep, F
    <3>3. CASE c.cmd # "rpush"
      <4>1. owed = <<>> /\ (Complete(c) => Matches(Applied(c), E))
        BY <3>1, <3>3 DEF InStep, E
      <4>2. Complete(c)' <=> Complete(c)
        BY <2>3 DEF Complete
      <4>3. Complete(c) => Matches(Applied(c), F)
        BY <1>9, <2>4, <4>1
      <4> QED BY <1>8, <2>3, <3>3, <4>1, <4>2, <4>3 DEF InStep, F
    <3> QED BY <3>2, <3>3
  <2> QED BY <1>8, <2>5, <2>6, <2>7 DEF OnTheWay, F
<1>12. ASSUME Quiet', ~degraded' PROVE Matches(mirror', owed' \o F)
  <2>1. Quiet
    BY <1>12 DEF Quiet
  <2>2. Matches(mirror, owed \o E)
    BY <1>1, <1>8, <1>12, <2>1 DEF SyncOK, E
  <2> QED BY <1>8, <1>10, <2>2
<1> QED BY <1>11, <1>12
-----------------------------------------------------------------------------
\* Past its memory part an operation has the commands left that it names.
LEMMA ProceedPhase ==
    ASSUME QueueInv, NEW p \in Procs, NEW todo, NEW result, Proceed(p, todo, result)
    PROVE  /\ writes' = [writes EXCEPT ![p] = todo]
           /\ op'[p].phase = IF todo = <<>> THEN "done" ELSE "store"
BY LockFacts DEF Proceed, Operation

LEMMA OneCommand == \A c : <<c>> # <<>>
OBVIOUS

\* The whole list is to be rewritten.
LEMMA Rewritten ==
    ASSUME StoreOK, items' \in Seq(Item), stranded' = 0 => AllSought(items'),
           NEW p \in Procs, \A q \in Procs : q # p => writes[q] = <<>>,
           writes' = [writes EXCEPT ![p] = Rewrite(items')], op'[p].phase = "store",
           stranded' = 0 /\ ~degraded' => owed' = <<>>
    PROVE  ShapeOK' /\ SyncOK'
<1> DEFINE s == items'
<1>1. s \in Seq(Item)
  OBVIOUS
<1>2. PICK c \in RedisCommand : /\ Rewrite(s) = <<c>> /\ c.cmd \in {"del", "rebuild"}
                                /\ c.ents = Entries(s) /\ (c.cmd = "del" => c.ents = <<>>)
  <2> HIDE DEF s
  <2> QED BY <1>1, RewriteIs
<1>3. ASSUME stranded' = 0 PROVE OnTheWay(c)'
  <2>1. Matches(c.ents, Entries(items'))
    <3>1. AllSought(s)
      BY <1>3
    <3> HIDE DEF s
    <3>2. Matches(Entries(s), Entries(s))
      BY <1>1, <3>1, EntriesMatch
    <3>3. Matches(c.ents, Entries(s))
      BY <1>2, <3>2
    <3> QED BY <3>3 DEF s
  <2>2. Applied(c)' = c.ents
    BY <1>2 DEF Applied
  <2>3. ~degraded' => InStep(c)'
    BY <1>2, <1>3, <2>1, <2>2 DEF InStep
  <2> QED BY <1>2, <2>1, <2>3 DEF OnTheWay
<1>4. writes' = [writes EXCEPT ![p] = <<c>>]
  BY <1>2
<1> QED BY <1>3, <1>4, Sent

\* Items at the end of the deque, entries at the end of the list.
LEMMA PutSyncs ==
    ASSUME LoopInv, StoreOK, ApartOK, ShapeOK, SyncOK, NEW T, NewOK(T), NEW p \in Procs,
           EnterPut(p), UNCHANGED stranded
    PROVE  ShapeOK' /\ SyncOK'
<1>1. QueueInv /\ WaitsOK
  BY DEF LoopInv, NewOK
<1>2. \A q \in Procs : writes[q] = <<>>
  BY <1>1, HolderAlone DEF EnterPut
<1> DEFINE arg == op[p].arg
           A == Entries(arg)
           E == Entries(items)
<1>3. arg \in Seq(Item) /\ items \in Seq(Item) /\ A \in Seq(Item) /\ E \in Seq(Item)
      /\ mirror \in Seq(Item) /\ owed \in Seq(Item)
  BY <1>1, DequeFacts, EntriesType DEF StoreOK
<1>4. p \in Users /\ Putting(p)
  BY <1>1, MutatorIsUser DEF EnterMutation
<1>5. AllSought(arg) /\ (op[p].name = "put" => Len(arg) = 1)
  BY <1>4 DEF ApartOK
<1>6. UNCHANGED <<mirror, owed, degraded>> /\ items' = items \o arg
  BY DEF EnterPut, store
<1> HIDE DEF arg, A, E
<1>7. Entries(items') = E \o A
  BY <1>3, <1>6, EntriesConcat DEF A, E
<1>8. Len(A) <= Len(Entries(items'))
  <2>1. Len(E) \in Nat /\ Len(A) \in Nat /\ Len(E \o A) = Len(E) + Len(A)
    BY <1>3, LenProperties, ConcatProperties
  <2> QED BY <1>7, <2>1
<1>9. ASSUME stranded' = 0, ~degraded'
      PROVE  Matches(mirror' \o A, owed' \o Entries(items'))
  <2>1. Matches(mirror, owed \o E)
    BY <1>2, <1>6, <1>9 DEF SyncOK, Quiet, E
  <2>2. Matches(A, A)
    BY <1>3, <1>5, EntriesMatch DEF A
  <2>3. owed \o E \in Seq(Item)
    BY <1>3, ConcatProperties
  <2>4. Matches(mirror \o A, (owed \o E) \o A)
    BY <1>3, <2>1, <2>2, <2>3, MatchesConcat
  <2>5. (owed \o E) \o A = owed \o (E \o A)
    BY <1>3, ConcatAssociative
  <2> QED BY <1>6, <1>7, <2>4, <2>5
<1>10. CASE A = <<>> /\ Proceed(p, <<>>, <<>>)
  <2>1. mirror \o A = mirror
    BY <1>3, <1>10, ConcatEmptySeq
  <2>2. stranded' = 0 /\ ~degraded' => Matches(mirror', owed' \o Entries(items'))
    BY <1>6, <1>9, <2>1
  <2>3. writes' = [writes EXCEPT ![p] = <<>>]
    BY <1>1, <1>10, ProceedPhase
  <2> QED BY <1>2, <2>2, <2>3, Settled
<1>11. ASSUME NEW c \in RedisCommand, c.cmd = "rpush", c.ents = A, Proceed(p, <<c>>, <<>>)
       PROVE  ShapeOK' /\ SyncOK'
  <2>1. writes' = [writes EXCEPT ![p] = <<c>>] /\ op'[p].phase = "store"
    BY <1>1, <1>11, ProceedPhase, OneCommand
  <2>2. stranded' = 0 => OnTheWay(c)'
    BY <1>8, <1>9, <1>11 DEF OnTheWay, InStep
  <2> QED BY <1>2, <2>1, <2>2, Sent
<1> QED BY <1>1, <1>5, <1>10, <1>11, PutIs DEF arg, A

\* What is left of the list when nothing is owed.
LEMMA NothingOwed ==
    ASSUME StoreOK, SyncOK, RacesOwedPop, UNCHANGED <<mirror, owed, stranded>>,
           \A q \in Procs : writes[q] = <<>>, items \in Seq(Item)
    PROVE  /\ ~degraded' => owed' = <<>>
           /\ stranded' = 0 /\ ~degraded' => Matches(mirror, Entries(items))
<1>1. ~degraded' => owed = <<>> /\ ~degraded
  BY DEF RacesOwedPop
<1>2. <<>> \o Entries(items) = Entries(items)
  BY EntriesType, ConcatEmptySeq
<1> QED BY <1>1, <1>2 DEF SyncOK, Quiet

\* Items before the pending ones: in front of the list when nothing is claimed.
LEMMA PutFrontSyncs ==
    ASSUME LoopInv, StoreOK, ApartOK, ApartOK', ShapeOK, SyncOK, QueueInv', NEW T, NewOK(T),
           NEW p \in Procs, EnterPutFront(p), UNCHANGED stranded
    PROVE  ShapeOK' /\ SyncOK'
<1>1. QueueInv /\ WaitsOK
  BY DEF LoopInv, NewOK
<1>2. \A q \in Procs : writes[q] = <<>>
  BY <1>1, HolderAlone DEF EnterPutFront
<1> DEFINE arg == op[p].arg
           A == Entries(arg)
           E == Entries(items)
<1>3. arg \in Seq(Item) /\ items \in Seq(Item) /\ A \in Seq(Item) /\ E \in Seq(Item)
      /\ mirror \in Seq(Item) /\ owed \in Seq(Item) /\ cursor \in Nat /\ Len(items) \in Nat
  BY <1>1, DequeFacts, EntriesType DEF StoreOK
<1>4. p \in Users /\ Putting(p)
  BY <1>1, MutatorIsUser DEF EnterMutation
<1>5. AllSought(arg)
  BY <1>4 DEF ApartOK
<1>6. /\ UNCHANGED <<mirror, owed>> /\ RacesOwedPop
      /\ items' = Claimed \o arg \o SubSeq(items, cursor + 1, Len(items))
      /\ Proceed(p, IF cursor > 0 THEN Rewrite(items')
                    ELSE IF A = <<>> THEN <<>> ELSE <<Command("lpush", A)>>, <<>>)
  BY DEF EnterPutFront
<1>7. items' \in Seq(Item) /\ (stranded' = 0 => AllSought(items'))
  BY DEF QueueInv, QueueTypeOK, ApartOK
<1>8. /\ ~degraded' => owed' = <<>>
      /\ stranded' = 0 /\ ~degraded' => Matches(mirror, E)
  BY <1>2, <1>3, <1>6, NothingOwed
<1>9. CASE cursor > 0
  <2>1. Proceed(p, Rewrite(items'), <<>>)
    BY <1>6, <1>9
  <2>2. Rewrite(items') # <<>>
    BY OneCommand DEF Rewrite
  <2>3. writes' = [writes EXCEPT ![p] = Rewrite(items')] /\ op'[p].phase = "store"
    BY <1>1, <2>1, <2>2, ProceedPhase
  <2> QED BY <1>2, <1>7, <1>8, <2>3, Rewritten
<1>10. CASE ~(cursor > 0)
  <2>1. items' = arg \o items
    <3>1. cursor = 0
      BY <1>3, <1>10
    <3>2. Claimed = <<>>
      BY <3>1, SubSeqEmpty DEF Claimed
    <3>3. SubSeq(items, cursor + 1, Len(items)) = items
      BY <1>3, <3>1, SubSeqFull
    <3>4. <<>> \o arg = arg
      BY <1>3, ConcatEmptySeq
    <3> QED BY <1>6, <3>2, <3>3, <3>4
  <2> HIDE DEF arg, A, E
  <2>2. Entries(items') = A \o E
    BY <1>3, <2>1, EntriesConcat DEF A, E
  <2>3. stranded' = 0 /\ ~degraded' =>
           owed' = <<>> /\ Matches(A \o mirror, Entries(items'))
    <3>1. Matches(A, A)
      BY <1>3, <1>5, EntriesMatch DEF A
    <3> QED BY <1>3, <1>8, <2>2, <3>1, MatchesConcat
  <2>4. <<>> \o Entries(items') = Entries(items')
    BY <1>7, EntriesType, ConcatEmptySeq
  <2>5. CASE A = <<>>
    <3>1. Proceed(p, <<>>, <<>>)
      BY <1>6, <1>10, <2>5
    <3>2. writes' = [writes EXCEPT ![p] = <<>>]
      BY <1>1, <3>1, ProceedPhase
    <3>3. A \o mirror = mirror
      BY <1>3, <2>5, ConcatEmptySeq
    <3>4. stranded' = 0 /\ ~degraded' => Matches(mirror', owed' \o Entries(items'))
      BY <1>6, <2>3, <2>4, <3>3
    <3> QED BY <1>2, <3>2, <3>4, Settled
  <2>6. CASE A # <<>>
    <3>1. PICK c \in RedisCommand : c = Command("lpush", A) /\ c.cmd = "lpush" /\ c.ents = A
      BY <1>3, CommandType DEF Command, CommandKinds
    <3>2. Proceed(p, <<c>>, <<>>)
      BY <1>6, <1>10, <2>6, <3>1
    <3>3. writes' = [writes EXCEPT ![p] = <<c>>] /\ op'[p].phase = "store"
      BY <1>1, <3>2, ProceedPhase, OneCommand
    <3>4. Applied(c)' = A \o mirror
      BY <1>6, <3>1 DEF Applied
    <3>5. stranded' = 0 => OnTheWay(c)'
      BY <2>3, <3>1, <3>4 DEF OnTheWay, InStep
    <3> QED BY <1>2, <3>1, <3>3, <3>5, Sent
  <2> QED BY <2>5, <2>6
<1> QED BY <1>9, <1>10

\* An empty deque and a deleted list.
LEMMA ClearSyncs ==
    ASSUME LoopInv, StoreOK, ShapeOK, SyncOK, NEW p \in Procs, EnterClear(p)
    PROVE  ShapeOK' /\ SyncOK'
<1>1. QueueInv
  BY DEF LoopInv
<1>2. \A q \in Procs : writes[q] = <<>>
  BY <1>1, HolderAlone DEF EnterClear
<1>3. /\ items' = <<>> /\ Proceed(p, <<Command("del", <<>>)>>, items)
      /\ ~degraded' => owed' = <<>>
  BY DEF EnterClear, RacesOwedPop
<1> DEFINE c == Command("del", <<>>)
<1>4. c \in RedisCommand /\ c.cmd = "del" /\ c.ents = <<>>
  <2>1. <<>> \in Seq(Item)
    OBVIOUS
  <2> QED BY <2>1, CommandType DEF Command, CommandKinds
<1>5. Proceed(p, <<c>>, items)
  BY <1>3
<1> HIDE DEF c
<1>6. writes' = [writes EXCEPT ![p] = <<c>>] /\ op'[p].phase = "store"
  BY <1>1, <1>5, ProceedPhase, OneCommand
<1>7. Entries(items') = <<>>
  BY <1>3, EntriesEmpty
<1>8. Applied(c)' = <<>>
  BY <1>4 DEF Applied
<1>9. OnTheWay(c)'
  BY <1>3, <1>4, <1>7, <1>8, MatchesEmpty DEF OnTheWay, InStep
<1> QED BY <1>2, <1>4, <1>6, <1>9, Sent

\* A new order: the list is rewritten.
LEMMA ShuffleSyncs ==
    ASSUME LoopInv, StoreOK, ApartOK', ShapeOK, SyncOK, QueueInv',
           NEW p \in Procs, EnterShuffle(p), UNCHANGED stranded
    PROVE  ShapeOK' /\ SyncOK'
<1>1. QueueInv
  BY DEF LoopInv
<1>2. \A q \in Procs : writes[q] = <<>>
  BY <1>1, HolderAlone DEF EnterShuffle
<1>3. items \in Seq(Item) /\ UNCHANGED <<mirror, owed>>
  BY <1>1, DequeFacts DEF EnterShuffle
<1>4. items' \in Seq(Item) /\ (stranded' = 0 => AllSought(items'))
  BY DEF QueueInv, QueueTypeOK, ApartOK
<1>5. CASE Proceed(p, <<>>, <<>>) /\ UNCHANGED <<items, degraded>>
  <2>1. writes' = [writes EXCEPT ![p] = <<>>]
    BY <1>1, <1>5, ProceedPhase
  <2>2. stranded' = 0 /\ ~degraded' => Matches(mirror', owed' \o Entries(items'))
    BY <1>2, <1>3, <1>5 DEF SyncOK, Quiet
  <2> QED BY <1>2, <2>1, <2>2, Settled
<1>6. CASE Pending = {} /\ UNCHANGED items /\ RacesOwedPop /\ Proceed(p, <<>>, <<>>)
  <2>1. writes' = [writes EXCEPT ![p] = <<>>]
    BY <1>1, <1>6, ProceedPhase
  <2>2. stranded' = 0 /\ ~degraded' => Matches(mirror', owed' \o Entries(items'))
    BY <1>2, <1>3, <1>6 DEF SyncOK, Quiet, RacesOwedPop
  <2> QED BY <1>2, <2>1, <2>2, Settled
<1>7. CASE RacesOwedPop /\ Proceed(p, Rewrite(items'), <<>>)
  <2>1. Rewrite(items') # <<>>
    BY OneCommand DEF Rewrite
  <2>2. writes' = [writes EXCEPT ![p] = Rewrite(items')] /\ op'[p].phase = "store"
    BY <1>1, <1>7, <2>1, ProceedPhase
  <2>3. ~degraded' => owed' = <<>>
    BY <1>2, <1>3, <1>7, NothingOwed
  <2> QED BY <1>2, <1>4, <2>2, <2>3, Rewritten
<1>8. Pending = {} /\ ~(Len(items) - cursor < ShuffleMin) => UNCHANGED items
  <2>1. SUFFICES ASSUME Pending = {}, ~(Len(items) - cursor < ShuffleMin)
                 PROVE  items' = items
    OBVIOUS
  <2>2. items' = [k \in DOMAIN items |-> items[k]]
    BY <2>1 DEF EnterShuffle
  <2> QED BY <1>3, <2>2
<1> QED BY <1>5, <1>6, <1>7, <1>8 DEF EnterShuffle

\* Removed items: the list is rewritten, or loses their entries by value.
LEMMA RemoveSyncs ==
    ASSUME LoopInv, StoreOK, ApartOK, ApartOK', ShapeOK, SyncOK, QueueInv',
           NEW p \in Procs, EnterRemove(p), UNCHANGED stranded
    PROVE  ShapeOK' /\ SyncOK'
<1>1. QueueInv
  BY DEF LoopInv
<1>2. \A q \in Procs : writes[q] = <<>>
  BY <1>1, HolderAlone DEF EnterRemove
<1>3. items \in Seq(Item) /\ UNCHANGED <<mirror, owed>> /\ mirror \in Seq(Item)
  BY <1>1, DequeFacts DEF EnterRemove, StoreOK
<1>4. items' \in Seq(Item) /\ (stranded' = 0 => AllSought(items'))
  BY DEF QueueInv, QueueTypeOK, ApartOK
<1>5. PICK gone \in SUBSET Pending :
          \/ /\ gone = {}
             /\ Proceed(p, <<>>, <<>>)
             /\ UNCHANGED <<items, degraded>>
          \/ /\ gone # {}
             /\ \A j \in gone, k \in Pending : Alike(items[j], items[k]) => k \in gone
             /\ items' = At(items, DOMAIN items \ gone)
             /\ Proceed(p, RewriteAfterRemoval(items', At(items, gone)), At(items, gone))
             /\ RacesOwedPop
  BY DEF EnterRemove
<1>6. CASE Proceed(p, <<>>, <<>>) /\ UNCHANGED <<items, degraded>>
  <2>1. writes' = [writes EXCEPT ![p] = <<>>]
    BY <1>1, <1>6, ProceedPhase
  <2>2. stranded' = 0 /\ ~degraded' => Matches(mirror', owed' \o Entries(items'))
    BY <1>2, <1>3, <1>6 DEF SyncOK, Quiet
  <2> QED BY <1>2, <2>1, <2>2, Settled
<1>7. CASE /\ \A j \in gone, k \in Pending : Alike(items[j], items[k]) => k \in gone
           /\ items' = At(items, DOMAIN items \ gone)
           /\ Proceed(p, RewriteAfterRemoval(items', At(items, gone)), At(items, gone))
           /\ RacesOwedPop
  <2> DEFINE out == At(items, gone)
             s == items'
             todo == RewriteAfterRemoval(s, out)
  <2>1. out \in Seq(Item) /\ s \in Seq(Item)
    BY <1>1, <1>4, RemoveDeque
  <2>2. /\ ~degraded' => owed' = <<>>
        /\ stranded' = 0 /\ ~degraded' => Matches(mirror, Entries(items))
    BY <1>2, <1>3, <1>7, NothingOwed
  <2>3. Proceed(p, todo, out)
    BY <1>7
  <2>4. \/ todo = Rewrite(s)
        \/ \E c \in RedisCommand :
              /\ todo = <<c>>
              /\ c.cmd = "lrem" /\ c.drop = Entries(out)
              /\ \A k \in DOMAIN Entries(out) : Blob(Entries(out)[k]) \notin ClaimedBlobs
    <3> HIDE DEF s, out
    <3> QED BY <2>1, RemovalIs
  <2>5. CASE todo = Rewrite(s)
    <3>1. Proceed(p, Rewrite(s), out)
      BY <2>3, <2>5
    <3>2. Rewrite(s) # <<>>
      BY OneCommand DEF Rewrite
    <3>3. writes' = [writes EXCEPT ![p] = Rewrite(s)] /\ op'[p].phase = "store"
      BY <1>1, <3>1, <3>2, ProceedPhase
    <3> QED BY <1>2, <1>4, <2>2, <3>3, Rewritten
  <2>6. ASSUME NEW c \in RedisCommand, todo = <<c>>, c.cmd = "lrem", c.drop = Entries(out),
               \A k \in DOMAIN Entries(out) : Blob(Entries(out)[k]) \notin ClaimedBlobs
        PROVE  ShapeOK' /\ SyncOK'
    <3>1. Proceed(p, <<c>>, out)
      BY <2>3, <2>6
    <3>2. writes' = [writes EXCEPT ![p] = <<c>>] /\ op'[p].phase = "store"
      BY <1>1, <3>1, ProceedPhase, OneCommand
    <3>3. ASSUME stranded' = 0, ~degraded', ~(Cardinality(LremHits(c.drop)) < Len(c.drop))
          PROVE  Matches(At(mirror, DOMAIN mirror \ LremHits(c.drop)), Entries(items'))
      <4>1. OnePlay(items) /\ AllSought(items) /\ Matches(mirror, Entries(items))
        BY <2>2, <3>3 DEF ApartOK
      <4>2. Matches(At(mirror, DOMAIN mirror \ LremHits(c.drop)),
                    Entries(At(items, DOMAIN items \ gone)))
        BY <1>1, <1>3, <1>7, <2>6, <3>3, <4>1, LremTakesRemoved
      <4> QED BY <1>7, <4>2
    <3>4. /\ Applied(c)' = At(mirror, DOMAIN mirror \ LremHits(c.drop))
          /\ LremHits(c.drop)' = LremHits(c.drop)
      BY <1>3, <2>6 DEF Applied, LremHits
    <3>5. ASSUME stranded' = 0, ~degraded', Complete(c)' PROVE Matches(Applied(c)', Entries(items'))
      BY <2>6, <3>3, <3>4, <3>5 DEF Complete
    <3>6. stranded' = 0 => OnTheWay(c)'
      BY <2>2, <2>6, <3>5 DEF OnTheWay, InStep
    <3> QED BY <1>2, <3>2, <3>6, Sent
  <2> QED BY <2>4, <2>5, <2>6
<1> QED BY <1>5, <1>6, <1>7
-----------------------------------------------------------------------------
\* A settled head's entry is the first on the list, if it has one.
LEMMA SettledHead ==
    ASSUME QueueInv, cursor > 0, NEW i, HeadIs(i)
    PROVE  /\ i \in Item /\ Head(items) = items[1] /\ items[1] \in Item
           /\ Tail(items) \in Seq(Item)
           /\ Entries(<<i>>) = <<>> => Entries(Tail(items)) = Entries(items)
           /\ Entries(<<i>>) # <<>> => Entries(items) = <<items[1]>> \o Entries(Tail(items))
<1>1. items \in Seq(Item) /\ items # <<>>
  BY DequeFacts
<1>2. /\ items[1] \in Item /\ Head(items) = items[1] /\ Tail(items) \in Seq(Item)
      /\ Entries(items) = (IF IsPersisted(items[1]) THEN <<items[1]>> ELSE <<>>)
                            \o Entries(Tail(items))
  BY <1>1, EntriesTail
<1>3. i \in Item
  BY HeadResolved
<1>4. IsPersisted(i) <=> IsPersisted(items[1])
  BY <1>2 DEF HeadIs, Resolved, IsPersisted, Item
<1>5. Entries(<<i>>) = IF IsPersisted(i) THEN <<i>> ELSE <<>>
  BY <1>3, EntriesOne
<1>6. Entries(Tail(items)) \in Seq(Item)
  BY <1>2, EntriesType
<1>7. <<>> \o Entries(Tail(items)) = Entries(Tail(items))
  BY <1>6, ConcatEmptySeq
<1>8. <<i>> # <<>>
  OBVIOUS
<1> QED BY <1>2, <1>3, <1>4, <1>5, <1>7, <1>8

\* Whoever retires a failed song while a claim is outstanding holds that claim.
LEMMA RetiresHead ==
    ASSUME LoopInv, ArgsOK, HeadOK, OwedOK, stranded = 0, cursor > 0,
           NEW p \in Procs, Holds(p, "finishFailed")
    PROVE  \E i : HeadIs(i) /\ op[p].arg = <<i>> /\ owed = <<>>
<1> USE Callers DEF LoopInv, ClientInv
<1>1. p = Loop \/ p = Prefetch
  BY DEF CallsOK, UserCallsOK, Holds
<1>2. CASE p = Loop
  <2>1. lpc = "retire" /\ op[Loop].phase = "lock"
    BY <1>2 DEF Holds, CallsOK, LoopCallOK, Idle
  <2>2. commitGen = generation
    <3>1. ~PrefetchHoldsClaim /\ prefetched = NoItem
      BY <2>1 DEF TurnsOK, NoTask, PrefetchHoldsClaim
    <3> QED BY <2>1, <3>1 DEF ClaimsAccounted, LiveClaims, LoopHoldsClaim
  <2>3. HeadIs(song) /\ op[Loop].arg = <<song>> /\ owed = <<>>
    BY <2>1, <2>2 DEF HeadOK, ArgsOK, OwedOK
  <2> QED BY <1>2, <2>3
<1>3. CASE p = Prefetch
  <2>1. pf.pc = "retiring" /\ op[Prefetch].phase = "lock"
    BY <1>3 DEF Holds, CallsOK, TaskCallOK, Idle
  <2>2. lpc \in {"playing", "join", "settle", "top"} /\ prefetched = NoItem
    BY <2>1 DEF TurnsOK, NoTask, NoPrefetch
  <2>3. pfGen = generation
    BY <2>1, <2>2 DEF ClaimsAccounted, LiveClaims, LoopHoldsClaim, PrefetchHoldsClaim
  <2>4. HeadIs(pf.item) /\ op[Prefetch].arg = <<pf.item>> /\ owed = <<>>
    BY <2>1, <2>2, <2>3 DEF HeadOK, ArgsOK, OwedOK
  <2> QED BY <1>3, <2>4
<1> QED BY <1>1, <1>2, <1>3

\* A failed song is the head, so the LPOP takes its own entry.
LEMMA FinishFailedSyncs ==
    ASSUME LoopInv, ArgsOK, StoreOK, HeadOK, OwedOK, ShapeOK, SyncOK, NEW p \in Procs,
           EnterFinishFailed(p), UNCHANGED stranded
    PROVE  ShapeOK' /\ SyncOK'
<1>1. QueueInv
  BY DEF LoopInv
<1>2. \A q \in Procs : writes[q] = <<>>
  BY <1>1, HolderAlone DEF EnterFinishFailed
<1>3. UNCHANGED <<mirror, owed, degraded>> /\ mirror \in Seq(Item) /\ cursor \in Nat
  BY <1>1, Numbers DEF EnterFinishFailed, store, StoreOK
<1>4. CASE cursor = 0
  <2>1. Proceed(p, <<>>, op[p].arg) /\ UNCHANGED items
    BY <1>4 DEF EnterFinishFailed
  <2>2. writes' = [writes EXCEPT ![p] = <<>>]
    BY <1>1, <2>1, ProceedPhase
  <2>3. stranded' = 0 /\ ~degraded' => Matches(mirror', owed' \o Entries(items'))
    BY <1>2, <1>3, <2>1 DEF SyncOK, Quiet
  <2> QED BY <1>2, <2>2, <2>3, Settled
<1>5. CASE cursor # 0
  <2>1. /\ items' = Tail(items)
        /\ Proceed(p, IF Entries(op[p].arg) = <<>> THEN <<>>
                      ELSE <<Command("lpop", <<>>)>>, op[p].arg)
    BY <1>5 DEF EnterFinishFailed, Release
  <2>2. ASSUME stranded = 0, ~degraded
        PROVE  /\ owed = <<>> /\ Matches(mirror, Entries(items))
               /\ Entries(items') \in Seq(Item)
               /\ Entries(op[p].arg) = <<>> => Entries(items') = Entries(items)
               /\ Entries(op[p].arg) # <<>> =>
                     Matches(IF mirror = <<>> THEN mirror ELSE Tail(mirror), Entries(items'))
    <3>1. PICK i : HeadIs(i) /\ op[p].arg = <<i>> /\ owed = <<>>
      BY <1>3, <1>5, <2>2, RetiresHead DEF EnterFinishFailed
    <3>2. /\ items[1] \in Item /\ items' \in Seq(Item)
          /\ Entries(<<i>>) = <<>> => Entries(items') = Entries(items)
          /\ Entries(<<i>>) # <<>> => Entries(items) = <<items[1]>> \o Entries(items')
      BY <1>1, <1>3, <1>5, <2>1, <3>1, SettledHead
    <3>3. Entries(items') \in Seq(Item) /\ Entries(items) \in Seq(Item)
      BY <1>1, <3>2, EntriesType, DequeFacts
    <3>4. Matches(mirror, Entries(items))
      <4>1. <<>> \o Entries(items) = Entries(items)
        BY <3>3, ConcatEmptySeq
      <4> QED BY <1>2, <2>2, <3>1, <4>1 DEF SyncOK, Quiet
    <3>5. ASSUME Entries(<<i>>) # <<>>
          PROVE  mirror # <<>> /\ Matches(Tail(mirror), Entries(items'))
      <4>1. Entries(items) # <<>> /\ Tail(Entries(items)) = Entries(items')
        BY <3>2, <3>3, <3>5, TailOfConcat
      <4> QED BY <1>3, <3>3, <3>4, <4>1, MatchesTail
    <3> QED BY <3>1, <3>2, <3>3, <3>4, <3>5
  <2>3. CASE Entries(op[p].arg) = <<>>
    <3>1. Proceed(p, <<>>, op[p].arg)
      BY <2>1, <2>3
    <3>2. writes' = [writes EXCEPT ![p] = <<>>]
      BY <1>1, <3>1, ProceedPhase
    <3>3. ASSUME stranded' = 0, ~degraded' PROVE Matches(mirror', owed' \o Entries(items'))
      <4>1. <<>> \o Entries(items') = Entries(items')
        BY <1>3, <2>2, <3>3, ConcatEmptySeq
      <4> QED BY <1>3, <2>2, <2>3, <3>3, <4>1
    <3> QED BY <1>2, <3>2, <3>3, Settled
  <2>4. CASE Entries(op[p].arg) # <<>>
    <3> DEFINE c == Command("lpop", <<>>)
    <3>1. c \in RedisCommand /\ c.cmd = "lpop"
      <4>1. <<>> \in Seq(Item)
        OBVIOUS
      <4> QED BY <4>1, CommandType DEF Command, CommandKinds
    <3>2. Proceed(p, <<c>>, op[p].arg)
      BY <2>1, <2>4
    <3> HIDE DEF c
    <3>3. writes' = [writes EXCEPT ![p] = <<c>>] /\ op'[p].phase = "store"
      BY <1>1, <3>2, ProceedPhase, OneCommand
    <3>4. Applied(c)' = IF mirror = <<>> THEN mirror ELSE Tail(mirror)
      BY <1>3, <3>1 DEF Applied
    <3>5. stranded' = 0 => OnTheWay(c)'
      BY <1>3, <2>2, <2>4, <3>1, <3>4 DEF OnTheWay, InStep
    <3> QED BY <1>2, <3>1, <3>3, <3>5, Sent
  <2> QED BY <2>3, <2>4
<1> QED BY <1>4, <1>5

\* The command under way.
LEMMA UnderWay ==
    ASSUME QueueInv, ShapeOK, NEW p \in Procs, op[p].phase = "store", writes[p] # <<>>
    PROVE  /\ \A q \in Procs : q # p => writes[q] = <<>>
           /\ \E c \in RedisCommand : /\ writes[p] = <<c>> /\ Head(writes[p]) = c
                                      /\ Tail(writes[p]) = <<>>
<1>1. PICK c \in RedisCommand : writes[p] = <<c>>
  BY DEF ShapeOK
<1>2. Head(<<c>>) = c /\ Tail(<<c>>) = <<>>
  <2>1. <<c>> \in Seq(RedisCommand) /\ Len(<<c>>) = 1 /\ <<c>> # <<>>
    OBVIOUS
  <2>2. Tail(<<c>>) \in Seq(RedisCommand) /\ Len(Tail(<<c>>)) = 0
    BY <2>1, HeadTailProperties
  <2> QED BY <2>2, EmptySeq
<1> QED BY <1>1, <1>2, WriterAlone

\* The command is issued.
LEMMA WriteSyncs ==
    ASSUME LoopInv, StoreOK, ApartOK, ShapeOK, SyncOK, NEW p \in Procs,
           Write(p), UNCHANGED stranded
    PROVE  ShapeOK' /\ SyncOK'
<1>1. QueueInv /\ op[p].phase = "store" /\ writes[p] # <<>> /\ UNCHANGED <<memory, owed>>
  BY DEF LoopInv, Write
<1>2. \A q \in Procs : q # p => writes[q] = <<>>
  BY <1>1, UnderWay
<1>3. PICK c \in RedisCommand : /\ writes[p] = <<c>> /\ Head(writes[p]) = c
                                /\ Tail(writes[p]) = <<>>
  BY <1>1, UnderWay
<1> DEFINE short == c.cmd = "lrem" /\ Cardinality(LremHits(c.drop)) < Len(c.drop)
<1>4. /\ mirror' = Applied(c)
      /\ Issued(p, IF short THEN Rewrite(items) ELSE <<>>)
      /\ degraded' = IF c.cmd \in {"del", "rebuild"} /\ owed = <<>> THEN FALSE ELSE degraded
  BY <1>3 DEF Write
<1>5. stranded = 0 => OnTheWay(c)
  BY <1>3 DEF SyncOK
<1>6. items \in Seq(Item) /\ items' = items /\ owed' = owed
  BY <1>1, DequeFacts DEF memory
<1>7. CASE short
  <2>1. Rewrite(items) # <<>>
    BY OneCommand DEF Rewrite
  <2>2. Issued(p, Rewrite(items'))
    BY <1>4, <1>6, <1>7
  <2>3. writes' = [writes EXCEPT ![p] = Rewrite(items')] /\ op'[p].phase = "store"
    BY <1>1, <1>6, <2>1, <2>2 DEF Issued
  <2>4. stranded' = 0 /\ ~degraded' => owed' = <<>>
    BY <1>4, <1>5, <1>6, <1>7 DEF OnTheWay, InStep
  <2>5. items' \in Seq(Item) /\ (stranded' = 0 => AllSought(items'))
    BY <1>6 DEF ApartOK
  <2> QED BY <1>2, <2>3, <2>4, <2>5, Rewritten
<1>8. CASE ~short
  <2>1. Issued(p, <<>>)
    BY <1>4, <1>8
  <2>2. writes' = [writes EXCEPT ![p] = <<>>]
    BY <2>1 DEF Issued
  <2>3. ASSUME stranded' = 0, ~degraded' PROVE Matches(mirror', owed' \o Entries(items'))
    <3>1. OnTheWay(c)
      BY <1>5, <2>3
    <3>2. <<>> \o Entries(items) = Entries(items)
      BY <1>6, EntriesType, ConcatEmptySeq
    <3>3. CASE c.cmd \in {"del", "rebuild"}
      <4>1. owed = <<>>
        BY <1>4, <2>3, <3>1, <3>3 DEF OnTheWay, InStep
      <4>2. Applied(c) = c.ents
        BY <3>1, <3>3 DEF Applied, OnTheWay
      <4> QED BY <1>4, <1>6, <3>1, <3>2, <3>3, <4>1, <4>2 DEF OnTheWay
    <3>4. CASE c.cmd = "rpush"
      <4>1. Matches(mirror \o c.ents, owed \o Entries(items))
        BY <1>4, <2>3, <3>1, <3>4 DEF OnTheWay, InStep
      <4> QED BY <1>4, <1>6, <3>4, <4>1 DEF Applied
    <3>5. CASE c.cmd \notin {"del", "rebuild", "rpush"}
      <4>1. owed = <<>> /\ (Complete(c) => Matches(Applied(c), Entries(items)))
        BY <1>4, <2>3, <3>1, <3>5 DEF OnTheWay, InStep
      <4>2. Complete(c)
        BY <1>8 DEF Complete
      <4> QED BY <1>4, <1>6, <3>2, <4>1, <4>2
    <3> QED BY <3>3, <3>4, <3>5
  <2> QED BY <1>2, <2>2, <2>3, Settled
<1> QED BY <1>7, <1>8

\* The command fails: the list is known to have drifted.
LEMMA WriteFailsSyncs ==
    ASSUME LoopInv, StoreOK, ApartOK, ShapeOK, SyncOK, NEW p \in Procs,
           WriteFails(p), UNCHANGED stranded
    PROVE  ShapeOK' /\ SyncOK'
<1>1. QueueInv /\ op[p].phase = "store" /\ writes[p] # <<>> /\ UNCHANGED memory /\ degraded' = TRUE
  BY DEF LoopInv, WriteFails
<1>2. \A q \in Procs : q # p => writes[q] = <<>>
  BY <1>1, UnderWay
<1>3. Tail(writes[p]) = <<>>
  BY <1>1, UnderWay
<1>4. items \in Seq(Item) /\ items' = items
  BY <1>1, DequeFacts DEF memory
<1>5. CASE Issued(p, Rewrite(items))
  <2>1. Rewrite(items') # <<>>
    BY OneCommand DEF Rewrite
  <2>2. writes' = [writes EXCEPT ![p] = Rewrite(items')] /\ op'[p].phase = "store"
    BY <1>1, <1>4, <1>5, <2>1 DEF Issued
  <2>3. items' \in Seq(Item) /\ (stranded' = 0 => AllSought(items'))
    BY <1>4 DEF ApartOK
  <2> QED BY <1>1, <1>2, <2>2, <2>3, Rewritten
<1>6. CASE Issued(p, <<>>)
  <2>1. writes' = [writes EXCEPT ![p] = <<>>]
    BY <1>6 DEF Issued
  <2> QED BY <1>1, <1>2, <2>1, Settled
<1> QED BY <1>3, <1>5, <1>6 DEF WriteFails
-----------------------------------------------------------------------------
\* A committed song leaves the deque; its entry is owed.
LEMMA CommitSyncs ==
    ASSUME LoopInv, ArgsOK, StoreOK, HeadOK, OwedOK, ShapeOK, SyncOK, CommitSong
    PROVE  ShapeOK' /\ SyncOK'
<1>1. /\ QueueInv /\ Loop \in Procs /\ lpc = "commit" /\ EnterCommit(Loop)
      /\ UNCHANGED <<writes, mirror, degraded, stranded>>
  BY Callers DEF LoopInv, CommitSong, EnterCommit, auxVars
<1>2. \A q \in Procs : writes[q] = <<>>
  BY <1>1, HolderAlone DEF EnterCommit
<1>3. ShapeOK'
  BY <1>1, <1>2 DEF ShapeOK
<1>4. owed = <<>> /\ op[Loop].arg = <<song>> /\ op[Loop].gen = commitGen
  BY <1>1 DEF OwedOK, ArgsOK, LoopInv, ClientInv, CallsOK, LoopCallOK
<1>5. items \in Seq(Item)
  BY <1>1, DequeFacts
<1>6. ASSUME stranded = 0, ~degraded PROVE Matches(mirror, owed' \o Entries(items'))
  <2>1. Matches(mirror, <<>> \o Entries(items))
    BY <1>2, <1>4, <1>6 DEF SyncOK, Quiet
  <2>2. CASE CommitOK(Loop)
    <3>1. /\ commitGen = generation /\ cursor > 0 /\ items' = Tail(items)
          /\ owed' = IF Entries(<<song>>) = <<>> THEN <<>> ELSE <<Head(items)>>
      BY <1>1, <1>4, <2>2 DEF EnterCommit, CommitOK, Release
    <3>2. HeadIs(song)
      BY <1>1, <1>6, <3>1 DEF HeadOK
    <3>3. /\ Head(items) = items[1] /\ items' \in Seq(Item)
          /\ Entries(<<song>>) = <<>> => Entries(items') = Entries(items)
          /\ Entries(<<song>>) # <<>> => Entries(items) = <<items[1]>> \o Entries(items')
      BY <1>1, <3>1, <3>2, SettledHead
    <3>4. <<>> \o Entries(items) = Entries(items)
      BY <1>5, EntriesType, ConcatEmptySeq
    <3> QED BY <2>1, <3>1, <3>3, <3>4
  <2>3. CASE ~CommitOK(Loop)
    BY <1>1, <1>4, <2>1, <2>3 DEF EnterCommit
  <2> QED BY <2>2, <2>3
<1>7. \A c : <<c>> # <<>>
  OBVIOUS
<1>8. SyncOK'
  BY <1>1, <1>2, <1>6, <1>7 DEF SyncOK
<1> QED BY <1>3, <1>8

\* A list known to have drifted has nothing to agree with.
LEMMA Drifts ==
    ASSUME SyncOK, UNCHANGED <<items, writes>>, degraded' = TRUE, stranded' = 0 => stranded = 0
    PROVE  SyncOK'
BY DEF SyncOK, OnTheWay

LEMMA TailOfJoined ==
    ASSUME NEW m \in Seq(Item), NEW e \in Seq(Item), m # <<>>
    PROVE  m \o e # <<>> /\ Tail(m \o e) = Tail(m) \o e
<1> DEFINE t == Tail(m)
           a == m \o e
           b == t \o e
<1>1. /\ Len(m) \in Nat \ {0} /\ Len(e) \in Nat /\ t \in Seq(Item) /\ Len(t) = Len(m) - 1
      /\ \A k \in 1 .. Len(m) - 1 : t[k] = m[k + 1]
  BY EmptySeq, LenProperties, HeadTailProperties
<1> HIDE DEF t
<1>2. /\ a \in Seq(Item) /\ Len(a) = Len(m) + Len(e)
      /\ \A k \in 1 .. Len(m) + Len(e) : a[k] = IF k <= Len(m) THEN m[k] ELSE e[k - Len(m)]
  BY ConcatProperties
<1>3. /\ b \in Seq(Item) /\ Len(b) = Len(t) + Len(e)
      /\ \A k \in 1 .. Len(t) + Len(e) : b[k] = IF k <= Len(t) THEN t[k] ELSE e[k - Len(t)]
  BY <1>1, ConcatProperties
<1> HIDE DEF a, b
<1>4. a # <<>>
  BY <1>1, <1>2, EmptySeq
<1>5. /\ Tail(a) \in Seq(Item) /\ Len(Tail(a)) = Len(a) - 1
      /\ \A k \in 1 .. Len(a) - 1 : Tail(a)[k] = a[k + 1]
  BY <1>2, <1>4, HeadTailProperties
<1>6. Len(Tail(a)) = Len(b)
  BY <1>1, <1>2, <1>3, <1>5
<1>7. ASSUME NEW k \in 1 .. Len(b) PROVE a[k + 1] = b[k]
  <2>1. /\ k \in 1 .. Len(t) + Len(e) /\ k + 1 \in 1 .. Len(m) + Len(e) /\ k \in Nat
        /\ k <= Len(t) <=> k + 1 <= Len(m)
        /\ (k + 1) - Len(m) = k - Len(t)
        /\ k <= Len(t) => k \in 1 .. Len(m) - 1
    BY <1>1, <1>3, <1>7
  <2> QED BY <1>1, <1>2, <1>3, <2>1
<1>8. \A k \in 1 .. Len(b) : Tail(a)[k] = b[k]
  BY <1>5, <1>6, <1>7
<1>9. Tail(a) = b
  BY <1>3, <1>5, <1>6, <1>8, SeqEqual
<1> QED BY <1>4, <1>9 DEF a, b, t

\* The LPOP of a committed song, whatever is being appended meanwhile.
LEMMA StartSyncs ==
    ASSUME LoopInv, StoreOK, OwedOK, SyncOK, ShapeOK, StartSong
    PROVE  SyncOK'
<1>1. UNCHANGED <<items, writes, stranded>>
  BY DEF StartSong, memory, auxVars
<1>2. CASE UNCHANGED store
  <2>1. QueueInv /\ items \in Seq(Item) /\ UNCHANGED <<writes, store>>
    BY <1>1, <1>2, DequeFacts DEF LoopInv
  <2> QED BY <1>1, <2>1, SyncAside
<1>3. CASE degraded' = TRUE
  BY <1>1, <1>3, Drifts
<1>4. CASE owed # <<>> /\ owed' = <<>> /\ mirror' = Applied(Command("lpop", <<>>))
           /\ degraded' = degraded
  <2> DEFINE E == Entries(items)
  <2>1. E \in Seq(Item) /\ mirror \in Seq(Item) /\ owed \in Seq(Item)
    BY DequeFacts, EntriesType DEF LoopInv, StoreOK
  <2>2. mirror' = IF mirror = <<>> THEN mirror ELSE Tail(mirror)
    BY <1>4 DEF Applied, Command
  <2>3. PICK o \in Item : owed = <<o>>
    BY <1>4, <2>1 DEF OwedOK
  <2> HIDE DEF E
  <2>4. Entries(items') = E /\ owed' \o E = E
    BY <1>1, <1>4, <2>1, ConcatEmptySeq DEF E
  <2>5. owed \o E \in Seq(Item) /\ owed \o E # <<>> /\ Tail(owed \o E) = E
    BY <2>1, <2>3, TailOfConcat
  <2>6. ASSUME stranded = 0, NEW p \in Procs, NEW c \in RedisCommand, writes[p] = <<c>>
        PROVE  OnTheWay(c)'
    <3>1. OnTheWay(c) /\ c.ents \in Seq(Item)
      BY <2>6 DEF SyncOK, RedisCommand
    <3>2. ASSUME ~degraded PROVE InStep(c)'
      <4>1. c.cmd = "rpush" /\ Matches(mirror \o c.ents, owed \o E) /\ Len(c.ents) <= Len(E)
        BY <1>4, <3>1, <3>2 DEF OnTheWay, InStep, E
      <4>2. mirror # <<>>
        <5>1. Len(mirror \o c.ents) = Len(owed \o E)
          BY <4>1 DEF Matches
        <5>2. Len(mirror) + Len(c.ents) = Len(owed) + Len(E)
          BY <2>1, <3>1, <5>1, ConcatProperties
        <5>3. Len(owed) = 1 /\ Len(c.ents) \in Nat /\ Len(E) \in Nat
          BY <2>1, <2>3, <3>1, LenProperties
        <5>4. Len(mirror) # 0
          BY <2>1, <3>1, <4>1, <5>2, <5>3, LenProperties
        <5> QED BY <5>4, EmptySeq
      <4>3. mirror \o c.ents \in Seq(Item)
        BY <2>1, <3>1, ConcatProperties
      <4>4. Tail(mirror \o c.ents) = Tail(mirror) \o c.ents
        BY <2>1, <3>1, <4>2, TailOfJoined
      <4>5. Matches(Tail(mirror \o c.ents), Tail(owed \o E))
        BY <2>5, <4>1, <4>3, MatchesTail
      <4>6. Matches(Tail(mirror) \o c.ents, E)
        BY <2>5, <4>4, <4>5
      <4> QED BY <2>2, <2>4, <4>1, <4>2, <4>6 DEF InStep
    <3> QED BY <1>4, <2>4, <3>1, <3>2 DEF OnTheWay, E
  <2>7. ASSUME stranded = 0, Quiet, ~degraded PROVE Matches(mirror', E)
    <3>1. Matches(mirror, owed \o E)
      BY <2>7 DEF SyncOK, E
    <3>2. mirror # <<>> /\ Matches(Tail(mirror), E)
      BY <2>1, <2>5, <3>1, MatchesTail
    <3> QED BY <2>2, <3>2
  <2> QED BY <1>1, <1>4, <2>4, <2>6, <2>7 DEF SyncOK, Quiet
<1> QED BY <1>2, <1>3, <1>4 DEF StartSong, PopOwed

\* A call that is cut off has sent nothing, or the list is known to have drifted.
LEMMA AbandonSyncs ==
    ASSUME LoopInv, StoreOK, ShapeOK, SyncOK, NEW p \in Procs, Abandon(p),
           stranded' = 0 => stranded = 0
    PROVE  ShapeOK' /\ SyncOK'
<1>1. QueueInv /\ items \in Seq(Item) /\ UNCHANGED <<items, owed>> /\ Same(p)
      /\ writes' = [writes EXCEPT ![p] = <<>>]
  BY DequeFacts, AbandonFacts DEF LoopInv, Abandon, memory
<1>2. CASE writes[p] = <<>>
  <2>1. UNCHANGED store
    BY <1>1, <1>2 DEF Abandon, StoreOK, store
  <2>2. UNCHANGED writes
    BY <1>1, <1>2 DEF StoreOK
  <2>3. SyncOK'
    BY <1>1, <2>1, <2>2, SyncAside
  <2>4. ShapeOK'
    BY <1>1, <1>2, <2>2 DEF ShapeOK, Same
  <2> QED BY <2>3, <2>4
<1>3. CASE writes[p] # <<>>
  <2>1. degraded' = TRUE
    BY <1>3 DEF Abandon
  <2>2. \A q \in Procs : q # p => writes[q] = <<>>
    BY <1>1, <1>3, WriterAlone DEF ShapeOK
  <2> QED BY <1>1, <2>1, <2>2, Settled
<1> QED BY <1>2, <1>3
-----------------------------------------------------------------------------
\* The loop.
LEMMA LoopSyncs ==
    ASSUME LoopInv, ArgsOK, StoreOK, HeadOK, OwedOK, ShapeOK, SyncOK,
           LoopStep \/ SongRetired \/ SongEnds
    PROVE  ShapeOK' /\ SyncOK'
<1>1. /\ Same(Loop) /\ UNCHANGED writes
      /\ UNCHANGED items \/ CommitSong
      /\ stranded' = 0 => stranded = 0
  BY LoopAside
<1>2. CASE CommitSong
  BY <1>2, CommitSyncs
<1>3. CASE ~CommitSong
  <2>1. ShapeOK'
    BY <1>1, Callers, OpSteps, ShapeAside
  <2>2. CASE StartSong
    BY <2>1, <2>2, StartSyncs
  <2>3. CASE LoopRaises /\ ~UNCHANGED store
    BY <1>1, <1>3, <2>1, <2>3, Drifts DEF LoopRaises, ForfeitOwed
  <2>4. ASSUME ~StartSong, ~LoopRaises PROVE UNCHANGED store
    <3>1. CASE PassGate \/ GateTimesOut \/ TakePrefetched \/ TakeFromQueue \/ WakeUp
      BY <3>1 DEF PassGate, GateTimesOut, TakePrefetched, TakeFromQueue, WakeUp, queueVars
    <3>2. CASE IdleOut \/ StreamSong \/ StreamSongFails \/ StartPrefetch
      BY <3>2 DEF IdleOut, StreamSong, StreamSongFails, StartPrefetch, queueVars
    <3>3. CASE SongOver \/ JoinPrefetch \/ SettleAlone
      BY <3>3 DEF SongOver, JoinPrefetch, SettleAlone, Settle, queueVars
    <3>4. CASE SongRetired \/ SongEnds
      BY <3>4 DEF SongRetired, SongEnds, queueVars
    <3> QED BY <1>3, <2>4, <3>1, <3>2, <3>3, <3>4 DEF LoopStep
  <2>5. CASE UNCHANGED store
    <3>1. QueueInv /\ items \in Seq(Item) /\ UNCHANGED <<items, writes, store>>
      BY <1>1, <1>3, <2>5, DequeFacts DEF LoopInv
    <3>2. SyncOK'
      BY <1>1, <3>1, SyncAside
    <3> QED BY <2>1, <3>2
  <2> QED BY <2>2, <2>3, <2>4, <2>5
<1> QED BY <1>2, <1>3

\* The prefetch.
LEMMA PrefetchSyncs ==
    ASSUME LoopInv, QueueInv', StoreOK, HeadOK, ShapeOK, SyncOK, PrefetchStep \/ PrefetchRetired
    PROVE  ShapeOK' /\ SyncOK'
<1>1. /\ Same(Prefetch)
      /\ \/ UNCHANGED items
         \/ /\ pf.cancel /\ pf.pc = "streaming"
            /\ \E form \in {pf.item, Resolved(pf.item)} : GiveBack(form)
  BY PrefetchAside
<1>2. stranded' = 0 => stranded = 0
  BY PrefetchAside
<1>3. CASE Abandon(Prefetch)
  BY <1>2, <1>3, Callers, AbandonSyncs
<1>4. CASE UNCHANGED <<writes, store>> /\ (UNCHANGED op \/ op[Prefetch].phase # "store")
  <2>1. ShapeOK'
    BY <1>1, <1>4, Callers, ShapeAside
  <2>2. ASSUME stranded = 0
        PROVE  /\ DOMAIN items' = DOMAIN items
               /\ \A k \in DOMAIN items : items'[k] \in {items[k], Resolved(items[k])}
    <3>1. CASE UNCHANGED items
      BY <3>1
    <3>2. ASSUME pf.cancel, pf.pc = "streaming",
                 NEW form \in {pf.item, Resolved(pf.item)}, GiveBack(form)
          PROVE  /\ DOMAIN items' = DOMAIN items
                 /\ \A k \in DOMAIN items : items'[k] \in {items[k], Resolved(items[k])}
      <4>1. pf.item \in Item
        BY <3>2 DEF LoopInv, ClientInv, InHandOK
      <4> QED BY <2>2, <3>2, <4>1, GiveBackResolves
    <3> QED BY <1>1, <3>1, <3>2
  <2>3. QueueInv /\ items' \in Seq(Item)
    BY DEF LoopInv, QueueInv, QueueTypeOK
  <2>4. SyncOK'
    BY <1>2, <1>4, <2>2, <2>3, SyncAside
  <2> QED BY <2>1, <2>4
<1> QED BY <1>3, <1>4, OpSteps

\* The commands.
LEMMA UserSyncs ==
    ASSUME LoopInv, QueueInv', StoreOK, HeadOK, ShapeOK, SyncOK, NEW u \in Users,
           UserStep(u) \/ Finish(u) \/ Inserted(u)
    PROVE  ShapeOK' /\ SyncOK'
<1>1. Same(u) /\ UNCHANGED <<stranded, writes, store>> /\ u \in Procs
  BY UserAside, Callers DEF LoopInv
<1>2. \/ UNCHANGED items
      \/ pfRef /\ pf.pc = "done" /\ pf.item \in Item /\ GiveBack(pf.item)
  BY UserItems
<1>3. ShapeOK'
  BY <1>1, OpSteps, ShapeAside
<1>4. ASSUME stranded = 0
      PROVE  /\ DOMAIN items' = DOMAIN items
             /\ \A k \in DOMAIN items : items'[k] \in {items[k], Resolved(items[k])}
  BY <1>2, <1>4, GiveBackResolves
<1>5. QueueInv /\ items' \in Seq(Item)
  BY DEF LoopInv, QueueInv, QueueTypeOK
<1>6. SyncOK'
  BY <1>1, <1>4, <1>5, SyncAside
<1> QED BY <1>3, <1>6

\* The queue.
LEMMA QueueSyncs ==
    ASSUME LoopInv, QueueInv', ArgsOK, StoreOK, HeadOK, ApartOK, ApartOK', OwedOK, ShapeOK,
           SyncOK, NEW T, NewOK(T), NEW p \in Procs, QueueStep(p)
    PROVE  ShapeOK' /\ SyncOK'
<1>1. CASE EnterClear(p)
  BY <1>1, ClearSyncs
<1>2. CASE EnterFinishFailed(p) /\ UNCHANGED stranded
  BY <1>2, FinishFailedSyncs
<1>3. CASE EnterMutation(p) /\ UNCHANGED stranded
  BY <1>3, PutSyncs, PutFrontSyncs, ShuffleSyncs, RemoveSyncs DEF EnterMutation
<1>4. CASE (Write(p) \/ WriteFails(p)) /\ UNCHANGED stranded
  BY <1>4, WriteSyncs, WriteFailsSyncs
<1> QED BY <1>1, <1>2, <1>3, <1>4 DEF QueueStep

\* The invariant behind the theorem.
MirrorInv == HeadOK /\ ApartOK /\ OwedOK /\ ShapeOK /\ SyncOK

\* Every step keeps it.
LEMMA MirrorStepwise ==
    LoopInv /\ LoopInv' /\ TypeInv /\ DropInv /\ StoreOK /\ MirrorInv /\ [LoopNext]_vars
        => MirrorInv'
<1> SUFFICES ASSUME LoopInv, LoopInv', TypeInv, DropInv, StoreOK, MirrorInv, [LoopNext]_vars
             PROVE  MirrorInv'
  OBVIOUS
<1>1. HeadOK' /\ ApartOK' /\ OwedOK'
  BY HeadStepwise, ApartStepwise, OwedStepwise DEF MirrorInv
<1>2. /\ HeadOK /\ ApartOK /\ OwedOK /\ ShapeOK /\ SyncOK /\ QueueInv' /\ ArgsOK
      /\ \E T \in SUBSET Songs : NewOK(T)
  BY DEF MirrorInv, LoopInv, TypeInv, DropInv
<1>3. ShapeOK' /\ SyncOK'
  <2>1. CASE LoopStep \/ SongRetired \/ SongEnds
    BY <1>2, <2>1, LoopSyncs
  <2>2. CASE PrefetchStep \/ PrefetchRetired
    BY <1>2, <2>2, PrefetchSyncs
  <2>3. ASSUME NEW u \in Users, UserStep(u) \/ Finish(u) \/ Inserted(u)
        PROVE  ShapeOK' /\ SyncOK'
    BY <1>2, <2>3, UserSyncs
  <2>4. ASSUME NEW p \in Procs, QueueStep(p) PROVE ShapeOK' /\ SyncOK'
    BY <1>1, <1>2, <2>4, QueueSyncs
  <2>5. CASE UNCHANGED vars
    <3>1. UNCHANGED <<items, op, writes, store, stranded>>
      BY <2>5 DEF vars, queueVars, memory, auxVars
    <3>2. QueueInv /\ items \in Seq(Item)
      BY DequeFacts DEF LoopInv
    <3>3. SyncOK'
      BY <1>2, <3>1, <3>2, SyncAside
    <3>4. ShapeOK'
      BY <1>2, <3>1 DEF ShapeOK
    <3> QED BY <3>3, <3>4
  <2> QED BY <2>1, <2>2, <2>3, <2>4, <2>5 DEF LoopNext, Caller
<1> QED BY <1>1, <1>3 DEF MirrorInv

\* It holds when the queue is restored.
LEMMA MirrorInitially == LoopInit => MirrorInv
<1> SUFFICES ASSUME LoopInit PROVE MirrorInv
  OBVIOUS
<1>1. /\ items \in RestoredQueues /\ writes = [p \in Procs |-> <<>>] /\ op = [p \in Procs |-> Idle]
      /\ mirror = Entries(items) /\ owed = <<>>
      /\ lpc = "gate" /\ prefetched = NoItem /\ pf = NoPrefetch
      /\ user = [u \in Users |-> NoCommand]
  BY DEF LoopInit, Init
<1>2. items \in Seq(Item)
  BY <1>1, QueueAssumption DEF QueueAssumption
<1>3. HeadOK
  BY <1>1 DEF HeadOK, NoPrefetch
<1>4. OnePlay(items) /\ AllSought(items)
  <2>1. OnePlay(items) /\ \A k \in DOMAIN items : items[k].form = "search" => items[k].frag = 0
    BY <1>1, SearchAssumption DEF SearchAssumption
  <2>2. ASSUME NEW k \in DOMAIN items, items[k].form = "search"
        PROVE  items[k].song \in SearchSongs
    <3>1. items[k].song \in {items[j].song : j \in {h \in DOMAIN items : items[h].form = "search"}}
      BY <2>2
    <3> QED BY <1>1, <3>1 DEF SearchSongs
  <2> QED BY <2>1, <2>2 DEF AllSought, Sought
<1>5. ApartOK
  BY <1>1, <1>4, Callers DEF ApartOK, Putting, PutNames, Waits, Idle, NoCommand
<1>6. OwedOK
  BY <1>1 DEF OwedOK
<1>7. ShapeOK
  BY <1>1 DEF ShapeOK
<1>8. SyncOK
  <2>1. Matches(mirror, Entries(items))
    BY <1>1, <1>2, <1>4, EntriesMatch
  <2>2. <<>> \o Entries(items) = Entries(items)
    BY <1>2, EntriesType, ConcatEmptySeq
  <2>3. \A c : <<c>> # <<>>
    OBVIOUS
  <2> QED BY <1>1, <2>1, <2>2, <2>3 DEF SyncOK
<1> QED BY <1>3, <1>5, <1>6, <1>7, <1>8 DEF MirrorInv

\* Between two operations the list in Redis is the deque's entries behind the one a
\* committed song still owes, link by link, however the two were written in between:
\* appends, pops, whole-list rewrites and LREMs by value of the commands, the loop and
\* the prefetch, cut off or not.  Only a failed or cut-off command, or one of the two
\* known leaks, makes them differ.
THEOREM MirrorKept == PlaybackSpec => []MirrorAgrees
<1>1. LoopInv /\ StoreOK /\ MirrorInv => MirrorAgrees
  <2>1. SUFFICES ASSUME LoopInv, StoreOK, MirrorInv, Quiet, ~degraded, stranded = 0
                 PROVE  Keys(mirror) = Keys(owed \o Entries(items))
    BY DEF MirrorAgrees
  <2>2. mirror \in Seq(Item) /\ owed \in Seq(Item) /\ Entries(items) \in Seq(Item)
    BY <2>1, DequeFacts, EntriesType DEF StoreOK, LoopInv
  <2>3. owed \o Entries(items) \in Seq(Item)
    BY <2>2, ConcatProperties
  <2>4. Matches(mirror, owed \o Entries(items))
    BY <2>1 DEF MirrorInv, SyncOK
  <2> QED BY <2>2, <2>3, <2>4, MatchesKeys
<1>2. PlaybackSpec => []StoreOK
  BY PlaybackKeepsContract, StoreTypeCorrect, PTL DEF QueueContract
<1>3. PlaybackSpec => []TypeInv
  BY TypesInitially, TypesStepwise, LoopInvariant, PTL DEF PlaybackSpec
<1>4. PlaybackSpec => []DropInv
  BY DropInitially, DropStepwise, LoopInvariant, PTL DEF PlaybackSpec
<1> QED BY <1>1, <1>2, <1>3, <1>4, MirrorInitially, MirrorStepwise, LoopInvariant, PTL
        DEF PlaybackSpec
=============================================================================
