------------------------ MODULE PlaybackHistoryProofs ------------------------
(***************************************************************************)
(* Every play is recorded once, for any songs, users, commands and faults.      *)
(*                                                                         *)
(* Neither half of HistoryAccounted is inductive.  That a play has one row at    *)
(* most follows from OneHolder: what may still write its row (a place in the     *)
(* queue, in the result of a call, with the loop) and the rows it has are one    *)
(* altogether, so each step moves a play from one place to the next.  That a      *)
(* heard play has its row, or somebody to write it, follows from HeardOK: it is   *)
(* recorded or an entry of it that will be recorded is queued, in a call, or with *)
(* the loop.  Interjections make that hard, since the loop gives up the row of    *)
(* the song they interrupt: it is then the business of a fragment that was cut     *)
(* once more (Mark), which no later step loses.                                 *)
(*                                                                         *)
(* Both rest on what the loop's proofs establish, in particular that a claim is    *)
(* for the head of the deque (HeadOK), and on HandsOK: an interjection interrupts  *)
(* the song the loop has in hand, and a call keeps no song it has queued.          *)
(***************************************************************************)
EXTENDS PlaybackLoopProofs

-----------------------------------------------------------------------------
(* One row for each play that was heard.                                    *)

\* A call that is past its critical section: what it returns is in its argument.
Leaves(p) == op[p].phase \in {"store", "done"}

\* A stranded claim has been flagged.
LeakOK == stranded > 0 => leaked

\* The song an interjection interrupts is the one the loop has in hand.
CurrentOK ==
    current # NoItem =>
      current = song /\ lpc \in {"commit", "start", "announce", "playing", "raise"}

\* What was put into the queue is no longer in the call, so that a command that does
\* not look at what its call returns loses nothing.
InsertOK ==
    /\ \A p \in Procs : op[p].name \in PutNames /\ Leaves(p) => op[p].arg = <<>>
    /\ \A u \in Users : user[u].pc = "inserting" => op[u].name = "putFront"

\* What is in whose hand, as far as the history depends on it.
HandsOK == LeakOK /\ CurrentOK /\ InsertOK

\* Whatever strands a claim raises the flag, and nothing takes it down.
LEMMA LeakStepwise == LoopInv /\ LeakOK /\ [LoopNext]_vars => LeakOK'
<1> SUFFICES ASSUME LoopInv, LeakOK, [LoopNext]_vars PROVE LeakOK'
  OBVIOUS
<1> USE DEF LeakOK, LoopInv, ClientInv, ClientOK
<1>1. ASSUME NEW c, Strand(c) PROVE LeakOK'
  BY <1>1 DEF Strand
<1>2. ASSUME UNCHANGED <<stranded, leaked>> PROVE LeakOK'
  BY <1>2
<1>3. CASE UNCHANGED vars
  BY <1>2, <1>3 DEF vars, auxVars
<1>4. CASE LoopStep \/ SongRetired \/ SongEnds
  BY <1>1, <1>2, <1>4
     DEF LoopStep, PassGate, GateTimesOut, TakePrefetched, TakeFromQueue, Discard, WakeUp, IdleOut,
         StreamSong, StreamSongFails, CommitSong, StartSong, StartPrefetch, SongOver,
         JoinPrefetch, SettleAlone, Settle, LoopRaises, SongRetired, SongEnds, auxVars
<1>5. CASE PrefetchStep \/ PrefetchRetired
  BY <1>1, <1>2, <1>5
     DEF PrefetchStep, PrefetchClaims, PrefetchStreams, PrefetchFails, PrefetchCancelled,
         PrefetchRetired
<1>6. ASSUME NEW u \in Users, UserStep(u) \/ Finish(u) \/ Inserted(u)
      PROVE  LeakOK'
  <2>1. UNCHANGED <<stranded, leaked>>
    BY <1>6 DEF UserStep, Play, Playlist, PlayFront, PlayNow, CutIn, Enqueue, ResolveFirst, Bulk,
           BulkCancelled, Skip, CutInTooLate, Interject, InterjectCancelled, Finish, Inserted, auxVars
  <2> QED BY <1>2, <2>1
<1>7. ASSUME NEW p \in Procs, QueueStep(p)
      PROVE  LeakOK'
  BY <1>7 DEF QueueStep
<1> QED BY <1>3, <1>4, <1>5, <1>6, <1>7 DEF LoopNext, Caller

\* The loop sets `current` from the song it starts and gives it up before it takes the next.
LEMMA CurrentStepwise == LoopInv /\ CurrentOK /\ [LoopNext]_vars => CurrentOK'
<1> SUFFICES ASSUME LoopInv, CurrentOK, [LoopNext]_vars PROVE CurrentOK'
  OBVIOUS
<1>1. ASSUME UNCHANGED <<lpc, song, current>> PROVE CurrentOK'
  BY <1>1 DEF CurrentOK
<1>2. CASE UNCHANGED vars
  BY <1>1, <1>2 DEF vars, loopVars
<1>3. CASE LoopStep \/ SongRetired \/ SongEnds
  <2>1. CASE PassGate \/ GateTimesOut \/ TakePrefetched \/ TakeFromQueue \/ WakeUp \/ IdleOut
    BY <2>1 DEF CurrentOK, PassGate, GateTimesOut, TakePrefetched, AtTop, TakeFromQueue, WakeUp, IdleOut
  <2>2. CASE StreamSong \/ StreamSongFails \/ CommitSong \/ StartSong \/ StartPrefetch
    BY <2>2 DEF CurrentOK, StreamSong, StreamSongFails, CommitSong, StartSong, StartPrefetch
  <2>3. CASE SongOver \/ JoinPrefetch \/ SettleAlone \/ LoopRaises \/ SongRetired \/ SongEnds
    BY <2>3
       DEF CurrentOK, SongOver, JoinPrefetch, SettleAlone, Settle, LoopRaises, SongRetired, SongEnds
  <2> QED BY <1>3, <2>1, <2>2, <2>3 DEF LoopStep
<1>4. CASE PrefetchStep \/ PrefetchRetired
  BY <1>1, <1>4
     DEF PrefetchStep, PrefetchClaims, PrefetchStreams, PrefetchFails, PrefetchCancelled,
         PrefetchRetired, PrefetchUnchanged, loopVars
<1>5. ASSUME NEW u \in Users, UserStep(u) \/ Finish(u) \/ Inserted(u)
      PROVE  CurrentOK'
  BY <1>1, <1>5, UserAside DEF LoopInv
<1>6. ASSUME NEW p \in Procs, QueueStep(p)
      PROVE  CurrentOK'
  BY <1>1, <1>6 DEF QueueStep, loopVars
<1> QED BY <1>2, <1>3, <1>4, <1>5, <1>6 DEF LoopNext, Caller

\* How a step leaves the calls, for those who are not in one with a put.
LEMMA CallsMove ==
    ASSUME LoopInv, InsertOK, NEW p \in Procs, Same(p),
           op'[p].name \in PutNames /\ op'[p].phase \in {"store", "done"} => op'[p].arg = <<>>
    PROVE  \A q \in Procs : op'[q].name \in PutNames /\ op'[q].phase \in {"store", "done"}
             => op'[q].arg = <<>>
BY DEF InsertOK, Leaves, Same

\* A put hands its songs to the deque in the step that enters the lock.
LEMMA QueueKeepsInsert ==
    ASSUME LoopInv, InsertOK, NEW p \in Procs, QueueStep(p)
    PROVE  InsertOK'
<1> USE DEF LoopInv
<1>1. CASE EnterPut(p) \/ EnterPutFront(p)
  <2>1. PICK todo : Proceed(p, todo, <<>>)
    BY <1>1 DEF EnterPut, EnterPutFront
  <2> QED BY <2>1, ProceedFacts, ProceedArg, CallsMove, Callers, <1>1
             DEF InsertOK, Leaves, QueueStep, userVars, Same
<1>2. CASE EnterShuffle(p) \/ EnterRemove(p) \/ EnterClear(p) \/ EnterFinishFailed(p)
  <2>1. PICK todo, result : Proceed(p, todo, result)
    BY <1>2 DEF EnterShuffle, EnterRemove, EnterClear, EnterFinishFailed
  <2>2. op[p].name \notin PutNames
    BY <1>2 DEF EnterShuffle, EnterRemove, EnterClear, EnterFinishFailed, Holds, PutNames
  <2> QED BY <2>1, <2>2, ProceedFacts, CallsMove, Callers
             DEF InsertOK, Leaves, QueueStep, userVars, Same
<1>3. CASE Write(p) \/ WriteFails(p)
  <2>1. op[p].phase = "store" /\ \E todo : Issued(p, todo)
    BY <1>3 DEF Write, WriteFails
  <2> QED BY <2>1, IssuedFacts, IssuedArg, CallsMove, Callers
             DEF InsertOK, Leaves, QueueStep, userVars, Same
<1> QED BY <1>1, <1>2, <1>3 DEF QueueStep, EnterMutation

\* A command is waiting for an insertion only while it is in one.
LEMMA UserKeepsInsert ==
    ASSUME LoopInv, InsertOK, NEW u \in Users, UserStep(u) \/ Finish(u) \/ Inserted(u)
    PROVE  InsertOK'
<1> USE Callers DEF LoopInv
<1>1. user[u] \in UserCommand /\ DOMAIN user = Users
  BY DEF ClientInv, ClientOK
<1>2. Same(u) /\ \A v \in Users : v # u => user'[v] = user[v]
  BY UserAside, UserItems
<1>3. op'[u].name \in PutNames /\ op'[u].phase \in {"store", "done"} => op'[u].arg = <<>>
  <2>1. UNCHANGED op \/ Return(u) \/ \E name, arg, gen : Call(u, name, arg, gen)
    BY DEF UserStep, Play, Playlist, PlayFront, PlayNow, CutIn, Enqueue, ResolveFirst, Bulk,
           BulkCancelled, Skip, CutInTooLate, Interject, InterjectCancelled, Finish, Inserted,
           Insert, FallBack, queueVars
  <2> QED BY <2>1, CallFacts, ReturnFacts DEF InsertOK, Leaves, Idle, PutNames
<1>4. user'[u].pc = "inserting" => op'[u].name = "putFront"
  <2>1. ASSUME NEW c, NEW pc \in {"queueing", "cancelling"}, Busy(u, c, pc)
        PROVE  user'[u].pc # "inserting"
    BY <1>1, <2>1 DEF Busy, NoCommand
  <2>2. ASSUME NEW q, NEW target, Insert(u, q, target) PROVE op'[u].name = "putFront"
    BY <2>2, CallFacts DEF Insert
  <2>3. CASE Play(u) \/ Playlist(u) \/ PlayFront(u)
    BY <2>1, <2>3 DEF Play, Playlist, PlayFront, Enqueue
  <2>4. CASE PlayNow(u) \/ CutIn(u)
    BY <1>1, <2>1, <2>4 DEF PlayNow, CutIn, ResolveFirst, Enqueue, NoCommand
  <2>5. CASE (\E c \in BulkNames : Bulk(u, c)) \/ BulkCancelled(u) \/ CutInTooLate(u)
    BY <1>1, <2>1, <2>5 DEF Bulk, BulkCancelled, CutInTooLate, UserCommand
  <2>6. CASE Skip(u)
    BY <2>6 DEF Skip, InsertOK, queueVars
  <2>7. CASE Interject(u)
    BY <1>1, <2>1, <2>2, <2>7 DEF Interject, FallBack, UserCommand
  <2>8. CASE InterjectCancelled(u)
    BY <1>1, <2>1, <2>2, <2>8 DEF InterjectCancelled, FallBack
  <2>9. CASE Finish(u) \/ Inserted(u)
    BY <1>1, <2>9 DEF Finish, Inserted, NoCommand
  <2> QED BY <2>3, <2>4, <2>5, <2>6, <2>7, <2>8, <2>9 DEF UserStep
<1> QED BY <1>2, <1>3, <1>4, CallsMove DEF InsertOK, Leaves, Same

\* No step leaves songs in a call whose put is done.
LEMMA InsertStepwise == LoopInv /\ InsertOK /\ [LoopNext]_vars => InsertOK'
<1> SUFFICES ASSUME LoopInv, InsertOK, [LoopNext]_vars PROVE InsertOK'
  OBVIOUS
<1> USE Callers
<1>1. ASSUME NEW p \in {Loop, Prefetch}, Same(p), op'[p].name \notin PutNames, UNCHANGED user
      PROVE  InsertOK'
  BY <1>1, CallsMove DEF InsertOK, Leaves, Same
<1>2. CASE UNCHANGED vars
  BY <1>2 DEF vars, queueVars, userVars, InsertOK, Leaves
<1>3. CASE LoopStep \/ SongRetired \/ SongEnds
  <2>1. op'[Loop].name \notin PutNames
    <3>1. ClientInv'
      BY <1>3, LoopKeeps
    <3> QED BY <3>1 DEF ClientInv, CallsOK, LoopCallOK, PutNames, Idle
  <2> QED BY <1>1, <1>3, <2>1, LoopAside
<1>4. CASE PrefetchStep \/ PrefetchRetired
  <2>1. op'[Prefetch].name \notin PutNames
    <3>1. ClientInv'
      BY <1>4, PrefetchKeeps
    <3> QED BY <3>1 DEF ClientInv, CallsOK, TaskCallOK, PutNames, Idle
  <2> QED BY <1>1, <1>4, <2>1, PrefetchAside
<1> QED BY <1>2, <1>3, <1>4, UserKeepsInsert, QueueKeepsInsert DEF LoopNext, Caller

\* The three together, for every step of the player.
LEMMA HandsStepwise == LoopInv /\ HandsOK /\ [LoopNext]_vars => HandsOK'
BY LeakStepwise, CurrentStepwise, InsertStepwise DEF HandsOK

\* At the start nobody is in a call and nothing plays.
LEMMA HandsInitially == LoopInit => HandsOK
BY Callers DEF LoopInit, Init, HandsOK, LeakOK, CurrentOK, InsertOK, Leaves, Idle, NoCommand

\* The loop has a song whose claim is settled and whose row is not written yet.
Starting == lpc \in {"start", "announce", "playing", "join", "settle", "raise"}

\* An interjection has marked the song before its claim was settled: the entry that claim
\* will take writes no row, what the interjection queued does.
Marked == lpc = "commit" /\ commitGen = generation /\ skipFor = song /\ ~song.played

\* The loop will write the row itself, or an interjection will move it to what it queues.
\* A song not heard yet whose claim a clear took has left the deque without a row.
LoopHas(s) ==
    /\ song # NoItem /\ song.song = s
    /\ \/ Starting /\ skipFor # song
       \/ lpc = "commit" /\ commitGen # generation /\ ~song.played /\ skipFor # song
       \/ lpc = "resolve" /\ commitGen # generation /\ ~song.played

\* Where a play can be: on its way to the queue, in a command's hand, in the deque, in a
\* call, with the loop, in its row.
InPlace(s, w, p, k) ==
    \/ w = "arriving" /\ p = Loop /\ k \in DOMAIN arriving /\ arriving[k] = s
    \/ w = "hand" /\ p \in Users /\ k = 1 /\ Waits(p) /\ user[p].item.song = s
    \/ w = "queue" /\ p = Loop /\ k \in DOMAIN items /\ items[k].song = s /\ ~(k = 1 /\ Marked)
    \/ /\ w = "call" /\ p \in Procs /\ k \in DOMAIN op[p].arg /\ op[p].arg[k].song = s
       /\ Putting(p) \/ (Leaves(p) /\ op[p].arg[k].played)
    \/ w = "loop" /\ p = Loop /\ k = 1 /\ LoopHas(s)
    \/ w = "row" /\ p = Loop /\ k \in 1 .. history[s]

\* A play is in one place only.
One(s) ==
    \A w, v, p, q, j, k : InPlace(s, w, p, j) /\ InPlace(s, v, q, k) => w = v /\ p = q /\ j = k

\* Excluded are the plays of a leaked claim and those known to be in two places.
OneHolder == ~leaked => \A s \in Songs \ doubled : One(s)

\* A step after which a play is only where it was before keeps it in one place.
LEMMA OneAside ==
    ASSUME NEW s, One(s), \A w, p, k : InPlace(s, w, p, k)' => InPlace(s, w, p, k)
    PROVE  One(s)'
BY DEF One

\* One row for what a call returns, if one play of it was heard, and none otherwise.
LEMMA FlushRow ==
    ASSUME NEW gone \in Seq(Item), history \in [Songs -> Nat], Flush(gone), NEW s \in Songs,
           \A j, k \in DOMAIN gone :
              gone[j].song = s /\ gone[j].played /\ gone[k].song = s /\ gone[k].played => j = k
    PROVE  /\ (\E k \in DOMAIN gone : gone[k].song = s /\ gone[k].played)
                => history'[s] = history[s] + 1
           /\ ~(\E k \in DOMAIN gone : gone[k].song = s /\ gone[k].played)
                => history'[s] = history[s]
<1> DEFINE S == {k \in DOMAIN gone : gone[k].song = s /\ gone[k].played}
<1>1. history'[s] = history[s] + Cardinality(S)
  BY DEF Flush
<1>2. history[s] \in Nat
  OBVIOUS
<1>3. ASSUME NEW k \in S PROVE Cardinality(S) = 1
  <2>1. S = {k}
    BY <1>3
  <2> HIDE DEF S
  <2> QED BY <2>1, FS_Singleton
<1>4. ASSUME S = {} PROVE Cardinality(S) = 0
  BY <1>4, FS_EmptySet
<1>5. CASE S = {}
  <2>1. ~(\E k \in DOMAIN gone : gone[k].song = s /\ gone[k].played)
    BY <1>5
  <2> HIDE DEF S
  <2> QED BY <1>1, <1>2, <1>4, <1>5, <2>1
<1>6. CASE S # {}
  <2>1. \E k \in DOMAIN gone : gone[k].song = s /\ gone[k].played
    BY <1>6
  <2>2. Cardinality(S) = 1
    BY <1>3, <1>6
  <2> HIDE DEF S
  <2> QED BY <1>1, <1>2, <2>1, <2>2
<1> QED BY <1>5, <1>6

\* The plays a call returns move into their rows.
LEMMA OneFlushed ==
    ASSUME LoopInv, NEW s \in Songs, One(s), history \in [Songs -> Nat],
           NEW p \in Procs, op[p].phase = "done", Same(p), op'[p] = Idle, Flush(op[p].arg),
           \A w, q, k : w \in {"arriving", "hand", "queue", "loop"} /\ InPlace(s, w, q, k)'
                => InPlace(s, w, q, k)
    PROVE  One(s)'
<1> DEFINE gone == op[p].arg
<1>1. gone \in Seq(Item)
  BY LockFacts DEF LoopInv, Operation
<1>2. \A k \in DOMAIN gone : gone[k].song = s /\ gone[k].played => InPlace(s, "call", p, k)
  BY DEF InPlace, Leaves
<1>3. \A j, k \in DOMAIN gone :
         gone[j].song = s /\ gone[j].played /\ gone[k].song = s /\ gone[k].played => j = k
  <2> HIDE DEF gone
  <2>1. SUFFICES ASSUME NEW j \in DOMAIN gone, NEW k \in DOMAIN gone,
                        gone[j].song = s, gone[j].played, gone[k].song = s, gone[k].played
                 PROVE  j = k
    OBVIOUS
  <2>2. InPlace(s, "call", p, j) /\ InPlace(s, "call", p, k)
    BY <1>2, <2>1
  <2> QED BY <2>2 DEF One
<1>4. /\ (\E k \in DOMAIN gone : gone[k].song = s /\ gone[k].played)
                => history'[s] = history[s] + 1
      /\ ~(\E k \in DOMAIN gone : gone[k].song = s /\ gone[k].played)
                => history'[s] = history[s]
  BY <1>1, <1>3, FlushRow
<1>5. \A q, k : InPlace(s, "call", q, k)' => q # p /\ InPlace(s, "call", q, k)
  <2>1. SUFFICES ASSUME NEW q, NEW k, InPlace(s, "call", q, k)'
                 PROVE  q # p /\ InPlace(s, "call", q, k)
    OBVIOUS
  <2>2. op'[p].phase = "idle"
    BY DEF Idle
  <2> QED BY <2>1, <2>2 DEF InPlace, Putting, Leaves, Same
<1>6. \A w, q, k : InPlace(s, w, q, k)' => w \in {"arriving", "hand", "queue", "loop", "call", "row"}
  BY DEF InPlace
<1>7. \A q, k : InPlace(s, "row", q, k)' => q = Loop /\ k \in 1 .. history'[s]
  BY DEF InPlace
<1>8. \A k \in 1 .. history[s] : InPlace(s, "row", Loop, k)
  BY DEF InPlace
<1>9. history[s] \in Nat
  OBVIOUS
<1> HIDE DEF gone
<1>10. CASE ~(\E k \in DOMAIN gone : gone[k].song = s /\ gone[k].played)
  <2>1. \A w, q, k : InPlace(s, w, q, k)' => InPlace(s, w, q, k)
    BY <1>4, <1>5, <1>6, <1>7, <1>8, <1>10
  <2> QED BY <2>1, OneAside
<1>11. ASSUME NEW k0 \in DOMAIN gone, gone[k0].song = s, gone[k0].played PROVE One(s)'
  <2>1. \A w, q, k : InPlace(s, w, q, k) => w = "call" /\ q = p /\ k = k0
    BY <1>2, <1>11 DEF One
  <2>2. history[s] = 0 /\ history'[s] = 1
    <3>1. ~(1 \in 1 .. history[s])
      BY <1>8, <2>1
    <3> QED BY <1>4, <1>9, <1>11, <3>1
  <2>3. \A w, q, k : InPlace(s, w, q, k)' => w = "row" /\ q = Loop /\ k = 1
    BY <1>5, <1>6, <1>7, <2>1, <2>2
  <2> QED BY <2>3 DEF One
<1> QED BY <1>10, <1>11

\* The loop's steps leave alone what is on its way to the queue and what a call holds.
LEMMA LoopPlaces ==
    ASSUME LoopInv, LoopStep \/ SongRetired \/ SongEnds, NEW s, NEW w, NEW p, NEW k,
           InPlace(s, w, p, k)', w \in {"arriving", "hand", "call"}
    PROVE  InPlace(s, w, p, k)
<1> USE Callers
<1>1. Same(Loop) /\ UNCHANGED <<user, arriving>>
  BY LoopAside
<1>2. UNCHANGED op \/ op'[Loop] = Idle \/ (op'[Loop].phase = "lock" /\ op'[Loop].name \notin PutNames)
  <2>1. \/ UNCHANGED op \/ Return(Loop) \/ EnterCommit(Loop)
        \/ \E name, arg, gen : Call(Loop, name, arg, gen)
    BY DEF LoopStep, PassGate, GateTimesOut, TakePrefetched, TakeFromQueue, WakeUp, IdleOut,
           StreamSong, StreamSongFails, CommitSong, StartSong, StartPrefetch, SongOver,
           JoinPrefetch, SettleAlone, Settle, LoopRaises, SongRetired, SongEnds, queueVars
  <2>2. EnterCommit(Loop) => op'[Loop] = Idle
    BY DEF EnterCommit, LoopInv, QueueInv, QueueTypeOK
  <2>3. ClientInv'
    BY LoopKeeps
  <2>4. op'[Loop].name \notin PutNames
    BY <2>3 DEF ClientInv, CallsOK, LoopCallOK, PutNames, Idle
  <2> QED BY <2>1, <2>2, <2>4, CallFacts, ReturnFacts DEF LoopInv
<1> QED BY <1>1, <1>2 DEF InPlace, Waits, Putting, Leaves, Same, Idle, PutNames

\* The claim the loop settles is for the entry of the song it has in hand.
LEMMA CommitMoves ==
    ASSUME LoopInv, TypeInv, HeadOK, stranded = 0, NEW s \in Songs, One(s), CommitSong
    PROVE  One(s)'
<1> USE Callers
<1>1. song \in Item /\ op[Loop].gen = commitGen
  BY DEF CommitSong, LoopInv, ClientInv, InHandOK, CallsOK, LoopCallOK
<1>2. LoopStep
  BY DEF LoopStep
<1>3. \A w, p, k : InPlace(s, w, p, k)' => w \in {"arriving", "hand", "queue", "loop", "call", "row"}
  BY DEF InPlace
<1>4. \A w, p, k : w \in {"arriving", "hand", "call"} /\ InPlace(s, w, p, k)' => InPlace(s, w, p, k)
  BY <1>2, LoopPlaces
<1>5. \A p, k : InPlace(s, "row", p, k)' => InPlace(s, "row", p, k)
  BY DEF InPlace, CommitSong
<1>6. CASE ~CommitOK(Loop)
  <2>1. ~(lpc = "commit" /\ commitGen = generation)
    <3>1. ASSUME lpc = "commit", commitGen = generation PROVE cursor > 0
      BY <3>1, ClaimInDeque DEF LoopHoldsClaim
    <3> QED BY <1>1, <1>6, <3>1 DEF CommitOK
  <2>2. \A w, p, k : w \in {"queue", "loop"} /\ InPlace(s, w, p, k)' => InPlace(s, w, p, k)
    BY <1>6, <2>1 DEF InPlace, CommitSong, EnterCommit, LoopHas, Starting, Marked
  <2> QED BY <1>3, <1>4, <1>5, <2>2, OneAside
<1>7. CASE CommitOK(Loop)
  <2>1. commitGen = generation /\ cursor > 0 /\ lpc = "commit" /\ items' = Tail(items)
    BY <1>1, <1>7 DEF CommitOK, CommitSong, EnterCommit, Release
  <2>2. lpc' \in {"start", "raise"} /\ UNCHANGED <<song, skipFor>>
    BY <1>7 DEF CommitSong
  <2>3. HeadIs(song) /\ items[1] \in Item
    BY <2>1, SettledHead DEF HeadOK, LoopInv
  <2>4. items[1].song = song.song
    BY <2>3, MadeItems, ResolvedSong DEF HeadIs
  <2>5. \A k \in DOMAIN items' : k \in Nat /\ k >= 1 /\ k + 1 \in DOMAIN items
          /\ items'[k] = items[k + 1]
    <3>1. items \in Seq(Item) /\ items # <<>>
      BY <2>1, DequeFacts, EmptySeq DEF LoopInv
    <3>2. Len(items') = Len(items) - 1 /\ \A k \in 1 .. Len(items') : items'[k] = items[k + 1]
      BY <2>1, <3>1, HeadTailProperties
    <3>3. items' \in Seq(Item)
      BY <2>1, <3>1, HeadTailProperties
    <3> QED BY <3>1, <3>2, <3>3, LenProperties
  <2>6. 1 \in DOMAIN items
    BY <2>1, DequeFacts, LenProperties DEF LoopInv
  <2>7. \A p, k : InPlace(s, "queue", p, k)' => p = Loop /\ InPlace(s, "queue", Loop, k + 1)
          /\ k + 1 # 1 /\ k \in Nat
    BY <2>2, <2>5 DEF InPlace, Marked
  <2>8. \A p, k : InPlace(s, "loop", p, k)' => p = Loop /\ k = 1 /\ InPlace(s, "queue", Loop, 1)
    BY <2>1, <2>2, <2>4, <2>6 DEF InPlace, LoopHas, Marked
  <2>9. SUFFICES ASSUME NEW w, NEW v, NEW p, NEW q, NEW j, NEW k,
                        InPlace(s, w, p, j)', InPlace(s, v, q, k)'
                 PROVE  w = v /\ p = q /\ j = k
    BY DEF One
  <2>10. \/ w \in {"arriving", "hand", "call", "row"} /\ InPlace(s, w, p, j)
         \/ w = "queue" /\ p = Loop /\ j \in Nat /\ j + 1 # 1 /\ InPlace(s, "queue", Loop, j + 1)
         \/ w = "loop" /\ p = Loop /\ j = 1 /\ InPlace(s, "queue", Loop, 1)
    BY <1>3, <1>4, <1>5, <2>7, <2>8, <2>9
  <2>11. \/ v \in {"arriving", "hand", "call", "row"} /\ InPlace(s, v, q, k)
         \/ v = "queue" /\ q = Loop /\ k \in Nat /\ k + 1 # 1 /\ InPlace(s, "queue", Loop, k + 1)
         \/ v = "loop" /\ q = Loop /\ k = 1 /\ InPlace(s, "queue", Loop, 1)
    BY <1>3, <1>4, <1>5, <2>7, <2>8, <2>9
  <2> QED BY <2>10, <2>11 DEF One
<1> QED BY <1>6, <1>7

\* The row the loop writes is for the song it has in hand, and takes its place.
LEMMA SettleMoves ==
    ASSUME LoopInv, TypeInv, NEW s \in Songs, One(s), NEW result, Settle(result), Starting,
           LoopStep
    PROVE  One(s)'
<1>1. \A w, p, k : InPlace(s, w, p, k)' => w \in {"arriving", "hand", "queue", "loop", "call", "row"}
  BY DEF InPlace
<1>2. \A w, p, k : w \in {"arriving", "hand", "call"} /\ InPlace(s, w, p, k)' => InPlace(s, w, p, k)
  BY LoopPlaces
<1>3. \A w, p, k : w \in {"queue", "loop"} /\ InPlace(s, w, p, k)' => w = "queue" /\ InPlace(s, w, p, k)
  BY DEF InPlace, Settle, LoopHas, Starting, Marked, queueVars, memory
<1>4. song \in Item /\ history \in [Songs -> Nat]
  BY DEF TypeInv, RecordOK, Starting
<1>5. history[s] \in Nat
  BY <1>4
<1>6. CASE history'[s] = history[s]
  <2>1. \A p, k : InPlace(s, "row", p, k)' => InPlace(s, "row", p, k)
    BY <1>6 DEF InPlace
  <2> QED BY <1>1, <1>2, <1>3, <2>1, OneAside
<1>7. CASE history'[s] # history[s]
  <2>1. song.song = s /\ skipFor # song /\ history'[s] = history[s] + 1
    BY <1>4, <1>7 DEF Settle
  <2>2. song # NoItem
    BY <1>4, Callers
  <2>3. InPlace(s, "loop", Loop, 1)
    BY <2>1, <2>2 DEF InPlace, LoopHas, Starting
  <2>4. \A w, p, k : InPlace(s, w, p, k) => w = "loop"
    BY <2>3 DEF One
  <2>5. ~(1 \in 1 .. history[s])
    BY <2>4 DEF InPlace
  <2>6. history'[s] = 1
    BY <1>5, <2>1, <2>5
  <2>7. \A w, p, k : InPlace(s, w, p, k)' => w = "row"
    BY <1>1, <1>2, <1>3, <2>4
  <2>8. \A p, k : InPlace(s, "row", p, k)' => p = Loop /\ k = 1
    BY <2>6 DEF InPlace
  <2> QED BY <2>7, <2>8 DEF One
<1> QED BY <1>6, <1>7

\* The loop: a claim becomes the song in hand, and that its row.
LEMMA LoopKeepsOne ==
    ASSUME LoopInv, TypeInv, HeadOK, LeakOK, OneHolder, LoopStep \/ SongRetired \/ SongEnds
    PROVE  OneHolder'
<1> USE Callers
<1>1. (leaked => leaked') /\ UNCHANGED doubled /\ leaked \in BOOLEAN
  BY DEF LoopStep, PassGate, GateTimesOut, TakePrefetched, TakeFromQueue, Discard, Strand, WakeUp,
         IdleOut, StreamSong, StreamSongFails, CommitSong, StartSong, StartPrefetch, SongOver,
         JoinPrefetch, SettleAlone, Settle, LoopRaises, SongRetired, SongEnds, auxVars,
         TypeInv, RecordOK
<1>2. SUFFICES ASSUME ~leaked, NEW s \in Songs \ doubled PROVE One(s)'
  BY <1>1 DEF OneHolder
<1>3. One(s) /\ s \in Songs
  BY <1>2 DEF OneHolder
<1>4. \A w, p, k : InPlace(s, w, p, k)' => w \in {"arriving", "hand", "queue", "loop", "call", "row"}
  BY DEF InPlace
<1>5. \A w, p, k : w \in {"arriving", "hand", "call"} /\ InPlace(s, w, p, k)' => InPlace(s, w, p, k)
  BY LoopPlaces
<1>6. ASSUME \A w, p, k : w \in {"queue", "loop", "row"} /\ InPlace(s, w, p, k)' => InPlace(s, w, p, k)
      PROVE  One(s)'
  BY <1>3, <1>4, <1>5, <1>6, OneAside
<1>7. CASE PassGate \/ GateTimesOut \/ TakePrefetched \/ TakeFromQueue \/ WakeUp \/ IdleOut
  BY <1>6, <1>7 DEF InPlace, LoopHas, Starting, Marked, PassGate, GateTimesOut, TakePrefetched, AtTop,
         TakeFromQueue, WakeUp, IdleOut, Claim, queueVars, memory
<1>8. CASE StreamSong \/ StreamSongFails
  <2>1. /\ song \in Item /\ Resolved(song) \in Item /\ Resolved(song).song = song.song
        /\ Resolved(song).played = song.played
    <3>1. song \in Item
      BY <1>8 DEF StreamSong, StreamSongFails, LoopInv, ClientInv, InHandOK
    <3>2. Resolved(song).played = song.played
      BY <3>1 DEF Resolved, Item
    <3> QED BY <3>1, <3>2, MadeItems, ResolvedSong
  <2>2. \A w, p, k : w \in {"queue", "loop", "row"} /\ InPlace(s, w, p, k)' => InPlace(s, w, p, k)
    BY <1>8, <2>1 DEF InPlace, LoopHas, Starting, Marked, StreamSong, StreamSongFails, memory
  <2> QED BY <1>6, <2>2
<1>9. CASE CommitSong
  <2>1. stranded = 0
    BY <1>2 DEF LeakOK, LoopInv, ClientInv, ClientOK
  <2> QED BY <1>3, <1>9, <2>1, CommitMoves
<1>10. CASE StartSong \/ StartPrefetch \/ SongOver \/ SongEnds
  BY <1>6, <1>10 DEF InPlace, LoopHas, Starting, Marked, StartSong, StartPrefetch, SongOver, SongEnds,
         queueVars, memory
<1>11. CASE JoinPrefetch \/ SettleAlone
  BY <1>3, <1>11, SettleMoves DEF JoinPrefetch, SettleAlone, Starting, LoopStep
<1>12. CASE LoopRaises
  BY <1>6, <1>12 DEF InPlace, LoopHas, Starting, Marked, LoopRaises, memory
<1>13. CASE SongRetired
  <2>1. op[Loop].phase = "done" /\ Same(Loop) /\ op'[Loop] = Idle /\ Flush(op[Loop].arg)
    BY <1>13, ReturnFacts DEF SongRetired, LoopInv
  <2>2. \A w, p, k : w \in {"queue", "loop"} /\ InPlace(s, w, p, k)' => InPlace(s, w, p, k)
    BY <1>13 DEF InPlace, LoopHas, Starting, Marked, SongRetired, memory
  <2>3. history \in [Songs -> Nat]
    BY DEF TypeInv, RecordOK
  <2> QED BY <1>3, <1>5, <2>1, <2>2, <2>3, OneFlushed
<1> QED BY <1>7, <1>8, <1>9, <1>10, <1>11, <1>12, <1>13 DEF LoopStep

\* The prefetch: what it resolves, fails on or gives back is in the deque all along.
LEMMA PrefetchKeepsOne ==
    ASSUME LoopInv, TypeInv, HeadOK, LeakOK, OneHolder, PrefetchStep \/ PrefetchRetired
    PROVE  OneHolder'
<1> USE Callers
<1>1. (leaked => leaked') /\ UNCHANGED doubled /\ leaked \in BOOLEAN
  BY DEF PrefetchStep, PrefetchClaims, PrefetchStreams, PrefetchFails, PrefetchCancelled,
         PrefetchRetired, PrefetchUnchanged, Strand, TypeInv, RecordOK
<1>2. SUFFICES ASSUME ~leaked, NEW s \in Songs \ doubled PROVE One(s)'
  BY <1>1 DEF OneHolder
<1>3. One(s) /\ s \in Songs /\ stranded = 0
  BY <1>2 DEF OneHolder, LeakOK, LoopInv, ClientInv, ClientOK
<1>4. /\ Same(Prefetch) /\ UNCHANGED <<user, arriving, lpc, song, commitGen, skipFor>>
  BY PrefetchAside
     DEF PrefetchStep, PrefetchClaims, PrefetchStreams, PrefetchFails, PrefetchCancelled,
         PrefetchRetired, PrefetchUnchanged, loopVars
<1>5. UNCHANGED generation
  BY DEF PrefetchStep, PrefetchClaims, PrefetchStreams, PrefetchFails, PrefetchCancelled,
         PrefetchRetired, memory, queueVars
<1>6. /\ DOMAIN items' = DOMAIN items
      /\ \A k \in DOMAIN items : items'[k].song = items[k].song
  <2>1. CASE UNCHANGED items
    BY <2>1
  <2>2. CASE /\ pf.cancel /\ pf.pc = "streaming"
             /\ \E form \in {pf.item, Resolved(pf.item)} : GiveBack(form)
    <3>1. pf.item \in Item
      BY <2>2 DEF LoopInv, ClientInv, InHandOK
    <3>2. /\ DOMAIN items' = DOMAIN items
          /\ \A k \in DOMAIN items : items'[k] \in {items[k], Resolved(items[k])}
      BY <1>3, <2>2, <3>1, GiveBackResolves
    <3>3. \A k \in DOMAIN items : items[k] \in Item
      BY DequeFacts, ElementOfSeq, LenProperties DEF LoopInv
    <3> QED BY <3>2, <3>3, ResolvedSong
  <2> QED BY <2>1, <2>2, PrefetchAside
<1>7. \A w, p, k : w \in {"arriving", "hand", "queue", "loop"} /\ InPlace(s, w, p, k)'
        => InPlace(s, w, p, k)
  <2>1. \A w, p, k : w \in {"arriving", "hand", "loop"} /\ InPlace(s, w, p, k)' => InPlace(s, w, p, k)
    BY <1>4, <1>5 DEF InPlace, LoopHas, Starting, Waits
  <2>2. \A p, k : InPlace(s, "queue", p, k)' => InPlace(s, "queue", p, k)
    BY <1>4, <1>5, <1>6 DEF InPlace, Marked
  <2> QED BY <2>1, <2>2
<1>8. CASE PrefetchRetired
  <2>1. op[Prefetch].phase = "done" /\ op'[Prefetch] = Idle /\ Flush(op[Prefetch].arg)
    BY <1>8, ReturnFacts DEF PrefetchRetired, LoopInv
  <2>2. history \in [Songs -> Nat]
    BY DEF TypeInv, RecordOK
  <2> QED BY <1>3, <1>4, <1>7, <2>1, <2>2, OneFlushed
<1>9. CASE PrefetchStep
  <2>1. UNCHANGED history
    BY <1>9 DEF PrefetchStep, PrefetchClaims, PrefetchStreams, PrefetchFails, PrefetchCancelled
  <2>2. UNCHANGED op \/ op'[Prefetch] = Idle
          \/ (op'[Prefetch].phase = "lock" /\ op'[Prefetch].name \notin PutNames)
    <3>1. \/ UNCHANGED op \/ Abandon(Prefetch)
          \/ \E name, arg, gen : Call(Prefetch, name, arg, gen)
      BY <1>9
         DEF PrefetchStep, PrefetchClaims, PrefetchStreams, PrefetchFails, PrefetchCancelled, queueVars
    <3>2. ClientInv'
      BY PrefetchKeeps
    <3>3. op'[Prefetch].name \notin PutNames
      BY <3>2 DEF ClientInv, CallsOK, TaskCallOK, PutNames, Idle
    <3> QED BY <3>1, <3>3, CallFacts, AbandonFacts DEF LoopInv
  <2>3. \A p, k : InPlace(s, "call", p, k)' => InPlace(s, "call", p, k)
    BY <1>4, <2>2 DEF InPlace, Putting, Leaves, Same, Idle, PutNames
  <2>4. \A p, k : InPlace(s, "row", p, k)' => InPlace(s, "row", p, k)
    BY <2>1 DEF InPlace
  <2>5. \A w, p, k : InPlace(s, w, p, k)' => w \in {"arriving", "hand", "queue", "loop", "call", "row"}
    BY DEF InPlace
  <2> QED BY <1>3, <1>7, <2>3, <2>4, <2>5, OneAside
<1> QED BY <1>8, <1>9

\* A put slides its songs in at one place, behind every claim.
LEMMA PutMoves ==
    ASSUME QueueInv, NEW p \in Procs, EnterPut(p) \/ EnterPutFront(p)
    PROVE  \E lo \in Nat, m \in Nat :
             /\ cursor <= lo
             /\ \A k \in DOMAIN items' :
                  /\ k \in Nat
                  /\ \/ k \in DOMAIN items /\ k <= lo /\ items'[k] = items[k]
                     \/ k - lo \in DOMAIN op[p].arg /\ items'[k] = op[p].arg[k - lo]
                     \/ k - m \in DOMAIN items /\ k - m > lo /\ items'[k] = items[k - m]
<1>1. /\ Len(items) \in Nat /\ DOMAIN items = 1 .. Len(items) /\ cursor \in 0 .. Len(items)
      /\ items \in Seq(Item) /\ op[p].arg \in Seq(Item)
  BY DequeFacts, LockFacts DEF Operation
<1> DEFINE arg == op[p].arg
           m == Len(arg)
<1>2. m \in Nat /\ DOMAIN arg = 1 .. m /\ arg \in Seq(Item)
  BY <1>1, LenProperties
<1> HIDE DEF m
<1>3. CASE EnterPut(p)
  <2> DEFINE lo == Len(items)
  <2>1. items' = items \o arg
    BY <1>3 DEF EnterPut
  <2> HIDE DEF arg
  <2>2. /\ items \o arg \in Seq(Item) /\ Len(items \o arg) = lo + m
        /\ \A k \in 1 .. lo + m : (items \o arg)[k] = IF k <= lo THEN items[k] ELSE arg[k - lo]
    BY <1>1, <1>2, ConcatProperties DEF m
  <2>3. DOMAIN items' = 1 .. lo + m
    BY <2>1, <2>2, LenProperties
  <2>4. lo \in Nat /\ cursor <= lo /\ DOMAIN items = 1 .. lo
    BY <1>1
  <2> HIDE DEF lo
  <2>5. ASSUME NEW k \in DOMAIN items'
        PROVE  /\ k \in Nat
               /\ \/ k \in DOMAIN items /\ k <= lo /\ items'[k] = items[k]
                  \/ k - lo \in DOMAIN arg /\ items'[k] = arg[k - lo]
    <3>1. k \in 1 .. lo + m /\ items'[k] = IF k <= lo THEN items[k] ELSE arg[k - lo]
      BY <2>1, <2>2, <2>3
    <3> QED BY <1>2, <2>4, <3>1
  <2> QED BY <1>2, <2>4, <2>5 DEF arg
<1>4. CASE EnterPutFront(p)
  <2> DEFINE head == SubSeq(items, 1, cursor)
             rest == SubSeq(items, cursor + 1, Len(items))
             n == Len(items) - cursor
  <2>1. items' = (head \o arg) \o rest
    BY <1>4 DEF EnterPutFront, Claimed
  <2>2. head \in Seq(Item) /\ Len(head) = cursor /\ \A k \in 1 .. cursor : head[k] = items[k]
    <3>1. \A k \in 1 .. Len(items) : items[k] \in Item
      BY DequeFacts
    <3> QED BY <1>1, <3>1, SubSeqProperties
  <2>3. /\ rest \in Seq(Item) /\ Len(rest) = n /\ n \in Nat
        /\ \A k \in 1 .. n : rest[k] = items[k + cursor]
    <3>1. cursor + 1 \in Int /\ Len(items) \in Int
            /\ \A k \in cursor + 1 .. Len(items) : items[k] \in Item
      BY <1>1, DequeFacts
    <3>2. \A k \in 1 .. Len(items) - (cursor + 1) + 1 : rest[k] = items[cursor + 1 + k - 1]
      BY <3>1, SubSeqProperties
    <3>3. Len(items) - (cursor + 1) + 1 = n
          /\ \A k \in 1 .. n : cursor + 1 + k - 1 = k + cursor
      BY <1>1
    <3>4. rest \in Seq(Item) /\ Len(rest) = n
      BY HalvesType
    <3>5. n \in Nat
      BY <1>1
    <3> HIDE DEF rest, n
    <3>6. ASSUME NEW k \in 1 .. n PROVE rest[k] = items[k + cursor]
      <4>1. rest[k] = items[cursor + 1 + k - 1]
        BY <3>2, <3>3
      <4> QED BY <3>3, <4>1
    <3> QED BY <3>4, <3>5, <3>6
  <2>4. n = Len(items) - cursor /\ cursor \in Nat
    BY <1>1
  <2> HIDE DEF head, rest, n, arg
  <2> DEFINE left == head \o arg
  <2>5. /\ left \in Seq(Item) /\ Len(left) = cursor + m
        /\ \A k \in 1 .. cursor + m : left[k] = IF k <= cursor THEN head[k] ELSE arg[k - cursor]
    BY <1>2, <2>2, ConcatProperties DEF m
  <2>6. items' = left \o rest
    BY <2>1
  <2> HIDE DEF left
  <2>7. /\ left \o rest \in Seq(Item) /\ Len(left \o rest) = Len(left) + Len(rest)
        /\ \A k \in 1 .. Len(left) + Len(rest) :
              (left \o rest)[k] = IF k <= Len(left) THEN left[k] ELSE rest[k - Len(left)]
    BY <2>3, <2>5, ConcatProperties
  <2>8. DOMAIN items' = 1 .. cursor + m + n
    BY <1>2, <2>3, <2>4, <2>5, <2>6, <2>7, LenProperties
  <2>9. ASSUME NEW k \in DOMAIN items'
        PROVE  /\ k \in Nat
               /\ \/ k \in DOMAIN items /\ k <= cursor /\ items'[k] = items[k]
                  \/ k - cursor \in DOMAIN arg /\ items'[k] = arg[k - cursor]
                  \/ k - m \in DOMAIN items /\ k - m > cursor /\ items'[k] = items[k - m]
    <3>1. k \in 1 .. cursor + m + n /\ items'[k] = IF k <= cursor + m
            THEN left[k] ELSE rest[k - (cursor + m)]
      BY <1>2, <2>3, <2>4, <2>5, <2>6, <2>7, <2>8
    <3>2. CASE k <= cursor
      BY <1>1, <1>2, <2>2, <2>5, <3>1, <3>2
    <3>3. CASE ~(k <= cursor) /\ k <= cursor + m
      BY <1>1, <1>2, <2>5, <3>1, <3>3
    <3>4. CASE ~(k <= cursor + m)
      <4>1. k - (cursor + m) \in 1 .. n /\ k - (cursor + m) + cursor = k - m
              /\ k - m \in 1 .. Len(items) /\ k - m > cursor
        BY <1>1, <1>2, <2>3, <2>4, <3>1, <3>4
      <4> QED BY <1>1, <2>3, <3>1, <3>4, <4>1
    <3> QED BY <2>4, <3>2, <3>3, <3>4
  <2> QED BY <1>1, <1>2, <2>4, <2>9 DEF arg
<1> QED BY <1>3, <1>4

\* A shuffle moves the pending items about, a remove parts them in two; neither touches a
\* claimed head.
LEMMA PartMoves ==
    ASSUME QueueInv, NEW p \in Procs, EnterShuffle(p) \/ EnterRemove(p)
    PROVE  \E g, h :
             /\ \A k \in DOMAIN items' : /\ g[k] \in DOMAIN items /\ items'[k] = items[g[k]]
                                         /\ cursor > 0 /\ g[k] = 1 => k = 1
             /\ \A j, k \in DOMAIN items' : g[j] = g[k] => j = k
             /\ \A k \in DOMAIN op'[p].arg : /\ h[k] \in DOMAIN items /\ op'[p].arg[k] = items[h[k]]
                                             /\ cursor > 0 => h[k] # 1
             /\ \A j, k \in DOMAIN op'[p].arg : h[j] = h[k] => j = k
             /\ \A j \in DOMAIN items', k \in DOMAIN op'[p].arg : g[j] # h[k]
<1>1. /\ Len(items) \in Nat /\ DOMAIN items = 1 .. Len(items) /\ cursor \in 0 .. Len(items)
      /\ items \in Seq(Item)
  BY DequeFacts
<1>2. Pending \subseteq DOMAIN items /\ (cursor > 0 => 1 \notin Pending)
  BY <1>1 DEF Pending
<1>3. CASE UNCHANGED items /\ op'[p].arg = <<>>
  <2> DEFINE g == [k \in DOMAIN items |-> k]
  <2>1. /\ \A k \in DOMAIN items' : /\ g[k] \in DOMAIN items /\ items'[k] = items[g[k]]
                                    /\ cursor > 0 /\ g[k] = 1 => k = 1
        /\ \A j, k \in DOMAIN items' : g[j] = g[k] => j = k
    BY <1>3
  <2> HIDE DEF g
  <2>2. \A k \in DOMAIN op'[p].arg : FALSE
    BY <1>3
  <2> QED BY <2>1, <2>2
<1>4. CASE EnterShuffle(p)
  <2>1. op'[p].arg = <<>>
    BY <1>4, ProceedArg DEF EnterShuffle
  <2>2. CASE items' # items
    <3>1. PICK pi \in Bijection(Pending, Pending) :
             items' = [k \in DOMAIN items |->
                         IF k \in Pending THEN items[pi[k]] ELSE items[k]]
      BY <1>4, <2>2 DEF EnterShuffle
    <3>2. /\ pi \in [Pending -> Pending]
          /\ \A j, k \in Pending : pi[j] = pi[k] => j = k
      <4>1. pi \in [Pending -> Pending] /\ IsInjective(pi)
        BY <3>1 DEF Bijection, Injection
      <4>2. \A j, k \in Pending : pi[j] = pi[k] => j = k
        BY <4>1 DEF IsInjective
      <4> QED BY <4>1, <4>2
    <3> DEFINE g == [k \in DOMAIN items |-> IF k \in Pending THEN pi[k] ELSE k]
    <3>3. DOMAIN items' = DOMAIN items
      BY <3>1
    <3>4. \A k \in DOMAIN items' : /\ g[k] \in DOMAIN items /\ items'[k] = items[g[k]]
                                   /\ cursor > 0 /\ g[k] = 1 => k = 1
      BY <1>2, <3>1, <3>2, <3>3
    <3>5. \A j, k \in DOMAIN items' : g[j] = g[k] => j = k
      BY <3>2, <3>3
    <3> HIDE DEF g
    <3>6. \A k \in DOMAIN op'[p].arg : FALSE
      BY <2>1
    <3> QED BY <3>4, <3>5, <3>6
  <2> QED BY <1>3, <2>1, <2>2
<1>5. CASE EnterRemove(p)
  <2>1. PICK gone \in SUBSET Pending :
           \/ UNCHANGED items /\ op'[p].arg = <<>>
           \/ items' = At(items, DOMAIN items \ gone) /\ op'[p].arg = At(items, gone)
    BY <1>5, ProceedArg DEF EnterRemove
  <2>2. CASE items' = At(items, DOMAIN items \ gone) /\ op'[p].arg = At(items, gone)
    <3> DEFINE kept == DOMAIN items \ gone
    <3>1. kept \in SUBSET DOMAIN items /\ gone \in SUBSET DOMAIN items /\ kept \cap gone = {}
          /\ (cursor > 0 => 1 \notin gone)
      BY <1>2
    <3> HIDE DEF kept
    <3>2. /\ IsFiniteSet(kept) /\ kept \in SUBSET Nat /\ Cardinality(kept) \in Nat
          /\ DOMAIN At(items, kept) = 1 .. Cardinality(kept)
          /\ \A k \in 1 .. Cardinality(kept) :
                Pos(kept)[k] \in kept /\ At(items, kept)[k] = items[Pos(kept)[k]]
          /\ \A j, k \in 1 .. Cardinality(kept) : j < k => Pos(kept)[j] < Pos(kept)[k]
      BY <1>1, <3>1, AtFacts
    <3>3. /\ IsFiniteSet(gone) /\ gone \in SUBSET Nat
          /\ DOMAIN At(items, gone) = 1 .. Cardinality(gone)
          /\ \A k \in 1 .. Cardinality(gone) :
                Pos(gone)[k] \in gone /\ At(items, gone)[k] = items[Pos(gone)[k]]
      BY <1>1, <3>1, AtFacts
    <3>4. items' = At(items, kept)
      BY <2>2 DEF kept
    <3> DEFINE g == Pos(kept)
               h == Pos(gone)
    <3>5. ASSUME NEW k \in 1 .. Cardinality(kept), g[k] = 1 PROVE k = 1
      <4>1. CASE k > 1
        <5>1. 1 \in 1 .. Cardinality(kept)
          BY <3>2, <4>1
        <5>2. g[1] < 1 /\ g[1] \in DOMAIN items
          BY <3>1, <3>2, <3>5, <4>1, <5>1
        <5> QED BY <1>1, <5>2
      <4> QED BY <4>1
    <3>6. \A k \in DOMAIN items' : /\ g[k] \in DOMAIN items /\ items'[k] = items[g[k]]
                                   /\ cursor > 0 /\ g[k] = 1 => k = 1
      BY <3>1, <3>2, <3>4, <3>5
    <3>7. \A j, k \in DOMAIN items' : g[j] = g[k] => j = k
      BY <3>2, <3>4, PosOnce
    <3>8. \A k \in DOMAIN op'[p].arg : /\ h[k] \in DOMAIN items /\ op'[p].arg[k] = items[h[k]]
                                       /\ cursor > 0 => h[k] # 1
      BY <2>2, <3>1, <3>3
    <3>9. \A j, k \in DOMAIN op'[p].arg : h[j] = h[k] => j = k
      BY <2>2, <3>3, PosOnce
    <3>10. \A j \in DOMAIN items', k \in DOMAIN op'[p].arg : g[j] # h[k]
      <4>1. \A j \in DOMAIN items' : g[j] \in kept
        BY <3>2, <3>4
      <4>2. \A k \in DOMAIN op'[p].arg : h[k] \in gone
        BY <2>2, <3>3
      <4> QED BY <3>1, <4>1, <4>2
    <3> HIDE DEF g, h
    <3> QED BY <3>6, <3>7, <3>8, <3>9, <3>10
  <2> QED BY <1>3, <2>1, <2>2
<1> QED BY <1>4, <1>5

\* What a queue step leaves alone, for a play whose song, row and request it does not move.
LEMMA QueuePlaces ==
    ASSUME LoopInv, NEW p \in Procs, QueueStep(p), Same(p), ~Putting(p)', NEW s, NEW w, NEW q, NEW k,
           InPlace(s, w, q, k)', w \in {"arriving", "hand", "row"} \/ (w = "call" /\ q # p)
    PROVE  InPlace(s, w, q, k)
BY DEF QueueStep, InPlace, Waits, Putting, Leaves, Same, userVars

\* A put moves its songs from the call into the deque.
LEMMA PutKeepsOne ==
    ASSUME LoopInv, NEW s \in Songs, One(s), NEW p \in Procs, QueueStep(p),
           EnterPut(p) \/ EnterPutFront(p)
    PROVE  One(s)'
<1>1. PICK lo \in Nat, m \in Nat :
             /\ cursor <= lo
             /\ \A k \in DOMAIN items' :
                  /\ k \in Nat
                  /\ \/ k \in DOMAIN items /\ k <= lo /\ items'[k] = items[k]
                     \/ k - lo \in DOMAIN op[p].arg /\ items'[k] = op[p].arg[k - lo]
                     \/ k - m \in DOMAIN items /\ k - m > lo /\ items'[k] = items[k - m]
  BY PutMoves DEF LoopInv
<1>2. Same(p) /\ Putting(p) /\ op'[p].phase \in {"store", "done"} /\ op'[p].arg = <<>>
  <2>1. PICK todo : Proceed(p, todo, <<>>)
    BY DEF EnterPut, EnterPutFront
  <2>2. Putting(p)
    BY DEF EnterPut, EnterPutFront, Holds, Putting, PutNames
  <2> QED BY <2>1, <2>2, ProceedFacts, ProceedArg DEF LoopInv
<1>3. UNCHANGED <<lpc, song, commitGen, skipFor, generation, cursor>>
  BY DEF QueueStep, loopVars, EnterPut, EnterPutFront
<1>4. \A w, q, k : InPlace(s, w, q, k)' => w \in {"arriving", "hand", "queue", "loop", "call", "row"}
  BY DEF InPlace
<1>5. \A w, q, k : w \in {"arriving", "hand", "row", "call"} /\ InPlace(s, w, q, k)'
                     => InPlace(s, w, q, k) /\ ~(w = "call" /\ q = p)
  <2>1. ~Putting(p)'
    BY <1>2 DEF Putting
  <2>2. \A k : ~InPlace(s, "call", p, k)'
    BY <1>2 DEF InPlace
  <2> QED BY <1>2, <2>1, <2>2, QueuePlaces
<1>6. \A q, k : InPlace(s, "loop", q, k)' => InPlace(s, "loop", q, k)
  BY <1>3 DEF InPlace, LoopHas, Starting
<1>7. lpc = "commit" /\ commitGen = generation => 1 <= lo
  <2>1. lpc = "commit" /\ commitGen = generation => cursor > 0
    BY ClaimInDeque DEF LoopHoldsClaim
  <2> QED BY <1>1, <2>1, Numbers DEF LoopInv
<1>8. ASSUME NEW q, NEW k, InPlace(s, "queue", q, k)'
      PROVE  /\ q = Loop /\ k \in Nat
             /\ \/ k <= lo /\ InPlace(s, "queue", Loop, k)
                \/ InPlace(s, "call", p, k - lo)
                \/ k - m > lo /\ InPlace(s, "queue", Loop, k - m)
  <2>1. q = Loop /\ k \in DOMAIN items' /\ items'[k].song = s /\ ~(k = 1 /\ Marked)
    BY <1>3, <1>8 DEF InPlace, Marked
  <2>2. k \in Nat
    BY <1>1, <2>1
  <2>3. CASE k \in DOMAIN items /\ k <= lo /\ items'[k] = items[k]
    BY <2>1, <2>2, <2>3 DEF InPlace
  <2>4. CASE k - lo \in DOMAIN op[p].arg /\ items'[k] = op[p].arg[k - lo]
    BY <1>2, <2>1, <2>2, <2>4 DEF InPlace
  <2>5. CASE k - m \in DOMAIN items /\ k - m > lo /\ items'[k] = items[k - m]
    BY <1>7, <2>1, <2>2, <2>5 DEF InPlace, Marked
  <2> QED BY <1>1, <2>1, <2>3, <2>4, <2>5
<1>9. SUFFICES ASSUME NEW w, NEW v, NEW q, NEW r, NEW j, NEW k,
                      InPlace(s, w, q, j)', InPlace(s, v, r, k)'
               PROVE  w = v /\ q = r /\ j = k
  BY DEF One
<1>10. \/ w \in {"arriving", "hand", "call", "row", "loop"} /\ InPlace(s, w, q, j)
            /\ ~(w = "call" /\ q = p)
       \/ /\ w = "queue" /\ q = Loop /\ j \in Nat
          /\ \/ j <= lo /\ InPlace(s, "queue", Loop, j)
             \/ InPlace(s, "call", p, j - lo)
             \/ j - m > lo /\ InPlace(s, "queue", Loop, j - m)
  BY <1>4, <1>5, <1>6, <1>8, <1>9
<1>11. \/ v \in {"arriving", "hand", "call", "row", "loop"} /\ InPlace(s, v, r, k)
            /\ ~(v = "call" /\ r = p)
       \/ /\ v = "queue" /\ r = Loop /\ k \in Nat
          /\ \/ k <= lo /\ InPlace(s, "queue", Loop, k)
             \/ InPlace(s, "call", p, k - lo)
             \/ k - m > lo /\ InPlace(s, "queue", Loop, k - m)
  BY <1>4, <1>5, <1>6, <1>8, <1>9
<1>12. CASE w = "queue" /\ v = "queue"
  <2>1. j \in Nat /\ k \in Nat /\ q = Loop /\ r = Loop
    BY <1>10, <1>11, <1>12
  <2>2. CASE InPlace(s, "call", p, j - lo)
    <3>1. InPlace(s, "call", p, k - lo)
      BY <1>11, <1>12, <2>2 DEF One
    <3>2. j - lo = k - lo
      BY <2>2, <3>1 DEF One
    <3> QED BY <1>12, <2>1, <3>2
  <2>3. CASE ~InPlace(s, "call", p, j - lo)
    <3>1. ~InPlace(s, "call", p, k - lo)
      BY <1>10, <1>12, <2>3 DEF One
    <3>2. CASE InPlace(s, "queue", Loop, j) /\ j <= lo
      <4>1. CASE InPlace(s, "queue", Loop, k)
        BY <1>12, <2>1, <3>2, <4>1 DEF One
      <4>2. CASE InPlace(s, "queue", Loop, k - m) /\ k - m > lo
        <5>1. j = k - m
          BY <3>2, <4>2 DEF One
        <5> QED BY <2>1, <3>2, <4>2, <5>1
      <4> QED BY <1>11, <1>12, <3>1, <4>1, <4>2
    <3>3. CASE InPlace(s, "queue", Loop, j - m) /\ j - m > lo
      <4>1. CASE InPlace(s, "queue", Loop, k) /\ k <= lo
        <5>1. k = j - m
          BY <3>3, <4>1 DEF One
        <5> QED BY <2>1, <3>3, <4>1, <5>1
      <4>2. CASE InPlace(s, "queue", Loop, k - m)
        <5>1. k - m = j - m
          BY <3>3, <4>2 DEF One
        <5> QED BY <1>12, <2>1, <5>1
      <4> QED BY <1>11, <1>12, <3>1, <4>1, <4>2
    <3> QED BY <1>10, <1>12, <2>3, <3>2, <3>3
  <2> QED BY <2>2, <2>3
<1>13. CASE ~(w = "queue" /\ v = "queue")
  BY <1>10, <1>11, <1>13 DEF One
<1> QED BY <1>12, <1>13

\* A shuffle or a remove leaves each play in the deque or moves it into its result.
LEMMA PartKeepsOne ==
    ASSUME LoopInv, NEW s \in Songs, One(s), NEW p \in Procs, QueueStep(p),
           EnterShuffle(p) \/ EnterRemove(p)
    PROVE  One(s)'
<1>1. PICK g, h :
             /\ \A k \in DOMAIN items' : /\ g[k] \in DOMAIN items /\ items'[k] = items[g[k]]
                                         /\ cursor > 0 /\ g[k] = 1 => k = 1
             /\ \A j, k \in DOMAIN items' : g[j] = g[k] => j = k
             /\ \A k \in DOMAIN op'[p].arg : /\ h[k] \in DOMAIN items /\ op'[p].arg[k] = items[h[k]]
                                             /\ cursor > 0 => h[k] # 1
             /\ \A j, k \in DOMAIN op'[p].arg : h[j] = h[k] => j = k
             /\ \A j \in DOMAIN items', k \in DOMAIN op'[p].arg : g[j] # h[k]
  BY PartMoves DEF LoopInv
<1>2. Same(p) /\ ~Putting(p)'
  <2>1. PICK todo, result : Proceed(p, todo, result)
    BY DEF EnterShuffle, EnterRemove
  <2> QED BY <2>1, ProceedFacts DEF LoopInv, Putting
<1>3. UNCHANGED <<lpc, song, commitGen, skipFor, generation>>
  BY DEF QueueStep, loopVars, EnterShuffle, EnterRemove
<1>4. \A w, q, k : InPlace(s, w, q, k)' => w \in {"arriving", "hand", "queue", "loop", "call", "row"}
  BY DEF InPlace
<1>5. \A w, q, k : w \in {"arriving", "hand", "row", "loop"} /\ InPlace(s, w, q, k)'
                     => InPlace(s, w, q, k)
  <2>1. \A q, k : InPlace(s, "loop", q, k)' => InPlace(s, "loop", q, k)
    BY <1>3 DEF InPlace, LoopHas, Starting
  <2> QED BY <1>2, <2>1, QueuePlaces
<1>6. \A q, k : q # p /\ InPlace(s, "call", q, k)' => InPlace(s, "call", q, k)
  BY <1>2, QueuePlaces
<1>7. Marked => cursor > 0
  BY ClaimInDeque DEF LoopHoldsClaim, Marked
<1>8. \A q, k : InPlace(s, "queue", q, k)' => q = Loop /\ k \in DOMAIN items'
        /\ InPlace(s, "queue", Loop, g[k])
  <2>1. SUFFICES ASSUME NEW q, NEW k, InPlace(s, "queue", q, k)'
                 PROVE  q = Loop /\ k \in DOMAIN items' /\ InPlace(s, "queue", Loop, g[k])
    OBVIOUS
  <2>2. q = Loop /\ k \in DOMAIN items' /\ items'[k].song = s /\ ~(k = 1 /\ Marked)
    BY <1>3, <2>1 DEF InPlace, Marked
  <2> QED BY <1>1, <1>7, <2>2 DEF InPlace
<1>9. \A k : InPlace(s, "call", p, k)' => k \in DOMAIN op'[p].arg /\ InPlace(s, "queue", Loop, h[k])
  <2>1. SUFFICES ASSUME NEW k, InPlace(s, "call", p, k)'
                 PROVE  k \in DOMAIN op'[p].arg /\ InPlace(s, "queue", Loop, h[k])
    OBVIOUS
  <2>2. k \in DOMAIN op'[p].arg /\ op'[p].arg[k].song = s
    BY <2>1 DEF InPlace
  <2> QED BY <1>1, <1>7, <2>2 DEF InPlace
<1>10. SUFFICES ASSUME NEW w, NEW v, NEW q, NEW r, NEW j, NEW k,
                      InPlace(s, w, q, j)', InPlace(s, v, r, k)'
               PROVE  w = v /\ q = r /\ j = k
  BY DEF One
<1>11. \/ w \in {"arriving", "hand", "row", "loop"} /\ InPlace(s, w, q, j)
       \/ w = "call" /\ q # p /\ InPlace(s, w, q, j)
       \/ w = "queue" /\ q = Loop /\ j \in DOMAIN items' /\ InPlace(s, "queue", Loop, g[j])
       \/ w = "call" /\ q = p /\ j \in DOMAIN op'[p].arg /\ InPlace(s, "queue", Loop, h[j])
  BY <1>4, <1>5, <1>6, <1>8, <1>9, <1>10
<1>12. \/ v \in {"arriving", "hand", "row", "loop"} /\ InPlace(s, v, r, k)
       \/ v = "call" /\ r # p /\ InPlace(s, v, r, k)
       \/ v = "queue" /\ r = Loop /\ k \in DOMAIN items' /\ InPlace(s, "queue", Loop, g[k])
       \/ v = "call" /\ r = p /\ k \in DOMAIN op'[p].arg /\ InPlace(s, "queue", Loop, h[k])
  BY <1>4, <1>5, <1>6, <1>8, <1>9, <1>10
<1> QED BY <1>1, <1>11, <1>12 DEF One

\* The song the loop has claimed is the head's, heard or not.
LEMMA ClaimedHead ==
    ASSUME LoopInv, HeadOK, stranded = 0, lpc \in {"resolve", "commit"}, commitGen = generation
    PROVE  /\ cursor > 0 /\ 1 \in DOMAIN items /\ items[1] \in Item
           /\ items[1].song = song.song /\ items[1].played = song.played
<1>1. cursor > 0
  BY ClaimInDeque DEF LoopHoldsClaim
<1>2. HeadIs(song) /\ items[1] \in Item
  BY <1>1, SettledHead DEF HeadOK, LoopInv
<1>3. 1 \in DOMAIN items
  BY <1>1, DequeFacts, LenProperties DEF LoopInv
<1>4. Resolved(items[1]).song = items[1].song /\ Resolved(items[1]).played = items[1].played
  BY <1>2 DEF Resolved, Item
<1> QED BY <1>1, <1>2, <1>3, <1>4 DEF HeadIs

\* What a clear takes off the queue and was heard goes into its result; the song the loop
\* has claimed and nobody heard yet stays with the loop.
LEMMA ClearKeepsOne ==
    ASSUME LoopInv, HeadOK, stranded = 0, NEW s \in Songs, One(s), NEW p \in Procs, QueueStep(p),
           EnterClear(p)
    PROVE  One(s)'
<1>1. Same(p) /\ ~Putting(p)' /\ op'[p].arg = items
  <2>1. PICK todo : Proceed(p, todo, items)
    BY DEF EnterClear
  <2>2. op[p].name = "clear"
    BY DEF EnterClear, Holds
  <2> QED BY <2>1, <2>2, ProceedFacts, ProceedArg DEF LoopInv, Putting, PutNames
<1>2. UNCHANGED <<lpc, song, commitGen, skipFor>> /\ generation' = generation + 1 /\ items' = <<>>
  BY DEF QueueStep, loopVars, EnterClear
<1>3. \A w, q, k : InPlace(s, w, q, k)' => w \in {"arriving", "hand", "queue", "loop", "call", "row"}
  BY DEF InPlace
<1>4. \A w, q, k : w \in {"arriving", "hand", "row"} /\ InPlace(s, w, q, k)' => InPlace(s, w, q, k)
  BY <1>1, QueuePlaces
<1>5. \A q, k : q # p /\ InPlace(s, "call", q, k)' => InPlace(s, "call", q, k)
  BY <1>1, QueuePlaces
<1>6. \A q, k : ~InPlace(s, "queue", q, k)'
  BY <1>2 DEF InPlace
<1>7. \A k : InPlace(s, "call", p, k)' => InPlace(s, "queue", Loop, k) /\ items[k].played
  <2>1. SUFFICES ASSUME NEW k, InPlace(s, "call", p, k)'
                 PROVE  InPlace(s, "queue", Loop, k) /\ items[k].played
    OBVIOUS
  <2>2. k \in DOMAIN items /\ items[k].song = s /\ items[k].played
    BY <1>1, <2>1 DEF InPlace
  <2>3. ~(k = 1 /\ Marked)
    BY <2>2, ClaimedHead DEF Marked
  <2> QED BY <2>2, <2>3 DEF InPlace
<1>8. \A q, k : InPlace(s, "loop", q, k)' =>
         /\ q = Loop /\ k = 1
         /\ InPlace(s, "loop", Loop, 1)
              \/ (InPlace(s, "queue", Loop, 1) /\ ~items[1].played)
  <2>1. SUFFICES ASSUME NEW q, NEW k, InPlace(s, "loop", q, k)'
                 PROVE  /\ q = Loop /\ k = 1
                        /\ InPlace(s, "loop", Loop, 1)
                             \/ (InPlace(s, "queue", Loop, 1) /\ ~items[1].played)
    OBVIOUS
  <2>2. q = Loop /\ k = 1 /\ LoopHas(s)'
    BY <2>1 DEF InPlace
  <2>3. song # NoItem /\ song.song = s
    BY <1>2, <2>2 DEF LoopHas
  <2>4. CASE Starting /\ skipFor # song
    BY <2>2, <2>3, <2>4 DEF InPlace, LoopHas
  <2>5. CASE \/ lpc = "commit" /\ ~song.played /\ skipFor # song
             \/ lpc = "resolve" /\ ~song.played
    <3>1. CASE commitGen # generation
      BY <2>2, <2>3, <2>5, <3>1 DEF InPlace, LoopHas
    <3>2. CASE commitGen = generation
      <4>1. 1 \in DOMAIN items /\ items[1].song = s /\ ~items[1].played
        BY <2>3, <2>5, <3>2, ClaimedHead
      <4> QED BY <2>2, <2>5, <4>1 DEF InPlace, Marked
    <3> QED BY <3>1, <3>2
  <2> QED BY <1>2, <2>2, <2>4, <2>5 DEF LoopHas, Starting
<1>9. SUFFICES ASSUME NEW w, NEW v, NEW q, NEW r, NEW j, NEW k,
                      InPlace(s, w, q, j)', InPlace(s, v, r, k)'
               PROVE  w = v /\ q = r /\ j = k
  BY DEF One
<1>10. \/ w \in {"arriving", "hand", "row"} /\ InPlace(s, w, q, j)
       \/ w = "call" /\ q # p /\ InPlace(s, w, q, j)
       \/ w = "call" /\ q = p /\ InPlace(s, "queue", Loop, j) /\ items[j].played
       \/ w = "loop" /\ q = Loop /\ j = 1 /\ InPlace(s, "loop", Loop, 1)
       \/ w = "loop" /\ q = Loop /\ j = 1 /\ InPlace(s, "queue", Loop, 1) /\ ~items[1].played
  BY <1>3, <1>4, <1>5, <1>6, <1>7, <1>8, <1>9
<1>11. \/ v \in {"arriving", "hand", "row"} /\ InPlace(s, v, r, k)
       \/ v = "call" /\ r # p /\ InPlace(s, v, r, k)
       \/ v = "call" /\ r = p /\ InPlace(s, "queue", Loop, k) /\ items[k].played
       \/ v = "loop" /\ r = Loop /\ k = 1 /\ InPlace(s, "loop", Loop, 1)
       \/ v = "loop" /\ r = Loop /\ k = 1 /\ InPlace(s, "queue", Loop, 1) /\ ~items[1].played
  BY <1>3, <1>4, <1>5, <1>6, <1>7, <1>8, <1>9
<1> QED BY <1>10, <1>11 DEF One

\* What settling the head leaves of the deque.
LEMMA TailMoves ==
    ASSUME QueueInv, cursor > 0, items' = Tail(items)
    PROVE  /\ 1 \in DOMAIN items
           /\ \A k \in DOMAIN items' : k \in Nat /\ k >= 1 /\ k + 1 \in DOMAIN items
                /\ items'[k] = items[k + 1]
<1>1. items \in Seq(Item) /\ items # <<>> /\ 1 \in DOMAIN items
  BY DequeFacts, EmptySeq, LenProperties
<1>2. Len(items') = Len(items) - 1 /\ \A k \in 1 .. Len(items') : items'[k] = items[k + 1]
  BY <1>1, HeadTailProperties
<1>3. items' \in Seq(Item)
  BY <1>1, HeadTailProperties
<1> QED BY <1>1, <1>2, <1>3, LenProperties

\* A failed song moves from the head of the queue into the call's result, or was taken off
\* it before: then what was heard of it has two writers.
LEMMA FinishFailedKeepsOne ==
    ASSUME LoopInv, TypeInv, HeadOK, OwedOK, stranded = 0, NEW p \in Procs, QueueStep(p),
           EnterFinishFailed(p), NEW s \in Songs \ doubled', One(s),
           doubled' = IF cursor = 0 /\ Head(op[p].arg).played
                      THEN doubled \cup {Head(op[p].arg).song} ELSE doubled
    PROVE  One(s)'
<1> USE Callers
<1>1. Same(p) /\ ~Putting(p)' /\ op'[p].arg = op[p].arg
  <2>1. PICK todo : Proceed(p, todo, op[p].arg)
    BY DEF EnterFinishFailed
  <2>2. op[p].name = "finishFailed"
    BY DEF EnterFinishFailed, Holds
  <2> QED BY <2>1, <2>2, ProceedFacts, ProceedArg DEF LoopInv, Putting, PutNames
<1>2. UNCHANGED <<lpc, song, commitGen, skipFor, generation>>
  BY DEF QueueStep, loopVars, EnterFinishFailed
<1>3. lpc # "commit" /\ \E i \in Item : op[p].arg = <<i>>
  <2>1. p = Loop \/ p = Prefetch
    BY DEF LoopInv, ClientInv, CallsOK, UserCallsOK, EnterFinishFailed, Holds
  <2>2. CASE p = Loop
    <3>1. lpc = "retire"
      BY <2>2 DEF EnterFinishFailed, Holds, LoopInv, ClientInv, CallsOK, LoopCallOK, Idle
    <3> QED BY <2>2, <3>1 DEF TypeInv, ArgsOK, LoopInv, ClientInv, InHandOK
  <2>3. CASE p = Prefetch
    <3>1. pf.pc = "retiring"
      BY <2>3 DEF EnterFinishFailed, Holds, LoopInv, ClientInv, CallsOK, TaskCallOK, Idle
    <3>2. lpc # "commit"
      BY <3>1 DEF LoopInv, ClientInv, TurnsOK, NoTask
    <3> QED BY <2>3, <3>1, <3>2 DEF TypeInv, ArgsOK, LoopInv, ClientInv, InHandOK
  <2> QED BY <2>1, <2>2, <2>3
<1>4. ~Marked
  BY <1>3 DEF Marked
<1>5. \A w, q, k : InPlace(s, w, q, k)' => w \in {"arriving", "hand", "queue", "loop", "call", "row"}
  BY DEF InPlace
<1>6. \A w, q, k : w \in {"arriving", "hand", "row", "loop"} /\ InPlace(s, w, q, k)'
        => InPlace(s, w, q, k)
  <2>1. \A q, k : InPlace(s, "loop", q, k)' => InPlace(s, "loop", q, k)
    BY <1>2 DEF InPlace, LoopHas, Starting
  <2> QED BY <1>1, <2>1, QueuePlaces
<1>7. \A q, k : q # p /\ InPlace(s, "call", q, k)' => InPlace(s, "call", q, k)
  BY <1>1, QueuePlaces
<1>8. PICK i \in Item : op[p].arg = <<i>>
  BY <1>3
<1>9. \A k : InPlace(s, "call", p, k)' => k = 1 /\ i.song = s /\ i.played
  <2>1. SUFFICES ASSUME NEW k, InPlace(s, "call", p, k)'
                 PROVE  k = 1 /\ i.song = s /\ i.played
    OBVIOUS
  <2>2. k \in DOMAIN <<i>> /\ <<i>>[k].song = s /\ <<i>>[k].played
    BY <1>1, <1>8, <2>1 DEF InPlace
  <2>3. DOMAIN <<i>> = {1} /\ <<i>>[1] = i
    OBVIOUS
  <2> QED BY <2>2, <2>3
<1>10. CASE cursor = 0
  <2>1. UNCHANGED items
    BY <1>10 DEF EnterFinishFailed
  <2>2. \A q, k : InPlace(s, "queue", q, k)' => InPlace(s, "queue", q, k)
    BY <1>2, <2>1 DEF InPlace, Marked
  <2>3. Head(<<i>>) = i
    OBVIOUS
  <2>4. i.played => s # i.song
    BY <1>8, <1>10, <2>3
  <2>5. \A w, q, k : InPlace(s, w, q, k)' => InPlace(s, w, q, k)
    BY <1>5, <1>6, <1>7, <1>9, <2>2, <2>4
  <2> QED BY <2>5, OneAside
<1>11. CASE cursor # 0
  <2>1. cursor > 0 /\ items' = Tail(items)
    BY <1>11, Numbers DEF EnterFinishFailed, Release, LoopInv
  <2>2. /\ 1 \in DOMAIN items
        /\ \A k \in DOMAIN items' : k \in Nat /\ k >= 1 /\ k + 1 \in DOMAIN items
             /\ items'[k] = items[k + 1]
    BY <2>1, TailMoves DEF LoopInv
  <2>3. items[1].song = i.song
    <3>1. PICK h : HeadIs(h) /\ op[p].arg = <<h>>
      BY <2>1, RetiresHead DEF TypeInv, EnterFinishFailed
    <3>2. h = i
      BY <1>8, <3>1
    <3>3. items[1] \in Item
      BY <2>1, <3>1, SettledHead DEF LoopInv
    <3> QED BY <3>1, <3>2, <3>3, ResolvedSong DEF HeadIs
  <2>4. \A k : InPlace(s, "call", p, k)' => k = 1 /\ InPlace(s, "queue", Loop, 1)
    BY <1>4, <1>9, <2>2, <2>3 DEF InPlace
  <2>5. \A q, k : InPlace(s, "queue", q, k)' => q = Loop /\ InPlace(s, "queue", Loop, k + 1)
          /\ k + 1 # 1 /\ k \in Nat
    BY <1>4, <2>2 DEF InPlace
  <2>6. SUFFICES ASSUME NEW w, NEW v, NEW q, NEW r, NEW j, NEW k,
                        InPlace(s, w, q, j)', InPlace(s, v, r, k)'
                 PROVE  w = v /\ q = r /\ j = k
    BY DEF One
  <2>7. \/ w \in {"arriving", "hand", "row", "loop"} /\ InPlace(s, w, q, j)
        \/ w = "call" /\ q # p /\ InPlace(s, w, q, j)
        \/ w = "call" /\ q = p /\ j = 1 /\ InPlace(s, "queue", Loop, 1)
        \/ w = "queue" /\ q = Loop /\ j \in Nat /\ j + 1 # 1 /\ InPlace(s, "queue", Loop, j + 1)
    BY <1>5, <1>6, <1>7, <2>4, <2>5, <2>6
  <2>8. \/ v \in {"arriving", "hand", "row", "loop"} /\ InPlace(s, v, r, k)
        \/ v = "call" /\ r # p /\ InPlace(s, v, r, k)
        \/ v = "call" /\ r = p /\ k = 1 /\ InPlace(s, "queue", Loop, 1)
        \/ v = "queue" /\ r = Loop /\ k \in Nat /\ k + 1 # 1 /\ InPlace(s, "queue", Loop, k + 1)
    BY <1>5, <1>6, <1>7, <2>4, <2>5, <2>6
  <2> QED BY <2>7, <2>8 DEF One
<1> QED BY <1>10, <1>11

\* A Redis command changes nothing of the queue in memory.
LEMMA WriteKeepsOne ==
    ASSUME LoopInv, NEW s \in Songs, One(s), NEW p \in Procs, QueueStep(p), Write(p) \/ WriteFails(p)
    PROVE  One(s)'
<1>1. op[p].phase = "store" /\ \E todo : Issued(p, todo)
  BY DEF Write, WriteFails
<1>2. /\ Same(p) /\ op'[p].arg = op[p].arg /\ op'[p].phase \in {"store", "done"}
  BY <1>1, IssuedFacts, IssuedArg DEF LoopInv
<1>3. UNCHANGED <<lpc, song, commitGen, skipFor, generation, items>>
  BY DEF QueueStep, loopVars, Write, WriteFails, memory
<1>4. \A w, q, k : InPlace(s, w, q, k)' => w \in {"arriving", "hand", "queue", "loop", "call", "row"}
  BY DEF InPlace
<1>5. ~Putting(p)'
  BY <1>2 DEF Putting
<1>6. \A w, q, k : \/ w \in {"arriving", "hand", "row"}
                   \/ w = "call" /\ q # p
                   => (InPlace(s, w, q, k)' => InPlace(s, w, q, k))
  BY <1>2, <1>5, QueuePlaces
<1>7. \A k : InPlace(s, "call", p, k)' => InPlace(s, "call", p, k)
  BY <1>1, <1>2, <1>5 DEF InPlace, Leaves
<1>8. \A w, q, k : w \in {"queue", "loop"} /\ InPlace(s, w, q, k)' => InPlace(s, w, q, k)
  BY <1>3 DEF InPlace, LoopHas, Starting, Marked
<1>9. \A w, q, k : InPlace(s, w, q, k)' => InPlace(s, w, q, k)
  BY <1>4, <1>6, <1>7, <1>8
<1> QED BY <1>9, OneAside

\* Every step of a call, whoever made it.
LEMMA QueueKeepsOne ==
    ASSUME LoopInv, TypeInv, HeadOK, OwedOK, LeakOK, OneHolder, NEW p \in Procs, QueueStep(p)
    PROVE  OneHolder'
<1>1. UNCHANGED leaked /\ doubled \subseteq doubled'
  BY DEF QueueStep
<1>2. SUFFICES ASSUME ~leaked, NEW s \in Songs \ doubled' PROVE One(s)'
  BY <1>1 DEF OneHolder
<1>3. One(s) /\ s \in Songs /\ stranded = 0
  BY <1>1, <1>2 DEF OneHolder, LeakOK, LoopInv, ClientInv, ClientOK
<1>4. CASE EnterMutation(p)
  BY <1>3, <1>4, PutKeepsOne, PartKeepsOne DEF EnterMutation
<1>5. CASE Write(p) \/ WriteFails(p)
  BY <1>3, <1>5, WriteKeepsOne
<1>6. CASE EnterClear(p)
  BY <1>3, <1>6, ClearKeepsOne
<1>7. CASE EnterFinishFailed(p)
  <2>1. doubled' = IF cursor = 0 /\ Head(op[p].arg).played
                   THEN doubled \cup {Head(op[p].arg).song} ELSE doubled
    BY <1>7 DEF QueueStep, EnterFinishFailed, EnterMutation, EnterPut, EnterPutFront, EnterShuffle,
                EnterRemove, EnterClear, Holds, Write, WriteFails
  <2> QED BY <1>2, <1>3, <1>7, <2>1, FinishFailedKeepsOne
<1> QED BY <1>4, <1>5, <1>6, <1>7 DEF QueueStep

\* A command marks no song but the one the loop has in hand.
LEMMA UserMarks ==
    ASSUME LoopInv, CurrentOK, NEW u \in Users, UserStep(u) \/ Finish(u) \/ Inserted(u)
    PROVE  skipFor' = skipFor \/ (current # NoItem /\ skipFor' = song)
<1> USE Callers DEF LoopInv, ClientInv
<1>1. ASSUME NEW q, Insert(u, q, current), current # NoItem
      PROVE  skipFor' = skipFor \/ (current # NoItem /\ skipFor' = song)
  BY <1>1 DEF Insert, CurrentOK
<1>2. CASE Interject(u)
  BY <1>1, <1>2 DEF Interject, FallBack
<1>3. CASE InterjectCancelled(u)
  <2>1. user[u].target \in Item
    BY <1>3 DEF InterjectCancelled, InHandOK
  <2> QED BY <1>1, <1>3, <2>1 DEF InterjectCancelled, FallBack
<1> QED BY <1>2, <1>3 DEF UserStep, Play, Playlist, PlayFront, PlayNow, CutIn, Enqueue, ResolveFirst,
         Bulk, BulkCancelled, Skip, CutInTooLate, Finish, Inserted, loopVars

\* What a command leaves where it is: what the loop has, what is queued, and what other
\* commands are about to queue.
LEMMA UserPlaces ==
    ASSUME LoopInv, HeadOK, CurrentOK, stranded = 0, NEW u \in Users,
           UserStep(u) \/ Finish(u) \/ Inserted(u), NEW s
    PROVE  /\ \A w, q, k : w \in {"queue", "loop"} /\ InPlace(s, w, q, k)' => InPlace(s, w, q, k)
           /\ \A w, q, k : w \in {"hand", "call"} /\ q # u /\ InPlace(s, w, q, k)'
                => InPlace(s, w, q, k)
<1> USE Callers
<1>1. Same(u) /\ UNCHANGED <<lpc, song, commitGen, current, generation>>
  BY UserAside DEF LoopInv
<1>2. \A v \in Users : v # u => user'[v] = user[v]
  BY UserItems
<1>3. /\ DOMAIN items' = DOMAIN items
      /\ \A k \in DOMAIN items : items'[k].song = items[k].song
  <2>1. CASE UNCHANGED items
    BY <2>1
  <2>2. CASE pfRef /\ pf.pc = "done" /\ pf.item \in Item /\ GiveBack(pf.item)
    <3>1. /\ DOMAIN items' = DOMAIN items
          /\ \A k \in DOMAIN items : items'[k] \in {items[k], Resolved(items[k])}
      BY <2>2, GiveBackResolves
    <3>2. \A k \in DOMAIN items : items[k] \in Item
      BY DequeFacts, ElementOfSeq, LenProperties DEF LoopInv
    <3> QED BY <3>1, <3>2, ResolvedSong
  <2> QED BY <2>1, <2>2, UserItems
<1>4. skipFor' = skipFor \/ skipFor' = song
  BY UserMarks
<1>5. \A q, k : InPlace(s, "queue", q, k)' => InPlace(s, "queue", q, k)
  BY <1>1, <1>3, <1>4 DEF InPlace, Marked
<1>6. \A q, k : InPlace(s, "loop", q, k)' => InPlace(s, "loop", q, k)
  BY <1>1, <1>4 DEF InPlace, LoopHas, Starting
<1>7. \A q, k : q # u /\ InPlace(s, "call", q, k)' => InPlace(s, "call", q, k)
  BY <1>1 DEF InPlace, Same, Putting, Leaves
<1>8. \A q, k : q # u /\ InPlace(s, "hand", q, k)' => InPlace(s, "hand", q, k)
  BY <1>2 DEF InPlace, Waits
<1> QED BY <1>5, <1>6, <1>7, <1>8

\* A command that takes the next songs has them where they were to come.
LEMMA ArriveKeepsOne ==
    ASSUME LoopInv, NEW s, One(s), NEW u \in Users, NEW n \in Nat, Arrive(n), UNCHANGED history,
           \A w, q, k : w \in {"queue", "loop"} /\ InPlace(s, w, q, k)' => InPlace(s, w, q, k),
           \A w, q, k : w \in {"hand", "call"} /\ q # u /\ InPlace(s, w, q, k)' => InPlace(s, w, q, k),
           NEW new \in {"hand", "call"},
           \A k : InPlace(s, new, u, k)' => k \in 1 .. n /\ InPlace(s, "arriving", Loop, k),
           \A w, k : w \in {"hand", "call"} \ {new} => ~InPlace(s, w, u, k)'
    PROVE  One(s)'
<1> DEFINE m == Len(arriving)
<1>1. m \in Nat /\ n <= m /\ DOMAIN arriving = 1 .. m
  BY LenProperties DEF LoopInv, ClientInv, ClientOK, Arrive
<1>2. DOMAIN arriving' = 1 .. m - n /\ \A k \in 1 .. m - n : arriving'[k] = arriving[n + k]
  <2>1. \A k \in n + 1 .. m : arriving[k] \in Songs
    BY <1>1, ElementOfSeq DEF LoopInv, ClientInv, ClientOK
  <2>2. arriving' = SubSeq(arriving, n + 1, m)
    BY DEF Arrive
  <2>3. /\ Len(SubSeq(arriving, n + 1, m)) = m - n
        /\ SubSeq(arriving, n + 1, m) \in Seq(Songs)
        /\ \A k \in 1 .. m - n : SubSeq(arriving, n + 1, m)[k] = arriving[n + k]
    <3> HIDE DEF m
    <3> QED BY <1>1, <2>1, SubSeqProperties DEF LoopInv, ClientInv, ClientOK
  <2> HIDE DEF m
  <2> QED BY <2>2, <2>3, LenProperties
<1>3. \A q, k : InPlace(s, "arriving", q, k)' =>
         q = Loop /\ k \in Nat /\ k >= 1 /\ InPlace(s, "arriving", Loop, n + k)
  <2>1. SUFFICES ASSUME NEW q, NEW k, InPlace(s, "arriving", q, k)'
                 PROVE  q = Loop /\ k \in Nat /\ k >= 1 /\ InPlace(s, "arriving", Loop, n + k)
    OBVIOUS
  <2>2. q = Loop /\ k \in DOMAIN arriving' /\ arriving'[k] = s
    BY <2>1 DEF InPlace
  <2>3. k \in 1 .. m - n /\ n + k \in DOMAIN arriving /\ arriving[n + k] = s
    BY <1>1, <1>2, <2>2
  <2> QED BY <2>2, <2>3 DEF InPlace
<1>4. \A w, q, k : InPlace(s, w, q, k)' => w \in {"arriving", "hand", "queue", "loop", "call", "row"}
  BY DEF InPlace
<1>5. \A q, k : InPlace(s, "row", q, k)' => InPlace(s, "row", q, k)
  BY DEF InPlace
<1>6. SUFFICES ASSUME NEW w, NEW v, NEW q, NEW r, NEW j, NEW k,
                      InPlace(s, w, q, j)', InPlace(s, v, r, k)'
               PROVE  w = v /\ q = r /\ j = k
  BY DEF One
<1> HIDE DEF m
<1>7. \/ w \in {"queue", "loop", "row"} /\ InPlace(s, w, q, j)
      \/ w \in {"hand", "call"} /\ q # u /\ InPlace(s, w, q, j)
      \/ w = new /\ q = u /\ j \in 1 .. n /\ InPlace(s, "arriving", Loop, j)
      \/ w = "arriving" /\ q = Loop /\ j \in Nat /\ j >= 1 /\ InPlace(s, "arriving", Loop, n + j)
  BY <1>3, <1>4, <1>5, <1>6
<1>8. \/ v \in {"queue", "loop", "row"} /\ InPlace(s, v, r, k)
      \/ v \in {"hand", "call"} /\ r # u /\ InPlace(s, v, r, k)
      \/ v = new /\ r = u /\ k \in 1 .. n /\ InPlace(s, "arriving", Loop, k)
      \/ v = "arriving" /\ r = Loop /\ k \in Nat /\ k >= 1 /\ InPlace(s, "arriving", Loop, n + k)
  BY <1>3, <1>4, <1>5, <1>6
<1> QED BY <1>7, <1>8 DEF One

\* The song in hand goes into the call; so does the tail of the one it interrupts, which
\* the loop gives up for it, or the entry its claim is for.
LEMMA InHandKeepsOne ==
    ASSUME LoopInv, HeadOK, CurrentOK, stranded = 0, NEW s, One(s), NEW u \in Users,
           Waits(u), ~Waits(u)', UNCHANGED <<lpc, song, commitGen, generation, arriving, history>>,
           \A w, q, k : w \in {"queue", "loop"} /\ InPlace(s, w, q, k)' => InPlace(s, w, q, k),
           \A w, q, k : w \in {"hand", "call"} /\ q # u /\ InPlace(s, w, q, k)' => InPlace(s, w, q, k),
           \/ op'[u].arg = <<user[u].item>>
           \/ /\ op'[u].arg = <<user[u].item, Parked(song)>>
              /\ current # NoItem /\ skipFor' = song
              /\ song.song = s => skipFor # song /\ ~(NotStarted /\ song.played)
    PROVE  One(s)'
<1> USE Callers
<1>1. \A k : ~InPlace(s, "hand", u, k)'
  BY DEF InPlace
<1>2. \A k : InPlace(s, "call", u, k)' /\ k = 1 => InPlace(s, "hand", u, 1)
  <2>1. SUFFICES ASSUME InPlace(s, "call", u, 1)' PROVE InPlace(s, "hand", u, 1)
    OBVIOUS
  <2>2. op'[u].arg[1] = user[u].item
    OBVIOUS
  <2> QED BY <2>1, <2>2 DEF InPlace
<1>3. \A k : InPlace(s, "call", u, k)' /\ k # 1 =>
         /\ k = 2
         /\ \/ InPlace(s, "loop", Loop, 1) /\ \A q, j : ~InPlace(s, "loop", q, j)'
            \/ InPlace(s, "queue", Loop, 1) /\ ~InPlace(s, "queue", Loop, 1)'
  <2>1. SUFFICES ASSUME NEW k, InPlace(s, "call", u, k)', k # 1
                 PROVE  /\ k = 2
                        /\ \/ InPlace(s, "loop", Loop, 1) /\ \A q, j : ~InPlace(s, "loop", q, j)'
                           \/ InPlace(s, "queue", Loop, 1) /\ ~InPlace(s, "queue", Loop, 1)'
    OBVIOUS
  <2>2. k \in DOMAIN op'[u].arg /\ op'[u].arg[k].song = s
    BY <2>1 DEF InPlace
  <2>3. op'[u].arg # <<user[u].item>>
    <3>1. DOMAIN <<user[u].item>> = {1}
      OBVIOUS
    <3> QED BY <2>1, <2>2, <3>1
  <2>4. k = 2 /\ s = Parked(song).song /\ current # NoItem /\ skipFor' = song
        /\ (song.song = s => skipFor # song /\ ~(NotStarted /\ song.played))
    <3>1. DOMAIN <<user[u].item, Parked(song)>> = {1, 2}
            /\ <<user[u].item, Parked(song)>>[2] = Parked(song)
      OBVIOUS
    <3> QED BY <2>1, <2>2, <2>3, <3>1
  <2>5. song \in Item /\ song # NoItem /\ lpc \in {"commit", "start", "announce", "playing", "raise"}
    BY <2>4 DEF CurrentOK, LoopInv, ClientInv, ClientOK, MaybeItem
  <2>6. song.song = s
    BY <2>4, <2>5, ParkedTail
  <2>7. skipFor # song /\ ~(NotStarted /\ song.played)
    BY <2>4, <2>6
  <2>8. CASE lpc # "commit" \/ commitGen # generation
    <3>1. InPlace(s, "loop", Loop, 1)
      BY <2>5, <2>6, <2>7, <2>8 DEF InPlace, LoopHas, Starting, NotStarted
    <3>2. \A q, j : ~InPlace(s, "loop", q, j)'
      BY <2>4, <2>5 DEF InPlace, LoopHas
    <3> QED BY <2>4, <3>1, <3>2
  <2>9. CASE lpc = "commit" /\ commitGen = generation
    <3>1. 1 \in DOMAIN items /\ items[1].song = s
      BY <2>6, <2>9, ClaimedHead
    <3>2. InPlace(s, "queue", Loop, 1)
      BY <2>7, <3>1 DEF InPlace, Marked
    <3>3. ~InPlace(s, "queue", Loop, 1)'
      BY <2>4, <2>7, <2>9 DEF InPlace, Marked, NotStarted
    <3> QED BY <2>4, <3>2, <3>3
  <2> QED BY <2>8, <2>9
<1>4. \A w, q, k : InPlace(s, w, q, k)' => w \in {"arriving", "hand", "queue", "loop", "call", "row"}
  BY DEF InPlace
<1>5. \A w, q, k : w \in {"arriving", "row"} /\ InPlace(s, w, q, k)' => InPlace(s, w, q, k)
  BY DEF InPlace
<1>6. SUFFICES ASSUME NEW w, NEW v, NEW q, NEW r, NEW j, NEW k,
                      InPlace(s, w, q, j)', InPlace(s, v, r, k)'
               PROVE  w = v /\ q = r /\ j = k
  BY DEF One
<1>7. \/ w \in {"arriving", "queue", "loop", "row"} /\ InPlace(s, w, q, j)
      \/ w \in {"hand", "call"} /\ q # u /\ InPlace(s, w, q, j)
      \/ w = "call" /\ q = u /\ j = 1 /\ InPlace(s, "hand", u, 1)
      \/ w = "call" /\ q = u /\ j = 2 /\ InPlace(s, "loop", Loop, 1) /\ ~InPlace(s, "loop", r, k)'
      \/ w = "call" /\ q = u /\ j = 2 /\ InPlace(s, "queue", Loop, 1) /\ ~InPlace(s, "queue", Loop, 1)'
  BY <1>1, <1>2, <1>3, <1>4, <1>5, <1>6
<1>8. \/ v \in {"arriving", "queue", "loop", "row"} /\ InPlace(s, v, r, k)
      \/ v \in {"hand", "call"} /\ r # u /\ InPlace(s, v, r, k)
      \/ v = "call" /\ r = u /\ k = 1 /\ InPlace(s, "hand", u, 1)
      \/ v = "call" /\ r = u /\ k = 2 /\ InPlace(s, "loop", Loop, 1) /\ ~InPlace(s, "loop", q, j)'
      \/ v = "call" /\ r = u /\ k = 2 /\ InPlace(s, "queue", Loop, 1) /\ ~InPlace(s, "queue", Loop, 1)'
  BY <1>1, <1>2, <1>3, <1>4, <1>5, <1>6
<1> QED BY <1>6, <1>7, <1>8 DEF One

\* A command that queues nothing.
LEMMA OtherKeepsOne ==
    ASSUME LoopInv, NEW s, One(s), NEW u \in Users, UNCHANGED <<arriving, history>>,
           \A w, q, k : w \in {"queue", "loop"} /\ InPlace(s, w, q, k)' => InPlace(s, w, q, k),
           \A w, q, k : w \in {"hand", "call"} /\ q # u /\ InPlace(s, w, q, k)' => InPlace(s, w, q, k),
           Waits(u)' => Waits(u) /\ user'[u].item = user[u].item,
           UNCHANGED op \/ (~Putting(u)' /\ op'[u].arg = <<>>)
    PROVE  One(s)'
<1>1. \A k : InPlace(s, "hand", u, k)' => InPlace(s, "hand", u, k)
  BY DEF InPlace
<1>2. \A k : InPlace(s, "call", u, k)' => InPlace(s, "call", u, k)
  <2>1. CASE UNCHANGED op
    BY <2>1 DEF InPlace, Putting, Leaves
  <2>2. CASE op'[u].arg = <<>>
    BY <2>2 DEF InPlace
  <2> QED BY <2>1, <2>2
<1>3. \A w, q, k : InPlace(s, w, q, k)' => w \in {"arriving", "hand", "queue", "loop", "call", "row"}
  BY DEF InPlace
<1>4. \A w, q, k : w \in {"arriving", "row"} /\ InPlace(s, w, q, k)' => InPlace(s, w, q, k)
  BY DEF InPlace
<1>5. \A w, q, k : InPlace(s, w, q, k)' => InPlace(s, w, q, k)
  BY <1>1, <1>2, <1>3, <1>4
<1> QED BY <1>5, OneAside

\* What a call carries while it waits for the lock.
LEMMA CallPlaces ==
    ASSUME LoopInv, NEW u \in Users, NEW s, NEW k, InPlace(s, "call", u, k)'
    PROVE  k \in DOMAIN op'[u].arg /\ op'[u].arg[k].song = s
BY DEF InPlace

\* A command that queues without resolving has its songs go straight into the call.
LEMMA EnqueueKeepsOne ==
    ASSUME LoopInv, NEW s, One(s), NEW u \in Users,
           NEW c, NEW name, NEW n \in 1 .. 2, Enqueue(u, c, name, n),
           \A w, q, k : w \in {"queue", "loop"} /\ InPlace(s, w, q, k)' => InPlace(s, w, q, k),
           \A w, q, k : w \in {"hand", "call"} /\ q # u /\ InPlace(s, w, q, k)' => InPlace(s, w, q, k)
    PROVE  One(s)'
<1> USE Callers
<1> DEFINE arg == [k \in 1 .. n |-> Fresh(arriving[k])]
<1>1. Call(u, name, arg, 0) /\ Arrive(n) /\ UNCHANGED history
  BY DEF Enqueue
<1>2. \A k \in 1 .. n : arg[k].song = arriving[k] /\ k \in DOMAIN arriving
  <2>1. Len(arriving) >= n /\ DOMAIN arriving = 1 .. Len(arriving) /\ Len(arriving) \in Nat
    BY <1>1, LenProperties DEF Arrive, LoopInv, ClientInv, ClientOK
  <2> QED BY <2>1 DEF Fresh
<1>3. DOMAIN arg = 1 .. n
  OBVIOUS
<1> HIDE DEF arg
<1>4. op'[u].arg = arg
  BY <1>1, CallArg DEF LoopInv
<1>5. \A k : InPlace(s, "call", u, k)' => k \in 1 .. n /\ InPlace(s, "arriving", Loop, k)
  <2>1. SUFFICES ASSUME NEW k, InPlace(s, "call", u, k)'
                 PROVE  k \in 1 .. n /\ InPlace(s, "arriving", Loop, k)
    OBVIOUS
  <2>2. k \in 1 .. n /\ arriving[k] = s /\ k \in DOMAIN arriving
    BY <1>2, <1>3, <1>4, <2>1, CallPlaces
  <2> QED BY <2>2 DEF InPlace
<1>6. user'[u].pc = "queueing"
  BY DEF Enqueue, Busy, NoCommand, LoopInv, ClientInv, ClientOK
<1>7. \A k : ~InPlace(s, "hand", u, k)'
  BY <1>6 DEF InPlace, Waits
<1>8. n \in Nat
  OBVIOUS
<1> QED BY <1>1, <1>5, <1>7, <1>8, ArriveKeepsOne

\* The commands: an interjection takes the play from the loop as it queues the tail.
LEMMA UserKeepsOne ==
    ASSUME LoopInv, TypeInv, HeadOK, LeakOK, CurrentOK, WaitsOK, OneHolder, NEW u \in Users,
           UserStep(u) \/ Finish(u) \/ Inserted(u)
    PROVE  OneHolder'
<1> USE Callers DEF LoopInv, ClientInv, ClientOK
<1>0. UNCHANGED leaked /\ doubled \subseteq doubled'
  BY DEF UserStep, Play, Playlist, PlayFront, PlayNow, CutIn, Enqueue, ResolveFirst, Bulk,
         BulkCancelled, Skip, CutInTooLate, Interject, InterjectCancelled, Finish, Inserted,
         Insert, FallBack, auxVars
<1>1. SUFFICES ASSUME ~leaked, NEW s \in Songs \ doubled' PROVE One(s)'
  BY <1>0 DEF OneHolder
<1>2. /\ One(s) /\ s \in Songs /\ stranded = 0 /\ history \in [Songs -> Nat]
      /\ user[u] \in UserCommand /\ DOMAIN user = Users
  BY <1>0, <1>1 DEF OneHolder, LeakOK, TypeInv, RecordOK
<1>3. /\ \A w, q, k : w \in {"queue", "loop"} /\ InPlace(s, w, q, k)' => InPlace(s, w, q, k)
      /\ \A w, q, k : w \in {"hand", "call"} /\ q # u /\ InPlace(s, w, q, k)' => InPlace(s, w, q, k)
  BY <1>2, UserPlaces
<1>4. UNCHANGED <<lpc, song, commitGen, current, generation>>
  BY UserAside
<1>5. ASSUME NEW c, NEW name, NEW n \in 1 .. 2, Enqueue(u, c, name, n)
      PROVE  One(s)'
  BY <1>2, <1>3, <1>5, EnqueueKeepsOne
<1>6. CASE Play(u) \/ Playlist(u) \/ PlayFront(u)
  BY <1>5, <1>6 DEF Play, Playlist, PlayFront
<1>7. ASSUME NEW c, ResolveFirst(u, c)
      PROVE  One(s)'
  <2> DEFINE it == Resolved(Fresh(Head(arriving)))
  <2>1. user[u] = NoCommand /\ Arrive(1) /\ UNCHANGED <<op, history>>
    BY <1>7 DEF ResolveFirst, Begin, queueVars
  <2>2. op[u] = Idle
    BY <2>1 DEF WaitsOK, NoCommand
  <2>3. Head(arriving) = arriving[1] /\ arriving[1] \in Songs /\ 1 \in DOMAIN arriving
    <3>1. Len(arriving) >= 1 /\ Len(arriving) \in Nat /\ arriving # <<>>
            /\ DOMAIN arriving = 1 .. Len(arriving)
      BY <2>1, LenProperties, EmptySeq DEF Arrive
    <3> QED BY <3>1, ElementOfSeq, HeadTailProperties
  <2>4. it.song = arriving[1]
    <3>1. Fresh(arriving[1]) \in Item /\ Fresh(arriving[1]).song = arriving[1]
      BY <2>3, FreshItem DEF Fresh
    <3> QED BY <2>3, <3>1, ResolvedSong
  <2>5. user' = [user EXCEPT ![u] = [NoCommand EXCEPT !.cmd = c, !.pc = "resolving", !.item = it]]
    BY <1>7 DEF ResolveFirst
  <2> HIDE DEF it
  <2>6. user'[u].item = it
    BY <1>2, <2>5 DEF NoCommand
  <2>7. \A k : InPlace(s, "hand", u, k)' => k \in 1 .. 1 /\ InPlace(s, "arriving", Loop, k)
    BY <2>3, <2>4, <2>6 DEF InPlace
  <2>8. \A k : ~InPlace(s, "call", u, k)'
    BY <2>1, <2>2 DEF InPlace, Idle
  <2>9. \A w, k : w \in {"hand", "call"} \ {"hand"} => ~InPlace(s, w, u, k)'
    BY <2>8
  <2>10. "hand" \in {"hand", "call"} /\ 1 \in Nat
    OBVIOUS
  <2> QED BY <1>2, <1>3, <2>1, <2>7, <2>9, <2>10, ArriveKeepsOne
<1>8. CASE PlayNow(u) \/ CutIn(u)
  <2>1. 1 \in 1 .. 2
    OBVIOUS
  <2> QED BY <1>5, <1>7, <1>8, <2>1 DEF PlayNow, CutIn
<1>9. ASSUME NEW c \in BulkNames, Bulk(u, c) \/ (BulkCancelled(u) /\ c = user[u].cmd)
      PROVE  One(s)'
  <2>1. UNCHANGED <<arriving, history>>
    BY <1>9 DEF Bulk, BulkCancelled
  <2>2. ~Waits(u)'
    <3>1. ASSUME NEW pc \in {"queueing", "cancelling"}, Busy(u, c, pc)
          PROVE  user'[u].cmd = c
      BY <1>2, <3>1 DEF Busy, NoCommand
    <3>2. CASE Bulk(u, c)
      <4>1. user'[u].cmd = c
        BY <3>1, <3>2 DEF Bulk
      <4>2. user'[u].pc \in {"queueing", "cancelling"}
        BY <1>2, <3>2 DEF Bulk, Busy, NoCommand
      <4> QED BY <1>9, <4>1, <4>2 DEF Waits, BulkNames
    <3>3. CASE BulkCancelled(u)
      BY <1>2, <3>3 DEF BulkCancelled, UserCommand, Waits
    <3> QED BY <1>9, <3>2, <3>3
  <2>3. UNCHANGED op \/ (~Putting(u)' /\ op'[u].arg = <<>>)
    <3>1. CASE UNCHANGED op
      BY <3>1
    <3>2. CASE Call(u, c, <<>>, 0)
      BY <3>2, CallFacts, CallArg DEF Putting, PutNames, BulkNames
    <3> QED BY <1>9, <3>1, <3>2 DEF Bulk, BulkCancelled
  <2> QED BY <1>2, <1>3, <2>1, <2>2, <2>3, OtherKeepsOne
<1>10. CASE Skip(u)
  <2>1. UNCHANGED <<user, op, arriving, history>>
    BY <1>10 DEF Skip, queueVars
  <2> QED BY <1>2, <1>3, <2>1, OtherKeepsOne DEF Waits
<1>11. ASSUME Waits(u), NEW name, Call(u, name, <<user[u].item>>, 0), UNCHANGED <<arriving, history>>,
              user'[u].pc \in {"queueing", "inserting"}
       PROVE  One(s)'
  <2>1. ~Waits(u)' /\ op'[u].arg = <<user[u].item>>
    BY <1>11, CallArg DEF Waits
  <2> QED BY <1>2, <1>3, <1>4, <1>11, <2>1, InHandKeepsOne
<1>12. ASSUME Waits(u), UNCHANGED <<arriving, history>>, current # NoItem,
              Insert(u, user[u].item, current)
       PROVE  One(s)'
  <2>1. user'[u].pc = "inserting" /\ ~Waits(u)'
    BY <1>2, <1>12 DEF Insert, Waits, UserCommand
  <2>2. CASE Call(u, "putFront", <<user[u].item>>, 0)
    BY <1>11, <1>12, <2>1, <2>2
  <2>3. CASE /\ skipFor' = current
             /\ Call(u, "putFront", <<user[u].item, Parked(current)>>, 0)
             /\ doubled' = IF skipFor = current \/ (NotStarted /\ current.played)
                           THEN doubled \cup {current.song} ELSE doubled
    <3>1. current = song
      BY <1>12 DEF CurrentOK
    <3>2. op'[u].arg = <<user[u].item, Parked(song)>> /\ skipFor' = song
      BY <2>3, <3>1, CallArg
    <3>3. song.song = s => skipFor # song /\ ~(NotStarted /\ song.played)
      BY <1>1, <2>3, <3>1
    <3> QED BY <1>2, <1>3, <1>4, <1>12, <2>1, <3>2, <3>3, InHandKeepsOne
  <2> QED BY <1>12, <2>2, <2>3 DEF Insert
<1>13. ASSUME Waits(u), UNCHANGED <<arriving, history>>, FallBack(u, user[u].item)
       PROVE  One(s)'
  BY <1>2, <1>11, <1>13 DEF FallBack, Busy, NoCommand
<1>14. CASE CutInTooLate(u)
  <2>1. Waits(u) /\ user'[u].pc = "queueing" /\ UNCHANGED <<arriving, history>>
    BY <1>2, <1>14 DEF CutInTooLate, Busy, NoCommand, Waits
  <2> QED BY <1>11, <1>14, <2>1 DEF CutInTooLate
<1>15. CASE Interject(u)
  <2>1. Waits(u) /\ UNCHANGED <<arriving, history>>
    BY <1>15 DEF Interject, Waits
  <2>2. CASE /\ UNCHANGED op
             /\ user' = [user EXCEPT ![u].pc = "cancelling", ![u].target = current]
    <3>1. user'[u].item = user[u].item
      BY <1>2, <2>2 DEF UserCommand
    <3> QED BY <1>2, <1>3, <2>1, <2>2, <3>1, OtherKeepsOne
  <2> QED BY <1>12, <1>13, <1>15, <2>1, <2>2 DEF Interject
<1>16. CASE InterjectCancelled(u)
  <2>1. Waits(u) /\ UNCHANGED <<arriving, history>>
    BY <1>16 DEF InterjectCancelled, Waits
  <2>2. current = user[u].target => current # NoItem
    BY <1>16 DEF InterjectCancelled, InHandOK
  <2> QED BY <1>12, <1>13, <1>16, <2>1, <2>2 DEF InterjectCancelled
<1>17. CASE Finish(u)
  <2>1. op[u].phase = "done" /\ Same(u) /\ op'[u] = Idle /\ Flush(op[u].arg)
    BY <1>17, ReturnFacts DEF Finish
  <2>2. ~Waits(u)' /\ UNCHANGED arriving
    BY <1>2, <1>17 DEF Finish, NoCommand, Waits
  <2>3. \A q, k : InPlace(s, "hand", q, k)' => InPlace(s, "hand", q, k)
    <3>1. \A k : ~InPlace(s, "hand", u, k)'
      BY <2>2 DEF InPlace
    <3> QED BY <1>3, <3>1
  <2>4. \A q, k : InPlace(s, "arriving", q, k)' => InPlace(s, "arriving", q, k)
    BY <2>2 DEF InPlace
  <2>5. \A w, q, k : w \in {"arriving", "hand", "queue", "loop"} /\ InPlace(s, w, q, k)'
          => InPlace(s, w, q, k)
    BY <1>3, <2>3, <2>4
  <2>6. u \in Procs
    OBVIOUS
  <2> QED BY <1>2, <2>1, <2>5, <2>6, OneFlushed
<1>18. CASE Inserted(u)
  <2>1. op'[u] = Idle /\ UNCHANGED <<arriving, history>>
    BY <1>18, ReturnFacts DEF Inserted
  <2>2. ~Waits(u)'
    BY <1>2, <1>18 DEF Inserted, NoCommand, Waits
  <2>3. ~Putting(u)' /\ op'[u].arg = <<>>
    BY <2>1 DEF Putting, PutNames, Idle
  <2> QED BY <1>2, <1>3, <2>1, <2>2, <2>3, OtherKeepsOne
<1>19. CASE BulkCancelled(u)
  BY <1>9, <1>19 DEF BulkCancelled
<1> QED BY <1>6, <1>8, <1>9, <1>10, <1>14, <1>15, <1>16, <1>17, <1>18, <1>19 DEF UserStep

\* Every step of the player keeps each play in one place.
LEMMA OnceStepwise ==
    /\ LoopInv /\ TypeInv /\ DropInv /\ HeadOK /\ OwedOK /\ HandsOK /\ OneHolder
    /\ [LoopNext]_vars
    => OneHolder'
<1> SUFFICES ASSUME LoopInv, TypeInv, DropInv, HeadOK, OwedOK, HandsOK, OneHolder, [LoopNext]_vars
             PROVE  OneHolder'
  OBVIOUS
<1>1. LeakOK /\ CurrentOK /\ WaitsOK
  BY DEF HandsOK, DropInv, NewOK
<1>2. CASE UNCHANGED vars
  <2>1. SUFFICES ASSUME ~leaked, NEW s \in Songs \ doubled PROVE One(s)'
    BY <1>2 DEF OneHolder, vars, auxVars
  <2>2. One(s)
    BY <2>1 DEF OneHolder
  <2>3. \A w, p, k : InPlace(s, w, p, k)' => InPlace(s, w, p, k)
    BY <1>2 DEF vars, queueVars, memory, loopVars, userVars, InPlace, Waits, Putting, Leaves, LoopHas,
                Starting, Marked
  <2> QED BY <2>2, <2>3, OneAside
<1>3. CASE LoopStep \/ SongRetired \/ SongEnds
  BY <1>1, <1>3, LoopKeepsOne
<1>4. CASE PrefetchStep \/ PrefetchRetired
  BY <1>1, <1>4, PrefetchKeepsOne
<1>5. ASSUME NEW u \in Users, UserStep(u) \/ Finish(u) \/ Inserted(u)
      PROVE  OneHolder'
  BY <1>1, <1>5, UserKeepsOne
<1>6. ASSUME NEW p \in Procs, QueueStep(p)
      PROVE  OneHolder'
  BY <1>1, <1>6, QueueKeepsOne
<1> QED BY <1>2, <1>3, <1>4, <1>5, <1>6 DEF LoopNext, Caller

\* At the start the plays to come and those restored are apart, but for a restored queue
\* with a song in two entries, which counts as doubled.
LEMMA OnceInitially == LoopInit => OneHolder
<1> SUFFICES ASSUME LoopInit, NEW s \in Songs \ doubled PROVE One(s)
  BY DEF OneHolder
<1> USE Callers
<1>1. /\ items \in RestoredQueues /\ op = [p \in Procs |-> Idle]
      /\ lpc = "gate" /\ song = NoItem /\ user = [u \in Users |-> NoCommand] /\ arriving = Arrivals
      /\ history = [t \in Songs |-> 0]
      /\ doubled = {t \in Songs : \E j, k \in DOMAIN items :
                        j # k /\ items[j].song = t /\ items[k].song = t}
  BY DEF LoopInit, Init
<1>2. \A w, p, k : InPlace(s, w, p, k) =>
         \/ w = "arriving" /\ p = Loop /\ k \in DOMAIN Arrivals /\ Arrivals[k] = s
         \/ w = "queue" /\ p = Loop /\ k \in DOMAIN items /\ items[k].song = s
  <2>1. \A k : ~(k \in 1 .. history[s])
    BY <1>1
  <2>2. \A u \in Users : ~Waits(u)
    BY <1>1 DEF Waits, NoCommand
  <2>3. \A p \in Procs : ~Putting(p) /\ ~Leaves(p)
    BY <1>1 DEF Putting, Leaves, PutNames, Idle
  <2>4. ~LoopHas(s)
    BY <1>1 DEF LoopHas
  <2> QED BY <1>1, <2>1, <2>2, <2>3, <2>4 DEF InPlace
<1>3. \A j, k \in DOMAIN Arrivals : Arrivals[j] = Arrivals[k] => j = k
  BY PlaysAssumption DEF PlaysAssumption
<1>4. \A j \in DOMAIN Arrivals, k \in DOMAIN items : items[k].song # Arrivals[j]
  BY <1>1, PlaysAssumption DEF PlaysAssumption
<1>5. \A j, k \in DOMAIN items : items[j].song = s /\ items[k].song = s => j = k
  BY <1>1
<1> QED BY <1>2, <1>3, <1>4, <1>5 DEF One

\* The invariants that the earlier proofs establish, and the three above.
LEMMA PlaybackInvariants ==
    PlaybackSpec => [](LoopInv /\ TypeInv /\ DropInv /\ HeadOK /\ OwedOK /\ HandsOK)
<1>1. PlaybackSpec => []TypeInv
  BY TypesInitially, TypesStepwise, LoopInvariant, PTL DEF PlaybackSpec
<1>2. PlaybackSpec => []DropInv
  BY DropInitially, DropStepwise, LoopInvariant, PTL DEF PlaybackSpec
<1>3. PlaybackSpec => []StoreOK
  BY PlaybackKeepsContract, StoreTypeCorrect, PTL DEF QueueContract
<1>4. PlaybackSpec => []MirrorInv
  BY <1>1, <1>2, <1>3, MirrorInitially, MirrorStepwise, LoopInvariant, PTL DEF PlaybackSpec
<1>5. MirrorInv => HeadOK /\ OwedOK
  BY DEF MirrorInv
<1>6. PlaybackSpec => []HandsOK
  BY HandsInitially, HandsStepwise, LoopInvariant, PTL DEF PlaybackSpec
<1> QED BY <1>1, <1>2, <1>4, <1>5, <1>6, LoopInvariant, PTL

\* For any songs, users, commands and faults a play is written to the history at most once
\* (_record_history(), interject() and the rows of -clear, -remove and retired songs), but
\* for those the README says to have two writers (section 4).
THEOREM RecordedAtMostOnce == PlaybackSpec => []RecordedOnce
<1>1. LoopInv /\ TypeInv /\ OneHolder => RecordedOnce
  <2>1. SUFFICES ASSUME TypeInv, OneHolder, ~leaked, NEW s \in Songs \ doubled
                 PROVE  history[s] <= 1
    BY DEF RecordedOnce
  <2>2. history[s] \in Nat
    BY <2>1 DEF TypeInv, RecordOK
  <2>3. One(s)
    BY <2>1 DEF OneHolder
  <2>4. \A k \in 1 .. history[s] : InPlace(s, "row", Loop, k)
    BY DEF InPlace
  <2>5. ASSUME ~(history[s] <= 1) PROVE FALSE
    <3>1. 1 \in 1 .. history[s] /\ 2 \in 1 .. history[s]
      BY <2>2, <2>5
    <3>2. 1 = 2
      BY <2>3, <2>4, <3>1 DEF One
    <3> QED BY <3>2
  <2> QED BY <2>5
<1>2. PlaybackSpec => []OneHolder
  BY PlaybackInvariants, OnceInitially, OnceStepwise, PTL DEF PlaybackSpec
<1> QED BY <1>1, <1>2, PlaybackInvariants, PTL

-----------------------------------------------------------------------------
(* What the queue's operations lose: nothing.                               *)

\* A put loses nothing that was queued or is being queued.
LEMMA PutGoes ==
    ASSUME QueueInv, NEW p \in Procs, EnterPut(p) \/ EnterPutFront(p)
    PROVE  /\ \A k \in DOMAIN items : \E j \in DOMAIN items' : items'[j] = items[k]
           /\ \A k \in DOMAIN op[p].arg : \E j \in DOMAIN items' : items'[j] = op[p].arg[k]
<1>1. /\ Len(items) \in Nat /\ DOMAIN items = 1 .. Len(items) /\ cursor \in 0 .. Len(items)
      /\ items \in Seq(Item) /\ op[p].arg \in Seq(Item)
  BY DequeFacts, LockFacts DEF Operation
<1> DEFINE arg == op[p].arg
           m == Len(arg)
<1>2. m \in Nat /\ DOMAIN arg = 1 .. m /\ arg \in Seq(Item)
  BY <1>1, LenProperties
<1> HIDE DEF m
<1>3. CASE EnterPut(p)
  <2> DEFINE lo == Len(items)
  <2>1. items' = items \o arg
    BY <1>3 DEF EnterPut
  <2> HIDE DEF arg
  <2>2. /\ items \o arg \in Seq(Item) /\ Len(items \o arg) = lo + m
        /\ \A k \in 1 .. lo + m : (items \o arg)[k] = IF k <= lo THEN items[k] ELSE arg[k - lo]
    BY <1>1, <1>2, ConcatProperties DEF m
  <2>3. DOMAIN items' = 1 .. lo + m
    BY <2>1, <2>2, LenProperties
  <2>4. lo \in Nat /\ DOMAIN items = 1 .. lo
    BY <1>1
  <2> HIDE DEF lo
  <2>5. ASSUME NEW k \in DOMAIN items PROVE k \in DOMAIN items' /\ items'[k] = items[k]
    BY <1>2, <2>1, <2>2, <2>3, <2>4, <2>5
  <2>6. ASSUME NEW k \in DOMAIN arg PROVE lo + k \in DOMAIN items' /\ items'[lo + k] = arg[k]
    <3> DEFINE h == lo + k
    <3>1. h \in 1 .. lo + m /\ ~(h <= lo) /\ h - lo = k
      BY <1>2, <2>4, <2>6
    <3> HIDE DEF h
    <3>2. items'[h] = arg[h - lo]
      BY <2>1, <2>2, <3>1
    <3>3. h \in DOMAIN items' /\ items'[h] = arg[k]
      BY <2>3, <3>1, <3>2
    <3> QED BY <3>3 DEF h
  <2> QED BY <2>5, <2>6 DEF arg
<1>4. CASE EnterPutFront(p)
  <2> DEFINE head == SubSeq(items, 1, cursor)
             rest == SubSeq(items, cursor + 1, Len(items))
             n == Len(items) - cursor
  <2>1. items' = (head \o arg) \o rest
    BY <1>4 DEF EnterPutFront, Claimed
  <2>2. head \in Seq(Item) /\ Len(head) = cursor /\ \A k \in 1 .. cursor : head[k] = items[k]
    <3>1. \A k \in 1 .. Len(items) : items[k] \in Item
      BY DequeFacts
    <3> QED BY <1>1, <3>1, SubSeqProperties
  <2>3. /\ rest \in Seq(Item) /\ Len(rest) = n
        /\ \A k \in 1 .. n : rest[k] = items[cursor + k]
    <3>1. \A k \in cursor + 1 .. Len(items) : items[k] \in Item
      BY DequeFacts, <1>1
    <3>2. \A k \in 1 .. Len(items) - (cursor + 1) + 1 : rest[k] = items[cursor + 1 + k - 1]
      BY <1>1, <3>1, SubSeqProperties
    <3>3. Len(items) - (cursor + 1) + 1 = n
      BY <1>1
    <3>4. rest \in Seq(Item) /\ Len(rest) = n
      BY HalvesType
    <3> HIDE DEF rest, n
    <3>5. ASSUME NEW k \in 1 .. n PROVE rest[k] = items[cursor + k]
      <4>1. cursor + 1 + k - 1 = cursor + k
        BY <1>1
      <4>2. rest[k] = items[cursor + 1 + k - 1]
        BY <3>2, <3>3
      <4> QED BY <4>1, <4>2
    <3> QED BY <3>4, <3>5
  <2>4. n = Len(items) - cursor /\ cursor \in Nat /\ n \in Nat
    BY <1>1
  <2> HIDE DEF head, rest, n, arg
  <2> DEFINE left == head \o arg
  <2>5. /\ left \in Seq(Item) /\ Len(left) = cursor + m
        /\ \A k \in 1 .. cursor + m : left[k] = IF k <= cursor THEN head[k] ELSE arg[k - cursor]
    BY <1>2, <2>2, ConcatProperties DEF m
  <2>6. items' = left \o rest
    BY <2>1
  <2> HIDE DEF left
  <2>7. /\ left \o rest \in Seq(Item) /\ Len(left \o rest) = Len(left) + Len(rest)
        /\ \A k \in 1 .. Len(left) + Len(rest) :
              (left \o rest)[k] = IF k <= Len(left) THEN left[k] ELSE rest[k - Len(left)]
    BY <2>3, <2>5, ConcatProperties
  <2>8. /\ DOMAIN items' = 1 .. cursor + m + n
        /\ \A k \in 1 .. cursor + m + n :
              items'[k] = IF k <= cursor + m THEN left[k] ELSE rest[k - (cursor + m)]
    BY <1>2, <2>3, <2>4, <2>5, <2>6, <2>7, LenProperties
  <2>9. ASSUME NEW k \in DOMAIN items, k <= cursor PROVE k \in DOMAIN items' /\ items'[k] = items[k]
    <3>1. k \in 1 .. cursor /\ k \in 1 .. cursor + m /\ k \in 1 .. cursor + m + n /\ k <= cursor + m
      BY <1>1, <1>2, <2>4, <2>9
    <3>2. items'[k] = left[k]
      BY <2>8, <3>1
    <3>3. left[k] = head[k]
      BY <2>5, <2>9, <3>1
    <3> QED BY <2>2, <2>8, <3>1, <3>2, <3>3
  <2>10. ASSUME NEW k \in DOMAIN items, ~(k <= cursor)
         PROVE  k + m \in DOMAIN items' /\ items'[k + m] = items[k]
    <3> DEFINE h == k + m
               i == k - cursor
    <3>1. /\ h \in 1 .. cursor + m + n /\ ~(h <= cursor + m)
          /\ h - (cursor + m) = i /\ i \in 1 .. n /\ cursor + i = k
      BY <1>1, <1>2, <2>4, <2>10
    <3> HIDE DEF h, i
    <3>2. items'[h] = rest[h - (cursor + m)]
      BY <2>8, <3>1
    <3>3. rest[i] = items[cursor + i]
      BY <2>3, <3>1
    <3>4. h \in DOMAIN items' /\ items'[h] = items[k]
      BY <2>8, <3>1, <3>2, <3>3
    <3> QED BY <3>4 DEF h
  <2>11. ASSUME NEW k \in DOMAIN arg
         PROVE  cursor + k \in DOMAIN items' /\ items'[cursor + k] = arg[k]
    <3> DEFINE h == cursor + k
    <3>1. /\ h \in 1 .. cursor + m /\ h \in 1 .. cursor + m + n
          /\ h <= cursor + m /\ ~(h <= cursor) /\ h - cursor = k
      BY <1>2, <2>4, <2>11
    <3> HIDE DEF h
    <3>2. items'[h] = left[h]
      BY <2>8, <3>1
    <3>3. left[h] = arg[h - cursor]
      BY <2>5, <3>1
    <3>4. h \in DOMAIN items' /\ items'[h] = arg[k]
      BY <2>8, <3>1, <3>2, <3>3
    <3> QED BY <3>4 DEF h
  <2> QED BY <2>9, <2>10, <2>11 DEF arg
<1> QED BY <1>3, <1>4

\* A shuffle loses nothing, a remove hands over what it takes.
LEMMA PartGoes ==
    ASSUME QueueInv, NEW p \in Procs, EnterShuffle(p) \/ EnterRemove(p), NEW k \in DOMAIN items
    PROVE  \/ \E j \in DOMAIN items' : items'[j] = items[k]
           \/ \E j \in DOMAIN op'[p].arg : op'[p].arg[j] = items[k]
<1>1. items \in Seq(Item) /\ DOMAIN items = 1 .. Len(items) /\ Len(items) \in Nat
        /\ cursor \in 0 .. Len(items)
  BY DequeFacts
<1>2. Pending \subseteq DOMAIN items
  BY <1>1 DEF Pending
<1>3. CASE items' = items
  BY <1>3
<1>4. CASE EnterShuffle(p) /\ items' # items
  <2>1. PICK pi \in Bijection(Pending, Pending) :
           items' = [j \in DOMAIN items |-> IF j \in Pending THEN items[pi[j]] ELSE items[j]]
    BY <1>4 DEF EnterShuffle
  <2>2. \A j \in Pending : \E i \in Pending : pi[i] = j
    BY <2>1 DEF Bijection, Surjection
  <2>3. CASE k \in Pending
    BY <1>2, <2>1, <2>2, <2>3
  <2>4. CASE k \notin Pending
    BY <2>1, <2>4
  <2> QED BY <2>3, <2>4
<1>5. CASE EnterRemove(p) /\ items' # items
  <2>1. PICK gone \in SUBSET Pending :
           items' = At(items, DOMAIN items \ gone) /\ op'[p].arg = At(items, gone)
    BY <1>5, ProceedArg DEF EnterRemove
  <2> DEFINE kept == DOMAIN items \ gone
  <2>2. kept \in SUBSET DOMAIN items /\ gone \in SUBSET DOMAIN items
    BY <1>2
  <2>3. CASE k \in gone
    <3>1. /\ DOMAIN At(items, gone) = 1 .. Cardinality(gone)
          /\ \E j \in 1 .. Cardinality(gone) : At(items, gone)[j] = items[k]
      BY <1>1, <2>2, <2>3, AtFacts
    <3> QED BY <2>1, <3>1
  <2>4. CASE k \in kept
    <3> HIDE DEF kept
    <3>1. /\ DOMAIN At(items, kept) = 1 .. Cardinality(kept)
          /\ \E j \in 1 .. Cardinality(kept) : At(items, kept)[j] = items[k]
      BY <1>1, <2>2, <2>4, AtFacts
    <3>2. items' = At(items, kept)
      BY <2>1 DEF kept
    <3> QED BY <3>1, <3>2
  <2> QED BY <2>3, <2>4
<1> QED BY <1>3, <1>4, <1>5

-----------------------------------------------------------------------------
(* No play that was heard is without a row, or without somebody to write it.  *)

\* An entry whose play, cut f times or more before it, is still to be recorded.
Owes(i, s, f) == i.song = s /\ i.played /\ i.frag > f

\* Such an entry is queued, in a call that queues it or has taken it out, or with the loop.
InDeque(s, f) == \E k \in DOMAIN items : Owes(items[k], s, f)
Carried(p, s, f) ==
    (Putting(p) \/ Leaves(p)) /\ \E k \in DOMAIN op[p].arg : Owes(op[p].arg[k], s, f)
InLoop(s, f) == Starting /\ Owes(song, s, f) /\ skipFor # song

\* The play of s has its row, or a fragment of it past the f-th is on its way to one.
Held(s, f) ==
    history[s] >= 1 \/ InDeque(s, f) \/ (\E p \in Procs : Carried(p, s, f)) \/ InLoop(s, f)

\* The song that has just ended, before the loop writes its row.
JustHeard(s) == lpc \in {"join", "settle"} /\ voice = "ended" /\ song.song = s /\ skipFor # song

\* The song an interjection has marked, and how often it was cut by then.
Mark(s, f) == skipFor # NoItem /\ skipFor.song = s /\ skipFor.frag = f

\* A marked song's row is the business of a later fragment.
HeardOK ==
    ~leaked =>
      /\ \A s \in heard \ lost : Held(s, 0) \/ JustHeard(s)
      /\ \A s \in Songs \ lost, f \in Nat : Mark(s, f) => Held(s, f)

\* What a step has to keep.
LEMMA HeardMoves ==
    ASSUME HeardOK, ~leaked' => ~leaked, lost \subseteq lost', heard' \subseteq Songs,
           ~leaked' => \A s \in Songs \ lost' :
              /\ \A f \in Nat : Held(s, f) => Held(s, f)'
              /\ JustHeard(s) => Held(s, 0)' \/ JustHeard(s)'
              /\ s \in heard' => s \in heard \/ Held(s, 0)' \/ JustHeard(s)'
              /\ \A f \in Nat : Mark(s, f)' => Mark(s, f) \/ Held(s, f)'
    PROVE  HeardOK'
<1> SUFFICES ASSUME ~leaked' PROVE HeardOK'
  BY DEF HeardOK
<1>1. ASSUME NEW s \in heard' \ lost' PROVE Held(s, 0)' \/ JustHeard(s)'
  <2>1. s \in Songs \ lost' /\ s \notin lost /\ 0 \in Nat
    BY <1>1
  <2>2. CASE s \in heard
    <3>1. Held(s, 0) \/ JustHeard(s)
      BY <2>1, <2>2 DEF HeardOK
    <3> QED BY <2>1, <3>1
  <2> QED BY <1>1, <2>1, <2>2
<1>2. ASSUME NEW s \in Songs \ lost', NEW f \in Nat, Mark(s, f)' PROVE Held(s, f)'
  <2>1. CASE Mark(s, f)
    <3>1. Held(s, f)
      BY <1>2, <2>1 DEF HeardOK
    <3> QED BY <1>2, <3>1
  <2> QED BY <1>2, <2>1
<1> QED BY <1>1, <1>2 DEF HeardOK

\* What is owed past the g-th cut is owed past an earlier one.
LEMMA OwesWeaker ==
    ASSUME LoopInv, TypeInv, NEW s, NEW f \in Nat, NEW g \in Nat, f <= g
    PROVE  /\ \A k \in DOMAIN items : Owes(items[k], s, g) => Owes(items[k], s, f)
           /\ \A p \in Procs : Carried(p, s, g) => Carried(p, s, f)
           /\ InLoop(s, g) => InLoop(s, f)
<1>1. \A i \in Item : Owes(i, s, g) => Owes(i, s, f)
  BY DEF Owes, Item
<1>2. \A k \in DOMAIN items : items[k] \in Item
  BY DequeFacts, ElementOfSeq, LenProperties DEF LoopInv
<1>3. ASSUME NEW p \in Procs, NEW k \in DOMAIN op[p].arg PROVE op[p].arg[k] \in Item
  <2>1. op[p].arg \in Seq(Item)
    BY LockFacts DEF LoopInv, Operation
  <2> QED BY <1>3, <2>1, ElementOfSeq, LenProperties
<1>4. Starting => song \in Item
  BY DEF Starting, TypeInv, RecordOK
<1>5. \A p \in Procs : Carried(p, s, g) => Carried(p, s, f)
  BY <1>1, <1>3 DEF Carried
<1>6. InLoop(s, g) => InLoop(s, f)
  BY <1>1, <1>4 DEF InLoop
<1> QED BY <1>1, <1>2, <1>5, <1>6

\* So is what is held.
LEMMA HeldWeaker ==
    ASSUME LoopInv, TypeInv, NEW s, NEW f \in Nat, NEW g \in Nat, f <= g, Held(s, g)
    PROVE  Held(s, f)
<1>1. InDeque(s, g) => InDeque(s, f)
  BY OwesWeaker DEF InDeque
<1> QED BY <1>1, OwesWeaker DEF Held

\* A heard play that a call returns has a row from then on; no row goes.
LEMMA FlushRecords ==
    ASSUME NEW gone \in Seq(Item), history \in [Songs -> Nat], Flush(gone), NEW s \in Songs
    PROVE  /\ history'[s] >= history[s]
           /\ (\E k \in DOMAIN gone : gone[k].song = s /\ gone[k].played) => history'[s] >= 1
<1> DEFINE S == {k \in DOMAIN gone : gone[k].song = s /\ gone[k].played}
<1>1. history'[s] = history[s] + Cardinality(S) /\ history[s] \in Nat
  BY DEF Flush
<1>2. IsFiniteSet(S)
  <2>1. DOMAIN gone = 1 .. Len(gone) /\ Len(gone) \in Nat
    BY LenProperties
  <2>2. IsFiniteSet(DOMAIN gone)
    BY <2>1, FS_Interval
  <2>3. S \in SUBSET DOMAIN gone
    OBVIOUS
  <2> QED BY <2>2, <2>3, FS_Subset
<1>3. (\E k \in DOMAIN gone : gone[k].song = s /\ gone[k].played) => S # {}
  OBVIOUS
<1> HIDE DEF S
<1>4. Cardinality(S) \in Nat /\ (S # {} => Cardinality(S) # 0)
  BY <1>2, FS_CardinalityType, FS_EmptySet
<1> QED BY <1>1, <1>3, <1>4

\* A call's step leaves what the other calls carry.
LEMMA OthersCarry ==
    ASSUME NEW p, Same(p), NEW q \in Procs, q # p, NEW s, NEW f, Carried(q, s, f)
    PROVE  Carried(q, s, f)'
BY DEF Carried, Same, Putting, Leaves

\* A call returns to whoever writes the rows of what it took.
LEMMA HeldFlushed ==
    ASSUME LoopInv, TypeInv, NEW s \in Songs, NEW f, NEW p \in Procs, op[p].phase = "done", Same(p),
           Flush(op[p].arg), InDeque(s, f) => InDeque(s, f)', InLoop(s, f) => InLoop(s, f)',
           Held(s, f)
    PROVE  Held(s, f)'
<1>1. op[p].arg \in Seq(Item) /\ history \in [Songs -> Nat]
  BY LockFacts DEF LoopInv, Operation, TypeInv, RecordOK
<1>2. /\ history'[s] >= history[s]
      /\ (\E k \in DOMAIN op[p].arg : op[p].arg[k].song = s /\ op[p].arg[k].played) => history'[s] >= 1
  BY <1>1, FlushRecords
<1>3. history[s] \in Nat /\ history'[s] \in Nat
  BY <1>1, FlushType
<1>4. Carried(p, s, f) => history'[s] >= 1
  BY <1>2 DEF Carried, Owes
<1>5. \A q \in Procs : q # p /\ Carried(q, s, f) => Carried(q, s, f)'
  BY OthersCarry
<1>6. history[s] >= 1 => history'[s] >= 1
  BY <1>2, <1>3
<1> QED BY <1>4, <1>5, <1>6 DEF Held

\* The loop's steps leave what a call holds, but for the one its call returns.
LEMMA LoopCarries ==
    ASSUME LoopInv, LoopStep \/ SongEnds, NEW s, NEW f, NEW p \in Procs, Carried(p, s, f)
    PROVE  Carried(p, s, f)'
<1> USE Callers
<1>1. Same(Loop)
  BY LoopAside
<1>2. \/ UNCHANGED op \/ EnterCommit(Loop)
      \/ \E name, arg, gen : Call(Loop, name, arg, gen)
  BY DEF LoopStep, PassGate, GateTimesOut, TakePrefetched, TakeFromQueue, WakeUp, IdleOut,
         StreamSong, StreamSongFails, CommitSong, StartSong, StartPrefetch, SongOver,
         JoinPrefetch, SettleAlone, Settle, LoopRaises, SongEnds, queueVars
<1>3. CASE p # Loop
  BY <1>1, <1>3, OthersCarry
<1>4. CASE p = Loop
  <2>1. ~EnterCommit(Loop)
    BY <1>4 DEF Carried, EnterCommit, Holds, Putting, PutNames, Leaves
  <2>2. ASSUME NEW name, NEW arg, NEW gen, Call(Loop, name, arg, gen) PROVE FALSE
    BY <1>4, <2>2 DEF Call, Carried, Putting, PutNames, Leaves, Idle
  <2>3. UNCHANGED op
    BY <1>2, <2>1, <2>2
  <2> QED BY <2>3 DEF Carried, Putting, Leaves
<1> QED BY <1>3, <1>4

\* What is behind the head of the deque moves up.
LEMMA TailKeeps ==
    ASSUME QueueInv, cursor > 0, items' = Tail(items), NEW k \in DOMAIN items, k # 1
    PROVE  k - 1 \in DOMAIN items' /\ items'[k - 1] = items[k]
<1>1. items \in Seq(Item) /\ items # <<>> /\ DOMAIN items = 1 .. Len(items) /\ Len(items) \in Nat
  BY DequeFacts, EmptySeq, LenProperties
<1>2. Len(items') = Len(items) - 1 /\ \A j \in 1 .. Len(items') : items'[j] = items[j + 1]
  BY <1>1, HeadTailProperties
<1>3. DOMAIN items' = 1 .. Len(items')
  <2>1. items' \in Seq(Item)
    BY <1>1, HeadTailProperties
  <2> QED BY <2>1, LenProperties
<1> DEFINE j == k - 1
<1>4. j \in 1 .. Len(items') /\ j + 1 = k
  BY <1>1, <1>2
<1> HIDE DEF j
<1>5. j \in DOMAIN items' /\ items'[j] = items[k]
  BY <1>2, <1>3, <1>4
<1> QED BY <1>5 DEF j

\* The item the loop has claimed is the head, cut as often.
LEMMA ClaimedCuts ==
    ASSUME LoopInv, HeadOK, stranded = 0, lpc \in {"resolve", "commit"}, commitGen = generation
    PROVE  items[1].frag = song.frag
<1>1. HeadIs(song) /\ items[1] \in Item
  BY ClaimedHead DEF HeadOK
<1> QED BY <1>1, ResolvedFrag DEF HeadIs

\* The head the loop settles goes on with the loop; when an interjection has marked it,
\* what that queued is elsewhere.
LEMMA CommitHolds ==
    ASSUME LoopInv, TypeInv, HeadOK, stranded = 0, HeardOK, ~leaked, CommitSong,
           NEW s \in Songs \ lost, NEW f \in Nat, Held(s, f)
    PROVE  Held(s, f)'
<1> USE Callers
<1>1. song \in Item /\ op[Loop].gen = commitGen /\ lpc = "commit" /\ UNCHANGED <<history, skipFor>>
  BY DEF CommitSong, LoopInv, ClientInv, InHandOK, CallsOK, LoopCallOK
<1>2. ~InLoop(s, f)
  BY <1>1 DEF InLoop, Starting
<1>3. LoopStep
  BY DEF LoopStep
<1>4. \A p \in Procs : \A g : Carried(p, s, g) => Carried(p, s, g)'
  BY <1>3, LoopCarries
<1>5. CASE ~CommitOK(Loop)
  <2>1. UNCHANGED items
    BY <1>5 DEF CommitSong, EnterCommit
  <2>2. InDeque(s, f) => InDeque(s, f)'
    BY <2>1 DEF InDeque
  <2> QED BY <1>1, <1>2, <1>4, <2>2 DEF Held
<1>6. CASE CommitOK(Loop)
  <2>1. commitGen = generation /\ cursor > 0 /\ items' = Tail(items)
    BY <1>1, <1>6 DEF CommitOK, CommitSong, EnterCommit, Release
  <2>2. lpc' \in {"start", "raise"} /\ UNCHANGED song
    BY <1>6 DEF CommitSong
  <2>3. items[1].song = song.song /\ items[1].played = song.played /\ items[1].frag = song.frag
    BY <1>1, <2>1, ClaimedHead, ClaimedCuts
  <2>4. ASSUME NEW k \in DOMAIN items, k # 1, Owes(items[k], s, f) PROVE InDeque(s, f)'
    <3>1. k - 1 \in DOMAIN items' /\ items'[k - 1] = items[k]
      BY <2>1, <2>4, TailKeeps DEF LoopInv
    <3> QED BY <2>4, <3>1 DEF InDeque
  <2>5. ASSUME Owes(items[1], s, f) PROVE Held(s, f)'
    <3>1. Owes(song, s, f)
      BY <2>3, <2>5 DEF Owes
    <3>2. CASE skipFor # song
      BY <1>1, <2>2, <3>1, <3>2 DEF Held, InLoop, Starting
    <3>3. CASE skipFor = song
      <4> DEFINE g == song.frag
      <4>1. g \in Nat /\ f <= g /\ s = song.song /\ song # NoItem
        <5>1. g \in Nat /\ g > f
          BY <1>1, <3>1 DEF Owes, Item
        <5> QED BY <1>1, <3>1, <5>1 DEF Owes
      <4>2. Mark(s, g)
        BY <3>3, <4>1 DEF Mark
      <4>3. ~Owes(items[1], s, g)
        BY <2>3, <4>1 DEF Owes
      <4> HIDE DEF g
      <4>4. Held(s, g)
        BY <4>1, <4>2 DEF HeardOK
      <4>5. /\ \A k \in DOMAIN items : Owes(items[k], s, g) => Owes(items[k], s, f)
            /\ \A p \in Procs : Carried(p, s, g) => Carried(p, s, f)
        BY <4>1, OwesWeaker
      <4>6. ~InLoop(s, g)
        BY <1>1 DEF InLoop, Starting
      <4>7. InDeque(s, g) => InDeque(s, f)'
        BY <2>4, <4>3, <4>5 DEF InDeque
      <4> QED BY <1>1, <1>4, <4>4, <4>5, <4>6, <4>7 DEF Held
    <3> QED BY <3>2, <3>3
  <2>6. InDeque(s, f) => Held(s, f)'
    BY <2>4, <2>5 DEF InDeque, Held
  <2> QED BY <1>1, <1>2, <1>4, <2>6 DEF Held
<1> QED BY <1>5, <1>6

\* The row the loop writes is there for what it had in hand.
LEMMA SettleHolds ==
    ASSUME LoopInv, TypeInv, LoopStep, NEW result, Settle(result), Starting,
           NEW s \in Songs, NEW f \in Nat
    PROVE  /\ Held(s, f) => Held(s, f)'
           /\ JustHeard(s) => Held(s, f)'
<1>1. song \in Item /\ history \in [Songs -> Nat] /\ history[s] \in Nat
  BY DEF TypeInv, RecordOK, Starting
<1>2. history' = history \/ history' = [history EXCEPT ![song.song] = @ + 1]
  BY DEF Settle
<1>3. history[s] >= 1 => history'[s] >= 1
  BY <1>1, <1>2
<1>4. ASSUME song.song = s, skipFor # song, voice = "ended" \/ (song.frag > 0 /\ song.played)
      PROVE  history'[s] >= 1
  <2>1. history' = [history EXCEPT ![song.song] = @ + 1]
    BY <1>4 DEF Settle
  <2> QED BY <1>1, <1>4, <2>1
<1>5. JustHeard(s) => history'[s] >= 1
  BY <1>4 DEF JustHeard
<1>6. InLoop(s, f) => history'[s] >= 1
  <2>1. InLoop(s, f) => song.frag > 0
    BY <1>1 DEF InLoop, Owes, Item
  <2> QED BY <1>4, <2>1 DEF InLoop, Owes
<1>7. UNCHANGED items
  BY DEF Settle, queueVars, memory
<1>8. InDeque(s, f) => InDeque(s, f)'
  BY <1>7 DEF InDeque
<1> QED BY <1>3, <1>5, <1>6, <1>8, LoopCarries DEF Held

\* The loop: what it settles goes on with it, and what ended it writes down.
LEMMA LoopKeepsHeard ==
    ASSUME LoopInv, TypeInv, TypeInv', HeadOK, LeakOK, HeardOK, LoopStep \/ SongRetired \/ SongEnds
    PROVE  HeardOK'
<1> USE Callers
<1>1. (leaked => leaked') /\ lost \subseteq lost' /\ leaked \in BOOLEAN
  BY DEF LoopStep, PassGate, GateTimesOut, TakePrefetched, TakeFromQueue, Discard, Strand, WakeUp,
         IdleOut, StreamSong, StreamSongFails, CommitSong, StartSong, StartPrefetch, SongOver,
         JoinPrefetch, SettleAlone, Settle, LoopRaises, SongRetired, SongEnds, auxVars,
         TypeInv, RecordOK
<1>2. heard' \subseteq Songs
  BY DEF TypeInv, RecordOK
<1>3. SUFFICES ASSUME ~leaked', NEW s \in Songs \ lost'
               PROVE  /\ \A f \in Nat : Held(s, f) => Held(s, f)'
                      /\ JustHeard(s) => Held(s, 0)' \/ JustHeard(s)'
                      /\ s \in heard' => s \in heard \/ Held(s, 0)' \/ JustHeard(s)'
                      /\ \A f \in Nat : Mark(s, f)' => Mark(s, f) \/ Held(s, f)'
  BY <1>1, <1>2, HeardMoves
<1>4. ~leaked /\ s \in Songs \ lost /\ s \in Songs /\ 0 \in Nat /\ stranded = 0
  BY <1>1, <1>3 DEF LeakOK, LoopInv, ClientInv, ClientOK
<1>5. ASSUME UNCHANGED <<items, history, heard, skipFor>>, LoopStep \/ SongEnds,
             \A f \in Nat : InLoop(s, f) => InLoop(s, f)', ~JustHeard(s)
      PROVE  /\ \A f \in Nat : Held(s, f) => Held(s, f)'
             /\ JustHeard(s) => Held(s, 0)' \/ JustHeard(s)'
             /\ s \in heard' => s \in heard \/ Held(s, 0)' \/ JustHeard(s)'
             /\ \A f \in Nat : Mark(s, f)' => Mark(s, f) \/ Held(s, f)'
  <2>1. \A f \in Nat : InDeque(s, f) => InDeque(s, f)'
    BY <1>5 DEF InDeque
  <2>2. \A f \in Nat, p \in Procs : Carried(p, s, f) => Carried(p, s, f)'
    BY <1>5, LoopCarries
  <2>3. \A f \in Nat : Held(s, f) => Held(s, f)'
    BY <1>5, <2>1, <2>2 DEF Held
  <2>4. \A f \in Nat : Mark(s, f)' => Mark(s, f)
    BY <1>5 DEF Mark
  <2> QED BY <1>5, <2>3, <2>4
<1>6. CASE PassGate \/ GateTimesOut \/ TakePrefetched \/ TakeFromQueue \/ WakeUp \/ IdleOut
  <2>1. UNCHANGED <<items, history, heard, skipFor>>
    BY <1>6 DEF PassGate, GateTimesOut, TakePrefetched, TakeFromQueue, WakeUp, IdleOut, Claim,
                queueVars, memory, auxVars
  <2>2. lpc \notin {"start", "announce", "playing", "join", "settle", "raise"}
    BY <1>6 DEF PassGate, GateTimesOut, TakePrefetched, AtTop, TakeFromQueue, WakeUp, IdleOut
  <2> QED BY <1>5, <1>6, <2>1, <2>2 DEF LoopStep, InLoop, Starting, JustHeard
<1>7. CASE StreamSong \/ StreamSongFails
  BY <1>5, <1>7 DEF StreamSong, StreamSongFails, memory, auxVars, LoopStep, InLoop, Starting, JustHeard
<1>8. CASE CommitSong
  <2>1. UNCHANGED <<heard, skipFor>> /\ lpc = "commit"
    BY <1>8 DEF CommitSong, auxVars
  <2>2. \A f \in Nat : Held(s, f) => Held(s, f)'
    BY <1>4, <1>8, CommitHolds
  <2> QED BY <2>1, <2>2 DEF Mark, JustHeard
<1>9. CASE StartSong \/ StartPrefetch
  BY <1>5, <1>9 DEF StartSong, StartPrefetch, memory, queueVars, auxVars, LoopStep, InLoop, Starting,
                    JustHeard
<1>10. CASE SongEnds
  BY <1>5, <1>10 DEF SongEnds, memory, queueVars, auxVars, InLoop, Starting, JustHeard
<1>11. CASE SongOver
  <2>1. /\ UNCHANGED <<items, history, song, skipFor>> /\ lpc = "playing" /\ lpc' \in {"join", "settle"}
        /\ heard' = IF voice = "ended" THEN heard \cup {song.song} ELSE heard
        /\ UNCHANGED voice
    BY <1>11 DEF SongOver, queueVars, memory
  <2>2. song \in Item /\ LoopStep
    BY <1>11, <2>1 DEF TypeInv, RecordOK, LoopStep
  <2>3. \A f \in Nat : InDeque(s, f) => InDeque(s, f)'
    BY <2>1 DEF InDeque
  <2>4. \A f \in Nat, p \in Procs : Carried(p, s, f) => Carried(p, s, f)'
    BY <2>2, LoopCarries
  <2>5. \A f \in Nat : InLoop(s, f) => InLoop(s, f)'
    BY <2>1 DEF InLoop, Starting
  <2>6. \A f \in Nat : Held(s, f) => Held(s, f)'
    BY <2>1, <2>3, <2>4, <2>5 DEF Held
  <2>7. ASSUME s \in heard', s \notin heard PROVE Held(s, 0)' \/ JustHeard(s)'
    <3>1. s = song.song /\ voice = "ended"
      BY <2>1, <2>7
    <3>2. CASE skipFor # song
      BY <2>1, <3>1, <3>2 DEF JustHeard
    <3>3. CASE skipFor = song
      <4>1. Mark(s, song.frag) /\ song.frag \in Nat /\ 0 <= song.frag
        BY <2>2, <3>1, <3>3 DEF Mark, Item
      <4>2. Held(s, song.frag)
        BY <1>4, <4>1 DEF HeardOK
      <4>3. Held(s, 0)
        BY <1>4, <4>1, <4>2, HeldWeaker
      <4> QED BY <1>4, <2>6, <4>3
    <3> QED BY <3>2, <3>3
  <2>8. \A f \in Nat : Mark(s, f)' => Mark(s, f)
    BY <2>1 DEF Mark
  <2>9. ~JustHeard(s)
    BY <2>1 DEF JustHeard
  <2> QED BY <2>6, <2>7, <2>8, <2>9
<1>12. CASE JoinPrefetch \/ SettleAlone
  <2>1. PICK result : Settle(result)
    BY <1>12 DEF JoinPrefetch, SettleAlone
  <2>2. LoopStep /\ Starting
    BY <1>12 DEF LoopStep, JoinPrefetch, SettleAlone, Starting
  <2>3. \A f \in Nat : (Held(s, f) => Held(s, f)') /\ (JustHeard(s) => Held(s, f)')
    BY <1>4, <2>1, <2>2, SettleHolds
  <2>4. skipFor' = NoItem /\ UNCHANGED heard
    BY <2>1 DEF Settle, auxVars
  <2> QED BY <1>4, <2>3, <2>4 DEF Mark
<1>13. CASE LoopRaises
  <2>1. /\ UNCHANGED <<items, history, heard>> /\ lpc = "raise" /\ skipFor' = NoItem
        /\ lost' = IF song.played THEN lost \cup {song.song} ELSE lost
    BY <1>13 DEF LoopRaises, memory
  <2>2. \A f \in Nat : ~InLoop(s, f)
    BY <2>1 DEF InLoop, Owes
  <2>3. \A f \in Nat : InDeque(s, f) => InDeque(s, f)'
    BY <2>1 DEF InDeque
  <2>4. \A f \in Nat, p \in Procs : Carried(p, s, f) => Carried(p, s, f)'
    BY <1>13, LoopCarries DEF LoopStep
  <2>5. \A f \in Nat : Held(s, f) => Held(s, f)'
    BY <2>1, <2>2, <2>3, <2>4 DEF Held
  <2> QED BY <2>1, <2>5 DEF Mark, JustHeard
<1>14. CASE SongRetired
  <2>1. /\ op[Loop].phase = "done" /\ Same(Loop) /\ Flush(op[Loop].arg)
        /\ UNCHANGED <<items, heard>> /\ lpc = "retire" /\ skipFor' \in {skipFor, NoItem}
    BY <1>14, ReturnFacts DEF SongRetired, LoopInv, memory, auxVars
  <2>2. \A f \in Nat : InDeque(s, f) => InDeque(s, f)'
    BY <2>1 DEF InDeque
  <2>3. \A f \in Nat : ~InLoop(s, f)
    BY <2>1 DEF InLoop, Starting
  <2>4. \A f \in Nat : Held(s, f) => Held(s, f)'
    BY <1>4, <2>1, <2>2, <2>3, HeldFlushed
  <2>5. \A f \in Nat : Mark(s, f)' => Mark(s, f)
    BY <2>1 DEF Mark
  <2> QED BY <2>1, <2>4, <2>5 DEF JustHeard
<1> QED BY <1>6, <1>7, <1>8, <1>9, <1>10, <1>11, <1>12, <1>13, <1>14 DEF LoopStep

\* An entry that comes back resolved is as much owed as before.
LEMMA ResolvedHolds ==
    ASSUME LoopInv, NEW s, NEW f, InDeque(s, f), DOMAIN items' = DOMAIN items,
           \A k \in DOMAIN items : items'[k] \in {items[k], Resolved(items[k])}
    PROVE  InDeque(s, f)'
<1>1. PICK k \in DOMAIN items : Owes(items[k], s, f)
  BY DEF InDeque
<1>2. items[k] \in Item
  BY <1>1, DequeFacts, ElementOfSeq, LenProperties DEF LoopInv
<1>3. /\ Resolved(items[k]).song = items[k].song /\ Resolved(items[k]).frag = items[k].frag
      /\ Resolved(items[k]).played = items[k].played
  BY <1>2 DEF Resolved, Item
<1>4. items'[k].song = items[k].song /\ items'[k].frag = items[k].frag
        /\ items'[k].played = items[k].played
  BY <1>1, <1>3
<1>5. k \in DOMAIN items' /\ Owes(items'[k], s, f)
  BY <1>1, <1>4 DEF Owes
<1> QED BY <1>5 DEF InDeque

\* The prefetch: what it gives back is in the deque all along, and the one call it can be
\* cut off in has what it carries counted as lost.
LEMMA PrefetchKeepsHeard ==
    ASSUME LoopInv, TypeInv, TypeInv', HeadOK, LeakOK, HeardOK, PrefetchStep \/ PrefetchRetired
    PROVE  HeardOK'
<1> USE Callers
<1>1. (leaked => leaked') /\ lost \subseteq lost' /\ leaked \in BOOLEAN
  BY DEF PrefetchStep, PrefetchClaims, PrefetchStreams, PrefetchFails, PrefetchCancelled,
         PrefetchRetired, PrefetchUnchanged, Strand, TypeInv, RecordOK
<1>2. heard' \subseteq Songs
  BY DEF TypeInv, RecordOK
<1>3. /\ Same(Prefetch) /\ UNCHANGED <<lpc, song, skipFor, voice, heard>>
  BY PrefetchAside
     DEF PrefetchStep, PrefetchClaims, PrefetchStreams, PrefetchFails, PrefetchCancelled,
         PrefetchRetired, PrefetchUnchanged, loopVars
<1>4. SUFFICES ASSUME ~leaked', NEW s \in Songs \ lost', NEW f \in Nat, Held(s, f) PROVE Held(s, f)'
  <2>1. \A s \in Songs \ lost' : JustHeard(s) => JustHeard(s)'
    BY <1>3 DEF JustHeard
  <2>2. \A s \in Songs \ lost' : \A f \in Nat : Mark(s, f)' => Mark(s, f)
    BY <1>3 DEF Mark
  <2> QED BY <1>1, <1>2, <1>3, <2>1, <2>2, HeardMoves
<1>5. s \in Songs /\ stranded = 0
  BY <1>1, <1>4 DEF LeakOK, LoopInv, ClientInv, ClientOK
<1>6. InDeque(s, f) => InDeque(s, f)'
  <2>1. CASE UNCHANGED items
    BY <2>1 DEF InDeque
  <2>2. CASE /\ pf.cancel /\ pf.pc = "streaming"
             /\ \E form \in {pf.item, Resolved(pf.item)} : GiveBack(form)
    <3>1. pf.item \in Item
      BY <2>2 DEF LoopInv, ClientInv, InHandOK
    <3>2. /\ DOMAIN items' = DOMAIN items
          /\ \A k \in DOMAIN items : items'[k] \in {items[k], Resolved(items[k])}
      BY <1>5, <2>2, <3>1, GiveBackResolves
    <3> QED BY <3>2, ResolvedHolds
  <2> QED BY <2>1, <2>2, PrefetchAside
<1>7. InLoop(s, f) => InLoop(s, f)'
  BY <1>3 DEF InLoop, Starting
<1>8. CASE PrefetchRetired
  <2>1. op[Prefetch].phase = "done" /\ Flush(op[Prefetch].arg)
    BY <1>8, ReturnFacts DEF PrefetchRetired, LoopInv
  <2> QED BY <1>3, <1>4, <1>5, <1>6, <1>7, <2>1, HeldFlushed
<1>9. CASE PrefetchStep
  <2>1. UNCHANGED history
    BY <1>9 DEF PrefetchStep, PrefetchClaims, PrefetchStreams, PrefetchFails, PrefetchCancelled
  <2>2. \A q \in Procs : q # Prefetch /\ Carried(q, s, f) => Carried(q, s, f)'
    BY <1>3, OthersCarry
  <2>3. Carried(Prefetch, s, f) => Carried(Prefetch, s, f)'
    <3>1. SUFFICES ASSUME Carried(Prefetch, s, f) PROVE Carried(Prefetch, s, f)'
      OBVIOUS
    <3>2. ASSUME NEW name, NEW arg, NEW gen, Call(Prefetch, name, arg, gen) PROVE FALSE
      BY <3>1, <3>2 DEF Call, Carried, Putting, PutNames, Leaves, Idle
    <3>3. ASSUME Abandon(Prefetch), PrefetchCancelled, pf.pc = "retiring" PROVE FALSE
      <4>1. op[Prefetch].arg = <<pf.item>>
        BY <3>3 DEF TypeInv, ArgsOK
      <4>2. DOMAIN <<pf.item>> = {1} /\ <<pf.item>>[1] = pf.item
        OBVIOUS
      <4>3. pf.item.song = s /\ pf.item.played
        BY <3>1, <4>1, <4>2 DEF Carried, Owes
      <4>4. lost' = IF pf.item.played THEN lost \cup {pf.item.song} ELSE lost
        BY <3>3 DEF PrefetchCancelled
      <4> QED BY <1>4, <4>3, <4>4
    <3>4. UNCHANGED op
      BY <1>9, <3>2, <3>3
         DEF PrefetchStep, PrefetchClaims, PrefetchStreams, PrefetchFails, PrefetchCancelled, queueVars
    <3> QED BY <3>1, <3>4 DEF Carried, Putting, Leaves
  <2> QED BY <1>4, <1>6, <1>7, <2>1, <2>2, <2>3 DEF Held
<1> QED BY <1>8, <1>9

\* The queue: whatever is owed goes into the deque, stays there, or comes out with the call.
LEMMA QueueKeepsHeard ==
    ASSUME LoopInv, TypeInv, TypeInv', HeadOK, OwedOK, LeakOK, HeardOK, NEW p \in Procs, QueueStep(p)
    PROVE  HeardOK'
<1> USE Callers
<1>1. UNCHANGED <<leaked, lost, heard, lpc, song, skipFor, voice, history>>
  BY DEF QueueStep, loopVars
<1>2. heard' \subseteq Songs
  BY DEF TypeInv, RecordOK
<1>3. SUFFICES ASSUME ~leaked', NEW s \in Songs \ lost', NEW f \in Nat, Held(s, f) PROVE Held(s, f)'
  <2>1. \A s \in Songs \ lost' : JustHeard(s) => JustHeard(s)'
    BY <1>1 DEF JustHeard
  <2>2. \A s \in Songs \ lost' : \A f \in Nat : Mark(s, f)' => Mark(s, f)
    BY <1>1 DEF Mark
  <2> QED BY <1>1, <1>2, <2>1, <2>2, HeardMoves
<1>4. s \in Songs /\ stranded = 0
  BY <1>1, <1>3 DEF LeakOK, LoopInv, ClientInv, ClientOK
<1>5. InLoop(s, f) => InLoop(s, f)'
  BY <1>1 DEF InLoop, Starting
<1>6. ASSUME Same(p), InDeque(s, f) => InDeque(s, f)' \/ Carried(p, s, f)',
             Carried(p, s, f) => InDeque(s, f)' \/ Carried(p, s, f)'
      PROVE  Held(s, f)'
  <2>1. \A q \in Procs : q # p /\ Carried(q, s, f) => Carried(q, s, f)'
    BY <1>6, OthersCarry
  <2> QED BY <1>1, <1>3, <1>5, <1>6, <2>1 DEF Held
<1>7. ASSUME NEW todo, NEW result, Proceed(p, todo, result)
      PROVE  Same(p) /\ Leaves(p)' /\ op'[p].arg = result
  BY <1>7, ProceedFacts, ProceedArg DEF LoopInv, Leaves
<1>8. ASSUME NEW name, Holds(p, name) PROVE ~Leaves(p) /\ (name \notin PutNames => ~Carried(p, s, f))
  BY <1>8 DEF Holds, Leaves, Carried, Putting
<1>9. CASE EnterPut(p) \/ EnterPutFront(p)
  <2>1. Same(p)
    BY <1>7, <1>9 DEF EnterPut, EnterPutFront
  <2>2. /\ \A k \in DOMAIN items : \E j \in DOMAIN items' : items'[j] = items[k]
        /\ \A k \in DOMAIN op[p].arg : \E j \in DOMAIN items' : items'[j] = op[p].arg[k]
    BY <1>9, PutGoes DEF LoopInv
  <2>3. InDeque(s, f) => InDeque(s, f)'
    BY <2>2 DEF InDeque
  <2>4. Carried(p, s, f) => InDeque(s, f)'
    BY <2>2 DEF Carried, InDeque
  <2> QED BY <1>6, <2>1, <2>3, <2>4
<1>10. CASE EnterShuffle(p) \/ EnterRemove(p)
  <2>1. Same(p) /\ Leaves(p)'
    BY <1>7, <1>10 DEF EnterShuffle, EnterRemove
  <2>2. ~Carried(p, s, f)
    BY <1>8, <1>10 DEF EnterShuffle, EnterRemove, PutNames
  <2>3. \A k \in DOMAIN items : \/ \E j \in DOMAIN items' : items'[j] = items[k]
                                \/ \E j \in DOMAIN op'[p].arg : op'[p].arg[j] = items[k]
    BY <1>10, PartGoes DEF LoopInv
  <2>4. InDeque(s, f) => InDeque(s, f)' \/ Carried(p, s, f)'
    BY <2>1, <2>3 DEF InDeque, Carried
  <2> QED BY <1>6, <2>1, <2>2, <2>4
<1>11. CASE EnterClear(p)
  <2>1. Same(p) /\ Leaves(p)' /\ op'[p].arg = items
    BY <1>7, <1>11 DEF EnterClear
  <2>2. ~Carried(p, s, f)
    BY <1>8, <1>11 DEF EnterClear, PutNames
  <2>3. InDeque(s, f) => Carried(p, s, f)'
    BY <2>1 DEF InDeque, Carried
  <2> QED BY <1>6, <2>1, <2>2, <2>3
<1>12. CASE EnterFinishFailed(p)
  <2>1. Same(p) /\ Leaves(p)' /\ op'[p].arg = op[p].arg
    BY <1>7, <1>12 DEF EnterFinishFailed
  <2>2. ~Carried(p, s, f)
    BY <1>8, <1>12 DEF EnterFinishFailed, PutNames
  <2>3. CASE cursor = 0
    <3>1. UNCHANGED items
      BY <1>12, <2>3 DEF EnterFinishFailed
    <3>2. InDeque(s, f) => InDeque(s, f)'
      BY <3>1 DEF InDeque
    <3> QED BY <1>6, <2>1, <2>2, <3>2
  <2>4. CASE cursor # 0
    <3>1. cursor > 0 /\ items' = Tail(items) /\ Holds(p, "finishFailed")
      BY <1>12, <2>4, Numbers DEF EnterFinishFailed, Release, LoopInv
    <3>2. PICK i : HeadIs(i) /\ op[p].arg = <<i>>
      BY <1>4, <3>1, RetiresHead DEF TypeInv
    <3>3. items[1] \in Item
      BY <3>1, <3>2, SettledHead DEF LoopInv
    <3>4. i.song = items[1].song /\ i.frag = items[1].frag /\ i.played = items[1].played
      <4>1. /\ Resolved(items[1]).song = items[1].song /\ Resolved(items[1]).frag = items[1].frag
            /\ Resolved(items[1]).played = items[1].played
        BY <3>3 DEF Resolved, Item
      <4> QED BY <3>2, <4>1 DEF HeadIs
    <3>5. 1 \in DOMAIN <<i>> /\ <<i>>[1] = i
      OBVIOUS
    <3>6. Owes(items[1], s, f) => Carried(p, s, f)'
      <4>1. Owes(items[1], s, f) => Owes(i, s, f)
        BY <3>4 DEF Owes
      <4> QED BY <2>1, <3>2, <3>5, <4>1 DEF Carried
    <3>7. ASSUME NEW k \in DOMAIN items, k # 1, Owes(items[k], s, f) PROVE InDeque(s, f)'
      <4>1. k - 1 \in DOMAIN items' /\ items'[k - 1] = items[k]
        BY <3>1, <3>7, TailKeeps DEF LoopInv
      <4> QED BY <3>7, <4>1 DEF InDeque
    <3>8. InDeque(s, f) => InDeque(s, f)' \/ Carried(p, s, f)'
      BY <3>6, <3>7 DEF InDeque
    <3> QED BY <1>6, <2>1, <2>2, <3>8
  <2> QED BY <2>3, <2>4
<1>13. CASE Write(p) \/ WriteFails(p)
  <2>1. op[p].phase = "store" /\ (\E todo : Issued(p, todo)) /\ UNCHANGED items
    BY <1>13 DEF Write, WriteFails, memory
  <2>2. Same(p) /\ op'[p].arg = op[p].arg /\ Leaves(p)'
    BY <2>1, IssuedFacts, IssuedArg DEF LoopInv, Leaves
  <2>3. InDeque(s, f) => InDeque(s, f)'
    BY <2>1 DEF InDeque
  <2>4. Carried(p, s, f) => Carried(p, s, f)'
    BY <2>2 DEF Carried
  <2> QED BY <1>6, <2>2, <2>3, <2>4
<1> QED BY <1>9, <1>10, <1>11, <1>12, <1>13 DEF QueueStep, EnterMutation

\* A tail is cut once more than its song, and was heard if the song was or has started.
LEMMA ParkedCuts ==
    ASSUME NEW i \in Item
    PROVE  /\ Parked(i).frag = i.frag + 1
           /\ Parked(i).played <=> i.played \/ ~NotStarted
<1> DEFINE heardNow == i.played \/ ~NotStarted
           whole == [i EXCEPT !.form = "song"]
           cut == [whole EXCEPT !.frag = i.frag + 1]
<1>1. Parked(i) = [cut EXCEPT !.played = heardNow]
  BY DEF Parked, Item
<1>2. whole \in Item
  BY DEF Item, Forms
<1>3. heardNow <=> i.played \/ ~NotStarted
  OBVIOUS
<1> HIDE DEF whole, heardNow
<1>4. cut.frag = i.frag + 1 /\ DOMAIN cut = {"song", "form", "frag", "played"}
  BY <1>2 DEF Item
<1> HIDE DEF cut
<1>5. Parked(i).frag = i.frag + 1 /\ Parked(i).played = heardNow
  BY <1>1, <1>4
<1> QED BY <1>3, <1>5

\* An interjection that marks the song puts its tail into the call, or nobody had heard it.
LEMMA MarksWithTail ==
    ASSUME LoopInv, CurrentOK, NEW u \in Users, UserStep(u) \/ Finish(u) \/ Inserted(u),
           skipFor' # skipFor
    PROVE  /\ song \in Item /\ skipFor' = song
           /\ Putting(u)' /\ 2 \in DOMAIN op'[u].arg /\ op'[u].arg[2] = Parked(song)
           /\ lost' = IF NotStarted /\ ~song.played THEN lost \cup {song.song} ELSE lost
<1> USE Callers DEF LoopInv, ClientInv
<1>1. current # NoItem /\ \E q : Insert(u, q, current)
  <2>1. CASE Interject(u)
    BY <2>1 DEF Interject, FallBack
  <2>2. CASE InterjectCancelled(u)
    <3>1. user[u].target \in Item
      BY <2>2 DEF InterjectCancelled, InHandOK
    <3> QED BY <2>2, <3>1 DEF InterjectCancelled, FallBack
  <2> QED BY <2>1, <2>2
          DEF UserStep, Play, Playlist, PlayFront, PlayNow, CutIn, Enqueue, ResolveFirst, Bulk,
              BulkCancelled, Skip, CutInTooLate, Finish, Inserted, loopVars
<1>2. current = song /\ song \in Item
  BY <1>1 DEF CurrentOK, ClientOK, MaybeItem
<1>3. PICK q : Insert(u, q, song)
  BY <1>1, <1>2
<1>4. /\ skipFor' = song
      /\ lost' = IF NotStarted /\ ~song.played THEN lost \cup {song.song} ELSE lost
      /\ Call(u, "putFront", <<q, Parked(song)>>, 0)
  BY <1>3 DEF Insert
<1>5. Putting(u)' /\ op'[u].arg = <<q, Parked(song)>>
  BY <1>4, CallFacts, CallArg DEF Putting, PutNames
<1>6. 2 \in DOMAIN <<q, Parked(song)>> /\ <<q, Parked(song)>>[2] = Parked(song)
  OBVIOUS
<1> QED BY <1>2, <1>4, <1>5, <1>6

\* The commands: an interjection moves a play from the loop into its call, -clear and -remove
\* write the rows of what they took, and a put has put what it carried.
LEMMA UserKeepsHeard ==
    ASSUME LoopInv, TypeInv, TypeInv', HeadOK, HandsOK, HeardOK, NEW u \in Users,
           UserStep(u) \/ Finish(u) \/ Inserted(u)
    PROVE  HeardOK'
<1> USE Callers
<1>0. LeakOK /\ CurrentOK /\ InsertOK
  BY DEF HandsOK
<1>1. UNCHANGED <<leaked, heard>> /\ lost \subseteq lost'
  BY DEF UserStep, Play, Playlist, PlayFront, PlayNow, CutIn, Enqueue, ResolveFirst, Bulk,
         BulkCancelled, Skip, CutInTooLate, Interject, InterjectCancelled, Finish, Inserted,
         Insert, FallBack, auxVars
<1>2. heard' \subseteq Songs
  BY DEF TypeInv, RecordOK
<1>3. Same(u) /\ UNCHANGED <<lpc, song, current>>
  BY UserAside DEF LoopInv
<1>4. ASSUME NEW s \in Songs \ lost', NEW f \in Nat, skipFor' # skipFor,
             s = song.song, f <= song.frag, song.played \/ f = song.frag
      PROVE  Held(s, f)'
  <2>1. /\ song \in Item /\ Putting(u)' /\ 2 \in DOMAIN op'[u].arg /\ op'[u].arg[2] = Parked(song)
        /\ lost' = IF NotStarted /\ ~song.played THEN lost \cup {song.song} ELSE lost
    BY <1>0, <1>4, MarksWithTail
  <2>2. Parked(song).song = s
    BY <1>4, <2>1, ParkedTail
  <2>3. song.frag \in Nat
    BY <2>1 DEF Item
  <2>4. Parked(song).frag > f
    <3>1. Parked(song).frag = song.frag + 1
      BY <2>1, ParkedCuts
    <3> QED BY <1>4, <2>3, <3>1
  <2>5. Parked(song).played
    BY <1>4, <2>1, ParkedCuts
  <2>6. Owes(op'[u].arg[2], s, f)
    BY <2>1, <2>2, <2>4, <2>5 DEF Owes
  <2>7. Carried(u, s, f)'
    BY <2>1, <2>6 DEF Carried
  <2> QED BY <2>7 DEF Held
<1>5. ASSUME NEW s \in Songs, JustHeard(s) PROVE JustHeard(s)'
  <2>1. current = NoItem
    BY <1>0, <1>5 DEF CurrentOK, JustHeard
  <2>2. UNCHANGED skipFor
    BY <1>0, <2>1, UserMarks
  <2>3. voice' = "ended"
    BY <1>5 DEF JustHeard, UserStep, Play, Playlist, PlayFront, PlayNow, CutIn, Enqueue,
         ResolveFirst, Bulk, BulkCancelled, Skip, CutInTooLate, Interject, InterjectCancelled,
         Finish, Inserted, loopVars
  <2> QED BY <1>3, <1>5, <2>2, <2>3 DEF JustHeard
<1>6. ASSUME NEW s \in Songs \ lost', NEW f \in Nat, Mark(s, f)'
      PROVE  Mark(s, f) \/ Held(s, f)'
  <2>1. CASE skipFor' = skipFor
    BY <1>6, <2>1 DEF Mark
  <2>2. CASE skipFor' # skipFor
    <3>1. skipFor' = song
      BY <1>0, <2>2, MarksWithTail
    <3>2. song.song = s /\ song.frag = f
      BY <1>3, <1>6, <3>1 DEF Mark
    <3> QED BY <1>4, <1>6, <2>2, <3>2
  <2> QED BY <2>1, <2>2
<1>7. ASSUME ~leaked', NEW s \in Songs \ lost', NEW f \in Nat, Held(s, f)
      PROVE  Held(s, f)'
  <2>1. s \in Songs /\ stranded = 0
    BY <1>0, <1>1, <1>7 DEF LeakOK, LoopInv, ClientInv, ClientOK
  <2>2. InDeque(s, f) => InDeque(s, f)'
    <3>1. CASE UNCHANGED items
      BY <3>1 DEF InDeque
    <3>2. CASE pfRef /\ pf.pc = "done" /\ pf.item \in Item /\ GiveBack(pf.item)
      <4>1. /\ DOMAIN items' = DOMAIN items
            /\ \A k \in DOMAIN items : items'[k] \in {items[k], Resolved(items[k])}
        BY <2>1, <3>2, GiveBackResolves
      <4> QED BY <4>1, ResolvedHolds
    <3> QED BY <3>1, <3>2, UserItems
  <2>3. InLoop(s, f) => Held(s, f)'
    <3>1. CASE skipFor' = skipFor
      BY <1>3, <3>1 DEF InLoop, Starting, Held
    <3>2. ASSUME skipFor' # skipFor, InLoop(s, f) PROVE Held(s, f)'
      <4>1. song \in Item /\ s = song.song /\ song.played /\ song.frag > f
        BY <1>0, <3>2, MarksWithTail DEF InLoop, Owes
      <4>2. song.frag \in Nat /\ f <= song.frag
        <5>1. song.frag \in Nat
          BY <4>1 DEF Item
        <5> QED BY <1>7, <4>1, <5>1
      <4> QED BY <1>4, <1>7, <3>2, <4>1, <4>2
    <3> QED BY <3>1, <3>2
  <2>4. \A q \in Procs : q # u /\ Carried(q, s, f) => Carried(q, s, f)'
    BY <1>3, OthersCarry
  <2>5. CASE Finish(u)
    <3>1. op[u].phase = "done" /\ Flush(op[u].arg) /\ UNCHANGED skipFor
      BY <2>5, ReturnFacts DEF Finish, LoopInv, loopVars
    <3>2. InLoop(s, f) => InLoop(s, f)'
      BY <1>3, <3>1 DEF InLoop, Starting
    <3> QED BY <1>3, <1>7, <2>1, <2>2, <3>1, <3>2, HeldFlushed
  <2>6. CASE UserStep(u) \/ Inserted(u)
    <3>1. UNCHANGED history
      BY <2>6 DEF UserStep, Play, Playlist, PlayFront, PlayNow, CutIn, Enqueue, ResolveFirst, Bulk,
             BulkCancelled, Skip, CutInTooLate, Interject, InterjectCancelled, Inserted
    <3>2. Carried(u, s, f) => Carried(u, s, f)'
      <4>1. SUFFICES ASSUME Carried(u, s, f) PROVE Carried(u, s, f)'
        OBVIOUS
      <4>2. ASSUME NEW name, NEW arg, NEW gen, Call(u, name, arg, gen) PROVE FALSE
        BY <4>1, <4>2 DEF Call, Carried, Putting, PutNames, Leaves, Idle
      <4>3. ASSUME Inserted(u) PROVE FALSE
        <5>1. op[u].name \in PutNames /\ Leaves(u)
          BY <1>0, <4>3 DEF Inserted, InsertOK, Return, Leaves, PutNames
        <5>2. op[u].arg = <<>>
          BY <1>0, <5>1 DEF InsertOK
        <5> QED BY <4>1, <5>2 DEF Carried
      <4>4. UNCHANGED op
        BY <2>6, <4>2, <4>3
           DEF UserStep, Play, Playlist, PlayFront, PlayNow, CutIn, Enqueue, ResolveFirst, Bulk,
               BulkCancelled, Skip, CutInTooLate, Interject, InterjectCancelled, Insert, FallBack,
               queueVars
      <4> QED BY <4>1, <4>4 DEF Carried, Putting, Leaves
    <3> QED BY <1>7, <2>2, <2>3, <2>4, <3>1, <3>2 DEF Held
  <2> QED BY <2>5, <2>6
<1> QED BY <1>1, <1>2, <1>5, <1>6, <1>7, HeardMoves

\* Every step of the player keeps every heard play with its row or on its way to one.
LEMMA HeardStepwise ==
    LoopInv /\ TypeInv /\ HeadOK /\ OwedOK /\ HandsOK /\ HeardOK /\ [LoopNext]_vars => HeardOK'
<1> SUFFICES ASSUME LoopInv, TypeInv, HeadOK, OwedOK, HandsOK, HeardOK, [LoopNext]_vars
             PROVE  HeardOK'
  OBVIOUS
<1>1. TypeInv' /\ LeakOK
  BY TypesStepwise DEF HandsOK
<1>2. CASE UNCHANGED vars
  <2>1. /\ UNCHANGED <<items, op, history, heard, lost, leaked, lpc, song, skipFor, voice>>
        /\ heard' \subseteq Songs
    BY <1>1, <1>2 DEF vars, queueVars, memory, loopVars, auxVars, TypeInv, RecordOK
  <2>2. \A s \in Songs : JustHeard(s) => JustHeard(s)'
    BY <2>1 DEF JustHeard
  <2>3. \A s \in Songs, f \in Nat : Mark(s, f)' => Mark(s, f)
    BY <2>1 DEF Mark
  <2>4. \A s \in Songs, f \in Nat : Held(s, f) => Held(s, f)'
    BY <2>1 DEF Held, InDeque, Carried, Putting, Leaves, InLoop, Starting
  <2> QED BY <2>1, <2>2, <2>3, <2>4, HeardMoves
<1>3. CASE LoopStep \/ SongRetired \/ SongEnds
  BY <1>1, <1>3, LoopKeepsHeard
<1>4. CASE PrefetchStep \/ PrefetchRetired
  BY <1>1, <1>4, PrefetchKeepsHeard
<1>5. ASSUME NEW u \in Users, UserStep(u) \/ Finish(u) \/ Inserted(u)
      PROVE  HeardOK'
  BY <1>1, <1>5, UserKeepsHeard
<1>6. ASSUME NEW p \in Procs, QueueStep(p)
      PROVE  HeardOK'
  BY <1>1, <1>6, QueueKeepsHeard
<1> QED BY <1>2, <1>3, <1>4, <1>5, <1>6 DEF LoopNext, Caller

\* At the start nothing was heard.
LEMMA HeardInitially == LoopInit => HeardOK
BY DEF LoopInit, HeardOK, Mark

\* What is owed is in somebody's hand.
LEMMA HeldInHand ==
    ASSUME LoopInv, TypeInv, NEW s \in Songs, Held(s, 0) \/ JustHeard(s)
    PROVE  history[s] >= 1 \/ InHand(s)
<1> USE Callers
<1> DEFINE held == {items, <<song>>, <<prefetched>>, <<pf.item>>} \cup {op[p].arg : p \in Procs}
<1>1. ASSUME NEW q \in held, NEW k \in DOMAIN q, q[k] \in Item, q[k].song = s PROVE InHand(s)
  <2>1. q[k] # NoItem
    BY <1>1
  <2> QED BY <1>1, <2>1 DEF InHand
<1>2. CASE history[s] >= 1
  BY <1>2
<1>3. CASE InDeque(s, 0)
  <2>1. PICK k \in DOMAIN items : items[k].song = s
    BY <1>3 DEF InDeque, Owes
  <2>2. items[k] \in Item
    BY <2>1, DequeFacts, ElementOfSeq, LenProperties DEF LoopInv
  <2>3. items \in held
    OBVIOUS
  <2> QED BY <1>1, <2>1, <2>2, <2>3
<1>4. ASSUME NEW p \in Procs, Carried(p, s, 0) PROVE InHand(s)
  <2>1. PICK k \in DOMAIN op[p].arg : op[p].arg[k].song = s
    BY <1>4 DEF Carried, Owes
  <2>2. op[p].arg \in Seq(Item)
    BY LockFacts DEF LoopInv, Operation
  <2>3. op[p].arg[k] \in Item
    BY <2>1, <2>2, ElementOfSeq, LenProperties
  <2>4. op[p].arg \in held
    OBVIOUS
  <2> QED BY <1>1, <2>1, <2>3, <2>4
<1>5. ASSUME Starting, song.song = s PROVE InHand(s)
  <2>1. song \in Item
    BY <1>5 DEF Starting, TypeInv, RecordOK
  <2>2. <<song>> \in held /\ 1 \in DOMAIN <<song>> /\ <<song>>[1] = song
    OBVIOUS
  <2> QED BY <1>1, <1>5, <2>1, <2>2
<1> HIDE DEF held
<1>6. InLoop(s, 0) \/ JustHeard(s) => InHand(s)
  BY <1>5 DEF InLoop, Owes, JustHeard, Starting
<1> QED BY <1>2, <1>3, <1>4, <1>6 DEF Held

\* For any songs, users, commands and faults: at most one row for a play, and for a play
\* that was heard a row or somebody who still has it in hand.
THEOREM HistoryKept == PlaybackSpec => []HistoryAccounted
<1>1. LoopInv /\ TypeInv /\ HeardOK => PlaysAccounted
  <2>1. SUFFICES ASSUME LoopInv, TypeInv, HeardOK, ~leaked, NEW s \in heard \ lost
                 PROVE  history[s] >= 1 \/ InHand(s)
    BY DEF PlaysAccounted
  <2>2. s \in Songs
    BY <2>1 DEF TypeInv, RecordOK
  <2>3. Held(s, 0) \/ JustHeard(s)
    BY <2>1 DEF HeardOK
  <2> QED BY <2>1, <2>2, <2>3, HeldInHand
<1>2. PlaybackSpec => []HeardOK
  BY PlaybackInvariants, HeardInitially, HeardStepwise, PTL DEF PlaybackSpec
<1>3. RecordedOnce /\ PlaysAccounted => HistoryAccounted
  BY DEF HistoryAccounted
<1> QED BY <1>1, <1>2, <1>3, PlaybackInvariants, RecordedAtMostOnce, PTL
==============================================================================
