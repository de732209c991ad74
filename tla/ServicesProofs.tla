-------------------------- MODULE ServicesProofs --------------------------
(***************************************************************************)
(* The other services, and all of them together.                             *)
(*                                                                         *)
(* The two mechanisms of recovery.py, for any number of tasks.  The lock: what  *)
(* makes its invariant inductive is what a release knows before EXEC: it has     *)
(* compared, so the key still holds its token unless it has been touched.  The   *)
(* alone watchdog: the countdown that tears the player down emptied the guild's  *)
(* slot of itself before its first await, and nobody puts it back, so that what   *)
(* comes for a player registered meanwhile finds another countdown or none.       *)
(*                                                                         *)
(* The process pool, for any number of extractions, closers and dying workers:    *)
(* executors are numbered as they are built, so one that was replaced never comes  *)
(* back, which is what makes a retry's second executor differ from its first; and  *)
(* until the pool is closed only the published one can be whole.                 *)
(*                                                                         *)
(* The archive's connection pool, for any number of callers: who can have          *)
(* connections open is the published pool, the one its builder has in hand, or the *)
(* one close() took, and no two of the three exist at once.                       *)
(*                                                                         *)
(* The dashboard, for any number of probes: what was given up is cancelled, and     *)
(* the message shows the last render unless an edit failed.                       *)
(*                                                                         *)
(* Their composition: every behaviour of MCSpec is one of each service's own        *)
(* specification, so what was proved of each holds of the whole.                   *)
(***************************************************************************)
EXTENDS MCServices, CacheProofs, FiniteSetTheorems

-----------------------------------------------------------------------------
(* Recovery: its lock and the alone watchdog.                               *)

\* After the comparison the key is the task's own, or EXEC will abort.
MatchedIsOwn ==
    \A t \in Tasks : step[t] = "matched" /\ t \notin touched => lockValue = t

LockInv == LockTypeOK /\ HolderKeepsLock /\ MatchedIsOwn

\* An unlocked guild with no task under way satisfies the invariant.
LEMMA LockInitially == LockInit => LockInv
BY LockAssumption DEF LockInit, LockInv, LockTypeOK, LockSteps, HolderKeepsLock, MatchedIsOwn

\* Every command of every task, every failure and every expiry keeps it.
LEMMA LockStepwise == LockInv /\ [LockNext]_lockVars => LockInv'
<1> SUFFICES ASSUME LockInv, [LockNext]_lockVars PROVE LockInv'
  OBVIOUS
<1> USE LockAssumption DEF LockInv, LockTypeOK, LockSteps, HolderKeepsLock, MatchedIsOwn
<1>1. ASSUME NEW t \in Tasks, Acquires(t) PROVE LockInv'
  BY <1>1 DEF Acquires, SetsLock, Steps
<1>2. ASSUME NEW t \in Tasks, AcquireFails(t) PROVE LockInv'
  <2>1. CASE UNCHANGED <<lockValue, touched>>
    BY <1>2, <2>1 DEF AcquireFails, Steps
  <2>2. CASE lockValue = Absent /\ SetsLock(t)
    BY <1>2, <2>2 DEF AcquireFails, SetsLock, Steps
  <2> QED BY <1>2, <2>1, <2>2 DEF AcquireFails
<1>3. ASSUME NEW t \in Tasks, ReleaseWatches(t) PROVE LockInv'
  BY <1>3 DEF ReleaseWatches, Steps
<1>4. ASSUME NEW t \in Tasks, ReleaseReads(t) PROVE LockInv'
  BY <1>4 DEF ReleaseReads, Steps
<1>5. ASSUME NEW t \in Tasks, ReleaseDeletes(t) PROVE LockInv'
  <2>1. CASE t \in touched
    BY <1>5, <2>1 DEF ReleaseDeletes, Steps
  <2>2. CASE t \notin touched
    <3>1. lockValue = t
      BY <1>5, <2>2 DEF ReleaseDeletes
    <3> QED BY <1>5, <2>2, <3>1 DEF ReleaseDeletes, SetsLock, Steps
  <2> QED BY <2>1, <2>2
<1>6. ASSUME NEW t \in Tasks, ReleaseFails(t) PROVE LockInv'
  BY <1>6 DEF ReleaseFails, Steps
<1>7. CASE LockExpires
  BY <1>7 DEF LockExpires, SetsLock
<1>8. CASE UNCHANGED lockVars
  BY <1>8 DEF lockVars
<1> QED
  BY <1>1, <1>2, <1>3, <1>4, <1>5, <1>6, <1>7, <1>8 DEF LockNext

\* For any number of tasks, expiries, failures and deaths: whoever restores under a
\* lock that has not run out holds it (restore_guild(), release_recovery_lock()).
THEOREM LockKept == LockSpec => []HolderKeepsLock
<1>1. LockInv => HolderKeepsLock
  BY DEF LockInv
<1> QED
  BY LockInitially, LockStepwise, <1>1, PTL DEF LockSpec
-----------------------------------------------------------------------------
\* The slot and the countdowns in it.  One that tears the player down is not in the slot,
\* where others would find it to cancel, and one that is cancelled neither.
SlotInv ==
    /\ timer \in Timers \cup {NoTimer} /\ (timer # NoTimer => Alive(timer))
    /\ phase \in [Timers -> Phases]
    /\ cancelled \subseteq Timers
    /\ \A t \in cancelled : timer # t /\ phase[t] \in {"new", "notice", "asleep"}
    /\ timer # NoTimer => phase[timer] \notin {"leaving", "clearing"}

\* There is no countdown before the first event.
LEMMA WatchdogInitially == WatchdogInit => SlotInv
BY DEF WatchdogInit, SlotInv, Phases, Alive

\* What cancel() does keeps it, whoever calls, as long as the phases stay.
LEMMA CancelKeeps ==
    ASSUME SlotInv, NEW t \in Timers \cup {NoTimer}, Cancels(t), UNCHANGED phase
    PROVE  SlotInv'
<1>1. NoTimer \notin Timers
  BY WatchdogAssumption DEF NoTimer, Timers
<1> QED BY <1>1 DEF SlotInv, Cancels, Alive, Phases

\* Every handler keeps it: a countdown enters the slot only as it is created.
LEMMA HandlersKeep == ASSUME SlotInv, Handles PROVE SlotInv'
<1>0. NoTimer \notin Timers
  BY WatchdogAssumption DEF NoTimer, Timers
<1>1. CASE HandlesMember
  <2>1. CASE UNCHANGED <<timer, cancelled, phase>>
    BY <2>1 DEF SlotInv, Alive
  <2>2. CASE Cancels(NoTimer) /\ UNCHANGED phase
    BY <2>2, CancelKeeps
  <2>3. ASSUME NEW t \in Timers, {u \in Timers : phase[u] # "unborn"} = 1 .. t - 1,
               PhaseTo(t, "new"), timer' = t,
               cancelled' = IF timer # NoTimer /\ Alive(timer)
                            THEN cancelled \cup {timer} ELSE cancelled
        PROVE SlotInv'
    <3>1. phase[t] = "unborn"
      <4>1. t \notin 1 .. t - 1
        BY DEF Timers
      <4> QED BY <2>3, <4>1
    <3>2. \A u \in cancelled' : u # t /\ phase[u] \in {"new", "notice", "asleep"}
      BY <1>0, <2>3, <3>1 DEF SlotInv, Alive, Phases
    <3>3. phase' = [phase EXCEPT ![t] = "new"]
      BY <2>3 DEF PhaseTo
    <3>4. cancelled' \subseteq Timers
      BY <2>3 DEF SlotInv
    <3> QED BY <1>0, <2>3, <3>2, <3>3, <3>4 DEF SlotInv, Alive, Phases
  <2> QED BY <1>1, <2>1, <2>2, <2>3 DEF HandlesMember
<1>2. CASE HandlesElsewhere
  BY <1>2 DEF HandlesElsewhere, SlotInv, Alive
<1>3. CASE HandlesOwn
  BY <1>3, CancelKeeps DEF HandlesOwn
<1>4. CASE HandlesLeft
  <2>1. CASE BeginsCleanup(NoTimer)
    BY <1>4, <2>1, CancelKeeps DEF HandlesLeft, BeginsCleanup
  <2>2. CASE UNCHANGED <<timer, cancelled>>
    BY <1>4, <2>2 DEF HandlesLeft, SlotInv, Alive
  <2> QED BY <1>4, <2>1, <2>2 DEF HandlesLeft
<1> QED BY <1>1, <1>2, <1>3, <1>4 DEF Handles

\* So does every turn of a countdown: the cleanup() it calls empties the slot before the
\* first await, and nobody puts it back.
LEMMA CountdownKeeps == ASSUME SlotInv, NEW t \in Timers, CountdownNext(t) PROVE SlotInv'
<1>0. NoTimer \notin Timers
  BY WatchdogAssumption DEF NoTimer, Timers
<1> USE <1>0 DEF SlotInv, Alive, Phases, PhaseTo, PopsSlot
<1>1. CASE CountdownStarts(t)
  <2>1. CASE registered
    BY <1>1, <2>1 DEF CountdownStarts
  <2>2. CASE ~registered
    BY <1>1, <2>2 DEF CountdownStarts
  <2> QED BY <2>1, <2>2
<1>2. CASE CountdownSleeps(t)
  BY <1>2 DEF CountdownSleeps
<1>3. CASE CountdownDecides(t)
  <2>1. CASE PhaseTo(t, "leaving") /\ BeginsCleanup(t)
    BY <1>3, <2>1 DEF CountdownDecides, BeginsCleanup, Cancels
  <2>2. CASE PhaseTo(t, "ended") /\ BeginsCleanup(t)
    BY <1>3, <2>2 DEF CountdownDecides, BeginsCleanup, Cancels
  <2>3. CASE PhaseTo(t, "ended") /\ PopsSlot /\ UNCHANGED cancelled
    BY <1>3, <2>3 DEF CountdownDecides
  <2> QED BY <1>3, <2>1, <2>2, <2>3 DEF CountdownDecides
<1>4. CASE CountdownDisconnects(t)
  <2>1. CASE PhaseTo(t, "clearing") /\ UNCHANGED timer
    BY <1>4, <2>1 DEF CountdownDisconnects
  <2>2. CASE PhaseTo(t, "ended") /\ PopsSlot
    BY <1>4, <2>2 DEF CountdownDisconnects
  <2> QED BY <1>4, <2>1, <2>2 DEF CountdownDisconnects
<1>5. CASE CountdownEnds(t)
  BY <1>5 DEF CountdownEnds
<1>6. CASE CountdownCancelled(t)
  <2>1. CASE phase[t] = "new"
    BY <1>6, <2>1 DEF CountdownCancelled
  <2>2. CASE phase[t] # "new"
    BY <1>6, <2>2 DEF CountdownCancelled
  <2> QED BY <2>1, <2>2
<1> QED BY <1>1, <1>2, <1>3, <1>4, <1>5, <1>6 DEF CountdownNext

\* Every event, command and turn of a countdown keeps it.
LEMMA WatchdogStepwise == SlotInv /\ [WatchdogNext]_watchdogVars => SlotInv'
<1> SUFFICES ASSUME SlotInv, [WatchdogNext]_watchdogVars PROVE SlotInv'
  OBVIOUS
<1>1. CASE UNCHANGED <<timer, phase, cancelled>>
  BY <1>1 DEF SlotInv, Alive
<1>2. CASE MemberMoves \/ BotStateChanges \/ BotKicked
  BY <1>1, <1>2 DEF MemberMoves, BotStateChanges, BotKicked
<1>3. CASE BotJoins \/ Registers \/ CleanupDisconnects \/ Ticks
  BY <1>1, <1>3 DEF BotJoins, Registers, CleanupDisconnects, Ticks
<1>4. CASE Stops
  BY <1>4, CancelKeeps DEF Stops, BeginsCleanup
<1>5. CASE UNCHANGED watchdogVars
  BY <1>1, <1>5 DEF watchdogVars
<1> QED
  BY <1>2, <1>3, <1>4, <1>5, HandlersKeep, CountdownKeeps DEF WatchdogNext

\* Whoever popped the player finishes its teardown: no event, stop or cleanup() of a player
\* registered meanwhile cuts it short (cancel(), _countdown(), cleanup(), get_mp()).
THEOREM TeardownFinishes == WatchdogSpec => []TeardownNotCut
<1>1. SlotInv => TeardownNotCut
  BY DEF SlotInv, TeardownNotCut
<1> QED
  BY WatchdogInitially, WatchdogStepwise, <1>1, PTL DEF WatchdogSpec

\* The channel, the connection, the player and the events.
ChannelOK ==
    /\ humans \in BOOLEAN /\ voice \in BOOLEAN /\ registered \in BOOLEAN /\ missed \in BOOLEAN
    /\ moves \in 0 .. MaxMoves
    /\ events \in Seq(Kinds)
    /\ stopping \in Nat

\* What the watchdog counts.
CountsOK == alone \in 0 .. Patience /\ sleeps \in [Timers -> 0 .. Patience]

\* Events that lose their interest are still events.
LEMMA BehindType == ASSUME events \in Seq(Kinds) PROVE Behind \in Seq(Kinds)
<1>1. DOMAIN events = 1 .. Len(events) /\ Len(events) \in Nat
  OBVIOUS
<1>2. \A i \in 1 .. Len(events) :
        (IF events[i] = "member" THEN "elsewhere" ELSE events[i]) \in Kinds
  BY DEF Kinds
<1> QED BY <1>1, <1>2 DEF Behind

\* A cleanup() that begins keeps the types of what it changes.
LEMMA CleanupTypes ==
    ASSUME stopping \in Nat, NEW t \in Timers \cup {NoTimer}, BeginsCleanup(t)
    PROVE  registered' \in BOOLEAN /\ stopping' \in Nat
<1>1. registered' \in BOOLEAN
  BY DEF BeginsCleanup
<1>2. stopping' = stopping + 1 \/ stopping' = stopping
  BY DEF BeginsCleanup
<1> QED BY <1>1, <1>2

\* Every step keeps the types of the channel.
LEMMA ChannelKept ==
    ChannelOK /\ [WatchdogNext]_watchdogVars => ChannelOK'
<1> SUFFICES ASSUME ChannelOK, [WatchdogNext]_watchdogVars PROVE ChannelOK'
  OBVIOUS
<1> USE DEF ChannelOK
<1>0. MaxMoves \in Nat
  BY WatchdogAssumption
<1>a. ASSUME NEW e \in Kinds, NEW s \in Seq(Kinds) PROVE Append(s, e) \in Seq(Kinds)
  OBVIOUS
<1>b. {"member", "own", "left"} \subseteq Kinds
  BY DEF Kinds
<1>1. ASSUME MemberMoves \/ BotStateChanges \/ BotKicked PROVE ChannelOK'
  <2>1. Acts /\ humans' \in BOOLEAN /\ voice' \in BOOLEAN
        /\ UNCHANGED <<registered, missed, stopping>>
    BY <1>1 DEF MemberMoves, BotStateChanges, BotKicked, LeavesVoice
  <2>2. events' \in Seq(Kinds)
    BY <1>1, <1>a, <1>b, BehindType DEF MemberMoves, BotStateChanges, BotKicked, LeavesVoice
  <2> QED BY <1>0, <2>1, <2>2 DEF Acts
<1>2. CASE BotJoins
  BY <1>0, <1>2 DEF BotJoins, Acts
<1>3. CASE Registers
  BY <1>0, <1>3 DEF Registers, Acts
<1>4. CASE Handles
  <2>1. events' \in Seq(Kinds) /\ UNCHANGED <<humans, voice, moves>>
    BY <1>4 DEF Handles
  <2>2. missed' \in BOOLEAN
    BY <1>4 DEF Handles, HandlesMember, HandlesElsewhere, HandlesOwn, HandlesLeft
  <2>3. BeginsCleanup(NoTimer) \/ UNCHANGED <<registered, stopping>>
    BY <1>4 DEF Handles, HandlesMember, HandlesElsewhere, HandlesOwn, HandlesLeft
  <2> QED BY <2>1, <2>2, <2>3, CleanupTypes
<1>5. CASE Stops
  BY <1>5, CleanupTypes DEF Stops
<1>6. CASE CleanupDisconnects
  <2>1. events' \in Seq(Kinds) /\ voice' \in BOOLEAN
    BY <1>6, <1>a, <1>b DEF CleanupDisconnects, LeavesVoice
  <2>2. stopping' \in Nat /\ UNCHANGED <<humans, moves, registered, missed>>
    BY <1>6 DEF CleanupDisconnects
  <2> QED BY <2>1, <2>2
<1>7. CASE Ticks
  BY <1>7 DEF Ticks
<1>8. ASSUME NEW t \in Timers, CountdownNext(t) PROVE ChannelOK'
  <2>1. CASE CountdownDecides(t)
    <3>1. BeginsCleanup(t) \/ UNCHANGED <<registered, stopping>>
      BY <2>1 DEF CountdownDecides
    <3>2. UNCHANGED <<humans, voice, moves, events, missed>>
      BY <2>1 DEF CountdownDecides
    <3> QED BY <3>1, <3>2, CleanupTypes
  <2>2. CASE CountdownDisconnects(t)
    <3>1. events' \in Seq(Kinds) /\ voice' \in BOOLEAN
      BY <2>2, <1>a, <1>b DEF CountdownDisconnects, LeavesVoice
    <3> QED BY <2>2, <3>1 DEF CountdownDisconnects
  <2>3. CASE CountdownStarts(t) \/ CountdownSleeps(t) \/ CountdownEnds(t)
             \/ CountdownCancelled(t)
    BY <2>3 DEF CountdownStarts, CountdownSleeps, CountdownEnds, CountdownCancelled
  <2> QED BY <1>8, <2>1, <2>2, <2>3 DEF CountdownNext
<1>9. CASE UNCHANGED watchdogVars
  BY <1>9 DEF watchdogVars
<1> QED
  BY <1>1, <1>2, <1>3, <1>4, <1>5, <1>6, <1>7, <1>8, <1>9 DEF WatchdogNext

\* Every step keeps the counts in their range.
LEMMA CountsKept ==
    CountsOK /\ [WatchdogNext]_watchdogVars => CountsOK'
<1> SUFFICES ASSUME CountsOK, [WatchdogNext]_watchdogVars PROVE CountsOK'
  OBVIOUS
<1>0. Patience \in Nat \ {0}
  BY WatchdogAssumption
<1> USE <1>0 DEF CountsOK
<1>1. CASE Ticks
  <2>1. \A t \in Timers : phase[t] = "asleep" => sleeps[t] > 0
    BY <1>1 DEF Ticks
  <2> QED BY <1>1, <2>1 DEF Ticks
<1>2. CASE MemberMoves \/ BotStateChanges \/ BotKicked \/ BotJoins \/ Registers
  BY <1>2 DEF MemberMoves, BotStateChanges, BotKicked, BotJoins, Registers
<1>3. CASE Handles \/ Stops \/ CleanupDisconnects
  BY <1>3 DEF Handles, Stops, CleanupDisconnects
<1>4. ASSUME NEW t \in Timers, CountdownNext(t) PROVE CountsOK'
  <2>1. UNCHANGED alone
    BY <1>4 DEF CountdownNext, CountdownStarts, CountdownSleeps, CountdownDecides,
                CountdownDisconnects, CountdownEnds, CountdownCancelled
  <2>2. sleeps' = sleeps \/ sleeps' = [sleeps EXCEPT ![t] = Patience]
    BY <1>4 DEF CountdownNext, CountdownStarts, CountdownSleeps, CountdownDecides,
                CountdownDisconnects, CountdownEnds, CountdownCancelled
  <2> QED BY <2>1, <2>2
<1>5. CASE UNCHANGED watchdogVars
  BY <1>5 DEF watchdogVars
<1> QED
  BY <1>1, <1>2, <1>3, <1>4, <1>5 DEF WatchdogNext

\* The slot of a guild never holds a countdown that is over: every end of a countdown, and
\* every cleanup(), empties it (_countdown(), cancel(), cleanup()).
THEOREM WatchdogTypeCorrect == WatchdogSpec => []WatchdogTypeOK
<1>1. WatchdogInit => ChannelOK
  <2>1. <<>> \in Seq(Kinds)
    OBVIOUS
  <2>2. WatchdogInit => /\ humans \in BOOLEAN /\ voice \in BOOLEAN
                        /\ registered \in BOOLEAN /\ missed \in BOOLEAN
    BY DEF WatchdogInit
  <2>3. WatchdogInit => moves \in 0 .. MaxMoves /\ stopping \in Nat /\ events = <<>>
    BY WatchdogAssumption DEF WatchdogInit
  <2> QED BY <2>1, <2>2, <2>3 DEF ChannelOK
<1>2. WatchdogInit => CountsOK
  BY WatchdogAssumption DEF WatchdogInit, CountsOK
<1>3. SlotInv /\ ChannelOK /\ CountsOK => WatchdogTypeOK
  BY DEF SlotInv, ChannelOK, CountsOK, WatchdogTypeOK
<1> QED
  BY <1>1, <1>2, <1>3, WatchdogInitially, WatchdogStepwise, ChannelKept, CountsKept, PTL
     DEF WatchdogSpec

-----------------------------------------------------------------------------
(* The process pool.                                                       *)

\* The shape of the variables; no executor has a number that was not given out.
PoolShape ==
    /\ generation \in Nat
    /\ executor \in 0 .. generation
    /\ poolClosed \in BOOLEAN
    /\ broken \subseteq 1 .. generation
    /\ call \in [Calls -> [at : {"new", "first", "second", "answered", "failed", "refused"},
                           on : 0 .. generation]]
    /\ firstTry \in [Calls -> 0 .. generation]
    /\ closing \in [Closers -> [at : {"open", "joining", "joined", "closed"},
                                on : 0 .. generation]]

\* What a call knows of the executors it was given to.
CallsOK ==
    \A c \in Calls :
        /\ call[c].at = "first" => firstTry[c] = call[c].on
        /\ call[c].at \in {"second", "failed"} =>
             firstTry[c] # call[c].on /\ firstTry[c] \in broken
        /\ call[c].at = "failed" => call[c].on \in broken

\* A closed pool publishes no executor.
ClosedOK == poolClosed => executor = NoPool

\* Every executor is published, broken, or in the hands of an aclose().
ExecutorsOK ==
    \A e \in 1 .. generation :
        e = executor \/ e \in broken \/ \E k \in Closers : closing[k].on = e /\ closing[k].at # "open"

PoolInv == PoolShape /\ CallsOK /\ ClosedOK /\ ExecutorsOK

\* A pool nobody has used satisfies the invariant.
LEMMA PoolInitially == PoolInit => PoolInv
<1> SUFFICES ASSUME PoolInit PROVE PoolInv
  OBVIOUS
<1>1. PoolShape
  <2>1. generation \in Nat /\ executor \in 0 .. generation /\ broken \subseteq 1 .. generation
    BY DEF PoolInit, NoPool
  <2>2. poolClosed \in BOOLEAN
    BY DEF PoolInit
  <2>3. call \in [Calls -> [at : {"new"}, on : 0 .. generation]]
    BY DEF PoolInit, NoPool
  <2>4. /\ firstTry \in [Calls -> 0 .. generation]
        /\ closing \in [Closers -> [at : {"open"}, on : 0 .. generation]]
    BY DEF PoolInit, NoPool
  <2> QED BY <2>1, <2>2, <2>3, <2>4 DEF PoolShape
<1>2. CallsOK /\ ClosedOK /\ ExecutorsOK
  BY DEF PoolInit, CallsOK, ClosedOK, ExecutorsOK
<1> QED
  BY <1>1, <1>2 DEF PoolInv

\* Every turn of run(), prewarm() and aclose(), and every death of a worker, keep it.
LEMMA PoolStepwise == PoolInv /\ [PoolNext]_poolVars => PoolInv'
<1> SUFFICES ASSUME PoolInv, [PoolNext]_poolVars PROVE PoolInv'
  OBVIOUS
<1> USE DEF PoolInv, PoolShape, CallsOK, ClosedOK, ExecutorsOK, NoPool
<1>1. ASSUME NEW c \in Calls, CallRuns(c) PROVE PoolInv'
  <2>1. CASE executor # NoPool
    BY <1>1, <2>1 DEF CallRuns, Acquire, CallTo
  <2>2. CASE executor = NoPool
    BY <1>1, <2>2 DEF CallRuns, Acquire, CallTo
  <2> QED BY <2>1, <2>2
<1>2. ASSUME NEW c \in Calls, CallRefused(c) PROVE PoolInv'
  BY <1>2 DEF CallRefused, CallTo
<1>3. ASSUME NEW c \in Calls, CallAnswered(c) PROVE PoolInv'
  BY <1>3 DEF CallAnswered, CallTo
<1>4. ASSUME NEW c \in Calls, CallCancelled(c) PROVE PoolInv'
  BY <1>4 DEF CallCancelled, CallTo
<1>5. ASSUME NEW c \in Calls, CallHeals(c) PROVE PoolInv'
  <2>1. CASE Replace(call[c].on) # NoPool
    BY <1>5, <2>1 DEF CallHeals, Acquire, Replace, CallTo
  <2>2. CASE Replace(call[c].on) = NoPool
    <3>1. /\ ~poolClosed /\ call[c].at = "first" /\ call[c].on \in broken
          /\ executor' = generation + 1 /\ generation' = generation + 1
          /\ call' = [call EXCEPT ![c] = [at |-> "second", on |-> executor']]
          /\ UNCHANGED <<poolClosed, broken, firstTry, closing>>
      BY <1>5, <2>2 DEF CallHeals, Acquire, CallTo
    <3>2. executor = NoPool \/ executor \in broken
      BY <1>5, <2>2, <3>1 DEF Replace
    <3>3. PoolShape'
      <4>1. call' \in [Calls -> [at : {"new", "first", "second", "answered", "failed", "refused"},
                                on : 0 .. generation']]
        BY <3>1
      <4>2. poolClosed' \in BOOLEAN
        BY <3>1
      <4>3. /\ generation' \in Nat /\ executor' \in 0 .. generation'
            /\ broken' \subseteq 1 .. generation'
            /\ firstTry' \in [Calls -> 0 .. generation']
        BY <3>1
      <4>4. closing' \in [Closers -> [at : {"open", "joining", "joined", "closed"},
                                     on : 0 .. generation']]
        BY <3>1
      <4> QED BY <4>1, <4>2, <4>3, <4>4
    <3>4. CallsOK'
      BY <3>1
    <3>5. ClosedOK' /\ ExecutorsOK'
      BY <3>1, <3>2
    <3> QED BY <3>3, <3>4, <3>5
  <2> QED BY <2>1, <2>2
<1>6. ASSUME NEW c \in Calls, CallFails(c) PROVE PoolInv'
  BY <1>6 DEF CallFails, CallTo
<1>7. CASE Prewarm
  <2>1. /\ ~poolClosed /\ executor = NoPool
        /\ executor' = generation + 1 /\ generation' = generation + 1
        /\ UNCHANGED <<poolClosed, broken, call, firstTry, closing>>
    BY <1>7 DEF Prewarm, Acquire
  <2>2. PoolShape'
    <3>1. call' \in [Calls -> [at : {"new", "first", "second", "answered", "failed", "refused"},
                              on : 0 .. generation']]
      BY <2>1
    <3>2. poolClosed' \in BOOLEAN
      BY <2>1
    <3>3. /\ generation' \in Nat /\ executor' \in 0 .. generation'
          /\ broken' \subseteq 1 .. generation'
          /\ firstTry' \in [Calls -> 0 .. generation']
      BY <2>1
    <3>4. closing' \in [Closers -> [at : {"open", "joining", "joined", "closed"},
                                   on : 0 .. generation']]
      BY <2>1
    <3> QED BY <3>1, <3>2, <3>3, <3>4
  <2>3. CallsOK'
    BY <2>1
  <2>4. ClosedOK' /\ ExecutorsOK'
    BY <2>1
  <2> QED BY <2>2, <2>3, <2>4
<1>8. CASE WorkerDies
  BY <1>8 DEF WorkerDies
<1>9. ASSUME NEW k \in Closers, CloseBegins(k) PROVE PoolInv'
  BY <1>9 DEF CloseBegins
<1>10. ASSUME NEW k \in Closers, JoinEnds(k) PROVE PoolInv'
  <2>1. /\ closing[k].at = "joining"
        /\ closing' = [closing EXCEPT ![k] = [at |-> "joined", on |-> closing[k].on]]
        /\ UNCHANGED <<executor, generation, poolClosed, call, firstTry>>
    BY <1>10 DEF JoinEnds
  <2>2. broken' = broken \/ (closing[k].on # NoPool /\ broken' = broken \cup {closing[k].on})
    BY <1>10 DEF JoinEnds
  <2>3. broken' \subseteq 1 .. generation /\ broken \subseteq broken'
    <3>1. closing[k].on \in 0 .. generation
      BY <1>10
    <3>2. closing[k].on # NoPool => closing[k].on \in 1 .. generation
      BY <3>1
    <3> HIDE DEF CallsOK, ClosedOK, ExecutorsOK
    <3> QED BY <2>2, <3>2
  <2>4. PoolShape'
    <3>1. closing' \in [Closers -> [at : {"open", "joining", "joined", "closed"},
                                   on : 0 .. generation']]
      BY <2>1
    <3>2. poolClosed' \in BOOLEAN
      BY <2>1
    <3> QED BY <2>1, <2>3, <3>1, <3>2
  <2>5. CallsOK'
    BY <2>1, <2>3
  <2>6. ClosedOK' /\ ExecutorsOK'
    BY <2>1, <2>3
  <2> QED BY <2>4, <2>5, <2>6
<1>11. ASSUME NEW k \in Closers, CloseEnds(k) PROVE PoolInv'
  BY <1>11 DEF CloseEnds
<1>12. CASE UNCHANGED poolVars
  BY <1>12 DEF poolVars
<1> QED
  BY <1>1, <1>2, <1>3, <1>4, <1>5, <1>6, <1>7, <1>8, <1>9, <1>10, <1>11, <1>12
     DEF PoolNext, CallNext, CloseNext

\* For any number of calls, closers and dead workers: no executor is left behind, and a
\* call fails only if two executors broke under it (run(), _replace(), aclose()).
THEOREM NoPoolLeftBehind == PoolSpec => [](NoOrphanPool /\ FailsOnTwoPools)
<1>1. PoolInv => NoOrphanPool
  BY DEF PoolInv, PoolShape, ClosedOK, ExecutorsOK, NoOrphanPool, NoPool
<1>2. PoolInv => FailsOnTwoPools
  BY DEF PoolInv, CallsOK, FailsOnTwoPools
<1> QED
  BY PoolInitially, PoolStepwise, <1>1, <1>2, PTL DEF PoolSpec

\* Only a break or the close unpublishes an executor, however many calls find it, or one
\* before it, broken (_replace()).
THEOREM HealthyExecutorKept == PoolSpec => HealthyKept
<1>1. [PoolNext]_poolVars =>
        [executor # NoPool /\ executor' # executor => executor \in broken \/ poolClosed']_poolVars
  <2> SUFFICES ASSUME PoolNext, executor # NoPool, executor' # executor
               PROVE executor \in broken \/ poolClosed'
    OBVIOUS
  <2>1. ASSUME NEW c \in Calls, CallRuns(c) PROVE FALSE
    BY <2>1 DEF CallRuns, Acquire
  <2>2. ASSUME NEW c \in Calls, CallHeals(c) PROVE executor \in broken
    BY <2>2 DEF CallHeals, Acquire, Replace
  <2>3. CASE Prewarm
    BY <2>3 DEF Prewarm, Acquire
  <2>4. ASSUME NEW k \in Closers, CloseBegins(k) PROVE poolClosed'
    BY <2>4 DEF CloseBegins
  <2> QED
    BY <2>1, <2>2, <2>3, <2>4 DEF PoolNext, CallNext, CloseNext, CallRefused, CallAnswered,
       CallCancelled, CallFails, WorkerDies, JoinEnds, CloseEnds
<1> QED
  BY <1>1, PTL DEF PoolSpec, HealthyKept

\* Until the pool is closed only the published executor is whole, afterwards one at most.
WholeOK ==
    /\ \A d, e \in (1 .. generation) \ broken : d = e
    /\ ~poolClosed => \A e \in (1 .. generation) \ broken : e = executor

\* Who closes the pool, and what he leaves running: nothing, where he has joined.
JoinsOK ==
    /\ poolClosed <=> \E k \in Closers : closing[k].at # "open"
    /\ \A c \in Calls : call[c].at \in {"first", "second"} => call[c].on # NoPool
    /\ \A k \in Closers, c \in Calls :
         closing[k].at \in {"joined", "closed"} /\ Runs(c, closing[k].on) =>
             closing[k].on \in broken

\* The log listener stops with an aclose(), and is not started again after it.
ListenerOK ==
    /\ listener \in {"new", "on", "off"}
    /\ listener = "off" => \E k \in Closers : closing[k].at = "closed"
    /\ listener = "on" => \A k \in Closers : closing[k].at # "closed"

\* An executor is built only when there is none, or the one there was has broken.
LEMMA BuildsWhenBroken ==
    ASSUME PoolInv, WholeOK, NEW e \in {executor, NoPool}, Acquire(e),
           e = NoPool => executor = NoPool \/ executor \in broken,
           broken' = broken, poolClosed' = poolClosed
    PROVE  /\ WholeOK' /\ ~poolClosed /\ executor' # NoPool
           /\ listener' \in {listener, "on"}
<1>1. ~poolClosed /\ generation \in Nat /\ broken \subseteq 1 .. generation
  BY DEF PoolInv, PoolShape, Acquire
<1>2. CASE e # NoPool
  BY <1>1, <1>2 DEF Acquire, WholeOK
<1>3. CASE e = NoPool
  <2>1. executor' = generation + 1 /\ generation' = generation + 1 /\ listener' = "on"
    BY <1>3 DEF Acquire
  <2>2. \A d \in 1 .. generation : d \in broken
    BY <1>1, <1>3 DEF WholeOK, NoPool
  <2>3. \A d \in (1 .. generation') \ broken' : d = executor'
    BY <1>1, <2>1, <2>2
  <2> QED BY <1>1, <2>1, <2>3 DEF WholeOK, NoPool
<1> QED BY <1>2, <1>3

\* Which of the steps build, and which leave the executors as they were.
LEMMA WholeKept == PoolInv /\ WholeOK /\ [PoolNext]_poolVars => WholeOK'
<1> SUFFICES ASSUME PoolInv, WholeOK, [PoolNext]_poolVars PROVE WholeOK'
  OBVIOUS
<1>1. ASSUME NEW c \in Calls, CallRuns(c) PROVE WholeOK'
  BY <1>1, BuildsWhenBroken DEF CallRuns
<1>2. ASSUME NEW c \in Calls, CallHeals(c) PROVE WholeOK'
  <2>1. Replace(call[c].on) \in {executor, NoPool}
    BY DEF Replace
  <2>2. Replace(call[c].on) = NoPool => executor = NoPool \/ executor \in broken
    BY <1>2 DEF Replace, CallHeals
  <2>3. Acquire(Replace(call[c].on)) /\ broken' = broken /\ poolClosed' = poolClosed
    BY <1>2 DEF CallHeals
  <2> HIDE DEF Replace
  <2> QED BY <2>1, <2>2, <2>3, BuildsWhenBroken
<1>3. CASE Prewarm
  BY <1>3, BuildsWhenBroken DEF Prewarm
<1>4. CASE WorkerDies
  BY <1>4 DEF WorkerDies, WholeOK
<1>5. ASSUME NEW k \in Closers, CloseBegins(k) PROVE WholeOK'
  BY <1>5 DEF CloseBegins, WholeOK
<1>6. ASSUME NEW k \in Closers, JoinEnds(k) PROVE WholeOK'
  <2>1. broken \subseteq broken' /\ UNCHANGED <<executor, generation, poolClosed>>
    BY <1>6 DEF JoinEnds
  <2> QED BY <2>1 DEF WholeOK
<1>7. ASSUME UNCHANGED <<executor, generation, poolClosed, broken>> PROVE WholeOK'
  BY <1>7 DEF WholeOK
<1> QED
  BY <1>1, <1>2, <1>3, <1>4, <1>5, <1>6, <1>7 DEF PoolNext, CallNext, CloseNext, CallRefused,
     CallAnswered, CallCancelled, CallFails, CloseEnds, poolVars

\* A call that is given to an executor finds the pool open, so nobody has joined yet.
LEMMA Submitting ==
    ASSUME PoolInv, JoinsOK, ListenerOK, NEW c \in Calls, NEW at \in {"first", "second"},
           ~poolClosed, CallTo(c, at, executor'), executor' # NoPool,
           listener' \in {listener, "on"}, UNCHANGED <<poolClosed, broken, closing>>
    PROVE  JoinsOK' /\ ListenerOK'
<1>1. \A k \in Closers : closing'[k].at = "open"
  BY DEF JoinsOK
<1>2. /\ call' = [call EXCEPT ![c] = [at |-> at, on |-> executor']]
      /\ call \in [Calls -> [at : {"new", "first", "second", "answered", "failed", "refused"},
                             on : 0 .. generation]]
  BY DEF CallTo, PoolInv, PoolShape
<1>3. \A d \in Calls : call'[d].at \in {"first", "second"} => call'[d].on # NoPool
  BY <1>2 DEF JoinsOK
<1>4. JoinsOK'
  BY <1>1, <1>3 DEF JoinsOK
<1>5. ListenerOK'
  BY <1>1 DEF ListenerOK
<1> QED BY <1>4, <1>5

\* A call that ends runs nowhere.
LEMMA Ending ==
    ASSUME PoolInv, JoinsOK, ListenerOK, NEW c \in Calls, NEW on,
           NEW at \in {"answered", "failed", "refused"}, CallTo(c, at, on),
           UNCHANGED <<poolClosed, broken, closing, listener>>
    PROVE  JoinsOK' /\ ListenerOK'
<1>1. /\ call' = [call EXCEPT ![c] = [at |-> at, on |-> on]]
      /\ call \in [Calls -> [at : {"new", "first", "second", "answered", "failed", "refused"},
                             on : 0 .. generation]]
  BY DEF CallTo, PoolInv, PoolShape
<1>2. call'[c].at = at /\ \A d \in Calls \ {c} : call'[d] = call[d]
  BY <1>1
<1>3. \A d \in Calls : call'[d].at \in {"first", "second"} => call'[d] = call[d]
  BY <1>2
<1>4. JoinsOK'
  BY <1>3 DEF JoinsOK, Runs
<1>5. ListenerOK'
  BY DEF ListenerOK
<1> QED BY <1>4, <1>5

LEMMA JoinsKept ==
    PoolInv /\ WholeOK /\ JoinsOK /\ ListenerOK /\ [PoolNext]_poolVars => JoinsOK' /\ ListenerOK'
<1> SUFFICES ASSUME PoolInv, WholeOK, JoinsOK, ListenerOK, [PoolNext]_poolVars
             PROVE  JoinsOK' /\ ListenerOK'
  OBVIOUS
<1>0. closing \in [Closers -> [at : {"open", "joining", "joined", "closed"}, on : 0 .. generation]]
  BY DEF PoolInv, PoolShape
<1>1. ASSUME NEW c \in Calls, CallRuns(c) PROVE JoinsOK' /\ ListenerOK'
  <2>1. ~poolClosed /\ executor' # NoPool /\ listener' \in {listener, "on"}
    BY <1>1, BuildsWhenBroken DEF CallRuns
  <2> QED BY <1>1, <2>1, Submitting DEF CallRuns
<1>2. ASSUME NEW c \in Calls, CallHeals(c) PROVE JoinsOK' /\ ListenerOK'
  <2>1. ~poolClosed /\ executor' # NoPool /\ listener' \in {listener, "on"}
    <3>1. Replace(call[c].on) \in {executor, NoPool}
      BY DEF Replace
    <3>2. Replace(call[c].on) = NoPool => executor = NoPool \/ executor \in broken
      BY <1>2 DEF Replace, CallHeals
    <3>3. Acquire(Replace(call[c].on)) /\ broken' = broken /\ poolClosed' = poolClosed
      BY <1>2 DEF CallHeals
    <3> QED BY <3>1, <3>2, <3>3, BuildsWhenBroken
  <2> QED BY <1>2, <2>1, Submitting DEF CallHeals
<1>3. ASSUME NEW c \in Calls, CallRefused(c) \/ CallAnswered(c) \/ CallCancelled(c) \/ CallFails(c)
      PROVE JoinsOK' /\ ListenerOK'
  <2>1. PICK at \in {"answered", "failed", "refused"}, on \in {NoPool, call[c].on} :
          CallTo(c, at, on) /\ UNCHANGED <<poolClosed, broken, closing, listener>>
    BY <1>3 DEF CallRefused, CallAnswered, CallCancelled, CallFails
  <2> QED BY <2>1, Ending
<1>4. CASE Prewarm
  <2>1. ~poolClosed /\ listener' \in {listener, "on"}
    BY <1>4, BuildsWhenBroken DEF Prewarm
  <2>2. UNCHANGED <<poolClosed, broken, call, closing>>
    BY <1>4 DEF Prewarm
  <2> QED BY <2>1, <2>2 DEF JoinsOK, ListenerOK, Runs
<1>5. CASE WorkerDies
  <2>1. broken \subseteq broken' /\ UNCHANGED <<poolClosed, call, closing, listener>>
    BY <1>5 DEF WorkerDies
  <2> QED BY <2>1 DEF JoinsOK, ListenerOK, Runs
<1>6. ASSUME NEW k \in Closers, CloseBegins(k) PROVE JoinsOK' /\ ListenerOK'
  <2>1. /\ closing[k].at = "open" /\ poolClosed' = TRUE
        /\ closing' = [closing EXCEPT ![k] = [at |-> "joining", on |-> executor]]
        /\ UNCHANGED <<broken, call, listener>>
    BY <1>6 DEF CloseBegins
  <2>2. closing'[k].at = "joining" /\ \A j \in Closers \ {k} : closing'[j] = closing[j]
    BY <1>0, <2>1
  <2>3. \A j \in Closers : closing'[j].at \in {"joined", "closed"} => closing'[j] = closing[j]
    BY <2>2
  <2>4. JoinsOK'
    BY <2>1, <2>2, <2>3 DEF JoinsOK, Runs
  <2>5. ListenerOK'
    BY <2>1, <2>2 DEF ListenerOK
  <2> QED BY <2>4, <2>5
<1>7. ASSUME NEW k \in Closers, JoinEnds(k) PROVE JoinsOK' /\ ListenerOK'
  <2>1. /\ closing[k].at = "joining"
        /\ closing' = [closing EXCEPT ![k] = [at |-> "joined", on |-> closing[k].on]]
        /\ UNCHANGED <<poolClosed, call, listener>>
        /\ broken \subseteq broken'
    BY <1>7 DEF JoinEnds
  <2>2. /\ closing'[k].at = "joined" /\ closing'[k].on = closing[k].on
        /\ \A j \in Closers \ {k} : closing'[j] = closing[j]
    BY <1>0, <2>1
  <2>3. \A c \in Calls : Runs(c, closing[k].on) => closing[k].on \in broken'
    BY <1>7 DEF JoinEnds
  <2>4. JoinsOK'
    <3>1. poolClosed' <=> \E j \in Closers : closing'[j].at # "open"
      BY <2>1, <2>2 DEF JoinsOK
    <3>2. ASSUME NEW j \in Closers, NEW c \in Calls, closing'[j].at \in {"joined", "closed"},
                 call[c].at \in {"first", "second"} /\ call[c].on = closing'[j].on
          PROVE  closing'[j].on \in broken'
      BY <2>1, <2>2, <2>3, <3>2 DEF JoinsOK, Runs
    <3> QED BY <2>1, <3>1, <3>2 DEF JoinsOK, Runs
  <2>5. ListenerOK'
    BY <2>1, <2>2 DEF ListenerOK
  <2> QED BY <2>4, <2>5
<1>8. ASSUME NEW k \in Closers, CloseEnds(k) PROVE JoinsOK' /\ ListenerOK'
  <2>1. /\ closing[k].at = "joined"
        /\ closing' = [closing EXCEPT ![k] = [at |-> "closed", on |-> closing[k].on]]
        /\ listener' = IF listener = "on" THEN "off" ELSE listener
        /\ UNCHANGED <<poolClosed, broken, call>>
    BY <1>8 DEF CloseEnds, StopListener
  <2>2. /\ closing'[k].at = "closed" /\ closing'[k].on = closing[k].on
        /\ \A j \in Closers \ {k} : closing'[j] = closing[j]
    BY <1>0, <2>1
  <2>3. JoinsOK'
    <3>1. poolClosed' <=> \E j \in Closers : closing'[j].at # "open"
      BY <2>1, <2>2 DEF JoinsOK
    <3>2. ASSUME NEW j \in Closers, NEW c \in Calls, closing'[j].at \in {"joined", "closed"},
                 call[c].at \in {"first", "second"} /\ call[c].on = closing'[j].on
          PROVE  closing'[j].on \in broken'
      BY <2>1, <2>2, <3>2 DEF JoinsOK, Runs
    <3> QED BY <2>1, <3>1, <3>2 DEF JoinsOK, Runs
  <2>4. ListenerOK'
    BY <2>1, <2>2 DEF ListenerOK
  <2> QED BY <2>3, <2>4
<1>9. CASE UNCHANGED poolVars
  BY <1>9 DEF poolVars, JoinsOK, ListenerOK, Runs
<1> QED
  BY <1>1, <1>2, <1>3, <1>4, <1>5, <1>6, <1>7, <1>8, <1>9 DEF PoolNext, CallNext, CloseNext

WorkersInv == PoolInv /\ WholeOK /\ JoinsOK /\ ListenerOK

LEMMA WorkersInitially == PoolInit => WorkersInv
<1> SUFFICES ASSUME PoolInit PROVE WorkersInv
  OBVIOUS
<1>1. generation = 0 /\ WholeOK
  BY DEF PoolInit, WholeOK
<1>2. JoinsOK /\ ListenerOK
  BY DEF PoolInit, JoinsOK, ListenerOK, Runs
<1> QED BY <1>1, <1>2, PoolInitially DEF WorkersInv

LEMMA WorkersStepwise == WorkersInv /\ [PoolNext]_poolVars => WorkersInv'
BY PoolStepwise, WholeKept, JoinsKept DEF WorkersInv

\* However often it is broken and replaced, the pool has built one executor more than have
\* broken, at most (_acquire(), _replace()).
LEMMA NotMoreThanBroken == WorkersInv => generation \in 0 .. Cardinality(broken) + 1
<1> SUFFICES ASSUME WorkersInv PROVE generation \in 0 .. Cardinality(broken) + 1
  OBVIOUS
<1>1. generation \in Nat /\ broken \subseteq 1 .. generation
  BY DEF WorkersInv, PoolInv, PoolShape
<1> DEFINE all == 1 .. generation
           whole == all \ broken
<1>2. IsFiniteSet(all) /\ Cardinality(all) = generation
  BY <1>1, FS_Interval
<1>3. IsFiniteSet(whole) /\ Cardinality(whole) = generation - Cardinality(broken)
  <2>1. all \cap broken = broken
    BY <1>1
  <2> QED BY <1>2, <2>1, FS_Difference
<1>4. Cardinality(whole) <= 1
  <2>1. CASE whole = {}
    BY <2>1, FS_EmptySet
  <2>2. ASSUME NEW e \in whole PROVE Cardinality(whole) <= 1
    <3>1. whole = {e}
      BY DEF WorkersInv, WholeOK
    <3> QED BY <3>1, FS_Singleton
  <2> QED BY <2>1, <2>2
<1>5. IsFiniteSet(broken) /\ Cardinality(broken) \in Nat
  BY <1>1, <1>2, FS_Subset, FS_CardinalityType
<1> QED BY <1>1, <1>3, <1>4, <1>5

\* The types of the pool; of the executors it ever built at most one has not broken.
THEOREM PoolTypeCorrect == PoolSpec => []PoolTypeOK
<1>1. WorkersInv => PoolTypeOK
  <2> SUFFICES ASSUME WorkersInv PROVE PoolTypeOK
    OBVIOUS
  <2>1. PoolShape /\ listener \in {"new", "on", "off"}
    BY DEF WorkersInv, PoolInv, ListenerOK
  <2>2. generation \in 0 .. Cardinality(broken) + 1
    BY NotMoreThanBroken
  <2> QED BY <2>1, <2>2 DEF PoolShape, PoolTypeOK
<1> QED
  BY WorkersInitially, WorkersStepwise, <1>1, PTL DEF PoolSpec

\* MusicBotApp.close() passes its guard once.
OneCloser == \A j, k \in Closers : j = k

\* With the one aclose() that the bot makes, the log listener stops, and not before the
\* workers that write to it are gone; no executor is left behind, and no call fails early
\* (run(), aclose(), _stop_log_listener()).
THEOREM PoolKept == ASSUME OneCloser PROVE PoolSpec => []PoolSound
<1>1. WorkersInv => NoOrphanPool /\ FailsOnTwoPools
  <2>1. PoolInv => NoOrphanPool
    BY DEF PoolInv, PoolShape, ClosedOK, ExecutorsOK, NoOrphanPool, NoPool
  <2>2. PoolInv => FailsOnTwoPools
    BY DEF PoolInv, CallsOK, FailsOnTwoPools
  <2> QED BY <2>1, <2>2 DEF WorkersInv
<1>2. WorkersInv => ListenerOutlives
  <2> SUFFICES ASSUME WorkersInv, listener = "off", NEW c \in Calls, Runs(c, call[c].on),
                      call[c].on \notin broken
               PROVE  FALSE
    BY DEF WorkersInv, ListenerOK, ListenerOutlives
  <2>1. PICK k \in Closers : closing[k].at = "closed"
    BY DEF WorkersInv, ListenerOK
  <2>2. executor = NoPool
    BY <2>1 DEF WorkersInv, JoinsOK, PoolInv, ClosedOK
  <2>3. call[c].on \in 1 .. generation
    BY DEF WorkersInv, PoolInv, PoolShape, JoinsOK, Runs, NoPool
  <2>4. PICK j \in Closers : closing[j].on = call[c].on
    BY <2>2, <2>3 DEF WorkersInv, PoolInv, ExecutorsOK, NoPool
  <2>5. closing[k].on = call[c].on
    BY <2>4 DEF OneCloser
  <2> QED BY <2>1, <2>5 DEF WorkersInv, JoinsOK
<1>3. WorkersInv => PoolSound
  BY <1>1, <1>2 DEF PoolSound
<1> QED
  BY WorkersInitially, WorkersStepwise, <1>3, PTL DEF PoolSpec

-----------------------------------------------------------------------------
(* The archive's connections.                                              *)

Building == {"connecting", "checking", "discarding"}

\* A builder holds the lock, alone, found no pool under it, and close() waits for it.
BuilderOK ==
    /\ \A q, r \in Queries : query[q].at \in Building /\ query[r].at \in Building => q = r
    /\ \A q \in Queries : query[q].at \in Building =>
         /\ initLock
         /\ connections = NoConnections
         /\ shutting.at \in {"unasked", "locking"}

\* Every open pool is somebody's.
OpenOK ==
    \A e \in open :
        \/ e = connections
        \/ e = shutting.pool /\ shutting.at = "closing"
        \/ \E q \in Queries : query[q].at \in {"checking", "discarding"} /\ query[q].pool = e

\* close() turned the callers away before it took the pool, which leaves none.
ShutOK ==
    /\ shut <=> (shutting.at # "unasked")
    /\ shutting.at \in {"closing", "done"} => connections = NoConnections

ArchiveInv == ArchiveTypeOK /\ BuilderOK /\ OpenOK /\ ShutOK

\* An archive nobody has used satisfies the invariant.
LEMMA ArchiveInitially == ArchiveInit => ArchiveInv
<1> SUFFICES ASSUME ArchiveInit PROVE ArchiveInv
  OBVIOUS
<1>1. query \in [Queries -> [at : {"new"}, pool : {0}]]
  BY DEF ArchiveInit, NoConnections
<1>2. ArchiveTypeOK
  <2>1. query \in [Queries -> [at : {"new", "locking", "connecting", "checking", "discarding",
                                    "querying", "done", "raised"}, pool : 0 .. built]]
    BY <1>1 DEF ArchiveInit
  <2>2. connections \in 0 .. built /\ built \in Nat /\ open \subseteq 1 .. built
    BY DEF ArchiveInit, NoConnections
  <2>3. shutting \in [at : {"unasked", "locking", "closing", "done"}, pool : 0 .. built]
    BY DEF ArchiveInit, NoConnections
  <2>4. initLock \in BOOLEAN /\ shut \in BOOLEAN
    BY DEF ArchiveInit
  <2> QED BY <2>1, <2>2, <2>3, <2>4 DEF ArchiveTypeOK
<1>3. BuilderOK /\ OpenOK /\ ShutOK
  BY DEF ArchiveInit, BuilderOK, OpenOK, ShutOK, Building
<1> QED
  BY <1>2, <1>3 DEF ArchiveInv

\* Every await of every caller, its failures and cancellations, and close() keep it.
LEMMA ArchiveStepwise == ArchiveInv /\ [ArchiveNext]_archiveVars => ArchiveInv'
<1> SUFFICES ASSUME ArchiveInv, [ArchiveNext]_archiveVars PROVE ArchiveInv'
  OBVIOUS
<1> USE DEF ArchiveInv, ArchiveTypeOK, BuilderOK, OpenOK, ShutOK, Building, NoConnections
<1>1. ASSUME NEW q \in Queries, Ensures(q) PROVE ArchiveInv'
  BY <1>1 DEF Ensures, QueryTo
<1>2. ASSUME NEW q \in Queries, LocksInit(q) PROVE ArchiveInv'
  BY <1>2 DEF LocksInit, QueryTo
<1>3. ASSUME NEW q \in Queries, Connects(q) PROVE ArchiveInv'
  BY <1>3 DEF Connects, QueryTo
<1>4. ASSUME NEW q \in Queries, ChecksSchema(q) PROVE ArchiveInv'
  <2>1. CASE shut
    BY <1>4, <2>1 DEF ChecksSchema, QueryTo
  <2>2. CASE ~shut
    <3>1. ArchiveTypeOK'
      <4>1. query' \in [Queries -> [at : {"new", "locking", "connecting", "checking", "discarding",
                                        "querying", "done", "raised"}, pool : 0 .. built']]
        BY <1>4, <2>2 DEF ChecksSchema, QueryTo
      <4>2. connections' \in 0 .. built' /\ built' \in Nat /\ open' \subseteq 1 .. built'
        BY <1>4, <2>2 DEF ChecksSchema, QueryTo
      <4>3. shutting' \in [at : {"unasked", "locking", "closing", "done"}, pool : 0 .. built']
        BY <1>4, <2>2 DEF ChecksSchema, QueryTo
      <4>4. initLock' \in BOOLEAN /\ shut' \in BOOLEAN
        BY <1>4, <2>2 DEF ChecksSchema
      <4> QED BY <4>1, <4>2, <4>3, <4>4
    <3>2. BuilderOK' /\ ShutOK'
      BY <1>4, <2>2 DEF ChecksSchema, QueryTo
    <3>3. OpenOK'
      BY <1>4, <2>2 DEF ChecksSchema, QueryTo
    <3> QED BY <3>1, <3>2, <3>3
  <2> QED BY <2>1, <2>2
<1>5. ASSUME NEW q \in Queries, CheckFails(q) PROVE ArchiveInv'
  BY <1>5 DEF CheckFails, QueryTo
<1>6. ASSUME NEW q \in Queries, Discards(q) PROVE ArchiveInv'
  BY <1>6 DEF Discards, QueryTo
<1>7. ASSUME NEW q \in Queries, EnsureRaises(q) PROVE ArchiveInv'
  BY <1>7 DEF EnsureRaises, QueryTo
<1>8. ASSUME NEW q \in Queries, QueryEnds(q) PROVE ArchiveInv'
  BY <1>8 DEF QueryEnds, QueryTo
<1>9. CASE ShutBegins
  BY <1>9 DEF ShutBegins
<1>10. CASE ShutTakes
  BY <1>10 DEF ShutTakes
<1>11. CASE ShutEnds
  BY <1>11 DEF ShutEnds
<1>12. CASE UNCHANGED archiveVars
  BY <1>12 DEF archiveVars
<1> QED
  BY <1>1, <1>2, <1>3, <1>4, <1>5, <1>6, <1>7, <1>8, <1>9, <1>10, <1>11, <1>12
     DEF ArchiveNext, QueryNext

\* What the invariant is for.
LEMMA ArchiveInvSuffices == ArchiveInv => OneArchivePool /\ NoneAfterClose
<1> SUFFICES ASSUME ArchiveInv PROVE OneArchivePool /\ NoneAfterClose
  OBVIOUS
<1> USE DEF ArchiveInv, ArchiveTypeOK, BuilderOK, OpenOK, ShutOK, Building, NoConnections
<1>1. OneArchivePool
  <2> SUFFICES ASSUME NEW e \in open, NEW f \in open
               PROVE /\ e = f
                     /\ \/ connections = e \/ (shutting.at = "closing" /\ shutting.pool = e)
                        \/ \E q \in Queries : query[q].at \in {"checking", "discarding"}
                                                 /\ query[q].pool = e
    BY DEF OneArchivePool
  <2>1. CASE connections # NoConnections
    BY <2>1
  <2>2. CASE connections = NoConnections /\ shutting.at = "closing"
    BY <2>2
  <2>3. CASE connections = NoConnections /\ shutting.at # "closing"
    BY <2>3
  <2> QED BY <2>1, <2>2, <2>3
<1>2. NoneAfterClose
  BY DEF NoneAfterClose
<1> QED
  BY <1>1, <1>2

\* For any number of callers, of which any may fail or be cancelled at any await while
\* close() comes: there are never two pools, and none once close() has returned
\* (_ensure(), close()).
THEOREM OnePoolUntilClosed == ArchiveSpec => [](OneArchivePool /\ NoneAfterClose)
BY ArchiveInitially, ArchiveStepwise, ArchiveInvSuffices, PTL DEF ArchiveSpec

-----------------------------------------------------------------------------
(* The dashboard.                                                          *)

\* The shape of the variables.
DashboardShape ==
    /\ probe \in [Probes -> {"running", "answered", "cancelled"}]
    /\ rows \in [Probes -> {"pending", "settled", "abandoned"}]
    /\ last \in [Probes -> {"pending", "settled", "abandoned"}]
    /\ shown \in [Probes -> {"pending", "settled", "abandoned"}]
    /\ driver \in {"preparing", "sending", "waiting", "editing", "flushing"} \cup DriverEnds
    /\ deleted \in BOOLEAN /\ late \in BOOLEAN /\ editable \in BOOLEAN /\ swallowed \in BOOLEAN

\* A row says what became of its probe: what was given up is cancelled, and stays so.
RowsOK ==
    \A p \in Probes :
        /\ rows[p] = "settled" => probe[p] = "answered"
        /\ rows[p] = "abandoned" => probe[p] = "cancelled"

\* Once it is sent the message shows the last render, unless an edit failed; and the last
\* render is complete when the driver returns.
CardOK ==
    /\ driver \notin {"preparing", "sending", "raised"} /\ ~swallowed => shown = last
    /\ driver \in {"flushing", "returned"} => Pending = {}
    /\ driver = "returned" => last = rows

DashboardInv == DashboardShape /\ RowsOK /\ NoProbeLeft /\ CardOK

\* A driver that has not begun satisfies the invariant.
LEMMA DashboardInitially == DashboardInit => DashboardInv
<1> SUFFICES ASSUME DashboardInit PROVE DashboardInv
  OBVIOUS
<1>1. DashboardShape
  <2>1. /\ deleted \in BOOLEAN /\ late \in BOOLEAN /\ editable \in BOOLEAN
        /\ swallowed \in BOOLEAN
    BY DEF DashboardInit
  <2> QED BY <2>1 DEF DashboardInit, DashboardShape, AllPending
<1>2. RowsOK /\ NoProbeLeft /\ CardOK
  BY DEF DashboardInit, RowsOK, NoProbeLeft, CardOK, AllPending, DriverEnds
<1> QED BY <1>1, <1>2 DEF DashboardInv

\* What the finally of the driver does, and leaves alone.
LEMMA Finishing ==
    ASSUME DashboardShape, NEW to, DriverTo(to)
    PROVE  /\ probe' \in [Probes -> {"running", "answered", "cancelled"}]
           /\ \A p \in Probes : probe[p] # "running" => probe'[p] = probe[p]
           /\ to \in DriverEnds => \A p \in Probes : probe'[p] # "running"
           /\ to \notin DriverEnds => probe' = probe
BY DEF DashboardShape, DriverTo, Finally

\* Every answer, every turn of the driver, and the user's deleting the card keep it.
LEMMA DashboardStepwise == DashboardInv /\ [DashboardNext]_dashboardVars => DashboardInv'
<1> SUFFICES ASSUME DashboardInv, [DashboardNext]_dashboardVars PROVE DashboardInv'
  OBVIOUS
<1>0. DashboardShape /\ RowsOK /\ NoProbeLeft /\ CardOK
  BY DEF DashboardInv
<1> USE <1>0 DEF DashboardInv
<1>1. ASSUME NEW p \in Probes, ProbeAnswers(p) PROVE DashboardInv'
  <2>1. /\ probe[p] = "running" /\ probe' = [probe EXCEPT ![p] = "answered"]
        /\ UNCHANGED <<rows, driver, last, shown, deleted, late, editable, swallowed>>
    BY <1>1 DEF ProbeAnswers
  <2>2. DashboardShape'
    BY <2>1 DEF DashboardShape
  <2>3. RowsOK' /\ NoProbeLeft'
    BY <2>1 DEF DashboardShape, RowsOK, NoProbeLeft
  <2>4. CardOK'
    BY <2>1 DEF CardOK, Pending
  <2> QED BY <2>2, <2>3, <2>4
<1>2. CASE Prepared
  <2>0. PICK to \in {"sending", "raised"} :
          /\ driver = "preparing" /\ DriverTo(to)
          /\ to = "sending" => rows' = Drained /\ last' = Drained
          /\ to = "raised" => rows' = rows /\ last' = last
          /\ UNCHANGED <<shown, deleted, late, editable, swallowed>>
    BY <1>2 DEF Prepared
  <2>1. driver' = to
    BY <2>0 DEF DriverTo
  <2>2. Drained \in [Probes -> {"pending", "settled", "abandoned"}]
    BY DEF Drained, DashboardShape
  <2>3. DashboardShape'
    BY <2>0, <2>1, <2>2, Finishing DEF DashboardShape, DriverEnds
  <2>4. RowsOK'
    BY <2>0, Finishing DEF RowsOK, Drained, DashboardShape
  <2>5. NoProbeLeft'
    BY <2>0, <2>1, Finishing DEF NoProbeLeft, DriverEnds
  <2>6. CardOK'
    BY <2>0, <2>1 DEF CardOK
  <2> QED BY <2>3, <2>4, <2>5, <2>6
<1>3. CASE Sent
  <2>0. PICK to \in {"waiting", "raised"} :
          /\ driver = "sending" /\ DriverTo(to)
          /\ to = "waiting" => shown' = last
          /\ to = "raised" => shown' = shown
          /\ UNCHANGED <<rows, last, deleted, late, editable, swallowed>>
    BY <1>3 DEF Sent
  <2>1. driver' = to
    BY <2>0 DEF DriverTo
  <2>2. DashboardShape'
    BY <2>0, <2>1, Finishing DEF DashboardShape, DriverEnds
  <2>3. RowsOK'
    BY <2>0, Finishing DEF RowsOK
  <2>4. NoProbeLeft'
    BY <2>0, <2>1, Finishing DEF NoProbeLeft, DriverEnds
  <2>5. CardOK'
    BY <2>0, <2>1 DEF CardOK
  <2> QED BY <2>2, <2>3, <2>4, <2>5
<1>4. CASE Woken
  <2>0. /\ driver = "waiting" /\ rows' = Drained
        /\ driver' \in {"editing", "waiting"}
        /\ UNCHANGED <<probe, last, shown, deleted, late, editable, swallowed>>
    BY <1>4 DEF Woken
  <2>1. Drained \in [Probes -> {"pending", "settled", "abandoned"}]
    BY DEF Drained, DashboardShape
  <2>2. DashboardShape'
    BY <2>0, <2>1 DEF DashboardShape
  <2>3. RowsOK'
    BY <2>0 DEF RowsOK, Drained, DashboardShape
  <2>4. NoProbeLeft' /\ CardOK'
    BY <2>0 DEF NoProbeLeft, CardOK, DriverEnds
  <2> QED BY <2>2, <2>3, <2>4
<1>5. CASE GivesUp
  <2>0. /\ driver = "waiting"
        /\ rows' = [p \in Probes |-> Final(p)]
        /\ driver' \in {"flushing", "returned"} /\ (driver' = "returned" => rows' = last)
        /\ probe' = [p \in Probes |-> IF probe[p] = "running" THEN "cancelled" ELSE probe[p]]
        /\ UNCHANGED <<last, shown, deleted, late, editable, swallowed>>
    BY <1>5 DEF GivesUp, FlushNeeded
  <2>1. /\ rows' \in [Probes -> {"pending", "settled", "abandoned"}]
        /\ probe' \in [Probes -> {"running", "answered", "cancelled"}]
    BY <2>0 DEF Final, DashboardShape
  <2>2. DashboardShape'
    BY <2>0, <2>1 DEF DashboardShape, DriverEnds
  <2>3. RowsOK' /\ \A p \in Probes : rows'[p] # "pending" /\ probe'[p] # "running"
    BY <2>0 DEF RowsOK, Final, DashboardShape
  <2>4. NoProbeLeft'
    BY <2>3 DEF NoProbeLeft
  <2>5. CardOK'
    BY <2>0, <2>3 DEF CardOK, Pending
  <2> QED BY <2>2, <2>3, <2>4, <2>5
<1>6. CASE Edited
  <2>0. PICK to \in {"gone", "returned", "waiting"} :
          /\ driver \in {"editing", "flushing"} /\ DriverTo(to)
          /\ to = "gone" => UNCHANGED <<last, shown, editable, swallowed>>
          /\ to = "returned" => driver = "flushing"
          /\ to # "gone" => /\ last' = rows /\ editable' = FALSE
                            /\ \/ shown' = rows /\ swallowed' = swallowed
                               \/ shown' = shown /\ swallowed' = TRUE
          /\ UNCHANGED <<rows, deleted, late>>
    BY <1>6 DEF Edited
  <2>1. driver' = to
    BY <2>0 DEF DriverTo
  <2>2. DashboardShape'
    BY <2>0, <2>1, Finishing DEF DashboardShape, DriverEnds
  <2>3. RowsOK'
    BY <2>0, Finishing DEF RowsOK
  <2>4. NoProbeLeft'
    BY <2>0, <2>1, Finishing DEF NoProbeLeft, DriverEnds
  <2>5. CardOK'
    BY <2>0, <2>1 DEF CardOK, Pending
  <2> QED BY <2>2, <2>3, <2>4, <2>5
<1>7. CASE Deleted \/ DeadlinePasses \/ TickPasses
  <2>1. /\ UNCHANGED <<probe, rows, driver, last, shown, swallowed>>
        /\ deleted' \in BOOLEAN /\ late' \in BOOLEAN /\ editable' \in BOOLEAN
    BY <1>7 DEF Deleted, DeadlinePasses, TickPasses, DashboardShape
  <2> QED BY <2>1 DEF DashboardShape, RowsOK, NoProbeLeft, CardOK, Pending
<1>8. CASE UNCHANGED dashboardVars
  BY <1>8 DEF dashboardVars, DashboardShape, RowsOK, NoProbeLeft, CardOK, Pending
<1> QED
  BY <1>1, <1>2, <1>3, <1>4, <1>5, <1>6, <1>7, <1>8 DEF DashboardNext, DriverNext

\* However the driver ends, and whichever probes answer, hang or answer during the last
\* edit: no probe is left running, none that answered is given up, and the card that is
\* left behind is complete unless an edit failed (run_live_dashboard()).
THEOREM DashboardKept == DashboardSpec => [](DashboardTypeOK /\ DashboardSound)
<1>1. DashboardInv => DashboardTypeOK
  BY DEF DashboardInv, DashboardShape, RowsOK, DashboardTypeOK
<1>2. DashboardInv => DashboardSound
  BY DEF DashboardInv, RowsOK, CardOK, HealthyNotAbandoned, CardComplete, DashboardSound
<1> QED
  BY DashboardInitially, DashboardStepwise, <1>1, <1>2, PTL DEF DashboardSpec

-----------------------------------------------------------------------------
(* All of them together.                                                   *)

\* A step of the whole is a step of the service that was chosen, and of no other.
LEMMA OneServiceSteps ==
    ASSUME [MCNext]_serviceVars
    PROVE  /\ [LockNext]_lockVars /\ [WatchdogNext]_watchdogVars /\ [PoolNext]_poolVars
           /\ [StreamNext]_streamVars /\ [DebugNext]_debugVars
           /\ [DashboardNext]_dashboardVars /\ [SpotifyNext]_spotifyVars
           /\ [ArchiveNext]_archiveVars
<1>1. CASE MCNext
  <2>1. [LockNext]_lockVars
    BY <1>1 DEF MCNext, Quiet
  <2>2. [WatchdogNext]_watchdogVars
    BY <1>1 DEF MCNext, Quiet
  <2>3. [PoolNext]_poolVars
    BY <1>1 DEF MCNext, Quiet
  <2>4. [StreamNext]_streamVars
    BY <1>1 DEF MCNext, Quiet
  <2>5. [DebugNext]_debugVars
    BY <1>1 DEF MCNext, Quiet
  <2>6. [DashboardNext]_dashboardVars
    BY <1>1 DEF MCNext, Quiet
  <2>7. [SpotifyNext]_spotifyVars
    BY <1>1 DEF MCNext, Quiet
  <2>8. [ArchiveNext]_archiveVars
    BY <1>1 DEF MCNext, Quiet
  <2> QED BY <2>1, <2>2, <2>3, <2>4, <2>5, <2>6, <2>7, <2>8
<1>2. CASE UNCHANGED serviceVars
  <2>1. /\ UNCHANGED lockVars /\ UNCHANGED watchdogVars /\ UNCHANGED poolVars
        /\ UNCHANGED streamVars /\ UNCHANGED debugVars /\ UNCHANGED dashboardVars
        /\ UNCHANGED spotifyVars /\ UNCHANGED archiveVars
    BY <1>2 DEF serviceVars
  <2> QED BY <2>1
<1> QED BY <1>1, <1>2

\* What the runs check is, for each of the services, its own specification.
THEOREM ServicesRefine ==
    MCSpec => /\ LockSpec /\ WatchdogSpec /\ PoolSpec /\ StreamSpec /\ DebugSpec
              /\ DashboardSpec /\ SpotifySpec /\ ArchiveSpec
<1>1. MCInit => /\ LockInit /\ WatchdogInit /\ PoolInit /\ StreamInit /\ DebugInit
                /\ DashboardInit /\ SpotifyInit /\ ArchiveInit
  BY DEF MCInit
<1> QED
  BY <1>1, OneServiceSteps, PTL DEF MCSpec, LockSpec, WatchdogSpec, PoolSpec, StreamSpec,
     DebugSpec, DashboardSpec, SpotifySpec, ArchiveSpec

\* Every variable of every service has its type.
THEOREM ServicesTypeCorrect == MCSpec => []ServicesTypeOK
<1>1. LockSpec => []LockTypeOK
  <2>1. LockInv => LockTypeOK
    BY DEF LockInv
  <2> QED BY LockInitially, LockStepwise, <2>1, PTL DEF LockSpec
<1>2. ArchiveSpec => []ArchiveTypeOK
  <2>1. ArchiveInv => ArchiveTypeOK
    BY DEF ArchiveInv
  <2> QED BY ArchiveInitially, ArchiveStepwise, <2>1, PTL DEF ArchiveSpec
<1> QED
  BY <1>1, <1>2, ServicesRefine, WatchdogTypeCorrect, PoolTypeCorrect, StreamTypeCorrect,
     DebugTypeCorrect, DashboardKept, SpotifyTypeCorrect, PTL DEF ServicesTypeOK

\* Nothing that either pool has built stays behind when it is closed, whoever was half way
\* through a build, a retry or a query (ProcessPool, PostgresHistoryArchive).
THEOREM PoolsKept == ASSUME OneCloser PROVE MCSpec => []PoolsSound
BY PoolKept, OnePoolUntilClosed, ServicesRefine, PTL DEF PoolsSound

\* What else the run of the services checks of their states holds in all of them.
THEOREM ServicesKept ==
    MCSpec => [](/\ HolderKeepsLock /\ TeardownNotCut /\ StreamCacheSound
                 /\ ChoicesSound /\ DashboardSound)
BY LockKept, TeardownFinishes, StreamCacheKept, ChoicesKept, DashboardKept, ServicesRefine, PTL

\* So do the two properties of its steps: no request with a token that has run out, and no
\* healthy executor dropped before the close (SpotifyClient, ProcessPool).
THEOREM ServiceStepsKept == MCSpec => LiveToken /\ HealthyKept
BY TokensLive, HealthyExecutorKept, ServicesRefine
=============================================================================
