--------------------------- MODULE AloneWatchdog ---------------------------
(***************************************************************************)
(* VoiceWatchdog: the countdown that takes the bot out of a voice channel it   *)
(* is alone in.  The members of the channel change at once; the handlers of the  *)
(* events run later, in order.  A cancelled task learns of it a turn later, and  *)
(* whichever turn that is, its finally empties the guild's slot in the table.    *)
(*                                                                         *)
(* One guild: humans and other bots come and go, an admin moves, mutes or kicks   *)
(* the bot, players are registered and torn down, also one while the teardown of  *)
(* another is still awaiting.  A clock counts in units of which the countdown     *)
(* waits Patience.                                                              *)
(***************************************************************************)
EXTENDS Naturals, Sequences

CONSTANTS
    Patience,  \* ALONE_DISCONNECT_SECS, in ticks
    MaxMoves   \* bound: what members, admins and commands do

ASSUME WatchdogAssumption == Patience \in Nat \ {0} /\ MaxMoves \in Nat

\* The countdown tasks, in the order they are created: a move starts one at most.
Timers == 1 .. MaxMoves
NoTimer == 0

VARIABLES
    humans,     \* a human is in the bot's channel
    voice,      \* guild.voice_client: the bot is connected
    moves,
    events,     \* the voice states not handled yet, the oldest first
    registered, \* the guild is in cog.mps
    stopping,   \* cleanup() calls, other than a countdown's, before their disconnect
    timer,      \* _timers[guild]
    phase,      \* [Timers -> where the countdown is]
    sleeps,     \* [Timers -> ticks left to sleep]
    cancelled,  \* countdowns whose cancel() has not reached them yet
    alone,      \* history: ticks alone since a handler saw a human there, up to Patience
    missed      \* history: alone now, and no member's event was there to start a countdown

watchdogVars == <<humans, voice, moves, events, registered, stopping, timer, phase, sleeps,
                  cancelled, alone, missed>>

\* A member came or went, in the bot's channel or in one it has left since; the bot's own
\* voice state changed; the bot is out of voice.
Kinds == {"member", "elsewhere", "own", "left"}

\* "new" has not run yet; "leaving" is in cleanup() before its disconnect, "clearing"
\* after it.
Phases == {"unborn", "new", "notice", "asleep", "leaving", "clearing", "ended"}

WatchdogInit ==
    /\ humans = TRUE /\ voice = TRUE /\ registered = TRUE
    /\ moves = 0
    /\ events = <<>>
    /\ stopping = 0
    /\ timer = NoTimer
    /\ phase = [t \in Timers |-> "unborn"]
    /\ sleeps = [t \in Timers |-> 0]
    /\ cancelled = {}
    /\ alone = 0
    /\ missed = FALSE

Alive(t) == phase[t] \notin {"unborn", "ended"}
PhaseTo(t, to) == phase' = [phase EXCEPT ![t] = to]

\* A seeded mistake: cancel() does not look who calls it.
CancelsAnyone(t) ==
    /\ timer' = NoTimer
    /\ cancelled' = IF timer # NoTimer /\ Alive(timer) THEN cancelled \cup {timer} ELSE cancelled

\* cancel(): the slot is emptied, and the countdown in it cancelled unless it is over
\* or calls this itself.
Cancels(t) ==
    /\ timer' = NoTimer
    /\ cancelled' = IF timer # NoTimer /\ Alive(timer) /\ timer # t
                    THEN cancelled \cup {timer} ELSE cancelled

\* A seeded mistake: no finally.
KeepsSlot == UNCHANGED timer

\* The finally of _countdown(), which does not look whose slot it is.
PopsSlot == timer' = NoTimer

-----------------------------------------------------------------------------
(* Discord and its events.                                                  *)

Acts == moves < MaxMoves /\ moves' = moves + 1

\* Somebody enters or leaves the bot's channel: the last human, the first one, or
\* another bot.
MemberMoves ==
    /\ Acts
    /\ voice
    /\ humans' \in BOOLEAN
    /\ events' = Append(events, "member")
    /\ UNCHANGED <<voice, registered, stopping, timer, phase, sleeps, cancelled, alone, missed>>

\* What the members did whose channel the bot leaves.
Behind == [i \in DOMAIN events |-> IF events[i] = "member" THEN "elsewhere" ELSE events[i]]

\* The bot is muted or deafened where it is, or moved to a channel with humans in it or
\* none; the members of the old one may come along.
BotStateChanges ==
    /\ Acts
    /\ voice
    /\ \/ /\ events' = Append(events, "own")
          /\ UNCHANGED humans
       \/ /\ humans' \in BOOLEAN
          /\ \E pending \in {events, Behind} : events' = Append(pending, "own")
    /\ UNCHANGED <<voice, registered, stopping, timer, phase, sleeps, cancelled, alone, missed>>

LeavesVoice == voice' = FALSE /\ events' = Append(events, "left")

\* An admin takes the bot out of the channel.
BotKicked ==
    /\ Acts
    /\ voice
    /\ LeavesVoice
    /\ UNCHANGED <<humans, registered, stopping, timer, phase, sleeps, cancelled, alone, missed>>

\* -join, -play or restore_guild() connect, to a channel with or without humans.  Nobody
\* else's voice state changed; a handshake takes longer than the handlers of what was
\* before it.
BotJoins ==
    /\ Acts
    /\ ~voice
    /\ events = <<>>
    /\ voice' = TRUE
    /\ humans' \in BOOLEAN
    /\ alone' = 0
    /\ missed' = ~humans'
    /\ UNCHANGED <<events, registered, stopping, timer, phase, sleeps, cancelled>>

\* get_mp(), before any command, or the end of restore_guild(): while an older player is
\* torn down too, and whoever is in the channel.
Registers ==
    /\ Acts
    /\ ~registered
    /\ registered' = TRUE
    /\ missed' = (voice /\ ~humans)
    /\ UNCHANGED <<humans, voice, events, stopping, timer, phase, sleeps, cancelled, alone>>

\* cleanup() up to its first await, called by the countdown t or by another task: it
\* empties the slot, and whoever pops the player tears it down.
BeginsCleanup(t) ==
    /\ Cancels(t)
    /\ registered' = FALSE
    /\ stopping' = IF registered /\ t = NoTimer THEN stopping + 1 ELSE stopping

\* on_voice_state_update() for a member of a channel that is not the bot's.
HandlesElsewhere ==
    /\ Head(events) = "elsewhere"
    /\ UNCHANGED <<registered, stopping, timer, cancelled, phase, missed>>

\* For a member of the bot's channel: nothing without a player or a voice client; else
\* the countdown is cancelled, and a new one started if no human is there.
HandlesMember ==
    /\ Head(events) = "member"
    /\ \/ /\ ~(registered /\ voice)
          /\ UNCHANGED <<timer, cancelled, phase, missed>>
       \/ /\ registered /\ voice /\ humans
          /\ Cancels(NoTimer)
          /\ missed' = FALSE
          /\ UNCHANGED phase
       \/ /\ registered /\ voice /\ ~humans
          /\ \E t \in Timers :
               /\ {u \in Timers : phase[u] # "unborn"} = 1 .. t - 1
               /\ PhaseTo(t, "new")
               /\ timer' = t
          /\ cancelled' = IF timer # NoTimer /\ Alive(timer)
                          THEN cancelled \cup {timer} ELSE cancelled
          /\ missed' = FALSE
    /\ UNCHANGED <<registered, stopping>>

\* For the bot itself, with a channel before and after: the countdown is cancelled, and
\* none is started.
HandlesOwn ==
    /\ Head(events) = "own"
    /\ Cancels(NoTimer)
    /\ missed' = ~humans
    /\ UNCHANGED <<registered, stopping, phase>>

\* For the bot itself, out of voice: full cleanup, if a player is registered by now.
HandlesLeft ==
    /\ Head(events) = "left"
    /\ \/ registered /\ BeginsCleanup(NoTimer)
       \/ ~registered /\ UNCHANGED <<registered, stopping, timer, cancelled>>
    /\ UNCHANGED <<phase, missed>>

\* The handlers change the table before their first await, in the order of the events.
Handles ==
    /\ events # <<>>
    /\ events' = Tail(events)
    /\ HandlesMember \/ HandlesElsewhere \/ HandlesOwn \/ HandlesLeft
    /\ alone' = IF humans THEN 0 ELSE alone
    /\ UNCHANGED <<humans, voice, moves, sleeps>>

-----------------------------------------------------------------------------
(* The countdown and the cleanups.                                          *)

\* The task's first turn: the notice needs a player to send it.
CountdownStarts(t) ==
    /\ phase[t] = "new"
    /\ t \notin cancelled
    /\ IF registered
       THEN PhaseTo(t, "notice") /\ UNCHANGED sleeps
       ELSE PhaseTo(t, "asleep") /\ sleeps' = [sleeps EXCEPT ![t] = Patience]
    /\ UNCHANGED <<humans, voice, moves, events, registered, stopping, timer, cancelled, alone,
                   missed>>

\* A seeded mistake: a notice that fails ends the countdown.
SleepsAfterNotice(t) ==
    /\ phase[t] = "notice"
    /\ t \notin cancelled
    /\ \/ PhaseTo(t, "asleep") /\ sleeps' = [sleeps EXCEPT ![t] = Patience] /\ UNCHANGED timer
       \/ PhaseTo(t, "ended") /\ PopsSlot /\ UNCHANGED sleeps
    /\ UNCHANGED <<humans, voice, moves, events, registered, stopping, cancelled, alone, missed>>

\* The notice is sent, or failed, and the sleep begins.
CountdownSleeps(t) ==
    /\ phase[t] = "notice"
    /\ t \notin cancelled
    /\ PhaseTo(t, "asleep")
    /\ sleeps' = [sleeps EXCEPT ![t] = Patience]
    /\ UNCHANGED <<humans, voice, moves, events, registered, stopping, timer, cancelled, alone,
                   missed>>

\* The sleep is over: alone, it calls cleanup(), which finds a player to tear down or
\* none; in company, or out of voice, it does nothing.  Whatever is done ends in the
\* finally.
CountdownDecides(t) ==
    /\ phase[t] = "asleep"
    /\ sleeps[t] = 0
    /\ t \notin cancelled
    /\ \/ /\ voice /\ ~humans /\ registered
          /\ PhaseTo(t, "leaving")
          /\ BeginsCleanup(t)
       \/ /\ voice /\ ~humans /\ ~registered
          /\ PhaseTo(t, "ended")
          /\ BeginsCleanup(t)
       \/ /\ humans \/ ~voice
          /\ PhaseTo(t, "ended")
          /\ PopsSlot
          /\ UNCHANGED <<registered, stopping, cancelled>>
    /\ UNCHANGED <<humans, voice, moves, events, sleeps, alone, missed>>

\* The cleanup() a countdown runs comes to its disconnect, finds no voice client, or
\* fails on the way there and gives up.
CountdownDisconnects(t) ==
    /\ phase[t] = "leaving"
    /\ t \notin cancelled
    /\ \/ voice /\ LeavesVoice /\ PhaseTo(t, "clearing") /\ UNCHANGED timer
       \/ ~voice /\ PhaseTo(t, "clearing") /\ UNCHANGED <<voice, events, timer>>
       \/ PhaseTo(t, "ended") /\ PopsSlot /\ UNCHANGED <<voice, events>>
    /\ UNCHANGED <<humans, moves, registered, stopping, sleeps, cancelled, alone, missed>>

\* Its last await, then the finally.
CountdownEnds(t) ==
    /\ phase[t] = "clearing"
    /\ t \notin cancelled
    /\ PhaseTo(t, "ended")
    /\ PopsSlot
    /\ UNCHANGED <<humans, voice, moves, events, registered, stopping, sleeps, cancelled, alone,
                   missed>>

\* CancelledError, wherever the task was parked, then the finally; a task that never ran
\* has none.
CountdownCancelled(t) ==
    /\ t \in cancelled
    /\ PhaseTo(t, "ended")
    /\ IF phase[t] = "new" THEN UNCHANGED timer ELSE PopsSlot
    /\ cancelled' = cancelled \ {t}
    /\ UNCHANGED <<humans, voice, moves, events, registered, stopping, sleeps, alone, missed>>

\* -stop, or a player that gives up by itself.
Stops ==
    /\ registered
    /\ BeginsCleanup(NoTimer)
    /\ UNCHANGED <<humans, voice, moves, events, phase, sleeps, alone, missed>>

\* Another task's cleanup() disconnects, finds no voice client, or fails on the way.
CleanupDisconnects ==
    /\ stopping > 0
    /\ stopping' = stopping - 1
    /\ \/ voice /\ LeavesVoice
       \/ UNCHANGED <<voice, events>>
    /\ UNCHANGED <<humans, moves, registered, timer, phase, sleeps, cancelled, alone, missed>>

\* Time passes when no task can run and no notice is out.
Ticks ==
    /\ events = <<>> /\ cancelled = {}
    /\ \A t \in Timers : /\ phase[t] \notin {"new", "notice"}
                         /\ phase[t] = "asleep" => sleeps[t] > 0
    /\ sleeps' = [t \in Timers |-> IF phase[t] = "asleep" THEN sleeps[t] - 1 ELSE sleeps[t]]
    /\ alone' = IF voice /\ ~humans /\ alone < Patience THEN alone + 1 ELSE alone
    /\ <<sleeps, alone>>' # <<sleeps, alone>>
    /\ UNCHANGED <<humans, voice, moves, events, registered, stopping, timer, phase, cancelled,
                   missed>>

CountdownNext(t) ==
    \/ CountdownStarts(t) \/ CountdownSleeps(t) \/ CountdownDecides(t)
    \/ CountdownDisconnects(t) \/ CountdownEnds(t) \/ CountdownCancelled(t)

WatchdogNext ==
    \/ MemberMoves \/ BotStateChanges \/ BotKicked \/ BotJoins \/ Registers
    \/ Handles \/ Stops \/ CleanupDisconnects \/ Ticks
    \/ \E t \in Timers : CountdownNext(t)

WatchdogSpec == WatchdogInit /\ [][WatchdogNext]_watchdogVars

\* Events are handled, time passes and the tasks run, a disconnect returns or fails;
\* nobody need move, stop or play.
WatchdogFairness ==
    /\ WF_watchdogVars(Handles)
    /\ WF_watchdogVars(CleanupDisconnects)
    /\ WF_watchdogVars(Ticks)
    /\ \A t \in Timers : WF_watchdogVars(CountdownNext(t))

WatchdogFairSpec == WatchdogSpec /\ WatchdogFairness

-----------------------------------------------------------------------------
(* Properties.                                                             *)

\* Each variable has its type; the slot never holds a countdown that is over.
WatchdogTypeOK ==
    /\ humans \in BOOLEAN /\ voice \in BOOLEAN /\ registered \in BOOLEAN /\ missed \in BOOLEAN
    /\ alone \in 0 .. Patience
    /\ moves \in 0 .. MaxMoves
    /\ events \in Seq(Kinds)
    /\ stopping \in Nat
    /\ timer \in Timers \cup {NoTimer} /\ (timer # NoTimer => Alive(timer))
    /\ phase \in [Timers -> Phases]
    /\ sleeps \in [Timers -> 0 .. Patience]
    /\ cancelled \subseteq Timers

\* A countdown that tears the player down is never cancelled in the middle of it: not by
\* the cleanup() it calls, nor by a member's event, a stop or a cleanup() of a player that
\* was registered while the teardown was awaiting.
TeardownNotCut == \A t \in cancelled : phase[t] \notin {"leaving", "clearing"}

\* A bot that stays alone leaves, through every cancelled, restarted or forgotten
\* countdown before, once a member's event has told the watchdog: not if the bot came to
\* be alone, or lost its countdown, by its own voice state, a join or a new player.
AloneLeaves ==
    (registered /\ voice /\ ~humans /\ ~missed) ~> (~registered \/ ~voice \/ humans \/ missed)

\* What the class's docstring says: the bot is disconnected once it is alone.
LeavesOnceAlone == (registered /\ voice /\ ~humans) ~> (~registered \/ ~voice \/ humans)

\* The countdown's docstring: cancelled if a human rejoins.  When every event has been
\* handled, the bot leaves on its own only after being alone for the whole of
\* ALONE_DISCONNECT_SECS.
LeavesAfterPatience ==
    [][\A t \in Timers : phase[t] = "asleep" /\ phase'[t] = "leaving" /\ events = <<>> =>
           alone = Patience]_watchdogVars
=============================================================================
