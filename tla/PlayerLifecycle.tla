-------------------------- MODULE PlayerLifecycle --------------------------
(***************************************************************************)
(* How a guild's MusicPlayer comes and goes: get_mp() and start(), the        *)
(* restore from Redis, the playback gate and its holds, the cold -play and     *)
(* -resume with the -join they run, restore_guild() after a restart, and        *)
(* cleanup(), which every teardown goes through.                               *)
(*                                                                         *)
(* The queue's own mechanics are GuildQueue's and PlaybackLoop's; here a      *)
(* player's memory and the Redis list are plain sequences, and what matters    *)
(* is which player holds what while others are created and dropped around the   *)
(* awaits.  One step runs a coroutine from one await to the next.              *)
(***************************************************************************)
EXTENDS Integers, Sequences, FiniteSets

CONSTANTS
    Songs,       \* the songs of the guild
    NoSong,      \* no current_song, nothing parked
    Cmds,        \* command invocations
    KindOf,      \* [Cmds -> {"play", "resume", "join", "stop", "other"}]
    SongOf,      \* [Cmds -> Songs]: what a -play asks for
    Recoveries,  \* restore_guild() tasks: on_ready may fire again
    NoOne,       \* nobody holds the lock, nobody is connecting
    Stored,      \* the Redis contents the process may start on
    Casts,       \* bound: which commands and tasks may run in one behaviour, and how many
                 \* faults: ejections, and failed connects, extractions, reads and waits
    MaxPlayers   \* bound: how many players are created

Kinds == {"play", "resume", "join", "stop", "other"}
Players == 1 .. MaxPlayers
NoPlayer == 0

\* A queued song, and whether the Redis list has an entry for it (persisted).
Item == [song : Songs, listed : BOOLEAN]

ASSUME LifecycleAssumption ==
    /\ NoSong \notin Songs
    /\ IsFiniteSet(Cmds)
    /\ KindOf \in [Cmds -> Kinds]
    /\ SongOf \in [Cmds -> Songs]
    /\ Cmds \cap Recoveries = {}
    /\ NoOne \notin Cmds \cup Recoveries
    /\ Stored \subseteq [list : Seq(Songs), parked : Songs \cup {NoSong}, connection : BOOLEAN]
    /\ MaxPlayers \in Nat
    /\ Casts \subseteq [tasks : SUBSET (Cmds \cup Recoveries), faults : Nat]

VARIABLES
    mps,        \* the guild's registered player
    made,       \* players created so far
    \* [Players -> ...]: a player's state
    gate,       \* _playback_gate is set
    holds,      \* _playback_holds
    restore,    \* _restore_task: unborn, reading, read, done
    snapshot,   \* what get_playback_snapshot() returned
    loop,       \* the await loop() is parked at
    queue,      \* the songs waiting in memory
    item,       \* the song this iteration took
    claimed,    \* _skip_history_for is that song
    stopTask,   \* create_task(self.stop()) has not run yet
    down,       \* how far the cleanup() that popped it is
    pending,    \* pending_history of that cleanup()
    \* Discord and Redis
    voice,      \* the guild's voice client: who connects it, handshake done
    ejected,    \* a disconnect's voice-state event is not handled yet
    source,     \* what the voice thread plays, whose it is, and whether a frame came
    faults,     \* how many are still to come
    list,       \* guild:{id}:queue
    parked,     \* current_song_* of guild:{id}:state
    connection, \* its channel ids are there
    lock,       \* lock:guild:{id}:recovery
    \* tasks
    cmd,        \* [Cmds -> [at, mp, waits]]: await, bound player, cleanup it waits for
    recovery,   \* [Recoveries -> the await it is parked at]
    \* history variables
    rows,       \* [Songs -> Nat]: history rows written
    heard,      \* songs a listener heard: a frame came while a teardown could claim them
    late        \* songs whose first frame came after the teardown's claim

cogVars == <<mps, made, gate, restore, loop>>
loopVars == <<queue, item, claimed, stopTask, snapshot>>
teardownVars == <<down, pending>>
voiceVars == <<voice, ejected, source>>
redisVars == <<list, parked, connection>>
taskVars == <<cmd, recovery, lock>>
ghostVars == <<rows, heard, late>>
vars == <<cogVars, holds, loopVars, teardownVars, voiceVars, redisVars, taskVars, ghostVars,
          faults>>

\* A step that is a fault, while the bound allows one.
Fault == faults > 0 /\ faults' = faults - 1

\* A 300s timer fires: freely while no command runs, else as one of the faults.
Quiet == \A c \in Cmds : cmd[c].at \in {"idle", "finished"}
TimerFires == IF Quiet THEN UNCHANGED faults ELSE Fault

NoVoice == [by |-> NoOne, up |-> FALSE]
NoSource == [by |-> NoPlayer, song |-> NoSong, framed |-> FALSE]
Connecting(t) == [by |-> t, up |-> FALSE]

LoopPoints == {"unborn", "gate", "fired", "queue", "resolving", "started", "playing",
               "ended", "writing", "written", "off"}
NothingRead == [list |-> <<>>, parked |-> NoSong]

\* The fragment produced audio: the play is worth a row.
Audible(p) == loop[p] \in {"playing", "ended", "writing", "written"}
NoItem == [song |-> NoSong, listed |-> FALSE]
Requested(c) == [song |-> SongOf[c], listed |-> TRUE]

-----------------------------------------------------------------------------
(* GuildRedisStore: what the transactions do to the state hash.            *)

SetConnection == connection' = TRUE
SetCurrentSongState(s) == parked' = s
ClearSongEndState == parked' = NoSong

\* pop_queue_and_start_song(): an LPOP of whatever is first, and the state, at once.
PopQueueAndStartSong(s) ==
    /\ list' = IF list = <<>> THEN list ELSE Tail(list)
    /\ SetCurrentSongState(s)

\* clear_connection(): the channel ids and every current_song_* field.
ClearConnection == connection' = FALSE /\ ClearSongEndState

-----------------------------------------------------------------------------
(* The player.                                                             *)

\* MusicPlayer.start(): the gate opens at once if the guild has a voice client.
Start(p) ==
    /\ made < MaxPlayers
    /\ p = made + 1
    /\ made' = p
    /\ gate' = [gate EXCEPT ![p] = voice # NoVoice]
    /\ restore' = [restore EXCEPT ![p] = "reading"]
    /\ loop' = [loop EXCEPT ![p] = "gate"]

\* get_mp(): the registered player, or a new one; synchronous.
GetPlayer(p) ==
    \/ /\ mps # NoPlayer
       /\ p = mps
       /\ UNCHANGED cogVars
    \/ /\ mps = NoPlayer
       /\ Start(p)
       /\ mps' = p

\* Its tasks are cancelled: nothing waits at its gate any more.
Dead(p) == down[p] \notin {"up", "claimed"}

\* A seeded mistake: a join opens the gate whoever holds it.
OpenedAnyway(g, p) == [g EXCEPT ![p] = @ \/ ~Dead(p)]

\* open_playback_gate() on g: a no-op while a hold is outstanding.
Opened(g, p) == [g EXCEPT ![p] = @ \/ (holds[p] = 0 /\ ~Dead(p))]

\* A seeded mistake: the hold is returned twice.
ReleaseHoldTwice(p) ==
    /\ holds' = [holds EXCEPT ![p] = @ - 2]
    /\ gate' = [gate EXCEPT ![p] = @ \/ (holds[p] = 1 /\ ~Dead(p))]

\* The exit of defer_playback(): the last hold opens the gate.
ReleaseHold(p) ==
    /\ holds' = [holds EXCEPT ![p] = @ - 1]
    /\ gate' = [gate EXCEPT ![p] = @ \/ (holds[p] = 1 /\ ~Dead(p))]

CanRejoinCold(p) == loop[p] \notin {"started", "playing"} /\ ~gate[p]

\* _restore_state(): one pipelined read, or none at all.
RestoreReads(p) ==
    /\ restore[p] = "reading"
    /\ \/ /\ snapshot' = [snapshot EXCEPT ![p] = [list |-> list, parked |-> parked]]
          /\ restore' = [restore EXCEPT ![p] = "read"]
          /\ UNCHANGED faults
       \/ /\ Fault
          /\ restore' = [restore EXCEPT ![p] = "done"]
          /\ UNCHANGED snapshot
    /\ UNCHANGED <<mps, made, gate, holds, loop, queue, item, claimed, stopTask, teardownVars,
                   voiceVars, redisVars, taskVars, ghostVars>>

\* The song playing at the crash goes to the queue's head, in memory only, and its
\* fields in the state hash are cleared; what the list held follows.  The finally
\* wakes all waiters.
RestoreApplies(p) ==
    /\ restore[p] = "read"
    /\ LET crashed == snapshot[p].parked IN
         /\ queue' = [queue EXCEPT ![p] =
              @ \o (IF crashed = NoSong THEN <<>> ELSE <<[song |-> crashed, listed |-> FALSE]>>)
                \o [i \in 1 .. Len(snapshot[p].list) |->
                      [song |-> snapshot[p].list[i], listed |-> TRUE]]]
         /\ IF crashed = NoSong THEN UNCHANGED parked ELSE ClearSongEndState
    /\ snapshot' = [snapshot EXCEPT ![p] = NothingRead]
    /\ restore' = [restore EXCEPT ![p] = "done"]
    /\ UNCHANGED <<mps, made, gate, holds, loop, item, claimed, stopTask, teardownVars,
                   voiceVars, list, connection, taskVars, ghostVars, faults>>

-----------------------------------------------------------------------------
(* loop().                                                                 *)

LoopMoves(p, from, to) ==
    /\ loop[p] = from
    /\ loop' = [loop EXCEPT ![p] = to]
    /\ UNCHANGED <<mps, made, holds, gate, restore, snapshot, teardownVars,
                   voice, ejected, connection, taskVars>>
LoopTurn(p, from, to) == LoopMoves(p, from, to) /\ UNCHANGED source
LoopStep(p, from, to) == LoopTurn(p, from, to) /\ UNCHANGED faults

\* The gate is waited for once the restore is over.
LoopPassesGate(p) ==
    /\ restore[p] = "done"
    /\ gate[p]
    /\ LoopStep(p, "gate", "queue")
    /\ UNCHANGED <<queue, item, claimed, stopTask, list, parked, ghostVars>>

\* The gate's timer fires; its handler runs a turn later.
GateTimerFires(p) ==
    /\ restore[p] = "done"
    /\ ~gate[p]
    /\ LoopTurn(p, "gate", "fired")
    /\ TimerFires
    /\ UNCHANGED <<queue, item, claimed, stopTask, list, parked, ghostVars>>

\* A seeded mistake: no hold counts as a hold.
GateHandlerWaitsOn(p) ==
    /\ LoopStep(p, "fired", "gate")
    /\ UNCHANGED <<stopTask, queue, item, claimed, list, parked, ghostVars>>

\* A hold, or a gate that opened in that turn, means wait again.
GateHandler(p) ==
    /\ \/ /\ holds[p] > 0 \/ gate[p]
          /\ LoopStep(p, "fired", "gate")
          /\ UNCHANGED stopTask
       \/ /\ holds[p] = 0 /\ ~gate[p]
          /\ LoopStep(p, "fired", "off")
          /\ stopTask' = [stopTask EXCEPT ![p] = TRUE]
    /\ UNCHANGED <<queue, item, claimed, list, parked, ghostVars>>

\* queue_get(), or its 300s timeout.
LoopTakes(p) ==
    /\ queue[p] # <<>>
    /\ LoopStep(p, "queue", "resolving")
    /\ item' = [item EXCEPT ![p] = Head(queue[p])]
    /\ queue' = [queue EXCEPT ![p] = Tail(@)]
    /\ UNCHANGED <<claimed, stopTask, list, parked, ghostVars>>

LoopIdlesOut(p) ==
    /\ queue[p] = <<>>
    /\ LoopTurn(p, "queue", "off")
    /\ TimerFires
    /\ stopTask' = [stopTask EXCEPT ![p] = TRUE]
    /\ UNCHANGED <<queue, item, claimed, list, parked, ghostVars>>

\* The commit, vc.play(), and the start transaction: pop_queue_and_start_song(), or
\* set_current_song_state() for a song that was never on the list.
LoopPlays(p) ==
    /\ voice.up
    /\ source = NoSource
    /\ LoopMoves(p, "resolving", "started")
    /\ source' = [by |-> p, song |-> item[p].song, framed |-> FALSE]
    /\ IF item[p].listed
       THEN PopQueueAndStartSong(item[p].song)
       ELSE SetCurrentSongState(item[p].song) /\ UNCHANGED list
    /\ UNCHANGED <<queue, item, claimed, stopTask, ghostVars, faults>>

\* No client, one in mid-handshake, or one that still plays the song of a player in
\* teardown: it raises, and the handler drops the song from memory and clears the
\* state hash.  The list keeps the entry.
LoopRaises(p) ==
    /\ ~voice.up \/ source # NoSource
    /\ LoopStep(p, "resolving", "queue")
    /\ item' = [item EXCEPT ![p] = NoItem]
    /\ ClearSongEndState
    /\ UNCHANGED <<queue, claimed, stopTask, list, ghostVars>>

\* current_song becomes None, _ended_song keeps the play claimable.  A song without
\* a frame of audio gets no row.
LoopSongEnds(p) ==
    /\ LoopMoves(p, "playing", "ended") \/ LoopMoves(p, "started", "written")
    /\ source' = IF source.by = p THEN NoSource ELSE source
    /\ UNCHANGED <<queue, item, claimed, stopTask, list, parked, ghostVars, faults>>

\* After the prefetch: history.add(), unless the play was claimed.
LoopRecords(p) ==
    /\ LoopStep(p, "ended", IF claimed[p] THEN "written" ELSE "writing")
    /\ UNCHANGED <<queue, item, claimed, stopTask, list, parked, ghostVars>>

\* Redis executes the history pipeline; its reply is still on the way.
LoopRowLands(p) ==
    /\ LoopStep(p, "writing", "written")
    /\ rows' = [rows EXCEPT ![item[p].song] = @ + 1]
    /\ UNCHANGED <<queue, item, claimed, stopTask, list, parked, heard, late>>

\* _ended_song = None, clear_song_end_state().
LoopForgets(p) ==
    /\ LoopStep(p, "written", "queue")
    /\ item' = [item EXCEPT ![p] = NoItem]
    /\ claimed' = [claimed EXCEPT ![p] = FALSE]
    /\ ClearSongEndState
    /\ UNCHANGED <<queue, stopTask, list, ghostVars>>

-----------------------------------------------------------------------------
(* The voice thread.  vc.play() started it, and of the teardown only the         *)
(* disconnect stops it.                                                       *)

VoiceStep ==
    UNCHANGED <<mps, made, gate, holds, restore, loopVars, teardownVars, voice, ejected,
                redisVars, taskVars, rows, faults>>

\* ffmpeg delivers: produced_audio.
FirstFrame(p) ==
    /\ source.by = p
    /\ ~source.framed
    /\ source' = [source EXCEPT !.framed = TRUE]
    /\ loop' = [loop EXCEPT ![p] = IF @ = "started" THEN "playing" ELSE @]
    /\ IF down[p] = "up"
       THEN heard' = heard \cup {source.song} /\ UNCHANGED late
       ELSE late' = late \cup {source.song} /\ UNCHANGED heard
    /\ VoiceStep

\* A song whose loop was cancelled is over: nobody waits for it.
SourceEnds(p) ==
    /\ source.by = p
    /\ loop[p] = "off"
    /\ source' = NoSource
    /\ VoiceStep
    /\ UNCHANGED <<loop, heard, late>>

-----------------------------------------------------------------------------
(* cleanup().                                                              *)

UnlistedHead(p) == queue[p] # <<>> /\ ~Head(queue[p]).listed

\* A seeded mistake: no _ended_song fallback.
ClaimCurrentOnly(p) == IF loop[p] = "playing" /\ ~claimed[p] THEN item[p].song ELSE NoSong

\* claim_current_song_for_history(): current_song or _ended_song, once, if heard.
Claim(p) ==
    IF Audible(p) /\ ~claimed[p] THEN item[p].song ELSE NoSong

\* The atomic pop and the claim: whichever player is registered now.
Cleanup ==
    IF mps = NoPlayer
    THEN UNCHANGED <<mps, down, pending, claimed>>
    ELSE /\ mps' = NoPlayer
         /\ down' = [down EXCEPT ![mps] = "claimed"]
         /\ pending' = [pending EXCEPT ![mps] = Claim(mps)]
         /\ claimed' = [claimed EXCEPT ![mps] = @ \/ Claim(mps) # NoSong]

TeardownStep(p, from, to) ==
    /\ down[p] = from
    /\ down' = [down EXCEPT ![p] = to]
    /\ UNCHANGED <<mps, made, holds, stopTask, list, taskVars, heard, late, faults>>

\* A seeded mistake: a cancelled restore wakes nobody.
TeardownForgetsWaiters(p) ==
    /\ TeardownStep(p, "claimed", "cancelled")
    /\ loop' = [loop EXCEPT ![p] = "off"]
    /\ restore' = [restore EXCEPT ![p] = IF @ = "done" THEN @ ELSE "unborn"]
    /\ snapshot' = [snapshot EXCEPT ![p] = NothingRead]
    /\ item' = [item EXCEPT ![p] = NoItem]
    /\ claimed' = [claimed EXCEPT ![p] = FALSE]
    /\ gate' = [gate EXCEPT ![p] = FALSE]
    /\ queue' = [queue EXCEPT ![p] = <<>>]
    /\ UNCHANGED <<pending, voiceVars, parked, connection, rows>>

\* gather(cancel_task(...)): the restore's finally still wakes its waiters.  Of the
\* memory of a dropped player only a crash-recovered head is read again, by a
\* command that holds its gate.
TeardownCancels(p) ==
    /\ TeardownStep(p, "claimed", "cancelled")
    /\ loop' = [loop EXCEPT ![p] = "off"]
    /\ restore' = [restore EXCEPT ![p] = "done"]
    /\ snapshot' = [snapshot EXCEPT ![p] = NothingRead]
    /\ item' = [item EXCEPT ![p] = NoItem]
    /\ claimed' = [claimed EXCEPT ![p] = FALSE]
    /\ gate' = [gate EXCEPT ![p] = FALSE]
    /\ queue' = [queue EXCEPT ![p] = IF UnlistedHead(p) /\ holds[p] > 0 THEN <<Head(@)>> ELSE <<>>]
    /\ UNCHANGED <<pending, voiceVars, parked, connection, rows>>

TeardownDisconnects(p) ==
    /\ TeardownStep(p, "cancelled", "silent")
    /\ voice' = NoVoice
    /\ ejected' = (ejected \/ voice.up)
    /\ source' = NoSource
    /\ UNCHANGED <<gate, restore, loop, loopVars, pending, parked, connection, rows>>

\* history.add(pending_history), then clear_connection().
TeardownRecords(p) ==
    /\ TeardownStep(p, "silent", "done")
    /\ rows' = IF pending[p] = NoSong THEN rows ELSE [rows EXCEPT ![pending[p]] = @ + 1]
    /\ pending' = [pending EXCEPT ![p] = NoSong]
    /\ ClearConnection
    /\ UNCHANGED <<gate, restore, loop, loopVars, voiceVars>>

\* The task a timed-out loop leaves behind: cog.cleanup(guild).
StopTask(p) ==
    /\ stopTask[p]
    /\ stopTask' = [stopTask EXCEPT ![p] = FALSE]
    /\ Cleanup
    /\ UNCHANGED <<made, gate, restore, loop, holds, snapshot, queue, item, voiceVars,
                   redisVars, taskVars, ghostVars, faults>>

\* The bot is thrown out; the event that says so is handled later.
Eject ==
    /\ Fault
    /\ voice.up
    /\ voice' = NoVoice
    /\ ejected' = TRUE
    /\ source' = NoSource
    /\ UNCHANGED <<cogVars, holds, loopVars, teardownVars, redisVars, taskVars, ghostVars>>

\* on_voice_state_update() case A: a full cleanup if a player is registered.
EjectHandler ==
    /\ ejected
    /\ ejected' = FALSE
    /\ Cleanup
    /\ UNCHANGED <<made, gate, restore, loop, holds, snapshot, queue, item, stopTask, voice,
                   source, faults, redisVars, taskVars, ghostVars>>

-----------------------------------------------------------------------------
(* Commands.                                                               *)

Idle == [at |-> "idle", mp |-> NoPlayer, waits |-> NoPlayer]
Finished == [at |-> "finished", mp |-> NoPlayer, waits |-> NoPlayer]

Goes(c, to) == cmd' = [cmd EXCEPT ![c].at = to]
GoesWith(c, to, p) == cmd' = [cmd EXCEPT ![c] = [at |-> to, mp |-> p, waits |-> NoPlayer]]
Returns(c) == cmd' = [cmd EXCEPT ![c] = Finished]

\* A command that calls cleanup() waits for the teardown it started, if any.
GoesAwaiting(c, to) == cmd' = [cmd EXCEPT ![c].at = to, ![c].waits = mps]
CleanupReturned(c) == cmd[c].waits # NoPlayer => down[cmd[c].waits] = "done"

\* A command's step: what no command touches.
CmdTurn(c, from) ==
    /\ cmd[c].at = from
    /\ UNCHANGED <<item, stopTask, snapshot, pending, claimed, ejected, source, recovery, lock,
                   ghostVars>>
CmdStep(c, from) == CmdTurn(c, from) /\ UNCHANGED faults
CmdFault(c, from) == CmdTurn(c, from) /\ Fault
CleanupStep(c, from) ==
    /\ cmd[c].at = from
    /\ Cleanup
    /\ UNCHANGED <<made, restore, loop, queue, item, stopTask, snapshot, ejected, source, redisVars,
                   recovery, lock, ghostVars>>

\* cog_before_invoke(): get_mp() for every command, and the channel ids of a new
\* player if the bot is in voice.  -play and -resume run one at a time.
Invoke(c) ==
    /\ CmdStep(c, "idle")
    /\ KindOf[c] \in {"play", "resume"} =>
         \A d \in Cmds \ {c} : KindOf[d] = KindOf[c] => cmd[d].at \in {"idle", "finished"}
    /\ \E p \in Players : GetPlayer(p)
    /\ connection' = (connection \/ (mps = NoPlayer /\ voice # NoVoice))
    /\ Goes(c, "entered")
    /\ UNCHANGED <<holds, queue, down, voice, list, parked>>

EnterOther(c) ==
    /\ CmdStep(c, "entered")
    /\ \/ KindOf[c] = "other" /\ Returns(c)
       \/ KindOf[c] = "join" /\ Goes(c, "connect")
    /\ UNCHANGED <<cogVars, holds, queue, down, voice, redisVars>>

\* -stop: cleanup() if the bot is in voice.
EnterStop(c) ==
    /\ KindOf[c] = "stop"
    /\ \/ /\ CmdStep(c, "entered")
          /\ voice = NoVoice
          /\ Returns(c)
          /\ UNCHANGED <<cogVars, holds, queue, down, voice, redisVars>>
       \/ /\ CleanupStep(c, "entered")
          /\ UNCHANGED faults
          /\ voice # NoVoice
          /\ GoesAwaiting(c, "stopping")
          /\ UNCHANGED <<gate, holds, voice>>

StopReturns(c) ==
    /\ CmdStep(c, "stopping")
    /\ CleanupReturned(c)
    /\ Returns(c)
    /\ UNCHANGED <<cogVars, holds, queue, down, voice, redisVars>>

\* -play: out of voice it holds the gate and joins; in voice it waits for the restore.
EnterPlay(c) ==
    /\ KindOf[c] = "play"
    /\ CmdStep(c, "entered")
    /\ \E p \in Players :
         /\ GetPlayer(p)
         /\ \/ /\ voice = NoVoice
               /\ GoesWith(c, "connect", p)
               /\ holds' = [holds EXCEPT ![p] = @ + 1]
            \/ /\ voice # NoVoice
               /\ GoesWith(c, "restoring", p)
               /\ UNCHANGED holds
    /\ UNCHANGED <<queue, down, voice, redisVars>>

\* -resume out of voice: a player that outlived its voice client is torn down first.
EnterResume(c) ==
    /\ KindOf[c] = "resume"
    /\ \/ /\ CmdStep(c, "entered")
          /\ voice # NoVoice
          /\ Returns(c)
          /\ UNCHANGED <<cogVars, queue, down>>
       \/ /\ CmdStep(c, "entered")
          /\ voice = NoVoice
          /\ \E p \in Players : GetPlayer(p) /\ CanRejoinCold(p) /\ GoesWith(c, "restoring", p)
          /\ UNCHANGED <<queue, down>>
       \/ /\ CleanupStep(c, "entered")
          /\ UNCHANGED faults
          /\ voice = NoVoice
          /\ mps \in {p \in Players : ~CanRejoinCold(p)}
          /\ GoesAwaiting(c, "rebuilding")
          /\ UNCHANGED gate
    /\ UNCHANGED <<holds, voice, list, parked, connection>>

ResumeRebuilds(c) ==
    /\ CmdStep(c, "rebuilding")
    /\ CleanupReturned(c)
    /\ \E p \in Players : GetPlayer(p) /\ GoesWith(c, "restoring", p)
    /\ UNCHANGED <<holds, queue, down, voice, redisVars>>

\* wait_for_restore(): -play goes on to extract, -resume needs something to play and
\* then holds the gate across its join.
AfterRestore(c) ==
    /\ LET p == cmd[c].mp IN
         \/ /\ CmdStep(c, "restoring")
            /\ restore[p] = "done"
            /\ \/ KindOf[c] = "play" /\ Goes(c, "append") /\ UNCHANGED holds
               \/ KindOf[c] = "resume" /\ queue[p] = <<>> /\ Returns(c) /\ UNCHANGED holds
               \/ /\ KindOf[c] = "resume"
                  /\ queue[p] # <<>>
                  /\ Goes(c, "connect")
                  /\ holds' = [holds EXCEPT ![p] = @ + 1]
         \/ /\ CmdFault(c, "restoring")
            /\ restore[p] # "done"
            /\ Returns(c)
            /\ UNCHANGED holds
    /\ UNCHANGED <<cogVars, queue, down, voice, redisVars>>

\* -join: connect unless the guild has a voice client, even one still connecting.
JoinConnects(c) ==
    /\ CmdStep(c, "connect")
    /\ IF voice = NoVoice
       THEN voice' = Connecting(c) /\ Goes(c, "handshake")
       ELSE UNCHANGED voice /\ Goes(c, "persist")
    /\ UNCHANGED <<cogVars, holds, queue, down, redisVars>>

\* A handshake of t ends; failed, it leaves no client of t's.
HandshakeSucceeds(t) == voice = Connecting(t) /\ voice' = [voice EXCEPT !.up = TRUE]
HandshakeFails(t) ==
    \/ voice = Connecting(t) /\ Fault /\ voice' = NoVoice
    \/ voice # Connecting(t) /\ UNCHANGED <<voice, faults>>

\* -join swallows a failure.
JoinHandshake(c) ==
    /\ CmdTurn(c, "handshake")
    /\ \/ HandshakeSucceeds(c) /\ Goes(c, "persist") /\ UNCHANGED faults
       \/ HandshakeFails(c) /\ Goes(c, "joined")
    /\ UNCHANGED <<cogVars, holds, queue, down, redisVars>>

\* set_connection() for whatever get_mp() returns now.
JoinPersists(c) ==
    /\ CmdStep(c, "persist")
    /\ SetConnection
    /\ \E p \in Players :
         /\ GetPlayer(p)
         /\ cmd' = [cmd EXCEPT ![c].at = "open", ![c].waits = p]
    /\ UNCHANGED <<holds, queue, down, voice, list, parked>>

JoinOpens(c) ==
    /\ CmdStep(c, "open")
    /\ gate' = Opened(gate, cmd[c].waits)
    /\ Goes(c, "joined")
    /\ UNCHANGED <<mps, made, restore, loop, holds, queue, down, voice, redisVars>>

\* _join_succeeded() asks for a connected client, not for any client.
JoinReturns(c) ==
    /\ CmdStep(c, "joined")
    /\ \/ KindOf[c] = "join" /\ Returns(c) /\ UNCHANGED <<gate, holds>>
       \/ KindOf[c] = "play" /\ voice.up /\ Goes(c, "insert") /\ UNCHANGED <<gate, holds>>
       \/ KindOf[c] = "resume" /\ voice.up /\ Returns(c) /\ ReleaseHold(cmd[c].mp)
    /\ UNCHANGED <<mps, made, restore, loop, queue, down, voice, redisVars>>

\* What sends a cold start to _abandon_cold_start(): no usable client, an extraction
\* that raised (which cancels the join wherever it is), or a restore that is too slow.
ColdStartFails(c) ==
    \/ /\ cmd[c].at = "joined"
       /\ KindOf[c] \in {"play", "resume"}
       /\ ~voice.up
       /\ UNCHANGED <<voice, faults>>
    \/ /\ Fault
       /\ KindOf[c] = "play"
       /\ cmd[c].at \in {"connect", "handshake", "persist", "open", "joined"}
       /\ voice' \in IF cmd[c].at = "handshake" /\ voice = Connecting(c)
                     THEN {voice, NoVoice} ELSE {voice}
    \/ /\ Fault
       /\ cmd[c].at = "insert"
       /\ restore[cmd[c].mp] # "done"
       /\ UNCHANGED voice

\* A seeded mistake: the way out that spares the player forgets its own hold.
AbandonKeepsHold(c) ==
    /\ ColdStartFails(c)
    /\ \/ /\ CmdTurn(c, cmd[c].at)
          /\ holds[cmd[c].mp] > 1
          /\ Returns(c)
          /\ UNCHANGED <<holds, gate, mps, made, restore, loop, queue, down, redisVars>>
       \/ /\ CleanupStep(c, cmd[c].at)
          /\ holds[cmd[c].mp] = 1
          /\ GoesAwaiting(c, "abandoning")
          /\ UNCHANGED <<gate, holds>>

\* Left to the other command that holds the gate, if there is one.
Abandon(c) ==
    /\ ColdStartFails(c)
    /\ \/ /\ CmdTurn(c, cmd[c].at)
          /\ holds[cmd[c].mp] > 1
          /\ ReleaseHold(cmd[c].mp)
          /\ Returns(c)
          /\ UNCHANGED <<mps, made, restore, loop, queue, down, redisVars>>
       \/ /\ CleanupStep(c, cmd[c].at)
          /\ holds[cmd[c].mp] = 1
          /\ GoesAwaiting(c, "abandoning")
          /\ UNCHANGED <<gate, holds>>

\* After the cleanup, repark_crashed_head(); then the hold ends.
AbandonEnds(c) ==
    /\ CmdStep(c, "abandoning")
    /\ CleanupReturned(c)
    /\ LET p == cmd[c].mp IN
         /\ IF UnlistedHead(p) THEN SetCurrentSongState(Head(queue[p]).song) ELSE UNCHANGED parked
         /\ queue' = IF Dead(p) THEN [queue EXCEPT ![p] = <<>>] ELSE queue
         /\ ReleaseHold(p)
    /\ Returns(c)
    /\ UNCHANGED <<mps, made, restore, loop, down, voice, list, connection>>

\* put_front() or put() of the requested song; nobody reads a dropped player's memory.
Enqueue(c, memory, mirror) ==
    /\ queue' = IF Dead(cmd[c].mp) THEN queue ELSE [queue EXCEPT ![cmd[c].mp] = memory]
    /\ list' = mirror

\* -play puts its song in front of the restored queue, then lets the loop go.
PlayInserts(c) ==
    /\ CmdStep(c, "insert")
    /\ restore[cmd[c].mp] = "done"
    /\ Enqueue(c, <<Requested(c)>> \o queue[cmd[c].mp], <<SongOf[c]>> \o list)
    /\ ReleaseHold(cmd[c].mp)
    /\ Returns(c)
    /\ UNCHANGED <<mps, made, restore, loop, down, voice, parked, connection>>

\* -play in voice, unless the extraction failed.
PlayAppends(c) ==
    /\ CmdStep(c, "append")
    /\ \/ Enqueue(c, Append(queue[cmd[c].mp], Requested(c)), Append(list, SongOf[c]))
       \/ UNCHANGED <<queue, list>>
    /\ Returns(c)
    /\ UNCHANGED <<cogVars, holds, down, voice, parked, connection>>

-----------------------------------------------------------------------------
(* restore_guild(): on_ready, one task per firing.                         *)

RecoveryStep(r, from) ==
    /\ recovery[r] = from
    /\ UNCHANGED <<holds, loopVars, teardownVars, ejected, source, list, cmd, ghostVars>>
RecoveryGoes(r, to) == recovery' = [recovery EXCEPT ![r] = to]

\* mps is checked here and never again.
RecoveryBegins(r) ==
    /\ RecoveryStep(r, "idle")
    /\ IF mps = NoPlayer /\ lock = NoOne
       THEN lock' = r /\ RecoveryGoes(r, "locked")
       ELSE UNCHANGED lock /\ RecoveryGoes(r, "finished")
    /\ UNCHANGED <<cogVars, voice, connection, parked, faults>>

Restorable == connection /\ (list # <<>> \/ parked # NoSong)

\* get_recovery_gate(); then connect(), which refuses a guild that has a client.  A
\* failed read skips the guild, a channel that is gone has the connection cleared.
RecoveryConnects(r) ==
    /\ RecoveryStep(r, "locked")
    /\ \/ /\ Restorable /\ voice = NoVoice
          /\ voice' = Connecting(r)
          /\ RecoveryGoes(r, "handshake")
          /\ UNCHANGED <<lock, connection, parked, faults>>
       \/ /\ ~Restorable \/ voice # NoVoice
          /\ RecoveryGoes(r, "finished")
          /\ lock' = NoOne
          /\ UNCHANGED <<voice, connection, parked, faults>>
       \/ /\ Fault
          /\ RecoveryGoes(r, "finished")
          /\ lock' = NoOne
          /\ \/ UNCHANGED <<connection, parked>>
             \/ connection /\ ClearConnection
          /\ UNCHANGED voice
    /\ UNCHANGED cogVars

RecoveryHandshake(r) ==
    /\ RecoveryStep(r, "handshake")
    /\ \/ HandshakeSucceeds(r) /\ RecoveryGoes(r, "register") /\ UNCHANGED <<lock, faults>>
       \/ HandshakeFails(r) /\ RecoveryGoes(r, "finished") /\ lock' = NoOne
    /\ UNCHANGED <<cogVars, connection, parked>>

\* MusicPlayer(...), start(), mps[guild.id] = mp, and the lock's release.
RecoveryRegisters(r) ==
    /\ RecoveryStep(r, "register")
    /\ \E p \in Players : Start(p) /\ mps' = p
    /\ lock' = NoOne
    /\ RecoveryGoes(r, "finished")
    /\ UNCHANGED <<voice, connection, parked, faults>>

-----------------------------------------------------------------------------

LifecycleInit ==
    /\ mps = NoPlayer
    /\ made = 0
    /\ gate = [p \in Players |-> FALSE]
    /\ holds = [p \in Players |-> 0]
    /\ restore = [p \in Players |-> "unborn"]
    /\ snapshot = [p \in Players |-> NothingRead]
    /\ loop = [p \in Players |-> "unborn"]
    /\ queue = [p \in Players |-> <<>>]
    /\ item = [p \in Players |-> NoItem]
    /\ claimed = [p \in Players |-> FALSE]
    /\ stopTask = [p \in Players |-> FALSE]
    /\ down = [p \in Players |-> "up"]
    /\ pending = [p \in Players |-> NoSong]
    /\ voice = NoVoice
    /\ ejected = FALSE
    /\ source = NoSource
    /\ \E s \in Stored : list = s.list /\ parked = s.parked /\ connection = s.connection
    /\ lock = NoOne
    /\ \E cast \in Casts :
         /\ cmd = [c \in Cmds |-> IF c \in cast.tasks THEN Idle ELSE Finished]
         /\ recovery = [r \in Recoveries |-> IF r \in cast.tasks THEN "idle" ELSE "finished"]
         /\ faults = cast.faults
    /\ rows = [s \in Songs |-> 0]
    /\ heard = {}
    /\ late = {}

LoopNext(p) ==
    \/ LoopPassesGate(p) \/ GateTimerFires(p) \/ GateHandler(p)
    \/ LoopTakes(p) \/ LoopIdlesOut(p) \/ LoopPlays(p) \/ LoopRaises(p)
    \/ LoopSongEnds(p) \/ LoopRecords(p) \/ LoopRowLands(p) \/ LoopForgets(p)

VoiceNext(p) == FirstFrame(p) \/ SourceEnds(p)

RestoreNext(p) == RestoreReads(p) \/ RestoreApplies(p)

TeardownNext(p) == TeardownCancels(p) \/ TeardownDisconnects(p) \/ TeardownRecords(p)

CommandNext(c) ==
    \/ EnterOther(c) \/ EnterStop(c) \/ StopReturns(c) \/ EnterPlay(c)
    \/ EnterResume(c) \/ ResumeRebuilds(c) \/ AfterRestore(c)
    \/ JoinConnects(c) \/ JoinHandshake(c) \/ JoinPersists(c) \/ JoinOpens(c)
    \/ JoinReturns(c) \/ Abandon(c) \/ AbandonEnds(c)
    \/ PlayInserts(c) \/ PlayAppends(c)

RecoveryNext(r) ==
    RecoveryBegins(r) \/ RecoveryConnects(r) \/ RecoveryHandshake(r) \/ RecoveryRegisters(r)

LifecycleNext ==
    \/ \E p \in Players :
         LoopNext(p) \/ VoiceNext(p) \/ RestoreNext(p) \/ TeardownNext(p) \/ StopTask(p)
    \/ \E c \in Cmds : Invoke(c) \/ CommandNext(c)
    \/ \E r \in Recoveries : RecoveryNext(r)
    \/ Eject \/ EjectHandler

LifecycleSpec == LifecycleInit /\ [][LifecycleNext]_vars

\* The event loop runs every task that can run: each loop, restore, teardown, stop
\* task, command and event handler.  Songs end, with or without a frame, timers fire,
\* handshakes come to an end and Redis answers.  Nobody must issue a command, and
\* nothing need be thrown out of voice.
Fairness ==
    /\ \A p \in Players : WF_vars(LoopNext(p)) /\ WF_vars(RestoreNext(p))
    /\ \A p \in Players : WF_vars(TeardownNext(p)) /\ WF_vars(StopTask(p))
    /\ \A c \in Cmds : WF_vars(CommandNext(c))
    /\ \A r \in Recoveries : WF_vars(RecoveryNext(r))
    /\ WF_vars(EjectHandler)

FairLifecycle == LifecycleSpec /\ Fairness

-----------------------------------------------------------------------------
(* Properties.                                                             *)

\* Each variable has its type.
TypeOK ==
    /\ mps \in Players \cup {NoPlayer}
    /\ made \in 0 .. MaxPlayers
    /\ gate \in [Players -> BOOLEAN]
    /\ holds \in [Players -> Nat]
    /\ restore \in [Players -> {"unborn", "reading", "read", "done"}]
    /\ snapshot \in [Players -> [list : Seq(Songs), parked : Songs \cup {NoSong}]]
    /\ loop \in [Players -> LoopPoints]
    /\ queue \in [Players -> Seq(Item)]
    /\ item \in [Players -> Item \cup {NoItem}]
    /\ claimed \in [Players -> BOOLEAN]
    /\ stopTask \in [Players -> BOOLEAN]
    /\ down \in [Players -> {"up", "claimed", "cancelled", "silent", "done"}]
    /\ pending \in [Players -> Songs \cup {NoSong}]
    /\ voice \in [by : Cmds \cup Recoveries \cup {NoOne}, up : BOOLEAN]
    /\ source \in [by : Players \cup {NoPlayer}, song : Songs \cup {NoSong}, framed : BOOLEAN]
    /\ list \in Seq(Songs)
    /\ parked \in Songs \cup {NoSong}
    /\ lock \in Recoveries \cup {NoOne}
    /\ rows \in [Songs -> Nat]
    /\ heard \subseteq Songs
    /\ late \subseteq Songs
    /\ faults \in Nat

\* The play of s has its history row, or the loop or the teardown that may write it
\* is still there.
Recorded(s) ==
    \/ rows[s] > 0
    \/ \E p \in Players : item[p].song = s \/ pending[p] = s

\* However a play ends - its song is over, the bot is stopped, thrown out of voice or
\* times out, at any await of the loop - a song somebody heard before the teardown's
\* claim is recorded.
HeardIsRecorded == \A s \in heard : Recorded(s)

\* cleanup(): "Claim the song being abandoned mid-play [...] Nothing else records it".
\* Whatever was heard is recorded, also a song whose first frame the voice thread
\* delivered between the claim and the disconnect.
AbandonedIsRecorded == \A s \in heard \cup late : Recorded(s)

\* The command is inside its defer_playback() block.
Cold(c) ==
    \/ cmd[c].at \in {"connect", "handshake", "persist", "open", "joined"} /\ KindOf[c] # "join"
    \/ cmd[c].at \in {"insert", "abandoning"}

\* Every way out of a cold start gives its hold back, once: a hold that leaks leaves
\* the loop at its gate for good, one returned twice opens it under another command.
HoldsAccounted ==
    \A p \in Players : holds[p] = Cardinality({c \in Cmds : Cold(c) /\ cmd[c].mp = p})

\* A gate does not open while a cold -play still extracts or a cold -resume joins,
\* whoever else joins or resumes meanwhile: what was asked for plays first.
GateRespectsHolds ==
    [][\A p \in Players, c \in Cmds :
          ~gate[p] /\ gate'[p] => ~(Cold(c) /\ cmd[c].mp = p)']_vars

\* Every command that was issued ends, whatever restore, join or teardown it waits for.
CommandsReturn ==
    \A c \in Cmds : cmd[c].at = "entered" ~> cmd[c].at = "finished"

\* A player nobody connects does not stay at its gate: it plays or it leaves.
ColdPlayerLeaves ==
    \A p \in Players : loop[p] \in {"gate", "fired"} ~> loop[p] \notin {"gate", "fired"}

\* README.md: one MusicPlayer per guild.  A registered player is replaced only by
\* cleanup(), never by another player.
OnePlayerPerGuild == [][mps # NoPlayer => mps' \in {mps, NoPlayer}]_vars

\* musicplayer.py, gate: loop() cannot reach vc.play() mid-handshake.
NotMidHandshake ==
    [][\A p \in Players :
          loop[p] = "resolving" /\ loop'[p] = "queue" => voice = NoVoice \/ voice.up]_vars

\* claim_current_song_for_history(): exactly one of the loop and the teardown records.
RecordedOnce == \A s \in Songs : rows[s] <= 1
=============================================================================
