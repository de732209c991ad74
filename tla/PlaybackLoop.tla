---------------------------- MODULE PlaybackLoop ----------------------------
(***************************************************************************)
(* The queue's one real client: a MusicPlayer (src/musicplayer.py) with its   *)
(* playback loop, the prefetch task the loop starts while a song plays, the   *)
(* voice client that plays it, and the commands users run at the same time.   *)
(*                                                                         *)
(* A coroutine moves from one await to the next in one step.  Everything the  *)
(* loop does between two awaits is one action; what another coroutine can do   *)
(* at an await is any action of its own.                                     *)
(***************************************************************************)
EXTENDS GuildQueue

CONSTANTS
    Loop, Prefetch, \* the two consumers
    Users,          \* commands that can run at the same time
    NoItem,         \* Python's None
    Arrivals,       \* the songs users queue, in order
    SongForm,       \* [Songs -> Forms]: the form a song is queued in
    Commands,       \* the commands users run
    MaxCommands,    \* bound: how many they run
    StreamMayFail,  \* resolving, streaming or opening a song may fail
    VoiceMayDrop,   \* vc.play() may raise
    StoreMayFail,   \* a Redis command may fail
    MayIdleOut      \* the 300s queue timeout may fire

\* "front" is -play on a bot that is not in voice, "cutin" -play on a paused song.
CommandNames == {"play", "playlist", "front", "cutin", "playnow",
                 "clear", "shuffle", "remove", "skip"}
BulkNames == {"clear", "shuffle", "remove"}
PlayNames == {"play", "playlist", "front", "cutin"}

ASSUME LoopAssumption ==
    /\ Procs = {Loop, Prefetch} \cup Users
    /\ Loop # Prefetch
    /\ Loop \notin Users
    /\ Prefetch \notin Users
    /\ NoItem \notin Item
    /\ Arrivals \in Seq(Songs)
    /\ SongForm \in [Songs -> {"search", "song"}]
    /\ Commands \subseteq CommandNames
    /\ MaxCommands \in Nat
    /\ {StreamMayFail, VoiceMayDrop, StoreMayFail, MayIdleOut} \subseteq BOOLEAN

\* A song is one play: two requests for the same track are two songs with the same Link.
ASSUME PlaysAssumption ==
    /\ \A j, k \in DOMAIN Arrivals : Arrivals[j] = Arrivals[k] => j = k
    /\ \A q \in RestoredQueues, j \in DOMAIN Arrivals :
          \A k \in DOMAIN q : q[k].song # Arrivals[j]

\* The songs that are queued as searches, and the queues nobody is twice in as a whole
\* play.  A search entry carries when and where in its request it was queued, so no two
\* of them serialize alike; and a search is a play nothing has interrupted yet.
SearchSongs ==
    {s \in Songs : SongForm[s] = "search"}
        \cup UNION {{q[k].song : k \in {j \in DOMAIN q : q[j].form = "search"}} :
                      q \in RestoredQueues}
OnePlay(q) ==
    \A j, k \in DOMAIN q : q[j].frag = 0 /\ q[k].frag = 0 /\ q[j].song = q[k].song => j = k

ASSUME SearchAssumption ==
    /\ \A s, t \in SearchSongs : Link[s] = Link[t] => s = t
    /\ \A q \in RestoredQueues :
          OnePlay(q) /\ \A k \in DOMAIN q : q[k].form = "search" => q[k].frag = 0

VARIABLES
    lpc,        \* the await the loop is parked at
    song,       \* source, then song: what this iteration claimed
    commitGen,  \* commit_generation
    prefetched, \* prefetched_song
    current,    \* current_song
    skipFor,    \* _skip_history_for
    voice,      \* the voice client: off, on, ended, dead (no frame and an error)
    pf,         \* the prefetch task: [pc, item, cancel]
    pfRef,      \* _prefetch_task is not None
    user,       \* the command each user runs: [cmd, pc, target, item]
    arriving,   \* songs no command has queued yet
    budget,     \* commands left
    history,    \* [Songs -> Nat]: the rows history.add() wrote
    \* history variables of the properties
    heard,      \* songs that produced audio
    dropped,    \* songs a clear took off the queue
    pfGen,      \* the generation the last prefetch took its item in
    stranded,   \* claims abandoned without being settled or given back
    leaked,     \* one has been: from then on claims settle other songs' entries
    lost,       \* songs heard whose last fragment vanished unrecorded
    doubled     \* songs two writers hold: interrupted twice or before they started,
                \* failing with their claim already gone, or restored in two entries

loopVars == <<lpc, song, commitGen, prefetched, current, skipFor, voice>>
taskVars == <<pf, pfRef>>
userVars == <<user, arriving, budget>>
auxVars == <<heard, dropped, pfGen, stranded, leaked, lost, doubled>>
vars == <<queueVars, loopVars, taskVars, userVars, history, auxVars>>

NoPrefetch == [pc |-> "none", item |-> NoItem, cancel |-> FALSE]
NoCommand == [cmd |-> "none", pc |-> "idle", target |-> NoItem, item |-> NoItem]

\* The current song, claimed but not handed to vc.play() yet.
NotStarted == lpc \in {"commit", "raise"}

\* The resume tail of the current song; played_at is stamped at vc.play().
Parked(i) == [i EXCEPT !.form = "song", !.frag = @ + 1, !.played = @ \/ ~NotStarted]
PrefetchRuns == pf.pc \in {"new", "streaming", "retiring"}

\* A seeded mistake: what leaves the queue is never recorded.
FlushNothing(gone) == UNCHANGED history

\* _flush_played(): one row for each item that was heard and leaves the queue.
Flush(gone) ==
    history' = [s \in Songs |->
        history[s] + Cardinality({k \in DOMAIN gone :
                        gone[k].song = s /\ gone[k].played})]
-----------------------------------------------------------------------------
(* The loop, top to bottom.                                                 *)

\* The playback gate: it opens once the bot is in voice and no -play that joins
\* still holds it, or the player is torn down after 300 seconds.
GateHeld == \E u \in Users : user[u].cmd \in {"front", "playnow"}

PassGate ==
    /\ lpc = "gate"
    /\ ~GateHeld
    /\ lpc' = "top"
    /\ UNCHANGED <<queueVars, song, commitGen, prefetched, current, skipFor, voice,
                   taskVars, userVars, history, auxVars>>

GateTimesOut ==
    /\ MayIdleOut
    /\ lpc = "gate"
    /\ ~GateHeld
    /\ lpc' = "stopped"
    /\ UNCHANGED <<queueVars, song, commitGen, prefetched, current, skipFor, voice,
                   taskVars, userVars, history, auxVars>>

\* A cancellation the loop's own song end raced is delivered at the next turn of
\* the event loop, long before the song end's Redis round trips are over.
AtTop == lpc = "top" /\ ~pf.cancel

\* The prefetched song is discarded when the flag is up.  Its claim is gone only
\* if the clear came after it, which the flag does not tell.
TakePrefetched ==
    /\ AtTop
    /\ prefetched # NoItem
    /\ ~cleared
    /\ ConsumeClearedFlag
    /\ commitGen' = generation
    /\ song' = prefetched
    /\ current' = prefetched
    /\ prefetched' = NoItem
    /\ Call(Loop, "commit", <<prefetched>>, generation)
    /\ lpc' = "commit"
    /\ UNCHANGED <<items, cursor, generation, writes, store, skipFor, voice,
                   taskVars, userVars, history, auxVars>>

\* A claim no clear has voided is abandoned.
Strand(claimed) ==
    IF claimed THEN stranded' = stranded + 1 /\ leaked' = TRUE
               ELSE UNCHANGED <<stranded, leaked>>

Discard ==
    /\ prefetched' = NoItem
    /\ Strand(prefetched # NoItem /\ pfGen = generation)

\* queue_get() with an item pending does not suspend: flag and claim are one step.
TakeFromQueue ==
    /\ AtTop
    /\ prefetched = NoItem \/ cleared
    /\ ConsumeClearedFlag
    /\ Discard
    /\ IF Empty
       THEN /\ lpc' = "get"
            /\ commitGen' = generation
            /\ UNCHANGED <<items, cursor, song>>
       ELSE /\ Claim
            /\ song' = items[cursor + 1]
            /\ commitGen' = generation
            /\ lpc' = "resolve"
    /\ UNCHANGED <<generation, mutex, op, writes, store, current, skipFor, voice,
                   taskVars, userVars, history, heard, dropped, pfGen, lost, doubled>>

\* A seeded mistake: only the put that ends the emptiness by one song sets the event.
WakeUpForOne ==
    /\ lpc = "get"
    /\ Len(items) = cursor + 1
    /\ Claim
    /\ song' = items[cursor + 1]
    /\ commitGen' = generation
    /\ lpc' = "resolve"
    /\ UNCHANGED <<cleared, generation, mutex, op, writes, store, prefetched, current,
                   skipFor, voice, taskVars, userVars, history, auxVars>>

\* queue_get() past its wait: the wake event is set, an item is pending.
WakeUp ==
    /\ lpc = "get"
    /\ Claim
    /\ song' = items[cursor + 1]
    /\ commitGen' = generation
    /\ lpc' = "resolve"
    /\ UNCHANGED <<cleared, generation, mutex, op, writes, store, prefetched, current,
                   skipFor, voice, taskVars, userVars, history, auxVars>>

\* async_timeout(300) around queue_get() and _resolve_source(): stop().  The timer
\* can win against an item that arrived in the same turn, and it still runs while a
\* search that ended the wait is resolved.
IdleOut ==
    /\ MayIdleOut
    /\ lpc = "get" \/ (lpc = "resolve" /\ song.form = "search")
    /\ lpc' = "stopped"
    /\ UNCHANGED <<queueVars, song, commitGen, prefetched, current, skipFor, voice,
                   taskVars, userVars, history, auxVars>>

\* _resolve_source() and _stream_source()
StreamSong ==
    /\ lpc = "resolve"
    /\ song' = Resolved(song)
    /\ current' = Resolved(song)
    /\ Call(Loop, "commit", <<Resolved(song)>>, commitGen)
    /\ lpc' = "commit"
    /\ UNCHANGED <<memory, writes, store, commitGen, prefetched, skipFor, voice,
                   taskVars, userVars, history, auxVars>>

StreamSongFails ==
    /\ StreamMayFail
    /\ lpc = "resolve"
    /\ Call(Loop, "finishFailed", <<song>>, 0)
    /\ lpc' = "retire"
    /\ UNCHANGED <<memory, writes, store, song, commitGen, prefetched, current,
                   skipFor, voice, taskVars, userVars, history, auxVars>>

\* _retire_failed_dequeue() returns: the flush, then the next iteration.  After a
\* resolve that raised, the outer handler drops the skip marker as well.
SongRetired ==
    /\ lpc = "retire"
    /\ Return(Loop)
    /\ Flush(op[Loop].arg)
    /\ song' = NoItem
    /\ lpc' = "top"
    /\ skipFor' \in {skipFor} \cup (IF song.form = "search" THEN {NoItem} ELSE {})
    /\ UNCHANGED <<memory, mutex, writes, store, commitGen, prefetched, current,
                   voice, taskVars, userVars, auxVars>>

\* The lock is the loop's turn.  Releasing it, vc.play() and the rest up to the Redis
\* transaction do not suspend.
CommitSong ==
    /\ lpc = "commit"
    /\ EnterCommit(Loop)
    /\ IF CommitOK(Loop)
       THEN \/ lpc' = "start" /\ voice' = "on" /\ UNCHANGED <<song, current>>
            \/ VoiceMayDrop /\ lpc' = "raise" /\ UNCHANGED <<song, current, voice>>
       ELSE /\ song' = NoItem
            /\ current' = NoItem
            /\ lpc' = "top"
            /\ UNCHANGED voice
    /\ UNCHANGED <<commitGen, prefetched, skipFor, taskVars, userVars, history, auxVars>>

\* pop_queue_and_start_song(), or set_current_song_state() for an entry that is
\* not on the list.
StartSong ==
    /\ lpc = "start"
    /\ IF owed = <<>> THEN UNCHANGED store
       ELSE PopOwed /\ (degraded' = degraded \/ StoreMayFail)
    /\ lpc' = "announce"
    /\ UNCHANGED <<memory, mutex, op, writes, song, commitGen, prefetched, current,
                   skipFor, voice, taskVars, userVars, history, auxVars>>

\* The notices and the card are out: the prefetch starts.
StartPrefetch ==
    /\ lpc = "announce"
    /\ ~pf.cancel /\ pf.pc \in {"none", "done"}
    /\ pf' = [NoPrefetch EXCEPT !.pc = "new"]
    /\ pfRef' = TRUE
    /\ lpc' = "playing"
    /\ UNCHANGED <<queueVars, song, commitGen, prefetched, current, skipFor, voice,
                   userVars, history, auxVars>>

\* play_next is set.  current_song and the task reference go before the await.
SongOver ==
    /\ lpc = "playing"
    /\ voice \in {"ended", "dead"}
    /\ heard' = IF voice = "ended" THEN heard \cup {song.song} ELSE heard
    /\ current' = NoItem
    /\ lpc' = IF pfRef THEN "join" ELSE "settle"
    /\ pfRef' = FALSE
    /\ UNCHANGED <<queueVars, song, commitGen, prefetched, skipFor, voice, pf, userVars,
                   history, dropped, pfGen, stranded, leaked, lost, doubled>>

\* A seeded mistake: a resume tail whose stream never opened was not heard.
SettleThisFragment(result) ==
    /\ prefetched' = result
    /\ skipFor' = NoItem
    /\ history' = IF skipFor # song /\ voice = "ended"
                  THEN [history EXCEPT ![song.song] = @ + 1] ELSE history
    /\ song' = NoItem
    /\ voice' = "off"
    /\ lpc' = "top"
    /\ UNCHANGED <<queueVars, commitGen, current, pfRef, userVars, auxVars>>

\* The prefetch result, the skip marker and the history row, in one turn.
Settle(result) ==
    LET skip == skipFor = song
        heardNow == voice = "ended" \/ (song.frag > 0 /\ song.played)
    IN  /\ prefetched' = result
        /\ skipFor' = NoItem
        /\ history' = IF ~skip /\ heardNow
                      THEN [history EXCEPT ![song.song] = @ + 1] ELSE history
        /\ song' = NoItem
        /\ voice' = "off"
        /\ lpc' = "top"
        /\ UNCHANGED <<queueVars, commitGen, current, pfRef, userVars, auxVars>>

JoinPrefetch ==
    /\ lpc = "join"
    /\ pf.pc = "done"
    /\ Settle(pf.item)
    /\ pf' = NoPrefetch

SettleAlone == lpc = "settle" /\ Settle(NoItem) /\ UNCHANGED pf

\* except Exception, for a failure past the commit: no claim is outstanding, so
\* nothing is settled, and the LPOP the commit owed is never issued.
LoopRaises ==
    /\ lpc = "raise"
    /\ IF owed = <<>> THEN UNCHANGED store ELSE ForfeitOwed
    /\ lost' = IF song.played THEN lost \cup {song.song} ELSE lost
    /\ song' = NoItem
    /\ current' = NoItem
    /\ prefetched' = NoItem
    /\ skipFor' = NoItem
    /\ lpc' = "top"
    /\ UNCHANGED <<memory, mutex, op, writes, commitGen, voice, taskVars, userVars,
                   history, heard, dropped, pfGen, stranded, leaked, doubled>>

LoopStep ==
    \/ PassGate \/ GateTimesOut \/ TakePrefetched \/ TakeFromQueue \/ WakeUp \/ IdleOut
    \/ StreamSong \/ StreamSongFails \/ CommitSong
    \/ StartSong \/ StartPrefetch \/ SongOver \/ JoinPrefetch \/ SettleAlone
    \/ LoopRaises
-----------------------------------------------------------------------------
(* The voice client's player thread.                                        *)

SongEnds ==
    /\ voice = "on"
    /\ voice' \in {"ended"} \cup (IF StreamMayFail THEN {"dead"} ELSE {})
    /\ UNCHANGED <<queueVars, lpc, song, commitGen, prefetched, current, skipFor,
                   taskVars, userVars, history, auxVars>>
-----------------------------------------------------------------------------
(* The prefetch task.                                                       *)

PrefetchUnchanged == UNCHANGED <<loopVars, pfRef, userVars, heard, dropped, doubled>>

PrefetchClaims ==
    /\ pf.pc = "new"
    /\ ~pf.cancel
    /\ IF Empty
       THEN /\ pf' = [pf EXCEPT !.pc = "done"]
            /\ UNCHANGED <<items, cursor, pfGen>>
       ELSE /\ Claim
            /\ pfGen' = generation
            /\ pf' = [pf EXCEPT !.pc = "streaming", !.item = items[cursor + 1]]
    /\ UNCHANGED <<cleared, generation, mutex, op, writes, store, history, stranded, leaked, lost>>
    /\ PrefetchUnchanged

PrefetchStreams ==
    /\ pf.pc = "streaming"
    /\ ~pf.cancel
    /\ pf' = [pf EXCEPT !.pc = "done", !.item = Resolved(@)]
    /\ UNCHANGED <<queueVars, history, pfGen, stranded, leaked, lost>>
    /\ PrefetchUnchanged

PrefetchFails ==
    /\ StreamMayFail
    /\ pf.pc = "streaming"
    /\ ~pf.cancel
    /\ Call(Prefetch, "finishFailed", <<pf.item>>, 0)
    /\ pf' = [pf EXCEPT !.pc = "retiring"]
    /\ UNCHANGED <<memory, writes, store, history, pfGen, stranded, leaked, lost>>
    /\ PrefetchUnchanged

PrefetchRetired ==
    /\ pf.pc = "retiring"
    /\ Return(Prefetch)
    /\ Flush(op[Prefetch].arg)
    /\ pf' = [NoPrefetch EXCEPT !.pc = "done"]
    /\ UNCHANGED <<memory, mutex, writes, store, pfGen, stranded, leaked, lost>>
    /\ PrefetchUnchanged

\* A seeded mistake: the claim is released from memory instead of given back.
PrefetchDropsClaim ==
    /\ pf.cancel
    /\ pf' = [NoPrefetch EXCEPT !.pc = "done"]
    /\ IF pf.pc = "streaming" /\ cursor > 0 THEN Release ELSE UNCHANGED <<items, cursor>>
    /\ UNCHANGED <<cleared, generation, mutex, op, writes, store, history, pfGen, stranded,
                   leaked, lost>>
    /\ PrefetchUnchanged

\* CancelledError at the await the task is parked at.  Only the resolve and the
\* stream are inside the try that gives the claim back.
PrefetchCancelled ==
    /\ pf.cancel
    /\ pf' = [NoPrefetch EXCEPT !.pc = "done"]
    /\ \/ /\ pf.pc = "new"
          /\ UNCHANGED <<items, cursor, mutex, op, writes, store, stranded, leaked, lost>>
       \/ /\ pf.pc = "streaming"
          /\ \E form \in {pf.item, Resolved(pf.item)} : GiveBack(form)
          /\ UNCHANGED <<mutex, op, writes, store, stranded, leaked, lost>>
       \/ /\ pf.pc = "retiring"
          /\ Abandon(Prefetch)
          /\ Strand(op[Prefetch].phase = "lock" /\ pfGen = generation)
          /\ lost' = IF pf.item.played THEN lost \cup {pf.item.song} ELSE lost
    /\ UNCHANGED <<cleared, generation, history, pfGen>>
    /\ PrefetchUnchanged

PrefetchStep ==
    \/ PrefetchClaims \/ PrefetchStreams \/ PrefetchFails \/ PrefetchCancelled
-----------------------------------------------------------------------------
(* The commands.                                                            *)

Fresh(s) == [song |-> s, form |-> SongForm[s], frag |-> 0, played |-> FALSE]

\* max_concurrency(1, guild): one -play and one -playnow at a time, each command
\* with a slot of its own.
SlotFree(u, c) ==
    \A v \in Users \ {u} : /\ c \in PlayNames => user[v].cmd \notin PlayNames
                          /\ c = "playnow" => user[v].cmd # "playnow"

Begin(u, c) ==
    /\ c \in Commands
    /\ lpc # "stopped"
    /\ user[u] = NoCommand
    /\ SlotFree(u, c)
    /\ budget > 0
    /\ budget' = budget - 1

\* Songs arrive in a fixed order: which is which makes no difference.
Arrive(n) ==
    /\ Len(arriving) >= n
    /\ arriving' = SubSeq(arriving, n + 1, Len(arriving))

Busy(u, c, pc) == user' = [user EXCEPT ![u] = [NoCommand EXCEPT !.cmd = c, !.pc = pc]]

\* -play of one song and of a playlist; the queue_put_front() of a -play that had to
\* join voice first, so that its loop is still at the gate.
Enqueue(u, c, name, n) ==
    /\ Begin(u, c)
    /\ Arrive(n)
    /\ Call(u, name, [k \in 1 .. n |-> Fresh(arriving[k])], 0)
    /\ Busy(u, c, "queueing")
    /\ UNCHANGED <<memory, writes, store, loopVars, taskVars, history, auxVars>>

Play(u) == Enqueue(u, "play", "put", 1)
Playlist(u) == Enqueue(u, "playlist", "putBatch", 2)
PlayFront(u) == lpc = "gate" /\ \E n \in 1 .. 2 : Enqueue(u, "front", "putFront", n)

\* -clear, -shuffle and -remove cancel the prefetch _prefetch_task names and wait
\* for it before they take the lock.
Bulk(u, c) ==
    /\ Begin(u, c)
    /\ IF pfRef /\ PrefetchRuns
       THEN /\ pf' = [pf EXCEPT !.cancel = TRUE]
            /\ Busy(u, c, "cancelling")
            /\ UNCHANGED <<op, mutex>>
       ELSE /\ Call(u, c, <<>>, 0)
            /\ Busy(u, c, "queueing")
            /\ UNCHANGED pf
    /\ UNCHANGED <<memory, writes, store, loopVars, pfRef, arriving, history, auxVars>>

BulkCancelled(u) ==
    /\ user[u].cmd \in BulkNames
    /\ user[u].pc = "cancelling"
    /\ ~pf.cancel
    /\ Call(u, user[u].cmd, <<>>, 0)
    /\ user' = [user EXCEPT ![u].pc = "queueing"]
    /\ UNCHANGED <<memory, writes, store, loopVars, taskVars, arriving, budget, history,
                   auxVars>>

\* The queue call returns.  What left the queue having been heard is recorded.
Finish(u) ==
    /\ user[u].pc = "queueing"
    /\ Return(u)
    /\ Flush(op[u].arg)
    /\ user' = [user EXCEPT ![u] = NoCommand]
    /\ UNCHANGED <<memory, mutex, writes, store, loopVars, taskVars, arriving, budget,
                   auxVars>>

Skip(u) ==
    /\ Begin(u, "skip")
    /\ voice = "on"
    /\ voice' = "ended"
    /\ UNCHANGED <<queueVars, lpc, song, commitGen, prefetched, current, skipFor,
                   taskVars, user, arriving, history, auxVars>>

\* A seeded mistake: the interrupted song is not marked.
InsertUnmarked(u, q, target) ==
    /\ user' = [user EXCEPT ![u].pc = "inserting", ![u].target = target]
    /\ Call(u, "putFront", <<q, Parked(target)>>, 0)
    /\ UNCHANGED <<skipFor, doubled, lost>>

\* interject() past its checks: the marker, then put_front([qobj, tail]).  A song
\* nearly over leaves no tail and keeps its own row.
Insert(u, q, target) ==
    /\ user' = [user EXCEPT ![u].pc = "inserting", ![u].target = target]
    /\ \/ /\ skipFor' = target
          /\ doubled' = IF skipFor = target \/ (NotStarted /\ target.played)
                        THEN doubled \cup {target.song} ELSE doubled
          /\ lost' = IF NotStarted /\ ~target.played THEN lost \cup {target.song} ELSE lost
          /\ Call(u, "putFront", <<q, Parked(target)>>, 0)
       \/ /\ Call(u, "putFront", <<q>>, 0)
          /\ UNCHANGED <<skipFor, doubled, lost>>

\* The fallback when there is nothing left to interrupt.
FallBack(u, q) ==
    /\ Call(u, "putFront", <<q>>, 0)
    /\ Busy(u, user[u].cmd, "queueing")
    /\ UNCHANGED <<skipFor, doubled, lost>>

\* -playnow with a song playing, and -play with a song paused, resolve their own
\* song first.  -playnow with nothing playing is a -play in -playnow's slot.
Audible == current # NoItem /\ voice = "on"

ResolveFirst(u, c) ==
    /\ Begin(u, c)
    /\ Audible
    /\ Arrive(1)
    /\ user' = [user EXCEPT ![u] = [NoCommand EXCEPT !.cmd = c, !.pc = "resolving",
                                        !.item = Resolved(Fresh(Head(arriving)))]]
    /\ UNCHANGED <<queueVars, loopVars, taskVars, history, auxVars>>

PlayNow(u) ==
    \/ ResolveFirst(u, "playnow")
    \/ ~Audible /\ Enqueue(u, "playnow", IF lpc = "gate" THEN "putFront" ELSE "put", 1)

CutIn(u) == ResolveFirst(u, "cutin")

\* -play finds the song no longer paused once its own is resolved: it appends.
CutInTooLate(u) ==
    /\ user[u].pc = "resolving"
    /\ user[u].cmd = "cutin"
    /\ Call(u, "put", <<user[u].item>>, 0)
    /\ Busy(u, "cutin", "queueing")
    /\ UNCHANGED <<memory, writes, store, loopVars, taskVars, arriving, budget, history,
                   auxVars>>

\* interject(), up to its first await: _neutralize_prefetch() cancels a running
\* prefetch and takes a finished one back.
Interject(u) ==
    /\ user[u].pc = "resolving"
    /\ user[u].cmd = "cutin" => voice = "on"
    /\ LET q == user[u].item IN
       \/ /\ current = NoItem
          /\ FallBack(u, q)
          /\ UNCHANGED <<items, cursor, taskVars>>
       \/ /\ current # NoItem
          /\ pfRef /\ PrefetchRuns
          /\ pfRef' = FALSE
          /\ pf' = [pf EXCEPT !.cancel = TRUE]
          /\ user' = [user EXCEPT ![u].pc = "cancelling", ![u].target = current]
          /\ UNCHANGED <<items, cursor, op, mutex, skipFor, doubled, lost>>
       \/ /\ current # NoItem
          /\ ~(pfRef /\ PrefetchRuns)
          /\ pfRef' = FALSE
          /\ IF pfRef /\ pf.item # NoItem
             THEN GiveBack(pf.item)
             ELSE UNCHANGED <<items, cursor>>
          /\ pf' = IF pfRef THEN NoPrefetch ELSE pf
          /\ Insert(u, q, current)
    /\ UNCHANGED <<cleared, generation, writes, store, lpc, song, commitGen, prefetched,
                   current, voice, arriving, budget, history, heard, dropped, pfGen,
                   stranded, leaked>>

InterjectCancelled(u) ==
    /\ user[u].cmd \in {"cutin", "playnow"}
    /\ user[u].pc = "cancelling"
    /\ ~pf.cancel
    /\ IF current = user[u].target
       THEN Insert(u, user[u].item, user[u].target)
       ELSE FallBack(u, user[u].item)
    /\ UNCHANGED <<memory, writes, store, lpc, song, commitGen, prefetched, current,
                   voice, taskVars, arriving, budget, history, heard, dropped, pfGen,
                   stranded, leaked>>

\* put_front() returns: stop the song only if it is still the one measured.
Inserted(u) ==
    /\ user[u].pc = "inserting"
    /\ Return(u)
    /\ voice' = IF current = user[u].target /\ voice = "on" THEN "ended" ELSE voice
    /\ user' = [user EXCEPT ![u] = NoCommand]
    /\ UNCHANGED <<memory, mutex, writes, store, lpc, song, commitGen, prefetched,
                   current, skipFor, taskVars, arriving, budget, history, auxVars>>

UserStep(u) ==
    \/ Play(u) \/ Playlist(u) \/ PlayFront(u)
    \/ \E c \in BulkNames : Bulk(u, c)
    \/ BulkCancelled(u) \/ Skip(u)
    \/ PlayNow(u) \/ CutIn(u) \/ CutInTooLate(u)
    \/ Interject(u) \/ InterjectCancelled(u)
-----------------------------------------------------------------------------
(* The queue's own steps, for whichever coroutine is inside a call.          *)

EnterMutation(p) ==
    \/ EnterPut(p) \/ EnterPutFront(p) \/ EnterShuffle(p) \/ EnterRemove(p)

QueueStep(p) ==
    /\ \/ /\ EnterMutation(p) \/ Write(p) \/ (StoreMayFail /\ WriteFails(p))
          /\ UNCHANGED <<dropped, stranded, leaked, doubled>>
       \/ /\ EnterClear(p)
          /\ dropped' = dropped \cup {items[k].song : k \in DOMAIN items}
          /\ stranded' = 0
          /\ UNCHANGED <<leaked, doubled>>
       \/ /\ EnterFinishFailed(p)
          /\ doubled' = IF cursor = 0 /\ Head(op[p].arg).played
                        THEN doubled \cup {Head(op[p].arg).song} ELSE doubled
          /\ UNCHANGED <<dropped, stranded, leaked>>
    /\ UNCHANGED <<loopVars, taskVars, userVars, history, heard, pfGen, lost>>
-----------------------------------------------------------------------------
LoopInit ==
    /\ Init
    /\ lpc = "gate"
    /\ song = NoItem
    /\ commitGen = 0
    /\ prefetched = NoItem
    /\ current = NoItem
    /\ skipFor = NoItem
    /\ voice = "off"
    /\ pf = NoPrefetch
    /\ pfRef = FALSE
    /\ user = [u \in Users |-> NoCommand]
    /\ arriving = Arrivals
    /\ budget = MaxCommands
    /\ history = [s \in Songs |-> 0]
    /\ heard = {}
    /\ dropped = {}
    /\ stranded = 0
    /\ leaked = FALSE
    /\ pfGen = 0
    /\ lost = {}
    /\ doubled = {s \in Songs : \E j, k \in DOMAIN items :
                        j # k /\ items[j].song = s /\ items[k].song = s}

\* A queue call that returns does not suspend: its caller runs on to its own next
\* await before anybody else does anything.
Returning == \E p \in Procs : op[p].phase = "done"

Caller ==
    \/ SongRetired
    \/ PrefetchRetired
    \/ \E u \in Users : Finish(u) \/ Inserted(u)

LoopNext ==
    \/ Caller
    \/ /\ ~Returning
       /\ \/ LoopStep
          \/ SongEnds
          \/ PrefetchStep
          \/ \E u \in Users : UserStep(u)
          \/ \E p \in Procs : QueueStep(p)

PlaybackSpec == LoopInit /\ [][LoopNext]_vars

\* What is under way goes on: coroutines run, songs end, Redis answers.  Nobody
\* has to run a command, and an idle player has to time out at no moment.
Fairness ==
    /\ WF_vars(Caller)
    /\ WF_vars(~Returning /\ LoopStep /\ ~IdleOut /\ ~GateTimesOut)
    /\ WF_vars(~Returning /\ SongEnds)
    /\ WF_vars(~Returning /\ PrefetchStep)
    /\ \A u \in Users : WF_vars(~Returning /\ (\/ BulkCancelled(u) \/ Interject(u)
                                             \/ InterjectCancelled(u)))
    /\ \A p \in Procs : WF_vars(~Returning /\ QueueStep(p))

FairPlaybackSpec == PlaybackSpec /\ Fairness
-----------------------------------------------------------------------------
(* Properties.                                                              *)

\* Every variable keeps to the values the Python attributes can hold.
TypeOK ==
    /\ QueueTypeOK
    /\ mirror \in Seq(Item) /\ owed \in Seq(Item) /\ degraded \in BOOLEAN
    /\ lpc \in {"gate", "top", "get", "resolve", "retire", "commit", "start", "announce",
                "playing", "join", "settle", "raise", "stopped"}
    /\ {song, prefetched, current, skipFor} \subseteq Item \cup {NoItem}
    /\ voice \in {"off", "on", "ended", "dead"}
    /\ pf.pc \in {"none", "new", "streaming", "retiring", "done"}
    /\ pf.item \in Item \cup {NoItem}
    /\ pf.cancel \in BOOLEAN /\ pfRef \in BOOLEAN
    /\ \A u \in Users : /\ user[u].cmd \in CommandNames \cup {"none"}
                        /\ user[u].pc \in {"idle", "resolving", "queueing", "cancelling",
                                         "inserting"}
    /\ arriving \in Seq(Songs) /\ budget \in 0 .. MaxCommands
    /\ history \in [Songs -> Nat]
    /\ heard \cup dropped \cup lost \cup doubled \subseteq Songs
    /\ commitGen \in Nat /\ pfGen \in Nat /\ stranded \in Nat /\ leaked \in BOOLEAN

\* A claim is live while its consumer can still settle it: taken, not settled, and
\* not voided by a clear since.
LoopHoldsClaim ==
    \/ /\ \/ lpc \in {"resolve", "commit"}
          \/ lpc = "stopped" /\ song # NoItem
          \/ lpc = "retire" /\ op[Loop].phase = "lock"
       /\ commitGen = generation
    \/ prefetched # NoItem /\ pfGen = generation

PrefetchHoldsClaim ==
    /\ \/ pf.pc = "streaming"
       \/ (pf.pc = "retiring" /\ op[Prefetch].phase = "lock")
       \/ (pf.pc = "done" /\ pf.item # NoItem)
    /\ pfGen = generation

LiveClaims ==
    (IF LoopHoldsClaim THEN 1 ELSE 0) + (IF PrefetchHoldsClaim THEN 1 ELSE 0)

\* The claimed prefix is exactly the claims somebody holds, plus the ones the two
\* known leaks stranded: no third path loses or invents a claim, however clears,
\* cancellations, failures and interjections interleave.
ClaimsAccounted == cursor = LiveClaims + stranded

\* I2 as docs/ARCHITECTURE.md states it: claimed means somebody will settle it.
NoStrandedClaim == cursor = LiveClaims

\* No Redis command is outstanding for a locked operation.
Quiet == \A p \in Procs : writes[p] = <<>>
Keys(s) == [k \in DOMAIN s |-> Link[s[k].song]]

\* I4: between operations the Redis list is the persisted part of the deque, in
\* order, behind the entry a committed song still owes; only a failed command, the
\* accepted commit window, a cancelled LPOP or a raising vc.play() makes it drift,
\* and the next whole-list write repairs it.  A stranded claim shifts settles onto
\* other entries, so it is excluded as well.
MirrorAgrees ==
    Quiet /\ ~degraded /\ stranded = 0 => Keys(mirror) = Keys(owed \o Entries(items))

\* The commit settles by position; what it takes off the queue is nevertheless the
\* very song the loop is about to play, unless a claim was stranded before.
SettlesOwnSong ==
    [][CommitSong /\ voice' = "on" /\ stranded = 0 => Head(items).song = song.song]_vars

\* Every step the loop, the prefetch and the commands take on the queue is one the
\* queue's own specification allows: one of its operations, under its lock.
QueueContract == Spec

\* A song a clear took off the queue, claimed or pending, never starts afterwards.
\* Resume tails are left out: an interjection may park one after the clear.
NeverStartsDropped ==
    [][voice = "off" /\ voice' = "on" /\ song.frag = 0 => song.song \notin dropped]_vars

\* A play gets one row however many fragments interjections cut it into, whoever
\* writes it: the loop, a flush of -clear or -remove, a retired dequeue.  Only a play
\* two writers were handed escapes.
RecordedOnce == ~leaked => \A s \in Songs \ doubled : history[s] <= 1

\* The same as the code claims it, without the exception.
OneRowPerPlay == \A s \in Songs : history[s] <= 1

InHand(s) ==
    LET held == {items, <<song>>, <<prefetched>>, <<pf.item>>} \cup {op[p].arg : p \in Procs}
    IN  \E q \in held : \E k \in DOMAIN q : q[k] # NoItem /\ q[k].song = s

\* A play somebody heard has its row, or something that will still write it is
\* somewhere: playing, queued, in a command's hand.  Only the two known losses
\* escape: a cancelled retirement and a vc.play() that raises on a resume tail.
PlaysAccounted == ~leaked => \A s \in heard \ lost : history[s] >= 1 \/ InHand(s)

\* One row for each play that was heard: none twice, none missing.
HistoryAccounted == RecordedOnce /\ PlaysAccounted

Queued(s) == \E k \in DOMAIN items : items[k].song = s

\* Every queued song leaves the queue: it plays, fails, is removed or cleared,
\* unless the player idles out or a stranded claim holds the head.
EverySongLeaves ==
    \A s \in Songs : Queued(s) ~> (~Queued(s) \/ lpc = "stopped" \/ stranded > 0)

\* Every command returns: no command, prefetch and loop wait on one another in a
\* circle, though -clear, -shuffle, -remove and -playnow wait for a prefetch they
\* cancelled and that prefetch may itself be waiting for the queue's lock.
CommandsReturn == \A u \in Users : user[u] # NoCommand ~> user[u] = NoCommand
=============================================================================
