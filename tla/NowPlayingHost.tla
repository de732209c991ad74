--------------------------- MODULE NowPlayingHost ---------------------------
(***************************************************************************)
(* The Now Playing block of one player: which message hosts it, who edits,      *)
(* strips or deletes that message, and what every message shows in the end.     *)
(*                                                                         *)
(* A message is its id: Discord numbers them in the order the sends start, and   *)
(* the sends return in any order.  What a message was sent with never changes:  *)
(* a dedicated one is nothing but the block, a reply has embeds of its own.     *)
(*                                                                         *)
(* The edit lock is fair, and a background task asks for it in the turn it is   *)
(* spawned in, so the lock is a line of tasks whose head holds it.  A request   *)
(* takes effect when its answer arrives; a cancelled one took effect or not.    *)
(* Every song is long enough for a bar and a progress task.                  *)
(***************************************************************************)
EXTENDS Integers, Sequences, SequencesExt, FiniteSets

CONSTANTS
    Repliers,     \* command tasks that may reply in the home channel
    MaxSongs, MaxMessages, MaxEdits,  \* bounds
    MaxFaults,    \* bound: requests refused, messages deleted by users
    MayStop       \* -stop may come

ASSUME NPAssumption ==
    /\ "loop" \notin Repliers
    /\ MaxSongs \in Nat /\ MaxMessages \in Nat /\ MaxEdits \in Nat /\ MaxFaults \in Nat
    /\ MayStop \in BOOLEAN

Songs == 1 .. MaxSongs
Messages == 1 .. MaxMessages
None == 0

VARIABLES
    song,      \* current_song
    played,    \* songs begun
    point,     \* the await loop() is parked at, or how far cleanup() is
    host,      \* _np_host_message
    cache,     \* _np_last_id and _np_last_rendered
    tick,      \* the progress task
    line,      \* _np_edit_lock: its holder and its waiters
    deletes,   \* messages with a DELETE under way
    sending,   \* [Repliers \cup {"loop"} -> the send it waits for]
    shows,     \* [Messages -> what the message shows]
    dedicated, \* messages that are nothing but a block
    gone,      \* messages that do not exist, or no longer
    tailCard,  \* the card of the fragment a resume tail will follow
    sent, edits, faults,
    builtFor,  \* history: [Messages -> the song a message was sent for]
    left       \* history: [Messages -> why nobody takes its live bar down]

npVars == <<song, played, point, host, cache, tick, line, deletes, sending, shows, dedicated,
            gone, tailCard, sent, edits, faults, builtFor, left>>

Bars == [song : Songs \cup {None}, live : BOOLEAN]
NoBar == [song |-> None, live |-> FALSE]
LiveBar(s) == [song |-> s, live |-> TRUE]
LastBar(s) == [song |-> s, live |-> FALSE]

Jobs == [kind : {"tick", "edit", "final", "strip"}, msg : Messages \cup {None},
         song : Songs \cup {None}, patching : BOOLEAN]
Job(k, m, s) == [kind |-> k, msg |-> m, song |-> s, patching |-> FALSE]
NoSend == [msg |-> None, song |-> None]
NoCache == [msg |-> None, bar |-> NoBar]
Senders == Repliers \cup {"loop"}

NPInit ==
    /\ song = None /\ played = 0 /\ point = "idle"
    /\ host = None /\ cache = NoCache /\ tick = "none"
    /\ line = <<>> /\ deletes = {}
    /\ sending = [r \in Senders |-> NoSend]
    /\ shows = [m \in Messages |-> NoBar]
    /\ dedicated = {} /\ gone = {} /\ tailCard = None
    /\ sent = 0 /\ edits = 0 /\ faults = MaxFaults
    /\ builtFor = [m \in Messages |-> None]
    /\ left = [m \in Messages |-> "no"]

Live(m) == m \notin gone /\ shows[m].live
Fault == faults > 0 /\ faults' = faults - 1
Leave(m, why) == left' = [left EXCEPT ![m] = why]

-----------------------------------------------------------------------------
(* Adopting, retiring, releasing.                                          *)

\* A seeded mistake: a reply is deleted as if it were a card.
DeletesAnything(m) == {m} \ {None}

\* _retire_np_host(): a card is deleted, without the lock ...
Deletes(m) == {m} \cap dedicated

\* ... and a reply is stripped, in line.
Strips(m) == IF m = None \/ m \in dedicated THEN <<>> ELSE <<Job("strip", m, None)>>

\* Retirements as they are spawned.
Retire(m) == deletes' = deletes \cup Deletes(m) /\ line' = line \o Strips(m)

\* A seeded mistake: whoever returns last is the host.
HostLastReturned(m, s) == IF s = None \/ s # song THEN host ELSE m

\* A seeded mistake: the song is not looked at.
HostForAnySong(m, s) == IF m < host THEN host ELSE m

\* _adopt_np_host_if_current() and _adopt_np_host(), the pointer first: the host stays if
\* the message has the block of another song, or is the older one.
HostAfter(m, s) == IF s = None \/ s # song \/ m < host THEN host ELSE m

\* The one of the two that loses its block.
Shed(m, s) == IF HostAfter(m, s) = m THEN host ELSE m

Adopt(r) ==
    LET m == sending[r].msg
        s == sending[r].song
    IN host' = HostAfter(m, s) /\ Retire(Shed(m, s))

\* _release_np_host().
Release == host' = None /\ cache' = NoCache

\* cancel_task(_progress_task): its tick, in line once at most, leaves it, and one that
\* holds the lock releases it.
TickLeaves ==
    LET ticks == {i \in 1 .. Len(line) : line[i].kind = "tick"}
    IN IF ticks = {} THEN line ELSE RemoveAt(line, CHOOSE i \in ticks : TRUE)

\* What the cancelled tick's request in flight may have done.
CancelledPatch ==
    \/ UNCHANGED shows
    \/ /\ line # <<>>
       /\ LET j == Head(line) IN
            /\ j.kind = "tick" /\ j.patching /\ j.msg \notin gone
            /\ shows' = [shows EXCEPT ![j.msg] = LiveBar(j.song)]

CancelTick == tick' = "none" /\ line' = TickLeaves /\ CancelledPatch

-----------------------------------------------------------------------------
(* Sends.                                                                  *)

\* A message with the block of the current song goes out.
Send(r, alone) ==
    /\ sent < MaxMessages
    /\ sent' = sent + 1
    /\ shows' = [shows EXCEPT ![sent + 1] = LiveBar(song)]
    /\ dedicated' = IF alone THEN dedicated \cup {sent + 1} ELSE dedicated
    /\ sending' = [sending EXCEPT ![r] = [msg |-> sent + 1, song |-> song]]
    /\ builtFor' = [builtFor EXCEPT ![sent + 1] = song]

Answered(r) == sending' = [sending EXCEPT ![r] = NoSend]

\* MusicContext.send() and send_with_np() are replies; -now is a dedicated card, and
\* so is rehost_np_after_resume() unless the host is one.
Reply(r) ==
    /\ sending[r] = NoSend
    /\ song # None /\ point \notin {"halting", "stopped"}
    /\ \E alone \in BOOLEAN : Send(r, alone)
    /\ UNCHANGED <<song, played, point, host, cache, tick, line, deletes, gone, tailCard,
                   edits, faults, left>>

\* The send returns.  cleanup() leaves current_song alone, so a reply that crosses a
\* -stop is adopted by a player nobody uses any more.
ReplyReturns(r) ==
    /\ sending[r] # NoSend
    /\ Adopt(r)
    /\ IF point = "stopped" /\ host' = sending[r].msg
       THEN Leave(sending[r].msg, "stopped") ELSE UNCHANGED left
    /\ Answered(r)
    /\ UNCHANGED <<song, played, point, cache, tick, shows, dedicated, gone, tailCard, sent,
                   edits, faults, builtFor>>

\* The send is refused: there is no such message.
ReplyFails(r) ==
    /\ sending[r] # NoSend
    /\ Fault
    /\ gone' = gone \cup {sending[r].msg}
    /\ Answered(r)
    /\ UNCHANGED <<song, played, point, host, cache, tick, line, deletes, shows, dedicated,
                   tailCard, sent, edits, left, builtFor>>

-----------------------------------------------------------------------------
(* The loop.                                                               *)

\* vc.play(): from here to the card the loop writes to Redis, announces and sets the
\* presence, each an await.
StartsSong ==
    /\ point = "idle"
    /\ played < MaxSongs
    /\ played' = played + 1
    /\ song' = played + 1
    /\ point' = "starting"
    /\ UNCHANGED <<host, cache, tick, line, deletes, sending, shows, dedicated, gone,
                   tailCard, sent, edits, faults, left, builtFor>>

\* _send_now_playing(): the host is released, whatever it is, then the card is sent.
\* A reply that was adopted since vc.play() is left behind with its block.
SendsCard ==
    /\ point = "starting"
    /\ Release
    /\ IF host # None /\ builtFor[host] = song THEN Leave(host, "early") ELSE UNCHANGED left
    /\ Send("loop", TRUE)
    /\ point' = "sending"
    /\ UNCHANGED <<song, played, tick, line, deletes, gone, tailCard, edits, faults>>

\* _send_now_playing() is over, and a resume tail disposes of the card of the fragment
\* before it, if there is a host now.
CardOver(card) ==
    /\ point = "sending"
    /\ point' = "playing"
    /\ Answered("loop")
    /\ card = None \/ (card = tailCard /\ host' # None)
    /\ tailCard' = IF card = None THEN tailCard ELSE None

\* The card is up: it is the host, or shed for a newer one; the progress task starts.
CardUp ==
    /\ \E card \in {None, tailCard} :
         LET m == sending["loop"].msg
             shed == Shed(m, song)
         IN /\ host' = HostAfter(m, song)
            /\ CardOver(card)
            /\ deletes' = deletes \cup Deletes(shed) \cup Deletes(card)
            /\ line' = line \o Strips(shed) \o Strips(card)
    /\ tick' = "asleep"
    /\ UNCHANGED <<song, played, cache, shows, dedicated, gone, sent, edits, faults, left, builtFor>>

\* The send is refused: the song plays without a card of its own.
CardFails ==
    /\ Fault
    /\ host' = host
    /\ \E card \in {None, tailCard} : CardOver(card) /\ Retire(card)
    /\ gone' = gone \cup {sending["loop"].msg}
    /\ UNCHANGED <<song, played, cache, tick, shows, dedicated, sent, edits, left, builtFor>>

\* play_next is set: the progress task and the debounce are cancelled and awaited.
SongOver ==
    /\ point = "playing"
    /\ point' = "ended"
    /\ CancelTick
    /\ UNCHANGED <<song, played, host, cache, deletes, sending, dedicated, gone, tailCard,
                   sent, edits, faults, left, builtFor>>

\* A seeded mistake: the last edit does not wait for the lock.
LastEditCutsIn(m) == <<Job("final", m, song)>> \o line

\* _finalize_now_playing() as it is spawned.
LastEditWaits(m) == Append(line, Job("final", m, song))

\* The song's end up to current_song = None, one turn: the host is released, its last
\* edit spawned; a stream that never opened has its block taken away; a song that an
\* interjection parked leaves its card to the tail.
Settles ==
    /\ point = "ended"
    /\ \/ host = None /\ UNCHANGED <<line, deletes, tailCard>>
       \/ host # None /\ Retire(host) /\ UNCHANGED tailCard
       \/ /\ host # None
          /\ line' = LastEditWaits(host)
          /\ tailCard' \in {tailCard, host}
          /\ UNCHANGED deletes
    /\ Release
    /\ song' = None
    /\ point' = "idle"
    /\ UNCHANGED <<played, tick, sending, shows, dedicated, gone, sent, edits, faults, left, builtFor>>

\* The loop's except block: the host is released as it is.
LoopFails ==
    /\ point \in {"starting", "playing", "ended"}
    /\ Fault
    /\ CancelTick
    /\ Release
    /\ IF host # None THEN Leave(host, "error") ELSE UNCHANGED left
    /\ song' = None
    /\ point' = "idle"
    /\ UNCHANGED <<played, deletes, sending, dedicated, gone, tailCard, sent, edits, builtFor>>

\* cleanup(): the player is out of mps, its tasks are cancelled; a card whose send is
\* cut may be up all the same.
StopBegins ==
    /\ MayStop
    /\ point \notin {"halting", "stopped"}
    /\ point' = "halting"
    /\ CancelTick
    /\ IF sending["loop"] = NoSend THEN UNCHANGED <<left, gone>>
       ELSE \/ Leave(sending["loop"].msg, "cut") /\ UNCHANGED gone
            \/ gone' = gone \cup {sending["loop"].msg} /\ UNCHANGED left
    /\ Answered("loop")
    /\ UNCHANGED <<song, played, host, cache, deletes, dedicated, tailCard, sent, edits, faults, builtFor>>

\* retire_np_host_on_stop().
StopRetires ==
    /\ point = "halting"
    /\ point' = "stopped"
    /\ Release
    /\ Retire(host)
    /\ UNCHANGED <<song, played, tick, sending, shows, dedicated, gone, tailCard, sent, edits,
                   faults, left, builtFor>>

-----------------------------------------------------------------------------
(* Edits.                                                                  *)

\* _progress_updater() wakes up.
TickWakes ==
    /\ tick = "asleep"
    /\ tick' = "locking"
    /\ line' = Append(line, Job("tick", None, song))
    /\ UNCHANGED <<song, played, point, host, cache, deletes, sending, shows, dedicated, gone,
                   tailCard, sent, edits, faults, left, builtFor>>

\* _debounced_pause_update(): one edit outside the ticks, with the song of now.
DebouncedEdit ==
    /\ edits < MaxEdits
    /\ tick # "none" /\ host # None /\ song # None
    /\ edits' = edits + 1
    /\ line' = Append(line, Job("edit", None, song))
    /\ UNCHANGED <<song, played, point, host, cache, tick, deletes, sending, shows, dedicated,
                   gone, tailCard, sent, faults, left, builtFor>>

\* A seeded mistake: a request that raises keeps the lock.
PassOnIfItLanded(j) == IF j.msg \in gone THEN UNCHANGED <<line, tick>> ELSE
    line' = Tail(line) /\ tick' = IF j.kind = "tick" THEN "asleep" ELSE tick

\* The lock is passed on; a tick sleeps again.
PassOn(j) ==
    /\ line' = Tail(line)
    /\ tick' = IF j.kind = "tick" THEN "asleep" ELSE tick

\* The bar a job writes.
Payload(j) ==
    CASE j.kind = "strip" -> NoBar
      [] j.kind = "final" -> LastBar(j.song)
      [] OTHER -> LiveBar(j.song)

\* The message a job edits: the host is read again inside the lock.
Target(j) == IF j.kind \in {"tick", "edit"} THEN host ELSE j.msg

\* The head of the line sends its PATCH; without a host there is none, and none
\* either when the payload is the last one pushed to this message.
EditStarts ==
    /\ line # <<>>
    /\ LET j == Head(line) IN
         /\ ~j.patching
         /\ \/ /\ Target(j) # None
               /\ line' = [line EXCEPT ![1].patching = TRUE, ![1].msg = Target(j)]
               /\ UNCHANGED tick
            \/ /\ \/ Target(j) = None
                  \/ j.kind # "strip" /\ cache = [msg |-> Target(j), bar |-> Payload(j)]
               /\ PassOn(j)
    /\ UNCHANGED <<song, played, point, host, cache, deletes, sending, shows, dedicated, gone,
                   tailCard, sent, edits, faults, left, builtFor>>

\* A PATCH lands; what _push_np_edit() pushed is remembered.
EditLands ==
    /\ line # <<>>
    /\ LET j == Head(line) IN
         /\ j.patching /\ j.msg \notin gone
         /\ shows' = [shows EXCEPT ![j.msg] = Payload(j)]
         /\ cache' = IF j.kind = "strip" THEN cache ELSE [msg |-> j.msg, bar |-> Payload(j)]
         /\ PassOn(j)
    /\ UNCHANGED <<song, played, point, host, deletes, sending, dedicated, gone, tailCard,
                   sent, edits, faults, left, builtFor>>

\* A seeded mistake: the payload is remembered before the request.
RemembersRefused(j) == cache' = IF j.kind = "strip" THEN cache ELSE [msg |-> j.msg, bar |-> Payload(j)]

\* Nothing is remembered of a refused edit.
Forgets(j) == UNCHANGED cache

\* The message is not there: the host is released if it is still this one.
EditFindsNone ==
    /\ line # <<>>
    /\ LET j == Head(line) IN
         /\ j.patching /\ j.msg \in gone
         /\ IF j.kind \in {"tick", "edit"} /\ host = j.msg THEN Release ELSE UNCHANGED <<host, cache>>
         /\ PassOn(j)
    /\ UNCHANGED <<song, played, point, deletes, sending, shows, dedicated, gone, tailCard,
                   sent, edits, faults, left, builtFor>>

\* A PATCH is refused: logged, and never tried again but by the next tick.
EditFails ==
    /\ line # <<>>
    /\ Fault
    /\ LET j == Head(line) IN
         /\ j.patching
         /\ IF j.kind \in {"final", "strip"} THEN Leave(j.msg, "refused") ELSE UNCHANGED left
         /\ Forgets(j)
         /\ PassOn(j)
    /\ UNCHANGED <<song, played, point, host, deletes, sending, shows, dedicated, gone,
                   tailCard, sent, edits, builtFor>>

DeleteLands ==
    /\ \E m \in deletes :
         /\ deletes' = deletes \ {m}
         /\ \/ gone' = gone \cup {m} /\ UNCHANGED <<left, faults>>
            \/ Fault /\ Leave(m, "refused") /\ UNCHANGED gone
    /\ UNCHANGED <<song, played, point, host, cache, tick, line, sending, shows, dedicated,
                   tailCard, sent, edits, builtFor>>

UserDeletes ==
    /\ Fault
    /\ \E m \in 1 .. sent :
         /\ m \notin gone /\ \A r \in Senders : sending[r].msg # m
         /\ gone' = gone \cup {m}
    /\ UNCHANGED <<song, played, point, host, cache, tick, line, deletes, sending, shows,
                   dedicated, tailCard, sent, edits, left, builtFor>>

-----------------------------------------------------------------------------
Lock == EditStarts \/ EditLands \/ EditFindsNone
Loop == StartsSong \/ SendsCard \/ CardUp \/ SongOver \/ Settles \/ StopRetires

NPNext ==
    \/ Loop \/ CardFails \/ LoopFails \/ StopBegins
    \/ Lock \/ EditFails \/ DeleteLands \/ TickWakes \/ DebouncedEdit \/ UserDeletes
    \/ \E r \in Repliers : Reply(r) \/ ReplyReturns(r) \/ ReplyFails(r)

NPSpec == NPInit /\ [][NPNext]_npVars

\* Every request is answered in the end; nobody need reply, pause or stop.
FairNP ==
    /\ NPSpec
    /\ WF_npVars(Lock) /\ WF_npVars(DeleteLands)
    /\ WF_npVars(CardUp) /\ WF_npVars(Settles) /\ WF_npVars(StopRetires)
    /\ \A r \in Repliers : WF_npVars(ReplyReturns(r))

-----------------------------------------------------------------------------
(* Properties.                                                             *)

\* Each variable has its type.
NPTypeOK ==
    /\ song \in Songs \cup {None} /\ played \in 0 .. MaxSongs
    /\ point \in {"idle", "starting", "sending", "playing", "ended", "halting", "stopped"}
    /\ host \in Messages \cup {None}
    /\ cache \in [msg : Messages \cup {None}, bar : Bars]
    /\ tick \in {"none", "asleep", "locking"}
    /\ line \in Seq(Jobs)
    /\ deletes \subseteq dedicated /\ dedicated \subseteq 1 .. sent /\ gone \subseteq 1 .. sent
    /\ sending \in [Senders -> [msg : Messages \cup {None}, song : Songs \cup {None}]]
    /\ shows \in [Messages -> Bars]
    /\ tailCard \in Messages \cup {None}
    /\ sent \in 0 .. MaxMessages /\ edits \in 0 .. MaxEdits /\ faults \in 0 .. MaxFaults
    /\ builtFor \in [Messages -> Songs \cup {None}]
    /\ left \in [Messages -> {"no", "early", "stopped", "cut", "error", "refused"}]

\* Somebody will take the bar of m down, or write its last state.
InHand(m) ==
    \/ m \in deletes
    \/ \E r \in Senders : sending[r].msg = m
    \/ \E i \in 1 .. Len(line) : line[i].kind \in {"final", "strip"} /\ line[i].msg = m

\* "The NP block lives in exactly one host message" (docs/ARCHITECTURE.md): a message
\* with a live bar is the host, is on its way to be or not to be, or Discord refused to
\* change it.  Overlapping replies, boundaries and pauses lose none.
OneLiveBar ==
    \A m \in Messages : Live(m) => \/ m = host /\ left[m] = "no"
                                   \/ InHand(m)
                                   \/ left[m] \in {"error", "refused"}

\* The same with the three ways the code leaves a bar behind: a reply adopted before the
\* song's card, a reply that crosses a -stop, a card cut by it.
BarsAccounted ==
    \A m \in Messages : Live(m) => m = host \/ InHand(m) \/ left[m] # "no"

\* A message that was stripped or has its last bar never gets a live one again, whatever
\* edit was in flight or in line when it was retired: the reason for the edit lock.
NoResurrection ==
    [][\A m \in 1 .. sent : ~shows[m].live => ~shows'[m].live]_npVars

\* The block only ever moves down the channel: sends that return out of order never pull
\* the host up.
BlockMovesDown == [][host # None /\ host' # None => host' >= host]_npVars

\* While a song plays, an edit is skipped only if the host shows what it would write:
\* through refused edits, strips and hosts that change under a PATCH.
SkipsOnlyTheSame ==
    point = "playing" /\ cache.msg = host /\ host # None /\ host \notin gone
        => shows[host] = cache.bar

\* A live bar that is not the host's is settled in the end: cancelled ticks, deletions and
\* lost hosts never leave the lock taken or a retirement behind.
BarsSettle ==
    \A m \in Messages : (Live(m) /\ m # host) ~> (~Live(m) \/ m = host \/ left[m] # "no")
=============================================================================
