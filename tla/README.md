# Verification of the music bot

TLA+ models of this bot's own core logic, the TLC runs that check them on small
instances and the TLAPS proofs of what holds for every instance. The code is the
reference: every definition is translated from `src/src/` and `PROJECT.json` ("map")
names the lines it stands for.

## 1. The system

One process, one asyncio event loop, many guilds. Per guild there is a player with
a playback loop; per process an extraction pool, a Spotify client and a drainer that ships
history to PostgreSQL. Redis keeps what survives a restart.

| Part | State it keeps | Operations | Talks to | Hard behaviour |
|---|---|---|---|---|
| Playback queue, `guild_queue.py` | `_items`, `_cursor`, `_wake`, `_mutex`, `_cleared`, `_generation` | put, put_front, clear, shuffle, remove, get, get_nowait, requeue_front, try_commit_dequeue, finish_failed_dequeue | Redis list `guild:{id}:queue` | two consumers, positional settles, a clear under a claim, Redis commands that fail silently |
| Playback loop and prefetch, `musicplayer.py` | `current_song`, `_prefetch_task`, `_skip_history_for`, the loop's locals | loop, _prefetch_next_song, interject, queue_clear, queue_shuffle, queue_remove | queue, voice client, Redis state, history | everything interleaves at each await; cancellation of the prefetch; fragments of one play |
| Commands, `musicbot.py` | per-command concurrency slots, `mps` | -play, -playnow, -skip, -clear, -shuffle, -remove, -stop, -resume, -join | player, voice | several users; a command resolving a song while the player moves on |
| Player life cycle, `musicplayer.py`, `musicbot.py`, `recovery.py` | `mps`, gate, holds, restore event | get_mp, cleanup, restore, cold start, rejoin, repark | Redis state, voice | teardown during a song's end, joins that fail, a command holding a player that is gone |
| Crash recovery and its lock, `recovery.py`, `redis_client.py` | key with token and expiry | restore_guild, acquire, release | Redis, voice | expiry under a holder, two restores, a command creating the player meanwhile |
| Alone watchdog, `recovery.py` | `_timers` | voice events, countdown, cancel | cleanup | a cancelled countdown finishing after its successor started; players that come while another is torn down |
| Redis guild store, `redis_client.py` | queue list, player state, history list, outbox stream, locks | one command or MULTI each | Redis | `_guild_op` logs and swallows every failure |
| History outbox drainer, `history_archive.py` | stream, pending entries, archive rows | notify, drain, isolate, cap, sweep, stop | Redis stream, PostgreSQL | at-least-once delivery, crash between insert and ack, two drainers, a cap that trims across pending entries |
| Archive's connection pool, `history_archive.py` | `_pool`, `_closed`, `_init_lock` | _ensure, close | PostgreSQL | callers that build, fail or are cancelled across a close |
| yt-dlp pool, `ytdlp_pool.py` | executor, `_closed`, `_generation` | run, prewarm, _replace, aclose | worker processes | two callers healing one break, shutdown meanwhile |
| Stream resolution, `youtube.py` | cached URLs, the streak of unconfirmed probes | resolve, warm, invalidate | yt-dlp pool, Redis cache, HTTP probes | URLs revoked and tasks cancelled at any time, one cache for all guilds |
| Now Playing host, `musicplayer.py`, `main.py` | host message, last edit, edit lock | adopt, release, retire, progress task, last edit | Discord | sends out of order, edits racing replacement |
| Per-guild debug choice, `debug.py` | `_overrides`, `_toggle_seq`, `_unpersisted` | hydrate, toggle, forget | Redis | a hydrate that read before a toggle and applies after it |
| Live dashboard, `dashboard.py` | rows, probes, last edit | run_live_dashboard, safe_edit | probes, Discord | probes answering around the deadline |
| Spotify client, `spotify.py` | token and its expiry | http_call, validate | HTTP, Redis | one token shared by tasks and processes, awaits of any length |
| Parsing, wire formats, reports, help, telemetry, configuration, migrations | none of their own | pure functions and queries | | tested directly |

What makes the core correct:

* **Queue.** The cursor stays in the deque; claims are settled, given back or voided,
  each once; the Redis list is the persisted part of the deque in order.
* **Loop.** A commit settles the song about to play; a cleared song does not start; a
  play that was heard gets exactly one history row however it is cut; every queued
  song eventually leaves the queue.
* **Life cycle.** However a player ends, what was heard until then is recorded; the gate opens for
  whoever joins, never under a cold start; nothing waits for a player that is gone.
* **Commands.** Every command returns although it may wait for a prefetch, a restore, a
  join or a teardown.
* **Drainer.** A play handed to the outbox is archived or refused; it is lost only where
  the operator agreed to it, and then it is reported. Nothing blocks the head of the queue.
* **Now Playing.** A progress bar that moves has somebody who will stop it; one that has
  stopped never moves again.
* **Services.** One holder of the recovery lock; one rebuild per broken pool and none after
  closing; a dead URL is not kept and a good one not dropped on doubt; the card of a
  dashboard is complete and blames nobody who answered; a token in use is valid.

`PROJECT.json` ("hazards") lists each hazard with the line where it bites and the
properties that cover it.

## 2. Modules

| Module | Models | State in the code |
|---|---|---|
| `GuildQueue` | `guild_queue.py` and the Redis list | `items` = `_items`, `cursor` = `_cursor`, `cleared`, `generation`, `mutex` = `_mutex` (holder first, then waiters in FIFO order), `op`/`writes` = where each call is, `mirror` = the Redis list, `owed` = a committed song whose LPOP is still to come |
| `PlaybackLoop` | `MusicPlayer.loop`, `_prefetch_next_song`, `interject` and the commands | `lpc` = the await the loop is parked at, `song`/`current`/`prefetched`/`commitGen`/`skipFor` = its variables, `pf`/`pfRef` = the task and `_prefetch_task`, `voice` = the voice client, `user` = commands under way, `history` = rows written |
| `PlayerLifecycle` | `get_mp`, `start`, the restore, gate and holds, cold -play/-resume/-join, -stop, `restore_guild`, `cleanup`, disconnects | `mps`; per player `gate`, `holds`, `restore`, `loop`, `queue`, `item`, `claimed` = `_skip_history_for`, `down` = how far its cleanup() is, `pending` = its `pending_history`; `voice`, `ejected`; `source` = what the voice thread plays; `list`, `parked`, `connection` = the guild's Redis keys; `cmd`, `recovery` = where the tasks are |
| `RecoveryLock` | `acquire_recovery_lock`, `release_recovery_lock` | `lockValue` = the key, `token`, `touched` = what WATCH will see |
| `AloneWatchdog` | `VoiceWatchdog` | `timer` = `_timers[guild]`, `phase`/`sleeps`/`cancelled` = the countdown tasks, `registered` = in `mps`, `stopping` = other tasks' `cleanup()` before their disconnect, `voice` = the voice client, `humans` = who is in its channel, `events` = voice states not handled yet |
| `HistoryLedger` | what the archive promises for one play: owed, then archived, refused or dropped | `fate` is derived, no variable of the code |
| `OutboxDrainer` | `HistoryOutboxDrainer`, the outbox commands of `redis_client.py`, the archive's two writes | `stream` = `history:outbox`, `group`/`delivered`/`pending` = its consumer group, last-delivered id and pending entries, `archive`/`refused` = the two tables, `pc` = the command a drainer is about to send, `mode` = normal cycle, `except` arm or final drain, `tombs`/`todo` = the batch in hand, `cap` = the locals of `_enforce_cap` |
| `ArchivePool` | `PostgresHistoryArchive._ensure` and `close` | `connections` = `_pool`, `shut` = `_closed`, `initLock`, `open` = pools with connections, `query` = the callers |
| `YtdlpPool` | `YtdlpPool` | `executor`, `generation`, `poolClosed` = `_closed`, `broken` = executors that lost a worker, `call`/`closing` = tasks in `run()` and `aclose()`, `listener` = the log listener |
| `StreamCache` | `_resolve_playable_stream`, `prefetch_stream`, `yt_source`, the loop's drops, for one song | `entry` = its cache entry, `revoked` = URLs YouTube refuses, `streak` = `_unconfirmed_streak`, `asker` = the tasks and their locals |
| `NowPlayingHost` | adopting, retiring and releasing the host message, its edits, replies | `host` = `_np_host_message`, `cache` = `_np_last_id` and `_np_last_rendered`, `line` = `_np_edit_lock` with its waiters, `tick` = the progress task, `deletes`/`sending` = requests under way, `shows` = what each message shows |
| `DebugChoices` | `DebugSettings` for one guild | `config` = the Redis field, `override`, `toggleSeq`, `toggledAt`, `unpersisted`, `pass` = hydrates under way |
| `LiveDashboard` | `run_live_dashboard`, `safe_edit` | `probe`, `rows`, `driver` = its await, `last`, `shown` = the message |
| `SpotifyToken` | `http_call`, `validate`, the token in Redis | `held` = `auth_token` and `token_expiry`, `shared` = the Redis copy, `locked` = `_auth_lock`, `request` = the tasks and since when each awaits |
| `MCPlaybackLoop`, `MCOutboxDrainer`, `MCPlayerLifecycle`, `MCNowPlayingHost` | the small instances | |
| `MCServices` | the services that share no state, one chosen at the start of each behaviour | `service` |
| `GuildQueueProofs`, `PlaybackLoopProofs`, `PlaybackHistoryProofs`, `PlayerLifecycleProofs`, `NowPlayingProofs`, `OutboxDrainerProofs`, `CacheProofs`, `ServicesProofs` | theorems (section 5) | |

`PlaybackLoop` extends `GuildQueue`: the loop, the prefetch and every command are
processes that call its operations. `GuildQueue` also has a specification of its own,
`Spec`, in which any process calls anything with any argument; it is what the theorems
are about, and `PlaybackLoop` implements it (`QueueContract`, checked and proved).

How the code became actions:

* A coroutine moves from one await to the next in one step. The loop's actions follow
  `loop()` top to bottom: `PassGate`, `TakePrefetched` or `TakeFromQueue`/`WakeUp`,
  `StreamSong` or `StreamSongFails`/`SongRetired`, `CommitSong`, `StartSong`,
  `StartPrefetch`, `SongOver`, `JoinPrefetch`/`SettleAlone`.
* A queue call appends its process to `mutex`. Its turn runs the memory part in one
  step (`EnterPut`, `EnterClear`, ...); each Redis command is a step that succeeds
  (`Write`) or fails unseen (`WriteFails`). The call's return does not suspend, so its
  caller runs on to its own next await before anybody else moves (`Returning`).
* Cancelling the prefetch sets `pf.cancel`; `PrefetchCancelled` delivers it at the
  await where the task is parked: before it ran, while it streams (the claim is given
  back), or in the queue call that retires a failed song (`Abandon`). It is delivered
  before the loop starts its next iteration, which is several Redis round trips away.
* An interjection is two steps: its song resolves (`ResolveFirst`), then `interject()`
  runs up to its first await (`Interject`, or `InterjectCancelled` once a running
  prefetch is out of the way); after `put_front` it stops the song if it is still the
  one it measured (`Inserted`). Concurrency slots are `SlotFree`.
* A history row is counted when `history.add()` is called.
* The wake event is not a variable: `_sync_wake` derives it from cursor and length, so
  the waiting loop is enabled exactly when it is set.

`PlayerLifecycle` is about which player holds what while others come and go; a
player's memory and the Redis list are plain sequences in it. A command is parked at one
await of -play, -resume, -join or -stop, bound to the player it got; `cleanup()` is the
steps of one player; the command that started it waits for it, others that find no player
return at once. A disconnect and its voice-state event are two steps (`ejected`). What the
gate's timeout does happens a turn after the timer (`fired`). The voice thread has steps of
its own: `vc.play()` gives it a `source`, and it delivers the first frame (`FirstFrame`)
whenever it likes until the song ends or the voice client goes: of a teardown only the
disconnect silences it. `rows`, `heard` and `late` are history variables: the rows of a
song, the songs with a frame before their teardown's claim, and those whose first frame
came after it.

`OutboxDrainer` stands by itself: the bot's side of it is one action, `Push`. One step
is one command to Redis or PostgreSQL, since everything between two commands belongs to
one process and only its crash can be seen there:

* `_drain_once` is `ReadPending`, `ReadNew`, `SettleTombstones`, `InsertBatch` and
  `RetireBatch`, or row by row `Isolate`, `Reject`, `IsolateRetire`; `NoGroup`/`Heal` is
  the rebuilt consumer group; `_enforce_cap` is `CapDepth`, `CapRange`, `CapBelow`,
  `CapAck`, `CapTrim`, each of which works on what the earlier ones returned.
* A command that takes effect and whose reply is lost is the `ReplyLost` arm of its action;
  one that never takes effect, and the deadline, is `Fails`. Both end in `Raise`, which is
  the `except` of `_run` (cap, backoff) or of `stop`.
* A process crashes (`Crash`), is told to stop and drains once more (`Stop`), starts
  (`Start`); its task dies of a bug and is respawned (`Dies`, `Respawn`).
* An operator deletes the key or an entry (`DeleteKey`, `DeleteEntry`).
* `XAUTOCLAIM` only ever moves entries to the consumer they already belong to, so `Sweep`
  is the purge of pending records without a body, of any subset of them since it is paged.
* Ids are the positions in `Produced`; a play that stands there twice is a transaction the
  client sent again. `dropped` and `reported` are history variables.

In `NowPlayingHost` a message's id is the order in which its send began, and sends return in
any order. A request takes effect when its answer arrives, and a cancelled one took effect
or not. The lock is a line of jobs whose head holds it; a background retirement joins it in
the turn it is spawned in.

In `AloneWatchdog` discord's picture of the channel (`humans`, `voice`) changes at once and
the handlers run later, in the order of `events`. Members come and go, an admin moves, mutes
or kicks the bot, also to or in a channel without humans, and a command or `restore_guild`
connects and registers a player whenever there is none, while the teardown of another is
still awaiting its disconnect. `alone` and `missed` are history variables: how long the bot
has been alone, and whether it came to be so, or lost its countdown, without a member's event
that could have started one.

The clocks of `AloneWatchdog` and `SpotifyToken` count ticks. A countdown's tick passes only
when no task can run, since a turn of the event loop is far shorter. In `SpotifyToken` an
await takes as long as it likes: the code shares a token for `expires_in - 30` s
(`redis_client.py` 234), while one grant alone may take the 30 s of `_HTTP_TIMEOUT`
(`spotify.py` 35) and nothing bounds a Redis command. `slowest`, a history variable, is the
longest await of a refresh so far, and what `LiveToken` promises is relative to it.

Data is abstracted to what properties tell apart. An item is its song, its form
(search, song, crash-recovered), the number of interjections that cut it and whether it
was heard before; `Link` says which songs serialize to the same bytes, which is all that
`LREM` and `-remove` can see (`Alike`: a search never serializes like a song, nor a resume tail
like a whole play). A token is the time at which Spotify stops to honour it. Of a
card `NowPlayingHost` keeps the song and whether its bar moves.

Seeded mistakes stand in front of the definition they change (`ClearKeepsCursor`,
`InsertUnmarked`, ...) and are no part of any specification; each shows that the
property it belongs to can fail.

## 3. Runs

| Run | Module | Question |
|---|---|---|
| `LoopClaims` | `MCPlaybackLoop` | With two users, all nine commands, failing streams and the timeouts: are claims and heard plays accounted for, does a commit settle its own song, does a cleared song stay silent, and is each queue step one `GuildQueue`'s `Spec` allows? |
| `LoopMirror` | `MCPlaybackLoop` | One user; from an empty queue, from a restored one and from one headed by the crash-recovered song; failing Redis commands and streams, a raising `vc.play()`, two songs that serialize alike: does the list agree with the deque whenever no accepted drift is under way, and is the history complete? |
| `LoopLive` | `MCPlaybackLoop` | Does every queued song leave and every command return? |
| `LoopStaleFlag` | `MCPlaybackLoop` | Violation, section 4. |
| `OutboxLoss` | `MCOutboxDrainer` | Two drainers, a cap and every mishap: is each play pushed settled, given up by name, or still deliverable, and is the pending set bounded? |
| `OutboxLedger` | `MCOutboxDrainer` | Two drainers, no cap, poison, unreadable and re-sent plays: does the pipeline implement `HistoryLedger`, and does everything leave the outbox once the servers answer? |
| `OutboxCap` | `MCOutboxDrainer` | One drainer, stopped anywhere in the cap: no tombstone, none of the newest plays gone? |
| `LifecyclePlayers` | `MCPlayerLifecycle` | Pairs of tasks that create, restore, join, stop and lose players: is what was heard before the teardown's claim recorded, is every hold given back once, does the gate respect the holds? |
| `LifecycleLive` | `MCPlayerLifecycle` | Does every command return, and does a player nobody connects leave its gate? |
| `NowPlaying` | `MCNowPlayingHost` | Replies, boundaries, edits, strips, deletions and a -stop: who cleans up each bar, and does any come back? |
| `Services` | `MCServices` | Each of the eight services with its callers, timers and faults (813 653 states together). |
| `WatchdogEarly` | `AloneWatchdog` | Violation, section 4. |

### Properties

Loop and queue:

* `ClaimsAccounted`: the claimed prefix is the claims somebody can still settle plus
  those known to be stranded (section 4, 1 and 3). `NoStrandedClaim` is the same without
  the exception, and is violated.
* `MirrorAgrees` (I4 of `docs/ARCHITECTURE.md`): excluded are only the drift of a failed
  or cancelled command, the commit window the code documents as accepted, a `vc.play()`
  that raised, and stranded claims; a whole-list write ends the drift.
* `HistoryAccounted`: at most one row per play (`RecordedOnce`), and a heard play has its
  row or something that will write it (`PlaysAccounted`). `doubled` and `lost` name the plays
  that the behaviours of section 4 take out of these promises (`doubled` also a song that the
  restored list holds in two entries); everything else is in.
* `SettlesOwnSong`, `NeverStartsDropped`, `QueueContract`, `EverySongLeaves`,
  `CommandsReturn`, `TypeOK`, `MutexOK`: as commented in the modules.

Outbox:

* `NoPlayLost`: a play pushed is archived, refused, in `dropped`, or a later read still
  returns it. "Still returns it" is the hard part: an entry that is neither pending nor
  beyond the last-delivered id is in the stream and invisible.
* `ArchiveContract`: the same with order and finality, as a refinement: nothing archived or
  refused changes, archivable plays are never refused and others never archived. Without
  a cap and without deletions no play may be dropped at all.
* `PelBounded`: a cycle that finds nothing pending reads new entries in a second command,
  and so may every other drainer; one batch for each is the bound.
* `NoTombstone`, `CapKeepsNewest` hold for one process and are violated with two
  (section 4). With an operator's deletions tombstones are legitimate, and `Drains`
  shows that they do not stay.

Life cycle and Now Playing:

* `HeardIsRecorded`: a song with a frame before its teardown's claim has its row, or the loop
  or the teardown that will write it still has it in hand: at every await of the loop that a
  -stop, a disconnect or a timeout can fall into. `AbandonedIsRecorded` is the same of songs
  whose first frame comes after the claim, too, and is violated (section 4, 12).
* `HoldsAccounted`, `GateRespectsHolds`: each way out of a cold start gives its hold back
  once, also when the player is torn down under the command; no gate opens under a cold
  start, whoever else joins.
* `CommandsReturn`, `ColdPlayerLeaves`: waits for a restore, a join or a teardown end, and
  so does the wait at the gate.
* `BarsAccounted`: a message that shows a live bar is the host, or a job in line, a send or a
  deletion under way will see to it, but for the ways of leaving one that `left` names.
  `NoResurrection`: no edit that was in line or in flight when a message was retired brings
  its bar back. `BlockMovesDown`: sends that return out of order never pull the host up.
  `SkipsOnlyTheSame`: an edit is only skipped when the host shows what it would write.
  `BarsSettle`: retirements come through, and the lock is handed on, through cancelled ticks,
  refused edits and deletions.

Services: `HolderKeepsLock` (a task restoring under a live lock holds it, whatever late
release or lost reply of another), `TeardownNotCut` (a countdown that tears the
player down is never cancelled, not by what comes for a player registered meanwhile), `HealthyKept` (only `aclose()` drops a healthy executor), `LiveToken` (no request
with a token Spotify does not honour any more, as long as three awaits fit in the margin of
the shared copy and two in a token's life; late by no more than what they exceed them by), and six conjunctions. `ServicesTypeOK`
collects the type invariants and `EveryServiceReturns` the liveness properties (of the watchdog `AloneLeaves`: a bot that a
member's event has left alone leaves, which excludes section 4, 11), `PoolsSound`
is about both pools, `StreamCacheSound`, `ChoicesSound` and `DashboardSound` about one service
each. `DeadLeavesCache` says that a dead URL is gone once whoever found it is done, unless Redis
refused the drop or the task was cancelled at that await. Every part of a conjunction has a seeded mistake in its module that violates it:

| Part | Mistake | | Part | Mistake |
|---|---|---|---|---|
| `LockTypeOK` | `ReleaseKeepsToken` | | `DebugTypeOK` | `SkipsToggled` |
| `WatchdogTypeOK` | `KeepsSlot` | | `SavedChoiceInForce` | `SkipsFailed` |
| `SpotifyTypeOK` | `ValidatesUnlocked` | | `CacheOwnsUp` | `ToggleClaims` |
| `NoOrphanPool` | `AcquireAlways` | | `DashboardTypeOK` | `FinalSettlesAll` |
| `FailsOnTwoPools` | `ReplaceForgets` | | `NoProbeLeft` | `FinallyIfRaised` |
| `ListenerOutlives` | `CloseStopsFirst` | | `HealthyNotAbandoned` | `FinalAbandonsAll` |
| `EveryCallEnds` | `RefusedAtFirst` | | `CardComplete` | `FlushAbandoned` |
| `StreamTypeOK` | `ExtractsFreely` | | `EveryDashboardReturns` | `OverdueIfWoken` |
| `RefusedAfterMinting` | `DropCharged` | | `OneArchivePool` | `ConnectsRegardless` |
| `DeadLeavesCache` | `AfterDeadOverwrite` | | `NoneAfterClose` | `ShutTakesAtOnce` |
| `DoubtBounded` | `PathLooksFine` | | `EveryShutEnds` | `DiscardKeepsLock` |
| `EveryResolveEnds` | `ExtractionRetried` | | `EveryLonelinessEnds` | `SleepsAfterNotice` |

### Bounds, and why they are enough

* Loop: three songs (one playing, one prefetched, one pending is the deepest pipeline the
  code has), one or two users (a call and one that waits behind it or was resolved
  meanwhile), three commands. `ShuffleMin` is 2 rather than 4 and `LremShare` 1 rather
  than 5, so that shuffles and the LREM path happen in three songs; the theorems leave both
  arbitrary. Songs arrive in a fixed order. Users are symmetric where there are two and no
  liveness property.
* Outbox: three or four pushes, batches of one or two, a cap of one, one page per entry, two
  or three faults: a batch of two with one poison row is the smallest that `_isolate` can
  stop half way in, and two drainers are the only way a read gets between another's commands.
* Life cycle: pairs of tasks (`MCCasts`), over an empty guild and one that crashed in a song
  with another queued. Each race of section 4 takes two tasks and at most one fault
  (a disconnect, a handshake that fails, a timer); four players are more than a pair creates.
* Now Playing: two songs (a boundary), three messages (the card, a reply, the next card), one
  reply in flight, one edit by the user, one fault, one -stop.
* Services: three tasks for the lock (a holder, its successor, a late comer); a countdown of
  two ticks and four moves of members, admins and commands (one event to start it, one to
  restart it, two to come and leave again; or a kick, a join, a new player and one more); three extractions, one closer and two deaths (a retry on the second
  pool and a bystander; `MusicBotApp.close` runs once, guarded by `_teardown_started`); two
  players and one warmer over one entry, a streak of two, one extraction each; two hydrations
  over two toggles and a removal; three probes; two requests over six units of time with
  tokens that live four and a margin of three (an await of any length between none and the
  token's life and more); three queries of the archive.

`CHECK_DEADLOCK FALSE` wherever commands, members or requests are used up: the program then
waits for the next one for ever. An idle drainer always wakes up, so the outbox runs check
deadlock.

### Fairness, and why the code justifies it

* Loop: a coroutine that can run does, a song that plays ends, a queue call that has its turn
  goes on and Redis answers or fails; asyncio's ready queue and its FIFO lock justify the
  first and the third. That Redis answers is an assumption about the environment, here and
  below: the connection pool sets a connect timeout only (`redis_client.py` 131-160), and
  against a server that accepts and then stalls the code waits for ever
  (`musicbot.py` 555-559). A paused song is taken to be resumed
  or skipped in the end. There is no fairness for starting a command, for the 300 s queue
  timeout and for the gate's.
* Outbox (`FairSpec`): each process is scheduled and a process that is gone is restarted
  (the compose file's restart policy); there is none for the faults, whose number is bounded,
  so PostgreSQL and Redis answer in the end (an assumption, as above).
* Life cycle: each loop, restore, teardown, stop task, command, recovery and event handler
  that can run does; songs end, Redis answers, the gate's timer fires (`asyncio.wait_for`), and a handshake
  ends, joined or failed (`connect()` has a timeout). No command need be issued.
* Now Playing: the lock serves its line, requests are answered, retirements begin.
* Services: tasks run, clocks go on, extractions, joins and disconnects return or fail; a task
  need not be cancelled, and a member need not move. Probes of a dashboard need
  not answer: its own deadline ends it.

## 4. Where code and documentation part

Two runs violate a statement of the code's own comments:

1. `LoopStaleFlag`: a `-clear` while the loop waits in `queue_get()` leaves `_cleared`
   up. The next iteration discards a prefetched song that was claimed after the clear,
   and its claim is never settled: from then on positional settles are one song off.
2. `WatchdogEarly`: a second event while the bot is alone restarts the countdown; the
   cancelled one's `finally` pops the slot a turn later, whoever stands in it. Nothing can
   cancel the new countdown then. A human who comes and goes again does not matter to it,
   and the bot leaves at once instead of after `ALONE_DISCONNECT_SECS`.

Configurations kept for demonstration, each of which TLC reports as violated
(`tlc -config <name>.cfg <module>`):

| Configuration, module | What it shows |
|---|---|
| `LoopCancelledRetire`, `MCPlaybackLoop` | 3. A prefetch cancelled while it retires a failed song is outside the `try` that gives claims back; the claim is stranded. |
| `LoopTwoInterjections`, `MCPlaybackLoop` | 4. `-playnow` and a `-play` on the paused song have separate concurrency slots and can both park a tail of the same song over one skip marker; one play becomes two rows. |
| `OutboxTwoCaps`, `MCOutboxDrainer` | 5. The cap acknowledges the pending ids it saw and then trims. Entries that a second drainer reads in between are trimmed unacknowledged: the tombstones the comment rules out. They are settled later as lost, unless their drainer has archived them. |
| `LifecycleOnePlayer`, `MCPlayerLifecycle` | 6. `restore_guild` tests `mps` before it joins and registers its player after: a command that came meanwhile has its player replaced, though `README.md:862` promises one per guild. |
| `LifecycleHandshake`, `MCPlayerLifecycle` | 7. A command that creates its player while `restore_guild` is in its handshake finds a voice client, so the gate opens and the loop reaches `vc.play()` before the handshake is over (`musicplayer.py:2438-2441` rules that out). |
| `LifecycleTwoWriters`, `MCPlayerLifecycle` | 8. A -stop while the loop waits for the reply to its own `history.add()`: `_ended_song` still offers the play, the teardown claims it and records it too. `musicplayer.py:855-857` says exactly one of the two writes. |
| `DebugUnsaved`, `DebugChoices` | 9. A toggle Redis did not take "applies until the bot restarts" (`musicbot.py:2460-2461`); a later hydration puts the stored choice back. |
| `NowPlayingOneBar`, `MCNowPlayingHost` | 10. "The NP block lives in exactly one host message" (`docs/ARCHITECTURE.md:1497`): a reply that returns before the song's card becomes the host, and the card takes over without settling the reply's bar. |
| `WatchdogForgets`, `AloneWatchdog` | 11. "Disconnects the bot once it is alone in a voice channel." (`recovery.py:168`): any voice state of the bot itself with a channel before and after cancels the countdown (219-221) and starts none. Moved to an empty channel, or muted where it is alone, the bot stays for ever. |
| `LifecycleUnclaimed`, `MCPlayerLifecycle` | 12. "Claim the song being abandoned mid-play [...] Nothing else records it" (`musicbot.py:533-534`): the claim refuses a song that has no frame yet (`musicplayer.py:870`), and the voice thread plays on until the disconnect (`musicbot.py:553`), two awaits later. What is heard of the song then has no row. |

Behaviours of the models that are worth knowing and have no run of their own; the
properties name the exception where they need one (`doubled`, `lost`, `left`, resume tails):

* `-clear` records a resume tail the loop has claimed; when its stream then fails, it is
  recorded again.
* An interjection accepts a current song that is not committed yet; if a clear voids the
  commit, its tail is queued and plays nevertheless.
* The 300 s timeout also covers resolving, so the player can stop with a song in hand.
* A `vc.play()` that raises after the commit leaves the list's head behind, and a resume
  tail lost there has no row.
* A stopped player's late disconnect and `clear_connection` hit the player that followed it.
* A command's player that times out at its gate has taken the crashed song from Redis; it is
  recorded neither as heard nor kept to be resumed. A stale channel's `clear_connection` drops it
  likewise.
* The recovery lock is released in the `finally` of `restore_guild` also where the comment
  leaves it to its expiry (no gate). A restore drops entries whose requester cannot be
  resolved in memory only.
* `forget()` also forgets that a toggle happened, so a hydration in flight re-installs the
  choice of a guild that is gone.
* The debounced Now Playing edit takes its song before it waits for the lock. A reply that
  crosses a -stop is adopted by the dead player, and -stop cutting the card's send leaves the
  card; both bars stay (`left`).
* A dashboard's edit that Discord refuses is not sent again unless another row changes.
* A player that is registered while an older one is torn down finds that one's song still
  playing: its `vc.play()` raises, and its song is dropped from memory.
* A task cancelled at `cache_del` (`youtube.py` 1006 and 1023) leaves a dead URL in the cache;
  whoever reads it next probes it and drops it.
* `-join` and `restore_guild` start no countdown: a bot that connects to an empty channel
  waits there for the first member's event.
* A Spotify request refused with 429 is sent again with the header of the first, which may be
  minutes old by then, and a 401 refreshes nothing. A second `aclose()` would stop the log listener under the first one's
  workers; the application never calls it twice.
* The cap's overage comes from a depth read two commands earlier. If a peer retires entries
  meanwhile and a full page is still there, plays go although the backlog is not above the
  cap any more; `CapKeepsNewest` therefore is a property of one drainer.
* When XTRIM's reply is lost, nothing logs the plays it dropped.
* A crash between the cap's XACK and its XTRIM leaves entries nobody sees. "Reclaimed next
  pass" (`history_archive.py` 1198) holds only if the depth is still over the cap then.

Double rows are rows of the list `guild:{id}:history` and of the outbox; in PostgreSQL the
unique index on guild, time and URL merges rows of one play that carry the same time.

## 5. Proofs

Each proof module extends the component's module; nothing is assumed but the named ASSUMEs of the
components, which TLC evaluates on every instance: types of the constants, finitely many commands
(`LifecycleAssumption`), a player allowed at least one extraction (`StreamAssumption`), a clock
that runs at all, and that the plays users queue are told apart
from each other and from those a restart restored (`PlaysAssumption`: a song of the model is one
request, two requests for one track are two songs with the same `Link`). `SearchAssumption` says
the same of the entries of one restored queue, and that no two searches look alike on the wire. A
search's entry carries the message's time and its place in the request (`queued_at` and
`queue_position`, `guild_state.py` 776-800 and `sources.py` 221), so two alike would be two
messages of one millisecond, or entries of a version that wrote neither field. `MirrorKept` needs
it: a claimed search may be resolved in the deque while Redis still holds what was queued, so the
test that keeps an LREM off claimed entries (`RewriteAfterRemoval`) does not see it, and an LREM
of a twin would take it. Two theorems have a hypothesis of their own. `OneCloser`: the pool's
`aclose()` is called once, which `MusicBotApp.close` guarantees by its flag `_teardown_started`;
with two callers the property is false. `Undisturbed`: the outbox has one drainer, which is how
the bot is deployed, and nobody deletes entries of the stream by hand; with two drainers the
properties are false (section 4, 5). Each theorem follows from one inductive invariant, and the
proof that a step preserves it has one step or lemma per action.

| Theorem | Says | Why the property alone is not inductive |
|---|---|---|
| `GuildQueueProofs`: `QueueTypeCorrect`, `LockExclusive` | `QueueTypeOK` with I1, `cursor \in 0 .. Len(items)`; `MutexOK` | `QueueInv` is both: leaving the lock takes the tail of `mutex`, a sequence again only because a call that holds it is in it, and that is preserved only because a call's phase is one the type invariant knows |
| `GuildQueueProofs`: `StoreTypeCorrect` | the Redis list and what is to be sent to it are well formed | a write of a sequence of commands needs to know each of them |
| `PlaybackLoopProofs`: `PlaybackKeepsContract` | `PlaybackSpec => QueueContract`: the player implements the queue | see below |
| `PlaybackLoopProofs`: `ClaimsKept`, `CommitSettlesOwn`, `DroppedStaysSilent`, `MirrorKept`, `PlaybackTypeCorrect` | `ClaimsAccounted`, `SettlesOwnSong`, `NeverStartsDropped`, `MirrorAgrees`, `TypeOK` | see below |
| `PlaybackHistoryProofs`: `HistoryKept`, `RecordedAtMostOnce` | `HistoryAccounted` and its first half, `RecordedOnce` | a row count says nothing of who will write the next row, nor whether anybody will: see below |
| `PlayerLifecycleProofs`: `LifecycleTypeCorrect`, `HoldsCounted`, `GateHeldShut` | `TypeOK`, `HoldsAccounted`, `GateRespectsHolds` | a hold belongs to a player that was made (`BoundOK`), and a set of commands that grows or shrinks by one changes its count by one |
| `PlayerLifecycleProofs`: `HeardReachesHistory` | `HeardIsRecorded` | `HeardKept` says whose the play is: the loop's until a cleanup() takes the player down, then the cleanup's; `UpOK` and `HandOK` that neither has nothing, `SourceOK` that a frame which comes before that is of the song the loop waits for |
| `NowPlayingProofs`: `NowPlayingTypeCorrect`, `EveryBarAccounted`, `OnlySkipsTheSame`, `RetiredStaysDark`, `HostMovesDown` | `NPTypeOK`, `BarsAccounted`, `SkipsOnlyTheSame`, `NoResurrection`, `BlockMovesDown` | see below |
| `OutboxDrainerProofs`: `OutboxTypeCorrect`, `PlaysSurvive`, `PendingBounded` | `TypeOK`, `NoPlayLost`, `PelBounded` | see below |
| `OutboxDrainerProofs`: `OutboxKeepsContract` | `Spec => ArchiveContract`: the pipeline implements `HistoryLedger` | see below |
| `OutboxDrainerProofs`: `NoBodyLeftPending`, `CapTakesOldest` | `NoTombstone`, `CapKeepsNewest`, `Undisturbed` | `CapOK` says what the depth, the page, the bound and the acknowledgement still mean when the next of the cap's commands is sent, with pushes in between |
| `ServicesProofs`: `LockKept` | `HolderKeepsLock` | `MatchedIsOwn`: a releaser about to delete has seen its own token there, and WATCH has not fired since |
| `ServicesProofs`: `TeardownFinishes`, `WatchdogTypeCorrect` | `TeardownNotCut`, `WatchdogTypeOK` | `SlotInv`: a countdown that tears down is neither in the slot nor cancelled; a player registered meanwhile gets countdowns and cancellations of its own |
| `CacheProofs`: `StreamTypeCorrect`, `StreamCacheKept` | `StreamTypeOK`, `StreamCacheSound` | `FreshOK`, `OwnOK`: an extraction's URL is its own until it is cached, and whoever has extracted never looks at a cached URL again; a task cancelled at its drop leaves the entry marked, or gone |
| `CacheProofs`: `TokensLive`, `SpotifyTypeCorrect` | `LiveToken`, `SpotifyTypeOK` | `TokenInv` follows a token through the awaits of a refresh: at each it has lost no more than those behind it took, at most `slowest` each (`RefreshAt`, `SharedOK`); one refresh at a time (`AloneOK`) |
| `CacheProofs`: `ChoicesKept`, `DebugTypeCorrect` | `ChoicesSound`, `DebugTypeOK` | what a pass has read is what Redis holds or older than a toggle that has ended since, and the pass will see that one's stamp (`PassOK`); a landed toggle is in Redis (`LandedOK`) |
| `ServicesProofs`: `NoPoolLeftBehind`, `HealthyExecutorKept`, `PoolTypeCorrect` | `NoOrphanPool`, `FailsOnTwoPools`, `HealthyKept`, `PoolTypeOK` | generations are never used again, so a call that compares its executor with the published one cannot mistake a new one for the old; `ClosedOK`, `ExecutorsOK` say which are joined or broken |
| `ServicesProofs`: `PoolKept` | `PoolSound`, `OneCloser` | which executors have workers (`WholeOK`, `JoinsOK`) when the log listener stops |
| `ServicesProofs`: `OnePoolUntilClosed` | `OneArchivePool`, `NoneAfterClose` | `BuilderOK`: whoever connects, checks or discards holds the lock; `OpenOK`, `ShutOK` say what is open meanwhile |
| `ServicesProofs`: `DashboardKept` | `DashboardTypeOK`, `DashboardSound` | `CardOK`: what was shown last, what was rendered last and the rows are the same, unless an edit failed |
| `ServicesProofs`: `ServicesRefine`, `ServicesTypeCorrect`, `ServicesKept`, `PoolsKept`, `ServiceStepsKept` | what `Services` checks is, for each service, its own specification; so every property of the run holds of the composition | a service that was not chosen stutters |

The loop. `LoopInv == QueueInv /\ ClientInv`. That a step of the player is one of the queue's
(`StepIsClient`) needs only that arguments are items (`ClientOK`, `InHandOK`); it hands over
the queue's own invariant, and with it its two theorems. `ClaimsAccounted` needs three more
parts. `CallsOK`: a consumer whose claim is being settled is in the call that does it, and no
command is in such a call. `TurnsOK`: the loop takes its next song only once the prefetch is
through, has been handed over or is cancelled, so that it never joins a task that holds a
claim nobody counts. `StaleOK`: a claim that a clear has voided leaves its holder alone
with the queue, nothing has been stranded since and the flag is up; otherwise the give-back
of a voided claim, `if self._cursor > 0`, would take the claim of the other consumer. One
lemma for the loop's steps, the prefetch's, the commands' and the calls'.

Four invariants stand on `LoopInv`. `OwnInv`: as long as nothing is stranded, whoever has a
claim that can still be settled has the song at the head of the deque, or a resolved form of
it; an insertion goes behind the claimed prefix, a shuffle leaves it, and `TurnsOK` says that
there is one such claim. `SettlesOwnSong` is the commit's case of it. `DropInv`: what a clear
dropped is neither in the deque in one piece nor in a claim of this generation. It is inductive
only with what nobody can see from the queue: that the whole plays on their way to it, those
arriving, being resolved, held back for a prefetch or waiting for the lock, are disjoint from each
other and from everything that was ever queued (`NewOK(T)`, `T` the songs ever queued), so that no
later insertion brings a dropped play back. Only the resume tail of an interrupted play can, and
that is in pieces. `TypeInv`: the arguments of a call depend on which call it is.

The history. `HistoryAccounted` compares the rows with what was heard; each of its halves
needs an invariant that follows a play between the two. `OneHolder`: a play is in one of the
places from which its row can still be written (arriving, in a command's hand, queued, in a
call, with the loop), at one position of it, or is its row; so `RecordedOnce` is the case of
two rows. Each step takes a play from one place to the next: a put from the call into the
deque, the commit from its head to the loop, an interjection from the loop into the call that
queues the tail (`Marked`, when that happens before the claim is settled), a clear of a claimed
song that nobody heard to the loop, and a flush into the row. `HeardOK`: a heard play has its row,
or an entry of it that was heard is queued, in a call or with the loop. By itself that is not
inductive, as the loop drops the row of a song which an interjection has marked: so
`HeardOK` says also that a marked song cut `f` times has its row or an entry cut more often
(`Held(s, f)`), which no later commit of that song can take for the marked one. Both rest on
`LoopInv`, `TypeInv`, `DropInv`, on `HeadOK` and `OwedOK` of `MirrorInv` (the claim the loop
settles is for the entry of the song it has in hand), and on `HandsOK`: `current` is the song in
hand (`CurrentOK`), and a call has nothing left of what it has queued (`InsertOK`), so that a
command may ignore its result. A lemma for each group of steps keeps each of the two; TLC
checked all of these on the instances of the runs before they were proved.

Now Playing. `NPInv` follows a message from the send to the last edit. What is pointed at, by
the host, the render cache or a job in line, is known, that is, its send has returned; so a
message that comes back from Discord is one nobody has touched (`KnownOK`, `SendOK`). A final
edit or a strip in line is never for the host (`JobsOK`), a lit bar is only written over one
that is lit (`LockOK`), and what the cache believes is on the message (`CacheOK`): the four
together are why a message that is dark stays dark.

The outbox. Its three invariants follow from `DrainInv == TypeOK /\ (\A d : DrainerOK(d)) /\
GroupOK /\ NoPlayLost /\ PelOK`. `NoPlayLost` is not inductive, because it does not say what a
drainer about to settle its batch has done with it: `DrainerOK` says that what it will
retire has been archived or found unreadable, that a row it rejects is one the archive
cannot take, and that its tombstones have no body. `GroupOK` says that a group that is gone
has delivered nothing, so that rebuilding it from 0 hides no entry. `PelBounded` is not
inductive either: that a drainer at its second read adds at most a batch is no help unless
the pending set was empty when it looked, so `PelOK` counts a batch for each drainer that
is not at that read, which looking and reading exchange for one another. Reading new
entries keeps `NoPlayLost` only because the `n` oldest undelivered ids are a prefix of
them: the last-delivered id jumps to the greatest, and any id it skips would be invisible
for good; `GreatestId`, `LeastId` and the lemmas on `Oldest` are about that.

The refinement rests on `LedgerInv`: only pushed plays have a fate, no drainer is in the cap
where there is none, and nothing was dropped where nobody agreed to it. `FateIs` restates the
mapped variable, and a lemma for each kind of step says what it may change: pushes make a play
owed (`PushOwes`), settling takes an owed one to its end (`DrainSettles`), only the cap and
the operator lose (`MayLose`), and `LedgerStep` puts them together.

The findings of section 4 are above the level of these theorems or outside them: whatever
clients do to claims, the queue's cursor and lock stay sound; two drainers under a cap still
lose no play that is not in `dropped`; a countdown that stands in no slot is still not cut.

Only model-checked: the liveness properties (`EverySongLeaves`, `CommandsReturn`,
`ColdPlayerLeaves`, `BarsSettle`, `Drains`, `EveryServiceReturns`), since liveness under fairness is outside the prover's reach. Every invariant and
every action property of the passing runs is a theorem.

## 6. Not modelled

* Loop: pausing and resuming (a paused song is `voice = "on"`); commands whose own resolve
  fails, which touch nothing; a player without Redis; an interruption in a song's first
  second; the position fields and the now-playing snapshot; volume.
* Life cycle: an entry whose requester cannot be resolved; a user moving the bot between
  channels; the restart of the process itself beyond what `on_ready` finds.
* Redis store: the capped list `guild:{id}:history` and the producer's second attempt on a full
  Redis, after which a play is lost without a trace but the log; the search cache.
* Outbox: pushes that Redis refuses never enter it; a command that executes after its
  connection was given up; pending entries left under another consumer name; XGROUP DESTROY; a
  stream that is a list (start-up aborts); migrations that turn poison into accepted rows; a
  rejection that cannot be stored counts as refused, since its payload is logged; depth
  sampling and logs; the archive's readers with their semaphore and deadline.
* Streams: the probe's HTTP session, metadata, what yt-dlp and FFmpeg do. A cancelled task ends
  at its next await without more: what a cancelled extraction still computes in its worker is
  lost. Spotify: cached lookups, back-off.
* Watchdog: what a mute or deafening does to the sound; stage channels.
* Now Playing: the contents of the card beyond song and bar, permissions, other guilds'
  channels.

Components not modelled at all are listed with their reasons in `PROJECT.json`: they parse,
format, report or start things and keep no state that two of their steps could disagree about.

## 7. What is left

The position fields with crash recovery's resume offset, and the history list against the
outbox on a full Redis.
