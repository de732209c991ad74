----------------------------- MODULE GuildQueue -----------------------------
(***************************************************************************)
(* One guild's playback queue: src/guild_queue.py with the Redis list that  *)
(* mirrors it (src/redis_client.py, key guild:{id}:queue).                   *)
(*                                                                         *)
(* The queue is one deque, items, split by cursor: the first cursor items    *)
(* are claimed (taken by a consumer that has not settled them), the rest are *)
(* pending.  Every operation that suspends runs under one FIFO asyncio.Lock; *)
(* its in-memory part is atomic, its Redis commands follow one by one while  *)
(* the lock is held, and each of them may fail without the caller noticing.  *)
(* Claiming, giving a claim back and reading the cleared flag take no lock.  *)
(*                                                                         *)
(* The module fixes no discipline for its callers: Next lets any process     *)
(* call anything with any argument.  PlaybackLoop is the one real client.    *)
(***************************************************************************)
EXTENDS Naturals, Sequences, FiniteSets, Functions, SequencesExt

CONSTANTS
    Songs,          \* identities of the songs that can be queued
    Link,           \* [Songs -> Songs]: which songs serialize to the same bytes
    Procs,          \* coroutines that call the queue
    RestoredQueues, \* the deques a restart can restore
    ShuffleMin,     \* shuffle() refuses fewer pending items (4 in the code)
    LremMax,        \* _LREM_MAX_ENTRIES (16 in the code)
    LremShare       \* _LREM_MAX_SHARE (5 in the code)

(***************************************************************************)
(* A queue item.  form: "search" is a YTSource (a search not resolved yet),  *)
(* "song" a QueueObject, "crashed" the crash-recovered current song, the one *)
(* QueueObject with persisted=False.  frag counts the interjections that cut  *)
(* the play: a resume tail (is_resume) has one at least.  played is            *)
(* played_at > 0: a listener heard part of it before it came into the queue.   *)
(***************************************************************************)
Forms == {"search", "song", "crashed"}
Item == [song : Songs, form : Forms, frag : Nat, played : BOOLEAN]

\* What s has at the positions in S, in order.
At(s, S) ==
    [k \in 1 .. Cardinality(S) |-> s[CHOOSE i \in S : Cardinality({j \in S : j < i}) = k - 1]]

IsPersisted(i) == i.form # "crashed"
Entries(s) == At(s, {k \in DOMAIN s : IsPersisted(s[k])})
Resolved(i) == IF i.form = "search" THEN [i EXCEPT !.form = "song"] ELSE i

\* What an entry looks like on the wire.
Blob(i) == <<Link[i.song], i.form, i.frag, i.played>>

ASSUME QueueAssumption ==
    /\ Link \in [Songs -> Songs]
    /\ RestoredQueues \subseteq Seq(Item)
    /\ ShuffleMin \in Nat
    /\ LremMax \in Nat
    /\ LremShare \in Nat

VARIABLES
    items,      \* _items
    cursor,     \* _cursor
    cleared,    \* _cleared
    generation, \* _generation
    mutex,      \* _mutex: its holder, then its waiters in FIFO order
    op,         \* the operation each process has in progress
    writes,     \* the Redis commands each operation still has to issue
    mirror,     \* the Redis list
    owed,       \* history: committed from memory, its LPOP not issued yet
    degraded    \* history: an event the design accepts made the mirror drift

memory == <<items, cursor, cleared, generation>>
store == <<mirror, owed, degraded>>
queueVars == <<memory, mutex, op, writes, store>>

OpNames == {"put", "putBatch", "putFront", "clear", "shuffle", "remove",
            "finishFailed", "commit"}
Operation == [name : OpNames \cup {"none"}, phase : {"idle", "lock", "store", "done"},
              arg : Seq(Item), gen : Nat]
Idle == [name |-> "none", phase |-> "idle", arg |-> <<>>, gen |-> 0]
-----------------------------------------------------------------------------
Pending == (cursor + 1) .. Len(items)
Claimed == SubSeq(items, 1, cursor)
Empty == cursor >= Len(items)

\* The mirror commands.  drop names what an LREM removes.
Command(c, ents) == [cmd |-> c, ents |-> ents, drop |-> <<>>]
Pushes(ents) == [k \in DOMAIN ents |-> Command("rpush", <<ents[k]>>)]

\* _write_mirror without removed=: the persisted subset, or DEL when none is.
Rewrite(s) ==
    IF Entries(s) = <<>> THEN <<Command("del", <<>>)>>
                         ELSE <<Command("rebuild", Entries(s))>>

ClaimedBlobs == {Blob(items[k]) : k \in {j \in 1 .. cursor : IsPersisted(items[j])}}

\* A seeded mistake: a small removal is always an LREM, whoever owns the entries
\* it takes.
RewriteIgnoringClaims(s, dropped) ==
    LET gone == Entries(dropped) IN
    IF gone # <<>> /\ Entries(s) # <<>> /\ Len(gone) * LremShare <= Len(Entries(s))
    THEN <<[cmd |-> "lrem", ents |-> <<>>, drop |-> gone]>>
    ELSE Rewrite(s)

\* _write_mirror(s, removed=dropped): LREM only for a small removal that cannot
\* take a claimed item's entry, the rewrite otherwise.
RewriteAfterRemoval(s, dropped) ==
    LET gone == Entries(dropped) IN
    IF /\ gone # <<>>
       /\ Entries(s) # <<>>
       /\ Len(gone) <= LremMax
       /\ Len(gone) * LremShare <= Len(Entries(s))
       /\ \A k \in DOMAIN gone : Blob(gone[k]) \notin ClaimedBlobs
    THEN <<[cmd |-> "lrem", ents |-> <<>>, drop |-> gone]>>
    ELSE Rewrite(s)

\* The positions an LREM takes: per serialization, as many head-most copies as
\* were asked for.
LremHits(drop) ==
    {k \in DOMAIN mirror :
        Cardinality({j \in 1 .. k : Blob(mirror[j]) = Blob(mirror[k])})
            <= Cardinality({j \in DOMAIN drop : Blob(drop[j]) = Blob(mirror[k])})}

Applied(c) ==
    CASE c.cmd = "rpush"   -> mirror \o c.ents
      [] c.cmd = "lpush"   -> c.ents \o mirror
      [] c.cmd = "lpop"    -> IF mirror = <<>> THEN mirror ELSE Tail(mirror)
      [] c.cmd = "del"     -> <<>>
      [] c.cmd = "rebuild" -> c.ents
      [] c.cmd = "lrem"    -> At(mirror, DOMAIN mirror \ LremHits(c.drop))
-----------------------------------------------------------------------------
(* Calling an operation: joining the lock's queue.                          *)

Call(p, name, arg, gen) ==
    /\ op[p] = Idle
    /\ op' = [op EXCEPT ![p] = [name |-> name, phase |-> "lock",
                                arg |-> arg, gen |-> gen]]
    /\ mutex' = Append(mutex, p)

\* p's turn: it got the lock and runs its critical section.
Holds(p, name) ==
    /\ mutex # <<>>
    /\ Head(mutex) = p
    /\ op[p].name = name
    /\ op[p].phase = "lock"

\* The critical section's memory part is over: the Redis commands are left, or
\* the lock is released and the call returns.
Proceed(p, todo, result) ==
    /\ writes' = [writes EXCEPT ![p] = todo]
    /\ op' = [op EXCEPT ![p].phase = IF todo = <<>> THEN "done" ELSE "store",
                        ![p].arg = result]
    /\ mutex' = IF todo = <<>> THEN Tail(mutex) ELSE mutex

\* A rewrite of the list while a committed song's LPOP is outstanding is the
\* accepted race: the LPOP then takes an entry it does not own.
RacesOwedPop == degraded' = (degraded \/ owed # <<>>)

EnterPut(p) ==
    /\ Holds(p, "put") \/ Holds(p, "putBatch")
    /\ items' = items \o op[p].arg
    /\ LET ents == Entries(op[p].arg) IN
       Proceed(p, IF ents # <<>> /\ op[p].name = "putBatch"
                  THEN <<Command("rpush", ents)>> ELSE Pushes(ents), <<>>)
    /\ UNCHANGED <<cursor, cleared, generation, store>>

\* A seeded mistake: the new head goes in front of the claimed items too.
PutFrontOfClaims(p) ==
    /\ Holds(p, "putFront")
    /\ items' = op[p].arg \o items
    /\ Proceed(p, Rewrite(items'), <<>>)
    /\ RacesOwedPop
    /\ UNCHANGED <<cursor, cleared, generation, mirror, owed>>

EnterPutFront(p) ==
    /\ Holds(p, "putFront")
    /\ items' = Claimed \o op[p].arg \o SubSeq(items, cursor + 1, Len(items))
    /\ LET ents == Entries(op[p].arg) IN
       Proceed(p, IF cursor > 0 THEN Rewrite(items')
                  ELSE IF ents = <<>> THEN <<>>
                  ELSE <<Command("lpush", ents)>>, <<>>)
    /\ RacesOwedPop
    /\ UNCHANGED <<cursor, cleared, generation, mirror, owed>>

\* Two seeded mistakes: a clear that leaves the cursor where it was, and one that
\* spares what a consumer has claimed.
ClearKeepsCursor(p) ==
    /\ Holds(p, "clear")
    /\ cleared' = TRUE
    /\ generation' = generation + 1
    /\ items' = <<>>
    /\ Proceed(p, <<Command("del", <<>>)>>, items)
    /\ RacesOwedPop
    /\ UNCHANGED <<cursor, mirror, owed>>

ClearSparesClaims(p) ==
    /\ Holds(p, "clear")
    /\ cleared' = TRUE
    /\ items' = Claimed
    /\ Proceed(p, <<Command("del", <<>>)>>, items)
    /\ RacesOwedPop
    /\ UNCHANGED <<cursor, generation, mirror, owed>>

EnterClear(p) ==
    /\ Holds(p, "clear")
    /\ cleared' = TRUE
    /\ generation' = generation + 1
    /\ items' = <<>>
    /\ cursor' = 0
    /\ Proceed(p, <<Command("del", <<>>)>>, items)
    /\ RacesOwedPop
    /\ UNCHANGED <<mirror, owed>>

EnterShuffle(p) ==
    /\ Holds(p, "shuffle")
    /\ IF Len(items) - cursor < ShuffleMin
       THEN Proceed(p, <<>>, <<>>) /\ UNCHANGED <<items, degraded>>
       ELSE /\ \E pi \in Bijection(Pending, Pending) :
                  items' = [k \in DOMAIN items |->
                              IF k \in Pending THEN items[pi[k]] ELSE items[k]]
            /\ Proceed(p, IF Pending = {} THEN <<>> ELSE Rewrite(items'), <<>>)
            /\ RacesOwedPop
    /\ UNCHANGED <<cursor, cleared, generation, mirror, owed>>

\* remove_matcher() reads the resolved link and what the user typed, which outlives
\* the resolution: what takes a search takes whatever agrees with it, what takes a song
\* by its link takes the songs with that link.
Alike(i, j) == Link[i.song] = Link[j.song] /\ (j.form = "search" => i.form = "search")

EnterRemove(p) ==
    /\ Holds(p, "remove")
    /\ \E gone \in SUBSET Pending :
          \/ /\ gone = {}
             /\ Proceed(p, <<>>, <<>>)
             /\ UNCHANGED <<items, degraded>>
          \/ /\ gone # {}
             /\ \A j \in gone, k \in Pending : Alike(items[j], items[k]) => k \in gone
             /\ items' = At(items, DOMAIN items \ gone)
             /\ Proceed(p, RewriteAfterRemoval(items', At(items, gone)), At(items, gone))
             /\ RacesOwedPop
    /\ UNCHANGED <<cursor, cleared, generation, mirror, owed>>

\* try_release(): settle one claim by position, the head whatever it is.
Release ==
    /\ items' = Tail(items)
    /\ cursor' = cursor - 1

\* A seeded mistake: the failed song stays, to be tried again.
KeepFailed(p) ==
    /\ Holds(p, "finishFailed")
    /\ cursor' = IF cursor = 0 THEN 0 ELSE cursor - 1
    /\ Proceed(p, <<>>, op[p].arg)
    /\ UNCHANGED <<items, cleared, generation, store>>

EnterFinishFailed(p) ==
    /\ Holds(p, "finishFailed")
    /\ IF cursor = 0
       THEN Proceed(p, <<>>, op[p].arg) /\ UNCHANGED <<items, cursor>>
       ELSE /\ Release
            /\ Proceed(p, IF Entries(op[p].arg) = <<>> THEN <<>>
                          ELSE <<Command("lpop", <<>>)>>, op[p].arg)
    /\ UNCHANGED <<cleared, generation, store>>

\* try_commit_dequeue(): no Redis command of its own.  The caller's LPOP, owed
\* from here on, is issued without the lock.
CommitOK(p) == op[p].gen = generation /\ cursor > 0

\* A seeded mistake: every song that starts pops the list, the crash-recovered one
\* that was never on it too.
CommitAlwaysPops(p) ==
    /\ Holds(p, "commit")
    /\ mutex' = Tail(mutex)
    /\ op' = [op EXCEPT ![p] = Idle]
    /\ IF CommitOK(p)
       THEN Release /\ owed' = <<Head(items)>>
       ELSE UNCHANGED <<items, cursor, owed>>
    /\ UNCHANGED <<cleared, generation, writes, mirror, degraded>>

EnterCommit(p) ==
    /\ Holds(p, "commit")
    /\ mutex' = Tail(mutex)
    /\ op' = [op EXCEPT ![p] = Idle]
    /\ IF CommitOK(p)
       THEN /\ Release
            /\ owed' = IF Entries(op[p].arg) = <<>> THEN <<>> ELSE <<Head(items)>>
       ELSE UNCHANGED <<items, cursor, owed>>
    /\ UNCHANGED <<cleared, generation, writes, mirror, degraded>>
-----------------------------------------------------------------------------
(* The Redis commands of the operation that holds the lock.                 *)

Issued(p, todo) ==
    /\ writes' = [writes EXCEPT ![p] = todo]
    /\ IF todo = <<>>
       THEN /\ mutex' = Tail(mutex)
            /\ op' = [op EXCEPT ![p].phase = "done"]
       ELSE UNCHANGED <<mutex, op>>

\* A whole-list write brings the mirror back in line, unless an LPOP is owed.
Write(p) ==
    /\ op[p].phase = "store"
    /\ writes[p] # <<>>
    /\ LET c == Head(writes[p])
           short == /\ c.cmd = "lrem"
                    /\ Cardinality(LremHits(c.drop)) < Len(c.drop)
       IN  /\ mirror' = Applied(c)
           /\ Issued(p, IF short THEN Rewrite(items) ELSE Tail(writes[p]))
           /\ degraded' = IF c.cmd \in {"del", "rebuild"} /\ owed = <<>>
                          THEN FALSE ELSE degraded
    /\ UNCHANGED <<memory, owed>>

\* @_guild_op logs the error and returns the default; LREM's default, 0, is
\* short of what was asked and falls through to the rewrite.
WriteFails(p) ==
    /\ op[p].phase = "store"
    /\ writes[p] # <<>>
    /\ degraded' = TRUE
    /\ Issued(p, IF Head(writes[p]).cmd = "lrem" THEN Rewrite(items)
                                                 ELSE Tail(writes[p]))
    /\ UNCHANGED <<memory, mirror, owed>>

\* The caller reads the result and goes on.
Return(p) ==
    /\ op[p].phase = "done"
    /\ op' = [op EXCEPT ![p] = Idle]

\* Two seeded mistakes: a cancelled caller leaves the lock taken, or releases it
\* with the next one's turn.
AbandonKeepsLock(p) ==
    /\ op[p].phase \in {"lock", "store"}
    /\ op' = [op EXCEPT ![p] = Idle]
    /\ writes' = [writes EXCEPT ![p] = <<>>]
    /\ degraded' = TRUE
    /\ UNCHANGED <<memory, mutex, mirror, owed>>

AbandonSkipsTurn(p) ==
    /\ op[p].phase \in {"lock", "store"}
    /\ op' = [op EXCEPT ![p] = Idle]
    /\ writes' = [writes EXCEPT ![p] = <<>>]
    /\ mutex' = Tail(mutex)
    /\ degraded' = TRUE
    /\ UNCHANGED <<memory, mirror, owed>>

\* The caller's task is cancelled inside the call: a waiter leaves the lock's
\* queue, a holder releases it with its Redis command sent or not.
Abandon(p) ==
    /\ op[p].phase \in {"lock", "store"}
    /\ op' = [op EXCEPT ![p] = Idle]
    /\ writes' = [writes EXCEPT ![p] = <<>>]
    /\ \E k \in DOMAIN mutex : mutex[k] = p /\ mutex' = RemoveAt(mutex, k)
    /\ mirror' \in {mirror} \cup
          (IF writes[p] = <<>> THEN {} ELSE {Applied(Head(writes[p]))})
    /\ degraded' = (degraded \/ mirror' # mirror \/ writes[p] # <<>>)
    /\ UNCHANGED <<memory, owed>>
-----------------------------------------------------------------------------
(* The operations that take no lock.  None of them suspends, so a coroutine  *)
(* does several, and starts a locked call after them, in one step.           *)

\* get() and get_nowait(): the next pending item is now claimed.
Claim ==
    /\ ~Empty
    /\ cursor' = cursor + 1
    /\ UNCHANGED items

\* A seeded mistake: the item goes back, the cursor stays behind it.
GiveBackStillClaimed(item) ==
    IF cursor > 0
    THEN items' = [items EXCEPT ![cursor] = item] /\ UNCHANGED cursor
    ELSE UNCHANGED <<items, cursor>>

\* requeue_front(item)
GiveBack(item) ==
    IF cursor > 0
    THEN /\ cursor' = cursor - 1
         /\ items' = [items EXCEPT ![cursor] = item]
    ELSE UNCHANGED <<items, cursor>>

\* consume_cleared_flag()
ConsumeClearedFlag == cleared' = FALSE

\* pop_queue_and_start_song(): MULTI of the LPOP and the state write, one step;
\* a failure is swallowed and leaves the entry on the list.
PopOwed ==
    /\ owed # <<>>
    /\ owed' = <<>>
    /\ \/ /\ mirror' = Applied(Command("lpop", <<>>))
          /\ UNCHANGED degraded
       \/ /\ degraded' = TRUE
          /\ UNCHANGED mirror

\* The commit's caller raised before its LPOP: nothing ever issues it.
ForfeitOwed ==
    /\ owed # <<>>
    /\ owed' = <<>>
    /\ degraded' = TRUE
    /\ UNCHANGED mirror
-----------------------------------------------------------------------------
Init ==
    /\ items \in RestoredQueues
    /\ cursor = 0
    /\ cleared = FALSE
    /\ generation = 0
    /\ mutex = <<>>
    /\ op = [p \in Procs |-> Idle]
    /\ writes = [p \in Procs |-> <<>>]
    /\ mirror = Entries(items)
    /\ owed = <<>>
    /\ degraded = FALSE

Critical(p) ==
    \/ EnterPut(p)
    \/ EnterPutFront(p)
    \/ EnterClear(p)
    \/ EnterShuffle(p)
    \/ EnterRemove(p)
    \/ EnterFinishFailed(p)
    \/ EnterCommit(p)

\* A call with any name and any argument; the step's outcome names them.
Called(p) ==
    /\ op'[p].name \in OpNames
    /\ op'[p].arg \in Seq(Item)
    /\ op'[p].gen \in Nat
    /\ Call(p, op'[p].name, op'[p].arg, op'[p].gen)

Returned(p) == Return(p) /\ UNCHANGED mutex

GivenBack ==
    /\ cursor > 0
    /\ DOMAIN items' = DOMAIN items
    /\ items'[cursor] \in Item
    /\ GiveBack(items'[cursor])

\* What a coroutine does between two suspensions without holding the lock.
Unlocked ==
    /\ ConsumeClearedFlag \/ UNCHANGED cleared
    /\ Claim \/ GivenBack \/ UNCHANGED <<items, cursor>>
    /\ (\E p \in Procs : Called(p) \/ Returned(p)) \/ UNCHANGED <<op, mutex>>
    /\ UNCHANGED <<generation, writes, store>>

Started ==
    /\ PopOwed \/ ForfeitOwed
    /\ UNCHANGED <<memory, mutex, op, writes>>

Locked(p) == Critical(p) \/ Write(p) \/ WriteFails(p) \/ Abandon(p)

Next == (\E p \in Procs : Locked(p)) \/ Unlocked \/ Started

Spec == Init /\ [][Next]_queueVars
-----------------------------------------------------------------------------
(* Properties.  PlaybackLoop's runs check them; GuildQueueProofs proves them  *)
(* for every client.                                                         *)

\* Type invariant, with I1 of docs/ARCHITECTURE.md: the cursor never leaves the
\* deque, so the claimed prefix and the pending rest are always well defined,
\* although claims are given back and settled by position, by callers that do not
\* know of one another, and a clear may come between any two of their steps.
QueueTypeOK ==
    /\ items \in Seq(Item)
    /\ cursor \in 0 .. Len(items)
    /\ cleared \in BOOLEAN
    /\ generation \in Nat
    /\ mutex \in Seq(Procs)
    /\ op \in [Procs -> Operation]

\* The lock: a call waits in it or holds it exactly while it is under way, nobody is
\* in it twice, and only its holder has Redis commands outstanding; so the commands
\* of two operations never interleave, whichever call is cancelled and when.
MutexOK ==
    /\ \A j, k \in DOMAIN mutex : mutex[j] = mutex[k] => j = k
    /\ \A p \in Procs :
          op[p].phase \in {"lock", "store"} <=> \E k \in DOMAIN mutex : mutex[k] = p
    /\ \A p \in Procs : op[p].phase = "store" => Head(mutex) = p
=============================================================================
