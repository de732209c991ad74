---------------------------- MODULE OutboxDrainer ----------------------------
(***************************************************************************)
(* The way of a play from Redis to PostgreSQL: the stream history:outbox      *)
(* with its one consumer group and one consumer name (src/redis_client.py),    *)
(* the archive, and the HistoryOutboxDrainers (src/history_archive.py), one    *)
(* per process, that move entries from the first to the second.               *)
(*                                                                         *)
(* A command to Redis or PostgreSQL is one step.  It takes effect at once; its *)
(* reply may be lost, which the drainer sees as an error, and so is a command  *)
(* that never arrives or the whole-cycle deadline.                            *)
(***************************************************************************)
EXTENDS FiniteSetsExt, Sequences, Integers

CONSTANTS
    Drainers,   \* processes that drain the outbox
    Plays,
    Readable,   \* plays whose bytes parse_history_entry can read
    Accepted,   \* plays the archive takes; the other readable ones are poison
    Produced,   \* the plays the bot pushes, in order; one twice is a re-sent MULTI
    BatchSize,  \* BATCH_SIZE
    OutboxMax,  \* HISTORY_OUTBOX_MAX, 0 for no cap
    CapPage,    \* CAP_PAGE
    Events,     \* what may go wrong
    MaxFaults   \* bound: how often

EventNames == {"fail", "crash", "stop", "die", "del", "xdel"}

ASSUME DrainerAssumption ==
    /\ IsFiniteSet(Drainers)
    /\ Readable \subseteq Plays
    /\ Accepted \subseteq Readable
    /\ Produced \in Seq(Plays)
    /\ BatchSize \in Nat \ {0}
    /\ OutboxMax \in Nat
    /\ CapPage \in Nat \ {0}
    /\ Events \subseteq EventNames
    /\ MaxFaults \in Nat

VARIABLES
    \* Redis
    stream,    \* ids of the entries in the stream
    pushed,    \* the last id given out
    group,     \* the consumer group exists
    delivered, \* its last-delivered id
    pending,   \* its pending entries (PEL), all under the one consumer name
    \* PostgreSQL
    archive,   \* plays in play_history
    refused,   \* plays in play_history_rejected or reported as unreadable
    \* each drainer
    pc,        \* the command it is about to send
    mode,      \* "run", "failed" (the except arm of _run), "final" (stop's drain)
    healed,    \* _read_batch: this is the second attempt
    tombs,     \* ids of the batch delivered without a body
    todo,      \* ids of the batch still to be settled
    cap,       \* _enforce_cap's page, minid and in_flight
    \* history variables and the bound
    dropped,   \* ids the cap or an operator took away
    reported,  \* ids whose trim the cap has logged
    faults

redis == <<stream, pushed, group, delivered, pending>>
postgres == <<archive, refused>>
locals == <<pc, mode, healed, tombs, todo, cap>>
losses == <<dropped, reported>>
vars == <<redis, postgres, locals, losses, faults>>

Labels == {"down", "sweep", "pending", "new", "heal", "tombs", "insert", "retire",
           "isolate", "reject", "isoRetire", "depth", "range", "below", "ack", "trim",
           "backoff", "idle", "dead"}
Ids == 1 .. Len(Produced)
NoCap == [page |-> 0, minid |-> 0, inFlight |-> {}]
CapLocals == [page : Nat, minid : Nat, inFlight : SUBSET Ids]

Play(i) == Produced[i]
PlaysOf(S) == {Play(i) : i \in S}
Parsed(S) == {i \in S : Play(i) \in Readable}

\* The n oldest of a set of ids: what COUNT n returns.
Oldest(S, n) == {i \in S : Cardinality({j \in S : j < i}) < n}

-----------------------------------------------------------------------------
(* How a drainer moves on. *)

Fault(e) == e \in Events /\ faults < MaxFaults /\ faults' = faults + 1

\* Next command of the same batch or cap pass.
GoOn(d, l, rest) ==
    /\ pc' = [pc EXCEPT ![d] = l]
    /\ todo' = [todo EXCEPT ![d] = rest]
    /\ UNCHANGED <<mode, healed, tombs, cap>>

\* Every local of the cycle dies with it.
Leave(d, l, m) ==
    /\ pc' = [pc EXCEPT ![d] = l]
    /\ mode' = [mode EXCEPT ![d] = m]
    /\ healed' = [healed EXCEPT ![d] = FALSE]
    /\ tombs' = [tombs EXCEPT ![d] = {}]
    /\ todo' = [todo EXCEPT ![d] = {}]
    /\ cap' = [cap EXCEPT ![d] = NoCap]

\* An exception: stop() gives up, _run enforces the cap and backs off, and a cap
\* that fails there is swallowed.
Raise(d) ==
    \/ mode[d] = "final" /\ Leave(d, "down", "run")
    \/ mode[d] = "failed" /\ Leave(d, "backoff", "failed")
    \/ mode[d] = "run" /\ Leave(d, IF OutboxMax = 0 THEN "backoff" ELSE "depth", "failed")

\* The command's effect stands and its reply does not arrive.
ReplyLost(d) == Fault("fail") /\ Raise(d)

CapOver(d) ==
    \/ mode[d] = "run" /\ Leave(d, "sweep", "run")
    \/ mode[d] = "failed" /\ Leave(d, "backoff", "failed")

\* The tail of _drain_batch; the cap never runs in a process that is stopping.
BatchOver(d) ==
    \/ mode[d] = "final" /\ Leave(d, "pending", "final")
    \/ mode[d] = "run" /\ Leave(d, IF OutboxMax = 0 THEN "sweep" ELSE "depth", "run")

\* Go on with what is left of the batch.
Rest(d, l, rest) ==
    \/ rest # {} /\ GoOn(d, l, rest)
    \/ rest = {} /\ BatchOver(d)

\* insert_batch([]) sends nothing.
Live(S) == IF Parsed(S) = {} THEN "retire" ELSE "insert"

\* Seeded mistake: XDEL without XACK.
SettleDeletesOnly(ids) ==
    /\ stream' = stream \ ids
    /\ UNCHANGED <<pushed, group, delivered, pending>>

\* retire_outbox: XACK and XDEL in one MULTI.
Settle(ids) ==
    /\ pending' = pending \ ids
    /\ stream' = stream \ ids
    /\ UNCHANGED <<pushed, group, delivered>>

-----------------------------------------------------------------------------
(* The producer: the XADD of push_history's transaction. *)

Push ==
    /\ pushed < Len(Produced)
    /\ pushed' = pushed + 1
    /\ stream' = stream \cup {pushed + 1}
    /\ UNCHANGED <<group, delivered, pending, postgres, locals, losses, faults>>

-----------------------------------------------------------------------------
(* Reading a batch. *)

\* XAUTOCLAIM purges the pending records whose body is gone; claiming into the
\* same consumer name changes nothing else, and errors are swallowed.  Nothing is
\* purged when the sweep is not due.
Sweep(d) ==
    /\ pc[d] = "sweep"
    /\ \E gone \in SUBSET (pending \ stream) : pending' = pending \ gone
    /\ GoOn(d, "pending", {})
    /\ UNCHANGED <<stream, pushed, group, delivered, postgres, losses, faults>>

\* A batch as delivered: entries without a body are settled first.
Delivered(d, ids) ==
    /\ tombs' = [tombs EXCEPT ![d] = ids \ stream]
    /\ todo' = [todo EXCEPT ![d] = ids \cap stream]
    /\ pc' = [pc EXCEPT ![d] = IF ids \subseteq stream THEN Live(ids) ELSE "tombs"]
    /\ UNCHANGED <<mode, healed, cap>>

\* Seeded mistake: the pending entries do not keep new ones away.
ReadsNewRegardless(d) ==
    /\ pc[d] = "pending"
    /\ group
    /\ \/ pending # {} /\ Delivered(d, Oldest(pending, BatchSize))
       \/ GoOn(d, "new", {})
    /\ UNCHANGED <<redis, postgres, losses, faults>>

\* Unsettled entries first, a peer's among them; new ones only if there are none.
ReadPending(d) ==
    /\ pc[d] = "pending"
    /\ group
    /\ \/ pending # {} /\ Delivered(d, Oldest(pending, BatchSize))
       \/ pending = {} /\ GoOn(d, "new", {})
    /\ UNCHANGED <<redis, postgres, losses, faults>>

Undelivered == {i \in stream : i > delivered}

NothingNew(d) ==
    \/ mode[d] = "run" /\ Leave(d, "idle", "run")
    \/ mode[d] = "final" /\ Leave(d, "down", "run")

\* Seeded mistake: noack=True, at most once.
ReadNewNoAck(d) ==
    /\ pc[d] = "new"
    /\ group
    /\ \/ /\ Undelivered = {}
          /\ NothingNew(d)
          /\ UNCHANGED <<redis, faults>>
       \/ \E fresh \in {Oldest(Undelivered, BatchSize)} :
            /\ fresh # {}
            /\ delivered' = Max(fresh)
            /\ UNCHANGED <<stream, pushed, group, pending>>
            /\ \/ Delivered(d, fresh) /\ UNCHANGED faults
               \/ ReplyLost(d)
    /\ UNCHANGED <<postgres, losses>>

\* XREADGROUP ">": disjoint between drainers, into the shared pending entries.
ReadNew(d) ==
    /\ pc[d] = "new"
    /\ group
    /\ \/ /\ Undelivered = {}
          /\ NothingNew(d)
          /\ UNCHANGED <<redis, faults>>
       \/ \E fresh \in {Oldest(Undelivered, BatchSize)} :
            /\ fresh # {}
            /\ delivered' = Max(fresh)
            /\ pending' = pending \cup fresh
            /\ UNCHANGED <<stream, pushed, group>>
            /\ \/ Delivered(d, fresh) /\ UNCHANGED faults
               \/ ReplyLost(d)
    /\ UNCHANGED <<postgres, losses>>

\* Either read finds no group: the key was deleted.  Once it is rebuilt.
NoGroup(d) ==
    /\ pc[d] \in {"pending", "new"}
    /\ ~group
    /\ IF healed[d] THEN Raise(d) ELSE GoOn(d, "heal", {})
    /\ UNCHANGED <<redis, postgres, losses, faults>>

\* XGROUP CREATE from 0; BUSYGROUP if a peer was faster.
EnsureGroup ==
    /\ group' = TRUE
    /\ IF group THEN UNCHANGED <<delivered, pending>>
                ELSE delivered' = 0 /\ pending' = {}
    /\ UNCHANGED <<stream, pushed>>

Heal(d) ==
    /\ pc[d] = "heal"
    /\ EnsureGroup
    /\ \/ /\ pc' = [pc EXCEPT ![d] = "pending"]
          /\ healed' = [healed EXCEPT ![d] = TRUE]
          /\ UNCHANGED <<mode, tombs, todo, cap, faults>>
       \/ ReplyLost(d)
    /\ UNCHANGED <<postgres, losses>>

-----------------------------------------------------------------------------
(* Settling a batch. *)

\* Seeded mistake: tombstones are skipped, not acknowledged.
TombstonesLeftPending(d) ==
    /\ pc[d] = "tombs"
    /\ \/ /\ todo[d] # {}
          /\ pc' = [pc EXCEPT ![d] = Live(todo[d])]
          /\ tombs' = [tombs EXCEPT ![d] = {}]
          /\ UNCHANGED <<mode, healed, todo, cap>>
       \/ todo[d] = {} /\ BatchOver(d)
    /\ UNCHANGED <<redis, postgres, losses, faults>>

\* Their bodies are gone for good; unacknowledged they would come back for ever.
SettleTombstones(d) ==
    /\ pc[d] = "tombs"
    /\ Settle(tombs[d])
    /\ \/ /\ UNCHANGED faults
          /\ \/ /\ todo[d] # {}
                /\ pc' = [pc EXCEPT ![d] = Live(todo[d])]
                /\ tombs' = [tombs EXCEPT ![d] = {}]
                /\ UNCHANGED <<mode, healed, todo, cap>>
             \/ todo[d] = {} /\ BatchOver(d)
       \/ ReplyLost(d)
    /\ UNCHANGED <<postgres, losses>>

\* One transaction for the whole batch.  A row of poison refuses all of it.
InsertBatch(d) ==
    /\ pc[d] = "insert"
    /\ \E rows \in {PlaysOf(Parsed(todo[d]))} :
        \/ /\ rows \subseteq Accepted
           /\ archive' = archive \cup rows
           /\ \/ GoOn(d, "retire", todo[d]) /\ UNCHANGED faults
              \/ ReplyLost(d)
        \/ /\ ~ (rows \subseteq Accepted)
           /\ UNCHANGED archive
           /\ \/ GoOn(d, "isolate", todo[d]) /\ UNCHANGED faults
              \/ ReplyLost(d)
    /\ UNCHANGED <<redis, refused, losses>>

\* What did not parse goes with the rest of the batch.
RetireBatch(d) ==
    /\ pc[d] = "retire"
    /\ Settle(todo[d])
    /\ refused' = refused \cup PlaysOf(todo[d] \ Parsed(todo[d]))
    /\ \/ BatchOver(d) /\ UNCHANGED faults
       \/ ReplyLost(d)
    /\ UNCHANGED <<archive, losses>>

Item(d) == Min(todo[d])

\* Row by row: an unreadable entry is only settled, an accepted one inserted.
Isolate(d) ==
    /\ pc[d] = "isolate"
    /\ \/ /\ Play(Item(d)) \notin Readable
          /\ GoOn(d, "isoRetire", todo[d])
          /\ UNCHANGED <<archive, faults>>
       \/ /\ Play(Item(d)) \in Accepted
          /\ archive' = archive \cup {Play(Item(d))}
          /\ \/ GoOn(d, "isoRetire", todo[d]) /\ UNCHANGED faults
             \/ ReplyLost(d)
       \/ /\ Play(Item(d)) \in Readable \ Accepted
          /\ UNCHANGED archive
          /\ \/ GoOn(d, "reject", todo[d]) /\ UNCHANGED faults
             \/ ReplyLost(d)
    /\ UNCHANGED <<redis, refused, losses>>

\* record_rejection: into the rejects table or, if that fails, into the log.
Reject(d) ==
    /\ pc[d] = "reject"
    /\ refused' = refused \cup {Play(Item(d))}
    /\ \/ GoOn(d, "isoRetire", todo[d]) /\ UNCHANGED faults
       \/ ReplyLost(d)
    /\ UNCHANGED <<redis, archive, losses>>

\* Seeded mistake: the batch is settled as a whole after its first row.
IsolateRetiresAll(d) ==
    /\ pc[d] = "isoRetire"
    /\ Settle(todo[d])
    /\ refused' = refused \cup PlaysOf({Item(d)} \ Parsed({Item(d)}))
    /\ \/ Rest(d, "isolate", todo[d] \ {Item(d)}) /\ UNCHANGED faults
       \/ ReplyLost(d)
    /\ UNCHANGED <<archive, losses>>

IsolateRetire(d) ==
    /\ pc[d] = "isoRetire"
    /\ Settle({Item(d)})
    /\ refused' = refused \cup PlaysOf({Item(d)} \ Parsed({Item(d)}))
    /\ \/ Rest(d, "isolate", todo[d] \ {Item(d)}) /\ UNCHANGED faults
       \/ ReplyLost(d)
    /\ UNCHANGED <<archive, losses>>

-----------------------------------------------------------------------------
(* _enforce_cap: oldest entries go until the backlog is the cap again. *)

\* Seeded mistake: the check that there is anything over the cap is gone.
CapDepthUnchecked(d) ==
    /\ pc[d] = "depth"
    /\ pc' = [pc EXCEPT ![d] = "range"]
    /\ cap' = [cap EXCEPT ![d].page = Min({Cardinality(stream) - OutboxMax, CapPage})]
    /\ UNCHANGED <<redis, postgres, losses, faults, mode, healed, tombs, todo>>

CapDepth(d) ==
    /\ pc[d] = "depth"
    /\ \E over \in {Cardinality(stream) - OutboxMax} :
        \/ over <= 0 /\ CapOver(d)
        \/ /\ over > 0
           /\ pc' = [pc EXCEPT ![d] = "range"]
           /\ cap' = [cap EXCEPT ![d].page = Min({over, CapPage})]
           /\ UNCHANGED <<mode, healed, tombs, todo>>
    /\ UNCHANGED <<redis, postgres, losses, faults>>

\* The first entry to survive, or none if a drain was faster.
CapRange(d) ==
    /\ pc[d] = "range"
    /\ \E oldest \in {Oldest(stream, cap[d].page + 1)} :
        \/ Cardinality(oldest) <= cap[d].page /\ CapOver(d)
        \/ /\ Cardinality(oldest) > cap[d].page
           /\ pc' = [pc EXCEPT ![d] = "below"]
           /\ cap' = [cap EXCEPT ![d].minid = Max(oldest)]
           /\ UNCHANGED <<mode, healed, tombs, todo>>
    /\ UNCHANGED <<redis, postgres, losses, faults>>

\* Seeded mistake: the cap trims without acknowledging.
CapSkipsAck(d) ==
    /\ pc[d] = "below"
    /\ GoOn(d, "trim", {})
    /\ UNCHANGED <<redis, postgres, losses, faults>>

\* Without a group nothing is pending.  No id to acknowledge, no command.
CapBelow(d) ==
    /\ pc[d] = "below"
    /\ \E inFlight \in {{i \in pending : i < cap[d].minid}} :
        /\ cap' = [cap EXCEPT ![d].inFlight = inFlight]
        /\ pc' = [pc EXCEPT ![d] = IF inFlight = {} THEN "trim" ELSE "ack"]
    /\ UNCHANGED <<redis, postgres, losses, faults, mode, healed, tombs, todo>>

CapAck(d) ==
    /\ pc[d] = "ack"
    /\ pending' = pending \ cap[d].inFlight
    /\ dropped' = dropped \cup (cap[d].inFlight \cap pending)
    /\ \/ GoOn(d, "trim", {}) /\ UNCHANGED faults
       \/ ReplyLost(d)
    /\ UNCHANGED <<stream, pushed, group, delivered, postgres, reported>>

\* Seeded mistake: the bound is inclusive, one entry too many.
CapTrimInclusive(d) ==
    /\ pc[d] = "trim"
    /\ \E doomed \in {{i \in stream : i <= cap[d].minid}} :
        /\ stream' = stream \ doomed
        /\ dropped' = dropped \cup doomed
        /\ reported' = reported \cup doomed
        /\ Leave(d, "depth", mode[d])
    /\ UNCHANGED <<pushed, group, delivered, pending, postgres, faults>>

\* What the trim reports is logged; then the next page.
CapTrim(d) ==
    /\ pc[d] = "trim"
    /\ \E doomed \in {{i \in stream : i < cap[d].minid}} :
        /\ stream' = stream \ doomed
        /\ dropped' = dropped \cup doomed
        /\ \/ /\ reported' = reported \cup doomed
              /\ UNCHANGED faults
              /\ \/ doomed # {} /\ Leave(d, "depth", mode[d])
                 \/ doomed = {} /\ CapOver(d)
           \/ ReplyLost(d) /\ UNCHANGED reported
    /\ UNCHANGED <<pushed, group, delivered, pending, postgres>>

-----------------------------------------------------------------------------
(* The life of a drainer. *)

\* After the backoff sleep, a wake-up or the tick.
WakeUp(d) ==
    /\ pc[d] \in {"backoff", "idle"}
    /\ Leave(d, "sweep", "run")
    /\ UNCHANGED <<redis, postgres, losses, faults>>

\* A command fails without effect, or the deadline ends the cycle before it is sent.
\* The sweep swallows its errors and the sleeps send nothing.
Fails(d) ==
    /\ pc[d] \notin {"down", "sweep", "backoff", "idle", "dead"}
    /\ ReplyLost(d)
    /\ UNCHANGED <<redis, postgres, losses>>

\* An exception outside the try of _run; the done-callback respawns the task.
Dies(d) ==
    /\ pc[d] \in {"backoff", "idle"}
    /\ Fault("die")
    /\ Leave(d, "dead", "run")
    /\ UNCHANGED <<redis, postgres, losses>>

Respawn(d) ==
    /\ pc[d] = "dead"
    /\ Leave(d, "sweep", "run")
    /\ UNCHANGED <<redis, postgres, losses, faults>>

\* stop(): the task is cancelled where it is, then one final drain.
Stop(d) ==
    /\ pc[d] # "down"
    /\ mode[d] # "final"
    /\ Fault("stop")
    /\ Leave(d, "pending", "final")
    /\ UNCHANGED <<redis, postgres, losses>>

Crash(d) ==
    /\ pc[d] # "down"
    /\ Fault("crash")
    /\ Leave(d, "down", "run")
    /\ UNCHANGED <<redis, postgres, losses>>

\* A process starts: the group is probed, and an unreachable Redis tolerated.
Start(d) ==
    /\ pc[d] = "down"
    /\ \/ EnsureGroup /\ UNCHANGED faults
       \/ Fault("fail") /\ UNCHANGED redis
    /\ Leave(d, "sweep", "run")
    /\ UNCHANGED <<postgres, losses>>

-----------------------------------------------------------------------------
(* The operator. *)

DeleteKey ==
    /\ Fault("del")
    /\ stream' = {}
    /\ group' = FALSE
    /\ delivered' = 0
    /\ pending' = {}
    /\ dropped' = dropped \cup stream
    /\ UNCHANGED <<pushed, postgres, locals, reported>>

DeleteEntry ==
    /\ Fault("xdel")
    /\ \E i \in stream :
        /\ stream' = stream \ {i}
        /\ dropped' = dropped \cup {i}
    /\ UNCHANGED <<pushed, group, delivered, pending, postgres, locals, reported>>

-----------------------------------------------------------------------------
Init ==
    /\ stream = {}
    /\ pushed = 0
    /\ group = FALSE
    /\ delivered = 0
    /\ pending = {}
    /\ archive = {}
    /\ refused = {}
    /\ pc = [d \in Drainers |-> "down"]
    /\ mode = [d \in Drainers |-> "run"]
    /\ healed = [d \in Drainers |-> FALSE]
    /\ tombs = [d \in Drainers |-> {}]
    /\ todo = [d \in Drainers |-> {}]
    /\ cap = [d \in Drainers |-> NoCap]
    /\ dropped = {}
    /\ reported = {}
    /\ faults = 0

\* What a drainer does by itself.
Drain(d) ==
    \/ Sweep(d) \/ ReadPending(d) \/ ReadNew(d) \/ NoGroup(d) \/ Heal(d)
    \/ SettleTombstones(d) \/ InsertBatch(d) \/ RetireBatch(d)
    \/ Isolate(d) \/ Reject(d) \/ IsolateRetire(d)
    \/ CapDepth(d) \/ CapRange(d) \/ CapBelow(d) \/ CapAck(d) \/ CapTrim(d)
    \/ WakeUp(d) \/ Respawn(d) \/ Start(d)

Mishap(d) == Fails(d) \/ Dies(d) \/ Stop(d) \/ Crash(d)

Next ==
    \/ Push
    \/ DeleteKey
    \/ DeleteEntry
    \/ \E d \in Drainers : Drain(d) \/ Mishap(d)

Spec == Init /\ [][Next]_vars

\* Each process is scheduled, is restarted when it is gone, and Redis and PostgreSQL
\* answer once the faults are used up.
FairSpec == Spec /\ \A d \in Drainers : WF_vars(Drain(d))

-----------------------------------------------------------------------------
(* Properties. *)

SharedTypeOK ==
    /\ pushed \in 0 .. Len(Produced)
    /\ stream \subseteq 1 .. pushed
    /\ group \in BOOLEAN
    /\ delivered \in 0 .. pushed
    /\ pending \subseteq 1 .. delivered
    /\ archive \subseteq Accepted
    /\ refused \subseteq Plays \ Accepted
    /\ dropped \subseteq 1 .. pushed
    /\ reported \subseteq dropped
    /\ faults \in 0 .. MaxFaults

LocalTypeOK ==
    /\ pc \in [Drainers -> Labels]
    /\ mode \in [Drainers -> {"run", "failed", "final"}]
    /\ healed \in [Drainers -> BOOLEAN]
    /\ tombs \in [Drainers -> SUBSET Ids]
    /\ todo \in [Drainers -> SUBSET Ids]
    /\ cap \in [Drainers -> CapLocals]

\* Every variable has its type; among other things only delivered entries are pending,
\* nothing the archive accepts is refused, and the cap's page is not negative.
TypeOK == SharedTypeOK /\ LocalTypeOK

\* A later read of the stream still returns the entry.
Deliverable(i) == i \in stream /\ (i \in pending \/ i > delivered)

Settled(i) == Play(i) \in archive \cup refused

\* At-least-once: whatever crashes, fails or is read by a peer, a play that was pushed
\* is archived, refused, given up by the cap or the operator, or will be delivered
\* again (retire_outbox, read_outbox_pending).
NoPlayLost ==
    \A i \in 1 .. pushed : Settled(i) \/ i \in dropped \/ Deliverable(i)

\* The memory bound of _read_batch: the pending entries are at most one batch for each
\* drainer that reads.
PelBounded == Cardinality(pending) <= BatchSize * Cardinality(Drainers)

\* No pending entry without a body: settling and capping acknowledge before, or with,
\* what they delete (retire_outbox, _enforce_cap).
NoTombstone == pending \subseteq stream

\* What the cap takes was older than the newest OutboxMax plays (_enforce_cap).
CapKeepsNewest ==
    \A i \in reported : Cardinality({j \in 1 .. pushed : j > i}) >= OutboxMax

Fate(p) ==
    LET ids == {i \in 1 .. pushed : Play(i) = p}
    IN  IF ids = {}                         THEN "none"
        ELSE IF p \in archive               THEN "archived"
        ELSE IF p \in refused               THEN "refused"
        ELSE IF \E i \in ids : Deliverable(i) THEN "owed"
        ELSE IF ids \subseteq dropped       THEN "dropped"
        ELSE "lost" \* no fate the ledger knows

Ledger == INSTANCE HistoryLedger
          WITH Archivable <- Accepted,
               MayDrop <- OutboxMax > 0 \/ {"del", "xdel"} \cap Events # {},
               fate <- [p \in Plays |-> Fate(p)]

\* The pipeline keeps the archive's promise: a play owed is archived if it can be and
\* refused if it cannot, and neither is undone (history_archive.py).
ArchiveContract == Ledger!LedgerSpec

\* Every entry leaves the stream and the pending set: no tombstone, poison or dead
\* drainer blocks the head of the queue (_drain_once).
Drains == \A i \in Ids : i \in stream \cup pending ~> i \notin stream \cup pending
=============================================================================
