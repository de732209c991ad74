---------------------------- MODULE ArchivePool ----------------------------
(***************************************************************************)
(* The connection pool of PostgresHistoryArchive: opened by the first query     *)
(* that needs it, after a look at the schema's version, and closed once.  The   *)
(* drainer and the users' reports open it, -ping even while the bot shuts down.  *)
(*                                                                         *)
(* A pool is its number; those that were built and not closed yet are open.  A  *)
(* caller may be cancelled at every await (its deadline, or the drainer's).     *)
(***************************************************************************)
EXTENDS Naturals

CONSTANT Queries  \* calls of insert_batch(), recent(), leaderboard(), stats(), ...

NoConnections == 0

VARIABLES
    connections, \* _pool
    shut,        \* _closed
    built,       \* pools built so far
    open,        \* those with connections
    initLock,    \* _init_lock is held
    query,       \* [Queries -> the await of _ensure() or beyond, and the pool in hand]
    shutting     \* where close() is, and the pool it took

archiveVars == <<connections, shut, built, open, initLock, query, shutting>>

ArchiveInit ==
    /\ connections = NoConnections /\ shut = FALSE
    /\ built = 0 /\ open = {}
    /\ initLock = FALSE
    /\ query = [q \in Queries |-> [at |-> "new", pool |-> NoConnections]]
    /\ shutting = [at |-> "unasked", pool |-> NoConnections]

QueryTo(q, at, pool) == query' = [query EXCEPT ![q] = [at |-> at, pool |-> pool]]

\* _ensure() up to the lock: refused, served, or in line.
Ensures(q) ==
    /\ query[q].at = "new"
    /\ QueryTo(q, IF shut THEN "raised" ELSE IF connections # NoConnections THEN "querying"
                  ELSE "locking", connections)
    /\ UNCHANGED <<connections, shut, built, open, initLock, shutting>>

\* A seeded mistake: the pool is not looked for again under the lock.
ConnectsRegardless(q) ==
    /\ query[q].at = "locking"
    /\ ~initLock
    /\ QueryTo(q, IF shut THEN "raised" ELSE "connecting", NoConnections)
    /\ initLock' = ~shut
    /\ UNCHANGED <<connections, shut, built, open, shutting>>

\* Both are looked at again under the lock, which only a connect keeps.
LocksInit(q) ==
    /\ query[q].at = "locking"
    /\ ~initLock
    /\ QueryTo(q, IF shut THEN "raised" ELSE IF connections # NoConnections THEN "querying"
                  ELSE "connecting", connections)
    /\ initLock' = (query'[q].at = "connecting")
    /\ UNCHANGED <<connections, shut, built, open, shutting>>

\* create_pool(), which closes what it opened if it fails.
Connects(q) ==
    /\ query[q].at = "connecting"
    /\ built' = built + 1
    /\ open' = open \cup {built'}
    /\ QueryTo(q, "checking", built')
    /\ UNCHANGED <<connections, shut, initLock, shutting>>

\* The schema is fit and close() has not begun: the pool is published.
ChecksSchema(q) ==
    /\ query[q].at = "checking"
    /\ IF shut
       THEN QueryTo(q, "discarding", query[q].pool) /\ UNCHANGED <<connections, initLock>>
       ELSE /\ connections' = query[q].pool
            /\ QueryTo(q, "querying", query[q].pool)
            /\ initLock' = FALSE
    /\ UNCHANGED <<shut, built, open, shutting>>

\* The schema is too old, the server gone, or the caller cancelled.
CheckFails(q) ==
    /\ query[q].at = "checking"
    /\ QueryTo(q, "discarding", query[q].pool)
    /\ UNCHANGED <<connections, shut, built, open, initLock, shutting>>

\* A seeded mistake: the lock is not a context manager's.
DiscardKeepsLock(q) ==
    /\ query[q].at = "discarding"
    /\ open' = open \ {query[q].pool}
    /\ QueryTo(q, "raised", NoConnections)
    /\ UNCHANGED <<connections, shut, built, initLock, shutting>>

\* The except arm closes what nobody else can see; whether that ends in order or is
\* cancelled, asyncpg leaves no connection.
Discards(q) ==
    /\ query[q].at = "discarding"
    /\ open' = open \ {query[q].pool}
    /\ QueryTo(q, "raised", NoConnections)
    /\ initLock' = FALSE
    /\ UNCHANGED <<connections, shut, built, shutting>>

\* The connect fails, or the caller is cancelled there or in line for the lock.
EnsureRaises(q) ==
    /\ query[q].at \in {"locking", "connecting"}
    /\ QueryTo(q, "raised", NoConnections)
    /\ initLock' = (initLock /\ query[q].at = "locking")
    /\ UNCHANGED <<connections, shut, built, open, shutting>>

\* The statements, done or failed: on a pool that closed meanwhile they do.
QueryEnds(q) ==
    /\ query[q].at = "querying"
    /\ QueryTo(q, "done", NoConnections)
    /\ UNCHANGED <<connections, shut, built, open, initLock, shutting>>

\* close(): new callers are turned away at once.
ShutBegins ==
    /\ shutting.at = "unasked"
    /\ shut' = TRUE
    /\ shutting' = [shutting EXCEPT !.at = "locking"]
    /\ UNCHANGED <<connections, built, open, initLock, query>>

\* A seeded mistake: close() does not wait for a connect under way.
ShutTakesAtOnce ==
    /\ shutting.at = "locking"
    /\ connections' = NoConnections
    /\ shutting' = [at |-> IF connections = NoConnections THEN "done" ELSE "closing",
                    pool |-> connections]
    /\ UNCHANGED <<shut, built, open, initLock, query>>

\* The pool is taken under the lock.
ShutTakes ==
    /\ shutting.at = "locking"
    /\ ~initLock
    /\ connections' = NoConnections
    /\ shutting' = [at |-> IF connections = NoConnections THEN "done" ELSE "closing",
                    pool |-> connections]
    /\ UNCHANGED <<shut, built, open, initLock, query>>

\* It is closed when its queries are done, or terminated.
ShutEnds ==
    /\ shutting.at = "closing"
    /\ open' = open \ {shutting.pool}
    /\ shutting' = [shutting EXCEPT !.at = "done"]
    /\ UNCHANGED <<connections, shut, built, initLock, query>>

QueryNext(q) ==
    \/ Ensures(q) \/ LocksInit(q) \/ Connects(q) \/ ChecksSchema(q) \/ CheckFails(q)
    \/ Discards(q) \/ EnsureRaises(q) \/ QueryEnds(q)

ArchiveNext == (\E q \in Queries : QueryNext(q)) \/ ShutBegins \/ ShutTakes \/ ShutEnds

ArchiveSpec == ArchiveInit /\ [][ArchiveNext]_archiveVars

-----------------------------------------------------------------------------
(* Properties.                                                             *)

\* Each variable has its type; a pool in somebody's hand was built.
ArchiveTypeOK ==
    /\ connections \in 0 .. built /\ built \in Nat /\ open \subseteq 1 .. built
    /\ shut \in BOOLEAN /\ initLock \in BOOLEAN
    /\ query \in [Queries -> [at : {"new", "locking", "connecting", "checking", "discarding",
                                    "querying", "done", "raised"}, pool : 0 .. built]]
    /\ shutting \in [at : {"unasked", "locking", "closing", "done"}, pool : 0 .. built]

\* However many callers find no pool at once, fail, or are cancelled while they build one:
\* there are never two, and one whose builder is through is the published one.
OneArchivePool ==
    \A e, f \in open :
        /\ e = f
        /\ \/ connections = e \/ (shutting.at = "closing" /\ shutting.pool = e)
           \/ \E q \in Queries : query[q].at \in {"checking", "discarding"} /\ query[q].pool = e

\* Once close() has returned nothing is open, or opened by a caller that comes late or was
\* half way: no connection outlives the archive.
NoneAfterClose == shutting.at = "done" => open = {} /\ connections = NoConnections

\* close() returns, although it waits for whoever connects.
ShutReturns == shutting.at = "locking" ~> shutting.at = "done"
=============================================================================
