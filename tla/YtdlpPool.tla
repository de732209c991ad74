--------------------------- MODULE YtdlpPool ---------------------------
(***************************************************************************)
(* The process pool that runs the extractions: built lazily, replaced when a    *)
(* worker died, closed once.  run(), aclose() and shutdown() are tasks of one   *)
(* event loop; workers finish and die while those wait.                      *)
(*                                                                         *)
(* An executor is its generation.  One that broke stays so, fails what it was  *)
(* given and refuses what it is given; the workers of a broken one are gone.    *)
(***************************************************************************)
EXTENDS Naturals, FiniteSets

CONSTANTS
    Calls,      \* extractions
    Closers,    \* tasks that run aclose()
    MaxDeaths   \* bound: executors that lose a worker

ASSUME PoolAssumption == MaxDeaths \in Nat

NoPool == 0

VARIABLES
    executor,   \* _executor
    generation, \* _generation
    poolClosed, \* _closed
    broken,     \* executors that lost a worker
    deaths,
    call,       \* [Calls -> where run() is and on which executor]
    firstTry,   \* history: [Calls -> the executor of the first attempt]
    closing,    \* [Closers -> where aclose() is and which executor it joins]
    listener    \* _log_listener runs

poolVars == <<executor, generation, poolClosed, broken, deaths, call, firstTry, closing, listener>>

PoolInit ==
    /\ executor = NoPool /\ generation = 0 /\ poolClosed = FALSE
    /\ broken = {} /\ deaths = 0
    /\ call = [c \in Calls |-> [at |-> "new", on |-> NoPool]]
    /\ firstTry = [c \in Calls |-> NoPool]
    /\ closing = [k \in Closers |-> [at |-> "open", on |-> NoPool]]
    /\ listener = "new"

CallTo(c, at, on) == call' = [call EXCEPT ![c] = [at |-> at, on |-> on]]
Runs(c, e) == call[c].at \in {"first", "second"} /\ call[c].on = e

\* A seeded mistake: a closed pool builds an executor for whoever comes late.
AcquireAlways(e) ==
    IF e # NoPool THEN UNCHANGED <<generation, listener>> /\ executor' = e
    ELSE executor' = generation + 1 /\ generation' = generation + 1 /\ listener' = "on"

\* _acquire() with e published: the first executor starts the log listener as well.
Acquire(e) ==
    /\ ~poolClosed
    /\ IF e # NoPool
       THEN executor' = e /\ UNCHANGED <<generation, listener>>
       ELSE /\ executor' = generation + 1
            /\ generation' = generation + 1
            /\ listener' = "on"

\* run(): submitted to an executor that broke already, the call fails at once, as one
\* that was running when it broke.
CallRuns(c) ==
    /\ call[c].at = "new"
    /\ Acquire(executor)
    /\ CallTo(c, "first", executor')
    /\ firstTry' = [firstTry EXCEPT ![c] = executor']
    /\ UNCHANGED <<poolClosed, broken, deaths, closing>>

\* A seeded mistake: the retry does not expect a closed pool.
RefusedAtFirst(c) ==
    /\ call[c].at = "new"
    /\ poolClosed
    /\ CallTo(c, "refused", NoPool)
    /\ UNCHANGED <<executor, generation, poolClosed, broken, deaths, firstTry, closing, listener>>

\* PoolClosedError.
CallRefused(c) ==
    /\ call[c].at = "new" \/ (call[c].at = "first" /\ call[c].on \in broken)
    /\ poolClosed
    /\ CallTo(c, "refused", NoPool)
    /\ UNCHANGED <<executor, generation, poolClosed, broken, deaths, firstTry, closing, listener>>

\* The worker answers, with a result or an error of its own.
CallAnswered(c) ==
    /\ call[c].at \in {"first", "second"}
    /\ call[c].on \notin broken
    /\ CallTo(c, "answered", NoPool)
    /\ UNCHANGED <<executor, generation, poolClosed, broken, deaths, firstTry, closing, listener>>

\* aclose() cancels what no worker has begun.
CallCancelled(c) ==
    /\ call[c].at \in {"first", "second"}
    /\ \E k \in Closers : closing[k] = [at |-> "joining", on |-> call[c].on]
    /\ CallTo(c, "refused", NoPool)
    /\ UNCHANGED <<executor, generation, poolClosed, broken, deaths, firstTry, closing, listener>>

\* A seeded mistake: the broken executor stays published.
ReplaceForgets(e) == executor

\* A seeded mistake: whoever finds an executor broken discards the one of now.
ReplaceWhatIsThere(e) == NoPool

\* _replace(): what is left in _executor when e is found broken.
Replace(e) == IF executor = e THEN NoPool ELSE executor

\* BrokenProcessPool, the first time: replaced and submitted again in one turn.
CallHeals(c) ==
    /\ call[c].at = "first"
    /\ call[c].on \in broken
    /\ Acquire(Replace(call[c].on))
    /\ CallTo(c, "second", executor')
    /\ UNCHANGED <<poolClosed, broken, deaths, firstTry, closing>>

\* BrokenProcessPool, the second time: it propagates.
CallFails(c) ==
    /\ call[c].at = "second"
    /\ call[c].on \in broken
    /\ CallTo(c, "failed", call[c].on)
    /\ UNCHANGED <<executor, generation, poolClosed, broken, deaths, firstTry, closing, listener>>

\* setup_hook's prewarm(), which nobody waits for.
Prewarm ==
    /\ executor \notin broken
    /\ Acquire(executor)
    /\ executor' # executor
    /\ UNCHANGED <<poolClosed, broken, deaths, call, firstTry, closing>>

\* A worker dies, of memory most likely.
WorkerDies ==
    /\ deaths < MaxDeaths
    /\ \E e \in 1 .. generation :
         /\ e \notin broken
         /\ broken' = broken \cup {e}
    /\ deaths' = deaths + 1
    /\ UNCHANGED <<executor, generation, poolClosed, call, firstTry, closing, listener>>

\* A seeded mistake: the log listener stops before the workers do.
CloseStopsFirst(k) ==
    /\ closing[k].at = "open"
    /\ poolClosed' = TRUE
    /\ executor' = NoPool
    /\ closing' = [closing EXCEPT ![k] = [at |-> "joining", on |-> executor]]
    /\ listener' = IF listener = "on" THEN "off" ELSE listener
    /\ UNCHANGED <<generation, broken, deaths, call, firstTry>>

\* aclose(): the flag, and the executor unpublished to be joined off the loop.
CloseBegins(k) ==
    /\ closing[k].at = "open"
    /\ poolClosed' = TRUE
    /\ executor' = NoPool
    /\ closing' = [closing EXCEPT ![k] = [at |-> "joining", on |-> executor]]
    /\ UNCHANGED <<generation, broken, deaths, call, firstTry, listener>>

\* The join returns once no call runs, or it is given up and the workers terminated;
\* without an executor there is nothing to join.
JoinEnds(k) ==
    /\ closing[k].at = "joining"
    /\ closing' = [closing EXCEPT ![k] = [at |-> "joined", on |-> closing[k].on]]
    /\ \/ /\ {c \in Calls : Runs(c, closing[k].on)} = {}
          /\ UNCHANGED broken
       \/ /\ closing[k].on # NoPool
          /\ broken' = broken \cup {closing[k].on}
    /\ UNCHANGED <<executor, generation, poolClosed, deaths, call, firstTry, listener>>

\* _stop_log_listener(), whether or not there was an executor.
StopListener(k) == IF listener = "on" THEN "off" ELSE listener

CloseEnds(k) ==
    /\ closing[k].at = "joined"
    /\ closing' = [closing EXCEPT ![k] = [at |-> "closed", on |-> closing[k].on]]
    /\ listener' = StopListener(k)
    /\ UNCHANGED <<executor, generation, poolClosed, broken, deaths, call, firstTry>>

CallNext(c) ==
    CallRuns(c) \/ CallRefused(c) \/ CallAnswered(c) \/ CallCancelled(c) \/ CallHeals(c) \/ CallFails(c)
CloseNext(k) == CloseBegins(k) \/ JoinEnds(k) \/ CloseEnds(k)

PoolNext ==
    \/ \E c \in Calls : CallNext(c)
    \/ \E k \in Closers : CloseNext(k)
    \/ Prewarm \/ WorkerDies

PoolSpec == PoolInit /\ [][PoolNext]_poolVars

-----------------------------------------------------------------------------
(* Properties.                                                             *)

\* Each variable has its type; of the executors ever built at most one is published.
PoolTypeOK ==
    /\ executor \in 0 .. generation
    /\ generation \in 0 .. Cardinality(broken) + 1
    /\ poolClosed \in BOOLEAN
    /\ broken \subseteq 1 .. generation
    /\ \A c \in Calls : /\ call[c].at \in {"new", "first", "second", "answered", "failed", "refused"}
                        /\ call[c].on \in 0 .. generation
    /\ \A k \in Closers : closing[k].at \in {"open", "joining", "joined", "closed"}
    /\ listener \in {"new", "on", "off"}

\* A healthy executor is dropped by aclose() alone: of the extractions that find one broken
\* only the first discards it, whatever the others find in its place.
HealthyKept ==
    [][executor # NoPool /\ executor' # executor => executor \in broken \/ poolClosed']_poolVars

\* Every executor ever built is the published one, has lost its workers, or is joined by
\* an aclose(): no retry that crosses the close leaves processes behind.
NoOrphanPool ==
    \A e \in 1 .. generation :
        \/ e = executor /\ ~poolClosed
        \/ e \in broken
        \/ \E k \in Closers : closing[k].on = e

\* A call fails for a broken pool only if two pools broke under it.
FailsOnTwoPools ==
    \A c \in Calls : call[c].at = "failed" =>
        firstTry[c] # call[c].on /\ {firstTry[c], call[c].on} \subseteq broken

\* A pool that has been closed has stopped its log listener, and not before the workers
\* that log to it were gone.
ListenerOutlives ==
    /\ (\E k \in Closers : closing[k].at = "closed") => listener # "on"
    /\ listener = "off" => \A c \in Calls : Runs(c, call[c].on) => call[c].on \in broken

\* What run() and aclose() promise between them, through every break and retry: no pool
\* is left behind, no call fails early, the log is there while it is written to.
PoolSound == NoOrphanPool /\ FailsOnTwoPools /\ ListenerOutlives
=============================================================================
