--------------------------- MODULE RecoveryLock ---------------------------
(***************************************************************************)
(* The lock of a guild's recovery: SET NX EX with a token of its own for every *)
(* acquisition, and a compare-and-delete under WATCH.  A restore_guild() task   *)
(* makes a store of its own, so a task stands for its token too.                *)
(*                                                                         *)
(* The time to live may run out at any moment, a Redis command may fail with or *)
(* without its effect (_guild_op swallows that), and a task may be killed.      *)
(***************************************************************************)
EXTENDS Naturals

CONSTANTS
    Tasks,   \* restore_guild() tasks, and their tokens
    Absent   \* no lock, no token

ASSUME LockAssumption == Absent \notin Tasks

VARIABLES
    lockValue,  \* lock:guild:{id}:recovery
    token,      \* [Tasks -> _recovery_lock_token]
    step,       \* [Tasks -> the await the task is parked at]
    touched,    \* tasks whose WATCHed key has changed
    lapsed      \* history: tasks whose lock ran out

lockVars == <<lockValue, token, step, touched, lapsed>>

LockSteps == {"new", "restoring", "watching", "matched", "gone"}

LockInit ==
    /\ lockValue = Absent
    /\ token = [t \in Tasks |-> Absent]
    /\ step = [t \in Tasks |-> "new"]
    /\ touched = {}
    /\ lapsed = {}

Steps(t, to) == step' = [step EXCEPT ![t] = to]

\* The key gets a value: every task that watches it will see EXEC abort.
SetsLock(v) ==
    /\ lockValue' = v
    /\ touched' = touched \cup {t \in Tasks : step[t] \in {"watching", "matched"}}

\* acquire_recovery_lock(): won.
Acquires(t) ==
    /\ step[t] = "new"
    /\ lockValue = Absent
    /\ SetsLock(t)
    /\ token' = [token EXCEPT ![t] = t]
    /\ Steps(t, "restoring")
    /\ UNCHANGED lapsed

\* Refused, or the command failed; a lock set without its reply belongs to nobody and
\* stays until it expires.
AcquireFails(t) ==
    /\ step[t] = "new"
    /\ \/ UNCHANGED <<lockValue, touched>>
       \/ lockValue = Absent /\ SetsLock(t)
    /\ Steps(t, "gone")
    /\ UNCHANGED <<token, lapsed>>

\* A seeded mistake: the token is not given up.
ReleaseKeepsToken(t) ==
    /\ step[t] = "restoring"
    /\ token[t] # Absent
    /\ touched' = touched \ {t}
    /\ Steps(t, "watching")
    /\ UNCHANGED <<lockValue, token, lapsed>>

\* release_recovery_lock(): the token is given up before the first command, WATCH.
ReleaseWatches(t) ==
    /\ step[t] = "restoring"
    /\ token[t] # Absent
    /\ token' = [token EXCEPT ![t] = Absent]
    /\ touched' = touched \ {t}
    /\ Steps(t, "watching")
    /\ UNCHANGED <<lockValue, lapsed>>

\* A seeded mistake: no comparison.
ReleaseReadsBlindly(t) ==
    /\ step[t] = "watching"
    /\ Steps(t, "matched")
    /\ UNCHANGED <<lockValue, token, touched, lapsed>>

\* GET: another value, or none, is left alone.
ReleaseReads(t) ==
    /\ step[t] = "watching"
    /\ Steps(t, IF lockValue = t THEN "matched" ELSE "gone")
    /\ UNCHANGED <<lockValue, token, touched, lapsed>>

\* MULTI, DEL, EXEC: aborted if the key changed since WATCH.
ReleaseDeletes(t) ==
    /\ step[t] = "matched"
    /\ IF t \in touched THEN UNCHANGED <<lockValue, touched>> ELSE SetsLock(Absent)
    /\ Steps(t, "gone")
    /\ UNCHANGED <<token, lapsed>>

\* A command of the release fails, or the process dies: the lock is left to expire.
ReleaseFails(t) ==
    /\ step[t] \in {"restoring", "watching", "matched"}
    /\ Steps(t, "gone")
    /\ UNCHANGED <<lockValue, token, touched, lapsed>>

\* The time to live runs out.
LockExpires ==
    /\ lockValue # Absent
    /\ SetsLock(Absent)
    /\ lapsed' = lapsed \cup {lockValue}
    /\ UNCHANGED <<token, step>>

LockNext ==
    \/ \E t \in Tasks :
         \/ Acquires(t) \/ AcquireFails(t) \/ ReleaseWatches(t)
         \/ ReleaseReads(t) \/ ReleaseDeletes(t) \/ ReleaseFails(t)
    \/ LockExpires

LockSpec == LockInit /\ [][LockNext]_lockVars

-----------------------------------------------------------------------------
(* Properties.                                                             *)

\* Each variable has its type; a task has its token while it restores, and has given it
\* up before the first command of its release: a second release() does nothing.
LockTypeOK ==
    /\ lockValue \in Tasks \cup {Absent}
    /\ token \in [Tasks -> Tasks \cup {Absent}]
    /\ step \in [Tasks -> LockSteps]
    /\ touched \subseteq Tasks
    /\ lapsed \subseteq Tasks
    /\ \A t \in Tasks : /\ step[t] = "restoring" => token[t] = t
                        /\ step[t] \in {"new", "watching", "matched"} => token[t] = Absent

\* Whoever restores under a lock that has not run out has the lock: no late release,
\* of however many tasks whose locks did run out, deletes it under him.  So two tasks
\* restore at once only if the time to live of one has passed.
HolderKeepsLock ==
    \A t \in Tasks : step[t] = "restoring" /\ t \notin lapsed => lockValue = t
=============================================================================
