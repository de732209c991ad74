--------------------------- MODULE LiveDashboard ---------------------------
(***************************************************************************)
(* run_live_dashboard(), the driver of -ping and -debug: probes run at once, a   *)
(* skeleton is sent, and the one message is edited as they answer, until the     *)
(* deadline.  What a row shows is up to the caller: here, that its probe is      *)
(* pending, settled or abandoned.                                             *)
(*                                                                         *)
(* A probe may never answer; a send or an edit may fail, and the user may        *)
(* delete the message.                                                         *)
(***************************************************************************)
EXTENDS FiniteSets

CONSTANT Probes

VARIABLES
    probe,     \* [Probes -> running, answered (with a value or an exception), cancelled]
    rows,      \* [Probes -> what render() would show of it]
    driver,    \* the await run_live_dashboard() is parked at
    last,      \* `last`: the render sent or edited in last
    shown,     \* the rows of the message
    deleted,   \* the user deleted the message
    late,      \* the deadline has passed
    editable,  \* tick_secs have passed since the last edit
    swallowed  \* history: an edit failed

dashboardVars == <<probe, rows, driver, last, shown, deleted, late, editable, swallowed>>

AllPending == [p \in Probes |-> "pending"]
DriverEnds == {"returned", "gone", "raised"}

DashboardInit ==
    /\ probe = [p \in Probes |-> "running"]
    /\ rows = AllPending /\ last = AllPending /\ shown = AllPending
    /\ driver = "preparing"
    /\ deleted = FALSE /\ late = FALSE /\ editable = FALSE /\ swallowed = FALSE

Pending == {p \in Probes : rows[p] = "pending"}

\* _drain(): every finished probe is settled.
Drained ==
    [p \in Probes |-> IF rows[p] = "pending" /\ probe[p] = "answered" THEN "settled" ELSE rows[p]]

\* A seeded mistake: an early return does not pass through it.
FinallyIfRaised(to) ==
    [p \in Probes |-> IF to = "raised" /\ probe[p] = "running" THEN "cancelled" ELSE probe[p]]

\* The finally: every probe that still runs is cancelled.
Finally(to) ==
    [p \in Probes |-> IF to \in DriverEnds /\ probe[p] = "running" THEN "cancelled" ELSE probe[p]]

DriverTo(to) == driver' = to /\ probe' = Finally(to)

ProbeAnswers(p) ==
    /\ probe[p] = "running"
    /\ probe' = [probe EXCEPT ![p] = "answered"]
    /\ UNCHANGED <<rows, driver, last, shown, deleted, late, editable, swallowed>>

\* prepare() and the yield, then the pre-drain and the first render; or prepare() raises.
Prepared ==
    /\ driver = "preparing"
    /\ \/ /\ rows' = Drained /\ last' = Drained
          /\ DriverTo("sending")
       \/ UNCHANGED <<rows, last>> /\ DriverTo("raised")
    /\ UNCHANGED <<shown, deleted, late, editable, swallowed>>

\* The skeleton is sent, or that raises.
Sent ==
    /\ driver = "sending"
    /\ \/ shown' = last /\ DriverTo("waiting")
       \/ UNCHANGED shown /\ DriverTo("raised")
    /\ UNCHANGED <<rows, last, deleted, late, editable, swallowed>>

\* A probe has answered: its row is edited in, if the last edit is a tick ago.
Woken ==
    /\ driver = "waiting"
    /\ Drained # rows
    /\ rows' = Drained
    /\ driver' = IF editable /\ Drained # last THEN "editing" ELSE "waiting"
    /\ UNCHANGED <<probe, last, shown, deleted, late, editable, swallowed>>

\* A seeded mistake: the last edit is for what was given up.
FlushAbandoned == \E p \in Pending : probe[p] # "answered"

\* The unconditional flush.
FlushNeeded == rows' # last

\* A seeded mistake: done() is not asked again.
FinalAbandonsAll(p) == IF rows[p] = "pending" THEN "abandoned" ELSE rows[p]

\* A seeded mistake: whatever is pending is settled.
FinalSettlesAll(p) == IF rows[p] = "pending" THEN "settled" ELSE rows[p]

\* What becomes of a row when the loop is over: a probe may have answered in the last edit.
Final(p) ==
    IF rows[p] # "pending" THEN rows[p]
    ELSE IF probe[p] = "answered" THEN "settled" ELSE "abandoned"

\* A seeded mistake: the deadline is looked at only when a probe has answered.
OverdueIfWoken == late /\ Drained # rows

Overdue == late

\* No row pending, or the deadline: the rest is cancelled and given up.
GivesUp ==
    /\ driver = "waiting"
    /\ Pending = {} \/ Overdue
    /\ rows' = [p \in Probes |-> Final(p)]
    /\ driver' = IF FlushNeeded THEN "flushing" ELSE "returned"
    /\ probe' = [p \in Probes |-> IF probe[p] = "running" THEN "cancelled" ELSE probe[p]]
    /\ UNCHANGED <<last, shown, deleted, late, editable, swallowed>>

\* safe_edit(): the message is gone, the edit lands, or Discord refuses it and nobody
\* tries again.  What an edit carries was rendered before the await.
Edited ==
    /\ driver \in {"editing", "flushing"}
    /\ \/ /\ deleted
          /\ DriverTo("gone")
          /\ UNCHANGED <<last, shown, editable, swallowed>>
       \/ /\ ~deleted
          /\ DriverTo(IF driver = "flushing" THEN "returned" ELSE "waiting")
          /\ last' = rows
          /\ editable' = FALSE
          /\ \/ shown' = rows /\ UNCHANGED swallowed
             \/ UNCHANGED shown /\ swallowed' = TRUE
    /\ UNCHANGED <<rows, deleted, late>>

\* The user deletes the card.
Deleted ==
    /\ driver \notin {"preparing", "sending"}
    /\ ~deleted
    /\ deleted' = TRUE
    /\ UNCHANGED <<probe, rows, driver, last, shown, late, editable, swallowed>>

DeadlinePasses ==
    /\ driver \in {"waiting", "editing"}
    /\ ~late
    /\ late' = TRUE
    /\ UNCHANGED <<probe, rows, driver, last, shown, deleted, editable, swallowed>>

TickPasses ==
    /\ driver \in {"waiting", "editing"}
    /\ ~editable
    /\ editable' = TRUE
    /\ UNCHANGED <<probe, rows, driver, last, shown, deleted, late, swallowed>>

DriverNext == Prepared \/ Sent \/ Woken \/ GivesUp \/ Edited

DashboardNext ==
    \/ \E p \in Probes : ProbeAnswers(p)
    \/ DriverNext \/ Deleted \/ DeadlinePasses \/ TickPasses

DashboardSpec == DashboardInit /\ [][DashboardNext]_dashboardVars

-----------------------------------------------------------------------------
(* Properties.                                                             *)

\* Each variable has its type; a settled row has its probe's answer.
DashboardTypeOK ==
    /\ probe \in [Probes -> {"running", "answered", "cancelled"}]
    /\ \A r \in {rows, last, shown} : r \in [Probes -> {"pending", "settled", "abandoned"}]
    /\ \A p \in Probes : rows[p] = "settled" => probe[p] = "answered"
    /\ driver \in {"preparing", "sending", "waiting", "editing", "flushing"} \cup DriverEnds
    /\ {deleted, late, editable, swallowed} \subseteq BOOLEAN

\* However the driver ends, by a return, a deleted message or an exception, no probe is
\* left running.
NoProbeLeft == driver \in DriverEnds => \A p \in Probes : probe[p] # "running"

\* A dependency that answered is not reported as failed, not even if it answered while the
\* last edit was on its way.
HealthyNotAbandoned == \A p \in Probes : rows[p] = "abandoned" => probe[p] # "answered"

\* The card that is left behind shows every row, settled or abandoned, unless Discord
\* refused an edit: what the pace of the edits held back comes with the last one.
CardComplete ==
    driver = "returned" /\ ~swallowed => Pending = {} /\ shown = rows

\* What run_live_dashboard() leaves behind: no probe, no false alarm, a complete card.
DashboardSound == NoProbeLeft /\ HealthyNotAbandoned /\ CardComplete

\* The driver ends, even if no probe ever answers.
DashboardReturns == <>(driver \in DriverEnds)
=============================================================================
