---------------------------- MODULE HistoryLedger ----------------------------
(***************************************************************************)
(* What the history archive promises about a play, whatever carries it:      *)
(* once the bot has handed it over it is owed, and it ends archived, or      *)
(* refused because the archive can never take it, or - only where the        *)
(* operator has agreed to lose plays - dropped.                              *)
(***************************************************************************)
CONSTANTS
    Plays,
    Archivable, \* the plays the archive accepts
    MayDrop     \* a truth value: the operator agreed to lose plays

VARIABLE fate

Fates == {"none", "owed", "archived", "refused", "dropped"}

\* A dropped play may still be owed again (it was handed over twice) or archived
\* (a drainer held its row).
Moves(p) ==
    {<<"none", "owed">>}
    \cup (IF p \in Archivable THEN {<<"owed", "archived">>}
                              ELSE {<<"owed", "refused">>})
    \cup (IF ~MayDrop THEN {}
          ELSE {<<"owed", "dropped">>, <<"dropped", "owed">>}
               \cup (IF p \in Archivable THEN {<<"dropped", "archived">>}
                                         ELSE {<<"dropped", "refused">>}))

LedgerInit == fate = [p \in Plays |-> "none"]

LedgerNext ==
    /\ fate' \in [Plays -> Fates]
    /\ \A p \in Plays : fate'[p] # fate[p] => <<fate[p], fate'[p]>> \in Moves(p)

LedgerSpec == LedgerInit /\ [][LedgerNext]_fate
=============================================================================
