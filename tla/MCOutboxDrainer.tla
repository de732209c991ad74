--------------------------- MODULE MCOutboxDrainer ---------------------------
(***************************************************************************)
(* Small instances of the outbox: one or two drainers and up to four pushes.  *)
(* Play p is archivable, q is poison, r does not parse; p may be pushed twice. *)
(***************************************************************************)
EXTENDS OutboxDrainer, TLC

CONSTANTS d1, d2, p, q, r, s

MCOne == {d1}
MCTwo == {d1, d2}
MCPlays == {p, q, r, s}
MCReadable == {p, q, s}
MCAccepted == {p, s}
MCMixed == <<p, q, p, r>>
MCResent == <<p, s, p>>
MCBacklog == <<p, q, s, p>>

MCSymmetry == Permutations(MCTwo)
=============================================================================
