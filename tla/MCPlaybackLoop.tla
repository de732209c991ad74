--------------------------- MODULE MCPlaybackLoop ---------------------------
(***************************************************************************)
(* Small instances of PlaybackLoop.  Three songs arrive in order; the second  *)
(* is a search, so a claim can be resolved while it is held.  MCSameEntry     *)
(* makes the first and the third one serialize alike, for LREM's guards.      *)
(***************************************************************************)
EXTENDS PlaybackLoop

CONSTANTS u1, u2

S(s, f) == [song |-> s, form |-> f, frag |-> 0, played |-> f = "crashed"]

OneUser == {u1}
TwoUsers == {u1, u2}
MCProcs == {Loop, Prefetch} \cup Users
MCUserSymmetry == Permutations(TwoUsers)

MCSongs == 1 .. 3
MCForm == [s \in MCSongs |-> IF s = 2 THEN "search" ELSE "song"]
MCDistinct == [s \in MCSongs |-> s]
MCSameEntry == [s \in MCSongs |-> IF s = 3 THEN 1 ELSE s]

MCNoQueue == {<<>>}
MCRestored == {<<>>, <<S(1, "crashed")>>, <<S(1, "crashed"), S(2, "search")>>,
               <<S(1, "song"), S(2, "search")>>}
MCArrivals == <<1, 2, 3>>
MCArrivalsAfterRestart == <<3>>
=============================================================================
