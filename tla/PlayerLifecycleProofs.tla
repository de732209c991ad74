----------------------- MODULE PlayerLifecycleProofs -----------------------
(***************************************************************************)
(* A guild's players, for any number of them, of commands, restores and songs:   *)
(* types, the count of holds on a gate, who may open it, and that what was        *)
(* heard is recorded.  The last needs to know whose hands a song is in: until a    *)
(* cleanup() takes a player's play, the loop past the song's start has it         *)
(* (HeardKept); what a cleanup() took it writes (UpOK, HandOK); and the voice      *)
(* thread plays that song until a cleanup() comes (SourceOK).                     *)
(***************************************************************************)
EXTENDS PlayerLifecycle, FiniteSetTheorems, SequenceTheorems, TLAPS

Points == {"idle", "entered", "connect", "handshake", "persist", "open", "joined", "insert",
           "restoring", "append", "abandoning", "stopping", "rebuilding", "finished"}
Bound == [at : Points, mp : Players \cup {NoPlayer}, waits : Players \cup {NoPlayer}]

ShapeOK == TypeOK /\ cmd \in [Cmds -> Bound]

\* A command that holds a player's gate or waits for its restore is bound to a player
\* that was made.
BoundOK ==
    \A c \in Cmds :
        Cold(c) \/ cmd[c].at \in {"restoring", "append"} => cmd[c].mp \in 1 .. made

\* The registered player was made and no cleanup() has taken it; one that is yet to be
\* made has nothing behind it.
RegisteredOK == mps # NoPlayer => mps \in 1 .. made /\ down[mps] = "up"
UnbornOK == \A p \in Players : p > made => down[p] = "up" /\ loop[p] = "unborn"

\* Past queue_get() the loop has a song in hand.
HandOK ==
    \A p \in Players :
        loop[p] \in {"resolving", "started", "playing", "ended", "writing", "written"} =>
            item[p] \in Item

\* Only a cleanup() claims a play.
UpOK == \A p \in Players : down[p] = "up" => pending[p] = NoSong /\ ~claimed[p]

LinkOK == BoundOK /\ RegisteredOK /\ UnbornOK /\ HandOK /\ UpOK

\* A play somebody heard is the loop's to record, or the teardown's, or recorded.
ToRecord(p, s) ==
    \/ pending[p] = s
    \/ /\ item[p].song = s
       /\ loop[p] \in {"playing", "ended", "writing"}
       /\ down[p] = "up"
HeardKept ==
    \A s \in heard : rows[s] > 0 \/ \E p \in Players : ToRecord(p, s)

\* What the voice thread plays for a player that no cleanup() has taken, that player's
\* loop waits for.
SourceOK ==
    \A p \in Players : source.by = p =>
        /\ source.song \in Songs
        /\ down[p] = "up" => loop[p] \in {"started", "playing"} /\ item[p].song = source.song

LifeInv == ShapeOK /\ LinkOK /\ HoldsAccounted /\ HeardKept /\ SourceOK

-----------------------------------------------------------------------------
(* Holds are counted: the commands that are cold on a player.              *)

ColdOn(c, p) == Cold(c) /\ cmd[c].mp = p

\* Nobody takes a hold or gives one back.
LEMMA HoldsStay ==
    ASSUME HoldsAccounted, UNCHANGED holds,
           \A c \in Cmds, p \in Players : ColdOn(c, p)' <=> ColdOn(c, p)
    PROVE  HoldsAccounted'
<1> SUFFICES ASSUME NEW p \in Players
             PROVE  holds'[p] = Cardinality({c \in Cmds : ColdOn(c, p)'})
  BY DEF HoldsAccounted, ColdOn
<1>1. {c \in Cmds : ColdOn(c, p)'} = {c \in Cmds : ColdOn(c, p)}
  OBVIOUS
<1> QED BY <1>1 DEF HoldsAccounted, ColdOn

\* c turns cold and the player it is bound to has one hold more.
LEMMA HoldTaken ==
    ASSUME ShapeOK, HoldsAccounted, NEW c \in Cmds, NEW q \in Players,
           holds' = [holds EXCEPT ![q] = @ + 1],
           ~Cold(c), \A p \in Players : ColdOn(c, p)' <=> p = q,
           \A d \in Cmds \ {c}, p \in Players : ColdOn(d, p)' <=> ColdOn(d, p)
    PROVE  HoldsAccounted'
<1> SUFFICES ASSUME NEW p \in Players
             PROVE  holds'[p] = Cardinality({d \in Cmds : ColdOn(d, p)'})
  BY DEF HoldsAccounted, ColdOn
<1> DEFINE S == {d \in Cmds : ColdOn(d, p)}
<1>1. IsFiniteSet(S) /\ holds[p] = Cardinality(S)
  BY FS_Subset, LifecycleAssumption DEF HoldsAccounted, ColdOn
<1>2. CASE p = q
  <2>1. {d \in Cmds : ColdOn(d, p)'} = S \cup {c} /\ c \notin S
    BY <1>2 DEF ColdOn
  <2> QED BY <1>1, <1>2, <2>1, FS_AddElement DEF ShapeOK, TypeOK
<1>3. CASE p # q
  <2>1. {d \in Cmds : ColdOn(d, p)'} = S
    BY <1>3 DEF ColdOn
  <2> QED BY <1>1, <1>3, <2>1 DEF ShapeOK, TypeOK
<1> QED BY <1>2, <1>3

\* c is cold no more and the player it was bound to has one hold fewer.
LEMMA HoldGiven ==
    ASSUME ShapeOK, HoldsAccounted, NEW c \in Cmds, NEW q \in Players,
           holds' = [holds EXCEPT ![q] = @ - 1],
           ColdOn(c, q), \A p \in Players : ~ColdOn(c, p)',
           \A d \in Cmds \ {c}, p \in Players : ColdOn(d, p)' <=> ColdOn(d, p)
    PROVE  HoldsAccounted' /\ holds' \in [Players -> Nat]
<1>1. \A p \in Players :
        /\ holds'[p] = Cardinality({d \in Cmds : ColdOn(d, p)'})
        /\ holds'[p] \in Nat
  <2> SUFFICES ASSUME NEW p \in Players
               PROVE  /\ holds'[p] = Cardinality({d \in Cmds : ColdOn(d, p)'})
                      /\ holds'[p] \in Nat
    OBVIOUS
  <2> DEFINE S == {d \in Cmds : ColdOn(d, p)}
  <2>1. IsFiniteSet(S) /\ holds[p] = Cardinality(S)
    BY FS_Subset, LifecycleAssumption DEF HoldsAccounted, ColdOn
  <2>2. CASE p = q
    <3>1. {d \in Cmds : ColdOn(d, p)'} = S \ {c} /\ c \in S
      BY <2>2 DEF ColdOn
    <3>2. /\ Cardinality(S \ {c}) = Cardinality(S) - 1
          /\ Cardinality(S \ {c}) \in Nat
      BY <2>1, <3>1, FS_RemoveElement, FS_CardinalityType
    <3>3. holds'[p] = Cardinality(S) - 1
      BY <2>1, <2>2 DEF ShapeOK, TypeOK
    <3> QED BY <3>1, <3>2, <3>3
  <2>3. CASE p # q
    <3>1. {d \in Cmds : ColdOn(d, p)'} = S
      BY <2>3 DEF ColdOn
    <3> QED BY <2>1, <2>3, <3>1 DEF ShapeOK, TypeOK
  <2> QED BY <2>2, <2>3
<1>2. holds' \in [Players -> Nat]
  BY <1>1 DEF ShapeOK, TypeOK
<1>3. HoldsAccounted'
  BY <1>1 DEF HoldsAccounted, ColdOn
<1> QED BY <1>2, <1>3

-----------------------------------------------------------------------------
(* loop().                                                                 *)

LEMMA LoopKeepsShape ==
    ASSUME ShapeOK, HandOK, NEW p \in Players, LoopNext(p)
    PROVE  ShapeOK'
<1> USE LifecycleAssumption DEF ShapeOK, TypeOK, LoopStep, LoopTurn, LoopMoves, taskVars, voiceVars,
                                teardownVars, ghostVars, LoopPoints
<1>0. loop[p] \in {"resolving", "started", "playing", "ended", "writing", "written"} =>
        item[p] \in Item /\ item[p].song \in Songs
  BY DEF HandOK, Item
<1>1. CASE LoopPassesGate(p)
  BY <1>1 DEF LoopPassesGate
<1>2. CASE GateTimerFires(p)
  BY <1>2 DEF GateTimerFires, TimerFires, Fault
<1>3. CASE GateHandler(p)
  BY <1>3 DEF GateHandler
<1>4. CASE LoopTakes(p)
  <2>1. queue[p] # <<>> /\ queue[p] \in Seq(Item)
    BY <1>4 DEF LoopTakes
  <2>2. Head(queue[p]) \in Item /\ Tail(queue[p]) \in Seq(Item)
    BY <2>1, HeadTailProperties
  <2>3. item' \in [Players -> Item \cup {NoItem}] /\ queue' \in [Players -> Seq(Item)]
    BY <1>4, <2>2 DEF LoopTakes
  <2>4. UNCHANGED <<claimed, stopTask, list, parked, rows, heard, late, source, faults>>
    BY <1>4 DEF LoopTakes
  <2> QED BY <1>4, <2>3, <2>4 DEF LoopTakes
<1>5. CASE LoopIdlesOut(p)
  BY <1>5 DEF LoopIdlesOut, TimerFires, Fault
<1>6. CASE LoopPlays(p)
  <2>1. list # <<>> => Tail(list) \in Seq(Songs)
    BY HeadTailProperties
  <2>2. list' = list \/ (list # <<>> /\ list' = Tail(list))
    BY <1>6 DEF LoopPlays, PopQueueAndStartSong
  <2>3. parked' \in Songs
    BY <1>0, <1>6 DEF LoopPlays, PopQueueAndStartSong, SetCurrentSongState
  <2>4. source' \in [by : Players \cup {NoPlayer}, song : Songs \cup {NoSong}, framed : BOOLEAN]
    BY <1>0, <1>6 DEF LoopPlays
  <2> QED BY <1>6, <2>1, <2>2, <2>3, <2>4 DEF LoopPlays
<1>7. CASE LoopRaises(p)
  BY <1>7 DEF LoopRaises, ClearSongEndState
<1>9. CASE LoopSongEnds(p)
  BY <1>9 DEF LoopSongEnds, NoSource, NoPlayer
<1>10. CASE LoopRecords(p)
  BY <1>10 DEF LoopRecords
<1>11. CASE LoopRowLands(p)
  <2>1. item[p].song \in Songs /\ rows' = [rows EXCEPT ![item[p].song] = @ + 1]
    BY <1>0, <1>11 DEF LoopRowLands
  <2>2. rows' \in [Songs -> Nat]
    BY <2>1
  <2> QED BY <1>11, <2>2 DEF LoopRowLands
<1>12. CASE LoopForgets(p)
  BY <1>12 DEF LoopForgets, ClearSongEndState
<1> QED BY <1>1, <1>2, <1>3, <1>4, <1>5, <1>6, <1>7, <1>9, <1>10, <1>11, <1>12 DEF LoopNext

\* The loop takes its own claim back only.
LEMMA LoopKeepsLinks ==
    ASSUME ShapeOK, LinkOK, NEW p \in Players, LoopNext(p)
    PROVE  LinkOK'
<1>1. UNCHANGED <<mps, made, cmd, down, pending>>
  BY DEF LoopNext, LoopPassesGate, GateTimerFires, GateHandler, LoopTakes,
     LoopIdlesOut, LoopPlays, LoopRaises, LoopSongEnds, LoopRecords, LoopRowLands,
     LoopForgets, LoopStep, LoopTurn, LoopMoves, teardownVars, taskVars
<1>2. claimed' = claimed \/ claimed' = [claimed EXCEPT ![p] = FALSE]
  BY DEF LoopNext, LoopPassesGate, GateTimerFires, GateHandler, LoopTakes, LoopIdlesOut, LoopPlays,
     LoopRaises, LoopSongEnds, LoopRecords, LoopRowLands, LoopForgets
<1>3. UpOK'
  BY <1>1, <1>2 DEF LinkOK, UpOK, ShapeOK, TypeOK
<1>4. \A q \in Players \ {p} : loop'[q] = loop[q] /\ item'[q] = item[q]
  BY DEF LoopNext, LoopPassesGate, GateTimerFires, GateHandler, LoopTakes, LoopIdlesOut, LoopPlays,
     LoopRaises, LoopSongEnds, LoopRecords, LoopRowLands, LoopForgets, LoopStep,
     LoopTurn, LoopMoves, ShapeOK, TypeOK
<1>5. loop'[p] \in {"resolving", "started", "playing", "ended", "writing", "written"} =>
        item'[p] \in Item
  <2>1. CASE LoopTakes(p)
    BY <2>1, HeadTailProperties DEF LoopTakes, ShapeOK, TypeOK
  <2>2. CASE LoopPlays(p) \/ LoopSongEnds(p) \/ LoopRecords(p) \/ LoopRowLands(p)
    BY <2>2 DEF LinkOK, HandOK, LoopPlays, LoopSongEnds, LoopRecords, LoopRowLands,
       LoopStep, LoopTurn, LoopMoves
  <2>3. CASE LoopPassesGate(p) \/ GateTimerFires(p) \/ GateHandler(p) \/ LoopIdlesOut(p) \/ LoopRaises(p)
             \/ LoopForgets(p)
    BY <2>3 DEF LoopPassesGate, GateTimerFires, GateHandler, LoopIdlesOut, LoopRaises, LoopForgets,
       LoopStep, LoopTurn, LoopMoves, ShapeOK, TypeOK
  <2> QED BY <2>1, <2>2, <2>3 DEF LoopNext
<1>6. HandOK'
  BY <1>4, <1>5 DEF LinkOK, HandOK
<1>7. loop[p] # "unborn"
  BY DEF LoopNext, LoopPassesGate, GateTimerFires, GateHandler, LoopTakes, LoopIdlesOut, LoopPlays,
     LoopRaises, LoopSongEnds, LoopRecords, LoopRowLands, LoopForgets, LoopStep,
     LoopTurn, LoopMoves
<1>8. UnbornOK'
  BY <1>1, <1>4, <1>7 DEF LinkOK, UnbornOK
<1> QED BY <1>1, <1>3, <1>6, <1>8 DEF LinkOK, BoundOK, Cold, RegisteredOK

\* Nothing new is heard, and whatever was to be recorded still is or has been.
LEMMA HeardStays ==
    ASSUME HeardKept, UNCHANGED heard,
           \A s \in heard : rows[s] > 0 => rows'[s] > 0,
           \A s \in heard, p \in Players : ToRecord(p, s) => rows'[s] > 0 \/ ToRecord(p, s)'
    PROVE  HeardKept'
BY DEF HeardKept

LEMMA LoopKeepsHeard ==
    ASSUME ShapeOK, LinkOK, HeardKept, NEW p \in Players, LoopNext(p)
    PROVE  HeardKept'
<1>1. UNCHANGED <<down, pending>> /\ (~LoopRowLands(p) => UNCHANGED rows)
  BY DEF LoopNext, LoopPassesGate, GateTimerFires, GateHandler, LoopTakes, LoopIdlesOut, LoopPlays,
     LoopRaises, LoopSongEnds, LoopRecords, LoopRowLands, LoopForgets, LoopStep,
     LoopTurn, LoopMoves, teardownVars, ghostVars
<1>3. HeardKept'
  <2>1. UNCHANGED heard
    BY DEF LoopNext, LoopPassesGate, GateTimerFires, GateHandler, LoopTakes, LoopIdlesOut,
       LoopPlays, LoopRaises, LoopSongEnds, LoopRecords, LoopRowLands, LoopForgets, ghostVars
  <2>2. ASSUME NEW s \in heard, NEW q \in Players, ToRecord(q, s)
        PROVE  rows'[s] > 0 \/ ToRecord(q, s)'
    <3> USE <1>1, <2>2 DEF ToRecord, LoopStep, LoopTurn, LoopMoves, ShapeOK, TypeOK
    <3>1. CASE LoopSongEnds(p)
      BY <3>1 DEF LoopSongEnds
    <3>2. CASE LoopRecords(p)
      BY <3>2 DEF LoopRecords, LinkOK, UpOK
    <3>3. CASE LoopRowLands(p)
      BY <3>3 DEF LoopRowLands
    <3>4. CASE ~(LoopSongEnds(p) \/ LoopRecords(p) \/ LoopRowLands(p))
      <4>1. /\ loop[p] \notin {"playing", "ended", "writing"}
            /\ \A r \in Players \ {p} : loop'[r] = loop[r] /\ item'[r] = item[r]
        BY <3>4 DEF LoopNext, LoopPassesGate, GateTimerFires, GateHandler, LoopTakes, LoopIdlesOut,
           LoopPlays, LoopRaises, LoopForgets
      <4> QED BY <4>1
    <3> QED BY <3>1, <3>2, <3>3, <3>4
  <2>3. \A s \in heard : rows[s] > 0 => rows'[s] > 0
    <3>1. CASE LoopRowLands(p)
      BY <3>1 DEF LoopRowLands, ShapeOK, TypeOK
    <3>2. CASE ~LoopRowLands(p)
      BY <1>1, <3>2
    <3> QED BY <3>1, <3>2
  <2> QED BY <2>1, <2>2, <2>3, HeardStays
<1> QED BY <1>3

\* The loop hands the voice thread its own song, and is told when it is over.
LEMMA LoopKeepsSource ==
    ASSUME ShapeOK, HandOK, SourceOK, NEW p \in Players, LoopNext(p)
    PROVE  SourceOK'
<1>1. UNCHANGED down /\ \A q \in Players \ {p} : loop'[q] = loop[q] /\ item'[q] = item[q]
  BY DEF LoopNext, LoopPassesGate, GateTimerFires, GateHandler, LoopTakes, LoopIdlesOut, LoopPlays,
     LoopRaises, LoopSongEnds, LoopRecords, LoopRowLands, LoopForgets, LoopStep, LoopTurn, LoopMoves,
     teardownVars, ShapeOK, TypeOK
<1>2. CASE LoopPlays(p)
  <2>1. loop'[p] = "started" /\ item'[p] = item[p] /\ source'.by = p /\ source'.song = item[p].song
    BY <1>2 DEF LoopPlays, LoopMoves, ShapeOK, TypeOK
  <2>2. item[p].song \in Songs
    BY <1>2 DEF LoopPlays, LoopMoves, HandOK, Item
  <2> QED BY <2>1, <2>2 DEF SourceOK
<1>3. CASE LoopSongEnds(p)
  <2>1. \A q \in Players : source'.by = q => q # p /\ source' = source
    BY <1>3 DEF LoopSongEnds, NoSource, NoPlayer, Players
  <2> QED BY <1>1, <2>1 DEF SourceOK
<1>4. CASE ~(LoopPlays(p) \/ LoopSongEnds(p))
  <2>1. UNCHANGED source /\ loop[p] \notin {"started", "playing"}
    BY <1>4 DEF LoopNext, LoopPassesGate, GateTimerFires, GateHandler, LoopTakes, LoopIdlesOut,
       LoopRaises, LoopRecords, LoopRowLands, LoopForgets, LoopStep, LoopTurn, LoopMoves
  <2> QED BY <1>1, <2>1 DEF SourceOK
<1> QED BY <1>2, <1>3, <1>4

-----------------------------------------------------------------------------
(* The voice thread.                                                       *)

\* A frame that comes while a cleanup() could still claim the play is the loop's own
\* song: what was heard is in its hands.
LEMMA VoiceKeeps ==
    ASSUME ShapeOK, LinkOK, HeardKept, SourceOK, NEW p \in Players, VoiceNext(p)
    PROVE  ShapeOK' /\ LinkOK' /\ HeardKept' /\ SourceOK' /\ UNCHANGED <<gate, holds, cmd>>
<1>1. VoiceStep /\ source.by = p
  BY DEF VoiceNext, FirstFrame, SourceEnds
<1>2. UNCHANGED <<mps, made, gate, holds, restore, snapshot, queue, item, claimed, stopTask, down,
                  pending, voice, ejected, list, parked, connection, cmd, recovery, lock, rows, faults>>
  BY <1>1 DEF VoiceStep, loopVars, teardownVars, redisVars, taskVars
<1>3. \/ loop' = loop
      \/ loop[p] = "started" /\ loop' = [loop EXCEPT ![p] = "playing"]
  BY DEF VoiceNext, FirstFrame, SourceEnds, ShapeOK, TypeOK
<1>4. loop' \in [Players -> LoopPoints]
  BY <1>3 DEF ShapeOK, TypeOK, LoopPoints
<1>5. UnbornOK' /\ HandOK'
  BY <1>2, <1>3 DEF LinkOK, UnbornOK, HandOK, ShapeOK, TypeOK
<1>6. LinkOK'
  BY <1>2, <1>5 DEF LinkOK, BoundOK, Cold, RegisteredOK, UpOK
<1>7. \A s \in heard, q \in Players : ToRecord(q, s) => ToRecord(q, s)'
  BY <1>2, <1>3 DEF ToRecord, ShapeOK, TypeOK
<1>8. CASE SourceEnds(p)
  <2>1. source' = NoSource /\ UNCHANGED <<heard, late>>
    BY <1>8 DEF SourceEnds
  <2>2. ShapeOK'
    BY <1>2, <1>4, <2>1 DEF ShapeOK, TypeOK, NoSource
  <2>3. HeardKept'
    BY <1>2, <1>7, <2>1, HeardStays
  <2>4. SourceOK'
    BY <2>1 DEF SourceOK, NoSource, NoPlayer, Players
  <2> QED BY <1>2, <1>6, <2>2, <2>3, <2>4
<1>9. CASE FirstFrame(p)
  <2>1. source' = [source EXCEPT !.framed = TRUE]
        /\ loop' = [loop EXCEPT ![p] = IF @ = "started" THEN "playing" ELSE @]
    BY <1>9 DEF FirstFrame
  <2>2. /\ source' \in [by : Players \cup {NoPlayer}, song : Songs \cup {NoSong}, framed : BOOLEAN]
        /\ source'.by = source.by /\ source'.song = source.song
    BY <2>1 DEF ShapeOK, TypeOK
  <2>3. SourceOK'
    BY <1>2, <1>3, <2>2 DEF SourceOK, ShapeOK, TypeOK
  <2>4. CASE down[p] = "up"
    <3>1. heard' = heard \cup {source.song} /\ UNCHANGED late
      BY <1>9, <2>4 DEF FirstFrame
    <3>2. item[p].song = source.song /\ loop[p] \in {"started", "playing"} /\ item[p] \in Item
      BY <1>1, <2>4 DEF SourceOK, LinkOK, HandOK
    <3>3. source.song \in Songs
      BY <3>2 DEF Item
    <3>4. ToRecord(p, source.song)'
      BY <1>2, <2>1, <2>4, <3>2 DEF ToRecord, ShapeOK, TypeOK
    <3>5. HeardKept'
      BY <1>2, <1>7, <3>1, <3>4, <2>2 DEF HeardKept
    <3>6. ShapeOK'
      BY <1>2, <1>4, <2>2, <3>1, <3>3 DEF ShapeOK, TypeOK
    <3> QED BY <1>2, <1>6, <2>3, <3>5, <3>6
  <2>5. CASE down[p] # "up"
    <3>1. late' = late \cup {source.song} /\ UNCHANGED heard
      BY <1>9, <2>5 DEF FirstFrame
    <3>2. source.song \in Songs
      BY <1>1 DEF SourceOK
    <3>3. ShapeOK'
      BY <1>2, <1>4, <2>2, <3>1, <3>2 DEF ShapeOK, TypeOK
    <3>4. HeardKept'
      BY <1>2, <1>7, <3>1, HeardStays
    <3> QED BY <1>2, <1>6, <2>3, <3>3, <3>4
  <2> QED BY <2>4, <2>5
<1> QED BY <1>8, <1>9 DEF VoiceNext

-----------------------------------------------------------------------------
(* The restore.                                                            *)

LEMMA RestoreKeeps ==
    ASSUME ShapeOK, LinkOK, HeardKept, NEW p \in Players, RestoreNext(p)
    PROVE  ShapeOK' /\ LinkOK' /\ HeardKept'
<1>1. UNCHANGED <<mps, made, gate, holds, loop, item, claimed, stopTask, teardownVars, voiceVars,
                  list, connection, taskVars, ghostVars>>
  BY DEF RestoreNext, RestoreReads, RestoreApplies, redisVars
<1>2. LinkOK' /\ HeardKept'
  BY <1>1 DEF LinkOK, BoundOK, Cold, RegisteredOK, UnbornOK, HandOK, UpOK, HeardKept, ToRecord,
     teardownVars, taskVars, ghostVars
<1>3. /\ restore' \in [Players -> {"unborn", "reading", "read", "done"}]
      /\ snapshot' \in [Players -> [list : Seq(Songs), parked : Songs \cup {NoSong}]]
      /\ parked' \in Songs \cup {NoSong}
      /\ faults' \in Nat
  <2> USE DEF ShapeOK, TypeOK
  <2>1. CASE RestoreReads(p)
    <3>1. /\ snapshot \in [Players -> [list : Seq(Songs), parked : Songs \cup {NoSong}]]
          /\ restore \in [Players -> {"unborn", "reading", "read", "done"}]
          /\ list \in Seq(Songs) /\ parked \in Songs \cup {NoSong} /\ faults \in Nat
      OBVIOUS
    <3> HIDE DEF ShapeOK, TypeOK
    <3>2. faults' \in Nat
      BY <2>1, <3>1 DEF RestoreReads, Fault
    <3>3. restore' \in [Players -> {"unborn", "reading", "read", "done"}]
      BY <2>1, <3>1 DEF RestoreReads
    <3>4. snapshot' \in [Players -> [list : Seq(Songs), parked : Songs \cup {NoSong}]]
      <4> DEFINE seen == [list |-> list, parked |-> parked]
      <4>1. seen \in [list : Seq(Songs), parked : Songs \cup {NoSong}]
        BY <3>1
      <4>2. snapshot' \in {snapshot, [snapshot EXCEPT ![p] = seen]}
        BY <2>1 DEF RestoreReads
      <4> HIDE DEF seen
      <4> QED BY <3>1, <4>1, <4>2
    <3> QED BY <2>1, <3>1, <3>2, <3>3, <3>4 DEF RestoreReads, redisVars
  <2>2. CASE RestoreApplies(p)
    BY <2>2 DEF RestoreApplies, ClearSongEndState, NothingRead
  <2> QED BY <2>1, <2>2 DEF RestoreNext
<1>4. queue' \in [Players -> Seq(Item)]
  <2>1. CASE RestoreReads(p)
    BY <2>1 DEF RestoreReads, ShapeOK, TypeOK
  <2>2. CASE RestoreApplies(p)
    <3> DEFINE crashed == snapshot[p].parked
               head == IF crashed = NoSong THEN <<>> ELSE <<[song |-> crashed, listed |-> FALSE]>>
               rest == [i \in 1 .. Len(snapshot[p].list) |->
                          [song |-> snapshot[p].list[i], listed |-> TRUE]]
    <3>1. head \in Seq(Item)
      <4>1. crashed # NoSong => [song |-> crashed, listed |-> FALSE] \in Item
        BY DEF ShapeOK, TypeOK, Item
      <4> QED BY <4>1
    <3>2. rest \in Seq(Item)
      <4>1. snapshot[p].list \in Seq(Songs)
        BY DEF ShapeOK, TypeOK
      <4>2. Len(snapshot[p].list) \in Nat
            /\ \A i \in 1 .. Len(snapshot[p].list) : snapshot[p].list[i] \in Songs
        BY <4>1
      <4> QED BY <4>2, IsASeq DEF Item
    <3>3. queue[p] \o head \o rest \in Seq(Item)
      BY <3>1, <3>2 DEF ShapeOK, TypeOK
    <3>4. queue' = [queue EXCEPT ![p] = queue[p] \o head \o rest]
      BY <2>2 DEF RestoreApplies
    <3> HIDE DEF head, rest
    <3> QED BY <3>3, <3>4 DEF ShapeOK, TypeOK
  <2> QED BY <2>1, <2>2 DEF RestoreNext
<1> QED BY <1>1, <1>2, <1>3, <1>4 DEF ShapeOK, TypeOK, teardownVars, voiceVars, taskVars, ghostVars

-----------------------------------------------------------------------------
(* cleanup() and the teardown it leaves behind.                            *)

\* Whoever calls cleanup(): the registered player's unwritten play passes to the
\* teardown in the same turn.
LEMMA CleanupKeeps ==
    ASSUME ShapeOK, LinkOK, HeardKept, Cleanup,
           UNCHANGED <<made, loop, item, rows, heard>>
    PROVE  /\ mps' \in Players \cup {NoPlayer}
           /\ claimed' \in [Players -> BOOLEAN]
           /\ down' \in [Players -> {"up", "claimed", "cancelled", "silent", "done"}]
           /\ pending' \in [Players -> Songs \cup {NoSong}]
           /\ RegisteredOK' /\ UnbornOK' /\ HandOK' /\ UpOK'
           /\ HeardKept'
<1>1. CASE mps = NoPlayer
  BY <1>1 DEF Cleanup, ShapeOK, TypeOK, LinkOK, RegisteredOK, UnbornOK, HandOK, UpOK, HeardKept,
     ToRecord, Players, NoPlayer
<1>2. CASE mps # NoPlayer
  <2>1. mps \in Players /\ down[mps] = "up" /\ pending[mps] = NoSong /\ ~claimed[mps] /\ mps <= made
    BY <1>2 DEF ShapeOK, TypeOK, LinkOK, RegisteredOK, UpOK
  <2>2. Claim(mps) = IF Audible(mps) THEN item[mps].song ELSE NoSong
    BY <2>1 DEF Claim
  <2>3. Claim(mps) \in Songs \cup {NoSong}
    BY <2>1, <2>2 DEF LinkOK, HandOK, Audible, Item
  <2>4. /\ mps' = NoPlayer
        /\ down' = [down EXCEPT ![mps] = "claimed"]
        /\ pending' = [pending EXCEPT ![mps] = Claim(mps)]
        /\ claimed' = [claimed EXCEPT ![mps] = @ \/ Claim(mps) # NoSong]
    BY <1>2 DEF Cleanup
  <2>5. RegisteredOK' /\ UnbornOK' /\ HandOK' /\ UpOK'
    <3>1. \A p \in Players : p # mps => /\ down'[p] = down[p]
                                       /\ pending'[p] = pending[p]
                                       /\ claimed'[p] = claimed[p]
      BY <2>4 DEF ShapeOK, TypeOK
    <3>2. down'[mps] # "up"
      BY <2>1, <2>4 DEF ShapeOK, TypeOK
    <3>3. UnbornOK'
      <4>1. \A p \in Players : p > made => p # mps
        BY <2>1, LifecycleAssumption DEF Players, ShapeOK, TypeOK
      <4> QED BY <3>1, <4>1 DEF LinkOK, UnbornOK
    <3>4. UpOK'
      BY <3>1, <3>2 DEF LinkOK, UpOK
    <3> QED BY <2>4, <3>3, <3>4 DEF LinkOK, RegisteredOK, HandOK
  <2>6. ASSUME NEW s \in heard, NEW p \in Players, ToRecord(p, s)
        PROVE  ToRecord(p, s)'
    <3>1. CASE p = mps
      <4>1. s # NoSong
        BY LifecycleAssumption DEF ShapeOK, TypeOK
      <4>2. Audible(mps) /\ item[mps].song = s
        BY <2>1, <2>6, <3>1, <4>1 DEF ToRecord, Audible
      <4> QED BY <2>1, <2>2, <2>4, <3>1, <4>2 DEF ToRecord, ShapeOK, TypeOK
    <3>2. CASE p # mps
      BY <2>1, <2>4, <2>6, <3>2 DEF ToRecord, ShapeOK, TypeOK
    <3> QED BY <3>1, <3>2
  <2>7. HeardKept'
    BY <2>6, HeardStays
  <2>8. /\ claimed' \in [Players -> BOOLEAN]
        /\ down' \in [Players -> {"up", "claimed", "cancelled", "silent", "done"}]
        /\ pending' \in [Players -> Songs \cup {NoSong}]
    BY <2>3, <2>4 DEF ShapeOK, TypeOK
  <2> QED BY <2>4, <2>5, <2>7, <2>8
<1> QED BY <1>1, <1>2

LEMMA TeardownKeeps ==
    ASSUME ShapeOK, LinkOK, HeardKept, NEW p \in Players, TeardownNext(p)
    PROVE  ShapeOK' /\ LinkOK' /\ HeardKept'
<1>1. /\ UNCHANGED <<mps, made, holds, stopTask, list, taskVars, heard, late, faults>>
      /\ down[p] # "up"
      /\ \E to \in {"cancelled", "silent", "done"} : down' = [down EXCEPT ![p] = to]
  BY DEF TeardownNext, TeardownCancels, TeardownDisconnects, TeardownRecords, TeardownStep
<1>2. CASE TeardownCancels(p)
  <2>1. /\ UNCHANGED <<pending, voice, ejected, source, parked, connection, rows>>
        /\ loop' = [loop EXCEPT ![p] = "off"]
        /\ restore' = [restore EXCEPT ![p] = "done"]
        /\ snapshot' = [snapshot EXCEPT ![p] = NothingRead]
        /\ item' = [item EXCEPT ![p] = NoItem]
        /\ claimed' = [claimed EXCEPT ![p] = FALSE]
        /\ gate' = [gate EXCEPT ![p] = FALSE]
    BY <1>2 DEF TeardownCancels, voiceVars
  <2>2. queue' \in [Players -> Seq(Item)]
    <3>1. queue[p] # <<>> => <<Head(queue[p])>> \in Seq(Item)
      <4>1. queue[p] # <<>> => Head(queue[p]) \in Item
        BY HeadTailProperties DEF ShapeOK, TypeOK
      <4> QED BY <4>1
    <3> DEFINE kept == IF UnlistedHead(p) /\ holds[p] > 0 THEN <<Head(queue[p])>> ELSE <<>>
    <3>2. kept \in Seq(Item)
      BY <3>1 DEF UnlistedHead
    <3>3. queue' = [queue EXCEPT ![p] = kept]
      BY <1>2 DEF TeardownCancels
    <3> HIDE DEF kept
    <3> QED BY <3>2, <3>3 DEF ShapeOK, TypeOK
  <2>3. NothingRead \in [list : Seq(Songs), parked : Songs \cup {NoSong}]
    BY DEF NothingRead
  <2>4. snapshot' \in [Players -> [list : Seq(Songs), parked : Songs \cup {NoSong}]]
    BY <2>1, <2>3 DEF ShapeOK, TypeOK
  <2>5. ShapeOK'
    <3>1. /\ restore' \in [Players -> {"unborn", "reading", "read", "done"}]
          /\ loop' \in [Players -> LoopPoints]
          /\ item' \in [Players -> Item \cup {NoItem}]
          /\ claimed' \in [Players -> BOOLEAN]
          /\ gate' \in [Players -> BOOLEAN]
      BY <2>1 DEF ShapeOK, TypeOK, LoopPoints
    <3>2. down' \in [Players -> {"up", "claimed", "cancelled", "silent", "done"}]
      BY <1>1 DEF ShapeOK, TypeOK
    <3> QED BY <1>1, <2>1, <2>2, <2>4, <3>1, <3>2 DEF ShapeOK, TypeOK, taskVars
  <2>6. LinkOK'
    BY <1>1, <2>1 DEF LinkOK, BoundOK, Cold, RegisteredOK, UnbornOK, HandOK, UpOK, ShapeOK, TypeOK,
       taskVars
  <2>7. \A s \in heard, q \in Players : ToRecord(q, s) => ToRecord(q, s)'
    BY <1>1, <2>1 DEF ToRecord, ShapeOK, TypeOK
  <2> QED BY <1>1, <2>1, <2>5, <2>6, <2>7, HeardStays
<1>3. CASE TeardownDisconnects(p)
  <2>1. /\ UNCHANGED <<gate, restore, loop, loopVars, pending, parked, connection, rows>>
        /\ voice' = NoVoice /\ source' = NoSource
    BY <1>3 DEF TeardownDisconnects
  <2>2. ShapeOK'
    BY <1>1, <2>1 DEF ShapeOK, TypeOK, taskVars, loopVars, NoVoice, NoSource
  <2>3. LinkOK'
    BY <1>1, <2>1 DEF LinkOK, BoundOK, Cold, RegisteredOK, UnbornOK, HandOK, UpOK, ShapeOK, TypeOK,
       taskVars, loopVars
  <2>4. \A s \in heard, q \in Players : ToRecord(q, s) => ToRecord(q, s)'
    BY <1>1, <2>1 DEF ToRecord, ShapeOK, TypeOK, loopVars
  <2> QED BY <1>1, <2>1, <2>2, <2>3, <2>4, HeardStays
<1>4. CASE TeardownRecords(p)
  <2>1. /\ UNCHANGED <<gate, restore, loop, loopVars, voice, ejected, source>>
        /\ rows' = IF pending[p] = NoSong THEN rows ELSE [rows EXCEPT ![pending[p]] = @ + 1]
        /\ pending' = [pending EXCEPT ![p] = NoSong]
        /\ parked' = NoSong
    BY <1>4 DEF TeardownRecords, ClearConnection, ClearSongEndState, voiceVars
  <2>2. rows' \in [Songs -> Nat] /\ \A s \in Songs : rows'[s] >= rows[s]
    BY <2>1 DEF ShapeOK, TypeOK
  <2>3. ShapeOK'
    BY <1>1, <2>1, <2>2 DEF ShapeOK, TypeOK, taskVars, loopVars
  <2>4. LinkOK'
    BY <1>1, <2>1 DEF LinkOK, BoundOK, Cold, RegisteredOK, UnbornOK, HandOK, UpOK, ShapeOK, TypeOK,
       taskVars, loopVars
  <2>5. ASSUME NEW s \in heard, NEW q \in Players, ToRecord(q, s)
        PROVE  rows'[s] > 0 \/ ToRecord(q, s)'
    <3>1. s \in Songs /\ s # NoSong
      BY LifecycleAssumption DEF ShapeOK, TypeOK
    <3>2. CASE pending[p] = s
      BY <2>1, <3>1, <3>2 DEF ShapeOK, TypeOK
    <3>3. CASE pending[p] # s
      BY <1>1, <2>1, <2>5, <3>3 DEF ToRecord, ShapeOK, TypeOK, loopVars
    <3> QED BY <3>2, <3>3
  <2>6. \A s \in heard : rows[s] > 0 => rows'[s] > 0
    BY <2>2 DEF ShapeOK, TypeOK
  <2> QED BY <1>1, <2>3, <2>4, <2>5, <2>6, HeardStays
<1> QED BY <1>2, <1>3, <1>4 DEF TeardownNext

LEMMA OthersKeep ==
    ASSUME ShapeOK, LinkOK, HeardKept,
           (\E p \in Players : StopTask(p)) \/ Eject \/ EjectHandler
    PROVE  ShapeOK' /\ LinkOK' /\ HeardKept' /\ UNCHANGED <<cmd, holds, gate>>
<1>1. CASE \E p \in Players : StopTask(p)
  <2>1. PICK p \in Players : StopTask(p)
    BY <1>1
  <2>2. /\ Cleanup
        /\ UNCHANGED <<made, gate, restore, loop, holds, snapshot, queue, item, voiceVars, redisVars,
                       taskVars, ghostVars, faults>>
        /\ stopTask' = [stopTask EXCEPT ![p] = FALSE]
    BY <2>1 DEF StopTask
  <2>3. UNCHANGED <<rows, heard, cmd>>
    BY <2>2 DEF ghostVars, taskVars
  <2>4. LinkOK' /\ HeardKept'
    BY <2>2, <2>3, CleanupKeeps DEF LinkOK, BoundOK, Cold
  <2> QED BY <2>2, <2>3, <2>4, CleanupKeeps DEF ShapeOK, TypeOK, voiceVars, redisVars, taskVars,
          ghostVars
<1>2. CASE Eject
  BY <1>2 DEF Eject, Fault, cogVars, loopVars, teardownVars, redisVars, taskVars, ghostVars, NoVoice, NoSource,
     ShapeOK, TypeOK, LinkOK, BoundOK, Cold, RegisteredOK, UnbornOK, HandOK, UpOK, HeardKept, ToRecord
<1>3. CASE EjectHandler
  <2>1. /\ Cleanup
        /\ UNCHANGED <<made, gate, restore, loop, holds, snapshot, queue, item, stopTask, voice,
                       source, faults, redisVars, taskVars, ghostVars>>
    BY <1>3 DEF EjectHandler
  <2>2. UNCHANGED <<rows, heard, cmd>>
    BY <2>1 DEF ghostVars, taskVars
  <2>3. LinkOK' /\ HeardKept'
    BY <2>1, <2>2, CleanupKeeps DEF LinkOK, BoundOK, Cold
  <2> QED BY <2>1, <2>2, <2>3, CleanupKeeps DEF ShapeOK, TypeOK, redisVars, taskVars, ghostVars
<1> QED BY <1>1, <1>2, <1>3

-----------------------------------------------------------------------------
(* get_mp() and start().                                                   *)

\* A player is made where none was: what is up, in hand and to be recorded stays so.
LEMMA StartKeeps ==
    ASSUME ShapeOK, LinkOK, HeardKept, NEW p \in Players,
           GetPlayer(p) \/ (Start(p) /\ mps' = p),
           UNCHANGED <<down, pending, claimed, item, rows, heard>>
    PROVE  /\ mps' = p /\ p \in 1 .. made' /\ made' \in made .. MaxPlayers
           /\ gate' \in [Players -> BOOLEAN]
           /\ restore' \in [Players -> {"unborn", "reading", "read", "done"}]
           /\ loop' \in [Players -> LoopPoints]
           /\ RegisteredOK' /\ UnbornOK' /\ HandOK' /\ UpOK'
           /\ HeardKept'
           /\ \A q \in Players : ~gate[q] /\ gate'[q] => q > made /\ q = p /\ voice # NoVoice
<1>1. CASE GetPlayer(p) /\ mps # NoPlayer
  <2>1. mps = p /\ UNCHANGED cogVars
    BY <1>1 DEF GetPlayer
  <2>2. UNCHANGED <<mps, made, gate, restore, loop>>
    BY <2>1 DEF cogVars
  <2>3. RegisteredOK' /\ UnbornOK' /\ HandOK' /\ UpOK'
    BY <2>2 DEF LinkOK, RegisteredOK, UnbornOK, HandOK, UpOK
  <2>4. HeardKept'
    BY <2>2, HeardStays DEF ToRecord
  <2> QED BY <1>1, <2>1, <2>2, <2>3, <2>4, LifecycleAssumption DEF ShapeOK, TypeOK, LinkOK, RegisteredOK
<1>2. CASE Start(p) /\ mps' = p
  <2>1. /\ p = made + 1 /\ made' = p
        /\ gate' = [gate EXCEPT ![p] = voice # NoVoice]
        /\ restore' = [restore EXCEPT ![p] = "reading"]
        /\ loop' = [loop EXCEPT ![p] = "gate"]
    BY <1>2 DEF Start
  <2>2. made \in Nat /\ MaxPlayers \in Nat /\ p <= MaxPlayers
    BY LifecycleAssumption DEF ShapeOK, TypeOK, Players
  <2>3. down[p] = "up" /\ loop[p] = "unborn"
    BY <2>1, <2>2 DEF LinkOK, UnbornOK
  <2>4. RegisteredOK' /\ UnbornOK' /\ HandOK' /\ UpOK'
    BY <1>2, <2>1, <2>2, <2>3 DEF LinkOK, RegisteredOK, UnbornOK, HandOK, UpOK, Players, NoPlayer,
       ShapeOK, TypeOK
  <2>5. \A s \in heard, q \in Players : ToRecord(q, s) => ToRecord(q, s)'
    BY <2>1, <2>3 DEF ToRecord, ShapeOK, TypeOK
  <2>6. HeardKept'
    BY <2>5, HeardStays
  <2> QED BY <1>2, <2>1, <2>2, <2>4, <2>6 DEF ShapeOK, TypeOK, LoopPoints
<1> QED BY <1>1, <1>2 DEF GetPlayer

\* Nobody touches what the voice thread plays, nor the loop that waits for it.
LEMMA SourceStays ==
    ASSUME SourceOK, UNCHANGED <<source, item>>,
           \A p \in Players : source.by = p /\ down'[p] = "up" => down[p] = "up" /\ loop'[p] = loop[p]
    PROVE  SourceOK'
BY DEF SourceOK

\* Nothing plays yet for a player that is made, nor for long for one that is taken.
LEMMA SourceStands ==
    ASSUME ShapeOK, LinkOK, SourceOK, UNCHANGED <<source, item>>,
           \/ UNCHANGED <<loop, down>>
           \/ (\E p \in Players : GetPlayer(p) \/ Start(p)) /\ UNCHANGED down
           \/ Cleanup /\ UNCHANGED loop
    PROVE  SourceOK'
<1>1. CASE UNCHANGED <<loop, down>>
  BY <1>1, SourceStays
<1>2. ASSUME NEW p \in Players, GetPlayer(p) \/ Start(p), UNCHANGED down
      PROVE  SourceOK'
  <2>1. UNCHANGED loop \/ (p = made + 1 /\ loop' = [loop EXCEPT ![p] = "gate"])
    BY <1>2 DEF GetPlayer, Start, cogVars
  <2>2. p = made + 1 => loop[p] = "unborn" /\ down[p] = "up"
    <3>1. made \in Nat
      BY DEF ShapeOK, TypeOK
    <3> QED BY <3>1 DEF LinkOK, UnbornOK, Players
  <2>3. \A q \in Players : source.by = q /\ down[q] = "up" => loop'[q] = loop[q]
    BY <2>1, <2>2 DEF SourceOK, ShapeOK, TypeOK
  <2> QED BY <1>2, <2>3, SourceStays
<1>3. CASE Cleanup /\ UNCHANGED loop
  <2>1. \A p \in Players : down'[p] = "up" => down[p] = "up"
    BY <1>3 DEF Cleanup, ShapeOK, TypeOK
  <2> QED BY <1>3, <2>1, SourceStays
<1> QED BY <1>1, <1>2, <1>3

-----------------------------------------------------------------------------
(* restore_guild().                                                        *)

LEMMA RecoveryKeeps ==
    ASSUME ShapeOK, LinkOK, HeardKept, NEW r \in Recoveries, RecoveryNext(r)
    PROVE  /\ ShapeOK' /\ LinkOK' /\ HeardKept'
           /\ UNCHANGED <<cmd, holds>>
           /\ \A q \in Players : ~gate[q] /\ gate'[q] => q > made
<1>1. UNCHANGED <<holds, snapshot, queue, item, claimed, stopTask, down, pending, ejected, source, list,
                  cmd, rows, heard, late>>
  BY DEF RecoveryNext, RecoveryBegins, RecoveryConnects, RecoveryHandshake, RecoveryRegisters,
     RecoveryStep, loopVars, teardownVars, ghostVars
<1>2. CASE RecoveryRegisters(r)
  <2>1. PICK p \in Players : Start(p) /\ mps' = p
    BY <1>2 DEF RecoveryRegisters
  <2>2. UNCHANGED <<voice, connection, parked, faults>> /\ lock' = NoOne
    BY <1>2 DEF RecoveryRegisters
  <2>3. made' \in 0 .. MaxPlayers /\ made' >= made
    BY <1>1, <2>1, StartKeeps DEF ShapeOK, TypeOK
  <2>4. LinkOK'
    BY <1>1, <2>1, <2>3, StartKeeps DEF LinkOK, BoundOK, Cold, ShapeOK, TypeOK
  <2> QED BY <1>1, <2>1, <2>2, <2>3, <2>4, StartKeeps DEF ShapeOK, TypeOK
<1>3. CASE RecoveryBegins(r) \/ RecoveryConnects(r) \/ RecoveryHandshake(r)
  <2>1. UNCHANGED <<mps, made, gate, restore, loop>>
    BY <1>3 DEF RecoveryBegins, RecoveryConnects, RecoveryHandshake, cogVars
  <2>2. LinkOK'
    BY <1>1, <2>1 DEF LinkOK, BoundOK, Cold, RegisteredOK, UnbornOK, HandOK, UpOK
  <2>3. HeardKept'
    BY <1>1, <2>1, HeardStays DEF ToRecord
  <2>4. /\ lock' \in Recoveries \cup {NoOne}
        /\ parked' \in Songs \cup {NoSong}
    BY <1>3 DEF RecoveryBegins, RecoveryConnects, RecoveryHandshake, ClearConnection,
       ClearSongEndState, ShapeOK, TypeOK
  <2>5. faults' \in Nat
    BY <1>3 DEF RecoveryBegins, RecoveryConnects, RecoveryHandshake, HandshakeSucceeds, HandshakeFails,
       Fault, ShapeOK, TypeOK
  <2>6. voice' \in [by : Cmds \cup Recoveries \cup {NoOne}, up : BOOLEAN]
    <3>1. NoVoice \in [by : Cmds \cup Recoveries \cup {NoOne}, up : BOOLEAN]
      BY DEF NoVoice
    <3>2. Connecting(r) \in [by : Cmds \cup Recoveries \cup {NoOne}, up : BOOLEAN]
      BY DEF Connecting
    <3>3. voice' \in {voice, NoVoice, Connecting(r), [voice EXCEPT !.up = TRUE]}
      BY <1>3 DEF RecoveryBegins, RecoveryConnects, RecoveryHandshake, HandshakeSucceeds, HandshakeFails
    <3> QED BY <3>1, <3>2, <3>3 DEF ShapeOK, TypeOK
  <2> QED BY <1>1, <2>1, <2>2, <2>3, <2>4, <2>5, <2>6 DEF ShapeOK, TypeOK
<1> QED BY <1>2, <1>3 DEF RecoveryNext

-----------------------------------------------------------------------------
(* Commands.                                                               *)

\* A command leaves the cog's players alone, gets one, or cleans up.
CommandDoes ==
    \/ UNCHANGED <<mps, made, restore, loop, down, pending, claimed>>
    \/ (\E p \in Players : GetPlayer(p)) /\ UNCHANGED <<down, pending, claimed>>
    \/ Cleanup /\ UNCHANGED <<made, restore, loop>>

\* Every step of a command has one of these forms.
LEMMA CommandForms ==
    ASSUME NEW c \in Cmds, Invoke(c) \/ CommandNext(c)
    PROVE  CommandDoes
<1> USE DEF CommandDoes, CmdStep, CmdFault, CmdTurn, CleanupStep
<1>1. CASE Invoke(c) \/ EnterPlay(c) \/ ResumeRebuilds(c) \/ JoinPersists(c)
  BY <1>1 DEF Invoke, EnterPlay, ResumeRebuilds, JoinPersists
<1>2. CASE \/ EnterOther(c) \/ StopReturns(c) \/ AfterRestore(c) \/ JoinConnects(c) \/ JoinHandshake(c)
           \/ JoinOpens(c) \/ JoinReturns(c) \/ AbandonEnds(c) \/ PlayInserts(c) \/ PlayAppends(c)
  BY <1>2 DEF EnterOther, StopReturns, AfterRestore, JoinConnects, JoinHandshake, JoinOpens,
     JoinReturns, AbandonEnds, PlayInserts, PlayAppends, cogVars
<1>3. CASE EnterStop(c) \/ Abandon(c)
  BY <1>3 DEF EnterStop, Abandon, cogVars
<1>4. CASE EnterResume(c)
  BY <1>4 DEF EnterResume, cogVars
<1> QED BY <1>1, <1>2, <1>3, <1>4 DEF CommandNext

\* Whatever a command does to the cog's players, to voice and to their teardown.
LEMMA CommandKeepsRest ==
    ASSUME ShapeOK, LinkOK, HeardKept, NEW c \in Cmds, Invoke(c) \/ CommandNext(c)
    PROVE  /\ mps' \in Players \cup {NoPlayer} /\ made' \in made .. MaxPlayers
           /\ restore' \in [Players -> {"unborn", "reading", "read", "done"}]
           /\ loop' \in [Players -> LoopPoints]
           /\ claimed' \in [Players -> BOOLEAN]
           /\ down' \in [Players -> {"up", "claimed", "cancelled", "silent", "done"}]
           /\ pending' \in [Players -> Songs \cup {NoSong}]
           /\ RegisteredOK' /\ UnbornOK' /\ HandOK' /\ UpOK'
           /\ HeardKept'
           /\ UNCHANGED <<item, stopTask, snapshot, source, lock, rows, heard, late>>
<1>1. UNCHANGED <<item, stopTask, snapshot, source, lock, rows, heard, late>>
  BY DEF Invoke, CommandNext, EnterOther, EnterStop, StopReturns, EnterPlay, EnterResume,
     ResumeRebuilds, AfterRestore, JoinConnects, JoinHandshake, JoinPersists, JoinOpens, JoinReturns,
     Abandon, AbandonEnds, PlayInserts, PlayAppends, CmdStep, CmdFault, CmdTurn, CleanupStep, ghostVars
<1>2. CASE UNCHANGED <<mps, made, restore, loop, down, pending, claimed>>
  <2>1. RegisteredOK' /\ UnbornOK' /\ HandOK' /\ UpOK'
    BY <1>1, <1>2 DEF LinkOK, RegisteredOK, UnbornOK, HandOK, UpOK
  <2>2. HeardKept'
    BY <1>1, <1>2, HeardStays DEF ToRecord
  <2>3. made' \in made .. MaxPlayers
    BY <1>2, LifecycleAssumption DEF ShapeOK, TypeOK
  <2> QED BY <1>1, <1>2, <2>1, <2>2, <2>3 DEF ShapeOK, TypeOK
<1>3. CASE (\E p \in Players : GetPlayer(p)) /\ UNCHANGED <<down, pending, claimed>>
  BY <1>1, <1>3, StartKeeps DEF ShapeOK, TypeOK
<1>4. CASE Cleanup /\ UNCHANGED <<made, restore, loop>>
  <2>1. made' \in made .. MaxPlayers
    BY <1>4, LifecycleAssumption DEF ShapeOK, TypeOK
  <2> QED BY <1>1, <1>4, <2>1, CleanupKeeps DEF ShapeOK, TypeOK
<1>5. CommandDoes
  BY CommandForms
<1> QED BY <1>2, <1>3, <1>4, <1>5 DEF CommandDoes

\* c moves, nobody else does, and whoever is bound to a player is bound to one made.
MovesAlone(c) ==
    /\ cmd' \in [Cmds -> Bound]
    /\ \A d \in Cmds \ {c} : cmd'[d] = cmd[d]
    /\ BoundOK'

Joining == {"connect", "handshake", "persist", "open", "joined"}
Unbound == {"entered", "stopping", "rebuilding", "finished"}

\* Where c may go with the player it is bound to.
MayGo(c, to) ==
    \/ Cold(c) \/ cmd[c].at \in {"restoring", "append"}
    \/ KindOf[c] = "join" /\ to \in Joining
    \/ to \in Unbound

LEMMA MoveTo ==
    ASSUME ShapeOK, LinkOK, made' \in made .. MaxPlayers, NEW c \in Cmds, NEW b \in Bound,
           cmd' = [cmd EXCEPT ![c] = b],
           b.mp \in 1 .. made' \/ (KindOf[c] = "join" /\ b.at \in Joining) \/ b.at \in Unbound
    PROVE  MovesAlone(c)
<1>1. made \in Nat /\ MaxPlayers \in Nat /\ made' \in Nat /\ made' >= made
  BY LifecycleAssumption DEF ShapeOK, TypeOK
<1>2. cmd' \in [Cmds -> Bound] /\ cmd'[c] = b /\ \A d \in Cmds \ {c} : cmd'[d] = cmd[d]
  BY DEF ShapeOK
<1>3. \A d \in Cmds \ {c} :
        (Cold(d) \/ cmd[d].at \in {"restoring", "append"})' => cmd'[d].mp \in 1 .. made'
  BY <1>1, <1>2 DEF LinkOK, BoundOK, Cold
<1>4. (Cold(c) \/ cmd[c].at \in {"restoring", "append"})' => cmd'[c].mp \in 1 .. made'
  BY <1>2 DEF Cold, Joining, Unbound
<1> QED BY <1>2, <1>3, <1>4 DEF MovesAlone, BoundOK

\* The forms a move takes.
LEMMA Moves ==
    ASSUME ShapeOK, LinkOK, made' \in made .. MaxPlayers, NEW c \in Cmds
    PROVE  /\ Returns(c) => MovesAlone(c)
           /\ \A to \in Points : Goes(c, to) /\ MayGo(c, to) => MovesAlone(c)
           /\ \A to \in Points : GoesAwaiting(c, to) /\ MayGo(c, to) => MovesAlone(c)
           /\ \A to \in Points, p \in Players :
                 GoesWith(c, to, p) /\ p \in 1 .. made' => MovesAlone(c)
           /\ \A to \in Points, p \in Players :
                 cmd' = [cmd EXCEPT ![c].at = to, ![c].waits = p] /\ MayGo(c, to) => MovesAlone(c)
<1>1. cmd[c] \in Bound /\ made \in Nat /\ MaxPlayers \in Nat /\ made' \in Nat /\ made' >= made
  BY LifecycleAssumption DEF ShapeOK, TypeOK
<1>2. \A to \in Points : MayGo(c, to) =>
        cmd[c].mp \in 1 .. made' \/ (KindOf[c] = "join" /\ to \in Joining) \/ to \in Unbound
  BY <1>1 DEF MayGo, LinkOK, BoundOK
<1>3. ASSUME Returns(c) PROVE MovesAlone(c)
  <2>1. Finished \in Bound /\ Finished.at \in Unbound
    BY DEF Finished, Bound, Points, Unbound
  <2> QED BY <1>3, <2>1, MoveTo DEF Returns
<1>4. ASSUME NEW to \in Points, Goes(c, to), MayGo(c, to) PROVE MovesAlone(c)
  <2> DEFINE b == [cmd[c] EXCEPT !.at = to]
  <2>1. b \in Bound /\ b.at = to /\ b.mp = cmd[c].mp /\ cmd' = [cmd EXCEPT ![c] = b]
    BY <1>1, <1>4 DEF Goes, Bound
  <2> HIDE DEF b
  <2> QED BY <1>2, <1>4, <2>1, MoveTo
<1>5. ASSUME NEW to \in Points, NEW p \in Players \cup {NoPlayer}, MayGo(c, to),
             cmd' = [cmd EXCEPT ![c].at = to, ![c].waits = p]
      PROVE MovesAlone(c)
  <2> DEFINE b == [cmd[c] EXCEPT !.at = to, !.waits = p]
  <2>1. b \in Bound /\ b.at = to /\ b.mp = cmd[c].mp /\ cmd' = [cmd EXCEPT ![c] = b]
    BY <1>1, <1>5 DEF Bound
  <2> HIDE DEF b
  <2> QED BY <1>2, <1>5, <2>1, MoveTo
<1>6. ASSUME NEW to \in Points, NEW p \in Players, GoesWith(c, to, p), p \in 1 .. made'
      PROVE  MovesAlone(c)
  <2> DEFINE b == [at |-> to, mp |-> p, waits |-> NoPlayer]
  <2>1. b \in Bound /\ b.mp = p /\ cmd' = [cmd EXCEPT ![c] = b]
    BY <1>6 DEF GoesWith, Bound
  <2> HIDE DEF b
  <2> QED BY <1>6, <2>1, MoveTo
<1> QED BY <1>3, <1>4, <1>5, <1>6 DEF GoesAwaiting, ShapeOK, TypeOK

LEMMA CommandMovesAlone ==
    ASSUME ShapeOK, LinkOK, HeardKept, NEW c \in Cmds, Invoke(c) \/ CommandNext(c)
    PROVE  MovesAlone(c)
<1>0. made' \in made .. MaxPlayers
  BY CommandKeepsRest
<1> USE <1>0, Moves DEF MayGo, Points, CmdStep, CmdFault, CmdTurn, CleanupStep
<1>1. CASE Invoke(c)
  BY <1>1 DEF Invoke, Unbound
<1>2. CASE EnterOther(c)
  BY <1>2 DEF EnterOther, Joining
<1>3. CASE EnterStop(c)
  BY <1>3 DEF EnterStop, Unbound
<1>4. CASE StopReturns(c)
  BY <1>4 DEF StopReturns
<1>5. CASE EnterPlay(c) \/ ResumeRebuilds(c)
  <2>1. \A p \in Players : GetPlayer(p) => p \in 1 .. made'
    BY <1>5, StartKeeps DEF EnterPlay, ResumeRebuilds, ghostVars
  <2> QED BY <1>5, <2>1 DEF EnterPlay, ResumeRebuilds
<1>6. CASE EnterResume(c)
  <2>1. CASE Returns(c)
    BY <2>1
  <2>2. CASE /\ \E p \in Players : GetPlayer(p) /\ GoesWith(c, "restoring", p)
             /\ UNCHANGED <<down, pending, claimed, item, rows, heard>>
    <3>1. \A p \in Players : GetPlayer(p) => p \in 1 .. made'
      BY <2>2, StartKeeps
    <3> QED BY <2>2, <3>1
  <2>3. CASE GoesAwaiting(c, "rebuilding")
    BY <2>3 DEF Unbound
  <2> QED BY <1>6, <2>1, <2>2, <2>3 DEF EnterResume, ghostVars
<1>7. CASE AfterRestore(c)
  BY <1>7 DEF AfterRestore
<1>8. CASE JoinConnects(c) \/ JoinHandshake(c) \/ JoinPersists(c) \/ JoinOpens(c)
  <2>1. cmd[c].at \in Joining
    BY <1>8 DEF JoinConnects, JoinHandshake, JoinPersists, JoinOpens, Joining
  <2>2. \A to \in Joining : MayGo(c, to)
    BY <2>1 DEF Cold, Joining
  <2> HIDE DEF MayGo
  <2>3. CASE JoinConnects(c) \/ JoinHandshake(c) \/ JoinOpens(c)
    BY <2>2, <2>3 DEF JoinConnects, JoinHandshake, JoinOpens, Joining
  <2>4. CASE JoinPersists(c)
    BY <2>2, <2>4 DEF JoinPersists, Joining
  <2> QED BY <1>8, <2>3, <2>4
<1>9. CASE JoinReturns(c)
  BY <1>9 DEF JoinReturns, Cold
<1>10. CASE Abandon(c)
  BY <1>10 DEF Abandon, ColdStartFails, Cold
<1>11. CASE AbandonEnds(c) \/ PlayInserts(c) \/ PlayAppends(c)
  BY <1>11 DEF AbandonEnds, PlayInserts, PlayAppends
<1> QED BY <1>1, <1>2, <1>3, <1>4, <1>5, <1>6, <1>7, <1>8, <1>9, <1>10, <1>11 DEF CommandNext

\* A gate opens on a player nobody holds.
OpensFree == \A p \in Players : ~gate[p] /\ gate'[p] => holds'[p] = 0

\* Nobody holds a player that is yet to be made.
LEMMA UnbornUnheld ==
    ASSUME ShapeOK, LinkOK, HoldsAccounted, NEW p \in Players, p > made
    PROVE  holds[p] = 0
<1>1. {c \in Cmds : ColdOn(c, p)} = {}
  BY LifecycleAssumption DEF ColdOn, LinkOK, BoundOK, ShapeOK, TypeOK, Players
<1>2. Cardinality({c \in Cmds : ColdOn(c, p)}) = 0
  BY <1>1, FS_EmptySet
<1> QED BY <1>2 DEF HoldsAccounted, ColdOn

LEMMA OthersColdAsBefore ==
    ASSUME NEW c \in Cmds, MovesAlone(c)
    PROVE  \A d \in Cmds \ {c}, p \in Players : ColdOn(d, p)' <=> ColdOn(d, p)
BY DEF MovesAlone, ColdOn, Cold

\* c gives its player's hold back; the last one opens the gate.
LEMMA Released ==
    ASSUME ShapeOK, HoldsAccounted, NEW c \in Cmds, MovesAlone(c), Returns(c),
           NEW q \in Players, ColdOn(c, q), ReleaseHold(q)
    PROVE  /\ HoldsAccounted' /\ holds' \in [Players -> Nat]
           /\ gate' \in [Players -> BOOLEAN] /\ OpensFree
<1>1. cmd'[c] = Finished
  BY DEF Returns, ShapeOK
<1>2. \A p \in Players : ~ColdOn(c, p)'
  BY <1>1 DEF ColdOn, Cold, Finished
<1>3. HoldsAccounted' /\ holds' \in [Players -> Nat]
  BY <1>2, HoldGiven, OthersColdAsBefore DEF ReleaseHold
<1>4. gate' \in [Players -> BOOLEAN]
  BY DEF ReleaseHold, ShapeOK, TypeOK
<1>5. OpensFree
  BY DEF OpensFree, ReleaseHold, ShapeOK, TypeOK
<1> QED BY <1>3, <1>4, <1>5

\* c keeps what it holds.
LEMMA Kept ==
    ASSUME ShapeOK, HoldsAccounted, NEW c \in Cmds, MovesAlone(c), UNCHANGED holds,
           \A p \in Players : ColdOn(c, p)' <=> ColdOn(c, p)
    PROVE  HoldsAccounted' /\ holds' \in [Players -> Nat]
BY HoldsStay, OthersColdAsBefore DEF ShapeOK, TypeOK

\* c takes a hold of the player it is bound to.
LEMMA Taken ==
    ASSUME ShapeOK, HoldsAccounted, NEW c \in Cmds, MovesAlone(c), NEW q \in Players,
           ~Cold(c), KindOf[c] # "join", cmd'[c].at = "connect", cmd'[c].mp = q,
           holds' = [holds EXCEPT ![q] = @ + 1]
    PROVE  HoldsAccounted' /\ holds' \in [Players -> Nat]
<1>1. \A p \in Players : ColdOn(c, p)' <=> p = q
  BY DEF ColdOn, Cold
<1>2. HoldsAccounted'
  BY <1>1, HoldTaken, OthersColdAsBefore
<1> QED BY <1>2 DEF ShapeOK, TypeOK

\* Every way in takes one hold, every way out gives one back.
LEMMA CommandKeepsHolds ==
    ASSUME ShapeOK, LinkOK, HeardKept, HoldsAccounted, NEW c \in Cmds, Invoke(c) \/ CommandNext(c)
    PROVE  /\ HoldsAccounted' /\ holds' \in [Players -> Nat]
           /\ gate' \in [Players -> BOOLEAN] /\ OpensFree
<1>0. MovesAlone(c) /\ cmd[c] \in Bound /\ gate \in [Players -> BOOLEAN] /\ holds \in [Players -> Nat]
  BY CommandMovesAlone DEF ShapeOK, TypeOK
<1>10. BoundOK /\ (Cold(c) => cmd[c].mp \in Players)
  BY LifecycleAssumption DEF LinkOK, BoundOK, ShapeOK, TypeOK, Players
<1>11. \A to \in Points :
        Goes(c, to) \/ GoesAwaiting(c, to) \/ (\E p : cmd' = [cmd EXCEPT ![c].at = to, ![c].waits = p]) =>
          cmd'[c].at = to /\ cmd'[c].mp = cmd[c].mp
  BY DEF Goes, GoesAwaiting, ShapeOK, Bound
<1>12. \A to \in Points, p \in Players : GoesWith(c, to, p) => cmd'[c].at = to /\ cmd'[c].mp = p
  BY DEF GoesWith, ShapeOK
<1>13. Returns(c) => cmd'[c].at = "finished"
  BY DEF Returns, Finished, ShapeOK
<1> USE <1>0
<1>1. CASE Invoke(c) \/ EnterPlay(c) \/ ResumeRebuilds(c) \/ JoinPersists(c)
  <2>1. PICK p \in Players : /\ GetPlayer(p)
                             /\ \/ Goes(c, "entered") /\ cmd[c].at = "idle" /\ UNCHANGED holds
                                \/ /\ cmd[c].at \in {"entered", "rebuilding"}
                                   /\ GoesWith(c, "restoring", p) /\ UNCHANGED holds
                                \/ /\ KindOf[c] = "play" /\ voice = NoVoice /\ cmd[c].at = "entered"
                                   /\ GoesWith(c, "connect", p) /\ holds' = [holds EXCEPT ![p] = @ + 1]
                                \/ /\ cmd[c].at = "persist" /\ UNCHANGED holds
                                   /\ cmd' = [cmd EXCEPT ![c].at = "open", ![c].waits = p]
    BY <1>1 DEF Invoke, EnterPlay, ResumeRebuilds, JoinPersists, CmdStep, CmdTurn
  <2>2. UNCHANGED <<down, pending, claimed, item, rows, heard>>
    BY <1>1 DEF Invoke, EnterPlay, ResumeRebuilds, JoinPersists, CmdStep, CmdTurn, ghostVars
  <2>3. /\ gate' \in [Players -> BOOLEAN]
        /\ \A q \in Players : ~gate[q] /\ gate'[q] => q > made /\ q = p /\ voice # NoVoice
    BY <2>1, <2>2, StartKeeps
  <2>4. HoldsAccounted' /\ holds' \in [Players -> Nat]
    <3>1. CASE UNCHANGED holds
      <4>1. \A q \in Players : ColdOn(c, q)' <=> ColdOn(c, q)
        BY <2>1, <3>1, <1>11, <1>12 DEF ColdOn, Cold, Points
      <4> QED BY <3>1, <4>1, Kept
    <3>2. CASE /\ KindOf[c] = "play" /\ cmd[c].at = "entered" /\ GoesWith(c, "connect", p)
               /\ holds' = [holds EXCEPT ![p] = @ + 1]
      BY <3>2, <1>12, Taken DEF Cold, Points
    <3> QED BY <2>1, <3>1, <3>2
  <2>5. OpensFree
    BY <2>1, <2>3, UnbornUnheld DEF OpensFree
  <2> QED BY <2>3, <2>4, <2>5
<1>2. CASE EnterOther(c) \/ StopReturns(c) \/ JoinConnects(c) \/ JoinHandshake(c) \/ PlayAppends(c)
  <2>1. UNCHANGED <<gate, holds>>
    BY <1>2 DEF EnterOther, StopReturns, JoinConnects, JoinHandshake, PlayAppends, cogVars
  <2>2. \A q \in Players : ColdOn(c, q)' <=> ColdOn(c, q)
    BY <1>2, <1>11, <1>13 DEF EnterOther, StopReturns, JoinConnects, JoinHandshake, PlayAppends, CmdStep,
       CmdTurn, ColdOn, Cold, Points
  <2> QED BY <2>1, <2>2, Kept DEF OpensFree
<1>3. CASE EnterStop(c)
  <2>1. UNCHANGED <<gate, holds>>
    BY <1>3 DEF EnterStop, cogVars
  <2>2. \A q \in Players : ColdOn(c, q)' <=> ColdOn(c, q)
    BY <1>3, <1>11, <1>13 DEF EnterStop, CmdStep, CmdTurn, CleanupStep, ColdOn, Cold, Points
  <2> QED BY <2>1, <2>2, Kept DEF OpensFree
<1>4. CASE EnterResume(c)
  <2>1. \A q \in Players : ColdOn(c, q)' <=> ColdOn(c, q)
    BY <1>4, <1>11, <1>13, <1>12 DEF EnterResume, CmdStep, CmdTurn, CleanupStep, ColdOn, Cold, Points
  <2>2. UNCHANGED holds
    BY <1>4 DEF EnterResume
  <2>3. CASE UNCHANGED gate
    BY <2>1, <2>2, <2>3, Kept DEF OpensFree
  <2>4. CASE /\ \E p \in Players : GetPlayer(p)
             /\ UNCHANGED <<down, pending, claimed, item, rows, heard>>
    BY <2>1, <2>2, <2>4, Kept, StartKeeps, UnbornUnheld DEF OpensFree
  <2> QED BY <1>4, <2>3, <2>4 DEF EnterResume, CmdStep, CmdTurn, cogVars, ghostVars
<1>5. CASE AfterRestore(c)
  <2>1. UNCHANGED gate /\ cmd[c].at = "restoring"
    BY <1>5 DEF AfterRestore, CmdStep, CmdFault, CmdTurn, cogVars
  <2>2. CASE UNCHANGED holds /\ (Returns(c) \/ Goes(c, "append"))
    <3>1. \A q \in Players : ColdOn(c, q)' <=> ColdOn(c, q)
      BY <2>1, <2>2, <1>11, <1>13 DEF ColdOn, Cold, Points
    <3> QED BY <2>1, <2>2, <3>1, Kept DEF OpensFree
  <2>3. CASE /\ KindOf[c] = "resume" /\ Goes(c, "connect")
             /\ holds' = [holds EXCEPT ![cmd[c].mp] = @ + 1]
    <3>1. cmd[c].mp \in Players
      BY <2>1, <1>10, LifecycleAssumption DEF BoundOK, ShapeOK, TypeOK, Players
    <3>2. HoldsAccounted' /\ holds' \in [Players -> Nat]
      BY <2>1, <2>3, <3>1, <1>11, Taken DEF Cold, Points
    <3> QED BY <2>1, <3>2 DEF OpensFree
  <2> QED BY <1>5, <2>2, <2>3 DEF AfterRestore
<1>6. CASE JoinOpens(c)
  <2>1. UNCHANGED holds /\ gate' = Opened(gate, cmd[c].waits) /\ cmd[c].at = "open" /\ Goes(c, "joined")
    BY <1>6 DEF JoinOpens, CmdStep, CmdTurn
  <2>2. \A q \in Players : ColdOn(c, q)' <=> ColdOn(c, q)
    BY <2>1, <1>11 DEF ColdOn, Cold, Points
  <2>3. gate' \in [Players -> BOOLEAN] /\ OpensFree
    BY <2>1 DEF Opened, OpensFree
  <2> QED BY <2>1, <2>2, <2>3, Kept
<1>7. CASE JoinReturns(c)
  <2>1. CASE /\ UNCHANGED <<gate, holds>>
             /\ \/ KindOf[c] = "join" /\ Returns(c)
                \/ KindOf[c] = "play" /\ Goes(c, "insert")
    <3>1. \A q \in Players : ColdOn(c, q)' <=> ColdOn(c, q)
      BY <1>7, <2>1, <1>11, <1>13 DEF JoinReturns, CmdStep, CmdTurn, ColdOn, Cold, Points
    <3> QED BY <2>1, <3>1, Kept DEF OpensFree
  <2>2. CASE KindOf[c] = "resume" /\ Returns(c) /\ ReleaseHold(cmd[c].mp)
    <3>1. Cold(c)
      BY <1>7, <2>2 DEF JoinReturns, CmdStep, CmdTurn, Cold
    <3> QED BY <2>2, <3>1, <1>10, Released DEF ColdOn
  <2> QED BY <1>7, <2>1, <2>2 DEF JoinReturns
<1>8. CASE Abandon(c)
  <2>1. Cold(c)
    BY <1>8 DEF Abandon, ColdStartFails, Cold
  <2>2. CASE Returns(c) /\ ReleaseHold(cmd[c].mp)
    BY <2>1, <2>2, <1>10, Released DEF ColdOn
  <2>3. CASE GoesAwaiting(c, "abandoning") /\ UNCHANGED <<gate, holds>>
    <3>1. \A q \in Players : ColdOn(c, q)' <=> ColdOn(c, q)
      BY <2>1, <2>3, <1>11 DEF ColdOn, Cold, Points
    <3> QED BY <2>3, <3>1, Kept DEF OpensFree
  <2> QED BY <1>8, <2>2, <2>3 DEF Abandon
<1>9. CASE AbandonEnds(c) \/ PlayInserts(c)
  <2>1. Cold(c) /\ Returns(c) /\ ReleaseHold(cmd[c].mp)
    BY <1>9 DEF AbandonEnds, PlayInserts, CmdStep, CmdTurn, Cold
  <2> QED BY <2>1, <1>10, Released DEF ColdOn
<1> QED BY <1>1, <1>2, <1>3, <1>4, <1>5, <1>6, <1>7, <1>8, <1>9 DEF CommandNext

LEMMA QueueBecomes ==
    ASSUME ShapeOK, NEW p \in Players, NEW q \in Seq(Item),
           queue' \in {queue, [queue EXCEPT ![p] = q]}
    PROVE  queue' \in [Players -> Seq(Item)]
BY DEF ShapeOK, TypeOK

\* The queue in memory and in Redis, and what else a command may change.
LEMMA CommandKeepsTypes ==
    ASSUME ShapeOK, LinkOK, NEW c \in Cmds, Invoke(c) \/ CommandNext(c)
    PROVE  /\ queue' \in [Players -> Seq(Item)]
           /\ list' \in Seq(Songs)
           /\ parked' \in Songs \cup {NoSong}
           /\ voice' \in [by : Cmds \cup Recoveries \cup {NoOne}, up : BOOLEAN]
           /\ faults' \in Nat
<1> USE DEF CmdStep, CmdFault, CmdTurn, CleanupStep
<1>1. CASE AbandonEnds(c) \/ PlayInserts(c) \/ PlayAppends(c)
  <2>1. UNCHANGED <<voice, faults>> /\ cmd[c].mp \in Players
    BY <1>1, LifecycleAssumption DEF AbandonEnds, PlayInserts, PlayAppends, Cold, LinkOK, BoundOK,
       Players, ShapeOK, TypeOK
  <2> DEFINE p == cmd[c].mp
  <2>2. SongOf[c] \in Songs /\ Requested(c) \in Item /\ queue[p] \in Seq(Item) /\ list \in Seq(Songs)
    BY <2>1, LifecycleAssumption DEF Requested, Item, ShapeOK, TypeOK
  <2>3. CASE AbandonEnds(c)
    <3>1. UnlistedHead(p) => Head(queue[p]).song \in Songs
      <4>1. UnlistedHead(p) => Head(queue[p]) \in Item
        BY <2>2, HeadTailProperties DEF UnlistedHead
      <4> QED BY <4>1 DEF Item
    <3>2. parked' \in Songs \cup {NoSong}
      BY <2>3, <3>1 DEF AbandonEnds, SetCurrentSongState, ShapeOK, TypeOK
    <3>3. queue' \in {queue, [queue EXCEPT ![p] = <<>>]} /\ UNCHANGED list
      BY <2>3 DEF AbandonEnds
    <3>4. queue' \in [Players -> Seq(Item)]
      <4>1. <<>> \in Seq(Item)
        OBVIOUS
      <4> QED BY <2>1, <3>3, <4>1, QueueBecomes
    <3> QED BY <2>1, <2>2, <3>2, <3>3, <3>4 DEF ShapeOK, TypeOK
  <2>4. CASE PlayInserts(c)
    <3>1. <<Requested(c)>> \o queue[p] \in Seq(Item) /\ <<SongOf[c]>> \o list \in Seq(Songs)
      BY <2>2
    <3>2. /\ queue' \in {queue, [queue EXCEPT ![p] = <<Requested(c)>> \o queue[p]]}
          /\ list' = <<SongOf[c]>> \o list /\ UNCHANGED parked
      BY <2>4 DEF PlayInserts, Enqueue
    <3>3. queue' \in [Players -> Seq(Item)]
      BY <2>1, <3>1, <3>2, QueueBecomes
    <3> QED BY <2>1, <2>2, <3>1, <3>2, <3>3 DEF ShapeOK, TypeOK
  <2>5. CASE PlayAppends(c)
    <3>1. Append(queue[p], Requested(c)) \in Seq(Item) /\ Append(list, SongOf[c]) \in Seq(Songs)
      BY <2>2
    <3>2. /\ queue' \in {queue, [queue EXCEPT ![p] = Append(queue[p], Requested(c))]}
          /\ list' \in {list, Append(list, SongOf[c])} /\ UNCHANGED parked
      BY <2>5 DEF PlayAppends, Enqueue
    <3>3. queue' \in [Players -> Seq(Item)]
      BY <2>1, <3>1, <3>2, QueueBecomes
    <3> QED BY <2>1, <2>2, <3>1, <3>2, <3>3 DEF ShapeOK, TypeOK
  <2> QED BY <1>1, <2>3, <2>4, <2>5
<1>2. CASE ~(AbandonEnds(c) \/ PlayInserts(c) \/ PlayAppends(c))
  <2>1. UNCHANGED <<queue, list, parked>>
    BY <1>2 DEF Invoke, CommandNext, EnterOther, EnterStop, StopReturns, EnterPlay, EnterResume,
       ResumeRebuilds, AfterRestore, JoinConnects, JoinHandshake, JoinPersists, JoinOpens, JoinReturns,
       Abandon, redisVars
  <2>2. faults' \in Nat
    BY <1>2 DEF Invoke, CommandNext, EnterOther, EnterStop, StopReturns, EnterPlay, EnterResume,
       ResumeRebuilds, AfterRestore, JoinConnects, JoinHandshake, JoinPersists, JoinOpens, JoinReturns,
       Abandon, ColdStartFails, HandshakeSucceeds, HandshakeFails, Fault, ShapeOK, TypeOK
  <2>3. voice' \in {voice, NoVoice, Connecting(c), [voice EXCEPT !.up = TRUE]}
    BY <1>2 DEF Invoke, CommandNext, EnterOther, EnterStop, StopReturns, EnterPlay, EnterResume,
       ResumeRebuilds, AfterRestore, JoinConnects, JoinHandshake, JoinPersists, JoinOpens, JoinReturns,
       Abandon, ColdStartFails, HandshakeSucceeds, HandshakeFails
  <2>4. /\ NoVoice \in [by : Cmds \cup Recoveries \cup {NoOne}, up : BOOLEAN]
        /\ Connecting(c) \in [by : Cmds \cup Recoveries \cup {NoOne}, up : BOOLEAN]
    BY DEF NoVoice, Connecting
  <2> QED BY <2>1, <2>2, <2>3, <2>4 DEF ShapeOK, TypeOK
<1> QED BY <1>1, <1>2

LEMMA CommandKeeps ==
    ASSUME LifeInv, NEW c \in Cmds, Invoke(c) \/ CommandNext(c)
    PROVE  LifeInv' /\ OpensFree
<1>1. made' \in 0 .. MaxPlayers
  BY CommandKeepsRest, LifecycleAssumption DEF LifeInv, ShapeOK, TypeOK
<1>2. cmd' \in [Cmds -> Bound] /\ BoundOK'
  BY CommandMovesAlone DEF LifeInv, MovesAlone
<1>3. ShapeOK'
  BY <1>1, <1>2, CommandKeepsRest, CommandKeepsTypes, CommandKeepsHolds DEF LifeInv, ShapeOK, TypeOK
<1>4. LinkOK'
  BY <1>2, CommandKeepsRest DEF LifeInv, LinkOK
<1>5. UNCHANGED <<source, item>>
  BY CommandKeepsRest DEF LifeInv
<1>6. SourceOK'
  BY <1>5, CommandForms, SourceStands DEF CommandDoes, LifeInv
<1> QED BY <1>3, <1>4, <1>6, CommandKeepsRest, CommandKeepsHolds DEF LifeInv

-----------------------------------------------------------------------------
(* The theorems.                                                           *)

LEMMA LifeInitially ==
    ASSUME LifecycleInit
    PROVE  LifeInv
<1> USE LifecycleAssumption DEF LifecycleInit
<1>1. PICK s \in Stored : list = s.list /\ parked = s.parked
  OBVIOUS
<1>2. list \in Seq(Songs) /\ parked \in Songs \cup {NoSong}
  BY <1>1
<1>3. faults \in Nat
  OBVIOUS
<1>4. \A c \in Cmds : cmd[c] \in {Idle, Finished}
  OBVIOUS
<1>5. Idle \in Bound /\ Finished \in Bound /\ NothingRead \in [list : Seq(Songs), parked : Songs \cup {NoSong}]
      /\ NoVoice \in [by : Cmds \cup Recoveries \cup {NoOne}, up : BOOLEAN]
  BY DEF Idle, Finished, Bound, Points, NothingRead, NoVoice
<1>6. cmd \in [Cmds -> Bound]
  BY <1>5
<1>7. ShapeOK
  BY <1>2, <1>3, <1>5, <1>6 DEF ShapeOK, TypeOK, LoopPoints, NoSource
<1>8. \A c \in Cmds : ~Cold(c) /\ cmd[c].at \notin {"restoring", "append"}
  BY <1>4 DEF Cold, Idle, Finished
<1>9. LinkOK
  BY <1>8 DEF LinkOK, BoundOK, RegisteredOK, UnbornOK, HandOK, UpOK
<1>10. HoldsAccounted
  <2>1. \A p \in Players : {c \in Cmds : Cold(c) /\ cmd[c].mp = p} = {}
    BY <1>8
  <2> QED BY <2>1, FS_EmptySet DEF HoldsAccounted
<1>11. SourceOK
  BY DEF SourceOK, NoSource, NoPlayer, Players
<1> QED BY <1>7, <1>9, <1>10, <1>11 DEF LifeInv, HeardKept

\* The steps of the restore, of a teardown and of whoever else is not a command.
LEMMA SourceKept ==
    ASSUME ShapeOK, LinkOK, SourceOK,
           \/ \E p \in Players : RestoreNext(p) \/ TeardownNext(p) \/ StopTask(p)
           \/ Eject \/ EjectHandler \/ \E r \in Recoveries : RecoveryNext(r)
    PROVE  SourceOK'
<1>1. CASE \E p \in Players : RestoreNext(p)
  <2>1. UNCHANGED <<source, item, loop, down>>
    BY <1>1 DEF RestoreNext, RestoreReads, RestoreApplies, voiceVars, teardownVars
  <2> QED BY <2>1, SourceStands
<1>2. CASE \E p \in Players : TeardownCancels(p)
  <2>1. PICK p \in Players : TeardownCancels(p)
    BY <1>2
  <2>2. UNCHANGED source /\ down'[p] # "up"
        /\ \A q \in Players \ {p} : down'[q] = down[q] /\ loop'[q] = loop[q] /\ item'[q] = item[q]
    BY <2>1 DEF TeardownCancels, TeardownStep, voiceVars, ShapeOK, TypeOK
  <2> QED BY <2>2 DEF SourceOK
<1>3. CASE (\E p \in Players : TeardownDisconnects(p)) \/ Eject
  <2>1. source' = NoSource
    BY <1>3 DEF TeardownDisconnects, Eject
  <2> QED BY <2>1 DEF SourceOK, NoSource, NoPlayer, Players
<1>4. CASE \E p \in Players : TeardownRecords(p)
  <2>1. PICK p \in Players : TeardownRecords(p)
    BY <1>4
  <2>2. UNCHANGED <<source, item, loop>> /\ down'[p] # "up"
        /\ \A q \in Players \ {p} : down'[q] = down[q]
    BY <2>1 DEF TeardownRecords, TeardownStep, voiceVars, loopVars, ShapeOK, TypeOK
  <2> QED BY <2>2, SourceStays
<1>5. CASE (\E p \in Players : StopTask(p)) \/ EjectHandler
  <2>1. Cleanup /\ UNCHANGED <<source, item, loop>>
    BY <1>5 DEF StopTask, EjectHandler, voiceVars
  <2> QED BY <2>1, SourceStands
<1>6. CASE \E r \in Recoveries : RecoveryNext(r)
  <2>1. PICK r \in Recoveries : RecoveryNext(r)
    BY <1>6
  <2>2. UNCHANGED <<source, item, down>>
    BY <2>1 DEF RecoveryNext, RecoveryBegins, RecoveryConnects, RecoveryHandshake, RecoveryRegisters,
       RecoveryStep, loopVars, teardownVars
  <2>3. UNCHANGED loop \/ \E p \in Players : Start(p)
    BY <2>1 DEF RecoveryNext, RecoveryBegins, RecoveryConnects, RecoveryHandshake, RecoveryRegisters,
       cogVars
  <2> QED BY <2>2, <2>3, SourceStands
<1> QED BY <1>1, <1>2, <1>3, <1>4, <1>5, <1>6 DEF TeardownNext

\* A step keeps the invariant, and a gate that opens in it is held by nobody after it.
LEMMA LifeStep ==
    ASSUME LifeInv, [LifecycleNext]_vars
    PROVE  LifeInv' /\ OpensFree
<1>1. CASE \E p \in Players : LoopNext(p)
  <2>1. PICK p \in Players : LoopNext(p)
    BY <1>1
  <2>2. UNCHANGED <<gate, holds, cmd>>
    BY <2>1 DEF LoopNext, LoopPassesGate, GateTimerFires, GateHandler, LoopTakes, LoopIdlesOut,
       LoopPlays, LoopRaises, LoopSongEnds, LoopRecords, LoopRowLands, LoopForgets,
       LoopStep, LoopTurn, LoopMoves, taskVars
  <2> QED BY <2>1, <2>2, LoopKeepsShape, LoopKeepsLinks, LoopKeepsHeard, LoopKeepsSource DEF LifeInv, LinkOK,
          HoldsAccounted, Cold, OpensFree
<1>2. CASE \E p \in Players : RestoreNext(p)
  <2>1. PICK p \in Players : RestoreNext(p)
    BY <1>2
  <2>2. UNCHANGED <<gate, holds, cmd>>
    BY <2>1 DEF RestoreNext, RestoreReads, RestoreApplies, taskVars
  <2> QED BY <2>1, <2>2, RestoreKeeps, SourceKept DEF LifeInv, HoldsAccounted, Cold, OpensFree
<1>3. CASE \E p \in Players : TeardownNext(p)
  <2>1. PICK p \in Players : TeardownNext(p)
    BY <1>3
  <2>2. UNCHANGED <<holds, cmd>> /\ \A q \in Players : gate'[q] => gate[q]
    BY <2>1 DEF TeardownNext, TeardownCancels, TeardownDisconnects, TeardownRecords, TeardownStep,
       taskVars, LifeInv, ShapeOK, TypeOK
  <2> QED BY <2>1, <2>2, TeardownKeeps, SourceKept DEF LifeInv, HoldsAccounted, Cold, OpensFree
<1>4. CASE (\E p \in Players : StopTask(p)) \/ Eject \/ EjectHandler
  BY <1>4, OthersKeep, SourceKept DEF LifeInv, HoldsAccounted, Cold, OpensFree
<1>5. CASE \E c \in Cmds : Invoke(c) \/ CommandNext(c)
  BY <1>5, CommandKeeps
<1>6. CASE \E r \in Recoveries : RecoveryNext(r)
  BY <1>6, RecoveryKeeps, SourceKept, UnbornUnheld DEF LifeInv, HoldsAccounted, Cold, OpensFree
<1>7. CASE UNCHANGED vars
  <2>1. UNCHANGED <<mps, made, gate, restore, loop, holds, queue, item, claimed, stopTask, snapshot,
                    down, pending, voice, ejected, source, list, parked, connection, cmd, recovery,
                    lock, rows, heard, late, faults>>
    BY <1>7 DEF vars, cogVars, loopVars, teardownVars, voiceVars, redisVars, taskVars, ghostVars
  <2>2. ShapeOK'
    BY <2>1 DEF LifeInv, ShapeOK, TypeOK
  <2>3. LinkOK'
    BY <2>1 DEF LifeInv, LinkOK, BoundOK, Cold, RegisteredOK, UnbornOK, HandOK, UpOK
  <2>4. HoldsAccounted' /\ HeardKept' /\ SourceOK' /\ OpensFree
    BY <2>1 DEF LifeInv, HoldsAccounted, Cold, HeardKept, ToRecord, SourceOK, OpensFree
  <2> QED BY <2>2, <2>3, <2>4 DEF LifeInv
<1>8. CASE \E p \in Players : VoiceNext(p)
  BY <1>8, VoiceKeeps DEF LifeInv, HoldsAccounted, Cold, OpensFree
<1> QED BY <1>1, <1>2, <1>3, <1>4, <1>5, <1>6, <1>7, <1>8 DEF LifecycleNext

LEMMA LifeInvariant == LifecycleSpec => []LifeInv
BY LifeInitially, LifeStep, PTL DEF LifecycleSpec

\* The guild's players, commands, recovery tasks, voice client and Redis entries keep
\* their types.
THEOREM LifecycleTypeCorrect == LifecycleSpec => []TypeOK
<1>1. LifeInv => TypeOK
  BY DEF LifeInv, ShapeOK
<1> QED BY <1>1, LifeInvariant, PTL

\* defer_playback(): on every way out of a cold -play or -resume, abandoned ones
\* included, a player has as many holds as commands that are inside the block.
THEOREM HoldsCounted == LifecycleSpec => []HoldsAccounted
<1>1. LifeInv => HoldsAccounted
  BY DEF LifeInv
<1> QED BY <1>1, LifeInvariant, PTL

\* open_playback_gate(): however many commands join, resume and abandon at once, a gate
\* does not open while a command holds it.
THEOREM GateHeldShut == LifecycleSpec => GateRespectsHolds
<1>1. LifeInv' /\ OpensFree =>
        \A p \in Players, c \in Cmds : ~gate[p] /\ gate'[p] => ~(Cold(c) /\ cmd[c].mp = p)'
  <2> SUFFICES ASSUME LifeInv', OpensFree, NEW p \in Players, NEW c \in Cmds, ~gate[p], gate'[p],
                      ColdOn(c, p)'
               PROVE  FALSE
    BY DEF ColdOn
  <2> DEFINE S == {d \in Cmds : ColdOn(d, p)'}
  <2>1. IsFiniteSet(S) /\ Cardinality(S) = 0
    BY FS_Subset, LifecycleAssumption DEF LifeInv, HoldsAccounted, ColdOn, OpensFree
  <2> QED BY <2>1, FS_EmptySet
<1>2. LifeInv /\ [LifecycleNext]_vars =>
        [\A p \in Players, c \in Cmds : ~gate[p] /\ gate'[p] => ~(Cold(c) /\ cmd[c].mp = p)']_vars
  BY <1>1, LifeStep
<1> QED BY <1>2, LifeInvariant, PTL DEF LifecycleSpec, GateRespectsHolds

\* claim_current_song_for_history() and the loop's own history.add(): whichever of stop,
\* ejection, time-out and song end comes first, and at any await, a play somebody heard
\* before a teardown's claim is in the history or in the hands of whoever will write it.
THEOREM HeardReachesHistory == LifecycleSpec => []HeardIsRecorded
<1>1. LifeInv => HeardIsRecorded
  BY DEF LifeInv, HeardKept, ToRecord, HeardIsRecorded, Recorded
<1> QED BY <1>1, LifeInvariant, PTL
=============================================================================
