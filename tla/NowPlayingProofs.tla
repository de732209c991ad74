-------------------------- MODULE NowPlayingProofs --------------------------
(***************************************************************************)
(* The Now Playing block, for any number of songs, messages, repliers and      *)
(* refused requests: NPTypeOK, BarsAccounted, SkipsOnlyTheSame, NoResurrection    *)
(* and BlockMovesDown, all from the inductive invariant NPInv.                 *)
(*                                                                         *)
(* The argument: a message is known once its send is over, and everything that   *)
(* points at a message (the host, the cache, a job in line) points at a known    *)
(* one; so a send that returns brings a message nobody has touched.  No last      *)
(* edit or strip in line is for the host, so what is about to go dark is never   *)
(* lit: a tick writes to the host, and the one request in flight was written     *)
(* for a message that had not been darkened.                                *)
(***************************************************************************)
EXTENDS NowPlayingHost, SequenceTheorems, TLAPS

\* A message that went out and whose send is over.
Known(m) == m \in 1 .. sent /\ \A r \in Senders : sending[r].msg # m
KnownOK ==
    /\ host # None => Known(host)
    /\ cache.msg # None => Known(cache.msg)
    /\ tailCard # None => Known(tailCard)

\* What a send under way sends: a live bar of the song it was built for, to a message
\* nobody else sends.
SendOK ==
    /\ \A r \in Senders :
         \/ sending[r] = NoSend
         \/ /\ sending[r].msg \in 1 .. sent
            /\ sending[r].song \in Songs
            /\ builtFor[sending[r].msg] = sending[r].song
            /\ shows[sending[r].msg].live
    /\ \A r, q \in Senders : r # q /\ sending[r].msg # None => sending[r].msg # sending[q].msg
    /\ sending["loop"] # NoSend <=> point = "sending"

\* The loop has a song from vc.play() to its end, and its card is of that song.
PointOK ==
    /\ point = "idle" => song = None
    /\ point = "sending" => sending["loop"].song = song
    /\ point \in {"starting", "sending", "playing", "ended"} => song # None

\* The host has a live bar of the current song, and nobody is about to take it down.
HostOK == host # None => song # None /\ builtFor[host] = song /\ shows[host].live /\ tailCard # host
JobsOK ==
    \A i \in 1 .. Len(line) :
        /\ line[i].msg # None => Known(line[i].msg)
        /\ line[i].kind \in {"final", "strip"} => line[i].msg \notin {None, host}

\* Only the holder of the lock has a request out, and a live bar is written over one.
LockOK ==
    /\ \A i \in 2 .. Len(line) : ~line[i].patching
    /\ line # <<>> /\ line[1].patching =>
         line[1].msg # None /\ (line[1].kind \in {"tick", "edit"} => shows[line[1].msg].live)

\* What was pushed last is on the message, but for a tick cancelled in flight, and a last
\* bar stays one.
CacheOK ==
    /\ cache.msg # None /\ ~cache.bar.live => ~shows[cache.msg].live
    /\ cache.msg = host /\ host # None /\ point \notin {"ended", "halting"} => shows[host] = cache.bar

Parts == KnownOK /\ SendOK /\ PointOK /\ HostOK /\ JobsOK /\ LockOK /\ CacheOK /\ BarsAccounted
NPInv == NPTypeOK /\ Parts

\* The two action properties, as what one step does.
NoneRelit == \A m \in 1 .. sent : ~shows[m].live => ~shows'[m].live
OnlyDown == host # None /\ host' # None => host' >= host

-----------------------------------------------------------------------------
(* The line of the edit lock.                                              *)

\* A step's new jobs queue up behind: a job of the line after it was in the line before,
\* no nearer to its head, or is new.
LineStep(new) ==
    /\ line' \in Seq(Jobs)
    /\ \A k \in 1 .. Len(line') :
         \/ \E n \in 1 .. Len(line) : line'[k] = line[n] /\ (k = 1 \/ n > 1)
         \/ line'[k] \in new

\* A final edit or a strip that waits is not lost in the step, but for the head's.
LineKept(from) ==
    \A n \in from .. Len(line) :
        line[n].kind \in {"final", "strip"} => \E k \in 1 .. Len(line') : line'[k] = line[n]

LEMMA LineStays ==
    ASSUME NPTypeOK, UNCHANGED line
    PROVE  LineStep({}) /\ LineKept(1)
BY DEF LineStep, LineKept, NPTypeOK

LEMMA LineGrows ==
    ASSUME NPTypeOK, NEW new, NEW u \in Seq(Jobs), line' = line \o u,
           \A i \in 1 .. Len(u) : u[i] \in new
    PROVE  /\ LineStep(new) /\ LineKept(1)
           /\ \A i \in 1 .. Len(u) : \E k \in 1 .. Len(line') : line'[k] = u[i]
<1>1. line \in Seq(Jobs) /\ Len(line) \in Nat /\ Len(u) \in Nat
  BY DEF NPTypeOK
<1>2. /\ line' \in Seq(Jobs) /\ Len(line') = Len(line) + Len(u)
      /\ \A k \in 1 .. Len(line') : line'[k] = IF k <= Len(line) THEN line[k] ELSE u[k - Len(line)]
  BY <1>1, ConcatProperties
<1>3. LineStep(new)
  BY <1>1, <1>2 DEF LineStep
<1>4. LineKept(1)
  BY <1>1, <1>2 DEF LineKept
<1>5. ASSUME NEW i \in 1 .. Len(u) PROVE \E k \in 1 .. Len(line') : line'[k] = u[i]
  <2>1. Len(line) + i \in 1 .. Len(line') /\ line'[Len(line) + i] = u[i]
    BY <1>1, <1>2
  <2> QED BY <2>1
<1> QED BY <1>3, <1>4, <1>5

LEMMA LinePasses ==
    ASSUME NPTypeOK, line # <<>>, line' = Tail(line)
    PROVE  LineStep({}) /\ LineKept(2) /\ (LockOK => \A k \in 1 .. Len(line') : ~line'[k].patching)
<1>1. line \in Seq(Jobs) /\ Len(line) \in Nat \ {0}
  BY EmptySeq DEF NPTypeOK
<1>2. /\ line' \in Seq(Jobs) /\ Len(line') = Len(line) - 1
      /\ \A k \in 1 .. Len(line') : line'[k] = line[k + 1]
  BY <1>1, HeadTailProperties
<1>3. LineStep({})
  BY <1>1, <1>2 DEF LineStep
<1>4. ASSUME NEW n \in 2 .. Len(line) PROVE \E k \in 1 .. Len(line') : line'[k] = line[n]
  <2>1. n - 1 \in 1 .. Len(line') /\ line'[n - 1] = line[n]
    BY <1>1, <1>2
  <2> QED BY <2>1
<1>5. LockOK => \A k \in 1 .. Len(line') : ~line'[k].patching
  BY <1>1, <1>2 DEF LockOK
<1> QED BY <1>3, <1>4, <1>5 DEF LineKept

\* cancel_task(): the tick leaves, at its place.
LEMMA TickOut ==
    ASSUME NPTypeOK, line' = TickLeaves
    PROVE  LineStep({}) /\ LineKept(1)
<1>1. line \in Seq(Jobs) /\ Len(line) \in Nat
  BY DEF NPTypeOK
<1> DEFINE ticks == {i \in 1 .. Len(line) : line[i].kind = "tick"}
           t == CHOOSE i \in ticks : TRUE
<1>2. CASE ticks = {}
  BY <1>2, LineStays DEF TickLeaves
<1>3. CASE ticks # {}
  <2>1. t \in 1 .. Len(line) /\ line[t].kind = "tick"
    BY <1>3
  <2> HIDE DEF t
  <2>2. line' = SubSeq(line, 1, t - 1) \o SubSeq(line, t + 1, Len(line))
    BY <1>3 DEF TickLeaves, RemoveAt, t
  <2>3. /\ SubSeq(line, 1, t - 1) \in Seq(Jobs) /\ Len(SubSeq(line, 1, t - 1)) = t - 1
        /\ \A k \in 1 .. t - 1 : SubSeq(line, 1, t - 1)[k] = line[k]
    BY <1>1, <2>1, SubSeqProperties
  <2>4. /\ SubSeq(line, t + 1, Len(line)) \in Seq(Jobs)
        /\ Len(SubSeq(line, t + 1, Len(line))) = Len(line) - t
        /\ \A k \in 1 .. Len(line) - t : SubSeq(line, t + 1, Len(line))[k] = line[t + k]
    <3>1. t + 1 \in Int /\ Len(line) \in Int /\ \A i \in t + 1 .. Len(line) : line[i] \in Jobs
      BY <1>1, <2>1
    <3>2. /\ SubSeq(line, t + 1, Len(line)) \in Seq(Jobs)
          /\ Len(SubSeq(line, t + 1, Len(line))) = IF t + 1 <= Len(line) THEN Len(line) - (t + 1) + 1 ELSE 0
          /\ \A k \in 1 .. Len(line) - (t + 1) + 1 :
               SubSeq(line, t + 1, Len(line))[k] = line[t + 1 + k - 1]
      BY <3>1, SubSeqProperties
    <3>3. \A k \in 1 .. Len(line) - t : line[t + 1 + k - 1] = line[t + k]
      BY <1>1, <2>1
    <3> QED BY <1>1, <2>1, <3>2, <3>3
  <2>5. /\ line' \in Seq(Jobs) /\ Len(line') = Len(line) - 1
        /\ \A k \in 1 .. Len(line') : line'[k] = IF k < t THEN line[k] ELSE line[k + 1]
    <3> DEFINE a == SubSeq(line, 1, t - 1)
               b == SubSeq(line, t + 1, Len(line))
    <3>1. /\ a \o b \in Seq(Jobs) /\ Len(a \o b) = Len(a) + Len(b)
          /\ \A k \in 1 .. Len(a) + Len(b) : (a \o b)[k] = IF k <= Len(a) THEN a[k] ELSE b[k - Len(a)]
      BY <2>3, <2>4, ConcatProperties
    <3>2. \A k \in t .. Len(line) - 1 : b[k - (t - 1)] = line[k + 1]
      BY <1>1, <2>1, <2>4
    <3>3. line' = a \o b /\ Len(a) = t - 1 /\ Len(b) = Len(line) - t /\ \A k \in 1 .. t - 1 : a[k] = line[k]
      BY <2>2, <2>3, <2>4
    <3> HIDE DEF a, b
    <3>4. Len(line') = Len(line) - 1
      BY <1>1, <2>1, <3>1, <3>3
    <3>5. ASSUME NEW k \in 1 .. Len(line') PROVE line'[k] = IF k < t THEN line[k] ELSE line[k + 1]
      <4>1. CASE k < t
        BY <1>1, <2>1, <3>1, <3>3, <3>4, <4>1
      <4>2. CASE ~(k < t)
        <5>1. k \in t .. Len(line) - 1 /\ k \in 1 .. Len(a) + Len(b) /\ ~(k <= Len(a))
          BY <1>1, <2>1, <3>3, <3>4, <4>2
        <5>2. line'[k] = b[k - (t - 1)]
          BY <3>1, <3>3, <5>1
        <5> QED BY <3>2, <4>2, <5>1, <5>2
      <4> QED BY <4>1, <4>2
    <3> QED BY <3>1, <3>3, <3>4, <3>5
  <2>6. LineStep({})
    BY <1>1, <2>1, <2>5 DEF LineStep
  <2>7. ASSUME NEW n \in 1 .. Len(line), line[n].kind \in {"final", "strip"}
        PROVE  \E k \in 1 .. Len(line') : line'[k] = line[n]
    <3>1. CASE n < t
      BY <1>1, <2>1, <2>5, <3>1
    <3>2. CASE n > t
      <4>1. n - 1 \in 1 .. Len(line') /\ line'[n - 1] = line[n]
        BY <1>1, <2>1, <2>5, <3>2
      <4> QED BY <4>1
    <3> QED BY <1>1, <2>1, <2>7, <3>1, <3>2
  <2> QED BY <2>6, <2>7 DEF LineKept
<1> QED BY <1>2, <1>3

\* What each of the line's changes is: the head passes the lock on, a job queues up, a
\* message that sheds its block is stripped.
LEMMA LineQueues ==
    ASSUME NPTypeOK, NEW j \in Jobs, line' = Append(line, j)
    PROVE  /\ LineStep({j}) /\ LineKept(1)
           /\ \E k \in 1 .. Len(line') : line'[k] = j
<1>1. line' = line \o <<j>> /\ <<j>> \in Seq(Jobs) /\ Len(<<j>>) = 1 /\ <<j>>[1] = j
  BY DEF NPTypeOK
<1>2. 1 \in 1 .. Len(<<j>>) /\ \A i \in 1 .. Len(<<j>>) : <<j>>[i] \in {j}
  BY <1>1
<1> HIDE DEF Jobs
<1> QED BY <1>1, <1>2, LineGrows

LEMMA LineStrips ==
    ASSUME NPTypeOK, NEW m \in Messages \cup {None}, line' = line \o Strips(m)
    PROVE  /\ LineStep({Job("strip", m, None)} \cap {j \in Jobs : j.msg # None})
           /\ LineKept(1)
           /\ m # None /\ m \notin dedicated =>
                \E k \in 1 .. Len(line') : line'[k] = Job("strip", m, None)
<1>1. Job("strip", m, None) \in Jobs /\ Job("strip", m, None).msg = m
  BY DEF Job, Jobs
<1>2. CASE m = None \/ m \in dedicated
  <2>1. line' = line
    BY <1>2 DEF Strips, NPTypeOK
  <2> QED BY <1>2, <2>1, LineStays DEF LineStep
<1>3. CASE ~(m = None \/ m \in dedicated)
  <2>1. line' = Append(line, Job("strip", m, None))
    BY <1>3 DEF Strips, NPTypeOK
  <2> QED BY <1>1, <1>3, <2>1, LineQueues DEF LineStep
<1> QED BY <1>2, <1>3

\* Two messages shed theirs.
LEMMA LineStripsTwo ==
    ASSUME NPTypeOK, NEW m \in Messages \cup {None}, NEW n \in Messages \cup {None},
           line' = line \o Strips(m) \o Strips(n)
    PROVE  /\ LineStep({Job("strip", m, None), Job("strip", n, None)} \cap {j \in Jobs : j.msg # None})
           /\ LineKept(1)
           /\ \A x \in {m, n} : x # None /\ x \notin dedicated =>
                \E k \in 1 .. Len(line') : line'[k] = Job("strip", x, None)
<1> DEFINE new == {Job("strip", m, None), Job("strip", n, None)} \cap {j \in Jobs : j.msg # None}
           u == Strips(m) \o Strips(n)
<1>1. \A x \in {m, n} : Job("strip", x, None) \in Jobs /\ Job("strip", x, None).msg = x
  BY DEF Job, Jobs
<1>2. \A x \in {m, n} : Strips(x) = <<>> \/ (x # None /\ Strips(x) = <<Job("strip", x, None)>>)
  BY DEF Strips
<1>3. \A x \in {m, n} : Strips(x) \in Seq(new)
  <2> SUFFICES ASSUME NEW x \in {m, n} PROVE Strips(x) \in Seq(new)
    OBVIOUS
  <2>1. x # None => Job("strip", x, None) \in new
    BY <1>1
  <2> HIDE DEF new
  <2>2. CASE Strips(x) = <<>>
    BY <2>2
  <2>3. CASE x # None /\ Strips(x) = <<Job("strip", x, None)>>
    <3>1. \A j \in new : <<j>> \in Seq(new)
      OBVIOUS
    <3> QED BY <2>1, <2>3, <3>1
  <2> QED BY <1>2, <2>2, <2>3
<1>4. new \subseteq Jobs
  OBVIOUS
<1> HIDE DEF new
<1>5. u \in Seq(new) /\ Strips(m) \in Seq(Jobs) /\ Strips(n) \in Seq(Jobs) /\ u \in Seq(Jobs)
  BY <1>3, <1>4, SeqMonotonic
<1>6. \A i \in 1 .. Len(u) : u[i] \in new
  BY <1>5, ElementOfSeq
<1>7. line' = line \o u
  BY <1>5, ConcatAssociative DEF NPTypeOK
<1>8. ASSUME NEW x \in {m, n}, x # None, x \notin dedicated
      PROVE  \E i \in 1 .. Len(u) : u[i] = Job("strip", x, None)
  <2>1. Strips(x) = <<Job("strip", x, None)>>
    BY <1>8 DEF Strips
  <2> DEFINE a == Strips(m)
             b == Strips(n)
  <2>2. /\ Len(u) = Len(a) + Len(b) /\ Len(a) \in Nat /\ Len(b) \in Nat
        /\ \A i \in 1 .. Len(a) + Len(b) : u[i] = IF i <= Len(a) THEN a[i] ELSE b[i - Len(a)]
    BY <1>5, ConcatProperties
  <2> HIDE DEF u
  <2>3. CASE x = m
    <3>1. Len(a) = 1 /\ a[1] = Job("strip", x, None)
      BY <2>1, <2>3
    <3> HIDE DEF a, b
    <3>2. 1 \in 1 .. Len(u) /\ u[1] = a[1]
      BY <2>2, <3>1
    <3> QED BY <3>1, <3>2
  <2>4. CASE x = n
    <3>1. Len(b) = 1 /\ b[1] = Job("strip", x, None)
      BY <2>1, <2>4
    <3> HIDE DEF a, b
    <3>2. Len(a) + 1 \in 1 .. Len(u) /\ u[Len(a) + 1] = b[1]
      BY <2>2, <3>1
    <3> QED BY <3>1, <3>2
  <2> QED BY <2>3, <2>4
<1> HIDE DEF u
<1>9. LineStep(new) /\ LineKept(1) /\ \A i \in 1 .. Len(u) : \E k \in 1 .. Len(line') : line'[k] = u[i]
  BY <1>5, <1>6, <1>7, LineGrows
<1> QED BY <1>8, <1>9 DEF new

-----------------------------------------------------------------------------
(* Types.                                                                  *)

LEMMA JobTypes ==
    /\ \A m \in Messages \cup {None} : Job("strip", m, None) \in Jobs
    /\ \A m \in Messages \cup {None}, s \in Songs \cup {None}, k \in {"tick", "edit", "final"} :
         Job(k, m, s) \in Jobs
BY DEF Job, Jobs

LEMMA BarTypes ==
    /\ NoBar \in Bars
    /\ \A s \in Songs \cup {None} : LiveBar(s) \in Bars /\ LastBar(s) \in Bars
    /\ \A j \in Jobs : Payload(j) \in Bars
BY DEF NoBar, LiveBar, LastBar, Bars, Jobs, Payload

\* A reply or a card goes out.
LEMMA SendTypes ==
    ASSUME NPTypeOK, NEW r \in Senders, NEW alone \in BOOLEAN, Send(r, alone)
    PROVE  /\ sent' = sent + 1 /\ sent' \in 0 .. MaxMessages /\ sent' \in Messages
           /\ shows' \in [Messages -> Bars]
           /\ dedicated \subseteq dedicated' /\ dedicated' \subseteq 1 .. sent'
           /\ sending' \in [Senders -> [msg : Messages \cup {None}, song : Songs \cup {None}]]
           /\ builtFor' \in [Messages -> Songs \cup {None}]
<1>1. sent' = sent + 1 /\ sent' \in 0 .. MaxMessages /\ sent' \in Messages
  BY NPAssumption DEF Send, NPTypeOK, Messages
<1>2. shows' \in [Messages -> Bars]
  BY <1>1, BarTypes DEF Send, NPTypeOK
<1>3. dedicated \subseteq dedicated' /\ dedicated' \subseteq 1 .. sent'
  BY <1>1, NPAssumption DEF Send, NPTypeOK
<1>4. [msg |-> sent + 1, song |-> song] \in [msg : Messages \cup {None}, song : Songs \cup {None}]
  BY <1>1 DEF NPTypeOK
<1>5. sending' \in [Senders -> [msg : Messages \cup {None}, song : Songs \cup {None}]]
  BY <1>4 DEF Send, NPTypeOK
<1>6. builtFor' \in [Messages -> Songs \cup {None}]
  BY DEF Send, NPTypeOK
<1> QED BY <1>1, <1>2, <1>3, <1>5, <1>6

LEMMA PassOnTypes ==
    ASSUME NPTypeOK, line # <<>>, PassOn(line[1])
    PROVE  line' \in Seq(Jobs) /\ tick' \in {"none", "asleep", "locking"} /\ line' = Tail(line)
BY LinePasses DEF PassOn, LineStep, NPTypeOK

LEMMA CancelTypes ==
    ASSUME NPTypeOK, CancelTick
    PROVE  line' \in Seq(Jobs) /\ tick' = "none" /\ shows' \in [Messages -> Bars]
<1>1. line' \in Seq(Jobs) /\ tick' = "none"
  BY TickOut DEF CancelTick, LineStep
<1>2. line # <<>> => line[1] \in Jobs
  BY EmptySeq, ElementOfSeq DEF NPTypeOK
<1>3. line # <<>> => LiveBar(line[1].song) \in Bars
  BY <1>2, BarTypes DEF Jobs
<1>4. shows' \in [Messages -> Bars]
  BY <1>3 DEF CancelTick, CancelledPatch, NPTypeOK
<1> QED BY <1>1, <1>4

LEMMA HostTypes ==
    ASSUME NPTypeOK, NEW m \in Messages \cup {None}, NEW s
    PROVE  HostAfter(m, s) \in Messages \cup {None} /\ Shed(m, s) \in Messages \cup {None}
BY DEF NPTypeOK, HostAfter, Shed

LEMMA SendingTypes ==
    ASSUME NPTypeOK, NEW r \in Senders
    PROVE  /\ sending[r].msg \in Messages \cup {None}
           /\ sending' = [sending EXCEPT ![r] = NoSend] =>
                sending' \in [Senders -> [msg : Messages \cup {None}, song : Songs \cup {None}]]
BY DEF NPTypeOK, NoSend

LEMMA FaultTypes ==
    ASSUME NPTypeOK, Fault
    PROVE  faults' \in 0 .. MaxFaults
BY NPAssumption DEF NPTypeOK, Fault

LEMMA TypesKept ==
    ASSUME NPTypeOK, SendOK, NPNext
    PROVE  NPTypeOK'
<1> USE NPAssumption
<1>0. "loop" \in Senders /\ NoCache \in [msg : Messages \cup {None}, bar : Bars]
  BY BarTypes DEF Senders, NoCache
<1>h. line # <<>> => line[1] \in Jobs /\ Head(line) = line[1] /\ line[1].msg \in Messages \cup {None}
  <2>1. line # <<>> => line[1] \in Jobs /\ Head(line) = line[1]
    BY EmptySeq, ElementOfSeq DEF NPTypeOK
  <2> QED BY <2>1 DEF Jobs
<1>1. CASE \E r \in Repliers : Reply(r)
  <2>1. PICK r \in Repliers, alone \in BOOLEAN : Reply(r) /\ Send(r, alone)
    BY <1>1 DEF Reply
  <2> QED BY <2>1, SendTypes DEF Reply, NPTypeOK, Senders
<1>2. CASE \E r \in Repliers : ReplyReturns(r)
  <2>1. PICK r \in Repliers : ReplyReturns(r)
    BY <1>2
  <2>2. r \in Senders /\ sending[r].msg \in Messages \cup {None}
    BY <2>1, SendingTypes DEF Senders
  <2>3. sending' \in [Senders -> [msg : Messages \cup {None}, song : Songs \cup {None}]]
    BY <2>1, <2>2, SendingTypes DEF ReplyReturns, Answered
  <2>4. PICK x \in Messages \cup {None} : deletes' = deletes \cup Deletes(x) /\ line' = line \o Strips(x)
    BY <2>1, <2>2, HostTypes DEF ReplyReturns, Adopt, Retire
  <2>5. line' \in Seq(Jobs) /\ deletes' \subseteq dedicated
    BY <2>4, LineStrips DEF LineStep, Deletes, NPTypeOK
  <2>6. host' \in Messages \cup {None}
    BY <2>1, <2>2, HostTypes DEF ReplyReturns, Adopt
  <2>7. left' \in [Messages -> {"no", "early", "stopped", "cut", "error", "refused"}]
    BY <2>1 DEF ReplyReturns, Leave, NPTypeOK
  <2> QED BY <2>1, <2>3, <2>5, <2>6, <2>7 DEF ReplyReturns, NPTypeOK
<1>3. CASE \E r \in Repliers : ReplyFails(r)
  <2>1. PICK r \in Repliers : ReplyFails(r)
    BY <1>3
  <2>2. r \in Senders
    BY DEF Senders
  <2>3. sending[r].msg \in 1 .. sent
    BY <2>1, <2>2 DEF ReplyFails, SendOK
  <2>4. sending' \in [Senders -> [msg : Messages \cup {None}, song : Songs \cup {None}]]
    BY <2>1, <2>2, SendingTypes DEF ReplyFails, Answered
  <2>5. gone' \subseteq 1 .. sent
    BY <2>1, <2>3 DEF ReplyFails, NPTypeOK
  <2> QED BY <2>1, <2>4, <2>5, FaultTypes DEF ReplyFails, NPTypeOK
<1>4. CASE StartsSong
  BY <1>4 DEF StartsSong, NPTypeOK, Songs
<1>5. CASE SendsCard
  <2>1. left' \in [Messages -> {"no", "early", "stopped", "cut", "error", "refused"}]
    BY <1>5 DEF SendsCard, Leave, NPTypeOK
  <2>2. /\ sent' \in 0 .. MaxMessages /\ sent' = sent + 1
        /\ shows' \in [Messages -> Bars]
        /\ dedicated \subseteq dedicated' /\ dedicated' \subseteq 1 .. sent'
        /\ sending' \in [Senders -> [msg : Messages \cup {None}, song : Songs \cup {None}]]
        /\ builtFor' \in [Messages -> Songs \cup {None}]
    BY <1>0, <1>5, SendTypes DEF SendsCard
  <2>3. gone \subseteq 1 .. sent'
    BY <2>2 DEF NPTypeOK
  <2> HIDE DEF Send
  <2> QED BY <1>0, <1>5, <2>1, <2>2, <2>3 DEF SendsCard, Release, NPTypeOK
<1>6. CASE CardUp
  <2>1. PICK card \in {None, tailCard} :
          LET m == sending["loop"].msg
              shed == Shed(m, song)
          IN /\ host' = HostAfter(m, song) /\ CardOver(card)
             /\ deletes' = deletes \cup Deletes(shed) \cup Deletes(card)
             /\ line' = line \o Strips(shed) \o Strips(card)
    BY <1>6 DEF CardUp
  <2> DEFINE shed == Shed(sending["loop"].msg, song)
  <2>2. shed \in Messages \cup {None} /\ host' \in Messages \cup {None} /\ card \in Messages \cup {None}
    BY <1>0, <2>1, SendingTypes, HostTypes DEF NPTypeOK
  <2>3. deletes' \subseteq dedicated
    BY <2>1 DEF Deletes, NPTypeOK
  <2>4. line' = line \o Strips(shed) \o Strips(card)
    BY <2>1
  <2> HIDE DEF shed
  <2>5. line' \in Seq(Jobs)
    BY <2>2, <2>4, LineStripsTwo DEF LineStep
  <2>6. sending' \in [Senders -> [msg : Messages \cup {None}, song : Songs \cup {None}]]
    BY <1>0, <2>1, SendingTypes DEF CardOver, Answered
  <2>7. point' = "playing" /\ tailCard' \in {None, tailCard}
    BY <2>1 DEF CardOver
  <2> QED BY <1>6, <2>2, <2>3, <2>5, <2>6, <2>7 DEF CardUp, NPTypeOK
<1>7. CASE CardFails
  <2>1. PICK card \in {None, tailCard} : CardOver(card) /\ Retire(card)
    BY <1>7 DEF CardFails
  <2>2. card \in Messages \cup {None} /\ host' \in Messages \cup {None}
    BY <1>7 DEF CardFails, NPTypeOK
  <2>3. deletes' \subseteq dedicated /\ line' \in Seq(Jobs)
    BY <2>1, <2>2, LineStrips DEF LineStep, Retire, Deletes, NPTypeOK
  <2>4. sending' \in [Senders -> [msg : Messages \cup {None}, song : Songs \cup {None}]]
    BY <1>0, <2>1, SendingTypes DEF CardOver, Answered
  <2>5. point' = "playing" /\ tailCard' \in {None, tailCard}
    BY <2>1 DEF CardOver
  <2>6. gone' \subseteq 1 .. sent
    BY <1>0, <1>7, <2>1 DEF CardFails, CardOver, SendOK, NPTypeOK
  <2> QED BY <1>7, <2>2, <2>3, <2>4, <2>5, <2>6 DEF CardFails, Fault, NPTypeOK
<1>8. CASE SongOver
  BY <1>8, CancelTypes DEF SongOver, NPTypeOK
<1>9. CASE Settles
  <2>1. host' = None /\ cache' = NoCache /\ tailCard' \in {tailCard, host}
    BY <1>9 DEF Settles, Release
  <2>2. CASE line' = LastEditWaits(host) /\ UNCHANGED deletes
    BY <1>0, <1>9, <2>1, <2>2, JobTypes, LineQueues DEF Settles, LastEditWaits, LineStep, NPTypeOK
  <2>3. CASE Retire(host)
    BY <1>0, <1>9, <2>1, <2>3, LineStrips DEF Settles, Retire, Deletes, LineStep, NPTypeOK
  <2>4. CASE UNCHANGED <<line, deletes, tailCard>>
    BY <1>0, <1>9, <2>1, <2>4 DEF Settles, NPTypeOK
  <2> QED BY <1>9, <2>2, <2>3, <2>4 DEF Settles
<1>10. CASE LoopFails
  <2>1. left' \in [Messages -> {"no", "early", "stopped", "cut", "error", "refused"}]
    BY <1>10 DEF LoopFails, Leave, NPTypeOK
  <2>2. line' \in Seq(Jobs) /\ tick' = "none" /\ shows' \in [Messages -> Bars]
    BY <1>10, CancelTypes DEF LoopFails
  <2> QED BY <1>0, <1>10, <2>1, <2>2 DEF LoopFails, Release, Fault, NPTypeOK
<1>11. CASE StopBegins
  <2>1. left' \in [Messages -> {"no", "early", "stopped", "cut", "error", "refused"}]
    BY <1>11 DEF StopBegins, Leave, NPTypeOK
  <2>2. line' \in Seq(Jobs) /\ tick' = "none" /\ shows' \in [Messages -> Bars]
    BY <1>11, CancelTypes DEF StopBegins
  <2>3. sending' \in [Senders -> [msg : Messages \cup {None}, song : Songs \cup {None}]]
    BY <1>0, <1>11, SendingTypes DEF StopBegins, Answered
  <2>4. gone' \subseteq 1 .. sent
    <3>1. sending["loop"] # NoSend => sending["loop"].msg \in 1 .. sent
      BY <1>0 DEF SendOK
    <3> QED BY <1>11, <3>1 DEF StopBegins, NPTypeOK
  <2> QED BY <1>11, <2>1, <2>2, <2>3, <2>4 DEF StopBegins, NPTypeOK
<1>12. CASE StopRetires
  BY <1>0, <1>12, LineStrips DEF StopRetires, Release, Retire, Deletes, LineStep, NPTypeOK
<1>13. CASE TickWakes
  BY <1>13, JobTypes, LineQueues DEF TickWakes, LineStep, NPTypeOK
<1>14. CASE DebouncedEdit
  <2>1. edits' \in 0 .. MaxEdits
    BY <1>14 DEF DebouncedEdit, NPTypeOK
  <2>2. line' \in Seq(Jobs)
    BY <1>14, JobTypes, LineQueues DEF DebouncedEdit, LineStep, NPTypeOK
  <2> QED BY <1>14, <2>1, <2>2 DEF DebouncedEdit, NPTypeOK
<1>15. CASE EditStarts
  <2>1. CASE PassOn(line[1])
    BY <1>15, <2>1, PassOnTypes DEF EditStarts, NPTypeOK
  <2>2. CASE line' = [line EXCEPT ![1].patching = TRUE, ![1].msg = Target(line[1])] /\ UNCHANGED tick
    <3>1. Target(line[1]) \in Messages \cup {None}
      BY <1>15, <1>h DEF EditStarts, Target, NPTypeOK
    <3>2. [line[1] EXCEPT !.patching = TRUE, !.msg = Target(line[1])] \in Jobs
      BY <1>15, <1>h, <3>1 DEF EditStarts, Jobs
    <3>3. 1 \in 1 .. Len(line)
      BY <1>15, EmptySeq DEF EditStarts, NPTypeOK
    <3>4. line' = [line EXCEPT ![1] = [line[1] EXCEPT !.patching = TRUE, !.msg = Target(line[1])]]
      BY <2>2, <3>3 DEF NPTypeOK
    <3>5. line' \in Seq(Jobs)
      BY <3>2, <3>3, <3>4, ExceptSeq DEF NPTypeOK
    <3> QED BY <1>15, <2>2, <3>5 DEF EditStarts, NPTypeOK
  <2> QED BY <1>15, <1>h, <2>1, <2>2 DEF EditStarts
<1>16. CASE EditLands
  <2>1. PassOn(line[1]) /\ line # <<>> /\ Payload(line[1]) \in Bars
    BY <1>16, <1>h, BarTypes DEF EditLands
  <2>2. shows' \in [Messages -> Bars]
    BY <1>16, <1>h, <2>1 DEF EditLands, NPTypeOK
  <2>3. [msg |-> line[1].msg, bar |-> Payload(line[1])] \in [msg : Messages \cup {None}, bar : Bars]
    BY <1>h, <2>1
  <2>4. cache' \in [msg : Messages \cup {None}, bar : Bars]
    BY <1>16, <1>h, <2>3 DEF EditLands, NPTypeOK
  <2> QED BY <1>16, <2>1, <2>2, <2>4, PassOnTypes DEF EditLands, NPTypeOK
<1>17. CASE EditFindsNone
  <2>1. PassOn(line[1]) /\ line # <<>> /\ host' \in {host, None} /\ cache' \in {cache, NoCache}
    BY <1>17, <1>h DEF EditFindsNone, Release
  <2> QED BY <1>0, <1>17, <2>1, PassOnTypes DEF EditFindsNone, NPTypeOK
<1>18. CASE EditFails
  <2>1. PassOn(line[1]) /\ line # <<>> /\ UNCHANGED cache
    BY <1>18, <1>h DEF EditFails, Forgets
  <2>2. left' \in [Messages -> {"no", "early", "stopped", "cut", "error", "refused"}]
    BY <1>18 DEF EditFails, Leave, NPTypeOK
  <2> QED BY <1>18, <2>1, <2>2, PassOnTypes DEF EditFails, Fault, NPTypeOK
<1>19. CASE DeleteLands
  <2>1. left' \in [Messages -> {"no", "early", "stopped", "cut", "error", "refused"}]
    BY <1>19 DEF DeleteLands, Leave, NPTypeOK
  <2>2. gone' \subseteq 1 .. sent /\ deletes' \subseteq dedicated
    BY <1>19 DEF DeleteLands, NPTypeOK
  <2>3. faults' \in 0 .. MaxFaults
    BY <1>19, FaultTypes DEF DeleteLands, NPTypeOK
  <2> QED BY <1>19, <2>1, <2>2, <2>3 DEF DeleteLands, NPTypeOK
<1>20. CASE UserDeletes
  BY <1>20 DEF UserDeletes, Fault, NPTypeOK
<1> QED BY <1>1, <1>2, <1>3, <1>4, <1>5, <1>6, <1>7, <1>8, <1>9, <1>10, <1>11, <1>12, <1>13, <1>14,
        <1>15, <1>16, <1>17, <1>18, <1>19, <1>20 DEF NPNext, Loop, Lock

-----------------------------------------------------------------------------
(* What most steps do to the line and to the bars.                         *)

\* Known after the step.
StillKnown(m) == m \in 1 .. sent' /\ \A r \in Senders : sending'[r].msg # m

LEMMA LineKeeps ==
    ASSUME NPTypeOK, JobsOK, LockOK, NEW new, LineStep(new),
           \A m : Known(m) => StillKnown(m),
           \A j \in new : /\ ~j.patching /\ (j.msg # None => StillKnown(j.msg))
                          /\ j.kind \in {"final", "strip"} => j.msg \notin {None, host'},
           host' \in {None, host} \/ ~Known(host'),
           \/ \A m \in 1 .. sent : shows[m].live => shows'[m].live
           \/ \A k \in 1 .. Len(line') : ~line'[k].patching
    PROVE  JobsOK' /\ LockOK'
<1>0. line \in Seq(Jobs) /\ Len(line) \in Nat /\ line' \in Seq(Jobs) /\ Len(line') \in Nat
  BY DEF LineStep, NPTypeOK
<1>1. ASSUME NEW k \in 1 .. Len(line')
      PROVE  /\ line'[k].msg # None => StillKnown(line'[k].msg)
             /\ line'[k].kind \in {"final", "strip"} => line'[k].msg \notin {None, host'}
             /\ line'[k].patching => k = 1 /\ line'[1] = line[1] /\ 1 \in 1 .. Len(line) /\ line[1].patching
  <2>1. CASE line'[k] \in new
    BY <2>1
  <2>2. CASE \E n \in 1 .. Len(line) : line'[k] = line[n] /\ (k = 1 \/ n > 1)
    <3>1. PICK n \in 1 .. Len(line) : line'[k] = line[n] /\ (k = 1 \/ n > 1)
      BY <2>2
    <3>2. line[n].patching => n = 1
      BY <1>0, <3>1 DEF LockOK
    <3> QED BY <1>0, <3>1, <3>2 DEF JobsOK
  <2> QED BY <2>1, <2>2 DEF LineStep
<1>2. JobsOK'
  BY <1>1 DEF JobsOK, Known, StillKnown
<1>3. LockOK'
  <2>1. \A k \in 2 .. Len(line') : ~line'[k].patching
    BY <1>0, <1>1
  <2>2. ASSUME line' # <<>>, line'[1].patching
        PROVE  line'[1].msg # None /\ (line'[1].kind \in {"tick", "edit"} => shows'[line'[1].msg].live)
    <3>1. 1 \in 1 .. Len(line')
      BY <1>0, <2>2, EmptySeq
    <3>2. line'[1] = line[1] /\ 1 \in 1 .. Len(line) /\ line[1].patching
      BY <1>1, <2>2, <3>1
    <3>3. line # <<>> /\ line[1].msg # None
      BY <1>0, <3>2 DEF LockOK
    <3>4. line[1].msg \in 1 .. sent
      BY <3>2, <3>3 DEF JobsOK, Known
    <3> QED BY <2>2, <3>1, <3>2, <3>3, <3>4 DEF LockOK
  <2> QED BY <2>1, <2>2 DEF LockOK
<1> QED BY <1>2, <1>3

LEMMA BarsKept ==
    ASSUME BarsAccounted, NEW from \in {1, 2}, LineKept(from),
           \A m \in Messages : from = 2 /\ Live(m)' /\ line # <<>> /\ line[1].msg = m
                                /\ line[1].kind \in {"final", "strip"} => left'[m] # "no",
           \A m \in deletes : m \in deletes' \/ ~Live(m)' \/ left'[m] # "no",
           \A m \in Messages : Live(m)' => Live(m) \/ InHand(m)',
           \A m \in Messages : left[m] # "no" => left'[m] # "no",
           \A m \in Messages : Live(m)' /\ (m = host \/ \E r \in Senders : sending[r].msg = m) =>
               m = host' \/ InHand(m)' \/ left'[m] # "no",
           NPTypeOK
    PROVE  BarsAccounted'
<1> SUFFICES ASSUME NEW m \in Messages, Live(m)', ~InHand(m)'
             PROVE  m = host' \/ left'[m] # "no"
  BY DEF BarsAccounted
<1>1. m = host \/ InHand(m) \/ left[m] # "no"
  BY DEF BarsAccounted
<1>2. CASE \E i \in 1 .. Len(line) : line[i].kind \in {"final", "strip"} /\ line[i].msg = m
  <2>1. PICK i \in 1 .. Len(line) : line[i].kind \in {"final", "strip"} /\ line[i].msg = m
    BY <1>2
  <2>2. Len(line) \in Nat /\ line # <<>>
    BY <2>1 DEF NPTypeOK
  <2>3. CASE i \in from .. Len(line)
    BY <2>1, <2>3 DEF LineKept, InHand
  <2>4. CASE from = 2 /\ i = 1
    BY <2>1, <2>2, <2>4
  <2> QED BY <2>1, <2>2, <2>3, <2>4
<1>3. CASE m \in deletes
  BY <1>3 DEF InHand
<1> QED BY <1>1, <1>2, <1>3 DEF InHand

\* Sends under way go on, but for one that is over.
LEMMA SendKeeps ==
    ASSUME NPTypeOK, SendOK, UNCHANGED <<sent, builtFor>>, NEW q \in Senders,
           sending' = sending \/ sending' = [sending EXCEPT ![q] = NoSend],
           \A m \in Messages :
               shows[m].live /\ (\E r \in Senders : sending[r].msg = m) => shows'[m].live,
           sending'["loop"] # NoSend <=> point' = "sending"
    PROVE  SendOK' /\ \A m : Known(m) => StillKnown(m)
<1>1. \A r \in Senders : sending'[r] = sending[r] \/ sending'[r] = NoSend
  BY DEF NPTypeOK
<1>2. \A m : Known(m) => StillKnown(m)
  BY <1>1 DEF Known, StillKnown, NoSend, None
<1>3. \A r \in Senders : sending[r].msg \in Messages \cup {None}
  BY SendingTypes
<1>4. 1 .. sent \subseteq Messages
  BY NPAssumption DEF NPTypeOK, Messages
<1>5. ASSUME NEW r \in Senders, sending'[r] # NoSend
      PROVE  /\ sending'[r].msg \in 1 .. sent' /\ sending'[r].song \in Songs
             /\ builtFor'[sending'[r].msg] = sending'[r].song /\ shows'[sending'[r].msg].live
  BY <1>1, <1>3, <1>4, <1>5 DEF SendOK
<1>6. ASSUME NEW r \in Senders, NEW p \in Senders, r # p, sending'[r].msg # None
      PROVE  sending'[r].msg # sending'[p].msg
  BY <1>1, <1>6 DEF SendOK, NoSend
<1>7. SendOK'
  BY <1>5, <1>6 DEF SendOK
<1> QED BY <1>2, <1>7

\* A message with a live bar goes out.
LEMMA Sends ==
    ASSUME NPInv, NEW r \in Senders, sending[r] = NoSend, NEW alone \in BOOLEAN, Send(r, alone),
           song # None,
           sending'["loop"] # NoSend <=> point' = "sending", UNCHANGED <<song, gone>>
    PROVE  /\ SendOK' /\ \A m : Known(m) => StillKnown(m)
           /\ 1 .. sent \subseteq Messages
           /\ \A m \in 1 .. sent : shows'[m] = shows[m] /\ builtFor'[m] = builtFor[m]
           /\ \A m \in Messages : Live(m)' => Live(m) \/ InHand(m)'
           /\ \A q \in Senders : sending[q].msg # None => sending'[q] = sending[q]
           /\ sending'[r].song = song
<1> USE DEF NPInv, Parts
<1>1. /\ sent' = sent + 1 /\ sent' \in Messages /\ sent \in Nat /\ 1 .. sent \subseteq Messages
      /\ sent' \notin 1 .. sent /\ 1 .. sent \subseteq 1 .. sent' /\ sent' \in 1 .. sent' /\ sent' # None
  BY NPAssumption, SendTypes DEF NPTypeOK, Messages, None
<1>2. /\ sending'[r] = [msg |-> sent', song |-> song]
      /\ \A q \in Senders \ {r} : sending'[q] = sending[q]
  BY <1>1 DEF Send, NPTypeOK
<1>3. /\ shows'[sent'] = LiveBar(song) /\ builtFor'[sent'] = song
      /\ \A m \in Messages \ {sent'} : shows'[m] = shows[m] /\ builtFor'[m] = builtFor[m]
  BY <1>1 DEF Send, NPTypeOK
<1>4. \A q \in Senders : sending[q].msg # None => q # r /\ sending[q].msg \in 1 .. sent
  BY DEF SendOK, NoSend
<1>5. \A m : Known(m) => StillKnown(m)
  BY <1>1, <1>2 DEF Known, StillKnown
<1>6. \A q \in Senders :
         \/ sending'[q] = NoSend
         \/ /\ sending'[q].msg \in 1 .. sent' /\ sending'[q].song \in Songs
            /\ builtFor'[sending'[q].msg] = sending'[q].song /\ shows'[sending'[q].msg].live
  <2>1. song \in Songs /\ LiveBar(song).live
    BY DEF NPTypeOK, LiveBar
  <2>2. CASE \A q \in Senders : sending[q] = NoSend \/ sending[q].msg \in 1 .. sent
    BY <1>1, <1>2, <1>3, <2>1 DEF SendOK
  <2> QED BY <2>2 DEF SendOK
<1>7. \A p, q \in Senders : p # q /\ sending'[p].msg # None => sending'[p].msg # sending'[q].msg
  <2>1. \A q \in Senders : sending[q].msg # sent'
    BY <1>1, <1>4
  <2> QED BY <1>1, <1>2, <2>1 DEF SendOK
<1>8. SendOK'
  BY <1>6, <1>7 DEF SendOK
<1>9. \A m \in Messages : Live(m)' => Live(m) \/ InHand(m)'
  BY <1>2, <1>3 DEF Live, InHand
<1> QED BY <1>1, <1>2, <1>3, <1>4, <1>5, <1>8, <1>9

\* The tick that is cancelled, and its request: a live bar is written over a live one.
LEMMA Cancels ==
    ASSUME NPInv, CancelTick
    PROVE  /\ LineStep({}) /\ LineKept(1)
           /\ \A m \in Messages : shows'[m].live <=> shows[m].live
<1> USE DEF NPInv, Parts
<1>1. LineStep({}) /\ LineKept(1)
  BY TickOut DEF CancelTick
<1>2. CASE UNCHANGED shows
  BY <1>2, <1>1
<1>3. CASE /\ line # <<>>
           /\ LET j == Head(line) IN
                /\ j.kind = "tick" /\ j.patching /\ j.msg \notin gone
                /\ shows' = [shows EXCEPT ![j.msg] = LiveBar(j.song)]
  <2>1. Head(line) = line[1]
    BY <1>3 DEF NPTypeOK
  <2>2. shows[line[1].msg].live
    BY <1>3, <2>1 DEF LockOK
  <2> QED BY <1>1, <1>3, <2>1, <2>2 DEF LiveBar, NPTypeOK
<1> QED BY <1>2, <1>3 DEF CancelTick, CancelledPatch

-----------------------------------------------------------------------------
(* The actions, one lemma for each kind.                                   *)

\* What every step is to establish, its types apart.
StepGood == Parts' /\ NoneRelit /\ OnlyDown

LEMMA ReplyKeeps ==
    ASSUME NPInv, NEW r \in Repliers, Reply(r)
    PROVE  StepGood
<1> USE DEF NPInv, Parts
<1>1. PICK alone \in BOOLEAN : Send(r, alone)
  BY DEF Reply
<1>2. r \in Senders /\ r # "loop" /\ "loop" \in Senders
  BY NPAssumption DEF Senders
<1>3. sending'["loop"] # NoSend <=> point' = "sending"
  BY <1>1, <1>2 DEF Reply, Send, SendOK, NPTypeOK
<1>4. /\ SendOK' /\ \A m : Known(m) => StillKnown(m)
      /\ 1 .. sent \subseteq Messages
      /\ \A m \in 1 .. sent : shows'[m] = shows[m] /\ builtFor'[m] = builtFor[m]
      /\ \A m \in Messages : Live(m)' => Live(m) \/ InHand(m)'
      /\ \A q \in Senders : sending[q].msg # None => sending'[q] = sending[q]
  BY <1>1, <1>2, <1>3, Sends DEF Reply
<1>5. KnownOK'
  BY <1>4 DEF Reply, KnownOK, Known, StillKnown
<1>6. PointOK'
  BY <1>1, <1>2 DEF Reply, PointOK, Send, NPTypeOK
<1>7. HostOK'
  BY <1>4 DEF Reply, HostOK, KnownOK, Known
<1>8. JobsOK' /\ LockOK'
  <2>1. LineStep({})
    BY LineStays DEF Reply
  <2> QED BY <1>4, <2>1, LineKeeps DEF Reply
<1>9. CacheOK'
  BY <1>4 DEF Reply, CacheOK, KnownOK, Known
<1>10. BarsAccounted'
  <2>1. LineKept(1)
    BY LineStays DEF Reply
  <2>2. \A m \in Messages : Live(m)' /\ (m = host \/ \E q \in Senders : sending[q].msg = m) =>
               m = host' \/ InHand(m)'
    <3>1. \A m \in Messages : m # None
      BY DEF Messages, None
    <3> QED BY <1>4, <3>1 DEF Reply, InHand
  <2> QED BY <1>4, <2>1, <2>2, BarsKept DEF Reply
<1>11. NoneRelit
  BY <1>4 DEF NoneRelit
<1>12. OnlyDown
  BY DEF OnlyDown, Reply, NPTypeOK, Messages
<1> QED BY <1>4, <1>5, <1>6, <1>7, <1>8, <1>9, <1>10, <1>11, <1>12 DEF StepGood

LEMMA SendsCardKeeps ==
    ASSUME NPInv, SendsCard
    PROVE  StepGood
<1> USE DEF NPInv, Parts
<1>1. "loop" \in Senders /\ Send("loop", TRUE)
  BY DEF Senders, SendsCard
<1>2. sending["loop"] = NoSend /\ song # None
  BY <1>1 DEF SendsCard, SendOK, PointOK
<1>3. sending'["loop"] # NoSend <=> point' = "sending"
  BY <1>1 DEF SendsCard, Send, NoSend, NPTypeOK, None
<1>4. /\ SendOK' /\ \A m : Known(m) => StillKnown(m)
      /\ 1 .. sent \subseteq Messages
      /\ \A m \in 1 .. sent : shows'[m] = shows[m] /\ builtFor'[m] = builtFor[m]
      /\ \A m \in Messages : Live(m)' => Live(m) \/ InHand(m)'
      /\ \A q \in Senders : sending[q].msg # None => sending'[q] = sending[q]
      /\ sending'["loop"].song = song
  BY <1>1, <1>2, <1>3, Sends DEF SendsCard
<1>5. host' = None /\ cache' = NoCache
  BY DEF SendsCard, Release
<1>6. KnownOK' /\ HostOK' /\ CacheOK'
  BY <1>4, <1>5 DEF SendsCard, KnownOK, HostOK, CacheOK, Known, StillKnown, NoCache
<1>7. PointOK'
  BY <1>2, <1>4 DEF SendsCard, PointOK
<1>8. JobsOK' /\ LockOK'
  <2>1. LineStep({})
    BY LineStays DEF SendsCard
  <2> QED BY <1>4, <1>5, <2>1, LineKeeps
<1>9. BarsAccounted'
  <2>1. LineKept(1)
    BY LineStays DEF SendsCard
  <2>2. \A m \in Messages : m # None
    BY DEF Messages, None
  <2>3. \A m \in Messages : left[m] # "no" => left'[m] # "no"
    BY DEF SendsCard, Leave, NPTypeOK
  <2>4. host # None => left'[host] # "no"
    BY DEF SendsCard, HostOK, Leave, NPTypeOK
  <2>5. \A m \in Messages : Live(m)' /\ (m = host \/ \E q \in Senders : sending[q].msg = m) =>
               m = host' \/ InHand(m)' \/ left'[m] # "no"
    BY <1>4, <2>2, <2>4 DEF InHand
  <2> QED BY <1>4, <2>1, <2>3, <2>5, BarsKept DEF SendsCard
<1>10. NoneRelit /\ OnlyDown
  BY <1>4, <1>5 DEF NoneRelit, OnlyDown
<1> QED BY <1>4, <1>6, <1>7, <1>8, <1>9, <1>10 DEF StepGood

-----------------------------------------------------------------------------
\* A message whose send returns is not the host, the tail's card, the last pushed or any
\* job's; it becomes the host of the song it was built for, or sheds its block.
LEMMA Adopting ==
    ASSUME NPInv, NEW r \in Senders, sending[r] # NoSend, NEW s, s = sending[r].song,
           host' = HostAfter(sending[r].msg, s)
    PROVE  /\ sending[r].msg \in 1 .. sent /\ sending[r].msg \in Messages
           /\ ~Known(sending[r].msg) /\ sending[r].msg # host
           /\ host' = host \/ (/\ host' = sending[r].msg /\ s = song /\ song # None
                               /\ builtFor[host'] = song /\ shows[host'].live)
           /\ {host', Shed(sending[r].msg, s)} = {host, sending[r].msg}
           /\ Shed(sending[r].msg, s) # host' /\ Shed(sending[r].msg, s) \in Messages \cup {None}
           /\ OnlyDown
<1> USE DEF NPInv, Parts
<1> DEFINE m == sending[r].msg
<1>1. m \in 1 .. sent /\ s \in Songs /\ builtFor[m] = s /\ shows[m].live
  BY DEF SendOK
<1>2. m \in Messages /\ m # None
  BY <1>1, NPAssumption DEF NPTypeOK, Messages, None
<1>3. ~Known(m) /\ m # host
  BY <1>2 DEF Known, KnownOK
<1>4. host' = host \/ (host' = m /\ s = song /\ song # None /\ ~(m < host))
  BY DEF HostAfter
<1>5. {host', Shed(m, s)} = {host, m} /\ Shed(m, s) # host' /\ Shed(m, s) \in Messages \cup {None}
  BY <1>2, <1>3, <1>4 DEF Shed, NPTypeOK
<1>6. OnlyDown
  BY <1>2, <1>4 DEF OnlyDown, NPTypeOK, Messages, None
<1> QED BY <1>1, <1>2, <1>3, <1>4, <1>5, <1>6

LEMMA ReplyReturnsKeeps ==
    ASSUME NPInv, NEW r \in Repliers, ReplyReturns(r)
    PROVE  StepGood
<1> USE DEF NPInv, Parts
<1> DEFINE m == sending[r].msg
           s == sending[r].song
<1>0. r \in Senders /\ r # "loop" /\ "loop" \in Senders /\ NoSend.msg = None
  BY NPAssumption DEF Senders, NoSend
<1>1. /\ host' = HostAfter(m, s) /\ deletes' = deletes \cup Deletes(Shed(m, s)) /\ line' = line \o Strips(Shed(m, s))
      /\ sending' = [sending EXCEPT ![r] = NoSend]
  BY DEF ReplyReturns, Adopt, Retire, Answered
<1>2. /\ m \in 1 .. sent /\ m \in Messages /\ ~Known(m) /\ m # host
      /\ host' = host \/ (host' = m /\ s = song /\ song # None /\ builtFor[host'] = song /\ shows[host'].live)
      /\ {host', Shed(m, s)} = {host, m} /\ Shed(m, s) # host' /\ Shed(m, s) \in Messages \cup {None}
      /\ OnlyDown
  BY <1>0, <1>1, Adopting DEF ReplyReturns
<1>s. PICK shed \in Messages \cup {None} :
        /\ deletes' = deletes \cup Deletes(shed) /\ line' = line \o Strips(shed)
        /\ {host', shed} = {host, m} /\ shed # host'
  BY <1>1, <1>2
<1>3. SendOK' /\ \A x : Known(x) => StillKnown(x)
  <2>1. sending'["loop"] = sending["loop"]
    BY <1>0, <1>1 DEF NPTypeOK
  <2>2. sending'["loop"] # NoSend <=> point' = "sending"
    BY <2>1 DEF SendOK, ReplyReturns
  <2> QED BY <1>0, <1>1, <2>2, SendKeeps DEF ReplyReturns
<1>4. StillKnown(m)
  <2>1. \A q \in Senders \ {r} : sending'[q].msg # m
    BY <1>0, <1>1, <1>2 DEF SendOK, NPTypeOK, Messages, None
  <2>2. sending'[r].msg # m
    BY <1>0, <1>1, <1>2 DEF NPTypeOK, Messages, None
  <2> QED BY <1>2, <2>1, <2>2 DEF StillKnown, ReplyReturns
<1>5. host' # None => StillKnown(host')
  BY <1>2, <1>3, <1>4 DEF KnownOK
<1>6. KnownOK'
  BY <1>3, <1>5 DEF ReplyReturns, KnownOK, Known, StillKnown
<1>7. PointOK'
  BY <1>0, <1>1 DEF ReplyReturns, PointOK, NPTypeOK
<1>8. HostOK'
  BY <1>2 DEF ReplyReturns, HostOK, KnownOK
<1>9. LineStep({Job("strip", shed, None)} \cap {j \in Jobs : j.msg # None}) /\ LineKept(1)
      /\ (shed # None /\ shed \notin dedicated =>
                \E k \in 1 .. Len(line') : line'[k] = Job("strip", shed, None))
  BY <1>s, LineStrips
<1>10. JobsOK' /\ LockOK'
  <2>1. ASSUME NEW j \in {Job("strip", shed, None)} \cap {j \in Jobs : j.msg # None}
        PROVE  ~j.patching /\ StillKnown(j.msg) /\ j.msg \notin {None, host'}
    <3>1. ~j.patching /\ j.msg = shed /\ shed # None
      BY DEF Job
    <3> QED BY <1>2, <1>s, <1>3, <1>4, <3>1 DEF KnownOK
  <2>2. host' \in {None, host} \/ ~Known(host')
    BY <1>2
  <2>3. \A x \in 1 .. sent : shows[x].live => shows'[x].live
    BY DEF ReplyReturns
  <2> HIDE DEF NPInv, Parts, m, s
  <2>4. NPTypeOK /\ JobsOK /\ LockOK
    BY DEF NPInv, Parts
  <2> QED BY <1>3, <1>9, <2>1, <2>2, <2>3, <2>4, LineKeeps
<1>11. CacheOK'
  BY <1>2 DEF ReplyReturns, CacheOK, KnownOK
<1>12. BarsAccounted'
  <2>1. shed # None => InHand(shed)'
    <3>1. CASE shed \in dedicated
      BY <1>s, <3>1 DEF InHand, Deletes
    <3>2. CASE shed # None /\ shed \notin dedicated
      <4>1. PICK k \in 1 .. Len(line') : line'[k] = Job("strip", shed, None)
        BY <1>9, <3>2
      <4> QED BY <4>1 DEF InHand, Job
    <3> QED BY <3>1, <3>2
  <2>2. \A x \in Messages : left[x] # "no" => left'[x] # "no"
    BY DEF ReplyReturns, Leave, NPTypeOK
  <2>3. ASSUME NEW x \in Messages, x = host \/ \E q \in Senders : sending[q].msg = x
        PROVE  x = host' \/ InHand(x)'
    <3>1. x # None
      BY DEF Messages, None
    <3>2. CASE x \in {host, m}
      BY <1>s, <2>1, <3>1, <3>2
    <3>3. CASE x \notin {host, m}
      BY <1>0, <1>1, <2>3, <3>3 DEF InHand, NPTypeOK
    <3> QED BY <3>2, <3>3
  <2>4. \A x \in Messages : Live(x)' => Live(x)
    BY DEF Live, ReplyReturns
  <2>5. deletes \subseteq deletes'
    BY <1>s
  <2> QED BY <1>9, <2>2, <2>3, <2>4, <2>5, BarsKept
<1>13. NoneRelit
  BY DEF NoneRelit, ReplyReturns
<1> QED BY <1>2, <1>3, <1>6, <1>7, <1>8, <1>10, <1>11, <1>12, <1>13 DEF StepGood

LEMMA CardUpKeeps ==
    ASSUME NPInv, CardUp
    PROVE  StepGood
<1> USE DEF NPInv, Parts
<1> DEFINE m == sending["loop"].msg
<1>0. "loop" \in Senders /\ NoSend.msg = None
  BY DEF Senders, NoSend
<1>1. PICK card \in {None, tailCard} :
          /\ host' = HostAfter(m, song) /\ CardOver(card)
          /\ deletes' = deletes \cup Deletes(Shed(m, song)) \cup Deletes(card)
          /\ line' = line \o Strips(Shed(m, song)) \o Strips(card)
  BY DEF CardUp
<1>2. /\ point = "sending" /\ point' = "playing" /\ sending' = [sending EXCEPT !["loop"] = NoSend]
      /\ tailCard' = IF card = None THEN tailCard ELSE None
  BY <1>1 DEF CardOver, Answered
<1>3. sending["loop"] # NoSend /\ sending["loop"].song = song
  BY <1>0, <1>2 DEF SendOK, PointOK
<1>4. /\ m \in 1 .. sent /\ m \in Messages /\ ~Known(m) /\ m # host
      /\ host' = host \/ (host' = m /\ song # None /\ builtFor[host'] = song /\ shows[host'].live)
      /\ {host', Shed(m, song)} = {host, m} /\ Shed(m, song) # host'
      /\ Shed(m, song) \in Messages \cup {None}
      /\ OnlyDown
  BY <1>0, <1>1, <1>3, Adopting
<1>5. card \in Messages \cup {None} /\ (card # None => Known(card) /\ card # host' /\ card = tailCard)
  BY <1>1, <1>4 DEF NPTypeOK, KnownOK, HostOK, CardOver
<1>s. PICK shed \in Messages \cup {None} :
        /\ deletes' = deletes \cup Deletes(shed) \cup Deletes(card)
        /\ line' = line \o Strips(shed) \o Strips(card)
        /\ {host', shed} = {host, m} /\ shed # host'
  BY <1>1, <1>4
<1>6. SendOK' /\ \A x : Known(x) => StillKnown(x)
  <2>1. sending'["loop"] = NoSend
    BY <1>0, <1>2 DEF NPTypeOK
  <2> QED BY <1>0, <1>2, <2>1, SendKeeps DEF CardUp
<1>7. StillKnown(m)
  <2>1. \A q \in Senders \ {"loop"} : sending'[q].msg # m
    BY <1>0, <1>2, <1>4 DEF SendOK, NPTypeOK, Messages, None
  <2>2. sending'["loop"].msg # m
    BY <1>0, <1>2, <1>4 DEF NPTypeOK, Messages, None
  <2> QED BY <1>4, <2>1, <2>2 DEF StillKnown, CardUp
<1>8. host' # None => StillKnown(host')
  BY <1>4, <1>6, <1>7 DEF KnownOK
<1>9. KnownOK'
  BY <1>2, <1>6, <1>8 DEF CardUp, KnownOK, Known, StillKnown
<1>10. PointOK'
  BY <1>2, <1>3 DEF CardUp, PointOK
<1>11. HostOK'
  <2>1. host' # None => tailCard' # host'
    BY <1>2, <1>4 DEF HostOK, KnownOK
  <2> QED BY <1>4, <2>1 DEF CardUp, HostOK
<1>12. /\ LineStep({Job("strip", shed, None), Job("strip", card, None)} \cap {j \in Jobs : j.msg # None})
       /\ LineKept(1)
       /\ \A x \in {shed, card} : x # None /\ x \notin dedicated =>
                \E k \in 1 .. Len(line') : line'[k] = Job("strip", x, None)
  BY <1>s, <1>5, LineStripsTwo
<1>13. JobsOK' /\ LockOK'
  <2>1. ASSUME NEW j \in {Job("strip", shed, None), Job("strip", card, None)} \cap {j \in Jobs : j.msg # None}
        PROVE  ~j.patching /\ StillKnown(j.msg) /\ j.msg \notin {None, host'}
    <3>1. ~j.patching /\ j.msg \in {shed, card} /\ j.msg # None
      BY DEF Job
    <3>2. shed # None => StillKnown(shed)
      BY <1>s, <1>4, <1>6, <1>7 DEF KnownOK
    <3> QED BY <1>s, <1>5, <1>6, <3>1, <3>2
  <2>2. host' \in {None, host} \/ ~Known(host')
    BY <1>4
  <2>3. \A x \in 1 .. sent : shows[x].live => shows'[x].live
    BY DEF CardUp
  <2> HIDE DEF NPInv, Parts, m
  <2>4. NPTypeOK /\ JobsOK /\ LockOK
    BY DEF NPInv, Parts
  <2> QED BY <1>6, <1>12, <2>1, <2>2, <2>3, <2>4, LineKeeps
<1>14. CacheOK'
  BY <1>2, <1>4 DEF CardUp, CacheOK, KnownOK
<1>15. BarsAccounted'
  <2>1. shed # None => InHand(shed)'
    <3>1. CASE shed \in dedicated
      BY <1>s, <3>1 DEF InHand, Deletes
    <3>2. CASE shed # None /\ shed \notin dedicated
      <4>1. PICK k \in 1 .. Len(line') : line'[k] = Job("strip", shed, None)
        BY <1>12, <3>2
      <4> QED BY <4>1 DEF InHand, Job
    <3> QED BY <3>1, <3>2
  <2>2. \A x \in Messages : left[x] # "no" => left'[x] # "no"
    BY DEF CardUp
  <2>3. ASSUME NEW x \in Messages, x = host \/ \E q \in Senders : sending[q].msg = x
        PROVE  x = host' \/ InHand(x)'
    <3>1. x # None
      BY DEF Messages, None
    <3>2. CASE x \in {host, m}
      BY <1>s, <2>1, <3>1, <3>2
    <3>3. CASE x \notin {host, m}
      BY <1>0, <1>2, <2>3, <3>3 DEF InHand, NPTypeOK
    <3> QED BY <3>2, <3>3
  <2>4. \A x \in Messages : Live(x)' => Live(x)
    BY DEF Live, CardUp
  <2>5. deletes \subseteq deletes'
    BY <1>s
  <2> QED BY <1>12, <2>2, <2>3, <2>4, <2>5, BarsKept
<1>16. NoneRelit
  BY DEF NoneRelit, CardUp
<1> QED BY <1>4, <1>6, <1>9, <1>10, <1>11, <1>13, <1>14, <1>15, <1>16 DEF StepGood

LEMMA ReplyFailsKeeps ==
    ASSUME NPInv, NEW r \in Repliers, ReplyFails(r)
    PROVE  StepGood
<1> USE DEF NPInv, Parts
<1>0. r \in Senders /\ r # "loop" /\ "loop" \in Senders /\ NoSend.msg = None
  BY NPAssumption DEF Senders, NoSend
<1>1. /\ sending' = [sending EXCEPT ![r] = NoSend] /\ sending'["loop"] = sending["loop"]
      /\ gone' = gone \cup {sending[r].msg}
  BY <1>0 DEF ReplyFails, Answered, NPTypeOK
<1>2. SendOK' /\ \A x : Known(x) => StillKnown(x)
  <2>1. sending'["loop"] # NoSend <=> point' = "sending"
    BY <1>1 DEF SendOK, ReplyFails
  <2> QED BY <1>0, <1>1, <2>1, SendKeeps DEF ReplyFails
<1>3. KnownOK' /\ PointOK' /\ HostOK' /\ CacheOK'
  BY <1>1, <1>2 DEF ReplyFails, KnownOK, Known, StillKnown, PointOK, HostOK, CacheOK
<1>4. LineStep({}) /\ LineKept(1)
  BY LineStays DEF ReplyFails
<1>5. JobsOK' /\ LockOK'
  BY <1>2, <1>4, LineKeeps DEF ReplyFails
<1>6. BarsAccounted'
  <2>1. ASSUME NEW x \in Messages, Live(x)', x = host \/ \E q \in Senders : sending[q].msg = x
        PROVE  x = host' \/ InHand(x)'
    <3>1. x # sending[r].msg
      BY <1>1, <2>1 DEF Live
    <3> QED BY <1>0, <1>1, <2>1, <3>1 DEF InHand, ReplyFails, NPTypeOK
  <2>2. \A x \in Messages : Live(x)' => Live(x)
    BY <1>1 DEF Live, ReplyFails
  <2> QED BY <1>4, <2>1, <2>2, BarsKept DEF ReplyFails
<1>7. NoneRelit /\ OnlyDown
  BY DEF NoneRelit, OnlyDown, ReplyFails, NPTypeOK, Messages
<1> QED BY <1>2, <1>3, <1>5, <1>6, <1>7 DEF StepGood

LEMMA CardFailsKeeps ==
    ASSUME NPInv, CardFails
    PROVE  StepGood
<1> USE DEF NPInv, Parts
<1>0. "loop" \in Senders /\ NoSend.msg = None
  BY DEF Senders, NoSend
<1>1. PICK card \in {None, tailCard} : CardOver(card) /\ Retire(card)
  BY DEF CardFails
<1>2. /\ point = "sending" /\ point' = "playing" /\ sending' = [sending EXCEPT !["loop"] = NoSend]
      /\ tailCard' = IF card = None THEN tailCard ELSE None
      /\ deletes' = deletes \cup Deletes(card) /\ line' = line \o Strips(card)
      /\ gone' = gone \cup {sending["loop"].msg} /\ host' = host
  BY <1>1 DEF CardFails, CardOver, Answered, Retire
<1>3. card \in Messages \cup {None} /\ (card # None => Known(card) /\ card # host')
  BY <1>1, <1>2 DEF NPTypeOK, KnownOK, HostOK, CardOver
<1>4. sending'["loop"] = NoSend
  BY <1>0, <1>2 DEF NPTypeOK
<1>5. SendOK' /\ \A x : Known(x) => StillKnown(x)
  BY <1>0, <1>2, <1>4, SendKeeps DEF CardFails
<1>6. KnownOK' /\ HostOK' /\ CacheOK'
  <2>1. KnownOK'
    BY <1>2, <1>5 DEF CardFails, KnownOK, Known, StillKnown
  <2>2. HostOK'
    BY <1>2 DEF CardFails, HostOK
  <2>3. CacheOK'
    BY <1>2 DEF CardFails, CacheOK
  <2> QED BY <2>1, <2>2, <2>3
<1>7. PointOK'
  <2>1. song # None
    BY <1>2 DEF PointOK
  <2> QED BY <1>2, <2>1 DEF PointOK, CardFails
<1>8. LineStep({Job("strip", card, None)} \cap {j \in Jobs : j.msg # None}) /\ LineKept(1)
  BY <1>2, <1>3, LineStrips
<1>9. JobsOK' /\ LockOK'
  <2>1. ASSUME NEW j \in {Job("strip", card, None)} \cap {j \in Jobs : j.msg # None}
        PROVE  ~j.patching /\ StillKnown(j.msg) /\ j.msg \notin {None, host'}
    <3>1. ~j.patching /\ j.msg = card /\ card # None
      BY DEF Job
    <3> QED BY <1>3, <1>5, <3>1
  <2>3. \A x \in 1 .. sent : shows[x].live => shows'[x].live
    BY DEF CardFails
  <2> HIDE DEF NPInv, Parts
  <2>4. NPTypeOK /\ JobsOK /\ LockOK
    BY DEF NPInv, Parts
  <2> QED BY <1>2, <1>5, <1>8, <2>1, <2>3, <2>4, LineKeeps
<1>10. BarsAccounted'
  <2>1. ASSUME NEW x \in Messages, Live(x)', x = host \/ \E q \in Senders : sending[q].msg = x
        PROVE  x = host' \/ InHand(x)'
    <3>1. x # sending["loop"].msg
      BY <1>2, <2>1 DEF Live
    <3> QED BY <1>0, <1>2, <2>1, <3>1 DEF InHand, NPTypeOK
  <2>2. \A x \in Messages : Live(x)' => Live(x)
    BY <1>2 DEF Live, CardFails
  <2>3. /\ deletes \subseteq deletes'
        /\ \A x \in Messages : left[x] # "no" => left'[x] # "no"
    BY <1>2 DEF CardFails
  <2> QED BY <1>8, <2>1, <2>2, <2>3, BarsKept
<1>11. NoneRelit /\ OnlyDown
  BY <1>2 DEF NoneRelit, OnlyDown, CardFails, NPTypeOK, Messages
<1> QED BY <1>5, <1>6, <1>7, <1>9, <1>10, <1>11 DEF StepGood

LEMMA SongOverKeeps ==
    ASSUME NPInv, SongOver
    PROVE  StepGood
<1> USE DEF NPInv, Parts
<1>0. "loop" \in Senders /\ 1 .. sent \subseteq Messages
  BY NPAssumption DEF Senders, NPTypeOK, Messages
<1>1. /\ LineStep({}) /\ LineKept(1)
      /\ \A m \in Messages : shows'[m].live <=> shows[m].live
  BY Cancels DEF SongOver
<1>2. SendOK' /\ \A x : Known(x) => StillKnown(x)
  <2>1. sending'["loop"] # NoSend <=> point' = "sending"
    BY DEF SendOK, SongOver
  <2> QED BY <1>0, <1>1, <2>1, SendKeeps DEF SongOver
<1>3. KnownOK' /\ PointOK'
  BY <1>2 DEF SongOver, KnownOK, Known, StillKnown, PointOK
<1>4. HostOK' /\ CacheOK'
  BY <1>1 DEF SongOver, HostOK, CacheOK, NPTypeOK
<1>5. JobsOK' /\ LockOK'
  <2>1. \A x \in 1 .. sent : shows[x].live => shows'[x].live
    BY <1>0, <1>1
  <2> QED BY <1>1, <1>2, <2>1, LineKeeps DEF SongOver
<1>6. BarsAccounted'
  <2>1. \A x \in Messages : Live(x)' => Live(x)
    BY <1>1 DEF Live, SongOver
  <2>2. \A x \in Messages : x = host \/ (\E q \in Senders : sending[q].msg = x)
            => x = host' \/ InHand(x)'
    BY DEF InHand, SongOver
  <2> QED BY <1>1, <2>1, <2>2, BarsKept DEF SongOver
<1>7. NoneRelit /\ OnlyDown
  BY <1>0, <1>1 DEF NoneRelit, OnlyDown, SongOver, NPTypeOK, Messages
<1> QED BY <1>2, <1>3, <1>4, <1>5, <1>6, <1>7 DEF StepGood

LEMMA LoopFailsKeeps ==
    ASSUME NPInv, LoopFails
    PROVE  StepGood
<1> USE DEF NPInv, Parts
<1>0. "loop" \in Senders /\ 1 .. sent \subseteq Messages
  BY NPAssumption DEF Senders, NPTypeOK, Messages
<1>1. /\ LineStep({}) /\ LineKept(1)
      /\ \A m \in Messages : shows'[m].live <=> shows[m].live
  BY Cancels DEF LoopFails
<1>2. SendOK' /\ \A x : Known(x) => StillKnown(x)
  <2>1. sending'["loop"] # NoSend <=> point' = "sending"
    BY DEF SendOK, LoopFails
  <2> QED BY <1>0, <1>1, <2>1, SendKeeps DEF LoopFails
<1>3. host' = None /\ cache' = NoCache /\ song' = None /\ point' = "idle"
  BY DEF LoopFails, Release
<1>4. KnownOK' /\ PointOK' /\ HostOK' /\ CacheOK'
  BY <1>2, <1>3 DEF LoopFails, KnownOK, Known, StillKnown, PointOK, HostOK, CacheOK, NoCache
<1>5. JobsOK' /\ LockOK'
  <2>1. \A x \in 1 .. sent : shows[x].live => shows'[x].live
    BY <1>0, <1>1
  <2> QED BY <1>1, <1>2, <1>3, <2>1, LineKeeps
<1>6. BarsAccounted'
  <2>1. \A x \in Messages : Live(x)' => Live(x)
    BY <1>1 DEF Live, LoopFails
  <2>2. \A x \in Messages : left[x] # "no" => left'[x] # "no"
    BY DEF LoopFails, Leave, NPTypeOK
  <2>3. host # None => left'[host] # "no"
    BY DEF LoopFails, Leave, NPTypeOK
  <2>4. \A x \in Messages : x = host \/ (\E q \in Senders : sending[q].msg = x)
            => x = host' \/ InHand(x)' \/ left'[x] # "no"
    BY <2>3 DEF InHand, LoopFails, Messages, None
  <2> QED BY <1>1, <2>1, <2>2, <2>4, BarsKept DEF LoopFails
<1>7. NoneRelit /\ OnlyDown
  BY <1>0, <1>1, <1>3 DEF NoneRelit, OnlyDown
<1> QED BY <1>2, <1>4, <1>5, <1>6, <1>7 DEF StepGood

LEMMA StopBeginsKeeps ==
    ASSUME NPInv, StopBegins
    PROVE  StepGood
<1> USE DEF NPInv, Parts
<1>0. "loop" \in Senders /\ 1 .. sent \subseteq Messages
  BY NPAssumption DEF Senders, NPTypeOK, Messages
<1>1. /\ LineStep({}) /\ LineKept(1)
      /\ \A m \in Messages : shows'[m].live <=> shows[m].live
  BY Cancels DEF StopBegins
<1>2. sending' = [sending EXCEPT !["loop"] = NoSend] /\ sending'["loop"] = NoSend
  BY <1>0 DEF StopBegins, Answered, NPTypeOK
<1>3. SendOK' /\ \A x : Known(x) => StillKnown(x)
  BY <1>0, <1>1, <1>2, SendKeeps DEF StopBegins
<1>4. KnownOK' /\ PointOK'
  BY <1>3 DEF StopBegins, KnownOK, Known, StillKnown, PointOK
<1>5. HostOK' /\ CacheOK'
  BY <1>1 DEF StopBegins, HostOK, CacheOK, NPTypeOK
<1>6. JobsOK' /\ LockOK'
  <2>1. \A x \in 1 .. sent : shows[x].live => shows'[x].live
    BY <1>0, <1>1
  <2> QED BY <1>1, <1>3, <2>1, LineKeeps DEF StopBegins
<1>7. BarsAccounted'
  <2>1. \A x \in Messages : Live(x)' => Live(x)
    BY <1>1 DEF Live, StopBegins
  <2>2. \A x \in Messages : left[x] # "no" => left'[x] # "no"
    BY DEF StopBegins, Leave, NPTypeOK
  <2>3. ASSUME NEW x \in Messages, Live(x)', x = host \/ \E q \in Senders : sending[q].msg = x
        PROVE  x = host' \/ InHand(x)' \/ left'[x] # "no"
    <3>1. CASE x = host
      BY <3>1 DEF StopBegins
    <3>2. CASE \E q \in Senders \ {"loop"} : sending[q].msg = x
      BY <1>0, <1>2, <3>2 DEF InHand, NPTypeOK
    <3>3. CASE sending["loop"].msg = x
      <4>1. sending["loop"] # NoSend
        BY <3>3 DEF NoSend, Messages, None
      <4>2. sending["loop"].msg \in gone' \/ left'[x] = "cut"
        BY <3>3, <4>1 DEF StopBegins, Leave, NPTypeOK
      <4> QED BY <2>3, <3>3, <4>2 DEF Live
    <3> QED BY <2>3, <3>1, <3>2, <3>3
  <2> QED BY <1>1, <2>1, <2>2, <2>3, BarsKept DEF StopBegins
<1>8. NoneRelit /\ OnlyDown
  BY <1>0, <1>1 DEF NoneRelit, OnlyDown, StopBegins, NPTypeOK, Messages
<1> QED BY <1>3, <1>4, <1>5, <1>6, <1>7, <1>8 DEF StepGood

-----------------------------------------------------------------------------
\* The steps that leave the sends, and what messages show, alone.
LEMMA QuietSends ==
    ASSUME NPInv, UNCHANGED <<sending, sent, builtFor, shows>>,
           point' = point \/ (point # "sending" /\ point' # "sending")
    PROVE  /\ SendOK' /\ \A x : Known(x) => StillKnown(x)
           /\ \A x \in 1 .. sent : shows[x].live => shows'[x].live
           /\ NoneRelit
<1> USE DEF NPInv, Parts
<1>1. "loop" \in Senders /\ sending' = sending
  BY DEF Senders
<1>2. sending'["loop"] # NoSend <=> point' = "sending"
  BY DEF SendOK
<1>3. SendOK' /\ \A x : Known(x) => StillKnown(x)
  BY <1>1, <1>2, SendKeeps
<1> QED BY <1>3 DEF NoneRelit

LEMMA StartsSongKeeps ==
    ASSUME NPInv, StartsSong
    PROVE  StepGood
<1> USE DEF NPInv, Parts
<1>1. /\ SendOK' /\ \A x : Known(x) => StillKnown(x)
      /\ \A x \in 1 .. sent : shows[x].live => shows'[x].live
      /\ NoneRelit
  BY QuietSends DEF StartsSong
<1>2. host = None /\ host' = None /\ song' # None
  BY DEF StartsSong, PointOK, HostOK, NPTypeOK, None
<1>3. KnownOK' /\ PointOK' /\ HostOK' /\ CacheOK' /\ OnlyDown
  BY <1>1, <1>2 DEF StartsSong, KnownOK, Known, StillKnown, PointOK, HostOK, CacheOK, OnlyDown
<1>4. LineStep({}) /\ LineKept(1)
  BY LineStays DEF StartsSong
<1>5. JobsOK' /\ LockOK'
  BY <1>1, <1>2, <1>4, LineKeeps
<1>6. BarsAccounted'
  BY <1>4, BarsKept DEF StartsSong, Live, InHand
<1> QED BY <1>1, <1>3, <1>5, <1>6 DEF StepGood

\* The host is released, and its message handed to whoever takes its bar down.
LEMMA ReleaseKeeps ==
    ASSUME NPInv, UNCHANGED <<sending, sent, builtFor, shows, gone, left>>, Release,
           point # "sending", point' \in {"idle", "stopped"},
           song' = None \/ point' # "idle", tailCard' \in {tailCard, host},
           deletes \subseteq deletes',
           NEW j \in Jobs, LineStep({j} \cap {x \in Jobs : x.msg # None}), LineKept(1),
           ~j.patching, j.msg = host, NEW h, h = host, h # None => InHand(h)'
    PROVE  StepGood
<1> USE DEF NPInv, Parts
<1>0. host' = None /\ cache' = NoCache
  BY DEF Release
<1>1. /\ SendOK' /\ \A x : Known(x) => StillKnown(x)
      /\ \A x \in 1 .. sent : shows[x].live => shows'[x].live
      /\ NoneRelit
  BY QuietSends
<1>2. KnownOK'
  BY <1>0, <1>1 DEF KnownOK, Known, StillKnown, NoCache
<1>3. PointOK' /\ HostOK' /\ CacheOK' /\ OnlyDown
  BY <1>0 DEF PointOK, HostOK, CacheOK, OnlyDown, NoCache
<1>4. JobsOK' /\ LockOK'
  <2>1. ASSUME NEW x \in {j} \cap {x \in Jobs : x.msg # None}
        PROVE  ~x.patching /\ StillKnown(x.msg) /\ x.msg \notin {None, host'}
    BY <1>0, <1>1 DEF KnownOK
  <2> HIDE DEF NPInv, Parts
  <2>2. NPTypeOK /\ JobsOK /\ LockOK
    BY DEF NPInv, Parts
  <2> QED BY <1>0, <1>1, <2>1, <2>2, LineKeeps
<1>5. BarsAccounted'
  <2>1. \A x \in Messages : Live(x)' => Live(x)
    BY DEF Live
  <2>2. ASSUME NEW x \in Messages, x = host \/ \E q \in Senders : sending[q].msg = x
        PROVE  InHand(x)'
    <3>1. x # None
      BY DEF Messages, None
    <3> QED BY <2>2, <3>1 DEF InHand
  <2> QED BY <2>1, <2>2, BarsKept
<1> QED BY <1>1, <1>2, <1>3, <1>4, <1>5 DEF StepGood

\* The host is released and retired.
LEMMA RetiresKeeps ==
    ASSUME NPInv, UNCHANGED <<sending, sent, builtFor, shows, gone, left>>, Release, Retire(host),
           point # "sending", point' \in {"idle", "stopped"},
           song' = None \/ point' # "idle", tailCard' \in {tailCard, host}
    PROVE  StepGood
<1>1. host \in Messages \cup {None} /\ NPTypeOK
  BY DEF NPInv, NPTypeOK
<1>h. PICK h \in Messages \cup {None} : h = host
  BY <1>1
<1>2. PICK j \in Jobs : j = Job("strip", h, None)
  BY JobTypes
<1>3. ~j.patching /\ j.msg = host /\ j.kind = "strip"
  BY <1>h, <1>2 DEF Job
<1>4. deletes' = deletes \cup Deletes(h) /\ line' = line \o Strips(h)
  BY <1>h DEF Retire
<1>5. /\ LineStep({j} \cap {x \in Jobs : x.msg # None}) /\ LineKept(1)
      /\ h # None /\ h \notin dedicated => \E k \in 1 .. Len(line') : line'[k] = j
  BY <1>1, <1>2, <1>4, LineStrips
<1>6. h # None => InHand(h)'
  BY <1>h, <1>3, <1>4, <1>5 DEF InHand, Deletes
<1> QED BY <1>h, <1>3, <1>4, <1>5, <1>6, ReleaseKeeps

LEMMA SettlesKeeps ==
    ASSUME NPInv, Settles
    PROVE  StepGood
<1> USE DEF NPInv, Parts
<1>0. /\ Release /\ UNCHANGED <<sending, sent, builtFor, shows, gone, left>>
      /\ point # "sending" /\ point' = "idle" /\ song' = None
      /\ host \in Messages \cup {None} /\ song \in Songs \cup {None}
  BY DEF Settles, NPTypeOK
<1>h. PICK h \in Messages \cup {None} : h = host
  BY <1>0
<1>1. CASE line' = LastEditWaits(host) /\ tailCard' \in {tailCard, host} /\ UNCHANGED deletes /\ host # None
  <2>1. PICK j \in Jobs : j = Job("final", host, song)
    BY <1>0, JobTypes
  <2>2. LineStep({j}) /\ LineKept(1) /\ \E k \in 1 .. Len(line') : line'[k] = j
    BY <1>1, <2>1, LineQueues DEF LastEditWaits
  <2>3. ~j.patching /\ j.msg = h /\ j.kind = "final" /\ h # None
    BY <1>h, <1>1, <2>1 DEF Job
  <2>4. {j} = {j} \cap {x \in Jobs : x.msg # None}
    BY <2>3
  <2>5. InHand(h)'
    BY <2>2, <2>3 DEF InHand
  <2>6. LineStep({j} \cap {x \in Jobs : x.msg # None})
    BY <2>2, <2>4
  <2> QED BY <1>0, <1>h, <1>1, <2>2, <2>3, <2>5, <2>6, ReleaseKeeps
<1>2. CASE Retire(host) /\ tailCard' \in {tailCard, host}
  BY <1>0, <1>2, RetiresKeeps
<1>3. CASE host = None /\ UNCHANGED <<line, deletes, tailCard>>
  <2>1. Retire(host)
    BY <1>3 DEF Retire, Deletes, Strips, NPTypeOK, Messages, None
  <2> QED BY <1>0, <1>3, <2>1, RetiresKeeps
<1> QED BY <1>1, <1>2, <1>3 DEF Settles

LEMMA StopRetiresKeeps ==
    ASSUME NPInv, StopRetires
    PROVE  StepGood
BY RetiresKeeps DEF StopRetires

-----------------------------------------------------------------------------
\* The steps that leave the host, the sends and the bars alone: a job queues up, or a
\* message is deleted.
LEMMA QuietKeeps ==
    ASSUME NPInv, UNCHANGED <<song, point, host, cache, tailCard, sending, sent, builtFor, shows>>,
           NEW new \in SUBSET Jobs, LineStep(new), LineKept(1),
           \A j \in new : ~j.patching /\ j.msg = None /\ j.kind \in {"tick", "edit"},
           gone \subseteq gone',
           \A x \in deletes : x \in deletes' \/ x \in gone' \/ left'[x] # "no",
           \A x \in Messages : left[x] # "no" => left'[x] # "no"
    PROVE  StepGood
<1> USE DEF NPInv, Parts
<1>1. /\ SendOK' /\ \A x : Known(x) => StillKnown(x)
      /\ \A x \in 1 .. sent : shows[x].live => shows'[x].live
      /\ NoneRelit
  BY QuietSends
<1>2. KnownOK'
  BY <1>1 DEF KnownOK, Known, StillKnown
<1>3. PointOK' /\ HostOK' /\ CacheOK' /\ OnlyDown
  BY DEF PointOK, HostOK, CacheOK, OnlyDown, NPTypeOK, Messages
<1>4. JobsOK' /\ LockOK'
  <2> HIDE DEF NPInv, Parts
  <2>1. NPTypeOK /\ JobsOK /\ LockOK
    BY DEF NPInv, Parts
  <2>2. host' = host
    OBVIOUS
  <2> QED BY <1>1, <2>1, <2>2, LineKeeps
<1>5. BarsAccounted'
  <2>1. \A x \in Messages : Live(x)' => Live(x)
    BY DEF Live
  <2>2. \A x \in Messages : x = host \/ (\E q \in Senders : sending[q].msg = x)
            => x = host' \/ InHand(x)'
    BY DEF InHand
  <2>3. \A x \in deletes : x \in deletes' \/ ~Live(x)' \/ left'[x] # "no"
    BY DEF Live
  <2> QED BY <2>1, <2>2, <2>3, BarsKept
<1> QED BY <1>1, <1>2, <1>3, <1>4, <1>5 DEF StepGood

LEMMA QueuesKeep ==
    ASSUME NPInv, TickWakes \/ DebouncedEdit
    PROVE  StepGood
<1>1. NPTypeOK /\ song \in Songs \cup {None}
  BY DEF NPInv, NPTypeOK
<1>2. PICK k \in {"tick", "edit"} : line' = Append(line, Job(k, None, song))
  BY DEF TickWakes, DebouncedEdit
<1>3. PICK j \in Jobs : j = Job(k, None, song)
  BY <1>1, JobTypes
<1>4. LineStep({j}) /\ LineKept(1)
  BY <1>1, <1>2, <1>3, LineQueues
<1>5. ~j.patching /\ j.msg = None /\ j.kind \in {"tick", "edit"}
  BY <1>3 DEF Job
<1> QED BY <1>4, <1>5, QuietKeeps DEF TickWakes, DebouncedEdit

LEMMA DeletesKeep ==
    ASSUME NPInv, DeleteLands \/ UserDeletes
    PROVE  StepGood
<1>1. LineStep({}) /\ LineKept(1)
  BY LineStays DEF NPInv, DeleteLands, UserDeletes
<1>2. CASE DeleteLands
  <2>1. deletes \subseteq Messages
    BY NPAssumption DEF NPInv, NPTypeOK, Messages
  <2>2. \A x \in deletes : x \in deletes' \/ x \in gone' \/ left'[x] # "no"
    BY <1>2, <2>1 DEF DeleteLands, Leave, NPInv, NPTypeOK
  <2>3. \A x \in Messages : left[x] # "no" => left'[x] # "no"
    BY <1>2 DEF DeleteLands, Leave, NPInv, NPTypeOK
  <2>4. gone \subseteq gone'
    BY <1>2 DEF DeleteLands
  <2> QED BY <1>1, <1>2, <2>2, <2>3, <2>4, QuietKeeps DEF DeleteLands
<1>3. CASE UserDeletes
  <2>1. gone \subseteq gone'
    BY <1>3 DEF UserDeletes
  <2> QED BY <1>1, <1>3, <2>1, QuietKeeps DEF UserDeletes
<1> QED BY <1>2, <1>3

\* The head of the line, and what is known of it.
LEMMA HeadJob ==
    ASSUME NPInv, line # <<>>
    PROVE  /\ Head(line) = line[1] /\ line[1] \in Jobs /\ 1 \in 1 .. Len(line)
           /\ line[1].msg # None => Known(line[1].msg) /\ line[1].msg \in Messages
           /\ line[1].kind \in {"final", "strip"} => line[1].msg \notin {None, host}
           /\ line[1].patching => line[1].msg # None
           /\ line[1].patching /\ line[1].kind \in {"tick", "edit"} => shows[line[1].msg].live
           /\ line[1].kind \in {"tick", "edit", "final", "strip"}
<1>1. Head(line) = line[1] /\ line[1] \in Jobs /\ 1 \in 1 .. Len(line)
  BY EmptySeq, ElementOfSeq DEF NPInv, NPTypeOK
<1>2. 1 .. sent \subseteq Messages
  BY NPAssumption DEF NPInv, NPTypeOK, Messages
<1>3. /\ line[1].msg # None => Known(line[1].msg)
      /\ line[1].kind \in {"final", "strip"} => line[1].msg \notin {None, host}
  BY <1>1 DEF NPInv, Parts, JobsOK
<1>4. line[1].patching => line[1].msg # None /\ (line[1].kind \in {"tick", "edit"} => shows[line[1].msg].live)
  BY DEF NPInv, Parts, LockOK
<1>5. line[1].kind \in {"tick", "edit", "final", "strip"}
  BY <1>1 DEF Jobs
<1> QED BY <1>1, <1>2, <1>3, <1>4, <1>5 DEF Known

\* The lock is passed on.
LEMMA PassesKeep ==
    ASSUME NPInv, line # <<>>, PassOn(line[1]),
           \A x : Known(x) => StillKnown(x), host' \in {None, host}
    PROVE  JobsOK' /\ LockOK' /\ LineKept(2)
<1>1. NPTypeOK /\ JobsOK /\ LockOK /\ line' = Tail(line)
  BY DEF NPInv, Parts, PassOn
<1>2. LineStep({}) /\ LineKept(2) /\ \A k \in 1 .. Len(line') : ~line'[k].patching
  BY <1>1, LinePasses
<1> QED BY <1>1, <1>2, LineKeeps

LEMMA EditStartsKeeps ==
    ASSUME NPInv, EditStarts
    PROVE  StepGood
<1> USE DEF NPInv, Parts
<1> DEFINE j == line[1]
<1>1. /\ line # <<>> /\ Head(line) = j /\ j \in Jobs /\ 1 \in 1 .. Len(line)
      /\ j.msg # None => Known(j.msg) /\ j.msg \in Messages
      /\ j.kind \in {"final", "strip"} => j.msg \notin {None, host}
      /\ j.kind \in {"tick", "edit", "final", "strip"}
  BY HeadJob DEF EditStarts
<1>2. /\ SendOK' /\ \A x : Known(x) => StillKnown(x)
      /\ \A x \in 1 .. sent : shows[x].live => shows'[x].live
      /\ NoneRelit
  BY QuietSends DEF EditStarts
<1>3. KnownOK'
  BY <1>2 DEF EditStarts, KnownOK, Known, StillKnown
<1>4. PointOK' /\ HostOK' /\ CacheOK' /\ OnlyDown
  BY DEF EditStarts, PointOK, HostOK, CacheOK, OnlyDown, NPTypeOK, Messages
<1>5. /\ \A x \in Messages : Live(x)' => Live(x)
      /\ \A x \in Messages : x = host \/ (\E q \in Senders : sending[q].msg = x)
            => x = host' \/ InHand(x)'
  BY DEF EditStarts, Live, InHand
<1>6. CASE PassOn(j) /\ (Target(j) = None \/ (j.kind # "strip" /\ cache = [msg |-> Target(j), bar |-> Payload(j)]))
  <2>1. JobsOK' /\ LockOK' /\ LineKept(2)
    BY <1>1, <1>2, <1>6, PassesKeep DEF EditStarts
  <2>2. ASSUME NEW m \in Messages, line[1].msg = m, line[1].kind \in {"final", "strip"}
        PROVE  ~Live(m)'
    <3>1. Target(j) = m /\ m # None /\ j.kind = "final"
      BY <1>1, <1>6, <2>2 DEF Target
    <3>2. cache.msg = m /\ cache.bar = LastBar(j.song)
      BY <1>6, <3>1 DEF Payload
    <3>3. ~shows[m].live
      BY <3>1, <3>2 DEF CacheOK, LastBar
    <3> QED BY <3>3 DEF Live, EditStarts
  <2>3. BarsAccounted'
    BY <1>5, <2>1, <2>2, BarsKept DEF EditStarts
  <2> QED BY <1>2, <1>3, <1>4, <2>1, <2>3 DEF StepGood
<1>7. CASE Target(j) # None /\ line' = [line EXCEPT ![1].patching = TRUE, ![1].msg = Target(j)]
  <2>1. /\ line' \in Seq(Jobs) /\ Len(line') = Len(line)
        /\ \A i \in 1 .. Len(line) : line'[i] = IF i = 1 THEN [j EXCEPT !.patching = TRUE, !.msg = Target(j)] ELSE line[i]
    <3>1. [j EXCEPT !.patching = TRUE, !.msg = Target(j)] \in Jobs
      BY <1>1 DEF Jobs, Target, NPTypeOK
    <3>2. line' = [line EXCEPT ![1] = [j EXCEPT !.patching = TRUE, !.msg = Target(j)]]
      BY <1>1, <1>7 DEF NPTypeOK
    <3> QED BY <1>1, <3>1, <3>2, ExceptSeq DEF NPTypeOK
  <2>2. line'[1].msg = Target(j) /\ line'[1].kind = j.kind /\ line'[1].patching
    <3>1. line'[1] = [j EXCEPT !.patching = TRUE, !.msg = Target(j)] /\ j \in Jobs
      BY <1>1, <2>1
    <3>2. PICK t : t = Target(j)
      OBVIOUS
    <3> HIDE DEF j
    <3>3. j = [kind |-> j.kind, msg |-> j.msg, song |-> j.song, patching |-> j.patching]
      BY <3>1 DEF Jobs
    <3>4. line'[1] = [kind |-> j.kind, msg |-> t, song |-> j.song, patching |-> TRUE]
      BY <3>1, <3>2, <3>3
    <3> QED BY <3>2, <3>4
  <2>3. Known(Target(j)) /\ (j.kind \in {"tick", "edit"} => Target(j) = host) /\ (j.kind \in {"final", "strip"} => Target(j) = j.msg)
    BY <1>1, <1>7 DEF Target, KnownOK
  <2>4. Len(line) \in Nat
    BY DEF NPTypeOK
  <2> HIDE DEF j
  <2>5. ASSUME NEW i \in 1 .. Len(line')
        PROVE  /\ line'[i].msg # None => StillKnown(line'[i].msg)
               /\ line'[i].kind \in {"final", "strip"} => line'[i].msg \notin {None, host'}
    <3>1. CASE i = 1
      BY <1>1, <1>2, <2>2, <2>3, <3>1 DEF EditStarts
    <3>2. CASE i # 1
      BY <1>2, <2>1, <3>2 DEF JobsOK, EditStarts
    <3> QED BY <3>1, <3>2
  <2>6. JobsOK'
    BY <2>5 DEF JobsOK, Known, StillKnown
  <2>7. LockOK'
    <3>1. \A i \in 2 .. Len(line') : ~line'[i].patching
      BY <2>1, <2>4 DEF LockOK
    <3>2. line'[1].msg # None /\ (line'[1].kind \in {"tick", "edit"} => shows'[line'[1].msg].live)
      BY <1>7, <2>2, <2>3 DEF HostOK, EditStarts
    <3> QED BY <3>1, <3>2 DEF LockOK
  <2>8. BarsAccounted'
    <3>1. ASSUME NEW m \in Messages, InHand(m) PROVE InHand(m)'
      <4>1. CASE \E i \in 1 .. Len(line) : line[i].kind \in {"final", "strip"} /\ line[i].msg = m
        <5>1. PICK i \in 1 .. Len(line) : line[i].kind \in {"final", "strip"} /\ line[i].msg = m
          BY <4>1
        <5>2. line'[i].kind \in {"final", "strip"} /\ line'[i].msg = m
          BY <2>1, <2>2, <2>3, <5>1 DEF j
        <5>3. i \in 1 .. Len(line')
          BY <2>1
        <5> QED BY <5>2, <5>3 DEF InHand
      <4> QED BY <3>1, <4>1 DEF InHand, EditStarts
    <3> QED BY <1>5, <3>1 DEF BarsAccounted, EditStarts
  <2> QED BY <1>2, <1>3, <1>4, <2>6, <2>7, <2>8 DEF StepGood
<1> QED BY <1>1, <1>6, <1>7 DEF EditStarts

LEMMA EditLandsKeeps ==
    ASSUME NPInv, EditLands
    PROVE  StepGood
<1> USE DEF NPInv, Parts
<1> DEFINE j == line[1]
<1>0. "loop" \in Senders /\ 1 .. sent \subseteq Messages /\ \A m \in Messages : m # None
  BY NPAssumption DEF Senders, NPTypeOK, Messages, None
<1>1. /\ line # <<>> /\ Head(line) = j /\ j \in Jobs
      /\ j.msg # None /\ Known(j.msg) /\ j.msg \in Messages
      /\ j.kind \in {"final", "strip"} => j.msg # host
      /\ j.kind \in {"tick", "edit"} => shows[j.msg].live
      /\ j.kind \in {"tick", "edit", "final", "strip"}
  BY HeadJob DEF EditLands
<1>2. /\ j.msg \notin gone /\ PassOn(j)
      /\ cache' = IF j.kind = "strip" THEN cache ELSE [msg |-> j.msg, bar |-> Payload(j)]
      /\ shows' = [shows EXCEPT ![j.msg] = Payload(j)]
  BY <1>1 DEF EditLands
<1>3. Payload(j).live <=> j.kind \in {"tick", "edit"}
  BY <1>1 DEF Payload, NoBar, LastBar, LiveBar
<1> HIDE DEF j
<1>4. /\ shows'[j.msg] = Payload(j)
      /\ \A m \in Messages \ {j.msg} : shows'[m] = shows[m]
      /\ \A m \in Messages : ~shows[m].live => ~shows'[m].live
  BY <1>1, <1>2, <1>3 DEF NPTypeOK
<1>5. SendOK' /\ \A x : Known(x) => StillKnown(x)
  <2>1. \A m \in Messages :
               shows[m].live /\ (\E r \in Senders : sending[r].msg = m) => shows'[m].live
    BY <1>1, <1>4 DEF Known
  <2>2. sending'["loop"] # NoSend <=> point' = "sending"
    BY DEF SendOK, EditLands
  <2> QED BY <1>0, <2>1, <2>2, SendKeeps DEF EditLands
<1>6. KnownOK'
  BY <1>1, <1>2, <1>5 DEF EditLands, KnownOK, Known, StillKnown
<1>7. PointOK' /\ OnlyDown /\ NoneRelit
  BY <1>0, <1>4 DEF EditLands, PointOK, OnlyDown, NoneRelit, NPTypeOK, Messages
<1>8. HostOK'
  <2>1. host # None => shows'[host].live
    BY <1>1, <1>3, <1>4 DEF HostOK, NPTypeOK
  <2> QED BY <2>1 DEF HostOK, EditLands
<1>9. CacheOK'
  <2>1. CASE j.kind = "strip"
    <3>1. cache' = cache /\ j.msg # host
      BY <1>1, <1>2, <2>1
    <3>2. cache.msg # None => cache.msg \in Messages
      BY <1>0 DEF KnownOK, Known
    <3> QED BY <1>1, <1>4, <3>1, <3>2 DEF CacheOK, EditLands, NPTypeOK
  <2>2. CASE j.kind # "strip"
    <3>1. cache'.msg = j.msg /\ cache'.bar = Payload(j)
      BY <1>2, <2>2
    <3> QED BY <1>4, <3>1 DEF CacheOK
  <2> QED BY <2>1, <2>2
<1>10. JobsOK' /\ LockOK' /\ LineKept(2)
  BY <1>1, <1>2, <1>5, PassesKeep DEF EditLands, j
<1>11. BarsAccounted'
  <2>1. ASSUME NEW m \in Messages, line[1].msg = m, line[1].kind \in {"final", "strip"}
        PROVE  ~Live(m)'
    BY <1>3, <1>4, <2>1 DEF Live, j
  <2>2. \A x \in Messages : Live(x)' => Live(x)
    BY <1>4 DEF Live, EditLands
  <2>3. \A x \in Messages : x = host \/ (\E q \in Senders : sending[q].msg = x)
            => x = host' \/ InHand(x)'
    BY DEF EditLands, InHand
  <2> QED BY <1>10, <2>1, <2>2, <2>3, BarsKept DEF EditLands
<1> QED BY <1>5, <1>6, <1>7, <1>8, <1>9, <1>10, <1>11 DEF StepGood

LEMMA EditFindsNoneKeeps ==
    ASSUME NPInv, EditFindsNone
    PROVE  StepGood
<1> USE DEF NPInv, Parts
<1> DEFINE j == line[1]
<1>1. line # <<>> /\ Head(line) = j /\ j.msg \in gone /\ PassOn(j)
  BY HeadJob DEF EditFindsNone
<1>2. \/ host' = host /\ cache' = cache
      \/ host' = None /\ cache' = NoCache /\ host = j.msg
  BY <1>1 DEF EditFindsNone, Release
<1>3. /\ SendOK' /\ \A x : Known(x) => StillKnown(x)
      /\ \A x \in 1 .. sent : shows[x].live => shows'[x].live
      /\ NoneRelit
  BY QuietSends DEF EditFindsNone
<1>4. KnownOK'
  BY <1>2, <1>3 DEF EditFindsNone, KnownOK, Known, StillKnown, NoCache
<1>5. PointOK' /\ HostOK' /\ CacheOK' /\ OnlyDown
  BY <1>2 DEF EditFindsNone, PointOK, HostOK, CacheOK, OnlyDown, NoCache, NPTypeOK, Messages
<1>6. JobsOK' /\ LockOK' /\ LineKept(2)
  BY <1>1, <1>2, <1>3, PassesKeep
<1>7. BarsAccounted'
  <2>1. ~Live(j.msg) /\ \A x \in Messages : Live(x)' => Live(x)
    BY <1>1 DEF Live, EditFindsNone
  <2>2. \A x \in Messages : Live(x)' /\ (x = host \/ (\E q \in Senders : sending[q].msg = x))
            => x = host' \/ InHand(x)'
    BY <1>2, <2>1 DEF EditFindsNone, InHand
  <2> QED BY <1>6, <2>1, <2>2, BarsKept DEF EditFindsNone
<1> QED BY <1>3, <1>4, <1>5, <1>6, <1>7 DEF StepGood

LEMMA EditFailsKeeps ==
    ASSUME NPInv, EditFails
    PROVE  StepGood
<1> USE DEF NPInv, Parts
<1> DEFINE j == line[1]
<1>1. /\ line # <<>> /\ Head(line) = j /\ PassOn(j) /\ UNCHANGED <<host, cache>>
      /\ IF j.kind \in {"final", "strip"} THEN Leave(j.msg, "refused") ELSE UNCHANGED left
  BY HeadJob DEF EditFails, Forgets
<1>2. /\ SendOK' /\ \A x : Known(x) => StillKnown(x)
      /\ \A x \in 1 .. sent : shows[x].live => shows'[x].live
      /\ NoneRelit
  BY QuietSends DEF EditFails
<1>3. KnownOK'
  BY <1>1, <1>2 DEF EditFails, KnownOK, Known, StillKnown
<1>4. PointOK' /\ HostOK' /\ CacheOK' /\ OnlyDown
  BY <1>1 DEF EditFails, PointOK, HostOK, CacheOK, OnlyDown, NPTypeOK, Messages
<1>5. JobsOK' /\ LockOK' /\ LineKept(2)
  BY <1>1, <1>2, PassesKeep
<1>6. BarsAccounted'
  <2>1. \A x \in Messages : left[x] # "no" => left'[x] # "no"
    BY <1>1 DEF Leave, NPTypeOK
  <2>2. ASSUME NEW m \in Messages, line[1].msg = m, line[1].kind \in {"final", "strip"}
        PROVE  left'[m] # "no"
    BY <1>1, <2>2 DEF Leave, NPTypeOK
  <2>3. /\ \A x \in Messages : Live(x)' => Live(x)
        /\ \A x \in Messages : x = host \/ (\E q \in Senders : sending[q].msg = x)
            => x = host' \/ InHand(x)'
    BY DEF EditFails, Live, InHand
  <2> QED BY <1>5, <2>1, <2>2, <2>3, BarsKept DEF EditFails
<1> QED BY <1>2, <1>3, <1>4, <1>5, <1>6 DEF StepGood

-----------------------------------------------------------------------------
(* The theorems.                                                           *)

LEMMA NPInit_Inv == NPInit => NPInv
<1> SUFFICES ASSUME NPInit PROVE NPInv
  OBVIOUS
<1> USE NPAssumption DEF NPInit
<1>1. NPTypeOK
  <2>1. NoBar \in Bars /\ NoSend \in [msg : Messages \cup {None}, song : Songs \cup {None}]
    BY DEF NoBar, Bars, NoSend
  <2>2. sending \in [Senders -> [msg : Messages \cup {None}, song : Songs \cup {None}]]
    BY <2>1
  <2>3. NoCache \in [msg : Messages \cup {None}, bar : Bars]
    BY <2>1 DEF NoCache
  <2> QED BY <2>1, <2>2, <2>3 DEF NPTypeOK
<1>2. KnownOK /\ PointOK /\ HostOK /\ CacheOK
  BY DEF KnownOK, PointOK, HostOK, CacheOK, NoCache
<1>3. SendOK
  BY DEF SendOK, NoSend, Senders
<1>4. JobsOK /\ LockOK
  BY DEF JobsOK, LockOK
<1>5. BarsAccounted
  BY DEF BarsAccounted, Live, NoBar
<1> QED BY <1>1, <1>2, <1>3, <1>4, <1>5 DEF NPInv, Parts

LEMMA NPNext_Good ==
    ASSUME NPInv, NPNext
    PROVE  NPInv' /\ NoneRelit /\ OnlyDown
<1>1. NPTypeOK'
  BY TypesKept DEF NPInv, Parts
<1>2. StepGood
  BY ReplyKeeps, ReplyReturnsKeeps, ReplyFailsKeeps, StartsSongKeeps, SendsCardKeeps, CardUpKeeps,
     CardFailsKeeps, SongOverKeeps, SettlesKeeps, LoopFailsKeeps, StopBeginsKeeps, StopRetiresKeeps,
     EditStartsKeeps, EditLandsKeeps, EditFindsNoneKeeps, EditFailsKeeps, DeletesKeep, QueuesKeep
     DEF NPNext, Loop, Lock
<1> QED BY <1>1, <1>2 DEF StepGood, NPInv

LEMMA NPStutters ==
    ASSUME NPInv, UNCHANGED npVars
    PROVE  NPInv'
<1> USE DEF npVars
<1>1. NPTypeOK' /\ KnownOK' /\ SendOK'
  BY DEF NPInv, Parts, NPTypeOK, KnownOK, Known, SendOK
<1>2. PointOK' /\ HostOK' /\ CacheOK' /\ JobsOK' /\ LockOK'
  BY DEF NPInv, Parts, PointOK, HostOK, CacheOK, JobsOK, Known, LockOK
<1>3. BarsAccounted'
  BY DEF NPInv, Parts, BarsAccounted, Live, InHand
<1> QED BY <1>1, <1>2, <1>3 DEF NPInv, Parts

\* The invariant holds throughout: the host's bar is live and of the current song, only
\* the holder of the edit lock has a request out, and what was pushed last is on the
\* message it was pushed to (the host pointer, the lock and the render cache of _np_*).
THEOREM NPInvHolds == NPSpec => []NPInv
<1>1. NPInv /\ [NPNext]_npVars => NPInv'
  BY NPNext_Good, NPStutters
<1> QED BY NPInit_Inv, <1>1, PTL DEF NPSpec

\* Every variable of the Now Playing block keeps its type, through sends, adoptions,
\* edits, cancellations and deletions of any number of messages and songs.
THEOREM NowPlayingTypeCorrect == NPSpec => []NPTypeOK
BY NPInvHolds, PTL DEF NPInv

\* A message with a live progress bar is the host, or somebody is about to take its bar
\* down, or it is one the code is known to leave behind: no interleaving of replies,
\* boundaries, pauses and stops loses another (_adopt_np_host, _retire_np_host).
THEOREM EveryBarAccounted == NPSpec => []BarsAccounted
BY NPInvHolds, PTL DEF NPInv, Parts

\* While a song plays, the render cache only skips an edit that would write what the host
\* shows already (_push_np_edit, _np_last_rendered).
THEOREM OnlySkipsTheSame == NPSpec => []SkipsOnlyTheSame
<1>1. NPInv => SkipsOnlyTheSame
  BY DEF NPInv, Parts, CacheOK, SkipsOnlyTheSame
<1> QED BY NPInvHolds, <1>1, PTL

\* A message that was stripped or has its last bar is never lit again, whatever edit was
\* in flight or in line (the reason for _np_edit_lock).
THEOREM RetiredStaysDark == NPSpec => NoResurrection
<1>1. NPInv /\ [NPNext]_npVars => [\A m \in 1 .. sent : ~shows[m].live => ~shows'[m].live]_npVars
  BY NPNext_Good DEF NoneRelit
<1> QED BY NPInvHolds, <1>1, PTL DEF NPSpec, NoResurrection

\* The host only moves down the channel, whatever order the sends return in
\* (_adopt_np_host compares the ids).
THEOREM HostMovesDown == NPSpec => BlockMovesDown
<1>1. NPInv /\ [NPNext]_npVars => [host # None /\ host' # None => host' >= host]_npVars
  BY NPNext_Good DEF OnlyDown
<1> QED BY NPInvHolds, <1>1, PTL DEF NPSpec, BlockMovesDown
=============================================================================
