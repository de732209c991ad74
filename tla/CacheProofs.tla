---------------------------- MODULE CacheProofs ----------------------------
(***************************************************************************)
(* The three things the bot keeps a copy of, each for any number of tasks: a      *)
(* song's stream URL, a guild's debug choice, Spotify's bearer token.            *)
(*                                                                         *)
(* Stream URLs: an extraction's URL is its own until it is cached, so whoever     *)
(* finds a cached one dead still has it in hand when it is to be dropped, and a   *)
(* fresh one that is dead was never cached.                                  *)
(*                                                                         *)
(* Debug choices: what a pass of hydrate() has read is what Redis still holds, or   *)
(* older than a toggle that ended since.                                     *)
(*                                                                         *)
(* The token: a refresh is followed through its awaits, none longer than slowest;   *)
(* what the shared copy keeps in hand only the three awaits use up.               *)
(***************************************************************************)
EXTENDS StreamCache, DebugChoices, SpotifyToken, TLAPS

-----------------------------------------------------------------------------
(* Stream URLs.                                                            *)

AskerAts == {"reading", "extracting", "probing", "caching", "dropping", "burying", "playing"}
              \cup StreamEnds

\* The shape of the variables.
StreamShape ==
    /\ warmers \subseteq Helpers
    /\ entry \in [url : 0 .. minted, dead : BOOLEAN, kept : BOOLEAN]
    /\ minted \in Nat
    /\ revoked \subseteq 1 .. minted
    /\ streak \in 0 .. StreakLimit
    /\ asker \in [Askers -> [at : AskerAts, url : 0 .. minted, fresh : BOOLEAN,
                             spent : 0 .. ExtractBudget]]
    /\ doubtDrops \in Nat

\* An asker has extracted when its URL is fresh, and then never looks at a cached one
\* again; a refused URL was fresh.
FreshOK ==
    \A a \in Askers :
        /\ (asker[a].fresh <=> asker[a].spent > 0)
        /\ asker[a].at \in {"reading", "dropping"} => ~asker[a].fresh
        /\ asker[a].at = "extracting" => asker[a].spent < ExtractBudget
        /\ asker[a].at = "caching" => asker[a].fresh
        /\ asker[a].at = "probing" /\ a \in warmers => asker[a].fresh
        /\ asker[a].at = "refused" /\ a \notin warmers =>
             asker[a].fresh /\ asker[a].url \in revoked

\* A URL that is to be cached is nobody else's yet.
Uncached(a) == asker[a].at \in {"probing", "caching"} /\ asker[a].fresh
OwnOK ==
    \A a \in Askers : Uncached(a) =>
        /\ asker[a].url # NoUrl /\ asker[a].url # entry.url
        /\ \A b \in Askers : Uncached(b) /\ asker[b].url = asker[a].url => a = b

\* Every drop on doubt was of a probe in the streak.
DoubtOK == doubtDrops <= streak /\ doubtDrops < StreakLimit

StreamInv == StreamShape /\ FreshOK /\ OwnOK /\ DeadLeavesCache /\ DoubtOK

LEMMA StreamInitially == StreamInit => StreamInv
<1> SUFFICES ASSUME StreamInit PROVE StreamInv
  OBVIOUS
<1> USE StreamAssumption DEF StreamInit, NoUrl, NoEntry
<1>0. PICK blind \in SUBSET warmers :
         asker = [a \in Askers |-> Idle(IF a \in blind THEN "extracting" ELSE "reading")]
  OBVIOUS
<1>1. \A a \in Askers : asker[a].at \in {"reading", "extracting"} /\ asker[a].url = 0
                        /\ asker[a].fresh = FALSE /\ asker[a].spent = 0
  BY <1>0 DEF Idle
<1>2. StreamShape
  <2>0. entry \in [url : 0 .. minted, dead : BOOLEAN, kept : BOOLEAN] /\ streak \in 0 .. StreakLimit
    OBVIOUS
  <2>1. asker \in [Askers -> [at : AskerAts, url : 0 .. minted, fresh : BOOLEAN, spent : 0 .. ExtractBudget]]
    BY <1>0 DEF Idle, AskerAts
  <2> QED BY <2>0, <2>1 DEF StreamShape
<1>3. FreshOK /\ OwnOK
  <2>1. FreshOK
    <3> SUFFICES ASSUME NEW a \in Askers
                 PROVE  /\ asker[a].spent < ExtractBudget /\ (asker[a].fresh <=> asker[a].spent > 0) /\ ~asker[a].fresh
                        /\ asker[a].at \in {"reading", "extracting"}
                        /\ asker[a].at = "probing" => asker[a].fresh
      BY DEF FreshOK
    <3> QED BY <1>1
  <2>2. OwnOK
    BY <1>1 DEF OwnOK, Uncached
  <2> QED BY <2>1, <2>2
<1>4. DeadLeavesCache /\ DoubtOK
  BY DEF DeadLeavesCache, DoubtOK
<1> QED BY <1>2, <1>3, <1>4 DEF StreamInv

\* What a turn of an asker does to it.
LEMMA Parking ==
    ASSUME StreamShape, NEW a \in Askers, NEW at \in AskerAts, Parks(a, at)
    PROVE  /\ asker' \in [Askers -> [at : AskerAts, url : 0 .. minted, fresh : BOOLEAN,
                                     spent : 0 .. ExtractBudget]]
           /\ asker'[a].at = at
           /\ \A b \in Askers \ {a} : asker'[b] = asker[b]
           /\ at \notin StreamEnds \ {"refused"} =>
                asker'[a].url = asker[a].url /\ asker'[a].fresh = asker[a].fresh
                  /\ asker'[a].spent = asker[a].spent
           /\ at \in StreamEnds \ {"refused"} =>
                asker'[a].url = NoUrl /\ ~asker'[a].fresh /\ asker'[a].spent = 0
<1> DEFINE one == IF at \in StreamEnds \ {"refused"} THEN Idle(at) ELSE [asker[a] EXCEPT !.at = at]
           R == [at : AskerAts, url : 0 .. minted, fresh : BOOLEAN, spent : 0 .. ExtractBudget]
<1>1. asker[a] \in R /\ asker \in [Askers -> R]
  BY DEF StreamShape
<1>2. one \in R /\ one.at = at
  BY <1>1, StreamAssumption DEF Idle, NoUrl, StreamShape
<1>3. /\ at \notin StreamEnds \ {"refused"} =>
           one.url = asker[a].url /\ one.fresh = asker[a].fresh /\ one.spent = asker[a].spent
      /\ at \in StreamEnds \ {"refused"} => one.url = NoUrl /\ ~one.fresh /\ one.spent = 0
  BY <1>1 DEF Idle
<1>4. asker' = [asker EXCEPT ![a] = one]
  BY DEF Parks
<1> HIDE DEF one, R
<1>5. asker'[a] = one /\ asker' \in [Askers -> R] /\ \A b \in Askers \ {a} : asker'[b] = asker[b]
  BY <1>1, <1>2, <1>4
<1> QED BY <1>2, <1>3, <1>5 DEF R

\* An asker moves on and leaves the URLs alone: what it may have in hand then.
LEMMA MovesOn ==
    ASSUME StreamInv, NEW a \in Askers, NEW at \in AskerAts, Parks(a, at),
           UNCHANGED <<warmers, minted>>, revoked \subseteq revoked',
           \/ entry'.url \in {NoUrl, entry.url}
           \/ Uncached(a) /\ entry'.url = asker[a].url /\ at \notin {"probing", "caching"},
           at # "reading", at = "dropping" => ~asker[a].fresh,
           at = "extracting" => asker[a].spent < ExtractBudget,
           at = "caching" => asker[a].fresh /\ asker[a].at = "probing",
           at # "probing", at = "refused" /\ a \notin warmers => asker[a].fresh /\ asker[a].url \in revoked
    PROVE  FreshOK' /\ OwnOK'
<1>0. /\ asker'[a].at = at
      /\ \A b \in Askers \ {a} : asker'[b] = asker[b]
      /\ at \notin StreamEnds \ {"refused"} =>
           asker'[a].url = asker[a].url /\ asker'[a].fresh = asker[a].fresh
             /\ asker'[a].spent = asker[a].spent
      /\ at \in StreamEnds \ {"refused"} =>
           asker'[a].url = NoUrl /\ ~asker'[a].fresh /\ asker'[a].spent = 0
  BY Parking DEF StreamInv
<1>1. FreshOK'
  <2>1. ASSUME NEW b \in Askers \ {a}
        PROVE  /\ asker'[b].fresh <=> asker'[b].spent > 0
               /\ asker'[b].at \in {"reading", "dropping"} => ~asker'[b].fresh
               /\ asker'[b].at = "extracting" => asker'[b].spent < ExtractBudget
               /\ asker'[b].at = "caching" => asker'[b].fresh
               /\ asker'[b].at = "probing" /\ b \in warmers' => asker'[b].fresh
               /\ asker'[b].at = "refused" /\ b \notin warmers' => asker'[b].fresh /\ asker'[b].url \in revoked'
    BY <1>0 DEF StreamInv, FreshOK
  <2>2. /\ asker'[a].fresh <=> asker'[a].spent > 0
        /\ asker'[a].at \in {"reading", "dropping"} => ~asker'[a].fresh
        /\ asker'[a].at = "extracting" => asker'[a].spent < ExtractBudget
        /\ asker'[a].at = "caching" => asker'[a].fresh
        /\ asker'[a].at = "probing" /\ a \in warmers' => asker'[a].fresh
        /\ asker'[a].at = "refused" /\ a \notin warmers' => asker'[a].fresh /\ asker'[a].url \in revoked'
    BY <1>0 DEF StreamInv, FreshOK, StreamEnds
  <2> QED BY <2>1, <2>2 DEF FreshOK
<1>2. OwnOK'
  <2>1. \A b \in Askers : Uncached(b)' => Uncached(b) /\ asker'[b].url = asker[b].url
    <3>1. \A b \in Askers \ {a} : Uncached(b)' => Uncached(b) /\ asker'[b].url = asker[b].url
      BY <1>0 DEF Uncached
    <3>2. Uncached(a)' => Uncached(a) /\ asker'[a].url = asker[a].url
      BY <1>0 DEF Uncached, StreamEnds
    <3> QED BY <3>1, <3>2
  <2>2. at \notin {"probing", "caching"} => ~Uncached(a)'
    BY <1>0 DEF Uncached
  <2> QED BY <2>1, <2>2 DEF StreamInv, OwnOK
<1> QED BY <1>1, <1>2

\* The entry stays, or is dropped, or marked: whoever is to drop a dead one stays, but
\* for the one that has just done so.
LEMMA DeadStays ==
    ASSUME DeadLeavesCache, NEW a \in Askers,
           \A b \in Askers \ {a} : asker'[b] = asker[b],
           \/ ~entry'.dead
           \/ entry'.kept
           \/ asker'[a].at \in {"dropping", "burying"} /\ asker'[a].url = entry'.url
           \/ entry' = entry /\ asker[a].at \notin {"dropping", "burying"}
    PROVE  DeadLeavesCache'
BY DEF DeadLeavesCache

LEMMA ReadsCacheKeeps ==
    ASSUME StreamInv, NEW a \in Askers, ReadsCache(a)
    PROVE  StreamInv'
<1> USE StreamAssumption DEF StreamInv
<1>0. /\ asker[a].at = "reading" /\ ~asker[a].fresh /\ Missing(a) = "extracting"
      /\ asker[a].spent < ExtractBudget
      /\ UNCHANGED <<warmers, entry, minted, revoked, streak, doubtDrops>>
      /\ {"extracting", "warm"} \subseteq AskerAts
  BY DEF ReadsCache, FreshOK, Missing, StreamShape, AskerAts, StreamEnds
<1>1. ASSUME NEW at \in {"extracting", "warm"}, Parks(a, at) PROVE StreamInv'
  <2>1. StreamShape' /\ \A b \in Askers \ {a} : asker'[b] = asker[b]
    BY <1>0, <1>1, Parking DEF StreamShape
  <2>2. FreshOK' /\ OwnOK'
    BY <1>0, <1>1, MovesOn
  <2>3. DeadLeavesCache' /\ DoubtOK'
    BY <1>0, <2>1, DeadStays DEF DoubtOK
  <2> QED BY <2>1, <2>2, <2>3
<1>2. CASE /\ entry # NoEntry /\ a \notin warmers
           /\ asker' = [asker EXCEPT ![a] = [Idle("probing") EXCEPT !.url = entry.url]]
  <2>1. PICK one \in [at : AskerAts, url : 0 .. minted, fresh : BOOLEAN, spent : 0 .. ExtractBudget] :
          /\ one = [Idle("probing") EXCEPT !.url = entry.url]
          /\ one.at = "probing" /\ one.url = entry.url /\ ~one.fresh /\ one.spent = 0
    <3>1. PICK r : r = Idle("probing")
      OBVIOUS
    <3>2. /\ r \in [at : AskerAts, url : 0 .. minted, fresh : BOOLEAN, spent : 0 .. ExtractBudget]
          /\ r.at = "probing" /\ ~r.fresh /\ r.spent = 0
      BY <3>1 DEF Idle, NoUrl, AskerAts, StreamShape
    <3>3. entry.url \in 0 .. minted
      BY DEF StreamShape
    <3> HIDE DEF StreamInv
    <3>4. /\ [r EXCEPT !.url = entry.url] \in
               [at : AskerAts, url : 0 .. minted, fresh : BOOLEAN, spent : 0 .. ExtractBudget]
          /\ [r EXCEPT !.url = entry.url].at = "probing" /\ [r EXCEPT !.url = entry.url].url = entry.url
          /\ ~[r EXCEPT !.url = entry.url].fresh /\ [r EXCEPT !.url = entry.url].spent = 0
      BY <3>2, <3>3
    <3> QED BY <3>1, <3>4
  <2>2. asker'[a] = one /\ \A b \in Askers \ {a} : asker'[b] = asker[b]
    BY <1>2, <2>1 DEF StreamShape
  <2>3. StreamShape'
    <3>1. asker' = [asker EXCEPT ![a] = one]
      BY <1>2, <2>1
    <3> QED BY <1>0, <3>1 DEF StreamShape
  <2>4. FreshOK'
    BY <1>0, <1>2, <2>1, <2>2 DEF FreshOK
  <2>5. OwnOK'
    <3>1. \A b \in Askers : Uncached(b)' => b # a /\ Uncached(b) /\ asker'[b].url = asker[b].url
      BY <2>1, <2>2 DEF Uncached
    <3> QED BY <1>0, <3>1 DEF OwnOK
  <2>6. DeadLeavesCache' /\ DoubtOK'
    BY <1>0, <2>2, DeadStays DEF DoubtOK
  <2> QED BY <2>3, <2>4, <2>5, <2>6
<1>3. asker' = [asker EXCEPT ![a] = Idle("warm")] => Parks(a, "warm")
  BY DEF Parks, StreamEnds
<1> QED BY <1>0, <1>1, <1>2, <1>3 DEF ReadsCache

LEMMA ExtractsKeeps ==
    ASSUME StreamInv, NEW a \in Askers, ExtractsStream(a)
    PROVE  StreamInv'
<1> USE StreamAssumption DEF StreamInv
<1>0. /\ asker[a].at = "extracting" /\ minted' = minted + 1 /\ minted \in Nat
      /\ asker[a].spent < ExtractBudget
      /\ UNCHANGED <<warmers, entry, revoked, streak, doubtDrops>>
  BY DEF ExtractsStream, StreamShape, FreshOK
<1>1. PICK one \in [at : AskerAts, url : 0 .. minted', fresh : BOOLEAN, spent : 0 .. ExtractBudget] :
        /\ asker' = [asker EXCEPT ![a] = one]
        /\ one.at = "probing" /\ one.url = minted' /\ one.fresh /\ one.spent > 0
  <2> DEFINE one == [at |-> "probing", url |-> minted', fresh |-> TRUE, spent |-> asker[a].spent + 1]
  <2>1. one \in [at : AskerAts, url : 0 .. minted', fresh : BOOLEAN, spent : 0 .. ExtractBudget]
          /\ one.spent > 0
    BY <1>0 DEF AskerAts, StreamShape
  <2>2. asker' = [asker EXCEPT ![a] = one]
    BY DEF ExtractsStream
  <2> QED BY <2>1, <2>2
<1>2. asker'[a] = one /\ \A b \in Askers \ {a} : asker'[b] = asker[b]
  BY <1>1 DEF StreamShape
<1>3. StreamShape'
  <2>1. asker \in [Askers -> [at : AskerAts, url : 0 .. minted', fresh : BOOLEAN, spent : 0 .. ExtractBudget]]
    <3>1. 0 .. minted \subseteq 0 .. minted'
      BY <1>0
    <3> QED BY <3>1 DEF StreamShape
  <2>2. asker' \in [Askers -> [at : AskerAts, url : 0 .. minted', fresh : BOOLEAN, spent : 0 .. ExtractBudget]]
    BY <1>1, <2>1
  <2>3. /\ entry' \in [url : 0 .. minted', dead : BOOLEAN, kept : BOOLEAN]
        /\ minted' \in Nat /\ revoked' \subseteq 1 .. minted'
    BY <1>0 DEF StreamShape
  <2> QED BY <1>0, <2>2, <2>3 DEF StreamShape
<1>4. FreshOK'
  BY <1>0, <1>1, <1>2 DEF FreshOK
<1>5. OwnOK'
  <2>1. \A b \in Askers \ {a} : asker[b].url \in 0 .. minted /\ (Uncached(b)' <=> Uncached(b))
    BY <1>2 DEF StreamShape, Uncached
  <2>2. entry.url \in 0 .. minted /\ asker'[a].url = minted + 1
    BY <1>0, <1>1, <1>2 DEF StreamShape
  <2>3. ASSUME NEW b \in Askers \ {a}, Uncached(b)'
        PROVE  /\ asker'[b].url # NoUrl /\ asker'[b].url # entry'.url /\ asker'[b].url # asker'[a].url
               /\ \A c \in Askers : Uncached(c)' /\ asker'[c].url = asker'[b].url => b = c
    BY <1>0, <1>2, <2>1, <2>2, <2>3 DEF OwnOK
  <2>4. /\ asker'[a].url # NoUrl /\ asker'[a].url # entry'.url
        /\ \A c \in Askers \ {a} : asker'[c].url # asker'[a].url
    BY <1>0, <1>2, <2>1, <2>2 DEF NoUrl
  <2> QED BY <2>3, <2>4 DEF OwnOK
<1>6. DeadLeavesCache' /\ DoubtOK'
  BY <1>0, <1>2, DeadStays DEF DoubtOK
<1> QED BY <1>3, <1>4, <1>5, <1>6

LEMMA ExtractionFailsKeeps ==
    ASSUME StreamInv, NEW a \in Askers, ExtractionFails(a)
    PROVE  StreamInv'
<1> USE DEF StreamInv
<1>0. PICK at \in {"warm", "failed"} : /\ at \in AskerAts /\ asker[a].at = "extracting" /\ Parks(a, at)
                                      /\ UNCHANGED <<warmers, entry, minted, revoked, streak, doubtDrops>>
  BY DEF ExtractionFails, AskerAts, StreamEnds
<1>1. StreamShape' /\ \A b \in Askers \ {a} : asker'[b] = asker[b]
  BY <1>0, Parking DEF StreamShape
<1>2. FreshOK' /\ OwnOK'
  BY <1>0, MovesOn
<1>3. DeadLeavesCache' /\ DoubtOK'
  BY <1>0, <1>1, DeadStays DEF DoubtOK
<1> QED BY <1>1, <1>2, <1>3

LEMMA ProbedPlayableKeeps ==
    ASSUME StreamInv, NEW a \in Askers, ProbedPlayable(a)
    PROVE  StreamInv'
<1> USE StreamAssumption DEF StreamInv
<1>0. PICK at \in {"caching", "playing"} :
        /\ at \in AskerAts /\ asker[a].at = "probing" /\ Parks(a, at)
        /\ at = "caching" => asker[a].fresh
        /\ streak' = 0 /\ doubtDrops' = 0
        /\ UNCHANGED <<warmers, entry, minted, revoked>>
  BY DEF ProbedPlayable, AskerAts
<1>1. StreamShape' /\ \A b \in Askers \ {a} : asker'[b] = asker[b]
  BY <1>0, Parking DEF StreamShape
<1>2. FreshOK' /\ OwnOK'
  BY <1>0, MovesOn
<1>3. DeadLeavesCache' /\ DoubtOK'
  BY <1>0, <1>1, DeadStays DEF DoubtOK
<1> QED BY <1>1, <1>2, <1>3

LEMMA Finding ==
    ASSUME StreamShape, NEW u
    PROVE  /\ FoundDead(u) \in [url : 0 .. minted, dead : BOOLEAN, kept : BOOLEAN]
           /\ FoundDead(u).url = entry.url
           /\ FoundDead(u) = entry \/ u = entry.url
<1>1. /\ [entry EXCEPT !.dead = TRUE] \in [url : 0 .. minted, dead : BOOLEAN, kept : BOOLEAN]
      /\ [entry EXCEPT !.dead = TRUE].url = entry.url
      /\ entry \in [url : 0 .. minted, dead : BOOLEAN, kept : BOOLEAN]
  BY DEF StreamShape
<1>2. CASE u # NoUrl /\ entry.url = u
  BY <1>1, <1>2 DEF FoundDead
<1>3. CASE ~(u # NoUrl /\ entry.url = u)
  BY <1>1, <1>3 DEF FoundDead
<1> QED BY <1>2, <1>3

LEMMA ProbedDeadKeeps ==
    ASSUME StreamInv, NEW a \in Askers, ProbedDead(a)
    PROVE  StreamInv'
<1> USE StreamAssumption DEF StreamInv
<1>0. /\ asker[a].at = "probing" /\ asker[a].url \in revoked /\ Parks(a, AfterDead(a))
      /\ entry' = FoundDead(asker[a].url)
      /\ streak' = 0 /\ doubtDrops' = 0
      /\ UNCHANGED <<warmers, minted, revoked>>
  BY DEF ProbedDead
<1>1. PICK at \in {"warm", "extracting", "refused", "dropping"} :
        /\ at = AfterDead(a) /\ at \in AskerAts
        /\ at = "extracting" => asker[a].spent < ExtractBudget
        /\ at = "dropping" <=> ~asker[a].fresh
        /\ at = "refused" => asker[a].fresh
  BY <1>0 DEF AfterDead, Missing, FreshOK, AskerAts, StreamEnds
<1>2. /\ entry' \in [url : 0 .. minted, dead : BOOLEAN, kept : BOOLEAN]
      /\ entry'.url = entry.url /\ (entry' = entry \/ asker[a].url = entry.url)
  BY <1>0, Finding
<1>3. StreamShape'
  BY <1>0, <1>1, <1>2, Parking DEF StreamShape
<1>4. FreshOK' /\ OwnOK'
  BY <1>0, <1>1, <1>2, MovesOn
<1>5. DoubtOK'
  BY <1>0 DEF DoubtOK
<1>6. DeadLeavesCache'
  <2>1. asker[a].fresh => entry' = entry
    BY <1>0, <1>2 DEF OwnOK, Uncached
  <2>2. /\ \A b \in Askers \ {a} : asker'[b] = asker[b]
        /\ ~asker[a].fresh => asker'[a].at = "dropping" /\ asker'[a].url = asker[a].url
    BY <1>0, <1>1, Parking DEF StreamEnds
  <2> QED BY <1>0, <1>2, <2>1, <2>2, DeadStays
<1> QED BY <1>3, <1>4, <1>5, <1>6

LEMMA ProbedUnconfirmedKeeps ==
    ASSUME StreamInv, NEW a \in Askers, ProbedUnconfirmed(a)
    PROVE  StreamInv'
<1> USE StreamAssumption DEF StreamInv
<1>0. PICK at \in {"caching", "playing", "dropping"} :
        /\ at \in AskerAts /\ asker[a].at = "probing" /\ Parks(a, at)
        /\ at = "caching" <=> asker[a].fresh
        /\ streak' = IF streak < StreakLimit THEN streak + 1 ELSE streak
        /\ \/ doubtDrops' = doubtDrops
           \/ doubtDrops' = doubtDrops + 1 /\ streak' # StreakLimit
        /\ UNCHANGED <<warmers, entry, minted, revoked>>
  BY DEF ProbedUnconfirmed, PathLooksBroken, AskerAts
<1>1. StreamShape' /\ \A b \in Askers \ {a} : asker'[b] = asker[b]
  <2>1. streak' \in 0 .. StreakLimit /\ doubtDrops' \in Nat
    BY <1>0 DEF StreamShape
  <2> QED BY <1>0, <2>1, Parking DEF StreamShape
<1>2. FreshOK' /\ OwnOK'
  BY <1>0, MovesOn
<1>3. DoubtOK'
  BY <1>0 DEF DoubtOK, StreamShape
<1>4. DeadLeavesCache'
  BY <1>0, <1>1, DeadStays
<1> QED BY <1>1, <1>2, <1>3, <1>4

LEMMA CachesKeeps ==
    ASSUME StreamInv, NEW a \in Askers, CachesStream(a)
    PROVE  StreamInv'
<1> USE DEF StreamInv
<1>0. PICK at \in {"warm", "playing"} :
        /\ at \in AskerAts /\ asker[a].at = "caching" /\ asker[a].fresh /\ Parks(a, at)
        /\ entry' = [NoEntry EXCEPT !.url = asker[a].url] \/ entry' = entry
        /\ UNCHANGED <<warmers, minted, revoked, streak, doubtDrops>>
  BY DEF CachesStream, CachedBy, FreshOK, AskerAts, StreamEnds
<1>1. asker[a].url \in 0 .. minted /\ Uncached(a)
  BY <1>0 DEF StreamShape, Uncached
<1>2. /\ entry' \in [url : 0 .. minted, dead : BOOLEAN, kept : BOOLEAN]
      /\ entry' = entry \/ (entry'.url = asker[a].url /\ ~entry'.dead)
  BY <1>0, <1>1 DEF NoEntry, StreamShape
<1>3. StreamShape' /\ \A b \in Askers \ {a} : asker'[b] = asker[b]
  BY <1>0, <1>2, Parking DEF StreamShape
<1>4. FreshOK' /\ OwnOK'
  BY <1>0, <1>1, <1>2, MovesOn
<1>5. DeadLeavesCache' /\ DoubtOK'
  BY <1>0, <1>2, <1>3, DeadStays DEF DoubtOK
<1> QED BY <1>3, <1>4, <1>5

LEMMA DropsKeeps ==
    ASSUME StreamInv, NEW a \in Askers, DropsEntry(a)
    PROVE  StreamInv'
<1> USE StreamAssumption DEF StreamInv
<1>0. PICK at \in {"played", "extracting"} :
        /\ at \in AskerAts /\ Parks(a, at)
        /\ at = "extracting" => asker[a].spent < ExtractBudget
        /\ \/ entry' = NoEntry
           \/ entry' = [entry EXCEPT !.kept = TRUE]
        /\ UNCHANGED <<warmers, minted, revoked, streak, doubtDrops>>
  <2> DEFINE at0 == IF asker[a].at = "burying" THEN "played" ELSE Missing(a)
  <2>1. asker[a].spent \in 0 .. ExtractBudget /\ asker[a].at \in {"dropping", "burying"}
    BY DEF DropsEntry, StreamShape
  <2>2. asker[a].at = "dropping" => asker[a].spent < ExtractBudget
    BY <2>1 DEF FreshOK
  <2>3. at0 \in {"played", "extracting"} /\ (at0 = "extracting" => asker[a].spent < ExtractBudget)
    BY <2>1, <2>2 DEF Missing
  <2>4. at0 \in AskerAts /\ Parks(a, at0)
    BY <2>3 DEF AskerAts, StreamEnds, DropsEntry
  <2>5. /\ entry' = NoEntry \/ entry' = [entry EXCEPT !.kept = TRUE]
        /\ UNCHANGED <<warmers, minted, revoked, streak, doubtDrops>>
    BY DEF DropsEntry, Kept
  <2> HIDE DEF at0
  <2> QED BY <2>3, <2>4, <2>5
<1>1. /\ entry' \in [url : 0 .. minted, dead : BOOLEAN, kept : BOOLEAN]
      /\ entry'.url \in {NoUrl, entry.url} /\ (~entry'.dead \/ entry'.kept)
  <2>1. entry \in [url : 0 .. minted, dead : BOOLEAN, kept : BOOLEAN] /\ minted \in Nat
    BY DEF StreamShape
  <2>2. CASE entry' = NoEntry
    BY <2>1, <2>2 DEF NoEntry, NoUrl
  <2>3. CASE entry' = [entry EXCEPT !.kept = TRUE]
    <3>1. /\ entry' \in [url : 0 .. minted, dead : BOOLEAN, kept : BOOLEAN]
          /\ entry'.url = entry.url /\ entry'.kept = TRUE
      BY <2>1, <2>3
    <3> QED BY <3>1
  <2> QED BY <1>0, <2>2, <2>3
<1>2. StreamShape' /\ \A b \in Askers \ {a} : asker'[b] = asker[b]
  BY <1>0, <1>1, Parking DEF StreamShape
<1>3. FreshOK' /\ OwnOK'
  BY <1>0, <1>1, MovesOn
<1>4. DeadLeavesCache' /\ DoubtOK'
  BY <1>0, <1>1, <1>2, DeadStays DEF DoubtOK
<1> QED BY <1>2, <1>3, <1>4

LEMMA SongEndsKeeps ==
    ASSUME StreamInv, NEW a \in Askers, SongEnds(a)
    PROVE  StreamInv'
<1> USE DEF StreamInv
<1>0. PICK at \in {"played", "burying"} :
        /\ at \in AskerAts /\ asker[a].at = "playing" /\ Parks(a, at)
        /\ \/ at = "played" /\ entry' = entry
           \/ at = "burying" /\ entry' = FoundDead(asker[a].url)
        /\ UNCHANGED <<warmers, minted, revoked, streak, doubtDrops>>
  BY DEF SongEnds, AskerAts, StreamEnds
<1>1. /\ entry' \in [url : 0 .. minted, dead : BOOLEAN, kept : BOOLEAN]
      /\ entry'.url = entry.url
      /\ entry' = entry \/ (asker[a].url = entry.url /\ at = "burying")
  BY <1>0, Finding DEF StreamShape
<1>2. /\ StreamShape' /\ \A b \in Askers \ {a} : asker'[b] = asker[b]
      /\ at = "burying" => asker'[a].at = "burying" /\ asker'[a].url = asker[a].url
  BY <1>0, <1>1, Parking DEF StreamShape, StreamEnds
<1>3. FreshOK' /\ OwnOK'
  BY <1>0, <1>1, MovesOn
<1>4. DeadLeavesCache' /\ DoubtOK'
  BY <1>0, <1>1, <1>2, DeadStays DEF DoubtOK
<1> QED BY <1>2, <1>3, <1>4

\* A cancelled asker leaves a dead entry only marked as kept, and its own URL in the cache
\* or nowhere.
LEMMA CancelledKeeps ==
    ASSUME StreamInv, NEW a \in Askers, AskerCancelled(a)
    PROVE  StreamInv'
<1> USE DEF StreamInv
<1>0. /\ "cancelled" \in AskerAts /\ Parks(a, "cancelled")
      /\ UNCHANGED <<warmers, minted, revoked, streak, doubtDrops>>
  BY DEF AskerCancelled, AskerAts, StreamEnds
<1>1. entry \in [url : 0 .. minted, dead : BOOLEAN, kept : BOOLEAN] /\ minted \in Nat
  BY DEF StreamShape
<1>2. /\ entry' \in [url : 0 .. minted, dead : BOOLEAN, kept : BOOLEAN]
      /\ \/ entry'.url \in {NoUrl, entry.url} /\ (~entry'.dead \/ entry'.kept)
         \/ entry' = entry /\ asker[a].at \notin {"dropping", "burying"}
         \/ Uncached(a) /\ entry'.url = asker[a].url /\ ~entry'.dead
  <2>1. ASSUME entry' = NoEntry
        PROVE  /\ entry' \in [url : 0 .. minted, dead : BOOLEAN, kept : BOOLEAN]
               /\ entry'.url = NoUrl /\ ~entry'.dead
    BY <1>1, <2>1 DEF NoEntry, NoUrl
  <2>2. ASSUME entry' = [entry EXCEPT !.kept = TRUE]
        PROVE  /\ entry' \in [url : 0 .. minted, dead : BOOLEAN, kept : BOOLEAN]
               /\ entry'.url = entry.url /\ entry'.kept = TRUE
    BY <1>1, <2>2
  <2>3. ASSUME entry' = CachedBy(a)
        PROVE  /\ entry' \in [url : 0 .. minted, dead : BOOLEAN, kept : BOOLEAN]
               /\ entry'.url = asker[a].url /\ ~entry'.dead
    BY <1>1, <2>3 DEF CachedBy, NoEntry, StreamShape
  <2>4. CASE asker[a].at \in {"dropping", "burying"}
    <3>1. entry' = NoEntry \/ entry' = [entry EXCEPT !.kept = TRUE]
      BY <2>4 DEF AskerCancelled, Kept
    <3> QED BY <2>1, <2>2, <3>1
  <2>5. CASE asker[a].at = "caching"
    <3>1. entry' = entry \/ entry' = CachedBy(a)
      BY <2>5 DEF AskerCancelled
    <3>2. Uncached(a)
      BY <2>5 DEF FreshOK, Uncached
    <3> QED BY <1>1, <2>3, <2>5, <3>1, <3>2
  <2>6. CASE asker[a].at \notin {"dropping", "burying", "caching"}
    BY <1>1, <2>6 DEF AskerCancelled
  <2> QED BY <2>4, <2>5, <2>6
<1>3. StreamShape' /\ \A b \in Askers \ {a} : asker'[b] = asker[b]
  BY <1>0, <1>2, Parking DEF StreamShape
<1>4. FreshOK' /\ OwnOK'
  <2>1. \/ entry'.url \in {NoUrl, entry.url}
        \/ Uncached(a) /\ entry'.url = asker[a].url
    BY <1>2
  <2> QED BY <1>0, <2>1, MovesOn
<1>5. DeadLeavesCache' /\ DoubtOK'
  BY <1>0, <1>2, <1>3, DeadStays DEF DoubtOK
<1> QED BY <1>3, <1>4, <1>5

\* Every await of every asker, YouTube and the clock keep it.
LEMMA StreamStepwise == StreamInv /\ [StreamNext]_streamVars => StreamInv'
<1> SUFFICES ASSUME StreamInv, [StreamNext]_streamVars PROVE StreamInv'
  OBVIOUS
<1>1. ASSUME NEW a \in Askers, AskerNext(a) PROVE StreamInv'
  BY <1>1, ReadsCacheKeeps, ExtractsKeeps, ExtractionFailsKeeps, ProbedPlayableKeeps, ProbedDeadKeeps,
     ProbedUnconfirmedKeeps, CachesKeeps, DropsKeeps, SongEndsKeeps DEF AskerNext
<1>2. CASE Revokes
  <2>1. PICK u \in ({entry.url} \cup {asker[a].url : a \in Askers}) \ ({NoUrl} \cup revoked) :
          revoked' = revoked \cup {u}
    BY <1>2 DEF Revokes
  <2>2. revoked' \subseteq 1 .. minted /\ revoked \subseteq revoked'
    BY <2>1 DEF StreamInv, StreamShape, NoUrl
  <2>3. StreamShape' /\ FreshOK'
    BY <1>2, <2>2 DEF Revokes, StreamInv, StreamShape, FreshOK
  <2> QED BY <1>2, <2>3 DEF Revokes, StreamInv, OwnOK, Uncached, DeadLeavesCache, DoubtOK
<1>3. CASE EntryExpires
  <2>1. entry' \in [url : 0 .. minted, dead : BOOLEAN, kept : BOOLEAN] /\ entry'.url = NoUrl /\ ~entry'.dead
    BY <1>3 DEF EntryExpires, StreamInv, StreamShape, NoEntry, NoUrl
  <2> QED BY <1>3, <2>1 DEF EntryExpires, StreamInv, StreamShape, FreshOK, OwnOK, Uncached, DeadLeavesCache, DoubtOK
<1>4. CASE UNCHANGED streamVars
  BY <1>4 DEF streamVars, StreamInv, StreamShape, FreshOK, OwnOK, Uncached, DeadLeavesCache, DoubtOK
<1> QED BY <1>1, <1>2, <1>3, <1>4, CancelledKeeps DEF StreamNext

LEMMA StreamInvSuffices == StreamInv => StreamTypeOK /\ StreamCacheSound
<1> SUFFICES ASSUME StreamInv PROVE StreamTypeOK /\ StreamCacheSound
  OBVIOUS
<1>1. ASSUME NEW a \in Askers
      PROVE  /\ asker[a].at \in AskerAts /\ asker[a].spent \in 0 .. ExtractBudget
             /\ asker[a].fresh \in BOOLEAN /\ (asker[a].fresh <=> asker[a].spent > 0)
  BY DEF StreamInv, StreamShape, FreshOK
<1>2. ASSUME NEW a \in Askers PROVE asker[a].fresh = (asker[a].spent > 0)
  <2>1. asker[a].fresh \in BOOLEAN /\ (asker[a].fresh <=> asker[a].spent > 0)
    BY <1>1
  <2> QED BY <2>1
<1>3. StreamTypeOK
  BY <1>1, <1>2 DEF StreamInv, StreamShape, StreamTypeOK, AskerAts
<1>4. RefusedAfterMinting /\ DoubtBounded
  BY DEF StreamInv, FreshOK, DoubtOK, RefusedAfterMinting, DoubtBounded
<1> QED BY <1>3, <1>4 DEF StreamInv, StreamCacheSound

\* The stream cache keeps its types, and nobody extracts more than the budget, for any
\* number of guilds that resolve and warm one song (_resolve_playable_stream()).
THEOREM StreamTypeCorrect == StreamSpec => []StreamTypeOK
BY StreamInitially, StreamStepwise, StreamInvSuffices, PTL DEF StreamSpec

\* A song is refused only after a URL extracted for it was found dead, a URL found dead
\* leaves the cache of all guilds, and an outage of the probe does not empty it
\* (_resolve_playable_stream(), _handle_dead_stream(), probe_path_looks_broken()).
THEOREM StreamCacheKept == StreamSpec => []StreamCacheSound
BY StreamInitially, StreamStepwise, StreamInvSuffices, PTL DEF StreamSpec

-----------------------------------------------------------------------------
(* Spotify's token.                                                        *)

Refreshing == {"reading", "applying", "posting", "granted", "sharing", "stored"}
Ats == {"idle", "locking", "sent", "failed"} \cup Refreshing

\* The shape of the variables.
TokenTypeOK ==
    /\ now \in Nat \ {0}
    /\ held \in [token : Nat, until : Nat]
    /\ shared \in [token : Nat, until : Nat]
    /\ slowest \in Nat
    /\ request \in [Requests -> [at : Ats, token : Nat, left : Nat, since : Nat]]

\* One request refreshes at a time, and holds the lock.
AloneOK ==
    \A c, d \in Requests :
        request[c].at \in Refreshing /\ request[d].at \in Refreshing => c = d /\ locked

\* A token that is trusted lasts as long as it is trusted, but for what the awaits ate up.
HeldOK ==
    now <= held.until =>
        held.until <= held.token \/ held.until + Margin <= held.token + 3 * slowest

\* The shared copy was given its time to live two awaits after the grant.
SharedOK == now < shared.until => shared.until + Margin <= shared.token + 2 * slowest

\* What a refresh has in hand at each of its awaits, which began at .since.
RefreshAt(c) ==
    /\ request[c].since <= now
    /\ request[c].at \in {"posting", "granted"} => held.until + 1 = request[c].since
    /\ request[c].at = "granted" => request[c].since + Life <= request[c].token
    /\ request[c].at \in {"sharing", "stored"} =>
         /\ held.token = request[c].token
         /\ request[c].since + Life <= request[c].token + slowest
    /\ request[c].at = "applying" =>
         request[c].since + request[c].left + Margin <= request[c].token + 2 * slowest
RefreshOK == \A c \in Requests : RefreshAt(c)

TokenInv == TokenTypeOK /\ AloneOK /\ HeldOK /\ SharedOK /\ RefreshOK

\* A client without a token satisfies the invariant.
LEMMA TokenInitially == SpotifyInit => TokenInv
BY SpotifyAssumption DEF SpotifyInit, Never, Settled, TokenInv, TokenTypeOK, AloneOK, HeldOK,
   SharedOK, RefreshOK, RefreshAt, Ats, Refreshing

\* One request moves on: the others stay where they are.
Moved(c, at, token, left, since) ==
    /\ request' \in [Requests -> [at : Ats, token : Nat, left : Nat, since : Nat]]
    /\ request'[c].at = at /\ request'[c].token = token
    /\ request'[c].left = left /\ request'[c].since = since
    /\ \A d \in Requests \ {c} : request'[d] = request[d]

\* What replacing the record of one request makes of it.
LEMMA RequestMoves ==
    ASSUME TokenTypeOK, NEW c \in Requests, NEW at \in Ats, NEW token \in Nat, NEW left \in Nat,
           NEW since \in Nat,
           request' = [request EXCEPT ![c] = [at |-> at, token |-> token, left |-> left,
                                              since |-> since]]
    PROVE  Moved(c, at, token, left, since)
<1> DEFINE one == [at |-> at, token |-> token, left |-> left, since |-> since]
           R == [at : Ats, token : Nat, left : Nat, since : Nat]
<1>1. one \in R /\ one.at = at /\ one.token = token /\ one.left = left /\ one.since = since
  OBVIOUS
<1>2. request \in [Requests -> R] /\ request' = [request EXCEPT ![c] = one]
  BY DEF TokenTypeOK
<1> HIDE DEF one, R
<1>3. request' \in [Requests -> R] /\ request'[c] = one
      /\ \A d \in Requests \ {c} : request'[d] = request[d]
  BY <1>1, <1>2
<1> QED BY <1>1, <1>3 DEF R, Moved

\* What RefreshAt asks of the request that moves on.
LEMMA RefreshMoves ==
    ASSUME NEW c \in Requests, NEW at, NEW token, NEW left, NEW since,
           Moved(c, at, token, left, since),
           since <= now',
           at \in {"posting", "granted"} => held'.until + 1 = since,
           at = "granted" => since + Life <= token,
           at \in {"sharing", "stored"} =>
               held'.token = token /\ since + Life <= token + slowest',
           at = "applying" => since + left + Margin <= token + 2 * slowest'
    PROVE  RefreshAt(c)'
<1>1. /\ request'[c].at = at /\ request'[c].token = token
      /\ request'[c].left = left /\ request'[c].since = since
  BY DEF Moved
<1> QED BY <1>1 DEF RefreshAt

\* A new await, one that was served, and none.
LEMMA Going ==
    ASSUME TokenTypeOK, NEW c \in Requests, NEW at \in Ats, NEW token \in Nat
    PROVE  /\ Goes(c, at, token) => Moved(c, at, token, 0, now)
           /\ Settles(c, at, token) => Moved(c, at, token, 0, 1)
           /\ \A left \in Nat :
                Served(c, at, token, left) => Moved(c, at, token, left, request[c].since)
<1>1. now \in Nat /\ request[c].since \in Nat /\ 0 \in Nat /\ 1 \in Nat
  BY DEF TokenTypeOK
<1>2. Goes(c, at, token) => Moved(c, at, token, 0, now)
  BY <1>1, RequestMoves DEF Goes
<1>3. Settles(c, at, token) => Moved(c, at, token, 0, 1)
  BY <1>1, RequestMoves DEF Settles, Settled
<1>4. ASSUME NEW left \in Nat, Served(c, at, token, left)
      PROVE Moved(c, at, token, left, request[c].since)
  BY <1>1, <1>4, RequestMoves DEF Served
<1> QED BY <1>2, <1>3, <1>4

\* The longest await of a refresh has been at least the one that ends.
LEMMA Awaiting ==
    ASSUME TokenTypeOK, NEW c \in Requests, request[c].since <= now, Awaited(c)
    PROVE  slowest' \in Nat /\ slowest <= slowest' /\ now <= request[c].since + slowest'
<1>1. request[c].since \in Nat /\ now \in Nat /\ slowest \in Nat
  BY DEF TokenTypeOK
<1> QED BY <1>1 DEF Awaited

\* The other requests, as c moves on: if one of them refreshes, c does not, and leaves
\* alone what is held.
LEMMA OthersKeep ==
    ASSUME TokenInv, NEW c \in Requests, TokenTypeOK', now' = now, slowest <= slowest',
           \A d \in Requests \ {c} : request'[d] = request[d],
           request[c].at \in Refreshing \/ UNCHANGED held \/ ~locked,
           NEW d \in Requests \ {c}
    PROVE  RefreshAt(d)'
<1>1. request[d].at \in Refreshing => UNCHANGED held
  BY DEF TokenInv, AloneOK
<1>2. /\ request[d].since \in Nat /\ request[d].token \in Nat /\ request[d].left \in Nat
      /\ slowest \in Nat /\ slowest' \in Nat /\ Life \in Nat /\ Margin \in Nat
  BY SpotifyAssumption DEF TokenInv, TokenTypeOK
<1>3. request'[d] = request[d] /\ RefreshAt(d)
  BY DEF TokenInv, RefreshOK
<1> QED BY <1>1, <1>2, <1>3 DEF RefreshAt, Refreshing

\* A request that is parked outside a refresh, or begins or ends one, keeps the invariant
\* when the token that is held does.
LEMMA TokenParks ==
    ASSUME TokenInv, NEW c \in Requests, NEW at \in {"idle", "locking", "sent", "failed"},
           NEW token \in Nat, Settles(c, at, token), now' = now,
           slowest' \in Nat, slowest <= slowest',
           held' \in [token : Nat, until : Nat], UNCHANGED shared,
           \/ UNCHANGED <<held, locked>>
           \/ request[c].at \in Refreshing,
           HeldOK'
    PROVE  TokenInv'
<1>1. at \in Ats /\ at \notin Refreshing /\ TokenTypeOK
  BY DEF Ats, Refreshing, TokenInv
<1>2. Moved(c, at, token, 0, 1)
  BY <1>1, Going
<1>3. /\ request' \in [Requests -> [at : Ats, token : Nat, left : Nat, since : Nat]]
      /\ request'[c].at = at /\ request'[c].since = 1
      /\ \A d \in Requests \ {c} : request'[d] = request[d]
  BY <1>2 DEF Moved
<1>4. TokenTypeOK'
  BY <1>3 DEF TokenInv, TokenTypeOK
<1>5. AloneOK'
  <2>1. ASSUME NEW d \in Requests, NEW e \in Requests,
               request'[d].at \in Refreshing, request'[e].at \in Refreshing
        PROVE d = e /\ locked'
    <3>1. d # c /\ e # c /\ request[d].at \in Refreshing /\ request[e].at \in Refreshing
      BY <1>1, <1>3, <2>1
    <3>2. d = e /\ locked /\ request[c].at \notin Refreshing
      BY <3>1 DEF TokenInv, AloneOK
    <3> QED BY <3>2
  <2> QED BY <2>1 DEF AloneOK
<1>6. SharedOK'
  BY SpotifyAssumption DEF TokenInv, SharedOK, TokenTypeOK
<1>7. RefreshOK'
  <2>1. RefreshAt(c)'
    <3>1. request'[c].since <= now' /\ request'[c].at \notin Refreshing
      BY <1>1, <1>3 DEF TokenInv, TokenTypeOK
    <3> QED BY <3>1 DEF RefreshAt, Refreshing
  <2> QED BY <1>3, <1>4, <2>1, OthersKeep DEF RefreshOK
<1> QED BY <1>4, <1>5, <1>6, <1>7 DEF TokenInv

\* An await of a refresh begins, or what it awaits is served.
LEMMA TokenGoes ==
    ASSUME TokenInv, NEW c \in Requests, NEW at \in Refreshing, NEW token, NEW left, NEW since,
           Moved(c, at, token, left, since),
           now' = now, slowest' \in Nat, slowest <= slowest',
           held' \in [token : Nat, until : Nat], shared' \in [token : Nat, until : Nat],
           \/ request[c].at \in Refreshing /\ UNCHANGED locked
           \/ ~locked /\ locked' = TRUE,
           HeldOK', SharedOK', RefreshAt(c)'
    PROVE  TokenInv'
<1>1. /\ request' \in [Requests -> [at : Ats, token : Nat, left : Nat, since : Nat]]
      /\ \A d \in Requests \ {c} : request'[d] = request[d]
  BY DEF Moved
<1>2. TokenTypeOK'
  BY <1>1 DEF TokenInv, TokenTypeOK
<1>3. AloneOK'
  <2>1. ASSUME NEW d \in Requests \ {c}, request'[d].at \in Refreshing PROVE FALSE
    BY <1>1, <2>1 DEF TokenInv, AloneOK
  <2>2. locked'
    BY DEF TokenInv, AloneOK
  <2> QED BY <2>1, <2>2 DEF AloneOK
<1>4. RefreshOK'
  <2>1. request[c].at \in Refreshing \/ ~locked
    OBVIOUS
  <2> QED BY <1>1, <1>2, <2>1, OthersKeep DEF RefreshOK
<1> QED BY <1>2, <1>3, <1>4 DEF TokenInv

\* token_expiry is stamped as the grant is asked for.
LEMMA TokenPosts ==
    ASSUME TokenInv, NEW c \in Requests, Posts(c), UNCHANGED <<now, shared, slowest>>,
           \/ request[c].at \in Refreshing /\ UNCHANGED locked
           \/ ~locked /\ locked' = TRUE
    PROVE  TokenInv'
<1>1. now \in Nat \ {0} /\ held \in [token : Nat, until : Nat] /\ slowest \in Nat
      /\ shared \in [token : Nat, until : Nat]
  BY DEF TokenInv, TokenTypeOK
<1>2. held' \in [token : Nat, until : Nat] /\ held'.until + 1 = now
  BY <1>1 DEF Posts
<1>3. HeldOK' /\ SharedOK'
  BY <1>1, <1>2, SpotifyAssumption DEF TokenInv, HeldOK, SharedOK
<1>4. "posting" \in Refreshing /\ Moved(c, "posting", 0, 0, now)
  BY Going DEF Posts, Refreshing, Ats, TokenInv
<1>5. RefreshAt(c)'
  BY <1>1, <1>2, <1>4, RefreshMoves
<1>6. /\ now' = now /\ slowest' \in Nat /\ slowest <= slowest'
      /\ held' \in [token : Nat, until : Nat] /\ shared' \in [token : Nat, until : Nat]
  BY <1>1, <1>2
<1> QED BY <1>3, <1>4, <1>5, <1>6, TokenGoes

\* The calls without a refresh, and how one begins, is given up and is over.
LEMMA CallsKeep ==
    ASSUME TokenInv, NEW c \in Requests,
           CallsApi(c) \/ Validates(c) \/ LocksToken(c) \/ RefreshFails(c) \/ SentEnds(c)
    PROVE  TokenInv'
<1>0. /\ now \in Nat \ {0} /\ held \in [token : Nat, until : Nat] /\ slowest \in Nat
      /\ shared \in [token : Nat, until : Nat] /\ held.token \in Nat
      /\ HeldOK /\ SharedOK
  BY DEF TokenInv, TokenTypeOK
<1>1. CASE CallsApi(c) \/ SentEnds(c)
  <2>1. UNCHANGED <<now, held, shared, locked, slowest>> /\ HeldOK'
    BY <1>0, <1>1 DEF CallsApi, SentEnds, HeldOK
  <2>2. PICK at \in {"idle", "locking", "sent", "failed"}, token \in Nat : Settles(c, at, token)
    BY <1>0, <1>1 DEF CallsApi, SentEnds, Sends
  <2> QED BY <1>0, <2>1, <2>2, TokenParks
<1>2. CASE Validates(c)
  BY <1>2, TokenPosts DEF Validates
<1>3. CASE LocksToken(c)
  <2>1. UNCHANGED <<now, held, shared, slowest>> /\ HeldOK' /\ SharedOK' /\ ~locked
    BY <1>0, <1>3 DEF LocksToken, HeldOK, SharedOK
  <2>2. CASE locked' = TRUE /\ Goes(c, "reading", 0)
    <3>1. "reading" \in Refreshing /\ Moved(c, "reading", 0, 0, now)
      BY <2>2, Going DEF Refreshing, Ats, TokenInv
    <3>2. RefreshAt(c)'
      BY <1>0, <2>1, <3>1, RefreshMoves
    <3>3. /\ now' = now /\ slowest' \in Nat /\ slowest <= slowest'
          /\ held' \in [token : Nat, until : Nat] /\ shared' \in [token : Nat, until : Nat]
          /\ ~locked /\ locked' = TRUE
      BY <1>0, <2>1, <2>2
    <3> QED BY <2>1, <3>1, <3>2, <3>3, TokenGoes
  <2>3. CASE Sends(c, held.token) /\ UNCHANGED locked
    BY <1>0, <2>1, <2>3, TokenParks DEF Sends
  <2> QED BY <1>3, <2>2, <2>3 DEF LocksToken
<1>4. CASE RefreshFails(c)
  <2>1. UNCHANGED <<now, held, shared, slowest>> /\ HeldOK' /\ Settles(c, "failed", 0)
        /\ request[c].at \in Refreshing
    BY <1>0, <1>4 DEF RefreshFails, HeldOK, Refreshing
  <2> QED BY <1>0, <2>1, TokenParks
<1> QED BY <1>1, <1>2, <1>3, <1>4

\* The awaits of a refresh.
LEMMA RefreshKeeps ==
    ASSUME TokenInv, NEW c \in Requests,
           \/ ReadsShared(c) \/ AppliesShared(c) \/ Grants(c) \/ TakesGrant(c)
           \/ SharesGrant(c) \/ ShareEnds(c)
    PROVE  TokenInv'
<1> DEFINE r == request[c]
<1>0. /\ now \in Nat \ {0} /\ held \in [token : Nat, until : Nat] /\ slowest \in Nat
      /\ shared \in [token : Nat, until : Nat]
      /\ Life \in Nat /\ Margin \in Nat
      /\ HeldOK /\ SharedOK /\ RefreshOK /\ AloneOK /\ TokenTypeOK
  BY SpotifyAssumption DEF TokenInv, TokenTypeOK
<1>00. r.token \in Nat /\ r.left \in Nat /\ r.since \in Nat /\ r.since <= now
       /\ (r.at \in Refreshing => locked)
  BY <1>0 DEF TokenTypeOK, RefreshOK, RefreshAt, AloneOK
<1>1. CASE ReadsShared(c)
  <2>0. r.at = "reading" /\ r.at \in Refreshing /\ UNCHANGED <<now, shared, locked, slowest>>
    BY <1>1 DEF ReadsShared, Refreshing
  <2>1. CASE shared.until > now /\ Served(c, "applying", shared.token, shared.until - now)
             /\ UNCHANGED held
    <3>1. shared.until - now \in Nat /\ shared.token \in Nat
      BY <1>0, <2>1
    <3>2. r.since + (shared.until - now) + Margin <= shared.token + 2 * slowest
      BY <1>0, <1>00, <2>1 DEF SharedOK
    <3>3. HeldOK' /\ SharedOK' /\ "applying" \in Refreshing
      BY <1>0, <2>0, <2>1 DEF HeldOK, SharedOK, Refreshing
    <3>4. Moved(c, "applying", shared.token, shared.until - now, r.since)
      BY <1>0, <2>1, <3>1, Going DEF Ats, Refreshing
    <3>5. RefreshAt(c)'
      BY <1>00, <2>0, <3>2, <3>4, RefreshMoves
    <3>6. /\ now' = now /\ slowest' \in Nat /\ slowest <= slowest'
          /\ held' \in [token : Nat, until : Nat] /\ shared' \in [token : Nat, until : Nat]
          /\ request[c].at \in Refreshing /\ locked' = locked
      BY <1>0, <2>0, <2>1
    <3> QED BY <3>3, <3>4, <3>5, <3>6, TokenGoes
  <2>2. CASE Posts(c)
    BY <2>0, <2>2, TokenPosts
  <2> QED BY <1>1, <2>1, <2>2 DEF ReadsShared
<1>2. CASE AppliesShared(c)
  <2>0. r.at = "applying" /\ r.at \in Refreshing /\ UNCHANGED <<now, shared>> /\ Awaited(c)
        /\ held' = [token |-> r.token, until |-> now + r.left] /\ Settles(c, "sent", r.token)
    BY <1>2 DEF AppliesShared, Refreshing, Sends
  <2>1. slowest' \in Nat /\ slowest <= slowest' /\ now <= r.since + slowest'
    BY <1>0, <1>00, <2>0, Awaiting
  <2>2. r.since + r.left + Margin <= r.token + 2 * slowest
    BY <1>0, <2>0 DEF RefreshOK, RefreshAt
  <2>3. held'.until + Margin <= held'.token + 3 * slowest'
    BY <1>0, <1>00, <2>0, <2>1, <2>2
  <2>4. HeldOK' /\ held' \in [token : Nat, until : Nat]
    BY <1>0, <1>00, <2>0, <2>3 DEF HeldOK
  <2> QED BY <1>00, <2>0, <2>1, <2>4, TokenParks
<1>3. CASE Grants(c)
  <2>0. /\ r.at = "posting" /\ r.at \in Refreshing
        /\ UNCHANGED <<now, held, shared, locked, slowest>>
        /\ Served(c, "granted", now + Life, 0)
    BY <1>3 DEF Grants, Refreshing
  <2>1. held.until + 1 = r.since /\ r.since + Life <= now + Life /\ now + Life \in Nat
    BY <1>0, <1>00, <2>0 DEF RefreshOK, RefreshAt
  <2>2. HeldOK' /\ SharedOK' /\ "granted" \in Refreshing
    BY <1>0, <2>0 DEF HeldOK, SharedOK, Refreshing
  <2>3. Moved(c, "granted", now + Life, 0, r.since)
    BY <1>0, <2>0, <2>1, Going DEF Ats, Refreshing
  <2>4. RefreshAt(c)'
    BY <1>0, <1>00, <2>0, <2>1, <2>3, RefreshMoves
  <2>5. /\ now' = now /\ slowest' \in Nat /\ slowest <= slowest'
        /\ held' \in [token : Nat, until : Nat] /\ shared' \in [token : Nat, until : Nat]
        /\ request[c].at \in Refreshing /\ locked' = locked
    BY <1>0, <2>0
  <2> QED BY <2>2, <2>3, <2>4, <2>5, TokenGoes
<1>4. CASE TakesGrant(c)
  <2>0. /\ r.at = "granted" /\ r.at \in Refreshing /\ UNCHANGED <<now, shared, locked>>
        /\ Awaited(c) /\ held' = [token |-> r.token, until |-> held.until + 1 + Life]
        /\ Goes(c, "sharing", r.token)
    BY <1>4 DEF TakesGrant, TrustedUntil, Refreshing
  <2>1. slowest' \in Nat /\ slowest <= slowest' /\ now <= r.since + slowest'
    BY <1>0, <1>00, <2>0, Awaiting
  <2>2. held.until + 1 = r.since /\ r.since + Life <= r.token
    BY <1>0, <2>0 DEF RefreshOK, RefreshAt
  <2>3. held' \in [token : Nat, until : Nat] /\ HeldOK' /\ held'.token = r.token
    BY <1>0, <1>00, <2>0, <2>2 DEF HeldOK
  <2>4. SharedOK'
    BY <1>0, <2>0, <2>1 DEF SharedOK
  <2>5. now + Life <= r.token + slowest' /\ "sharing" \in Refreshing
    BY <1>0, <1>00, <2>1, <2>2 DEF Refreshing
  <2>6. Moved(c, "sharing", r.token, 0, now)
    BY <1>0, <1>00, <2>0, Going DEF Ats, Refreshing
  <2>7. RefreshAt(c)'
    BY <1>0, <2>0, <2>3, <2>5, <2>6 DEF RefreshAt, Moved
  <2> QED BY <1>0, <2>0, <2>1, <2>3, <2>4, <2>5, <2>6, <2>7, TokenGoes
<1>5. CASE SharesGrant(c)
  <2>0. /\ r.at = "sharing" /\ r.at \in Refreshing /\ UNCHANGED <<now, held, locked>>
        /\ Awaited(c) /\ shared' = [token |-> r.token, until |-> now + Life - Margin]
        /\ Served(c, "stored", r.token, 0) /\ Life > Margin
    BY <1>5 DEF SharesGrant, Refreshing
  <2>1. slowest' \in Nat /\ slowest <= slowest' /\ now <= r.since + slowest'
    BY <1>0, <1>00, <2>0, Awaiting
  <2>2. held.token = r.token /\ r.since + Life <= r.token + slowest
    BY <1>0, <2>0 DEF RefreshOK, RefreshAt
  <2>3. shared' \in [token : Nat, until : Nat]
    BY <1>0, <1>00, <2>0
  <2>4. SharedOK'
    <3>1. shared'.until + Margin = now + Life /\ shared'.token = r.token
      BY <1>0, <1>00, <2>0
    <3>2. now + Life <= r.token + 2 * slowest'
      BY <1>0, <1>00, <2>1, <2>2
    <3> QED BY <3>1, <3>2 DEF SharedOK
  <2>5. HeldOK'
    BY <1>0, <2>0, <2>1 DEF HeldOK
  <2>6. r.since + Life <= r.token + slowest' /\ "stored" \in Refreshing
    BY <1>0, <1>00, <2>1, <2>2 DEF Refreshing
  <2>7. Moved(c, "stored", r.token, 0, r.since)
    BY <1>0, <1>00, <2>0, Going DEF Ats, Refreshing
  <2>8. RefreshAt(c)'
    BY <1>0, <1>00, <2>0, <2>2, <2>6, <2>7 DEF RefreshAt, Moved
  <2> QED BY <1>0, <2>0, <2>1, <2>3, <2>4, <2>5, <2>6, <2>7, <2>8, TokenGoes
<1>6. CASE ShareEnds(c)
  <2>0. /\ r.at \in Refreshing /\ UNCHANGED <<now, held, shared>> /\ Awaited(c)
        /\ Settles(c, "sent", held.token) /\ held.token \in Nat
    BY <1>0, <1>6 DEF ShareEnds, Sends, Refreshing
  <2>1. slowest' \in Nat /\ slowest <= slowest'
    BY <1>0, <1>00, <2>0, Awaiting
  <2>2. HeldOK'
    BY <1>0, <2>0, <2>1 DEF HeldOK
  <2> QED BY <1>0, <2>0, <2>1, <2>2, TokenParks
<1> QED BY <1>1, <1>2, <1>3, <1>4, <1>5, <1>6

\* A clock that goes on, restarts, and every await of every request keep it.
LEMMA TokenStepwise == TokenInv /\ [SpotifyNext]_spotifyVars => TokenInv'
<1> SUFFICES ASSUME TokenInv, [SpotifyNext]_spotifyVars PROVE TokenInv'
  OBVIOUS
<1>1. CASE SpotifyRestarts
  BY <1>1, SpotifyAssumption DEF SpotifyRestarts, Never, Settled, TokenInv, TokenTypeOK,
     AloneOK, HeldOK, SharedOK, RefreshOK, RefreshAt, Ats, Refreshing
<1>2. CASE TimePasses
  BY <1>2, SpotifyAssumption DEF TimePasses, TokenInv, TokenTypeOK, AloneOK, HeldOK, SharedOK,
     RefreshOK, RefreshAt
<1>3. CASE UNCHANGED spotifyVars
  BY <1>3 DEF spotifyVars, TokenInv, TokenTypeOK, AloneOK, HeldOK, SharedOK, RefreshOK,
     RefreshAt
<1> QED
  BY <1>1, <1>2, <1>3, CallsKeep, RefreshKeeps DEF SpotifyNext

\* Every call goes out with a token that Spotify still honours, or that the awaits since its
\* grant have outlived by no more than they exceed the margin by, through restarts,
\* validations and failed grants (http_call(), validate(), _refresh_token()).
THEOREM TokensLive == SpotifySpec => LiveToken
<1>1. TokenInv /\ [SpotifyNext]_spotifyVars =>
        [\A c \in Requests : request[c].at # "sent" /\ request'[c].at = "sent" =>
             InTime(c)']_spotifyVars
  <2> SUFFICES ASSUME TokenInv, SpotifyNext, NEW d \in Requests,
                      request[d].at # "sent", request'[d].at = "sent"
               PROVE InTime(d)'
    OBVIOUS
  <2>0. /\ Life \in Nat /\ Margin \in Nat /\ now \in Nat /\ slowest \in Nat
        /\ held.token \in Nat /\ held.until \in Nat
        /\ TokenTypeOK /\ HeldOK /\ RefreshOK
    BY SpotifyAssumption DEF TokenInv, TokenTypeOK
  <2>1. ASSUME NEW c \in Requests, NEW token, Settles(c, "sent", token)
        PROVE c = d /\ request'[d].token = token
    BY <2>0, <2>1 DEF Settles, Settled, TokenTypeOK
  <2>2. ASSUME NEW c \in Requests, ~Expired, Sends(c, held.token),
               UNCHANGED <<now, held, slowest>>
        PROVE InTime(d)'
    <3>1. now <= held.until /\ request'[d].token = held.token
      BY <2>0, <2>1, <2>2 DEF Expired, Sends
    <3> QED BY <2>0, <2>2, <3>1 DEF HeldOK, InTime
  <2>3. ASSUME NEW c \in Requests, AppliesShared(c) PROVE InTime(d)'
    <3>1. /\ request[c].at = "applying" /\ Awaited(c) /\ now' = now
          /\ request'[d].token = request[c].token
      BY <2>1, <2>3 DEF AppliesShared, Sends
    <3>2. request[c].since + request[c].left + Margin <= request[c].token + 2 * slowest
      BY <2>0, <3>1 DEF RefreshOK, RefreshAt
    <3>3. request[c].since \in Nat /\ request[c].left \in Nat /\ request[c].token \in Nat
          /\ request[c].since <= now
      BY <2>0 DEF TokenTypeOK, RefreshOK, RefreshAt
    <3>4. slowest' \in Nat /\ slowest <= slowest' /\ now <= request[c].since + slowest'
      BY <2>0, <3>1, <3>3, Awaiting
    <3>5. now + Margin <= request[c].token + 3 * slowest'
      BY <2>0, <3>2, <3>3, <3>4
    <3> QED BY <3>1, <3>5 DEF InTime
  <2>4. ASSUME NEW c \in Requests, ShareEnds(c) PROVE InTime(d)'
    <3>1. /\ request[c].at \in {"sharing", "stored"} /\ Awaited(c) /\ now' = now
          /\ request'[d].token = held.token
      BY <2>1, <2>4 DEF ShareEnds, Sends
    <3>2. held.token = request[c].token
          /\ request[c].since + Life <= request[c].token + slowest
      BY <2>0, <3>1 DEF RefreshOK, RefreshAt
    <3>3. request[c].since \in Nat /\ request[c].since <= now
      BY <2>0 DEF TokenTypeOK, RefreshOK, RefreshAt
    <3>4. slowest' \in Nat /\ slowest <= slowest' /\ now <= request[c].since + slowest'
      BY <2>0, <3>1, <3>3, Awaiting
    <3>5. now + Life <= held.token + 2 * slowest'
      BY <2>0, <3>2, <3>3, <3>4
    <3> QED BY <3>1, <3>5 DEF InTime
  <2>5. ASSUME NEW c \in Requests,
               \/ Validates(c) \/ ReadsShared(c) \/ Grants(c) \/ RefreshFails(c)
               \/ TakesGrant(c) \/ SharesGrant(c) \/ SentEnds(c)
        PROVE FALSE
    <3>1. ASSUME NEW at, at # "sent", NEW token, NEW left, NEW since,
                 request' = [request EXCEPT ![c] = [at |-> at, token |-> token, left |-> left,
                                                    since |-> since]]
          PROVE FALSE
      BY <2>0, <3>1 DEF TokenTypeOK
    <3>2. ASSUME NEW at, at # "sent", NEW token, Settles(c, at, token) \/ Goes(c, at, token)
          PROVE FALSE
      BY <3>1, <3>2 DEF Settles, Settled, Goes
    <3>3. ASSUME NEW at, at # "sent", NEW token, NEW left, Served(c, at, token, left) PROVE FALSE
      BY <3>1, <3>3 DEF Served
    <3>4. \/ \E at \in {"failed", "idle"} : Settles(c, at, 0)
          \/ \E at \in {"posting", "sharing"} : \E token : Goes(c, at, token)
          \/ \E at \in {"applying", "granted", "stored"} : \E token, left :
               Served(c, at, token, left)
      BY <2>5 DEF Validates, ReadsShared, Grants, RefreshFails, TakesGrant, SharesGrant, SentEnds,
                  Posts
    <3> QED BY <3>2, <3>3, <3>4
  <2>6. ~SpotifyRestarts /\ ~TimePasses
    BY DEF SpotifyRestarts, TimePasses, Settled
  <2>7. ASSUME NEW c \in Requests, CallsApi(c) \/ LocksToken(c) PROVE InTime(d)'
    <3>1. UNCHANGED <<now, held, slowest>>
      BY <2>7 DEF CallsApi, LocksToken
    <3>2. CASE ~Expired /\ Sends(c, held.token)
      BY <2>2, <3>1, <3>2
    <3>3. CASE Settles(c, "locking", 0)
      BY <2>0, <3>3 DEF Settles, Settled, TokenTypeOK
    <3>4. CASE Goes(c, "reading", 0)
      BY <2>0, <3>4 DEF Goes, TokenTypeOK
    <3> QED BY <2>7, <3>2, <3>3, <3>4 DEF CallsApi, LocksToken
  <2> QED BY <2>3, <2>4, <2>5, <2>6, <2>7 DEF SpotifyNext
<1> QED
  BY TokenInitially, TokenStepwise, <1>1, PTL DEF SpotifySpec, LiveToken

\* The clock and the lock.
ClockOK == now \in 1 .. Horizon /\ locked \in BOOLEAN

\* One request at a time has token_expiry to itself, whatever becomes of the others, and the
\* lock with it (http_call(), validate(), _refresh_token()).
THEOREM SpotifyTypeCorrect == SpotifySpec => []SpotifyTypeOK
<1>1. SpotifyInit => ClockOK
  <2>1. SpotifyInit => now \in 1 .. Horizon
    BY SpotifyAssumption DEF SpotifyInit
  <2>2. SpotifyInit => locked \in BOOLEAN
    BY DEF SpotifyInit
  <2> QED BY <2>1, <2>2 DEF ClockOK
<1>2. ClockOK /\ [SpotifyNext]_spotifyVars => ClockOK'
  <2> SUFFICES ASSUME ClockOK, [SpotifyNext]_spotifyVars PROVE ClockOK'
    OBVIOUS
  <2> USE SpotifyAssumption DEF ClockOK
  <2>1. ASSUME NEW c \in Requests,
               CallsApi(c) \/ Validates(c) \/ LocksToken(c) \/ ReadsShared(c) \/ AppliesShared(c)
        PROVE ClockOK'
    BY <2>1 DEF CallsApi, Validates, LocksToken, ReadsShared, AppliesShared
  <2>2. ASSUME NEW c \in Requests,
               \/ Grants(c) \/ RefreshFails(c) \/ TakesGrant(c) \/ SharesGrant(c) \/ ShareEnds(c)
               \/ SentEnds(c)
        PROVE ClockOK'
    BY <2>2 DEF Grants, RefreshFails, TakesGrant, SharesGrant, ShareEnds, SentEnds
  <2>3. CASE SpotifyRestarts
    BY <2>3 DEF SpotifyRestarts
  <2>4. CASE TimePasses
    BY <2>4 DEF TimePasses
  <2>5. CASE UNCHANGED spotifyVars
    BY <2>5 DEF spotifyVars
  <2> QED BY <2>1, <2>2, <2>3, <2>4, <2>5 DEF SpotifyNext
<1>3. ClockOK /\ TokenInv => SpotifyTypeOK
  BY DEF ClockOK, TokenInv, TokenTypeOK, AloneOK, SpotifyTypeOK, Ats, Refreshing, Idling
<1> QED
  BY TokenInitially, TokenStepwise, <1>1, <1>2, <1>3, PTL DEF SpotifySpec

-----------------------------------------------------------------------------
(* Debug choices.                                                          *)

\* The shape of what the arguments below read.
ChoiceTypeOK ==
    /\ config \in Choices \cup {Unset}
    /\ toggleSeq \in Nat
    /\ toggledAt \in 0 .. toggleSeq
    /\ pass \in [Hydrations -> [at : {"new", "reading", "applying", "done"},
                                started : 0 .. toggleSeq,
                                read : Choices \cup {Unset, Nothing}]]
    /\ toggling \in [at : {"none", "writing", "landed", "failed"}, choice : Choices \cup {Unset}]

\* What a pass would apply is in Redis, or it is too old to be applied.
PassOK ==
    ~straddled => \A h \in Hydrations :
        pass[h].at = "applying" /\ ~Skips(h) /\ toggling.at \in {"none", "writing"} =>
            pass[h].read = config

\* A toggle that landed is in Redis.
LandedOK == ~straddled /\ toggling.at = "landed" => config = toggling.choice

\* A guild without the bot has no choice and nothing under way, unless its removal cut
\* into something.
GoneOK ==
    /\ forgetting => ~member
    /\ ~member /\ ~straddled =>
         /\ override = Unset /\ told = NothingTold /\ toggling.at = "none"
         /\ \A h \in Hydrations : pass[h].at \in {"new", "done"}

ChoiceInv == ChoiceTypeOK /\ PassOK /\ LandedOK /\ GoneOK /\ SavedChoiceInForce /\ CacheOwnsUp

\* Before the first hydration nothing is cached.
LEMMA ChoiceInitially == DebugInit => ChoiceInv
<1> SUFFICES ASSUME DebugInit PROVE ChoiceInv
  OBVIOUS
<1>1. ChoiceTypeOK
  BY DEF DebugInit, ChoiceTypeOK, NoToggle
<1>2. PassOK /\ LandedOK /\ GoneOK /\ SavedChoiceInForce /\ CacheOwnsUp
  BY DEF DebugInit, PassOK, LandedOK, GoneOK, SavedChoiceInForce, CacheOwnsUp, NoToggle, NothingTold
<1> QED
  BY <1>1, <1>2 DEF ChoiceInv

\* Every await of hydrate(), toggle() and forget() keeps it.
LEMMA ChoiceStepwise == ChoiceInv /\ [DebugNext]_debugVars => ChoiceInv'
<1> SUFFICES ASSUME ChoiceInv, [DebugNext]_debugVars PROVE ChoiceInv'
  OBVIOUS
<1> USE DEF ChoiceInv, ChoiceTypeOK, PassOK, LandedOK, GoneOK, SavedChoiceInForce, CacheOwnsUp,
            Skips, NoToggle, NothingTold, Choices, Unset, Nothing
<1>1. ASSUME NEW h \in Hydrations, HydrateStarts(h) PROVE ChoiceInv'
  BY <1>1 DEF HydrateStarts
<1>2. ASSUME NEW h \in Hydrations, HydrateReads(h) PROVE ChoiceInv'
  <2>1. PICK v \in {config, Nothing} :
          pass' = [pass EXCEPT ![h] = [at |-> "applying", started |-> pass[h].started, read |-> v]]
    BY <1>2 DEF HydrateReads
  <2>2. /\ pass[h].at = "reading"
        /\ UNCHANGED <<config, override, toggleSeq, toggledAt, unpersisted, toggling, member,
                       forgetting, told, straddled>>
    BY <1>2 DEF HydrateReads
  <2>3. ChoiceTypeOK'
    BY <2>1, <2>2
  <2>4. PassOK'
    BY <2>1, <2>2
  <2>5. LandedOK' /\ GoneOK' /\ SavedChoiceInForce' /\ CacheOwnsUp'
    BY <2>1, <2>2
  <2> QED BY <2>3, <2>4, <2>5
<1>3. ASSUME NEW h \in Hydrations, HydrateApplies(h) PROVE ChoiceInv'
  <2>1. /\ pass[h].at = "applying"
        /\ pass' = [pass EXCEPT ![h] = [at |-> "done", started |-> 0, read |-> Nothing]]
        /\ UNCHANGED <<config, toggleSeq, toggledAt, toggling, member, forgetting, told, straddled>>
    BY <1>3 DEF HydrateApplies
  <2>2. ChoiceTypeOK' /\ PassOK' /\ LandedOK'
    BY <2>1
  <2>3. GoneOK'
    BY <2>1
  <2>4. CASE Skips(h)
    <3>1. override' = override /\ unpersisted' = unpersisted
      BY <1>3, <2>4 DEF HydrateApplies
    <3> QED BY <2>1, <2>2, <2>3, <3>1
  <2>5. CASE ~Skips(h)
    <3>1. override' = pass[h].read
      BY <1>3, <2>5 DEF HydrateApplies
    <3>2. ~straddled /\ toggling.at = "none" => override' = config
      BY <2>1, <2>5, <3>1
    <3>3. SavedChoiceInForce' /\ CacheOwnsUp'
      BY <2>1, <3>2
    <3> QED BY <2>2, <2>3, <3>3
  <2> QED BY <2>4, <2>5
<1>4. CASE ToggleStarts
  BY <1>4 DEF ToggleStarts
<1>5. CASE ToggleWrites
  BY <1>5 DEF ToggleWrites
<1>6. CASE ToggleEnds
  <2>1. /\ toggling.at \in {"landed", "failed"}
        /\ override' = toggling.choice
        /\ toggleSeq' = toggleSeq + 1 /\ toggledAt' = toggleSeq + 1
        /\ toggling' = [at |-> "none", choice |-> Unset]
        /\ UNCHANGED <<config, pass, member, forgetting, straddled>>
    BY <1>6 DEF ToggleEnds
  <2>2. ChoiceTypeOK' /\ PassOK' /\ LandedOK'
    BY <2>1
  <2>3. GoneOK'
    BY <2>1
  <2>4. CASE toggling.at = "landed"
    <3>1. ~straddled => override' = config /\ told'.choice = override'
      BY <1>6, <2>1, <2>4 DEF ToggleEnds
    <3>2. SavedChoiceInForce' /\ CacheOwnsUp'
      BY <2>1, <3>1
    <3> QED BY <2>2, <2>3, <3>2
  <2>5. CASE toggling.at = "failed"
    <3>1. unpersisted' /\ ~told'.saved
      BY <1>6, <2>5 DEF ToggleEnds
    <3>2. SavedChoiceInForce' /\ CacheOwnsUp'
      BY <3>1
    <3> QED BY <2>2, <2>3, <3>2
  <2> QED BY <2>1, <2>4, <2>5
<1>7. CASE Removed
  <2>1. /\ member' = FALSE /\ override' = Unset /\ told' = NothingTold /\ toggledAt' = 0
        /\ UNCHANGED <<config, toggleSeq, pass, toggling>>
    BY <1>7 DEF Removed
  <2>2. ~straddled' => ~straddled /\ toggling.at = "none"
                       /\ \A h \in Hydrations : pass[h].at \notin {"reading", "applying"}
    BY <1>7 DEF Removed
  <2>3. ChoiceTypeOK'
    BY <2>1
  <2>4. PassOK' /\ LandedOK' /\ GoneOK'
    BY <2>1, <2>2
  <2>5. SavedChoiceInForce' /\ CacheOwnsUp'
    BY <2>1
  <2> QED BY <2>3, <2>4, <2>5
<1>8. CASE ForgetEnds
  BY <1>8 DEF ForgetEnds
<1>9. CASE Readded
  BY <1>9 DEF Readded
<1>10. CASE UNCHANGED debugVars
  BY <1>10 DEF debugVars
<1> QED
  BY <1>1, <1>2, <1>3, <1>4, <1>5, <1>6, <1>7, <1>8, <1>9, <1>10 DEF DebugNext

\* However many passes of hydrate() read before a toggle and apply after it, fail to read,
\* or are crossed by a removal: a choice that was saved is in force, and one that is not
\* saved is reported so (hydrate(), toggle(), forget()).
THEOREM ChoicesKept == DebugSpec => []ChoicesSound
<1>1. ChoiceInv => ChoicesSound
  BY DEF ChoiceInv, ChoicesSound
<1> QED
  BY ChoiceInitially, ChoiceStepwise, <1>1, PTL DEF DebugSpec

\* What is left of the types: a toggle under way has one of the toggles to itself.
CountersOK ==
    /\ override \in Choices \cup {Unset}
    /\ toggleSeq <= MaxToggles /\ (toggling.at # "none" => toggleSeq < MaxToggles)
    /\ removals \in 0 .. MaxRemovals
    /\ unpersisted \in BOOLEAN /\ member \in BOOLEAN /\ forgetting \in BOOLEAN
    /\ straddled \in BOOLEAN

\* Each variable of a guild's debug choice has its type, and no stamp a pass of hydrate()
\* took is newer than the counter (hydrate(), toggle(), forget()).
THEOREM DebugTypeCorrect == DebugSpec => []DebugTypeOK
<1>1. DebugInit => CountersOK
  <2> SUFFICES ASSUME DebugInit PROVE CountersOK
    OBVIOUS
  <2>1. /\ unpersisted \in BOOLEAN /\ member \in BOOLEAN /\ forgetting \in BOOLEAN
        /\ straddled \in BOOLEAN
    BY DEF DebugInit
  <2>2. toggleSeq = 0 /\ removals = 0 /\ toggling.at = "none" /\ override = Unset
    BY DEF DebugInit, NoToggle
  <2> QED BY <2>1, <2>2, DebugAssumption DEF CountersOK
<1>2. CountersOK /\ ChoiceInv /\ [DebugNext]_debugVars => CountersOK'
  <2> SUFFICES ASSUME CountersOK, ChoiceTypeOK, [DebugNext]_debugVars PROVE CountersOK'
    BY DEF ChoiceInv
  <2> USE DebugAssumption DEF CountersOK, ChoiceTypeOK
  <2>1. ASSUME NEW h \in Hydrations, HydrateStarts(h) \/ HydrateReads(h) PROVE CountersOK'
    BY <2>1 DEF HydrateStarts, HydrateReads
  <2>2. ASSUME NEW h \in Hydrations, HydrateApplies(h) PROVE CountersOK'
    <3>1. Skips(h) \/ pass[h].read \in Choices \cup {Unset}
      BY DEF Skips
    <3> QED BY <2>2, <3>1 DEF HydrateApplies
  <2>3. CASE ToggleStarts
    BY <2>3 DEF ToggleStarts
  <2>4. CASE ToggleWrites
    BY <2>4 DEF ToggleWrites
  <2>5. CASE ToggleEnds
    <3>1. toggling.at # "none" /\ toggling'.at = "none" /\ toggleSeq' = toggleSeq + 1
      BY <2>5 DEF ToggleEnds, NoToggle
    <3>2. override' = toggling.choice /\ unpersisted' \in BOOLEAN
      BY <2>5 DEF ToggleEnds
    <3>3. toggling.choice \in Choices \cup {Unset}
      OBVIOUS
    <3> QED BY <2>5, <3>1, <3>2, <3>3 DEF ToggleEnds
  <2>6. CASE Removed
    <3>1. /\ removals' = removals + 1 /\ removals < MaxRemovals
          /\ override' = Unset /\ UNCHANGED <<toggleSeq, toggling>>
      BY <2>6 DEF Removed
    <3>2. unpersisted' \in BOOLEAN /\ member' \in BOOLEAN /\ forgetting' \in BOOLEAN
      BY <2>6 DEF Removed
    <3>3. straddled' \in BOOLEAN
      BY <2>6 DEF Removed
    <3> QED BY <3>1, <3>2, <3>3
  <2>7. CASE ForgetEnds
    BY <2>7 DEF ForgetEnds
  <2>8. CASE Readded
    BY <2>8 DEF Readded
  <2>9. CASE UNCHANGED debugVars
    BY <2>9 DEF debugVars
  <2> QED BY <2>1, <2>2, <2>3, <2>4, <2>5, <2>6, <2>7, <2>8, <2>9 DEF DebugNext
<1>3. CountersOK /\ ChoiceInv => DebugTypeOK
  BY DebugAssumption DEF CountersOK, ChoiceInv, ChoiceTypeOK, DebugTypeOK
<1> QED
  BY ChoiceInitially, ChoiceStepwise, <1>1, <1>2, <1>3, PTL DEF DebugSpec
=============================================================================
