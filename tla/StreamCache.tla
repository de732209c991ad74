---------------------------- MODULE StreamCache ----------------------------
(***************************************************************************)
(* One song's stream URL: extracted by yt-dlp, probed, cached in Redis for all  *)
(* guilds, and played.  _resolve_playable_stream() for the loop and for the     *)
(* background prefetch, prefetch_stream() and yt_source() to warm the cache.    *)
(*                                                                         *)
(* YouTube revokes a URL, an entry expires, a probe does not complete, a Redis  *)
(* command fails and a task is cancelled whenever they like.                   *)
(***************************************************************************)
EXTENDS Naturals, FiniteSets

CONSTANTS
    Players,       \* resolvers for the loop
    Helpers,       \* each a resolver for the prefetch (allow_reextract=False), or one
                   \* of prefetch_stream() and yt_source(), which warm the cache
    StreakLimit,   \* _UNCONFIRMED_STREAK_LIMIT
    ExtractBudget  \* _MAX_STREAM_EXTRACTIONS

ASSUME StreamAssumption ==
    StreakLimit \in Nat \ {0} /\ ExtractBudget \in Nat \ {0}

Askers == Players \cup Helpers
NoUrl == 0
NoEntry == [url |-> NoUrl, dead |-> FALSE, kept |-> FALSE]
Idle(at) == [at |-> at, url |-> NoUrl, fresh |-> FALSE, spent |-> 0]

VARIABLES
    warmers,   \* the helpers that warm the cache
    entry,     \* ytdl:stream:{webpage_url}: the URL, and as history whether it
               \* was found dead and a cache_del of it failed or was cut short
    minted,    \* extractions so far, each with a URL of its own
    revoked,   \* URLs YouTube refuses
    streak,    \* _unconfirmed_streak, as far as it is told apart
    asker,     \* [Askers -> the await it is parked at and its locals]
    doubtDrops \* history: entries dropped unconfirmed since a probe reached the host

streamVars == <<warmers, entry, minted, revoked, streak, asker, doubtDrops>>

StreamEnds == {"played", "refused", "failed", "warm", "cancelled"}

\* yt_source() has no cached entry to look at: it begins with its extraction.
StreamInit ==
    /\ entry = NoEntry
    /\ minted = 0
    /\ revoked = {}
    /\ streak = 0
    /\ warmers \in SUBSET Helpers
    /\ \E blind \in SUBSET warmers :
         asker = [a \in Askers |-> Idle(IF a \in blind THEN "extracting" ELSE "reading")]
    /\ doubtDrops = 0

\* What was refused is looked at once more by RefusedAfterMinting; other ends forget.
Parks(a, at) ==
    asker' = [asker EXCEPT ![a] = IF at \in StreamEnds \ {"refused"}
                                  THEN Idle(at) ELSE [@ EXCEPT !.at = at]]

\* The head of the loop without data: another extraction, if the budget allows it.
Missing(a) == IF asker[a].spent < ExtractBudget THEN "extracting" ELSE "refused"

\* cache_get(): a hit, or a miss for want of an entry or of Redis.
ReadsCache(a) ==
    /\ asker[a].at = "reading"
    /\ \/ /\ entry # NoEntry
          /\ asker' = [asker EXCEPT ![a] = IF a \in warmers THEN Idle("warm")
                                           ELSE [Idle("probing") EXCEPT !.url = entry.url]]
       \/ Parks(a, Missing(a))
    /\ UNCHANGED <<warmers, entry, minted, revoked, streak, doubtDrops>>

\* A seeded mistake: the extraction is not counted.
ExtractsFreely(a) ==
    /\ asker[a].at = "extracting"
    /\ minted' = minted + 1
    /\ asker' = [asker EXCEPT ![a] = [@ EXCEPT !.at = "probing", !.url = minted', !.fresh = TRUE]]
    /\ UNCHANGED <<warmers, entry, revoked, streak, doubtDrops>>

\* _run_extract() with a URL signed for this call.
ExtractsStream(a) ==
    /\ asker[a].at = "extracting"
    /\ minted' = minted + 1
    /\ asker' = [asker EXCEPT ![a] = [at |-> "probing", url |-> minted', fresh |-> TRUE,
                                      spent |-> @.spent + 1]]
    /\ UNCHANGED <<warmers, entry, revoked, streak, doubtDrops>>

\* A seeded mistake: an extraction that failed is tried again.
ExtractionRetried(a) ==
    /\ asker[a].at = "extracting"
    /\ Parks(a, "reading")
    /\ UNCHANGED <<warmers, entry, minted, revoked, streak, doubtDrops>>

\* It raises, or finds nothing; a URL without a usable expiry is no use to a warmer.
ExtractionFails(a) ==
    /\ asker[a].at = "extracting"
    /\ Parks(a, IF a \in warmers THEN "warm" ELSE "failed")
    /\ UNCHANGED <<warmers, entry, minted, revoked, streak, doubtDrops>>

\* PLAYABLE.
ProbedPlayable(a) ==
    /\ asker[a].at = "probing"
    /\ asker[a].url \notin revoked
    /\ streak' = 0 /\ doubtDrops' = 0
    /\ Parks(a, IF asker[a].fresh THEN "caching" ELSE "playing")
    /\ UNCHANGED <<warmers, entry, minted, revoked>>

FoundDead(u) == IF u # NoUrl /\ entry.url = u THEN [entry EXCEPT !.dead = TRUE] ELSE entry

\* A seeded mistake: a dead entry is left to be overwritten.
AfterDeadOverwrite(a) == IF a \in warmers THEN "warm" ELSE Missing(a)

\* DEAD: a cached URL is dropped before the next extraction; a warmer writes nothing.
AfterDead(a) ==
    IF a \in warmers THEN "warm" ELSE IF asker[a].fresh THEN Missing(a) ELSE "dropping"

ProbedDead(a) ==
    /\ asker[a].at = "probing"
    /\ asker[a].url \in revoked
    /\ streak' = 0 /\ doubtDrops' = 0
    /\ entry' = FoundDead(asker[a].url)
    /\ Parks(a, AfterDead(a))
    /\ UNCHANGED <<warmers, minted, revoked>>

\* A seeded mistake: the streak has to be longer than the limit.
PathLooksFine(n) == FALSE

\* probe_path_looks_broken(), after n probes in a row that did not complete.
PathLooksBroken(n) == n = StreakLimit

\* UNCONFIRMED: a timeout, 429 or 5xx.  A fresh URL is played and cached briefly, a cached
\* one served if the probe is what is in doubt or nothing may block; else it is dropped,
\* at no charge.
ProbedUnconfirmed(a) ==
    /\ asker[a].at = "probing"
    /\ streak' = IF streak < StreakLimit THEN streak + 1 ELSE streak
    /\ \/ asker[a].fresh /\ Parks(a, "caching") /\ UNCHANGED doubtDrops
       \/ /\ ~asker[a].fresh
          /\ PathLooksBroken(streak') \/ a \in Helpers
          /\ Parks(a, "playing")
          /\ UNCHANGED doubtDrops
       \/ /\ ~asker[a].fresh
          /\ ~PathLooksBroken(streak') /\ a \notin Helpers
          /\ Parks(a, "dropping")
          /\ doubtDrops' = doubtDrops + 1
    /\ UNCHANGED <<warmers, entry, minted, revoked>>

CachedBy(a) == [NoEntry EXCEPT !.url = asker[a].url]

\* _cache_stream(), which declines a URL about to expire, and cache_set(), which may fail.
CachesStream(a) ==
    /\ asker[a].at = "caching"
    /\ entry' \in {entry, CachedBy(a)}
    /\ Parks(a, IF a \in warmers THEN "warm" ELSE "playing")
    /\ UNCHANGED <<warmers, minted, revoked, streak, doubtDrops>>

\* A seeded mistake: the drop is charged against the extractions.
DropCharged(a) ==
    /\ asker[a].at \in {"dropping", "burying"}
    /\ entry' = NoEntry
    /\ Parks(a, IF asker[a].at = "burying" THEN "played" ELSE "refused")
    /\ UNCHANGED <<warmers, minted, revoked, streak, doubtDrops>>

\* A DEL of whatever is in the cache now, served or not.
Kept == IF entry = NoEntry THEN entry ELSE [entry EXCEPT !.kept = TRUE]

\* cache_del(), which may fail.
DropsEntry(a) ==
    /\ asker[a].at \in {"dropping", "burying"}
    /\ entry' \in {NoEntry, Kept}
    /\ Parks(a, IF asker[a].at = "burying" THEN "played" ELSE Missing(a))
    /\ UNCHANGED <<warmers, minted, revoked, streak, doubtDrops>>

\* The song ends: with audio, or without a frame, which the loop takes for a dead URL
\* (_handle_dead_stream, _drop_unplayable_stream_cache).
SongEnds(a) ==
    /\ asker[a].at = "playing"
    /\ \/ /\ asker[a].url \notin revoked
          /\ Parks(a, "played")
          /\ UNCHANGED entry
       \/ Parks(a, "burying") /\ entry' = FoundDead(asker[a].url)
    /\ UNCHANGED <<warmers, minted, revoked, streak, doubtDrops>>

\* YouTube revokes a URL long before its expiry; only of one still in use it matters.
Revokes ==
    /\ \E u \in ({entry.url} \cup {asker[a].url : a \in Askers}) \ ({NoUrl} \cup revoked) :
         revoked' = revoked \cup {u}
    /\ UNCHANGED <<warmers, entry, minted, streak, asker, doubtDrops>>

\* The entry's time to live runs out.
EntryExpires ==
    /\ entry # NoEntry
    /\ entry' = NoEntry
    /\ UNCHANGED <<warmers, minted, revoked, streak, asker, doubtDrops>>

\* A command or -stop cancels the task at whatever it awaits: a command it sent to Redis
\* is served or not.
AskerCancelled(a) ==
    /\ asker[a].at \notin StreamEnds
    /\ Parks(a, "cancelled")
    /\ \/ asker[a].at \in {"dropping", "burying"} /\ entry' \in {NoEntry, Kept}
       \/ asker[a].at = "caching" /\ entry' \in {entry, CachedBy(a)}
       \/ asker[a].at \notin {"dropping", "burying", "caching"} /\ UNCHANGED entry
    /\ UNCHANGED <<warmers, minted, revoked, streak, doubtDrops>>

AskerNext(a) ==
    \/ ReadsCache(a) \/ ExtractsStream(a) \/ ExtractionFails(a)
    \/ ProbedPlayable(a) \/ ProbedDead(a) \/ ProbedUnconfirmed(a)
    \/ CachesStream(a) \/ DropsEntry(a) \/ SongEnds(a)

StreamNext == (\E a \in Askers : AskerNext(a) \/ AskerCancelled(a)) \/ Revokes \/ EntryExpires

StreamSpec == StreamInit /\ [][StreamNext]_streamVars

-----------------------------------------------------------------------------
(* Properties.                                                             *)

\* Each variable has its type; nobody extracts more than the budget.
StreamTypeOK ==
    /\ warmers \subseteq Helpers
    /\ entry \in [url : 0 .. minted, dead : BOOLEAN, kept : BOOLEAN]
    /\ minted \in Nat
    /\ revoked \subseteq 1 .. minted
    /\ streak \in 0 .. StreakLimit
    /\ \A a \in Askers :
         /\ asker[a].at \in {"reading", "extracting", "probing", "caching",
                             "dropping", "burying", "playing"} \cup StreamEnds
         /\ asker[a].spent \in 0 .. ExtractBudget
         /\ asker[a].fresh = (asker[a].spent > 0)

\* "YouTube refused the audio stream even after re-extracting": the message is true of
\* every song that is refused, whatever was dropped from the cache before.
RefusedAfterMinting ==
    \A a \in Askers \ warmers : asker[a].at = "refused" =>
        asker[a].fresh /\ asker[a].url \in revoked

\* A URL found dead by one guild's probe or playback is out of every guild's cache as
\* soon as whoever found it is done, unless Redis refused to drop it or the task was
\* cancelled at that very await; whoever reads it next then finds it dead again.
DeadLeavesCache ==
    entry.dead =>
        \/ entry.kept
        \/ \E a \in Askers : asker[a].at \in {"dropping", "burying"} /\ asker[a].url = entry.url

\* While no probe reaches the host, of all guilds' cached URLs fewer than the limit are
\* dropped for it: an outage of the probe does not empty the cache.
DoubtBounded == doubtDrops < StreakLimit

\* Every resolve ends, playing or refused; the loop in it cannot go on for ever.
ResolvesEnd == <>(\A a \in Askers : asker[a].at \in StreamEnds)

\* What the cached URLs promise a song: it is not refused for a stale one, a dead one is
\* not kept for others, and good ones are not dropped on doubt.
StreamCacheSound == RefusedAfterMinting /\ DeadLeavesCache /\ DoubtBounded
=============================================================================
