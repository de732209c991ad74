---------------------------- MODULE SpotifyToken ----------------------------
(***************************************************************************)
(* The bearer token of the Spotify client: the process keeps one with the time    *)
(* it trusts it to, and shares it in Redis with the next one.  A token is the time *)
(* at which Spotify stops to honour it.  http_call() refreshes it under a lock,     *)
(* validate() forces a grant.                                                   *)
(*                                                                         *)
(* A clock counts.  An await takes any time: the session bounds a grant by        *)
(* _HTTP_TIMEOUT, and nothing bounds a Redis command.                            *)
(***************************************************************************)
EXTENDS Naturals

CONSTANTS
    Requests,  \* tasks in http_call() or validate()
    Life,      \* expires_in
    Margin,    \* what the shared token's time to live falls short of expires_in
    Horizon    \* bound: the clock

ASSUME SpotifyAssumption ==
    /\ Margin \in Nat
    /\ Life \in Nat \ {0}
    /\ Horizon \in Nat \ {0}

VARIABLES
    now,
    held,     \* auth_token and token_expiry
    shared,   \* spotify:auth:token and the time it expires
    locked,   \* _auth_lock is held
    request,  \* [Requests -> the await it is parked at, since when, and its token]
    slowest   \* history: the longest await of a refresh up to now

spotifyVars == <<now, held, shared, locked, request, slowest>>

Never == [token |-> 0, until |-> 0]
Idling == {"idle", "locking"}
Settled(at, token) == [at |-> at, token |-> token, left |-> 0, since |-> 1]

SpotifyInit ==
    /\ now = 1
    /\ held = Never
    /\ shared = Never
    /\ locked = FALSE
    /\ request = [c \in Requests |-> Settled("idle", 0)]
    /\ slowest = 0

\* c is out of a refresh; it begins an await of one; the request it awaits is served.
Settles(c, at, token) ==
    request' = [request EXCEPT ![c] = Settled(at, token)]
Goes(c, at, token) ==
    request' = [request EXCEPT ![c] = [at |-> at, token |-> token, left |-> 0, since |-> now]]
Served(c, at, token, left) ==
    request' = [request EXCEPT ![c] = [at |-> at, token |-> token, left |-> left,
                                       since |-> request[c].since]]

\* The await of c has taken so long.
Awaited(c) ==
    slowest' = IF slowest < now - request[c].since THEN now - request[c].since ELSE slowest

Expired == now > held.until

\* The request itself, with the token of the moment; it is answered, whatever that is.
Sends(c, token) == Settles(c, "sent", token)

SentEnds(c) ==
    /\ request[c].at \in {"sent", "failed"}
    /\ Settles(c, "idle", 0)
    /\ UNCHANGED <<now, held, shared, locked, slowest>>

\* http_call(), first check.
CallsApi(c) ==
    /\ request[c].at = "idle"
    /\ IF Expired THEN Settles(c, "locking", 0) ELSE Sends(c, held.token)
    /\ UNCHANGED <<now, held, shared, locked, slowest>>

\* The lock is there: the shared token is asked for, or somebody has refreshed already.
LocksToken(c) ==
    /\ request[c].at = "locking"
    /\ ~locked
    /\ \/ Expired /\ locked' = TRUE /\ Goes(c, "reading", 0)
       \/ ~Expired /\ Sends(c, held.token) /\ UNCHANGED locked
    /\ UNCHANGED <<now, held, shared, slowest>>

\* token_expiry is stamped, and the client-credentials grant asked for.  The program's
\* clock is finer than this one: whoever looks next finds the stamp passed.
Posts(c) ==
    /\ held' = [held EXCEPT !.until = now - 1]
    /\ Goes(c, "posting", 0)

\* A seeded mistake: without the lock.
ValidatesUnlocked(c) ==
    /\ request[c].at = "idle"
    /\ locked' = TRUE
    /\ Posts(c)
    /\ UNCHANGED <<now, shared, slowest>>

\* validate(): a grant, whatever is cached.
Validates(c) ==
    /\ request[c].at = "idle"
    /\ ~locked
    /\ locked' = TRUE
    /\ Posts(c)
    /\ UNCHANGED <<now, shared, slowest>>

\* spotify_token_get_with_ttl() is served: a hit with its time to live, a miss or an error.
ReadsShared(c) ==
    /\ request[c].at = "reading"
    /\ \/ shared.until > now /\ Served(c, "applying", shared.token, shared.until - now)
          /\ UNCHANGED held
       \/ Posts(c)
    /\ UNCHANGED <<now, shared, locked, slowest>>

\* The reply is there.
AppliesShared(c) ==
    /\ request[c].at = "applying"
    /\ held' = [token |-> request[c].token, until |-> now + request[c].left]
    /\ Sends(c, request[c].token)
    /\ Awaited(c)
    /\ locked' = FALSE
    /\ UNCHANGED <<now, shared>>

\* Spotify grants a token.
Grants(c) ==
    /\ request[c].at = "posting"
    /\ Served(c, "granted", now + Life, 0)
    /\ UNCHANGED <<now, held, shared, locked, slowest>>

\* A refused grant, an error, validate()'s timeout, or a command that is cancelled: the
\* lock is given up and no request made.
RefreshFails(c) ==
    /\ request[c].at \in {"reading", "applying", "posting", "granted", "sharing", "stored"}
    /\ Settles(c, "failed", 0)
    /\ locked' = FALSE
    /\ UNCHANGED <<now, held, shared, slowest>>

\* A seeded mistake: the life is counted from the reply.
TrustedUntilFromReply == now + Life

\* token_expiry counts from the stamp.
TrustedUntil == held.until + 1 + Life

TakesGrant(c) ==
    /\ request[c].at = "granted"
    /\ held' = [token |-> request[c].token, until |-> TrustedUntil]
    /\ Goes(c, "sharing", request[c].token)
    /\ Awaited(c)
    /\ UNCHANGED <<now, shared, locked>>

\* spotify_token_set(): the SET is served, if the token lives long enough to share it.
SharesGrant(c) ==
    /\ request[c].at = "sharing"
    /\ Life > Margin
    /\ shared' = [token |-> request[c].token, until |-> now + Life - Margin]
    /\ Served(c, "stored", request[c].token, 0)
    /\ Awaited(c)
    /\ UNCHANGED <<now, held, locked>>

\* Its reply, or an error, which it swallows; the lock is given up and the request made.
ShareEnds(c) ==
    /\ request[c].at \in {"sharing", "stored"}
    /\ Sends(c, held.token)
    /\ Awaited(c)
    /\ locked' = FALSE
    /\ UNCHANGED <<now, held, shared>>

\* The process dies, and the next one starts without a token.
SpotifyRestarts ==
    /\ held' = Never
    /\ locked' = FALSE
    /\ request' = [c \in Requests |-> Settled("idle", 0)]
    /\ UNCHANGED <<now, shared, slowest>>

\* A unit of time, whoever waits for what.
TimePasses ==
    /\ now < Horizon
    /\ now' = now + 1
    /\ UNCHANGED <<held, shared, locked, request, slowest>>

SpotifyNext ==
    \/ \E c \in Requests :
         \/ CallsApi(c) \/ Validates(c) \/ LocksToken(c) \/ ReadsShared(c) \/ AppliesShared(c)
         \/ Grants(c) \/ RefreshFails(c) \/ TakesGrant(c) \/ SharesGrant(c) \/ ShareEnds(c)
         \/ SentEnds(c)
    \/ SpotifyRestarts \/ TimePasses

SpotifySpec == SpotifyInit /\ [][SpotifyNext]_spotifyVars

-----------------------------------------------------------------------------
(* Properties.                                                             *)

\* Each variable has its type; a refresh, also one that validates, has
\* token_expiry to itself, to which it adds what was granted.
SpotifyTypeOK ==
    /\ now \in 1 .. Horizon
    /\ {held, shared} \subseteq [token : Nat, until : Nat]
    /\ locked \in BOOLEAN
    /\ \A c, d \in {e \in Requests : request[e].at \notin Idling \cup {"sent", "failed"}} :
         c = d /\ locked
    /\ slowest \in Nat

\* Spotify honours the token of c, or the awaits ate up more than the code keeps in hand: three
\* lie between a grant and the use of its shared copy (the grant, the SET, the read), two
\* between a grant and its own use.
InTime(c) ==
    \/ now <= request[c].token
    \/ now + Margin <= request[c].token + 3 * slowest
    \/ now + Life <= request[c].token + 2 * slowest

\* No call goes out with a token Spotify has stopped to honour, be it granted to this
\* process or read from Redis at the end of its life there, as long as three awaits fit in
\* the margin and two in a token's life; and if they do not, it is late by no more than
\* what they exceed them by.  (A 429 repeats the call with the same header.)
LiveToken ==
    [][\A c \in Requests : request[c].at # "sent" /\ request'[c].at = "sent" =>
           InTime(c)']_spotifyVars
=============================================================================
