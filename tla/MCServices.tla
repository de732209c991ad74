----------------------------- MODULE MCServices -----------------------------
(***************************************************************************)
(* The services of the bot that share no state with one another, checked as one  *)
(* system: an initial choice says which of them runs.  Each keeps its own        *)
(* specification; here are only the choice, the fairness and the liveness.        *)
(***************************************************************************)
EXTENDS RecoveryLock, AloneWatchdog, YtdlpPool, StreamCache, DebugChoices, LiveDashboard,
        SpotifyToken, ArchivePool

VARIABLE service

Services == {"lock", "watchdog", "pool", "stream", "debug", "dashboard", "spotify", "archive"}

\* What an idle service would choose at its start is fixed.
MCInit ==
    /\ service \in Services
    /\ LockInit /\ WatchdogInit /\ PoolInit /\ StreamInit /\ DebugInit /\ DashboardInit
    /\ SpotifyInit /\ ArchiveInit
    /\ service # "stream" => warmers = {}
    /\ service # "debug" => config = Unset

Quiet(name, v) == service # name => UNCHANGED v

MCNext ==
    /\ \/ service = "lock" /\ LockNext
       \/ service = "watchdog" /\ WatchdogNext
       \/ service = "pool" /\ PoolNext
       \/ service = "stream" /\ StreamNext
       \/ service = "debug" /\ DebugNext
       \/ service = "dashboard" /\ DashboardNext
       \/ service = "spotify" /\ SpotifyNext
       \/ service = "archive" /\ ArchiveNext
    /\ Quiet("lock", lockVars) /\ Quiet("watchdog", watchdogVars) /\ Quiet("pool", poolVars)
    /\ Quiet("stream", streamVars) /\ Quiet("debug", debugVars)
    /\ Quiet("dashboard", dashboardVars) /\ Quiet("spotify", spotifyVars)
    /\ Quiet("archive", archiveVars)
    /\ UNCHANGED service

serviceVars == <<service, lockVars, watchdogVars, poolVars, streamVars, debugVars, dashboardVars,
                 spotifyVars, archiveVars>>

\* Tasks that can run do, time passes, an extraction and a join return; probes need not
\* answer, and nobody need ask, stop or come back.
MCFairness ==
    /\ WF_watchdogVars(service = "watchdog" /\ Handles)
    /\ WF_watchdogVars(service = "watchdog" /\ CleanupDisconnects)
    /\ WF_watchdogVars(service = "watchdog" /\ Ticks)
    /\ \A t \in Timers : WF_watchdogVars(service = "watchdog" /\ CountdownNext(t))
    /\ \A c \in Calls : WF_poolVars(service = "pool" /\ CallNext(c))
    /\ \A k \in Closers : WF_poolVars(service = "pool" /\ (JoinEnds(k) \/ CloseEnds(k)))
    /\ \A a \in Askers : WF_streamVars(service = "stream" /\ AskerNext(a))
    /\ WF_dashboardVars(service = "dashboard" /\ DriverNext)
    /\ WF_dashboardVars(service = "dashboard" /\ DeadlinePasses)
    /\ \A q \in Queries : WF_archiveVars(service = "archive" /\ QueryNext(q))
    /\ WF_archiveVars(service = "archive" /\ (ShutTakes \/ ShutEnds))

MCSpec == MCInit /\ [][MCNext]_serviceVars /\ MCFairness

-----------------------------------------------------------------------------
(* Types and liveness.                                                     *)

\* Each service's variables have their types; what more each of the parts says is
\* commented there.
ServicesTypeOK ==
    /\ LockTypeOK /\ WatchdogTypeOK /\ PoolTypeOK /\ StreamTypeOK
    /\ DebugTypeOK /\ DashboardTypeOK /\ SpotifyTypeOK /\ ArchiveTypeOK

\* VoiceWatchdog: a bot that stays alone in its channel leaves.
EveryLonelinessEnds == service = "watchdog" => AloneLeaves

\* ProcessPool.run(): every extraction is answered, failed or refused, through dead
\* workers and a shutdown.
EveryCallEnds ==
    service = "pool" => <>(\A c \in Calls : call[c].at \in {"answered", "failed", "refused"})

\* _resolve_playable_stream(), prefetch_stream(), yt_source(): none goes on for ever.
EveryResolveEnds == service = "stream" => ResolvesEnd

\* run_live_dashboard() returns, whatever its probes do.
EveryDashboardReturns == service = "dashboard" => DashboardReturns

\* PostgresHistoryArchive.close() returns, so the bot's shutdown goes on.
EveryShutEnds == service = "archive" => ShutReturns

\* None of them waits for ever: the bot leaves; the call, the resolve, the card and the
\* archive's close() end.
EveryServiceReturns ==
    /\ EveryLonelinessEnds /\ EveryCallEnds /\ EveryResolveEnds
    /\ EveryDashboardReturns /\ EveryShutEnds

\* Both pools of the process, of workers and of connections: nothing that was built stays
\* behind when they are closed, whoever was half way through a build, a retry or a query.
PoolsSound == PoolSound /\ OneArchivePool /\ NoneAfterClose
=============================================================================
