-------------------------- MODULE MCNowPlayingHost --------------------------
EXTENDS NowPlayingHost
====
