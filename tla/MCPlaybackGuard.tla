-------------------------- MODULE MCPlaybackGuard --------------------------
(* Instances of PlaybackGuard for TLC. *)
EXTENDS PlaybackGuard

MCFilms == {{}, {0, 3}, {2, 3}}
=============================================================================
