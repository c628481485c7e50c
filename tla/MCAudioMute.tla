---------------------------- MODULE MCAudioMute ----------------------------
(* Instances of AudioMute for TLC. *)
EXTENDS AudioMute

MCReached == {"playlist", "output", "variable", "none"}
=============================================================================
