---------------------------- MODULE MCSyncFilter ----------------------------
(***************************************************************************)
(* Small instances of SyncFilter for TLC.                                  *)
(***************************************************************************)
EXTENDS SyncFilter

AllModes   == ModeType \ [detector : BOOLEAN, backend : {TRUE}, opaque : {TRUE}]

MCOrigins  == {0, 20}
OneDropped == {1, 2, 9}    \* regular, one frame lost, a seek beyond SeekThreshold = 8
=============================================================================
