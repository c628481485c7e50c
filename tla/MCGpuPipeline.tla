--------------------------- MODULE MCGpuPipeline ---------------------------
(***************************************************************************)
(* A small instance of GpuPipeline for TLC.                                *)
(***************************************************************************)
EXTENDS GpuPipeline

MCOrigins == {0}
MCJumps   == {1, 9}    \* the next frame, and a seek beyond SeekThreshold = 8
=============================================================================
