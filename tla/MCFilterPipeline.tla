-------------------------- MODULE MCFilterPipeline --------------------------
(***************************************************************************)
(* Small instances of FilterPipeline for TLC.                              *)
(***************************************************************************)
EXTENDS FilterPipeline, TLC

MCOrigins   == {0}
MCSteps     == {1, 3, 9}    \* the next frame, a gap wider than two paddings, and a seek
WorkerSymmetry == Permutations(Workers)
=============================================================================
