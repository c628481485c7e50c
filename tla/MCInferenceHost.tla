-------------------------- MODULE MCInferenceHost --------------------------
(* Instances of InferenceHost for TLC. *)
EXTENDS InferenceHost
=============================================================================
