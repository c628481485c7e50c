------------------------- MODULE MCPluginLifecycle -------------------------
(* Instances of PluginLifecycle for TLC: one with any pictures and two     *)
(* workers, one with software pictures and a single worker.                *)
EXTENDS PluginLifecycle, TLC

CONSTANTS f1, f2

MCFilters == {f1, f2}
MCMaxWorkers == f1 :> 2 @@ f2 :> 1
MCInputs == f1 :> {"software", "hardware"} @@ f2 :> {"software"}
=============================================================================
