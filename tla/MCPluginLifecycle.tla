------------------------- MODULE MCPluginLifecycle -------------------------
(* One plugin, loaded up to twice, with work from the UI and lyrics threads.*)
EXTENDS PluginLifecycle, TLC

(* The jobs of one kind are alike.                                         *)
MCJobs == Permutations(Media)
=============================================================================
