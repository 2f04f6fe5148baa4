------------------------- MODULE MCMediaSelection --------------------------
(* Two plugins, one plugin source and one or two players.                  *)
EXTENDS MediaSelection, TLC

MCPlugins == Permutations(Plugin)
=============================================================================
