------------------------- MODULE MCPluginExtensions -------------------------
(* Two plugins: provider may register the one command, client may execute  *)
(* it, and either may be unloaded, or left behind by a failed create.      *)
EXTENDS PluginExtensions, TLC

CONSTANTS provider, client, command

MCNameOf == [t \in Token |-> IF t = provider THEN {command} ELSE {}]

(* The handles are drawn in any order and compared for equality only.      *)
MCHandles == Permutations(Handle)

(* One plugin with three handles, all kinds of callbacks and one request;  *)
(* or two plugins with commands alone: two handles and one request, or one  *)
(* handle and two requests.                                                *)
VARIABLE scene

Within ==
  /\ scene = "alone" => registry[client] = "unused" /\ sequence <= 1
  /\ scene = "together" =>
       /\ Cardinality(issued) + sequence <= 3
       /\ \A h \in DOMAIN owners : owners[h].kind = "command"

MCInit == scene \in {"alone", "together"} /\ Init
MCNext == Next /\ UNCHANGED scene /\ Within'
MCSpec == MCInit /\ [][MCNext]_<<scene, vars>>
=============================================================================
