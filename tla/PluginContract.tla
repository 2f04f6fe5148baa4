--------------------------- MODULE PluginContract ---------------------------
(***************************************************************************)
(* What the host promises to one plugin instance, whatever threads it uses *)
(* to keep the promise: calls never overlap a shutdown, nothing is called  *)
(* once shutdown succeeded except `destroy', once, and the library stays   *)
(* mapped for as long as any of its code may run.                          *)
(*                                                                         *)
(* Code: the descriptor calls of crates/winisland-plugin-host/src/         *)
(* lifecycle.rs; PluginLifecycle is shown to implement this module.        *)
(***************************************************************************)

VARIABLES
  instance,   \* what the plugin's side of the handle is
  inside,     \* the call the host is making into the library
  mapped      \* the library is in the address space

vars == <<instance, inside, mapped>>

Stage == {"none", "live", "ending", "stopped", "freed"}

Init == instance = "none" /\ inside = "nothing" /\ mapped = FALSE

Map == instance \in {"none", "freed"} /\ ~mapped /\ mapped' = TRUE
       /\ instance' = "none" /\ inside' = "create"

(* `create' hands over an instance (partial or whole), or none.            *)
Created ==
  /\ inside = "create"
  /\ inside' = "nothing"
  /\ \/ instance' = "live" /\ UNCHANGED mapped
     \/ mapped' = FALSE /\ UNCHANGED instance

Enter == /\ mapped /\ inside = "nothing"
         /\ \/ instance = "live" /\ inside' = "callback"
            \/ instance \in {"live", "ending"} /\ inside' = "shutdown"
         /\ UNCHANGED <<instance, mapped>>

Leave == /\ inside = "callback"
         /\ inside' = "nothing"
         /\ UNCHANGED <<instance, mapped>>

(* A refused shutdown can be repeated, and nothing else.                   *)
ShutDown == /\ inside = "shutdown"
            /\ inside' = "nothing"
            /\ instance' \in {"ending", "stopped"}
            /\ UNCHANGED mapped

Destroy == /\ instance = "stopped" /\ inside = "nothing"
           /\ instance' = "freed"
           /\ UNCHANGED <<inside, mapped>>

Unmap == /\ instance = "freed" /\ mapped
         /\ mapped' = FALSE
         /\ UNCHANGED <<instance, inside>>

Next == Map \/ Created \/ Enter \/ Leave \/ ShutDown \/ Destroy \/ Unmap

Spec == Init /\ [][Next]_vars
=============================================================================
