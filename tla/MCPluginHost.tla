---------------------------- MODULE MCPluginHost ----------------------------
(* What plugins leave behind, are told and draw: their directories, the    *)
(* markers of their calls, their widgets' input and their frames.  These   *)
(* share no variable: a behaviour is one of one of them, and the others    *)
(* rest.                                                                   *)
EXTENDS PluginStore, CrashMarkers, PluginInput, WidgetFrames

VARIABLE machine

hostVars == <<machine, storeVars, markerVars, inputVars, frameVars>>

HostInit ==
  /\ machine \in {"store", "markers", "input", "frames"}
  /\ StoreInit /\ MarkersInit /\ InputInit /\ FramesInit
  /\ machine # "frames" => allocated = {}

(* BlameIsKept and OnlyRunningBlamed say nothing once a recovery has failed:*)
(* it is followed to its end, and not into the calls that come after it.   *)
AfterFailure == gaveUp => phase' # "running"

InStore(A)   == machine = "store" /\ A /\ UNCHANGED <<machine, markerVars, inputVars, frameVars>>
InMarkers(A) == machine = "markers" /\ A /\ AfterFailure
                  /\ UNCHANGED <<machine, storeVars, inputVars, frameVars>>
InInput(A)   == machine = "input" /\ A /\ UNCHANGED <<machine, storeVars, markerVars, frameVars>>
InFrames(A)  == machine = "frames" /\ A /\ UNCHANGED <<machine, storeVars, markerVars, inputVars>>

HostNext == \/ InStore(StoreNext) \/ InMarkers(MarkersNext)
            \/ InInput(InputNext) \/ InFrames(FramesNext)

(* The fairness of InputSpec.                                              *)
HostSpec == HostInit /\ [][HostNext]_hostVars /\ WF_hostVars(InInput(InputWorker))
=============================================================================
