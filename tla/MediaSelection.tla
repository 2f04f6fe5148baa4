--------------------------- MODULE MediaSelection ---------------------------
(***************************************************************************)
(* Which media the island shows, when plugins may choose: a SESSION_SELECT *)
(* request names a media source of a plugin, which the UI thread selects at*)
(* once, or a session of the platform, which only the media worker can; its*)
(* answer comes back over the SessionBridge, frames later.                 *)
(*                                                                         *)
(* Code: src/window/app/plugin_media.rs, src/core/smtc/sessions.rs,        *)
(* crates/winisland-plugin-host/src/host/media.rs.  The requests reach the *)
(* UI thread as in PluginExtensions; commands for a plugin's own source go *)
(* through PluginLifecycle.  Requests are given to the bridge in the order *)
(* of their sequences, which is then the order of its queues: these are    *)
(* sets here.                                                              *)
(***************************************************************************)
EXTENDS Naturals, FiniteSets

CONSTANTS
  Plugin,      \* tokens of plugins with CAP_MEDIA_SESSION
  Source,      \* ids of media sources of plugins
  Session,     \* ids the worker gives to sessions of the platform
  Automatic,   \* session id 0
  None,
  MaxQueue,    \* bound of the bridge's request queue (128)
  MaxRequests  \* how many requests plugins make

ASSUME MediaAssumption ==
  /\ MaxQueue \in Nat
  /\ MaxRequests \in Nat
  /\ None \notin Plugin \cup Source \cup Session \cup {Automatic} \cup Nat
  /\ Automatic \notin Source \cup Session
  /\ Source \cap Session = {}

VARIABLES
  active,      \* the plugins that are loaded
  gone,        \* the plugins that were unloaded
  sources,     \* State.media: the sources that plugins have registered
  sessions,    \* the platform's sessions, by the ids that SessionWorker.ids gives
  spent,       \* source and session ids that were given out: none comes back
  ui,          \* where the UI thread is in its frame
  selected,    \* State.selected_media: None, Automatic (Some(0)) or a source
  owner,       \* plugin_ui.media_owner
  selection,   \* plugin_ui.media_selection: the sequence it waits for
  sequence,    \* the last request sequence
  ready,       \* BridgeState.ready: the worker has a media context
  known,       \* BridgeState.active
  requests,    \* BridgeState.requests
  results,     \* BridgeState.results
  worker,      \* where the media worker is in SessionWorker::refresh
  seen,        \* refresh: its copy of `known'
  handles,     \* refresh: the sessions it looks requests up in
  served,      \* refresh: the results it has not published
  chosen,      \* SessionWorker.selected
  chosen_by,   \* SessionWorker.selected_by
  told,        \* history: the answers the plugins were given
  lost         \* history: requests dropped without an answer

plugins == <<active, gone>>
media   == <<sources, sessions, spent>>
island  == <<selected, owner, selection, sequence>>
bridge  == <<ready, known, requests, results>>
refresh == <<worker, seen, handles, served, chosen, chosen_by>>
history == <<told, lost>>
vars    == <<plugins, media, ui, island, bridge, refresh, history>>

-----------------------------------------------------------------------------
Target  == Session \cup Source \cup {Automatic}
Request == [token : Plugin, sequence : 1..MaxRequests, select : BOOLEAN, target : Target]

(* The error statuses are one.                                             *)
Status == {"Ok", "Failed"}
Answer == [request : Request, status : Status]

Tell(r, s) == told' = told \cup {[request |-> r, status |-> s]}

Requested(S)    == {a.request : a \in S}
OfTokens(R, P)  == {r \in R : r.token \in P}

(* State.media, as PluginHost::current_media_id reads it.                  *)
ShowsSource == sources # {} /\ selected # Automatic

-----------------------------------------------------------------------------
(* UI thread: update_plugin_media, then the requests of the frame.         *)

(* Faulty: the queues are emptied at every frame.                          *)
RetainedNone == {}
Retained     == active

(* The owner was unloaded.                                                 *)
OwnerLeft == owner \notin active \cup {None}

(* set_active, and the end of an unloaded owner's selection.               *)
BeginFrame ==
  /\ ui = "idle"
  /\ ui' = "results"
  /\ known' = active
  /\ requests' = OfTokens(requests, Retained)
  /\ results' = {a \in results : a.request.token \in Retained}
  /\ lost' = lost \cup {r \in requests \cup Requested(results) : r.token \notin Retained}
  /\ IF OwnerLeft
     THEN selected' = None /\ owner' = None /\ selection' = None
     ELSE UNCHANGED <<selected, owner, selection>>
  /\ UNCHANGED <<plugins, media, sequence, ready, refresh, told>>

(* Faulty: the results stay in the bridge (a clone for the mem::take).     *)
PeekResults == UNCHANGED results
TakeResults == results' = {}

(* snapshot: every result is passed on, and the one waited for is applied. *)
ReadResults ==
  /\ ui = "results"
  /\ ui' = "requests"
  /\ told' = told \cup results
  /\ TakeResults
  /\ LET awaited == {a \in results : a.request.sequence = selection} IN
       IF awaited = {}
       THEN UNCHANGED <<selected, owner, selection>>
       ELSE \E a \in awaited :
              /\ selection' = None
              /\ IF a.status # "Ok" \/ ~a.request.select
                 THEN UNCHANGED <<selected, owner>>
                 ELSE IF a.request.target = Automatic
                 THEN selected' = None /\ owner' = None
                 ELSE selected' = Automatic /\ owner' = a.request.token
  /\ UNCHANGED <<plugins, media, sequence, ready, known, requests, refresh, lost>>

NewRequest(t, s, x) ==
  [token |-> t, sequence |-> sequence + 1, select |-> s, target |-> x]

Arrives(t) ==
  /\ ui = "requests" /\ t \in active
  /\ sequence < MaxRequests
  /\ sequence' = sequence + 1

(* Faulty: the first selection that is made is the one waited for.         *)
FirstAwaited(s) == IF s /\ selection = None THEN sequence + 1 ELSE selection
Awaited(s)      == IF s THEN sequence + 1 ELSE selection

(* request_plugin_media: a source is selected at once, unless it is gone.  *)
SelectSource(t, x) ==
  /\ Arrives(t) /\ x \in sources
  /\ selected' = x /\ owner' = t /\ selection' = None
  /\ Tell(NewRequest(t, TRUE, x), "Ok")
  /\ UNCHANGED <<plugins, media, ui, bridge, refresh, lost>>

RefuseSource(t, s, x) ==
  /\ Arrives(t) /\ x \in (spent \cap Source) \ sources
  /\ selection' = Awaited(s)
  /\ Tell(NewRequest(t, s, x), "Failed")
  /\ UNCHANGED <<plugins, media, ui, selected, owner, bridge, refresh, lost>>

QueueHasRoom == Cardinality(requests) < MaxQueue

(* Anything else is a request to the worker (SessionBridge::request),      *)
(* unless a command for id 0 resolves to a plugin's source.                *)
AskWorker(t, s, x) ==
  /\ Arrives(t)
  /\ x \in (spent \cap Session) \cup {Automatic}
  /\ s \/ x # Automatic \/ ~ShowsSource
  /\ selection' = Awaited(s)
  /\ LET r == NewRequest(t, s, x) IN
       IF ready /\ QueueHasRoom
       THEN requests' = requests \cup {r} /\ UNCHANGED told
       ELSE Tell(r, "Failed") /\ UNCHANGED requests
  /\ UNCHANGED <<plugins, media, ui, selected, owner, ready, known, results, refresh, lost>>

EndFrame ==
  /\ ui = "requests"
  /\ ui' = "idle"
  /\ UNCHANGED <<plugins, media, island, bridge, refresh, history>>

(* Between frames plugins are loaded and unloaded.                         *)
LoadPlugin(t) ==
  /\ ui = "idle" /\ t \notin active \cup gone
  /\ active' = active \cup {t}
  /\ UNCHANGED <<gone, media, ui, island, bridge, refresh, history>>

UnloadPlugin(t) ==
  /\ ui = "idle" /\ t \in active
  /\ active' = active \ {t} /\ gone' = gone \cup {t}
  /\ UNCHANGED <<media, ui, island, bridge, refresh, history>>

(* Any plugin registers a source, and releases it or is unloaded.          *)
AddSource(x) ==
  /\ x \notin spent
  /\ sources' = sources \cup {x} /\ spent' = spent \cup {x}
  /\ UNCHANGED <<plugins, sessions, ui, island, bridge, refresh, history>>

(* Faulty: the selection of a released source is left behind.              *)
KeepSelected(x)  == selected' = selected
ClearSelected(x) == selected' = IF selected = x THEN None ELSE selected

ReleaseSource(x) ==
  /\ x \in sources
  /\ sources' = sources \ {x}
  /\ ClearSelected(x)
  /\ UNCHANGED <<plugins, sessions, spent, ui, owner, selection, sequence, bridge,
                 refresh, history>>

-----------------------------------------------------------------------------
(* Media worker: SessionWorker::refresh.                                   *)

OpenContext ==
  /\ ~ready /\ ready' = TRUE
  /\ UNCHANGED <<plugins, media, ui, island, known, requests, results, refresh, history>>

(* Faulty: the choice of a plugin that was unloaded stays.                 *)
ChooserStays == FALSE
ChooserLeft  == chosen_by \notin known \cup {None}

(* `active' is copied and the sessions are listed; with no plugin loaded   *)
(* the worker forgets the ids.                                             *)
Look ==
  /\ worker = "idle" /\ ready
  /\ seen' = known
  /\ IF known = {}
     THEN worker' = "idle" /\ handles' = {} /\ sessions' = {}
     ELSE worker' = "looked" /\ handles' = sessions /\ UNCHANGED sessions
  /\ IF ChooserLeft
     THEN chosen' = None /\ chosen_by' = None
     ELSE /\ chosen' = IF known = {} \/ chosen \in sessions THEN chosen ELSE None
          /\ UNCHANGED chosen_by
  /\ UNCHANGED <<plugins, sources, spent, ui, island, bridge, served, history>>

(* Selecting only needs the session; a command can fail in the platform.   *)
Outcomes(r) ==
  IF r.select
  THEN IF r.target \in handles \cup {Automatic} THEN {"Ok"} ELSE {"Failed"}
  ELSE IF r.target \in handles \cup {Automatic} THEN Status ELSE {"Failed"}

(* The last selection that succeeds decides.                               *)
Selecting(Q) == {r \in Q : r.select /\ Outcomes(r) = {"Ok"}}

Choose(Q) ==
  IF Selecting(Q) = {}
  THEN UNCHANGED <<chosen, chosen_by>>
  ELSE \E r \in Selecting(Q) :
         /\ \A other \in Selecting(Q) : other.sequence <= r.sequence
         /\ chosen' = IF r.target = Automatic THEN None ELSE r.target
         /\ chosen_by' = IF r.target = Automatic THEN None ELSE r.token

ServeRequests ==
  /\ worker = "looked"
  /\ worker' = "served"
  /\ requests' = {}
  /\ LET Q == OfTokens(requests, seen) IN
       /\ Choose(Q)
       /\ \E status \in [Q -> Status] :
            /\ \A r \in Q : status[r] \in Outcomes(r)
            /\ served' = {[request |-> r, status |-> status[r]] : r \in Q}
       /\ lost' = lost \cup (requests \ Q)
  /\ UNCHANGED <<plugins, media, ui, island, ready, known, results, seen, handles, told>>

PublishResults ==
  /\ worker = "served"
  /\ worker' = "idle"
  /\ results' = results \cup served
  /\ served' = {} /\ handles' = {} /\ seen' = {}
  /\ UNCHANGED <<plugins, media, ui, island, ready, known, requests, chosen,
                 chosen_by, history>>

(* A player comes or goes.                                                 *)
AddSession(x) ==
  /\ x \notin spent
  /\ sessions' = sessions \cup {x} /\ spent' = spent \cup {x}
  /\ UNCHANGED <<plugins, sources, ui, island, bridge, refresh, history>>

EndSession(x) ==
  /\ x \in sessions
  /\ sessions' = sessions \ {x}
  /\ UNCHANGED <<plugins, sources, spent, ui, island, bridge, refresh, history>>

-----------------------------------------------------------------------------
Init ==
  /\ active = {} /\ gone = {} /\ sources = {} /\ sessions = {} /\ spent = {}
  /\ ui = "idle"
  /\ selected = None /\ owner = None /\ selection = None /\ sequence = 0
  /\ ready = FALSE /\ known = {} /\ requests = {} /\ results = {}
  /\ worker = "idle" /\ seen = {} /\ handles = {} /\ served = {}
  /\ chosen = None /\ chosen_by = None
  /\ told = {} /\ lost = {}

Frame == BeginFrame \/ ReadResults \/ EndFrame

Requests == \E t \in Plugin :
  \/ \E x \in Source : SelectSource(t, x)
  \/ \E x \in Source, s \in BOOLEAN : RefuseSource(t, s, x)
  \/ \E x \in Session \cup {Automatic}, s \in BOOLEAN : AskWorker(t, s, x)

Worker == Look \/ ServeRequests \/ PublishResults

Environment ==
  \/ \E t \in Plugin : LoadPlugin(t) \/ UnloadPlugin(t)
  \/ \E x \in Source : AddSource(x) \/ ReleaseSource(x)
  \/ \E x \in Session : AddSession(x) \/ EndSession(x)
  \/ OpenContext

Next == Frame \/ Requests \/ Worker \/ Environment

Spec == Init /\ [][Next]_vars

(* The event loop updates the plugin services whenever it is about to wait,*)
(* and every refresh of the worker, at most 300 ms apart, wakes it.        *)
Fairness == WF_vars(Frame) /\ WF_vars(Worker)

FairSpec == Spec /\ Fairness

-----------------------------------------------------------------------------
(* Types: BridgeState, SessionWorker, plugin_ui.media_*.                   *)
TypeOK ==
  /\ active \subseteq Plugin /\ gone \subseteq Plugin \ active
  /\ known \subseteq Plugin /\ seen \subseteq Plugin
  /\ sources \subseteq spent \cap Source /\ sessions \subseteq spent \cap Session
  /\ spent \subseteq Source \cup Session
  /\ ui \in {"idle", "results", "requests"}
  /\ selected \in Source \cup {None, Automatic}
  /\ owner \in Plugin \cup {None}
  /\ selection \in (1..sequence) \cup {None}
  /\ sequence \in 0..MaxRequests
  /\ ready \in BOOLEAN
  /\ requests \subseteq Request /\ Cardinality(requests) <= MaxQueue
  /\ results \subseteq Answer /\ served \subseteq Answer /\ told \subseteq Answer
  /\ worker \in {"idle", "looked", "served"} /\ handles \subseteq Session
  /\ chosen \in Session \cup {None} /\ chosen_by \in Plugin \cup {None}
  /\ lost \subseteq Request

(* Every request is in exactly one place: with the bridge or the worker,   *)
(* answered once, or dropped (mem::take and drain of the bridge's queues). *)
Asked(S, n)    == Cardinality({r \in S : r.sequence = n})
Answered(S, n) == Cardinality({a \in S : a.request.sequence = n})

Places(n) ==
  Asked(requests, n) + Asked(lost, n)
    + Answered(served, n) + Answered(results, n) + Answered(told, n)

OneAnswerEach == \A n \in 1..sequence : Places(n) = 1

(* A request of a loaded plugin is dropped only if the plugin was loaded   *)
(* after the worker had copied `active': refresh skips tokens it has not   *)
(* seen, and set_active keeps those that are loaded.                       *)
LostOnlyIfUnknown ==
  [][\A r \in lost' \ lost : r.token \in active => worker = "looked" /\ r.token \notin seen]_lost

(* A selection never outlives what it rests on: a selected source is still *)
(* registered, and any selection has an owner whose unloading ends it.     *)
SelectionIsBacked ==
  /\ selected \in Source => selected \in sources
  /\ selected # None => owner # None

Quiet == ui = "idle" /\ worker = "idle" /\ requests = {} /\ results = {}

Selects == {a \in told : a.request.select}

InForce(r) ==
  IF r.target = Automatic THEN selected = None /\ owner = None
  ELSE IF r.target \in Session THEN selected = Automatic /\ owner = r.token
  ELSE owner = r.token /\ (r.target \in sources => selected = r.target)

(* While no plugin is unloaded: if the latest selection of all was answered*)
(* with Ok, then once every queue is empty it is in force with the UI      *)
(* thread, and with the media worker if it named a session or automatic.   *)
(* (A later one that was dropped is still waited for, and ends the claim.) *)
IsLatest(r) ==
  /\ \A b \in Selects : b.request.sequence <= r.sequence
  /\ \A dropped \in lost : dropped.select => dropped.sequence < r.sequence

LatestIsObeyed ==
  Quiet /\ gone = {} =>
    \A a \in Selects :
      a.status = "Ok" /\ IsLatest(a.request)
        => /\ InForce(a.request)
           /\ a.request.target = Automatic => chosen = None /\ chosen_by = None
           /\ a.request.target \in Session =>
                chosen_by = a.request.token /\ chosen \in {a.request.target, None}

(* The choice of an unloaded plugin is given up for good by the UI thread  *)
(* and by the worker, even if an answer to it was still on its way.        *)
ChoiceIsReleased ==
  \A t \in Plugin : <>[](t \in gone => owner # t /\ chosen_by # t)
=============================================================================
