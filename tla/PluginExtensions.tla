-------------------------- MODULE PluginExtensions --------------------------
(***************************************************************************)
(* The event and command services of the WinIsland plugin host.            *)
(*                                                                         *)
(* A loaded plugin instance is known by a token.  Through its host table   *)
(* it registers callbacks (event subscriptions, timers, commands), each    *)
(* under a fresh handle, and executes commands of the host or of other     *)
(* plugins.  Deliveries wait in one bounded queue per token until the      *)
(* plugin's own worker thread calls the callback.  Every request accepted  *)
(* from a plugin gets a sequence number and is answered by an EVENT_RESULT *)
(* delivery.                                                               *)
(*                                                                         *)
(* Code: crates/winisland-plugin-host/src/{extensions,registry,resources,  *)
(* runtime}.rs, services/extensions.rs and the request loop of             *)
(* src/window/app/plugins.rs.                                              *)
(*                                                                         *)
(* Each action is one critical section of Extensions.state.  A service     *)
(* call of the plugin consults the registry first, without that lock: Enter*)
(* and EnterRelease are the check, the other plugin actions the commit.    *)
(***************************************************************************)
EXTENDS Naturals, Sequences, FiniteSets

CONSTANTS
  Token,          \* the tokens PluginRegistry::register hands out, in any order
  Handle,         \* the ids ResourceTable::allocate hands out, in any order
  Name,           \* full command names, "<plugin id>.<key>"
  NameOf,         \* NameOf[t]: the names that carry the id of t's plugin
  Masks,          \* the sets of event kinds plugins subscribe to
  MaxPending,     \* MAX_PENDING: bound of each delivery queue and of the requests
  MaxEvents,      \* limits(ResourceKind::Event)
  MaxCommands,    \* limits(ResourceKind::Command)
  MaxSequence,    \* the largest request sequence (u64::MAX; a small bound for TLC)
  None            \* no token, no delivery

ASSUME ExtensionsAssumption ==
  /\ IsFiniteSet(Handle)
  /\ NameOf \in [Token -> SUBSET Name]
  /\ Masks \subseteq (SUBSET {"host", "result"}) \ {{}}
  /\ MaxPending \in Nat \ {0}
  /\ MaxEvents \in Nat
  /\ MaxCommands \in Nat
  /\ MaxSequence \in Nat
  /\ None \notin Token

VARIABLES
  registry,    \* registry[t]: where t is in its life, see RegistryState
  quiet,       \* quiet[t]: t's shutdown callback returned Ok, its threads are joined
  owners,      \* ResourceTable: live handle -> its owner and kind
  issued,      \* every handle ever allocated (ResourceTable::next)
  callbacks,   \* State.callbacks: handle -> Callback
  commands,    \* State.commands: handle -> Command
  pending,     \* State.pending[t]: deliveries waiting for t's worker
  requests,    \* State.requests: accepted requests the UI thread has not drained
  sequence,    \* State.sequence: the last request sequence issued
  worker,      \* worker[t]: the phase of t's worker thread
  delivery,    \* delivery[t]: what t's worker has popped and not finished
  call,        \* call[t]: a service call of t between its check and its commit
  cancelled,   \* cancelled[t]: completions a release of t still has to publish
  drained,     \* requests the UI thread drained and has not served
  forwarded,   \* media requests handed on for an asynchronous answer
  accepted,    \* history: every request a service call returned Ok for
  answered     \* history: the requests `complete' was called for

table   == <<owners, issued, callbacks, commands>>
queues  == <<pending, requests, sequence>>
threads == <<worker, delivery, call, cancelled>>
ui      == <<drained, forwarded>>
history == <<accepted, answered>>
vars    == <<registry, quiet, table, queues, threads, ui, history>>

-----------------------------------------------------------------------------
(* "detached" is still Registration::stopping in the registry: the UI      *)
(* thread is in revoke_plugin, after Extensions::revoke.                   *)
RegistryState == {"unused", "live", "stopping", "detached", "revoked"}
Kind          == {"host", "result", "timer", "command"}
Role          == {"event", "timer", "command"}
Phase         == {"none", "running", "callback", "returned", "stopped"}
Owner         == [token : Token, kind : {"event", "command"}]
Callback      == [token : Token, role : Role, mask : SUBSET {"host", "result"},
                  armed : BOOLEAN, repeats : BOOLEAN, in_flight : BOOLEAN]
Command       == [name : Name, enabled : BOOLEAN]
Delivery      == [handle : Handle, kind : Kind, sequence : Nat,
                  completion : Token \cup {None}]
Request       == [token : Token, sequence : Nat]
MediaRequest  == [token : Token, sequence : Nat, media : BOOLEAN]

Without(f, D)          == [x \in DOMAIN f \ D |-> f[x]]
With(f, x, v)          == [y \in DOMAIN f \cup {x} |-> IF y = x THEN v ELSE f[y]]

(* The subsequence of q at the positions in K (VecDeque::retain): its i-th  *)
(* element is the one whose position has i - 1 smaller ones in K.          *)
Nth(K, i)  == CHOOSE k \in K : Cardinality({j \in K : j <= k}) = i
Kept(q, K) == [i \in 1..Cardinality(K) |-> q[Nth(K, i)]]

Positions(q, h)   == {i \in DOMAIN q : q[i].handle = h}
CallbacksOf(t)    == {h \in DOMAIN callbacks : callbacks[h].token = t}
Subscribers(t, k) == {h \in CallbacksOf(t) :
                        callbacks[h].role = "event" /\ k \in callbacks[h].mask}
(* The completions queued in q.  Faulty: cancelling forgets them.          *)
OutstandingForgotten(q) == {}
Outstanding(q) == {[token |-> q[i].completion, sequence |-> q[i].sequence] :
                     i \in {j \in DOMAIN q : q[j].completion # None}}

-----------------------------------------------------------------------------
(* State::enqueue and State::publish on one token's queue.                 *)

Deliver(h, k, s, c) == [handle |-> h, kind |-> k, sequence |-> s, completion |-> c]

(* The queues that publishing to the callbacks in H, for each sequence in  *)
(* S in ascending order, can lead to.  `publish' walks a HashMap, so the   *)
(* callbacks come in any order; what does not fit is dropped.              *)
Published(q, H, k, S) ==
  LET P    == H \X S
      room == MaxPending - Len(q)
      n    == IF Cardinality(P) <= room THEN Cardinality(P) ELSE room
      Orders == {o \in [1..n -> P] :
                   \A i, j \in 1..n : i < j =>
                      /\ o[i] # o[j]
                      /\ o[i][2] <= o[j][2]
                      /\ \A p \in P : p[2] < o[j][2] => \E m \in 1..n : o[m] = p}
  IN  {q \o [i \in 1..n |-> Deliver(o[i][1], k, o[i][2], None)] : o \in Orders}

(* A host or timer event replaces an equal one at the back of the queue    *)
(* instead of joining it, when its callback is the first to be visited.    *)
Coalesces(q, h, k) == q # <<>> /\ q[Len(q)].handle = h /\ q[Len(q)].kind = k

Refreshed(q, H, k) ==
  UNION {IF Coalesces(q, h, k)
         THEN Published(q, H \ {h}, k, {0})
         ELSE {r \in Published(q, H, k, {0}) :
                 Len(r) > Len(q) => r[Len(q) + 1].handle = h} : h \in H}

(* Extensions::complete: publish EVENT_RESULT to the caller's subscribers. *)
Complete(r) ==
  /\ \E q \in Published(pending[r.token], Subscribers(r.token, "result"),
                        "result", {r.sequence}) :
        pending' = [pending EXCEPT ![r.token] = q]
  /\ answered' = answered \cup {r}

Full(q) == Len(q) >= MaxPending

-----------------------------------------------------------------------------
(* The plugin's service calls.                                             *)

MayCall(t) == ~quiet[t] /\ call[t] = "idle" /\ cancelled[t] = {}

(* registry.require(token, capability): live and not stopping.             *)
Enter(t) ==
  /\ MayCall(t)
  /\ registry[t] = "live"
  /\ call' = [call EXCEPT ![t] = "checked"]
  /\ UNCHANGED <<registry, quiet, table, queues, worker, delivery, cancelled,
                 ui, history>>

(* release_callback asks registry.get only: a stopping plugin may release. *)
EnterRelease(t) ==
  /\ MayCall(t)
  /\ registry[t] \in {"live", "stopping", "detached"}
  /\ call' = [call EXCEPT ![t] = "releasing"]
  /\ UNCHANGED <<registry, quiet, table, queues, worker, delivery, cancelled,
                 ui, history>>

(* The commit of a checked call; its result is what the service returns.   *)
Commit(t) == call[t] = "checked" /\ call' = [call EXCEPT ![t] = "idle"]

(* Refused after the check: quota, duplicate or unknown name, full queue.  *)
Refused(t) ==
  /\ Commit(t)
  /\ UNCHANGED <<registry, quiet, table, queues, worker, delivery, cancelled,
                 ui, history>>

HandlesOf(t, kind) ==
  {h \in DOMAIN owners : owners[h].token = t /\ owners[h].kind = kind}

(* ResourceTable::next only grows.  Faulty: released ids are used again.   *)
FreshOnceReleased(h) == h \notin DOMAIN owners
Fresh(h) == h \notin issued

(* ResourceTable::allocate asks nothing of the registry.                   *)
Allocate(t, kind, h) ==
  /\ Fresh(h)
  /\ Cardinality(HandlesOf(t, kind)) < (IF kind = "event" THEN MaxEvents ELSE MaxCommands)
  /\ issued' = issued \cup {h}
  /\ owners' = With(owners, h, [token |-> t, kind |-> kind])

Register(t, role, mask, repeats, h) ==
  callbacks' = With(callbacks, h,
    [token |-> t, role |-> role, mask |-> mask, armed |-> role = "timer",
     repeats |-> repeats, in_flight |-> FALSE])

Subscribe(t) ==
  \E h \in Handle, mask \in Masks :
    /\ Commit(t)
    /\ Allocate(t, "event", h)
    /\ Register(t, "event", mask, FALSE, h)
    /\ UNCHANGED <<registry, quiet, commands, queues, worker, delivery,
                   cancelled, ui, history>>

CreateTimer(t) ==
  \E h \in Handle, repeats \in BOOLEAN :
    /\ Commit(t)
    /\ Allocate(t, "event", h)
    /\ Register(t, "timer", {}, repeats, h)
    /\ UNCHANGED <<registry, quiet, commands, queues, worker, delivery,
                   cancelled, ui, history>>

RegisterCommand(t) ==
  \E h \in Handle, n \in NameOf[t], enabled \in BOOLEAN :
    /\ Commit(t)
    /\ \A c \in DOMAIN commands : commands[c].name # n
    /\ Allocate(t, "command", h)
    /\ Register(t, "command", {}, FALSE, h)
    /\ commands' = With(commands, h, [name |-> n, enabled |-> enabled])
    /\ UNCHANGED <<registry, quiet, queues, worker, delivery, cancelled, ui,
                   history>>

Owns(t, kind, h) == h \in HandlesOf(t, kind)

SetCommandEnabled(t) ==
  \E h \in DOMAIN commands, enabled \in BOOLEAN :
    /\ Commit(t)
    /\ Owns(t, "command", h)
    /\ commands' = [commands EXCEPT ![h].enabled = enabled]
    /\ UNCHANGED <<registry, quiet, owners, issued, callbacks, queues, worker,
                   delivery, cancelled, ui, history>>

(* A callback that is executing is not released.  Faulty: nobody asks.     *)
NeverBusy(h) == FALSE
Busy(h) == h \in DOMAIN callbacks /\ callbacks[h].in_flight

(* What stays queued when h goes.  Faulty: everything does.                *)
NotPurged(q, h) == q
Purged(q, h) == Kept(q, DOMAIN q \ Positions(q, h))

(* State.commands loses what the callbacks lose.  Faulty: it does not.     *)
CommandsStay(D) == UNCHANGED commands
RemoveCommands(D) == commands' = Without(commands, D)

(* release_callback, under the lock.                                       *)
Release(t) ==
  \E h \in DOMAIN owners :
    LET q == pending[t] IN
    /\ call[t] = "releasing"
    /\ owners[h].token = t
    /\ ~Busy(h)
    /\ owners' = Without(owners, {h})
    /\ callbacks' = Without(callbacks, {h})
    /\ RemoveCommands({h})
    /\ pending' = [pending EXCEPT ![t] = Purged(q, h)]
    /\ cancelled' = [cancelled EXCEPT ![t] = Outstanding(Kept(q, Positions(q, h)))]
    /\ call' = [call EXCEPT ![t] = "idle"]
    /\ UNCHANGED <<registry, quiet, issued, requests, sequence, worker,
                   delivery, ui, history>>

ReleaseRefused(t) ==
  /\ call[t] = "releasing"
  /\ call' = [call EXCEPT ![t] = "idle"]
  /\ UNCHANGED <<registry, quiet, table, queues, worker, delivery, cancelled,
                 ui, history>>

(* The cancelled deliveries are completed after the lock is released.      *)
CompleteCancelled(t) ==
  \E r \in cancelled[t] :
    /\ Complete(r)
    /\ cancelled' = [cancelled EXCEPT ![t] = @ \ {r}]
    /\ UNCHANGED <<registry, quiet, table, requests, sequence, worker,
                   delivery, call, ui, accepted>>

(* checked_add.  Faulty: unchecked.                                        *)
DrawUnchecked == sequence' = sequence + 1
Draw == sequence < MaxSequence /\ sequence' = sequence + 1

Accept(t) ==
  /\ Draw
  /\ accepted' = accepted \cup {[token |-> t, sequence |-> sequence']}

(* State::enqueue of a command.  Faulty: it jumps the queue.               *)
Jumped(q, d) == <<d>> \o q
Joined(q, d) == Append(q, d)

(* execute_command for the command of a plugin, the caller's own included. *)
ExecuteCommand(t) ==
  \E h \in DOMAIN commands :
    LET callee == callbacks[h].token IN
    /\ Commit(t)
    /\ commands[h].enabled
    /\ ~Full(pending[callee])
    /\ Accept(t)
    /\ pending' = [pending EXCEPT ![callee] =
                     Joined(@, Deliver(h, "command", sequence', t))]
    /\ UNCHANGED <<registry, quiet, table, requests, worker, delivery,
                   cancelled, ui, answered>>

(* The callee's queue is full: the call fails, its sequence is used up.    *)
ExecuteRefused(t) ==
  \E h \in DOMAIN commands :
    /\ Commit(t)
    /\ commands[h].enabled
    /\ Full(pending[callbacks[h].token])
    /\ Draw
    /\ UNCHANGED <<registry, quiet, table, pending, requests, worker, delivery,
                   cancelled, ui, history>>

(* A built-in command, show_page or send_media: State::request.            *)
QueueRequest(t) ==
  \E media \in BOOLEAN :
    /\ Commit(t)
    /\ ~Full(requests)
    /\ Accept(t)
    /\ requests' = Append(requests,
                     [token |-> t, sequence |-> sequence', media |-> media])
    /\ UNCHANGED <<registry, quiet, table, pending, worker, delivery,
                   cancelled, ui, answered>>

-----------------------------------------------------------------------------
(* The plugin's worker thread: Extensions::dispatch.                       *)

(* The due timers: a one-shot is disarmed, a repeating one armed again.    *)
FireTimers(t) ==
  /\ worker[t] = "running"
  /\ \E due \in SUBSET {h \in CallbacksOf(t) : callbacks[h].armed} :
       /\ due # {}
       /\ callbacks' = [h \in DOMAIN callbacks |->
            IF h \in due THEN [callbacks[h] EXCEPT !.armed = callbacks[h].repeats]
                         ELSE callbacks[h]]
       /\ \E q \in Refreshed(pending[t], due, "timer") :
            pending' = [pending EXCEPT ![t] = q]
  /\ UNCHANGED <<registry, quiet, owners, issued, commands, requests, sequence,
                 threads, ui, history>>

(* Pop one delivery and mark its callback in flight, then leave the lock.  *)
BeginDelivery(t) ==
  /\ worker[t] = "running"
  /\ pending[t] # <<>>
  /\ pending' = [pending EXCEPT ![t] = Tail(@)]
  /\ LET d == Head(pending[t]) IN
       IF d.handle \in DOMAIN callbacks
       THEN /\ callbacks' = [callbacks EXCEPT ![d.handle].in_flight = TRUE]
            /\ worker' = [worker EXCEPT ![t] = "callback"]
            /\ delivery' = [delivery EXCEPT ![t] = d]
       ELSE UNCHANGED <<callbacks, worker, delivery>>
  /\ UNCHANGED <<registry, quiet, owners, issued, commands, requests, sequence,
                 call, cancelled, ui, history>>

(* The callback returns; a command somebody executed is completed with Ok. *)
CallbackReturns(t) ==
  /\ worker[t] = "callback"
  /\ worker' = [worker EXCEPT ![t] = "returned"]
  /\ IF delivery[t].completion = None
     THEN UNCHANGED <<pending, answered>>
     ELSE Complete([token    |-> delivery[t].completion,
                    sequence |-> delivery[t].sequence])
  /\ UNCHANGED <<registry, quiet, table, requests, sequence, delivery, call,
                 cancelled, ui, accepted>>

EndDelivery(t) ==
  /\ worker[t] = "returned"
  /\ worker' = [worker EXCEPT ![t] = "running"]
  /\ delivery' = [delivery EXCEPT ![t] = None]
  /\ callbacks' = [h \in DOMAIN callbacks |->
       IF h = delivery[t].handle THEN [callbacks[h] EXCEPT !.in_flight = FALSE]
                                 ELSE callbacks[h]]
  /\ UNCHANGED <<registry, quiet, owners, issued, commands, queues, call,
                 cancelled, ui, history>>

-----------------------------------------------------------------------------
(* The UI thread.  It unloads one plugin without a break from a successful *)
(* shutdown to the end of revoke_plugin, and serves drained requests one   *)
(* by one.                                                                 *)

Unloading(t) == registry[t] \in {"stopping", "detached"} \/ (registry[t] = "live" /\ quiet[t])
UiFree       == drained = <<>> /\ \A t \in Token : ~Unloading(t)

(* PluginRegistry::register, then the plugin's create callback.            *)
Load(t) ==
  /\ UiFree
  /\ registry[t] = "unused"
  /\ registry' = [registry EXCEPT ![t] = "live"]
  /\ UNCHANGED <<quiet, table, queues, threads, ui, history>>

StartWorker(t) ==
  /\ UiFree
  /\ registry[t] = "live"
  /\ worker[t] = "none"
  /\ ~quiet[t]
  /\ worker' = [worker EXCEPT ![t] = "running"]
  /\ UNCHANGED <<registry, quiet, table, queues, delivery, call, cancelled,
                 ui, history>>

(* The worker leaves its loop: a tick failed, or shutdown stopped it.      *)
StopWorker(t) ==
  /\ worker[t] = "running"
  /\ worker' = [worker EXCEPT ![t] = "stopped"]
  /\ UNCHANGED <<registry, quiet, table, queues, delivery, call, cancelled,
                 ui, history>>

(* Shutdown has joined the worker and the plugin's shutdown returns Ok: it *)
(* has joined its own threads.                                             *)
Quiesce(t) ==
  /\ UiFree
  /\ registry[t] = "live"
  /\ worker[t] \in {"none", "stopped"}
  /\ MayCall(t)
  /\ quiet' = [quiet EXCEPT ![t] = TRUE]
  /\ UNCHANGED <<registry, table, queues, threads, ui, history>>

(* revoke_plugin, first step: registry.begin_shutdown.  It follows a       *)
(* successful shutdown, or a failed create, whose plugin may have threads  *)
(* left when its partial shutdown failed too.                              *)
BeginRevoke(t) ==
  /\ registry[t] = "live"
  /\ quiet[t] \/ (UiFree /\ worker[t] = "none")
  /\ registry' = [registry EXCEPT ![t] = "stopping"]
  /\ UNCHANGED <<quiet, table, queues, threads, ui, history>>

(* The requests that outlive t.                                            *)
RequestsOfOthers(t) == Kept(requests, {i \in DOMAIN requests : requests[i].token # t})

(* Second step, Extensions::revoke: every registration of t goes, and the  *)
(* deliveries it never made are completed with StaleHandle.                *)
RevokeExtensions(t) ==
  LET lost    == Outstanding(pending[t])
      removed == CallbacksOf(t)
      Seqs(c) == {r.sequence : r \in {l \in lost : l.token = c}}
      Queues(c) == IF c = t THEN {<<>>}
                   ELSE Published(pending[c], Subscribers(c, "result"), "result", Seqs(c))
  IN
  /\ registry[t] = "stopping"
  /\ registry' = [registry EXCEPT ![t] = "detached"]
  /\ callbacks' = Without(callbacks, removed)
  /\ RemoveCommands(removed)
  /\ pending' \in {p \in [Token -> UNION {Queues(c) : c \in Token}] :
                     \A c \in Token : p[c] \in Queues(c)}
  /\ requests' = RequestsOfOthers(t)
  /\ answered' = answered \cup lost
  /\ UNCHANGED <<quiet, owners, issued, sequence, threads, ui, accepted>>

(* What resources.revoke_plugin removes.  Faulty: commands are forgotten.  *)
LeftoverEvents(t) == HandlesOf(t, "event")
Leftovers(t) == {h \in DOMAIN owners : owners[h].token = t}

(* Last step: resources.revoke_plugin and registry.revoke.                 *)
RevokeResources(t) ==
  /\ registry[t] = "detached"
  /\ registry' = [registry EXCEPT ![t] = "revoked"]
  /\ owners' = Without(owners, Leftovers(t))
  /\ UNCHANGED <<quiet, issued, callbacks, commands, queues, threads, ui, history>>

DrainRequests ==
  /\ UiFree
  /\ requests # <<>>
  /\ drained' = requests
  /\ requests' = <<>>
  /\ UNCHANGED <<registry, quiet, table, pending, sequence, threads, forwarded, history>>

(* Requests of a plugin that is no longer live are skipped.                *)
SkipRequest ==
  /\ drained # <<>>
  /\ registry[Head(drained).token] # "live"
  /\ drained' = Tail(drained)
  /\ UNCHANGED <<registry, quiet, table, queues, threads, forwarded, history>>

Served == [token |-> Head(drained).token, sequence |-> Head(drained).sequence]

(* Served at once, or refused at once by the media code.                   *)
ServeRequest ==
  /\ drained # <<>>
  /\ registry[Head(drained).token] = "live"
  /\ drained' = Tail(drained)
  /\ Complete(Served)
  /\ UNCHANGED <<registry, quiet, table, requests, sequence, threads, forwarded,
                 accepted>>

(* request_plugin_media queued it for a media worker.                      *)
ForwardRequest ==
  /\ drained # <<>>
  /\ registry[Head(drained).token] = "live"
  /\ Head(drained).media
  /\ drained' = Tail(drained)
  /\ forwarded' = forwarded \cup {Served}
  /\ UNCHANGED <<registry, quiet, table, queues, threads, history>>

(* The media worker's result.                                              *)
AnswerForwarded ==
  \E r \in forwarded :
    /\ UiFree
    /\ Complete(r)
    /\ forwarded' = forwarded \ {r}
    /\ UNCHANGED <<registry, quiet, table, requests, sequence, threads, drained,
                   accepted>>

(* Extensions::invoke, from the tray menu or a hotkey: nobody to answer.   *)
Invoke ==
  \E h \in DOMAIN commands :
    LET callee == callbacks[h].token IN
    /\ UiFree
    /\ commands[h].enabled
    /\ ~Full(pending[callee])
    /\ pending' = [pending EXCEPT ![callee] = Joined(@, Deliver(h, "command", 0, None))]
    /\ UNCHANGED <<registry, quiet, table, requests, sequence, threads, ui, history>>

(* set_island or set_sessions with a changed snapshot.                     *)
PublishHost ==
  LET Queues(t) == IF Subscribers(t, "host") = {} THEN {pending[t]}
                   ELSE Refreshed(pending[t], Subscribers(t, "host"), "host")
  IN
  /\ UiFree
  /\ pending' \in {p \in [Token -> UNION {Queues(t) : t \in Token}] :
                     \A t \in Token : p[t] \in Queues(t)}
  /\ UNCHANGED <<registry, quiet, table, requests, sequence, threads, ui, history>>

-----------------------------------------------------------------------------
Init ==
  /\ registry = [t \in Token |-> "unused"]
  /\ quiet = [t \in Token |-> FALSE]
  /\ owners = [h \in {} |-> None]
  /\ issued = {}
  /\ callbacks = [h \in {} |-> None]
  /\ commands = [h \in {} |-> None]
  /\ pending = [t \in Token |-> <<>>]
  /\ requests = <<>>
  /\ sequence = 0
  /\ worker = [t \in Token |-> "none"]
  /\ delivery = [t \in Token |-> None]
  /\ call = [t \in Token |-> "idle"]
  /\ cancelled = [t \in Token |-> {}]
  /\ drained = <<>>
  /\ forwarded = {}
  /\ accepted = {}
  /\ answered = {}

PluginNext(t) ==
  \/ Enter(t) \/ EnterRelease(t) \/ Refused(t)
  \/ Subscribe(t) \/ CreateTimer(t) \/ RegisterCommand(t) \/ SetCommandEnabled(t)
  \/ Release(t) \/ ReleaseRefused(t) \/ CompleteCancelled(t)
  \/ ExecuteCommand(t) \/ ExecuteRefused(t) \/ QueueRequest(t)

WorkerNext(t) ==
  \/ FireTimers(t) \/ BeginDelivery(t) \/ CallbackReturns(t) \/ EndDelivery(t)
  \/ StopWorker(t)

UiNext ==
  \/ \E t \in Token : \/ Load(t) \/ StartWorker(t) \/ Quiesce(t)
                      \/ BeginRevoke(t) \/ RevokeExtensions(t) \/ RevokeResources(t)
  \/ DrainRequests \/ SkipRequest \/ ServeRequest \/ ForwardRequest
  \/ AnswerForwarded \/ Invoke \/ PublishHost

Next == UiNext \/ \E t \in Token : PluginNext(t) \/ WorkerNext(t)

Spec == Init /\ [][Next]_vars

-----------------------------------------------------------------------------
TypeOK ==
  /\ registry \in [Token -> RegistryState]
  /\ quiet \in [Token -> BOOLEAN]
  /\ DOMAIN owners \subseteq Handle /\ owners \in [DOMAIN owners -> Owner]
  /\ issued \subseteq Handle
  /\ DOMAIN callbacks \subseteq Handle /\ callbacks \in [DOMAIN callbacks -> Callback]
  /\ DOMAIN commands \subseteq Handle /\ commands \in [DOMAIN commands -> Command]
  /\ pending \in [Token -> Seq(Delivery)]
  /\ requests \in Seq(MediaRequest)
  /\ sequence \in 0..MaxSequence
  /\ worker \in [Token -> Phase]
  /\ delivery \in [Token -> Delivery \cup {None}]
  /\ call \in [Token -> {"idle", "checked", "releasing"}]
  /\ cancelled \in [Token -> SUBSET Request]
  /\ drained \in Seq(MediaRequest)
  /\ forwarded \subseteq Request
  /\ accepted \subseteq Request
  /\ answered \subseteq Request

(* Callback queues are bounded (MAX_PENDING): no publish, execute, invoke  *)
(* or timer puts a delivery in a full queue.                               *)
QueuesAreBounded ==
  /\ \A t \in Token : Len(pending[t]) <= MaxPending
  /\ Len(requests) <= MaxPending

(* A queued delivery can always be made: its callback is still registered  *)
(* and belongs to the plugin whose worker will pop it.  Releasing and      *)
(* revoking purge the queue, whatever else is in progress.                 *)
QueuedDeliveriesAreOwned ==
  \A t \in Token : \A i \in DOMAIN pending[t] :
    /\ pending[t][i].handle \in DOMAIN callbacks
    /\ callbacks[pending[t][i].handle].token = t

(* While a worker is in a callback, the registration and the allocation    *)
(* behind it stay: the plugin may free callback data only after a release, *)
(* and release refuses callbacks in flight (extensions.rs:367, 379).       *)
InFlightIsLeased ==
  \A t \in Token : worker[t] \in {"callback", "returned"} =>
    LET h == delivery[t].handle IN
    /\ h \in DOMAIN callbacks /\ callbacks[h].token = t /\ callbacks[h].in_flight
    /\ h \in DOMAIN owners /\ owners[h].token = t

(* The three tables agree on every plugin that is live: a handle of it is  *)
(* allocated exactly when it has a callback, and commands have both.       *)
TablesAgree ==
  /\ DOMAIN commands = {h \in DOMAIN callbacks : callbacks[h].role = "command"}
  /\ \A t \in Token : registry[t] = "live" =>
       CallbacksOf(t) = {h \in DOMAIN owners : owners[h].token = t}

(* The places a request accepted from a plugin can be in.                  *)
Waiting(r)    == {w \in Token \X (1..MaxPending) :
                    LET q == pending[w[1]] IN
                    /\ w[2] \in DOMAIN q
                    /\ q[w[2]].completion = r.token
                    /\ q[w[2]].sequence = r.sequence}
Executing(r)  == {t \in Token : /\ worker[t] = "callback"
                                /\ delivery[t].completion = r.token
                                /\ delivery[t].sequence = r.sequence}
Cancelling(r) == {t \in Token : r \in cancelled[t]}
In(q, r)      == {i \in DOMAIN q : q[i].token = r.token /\ q[i].sequence = r.sequence}
Holders(r)    == Cardinality(Waiting(r)) + Cardinality(Executing(r))
                 + Cardinality(Cancelling(r)) + Cardinality(In(requests, r))
                 + Cardinality(In(drained, r)) + Cardinality({r} \cap forwarded)

(* Every accepted request of a live plugin is in exactly one place until   *)
(* it is answered, and in none afterwards: releases, revocations, refusals *)
(* and drains neither lose a request nor answer it twice.                  *)
EachRequestHeldOnce ==
  \A r \in accepted : registry[r.token] = "live" =>
    Holders(r) = IF r \in answered THEN 0 ELSE 1

(* Executed commands are called in the order of their sequences: the       *)
(* sequence is drawn under the lock that queues the delivery.              *)
CommandsWaitInOrder ==
  \A t \in Token : \A i, j \in DOMAIN pending[t] :
    (i < j /\ pending[t][i].completion # None /\ pending[t][j].completion # None)
      => pending[t][i].sequence < pending[t][j].sequence

(* "The host revokes leftovers after successful shutdown": nothing of the  *)
(* plugin is left in any table once its token is revoked.                  *)
RevokedOwnsNothing ==
  \A t \in Token : (registry[t] = "revoked" /\ quiet[t]) =>
    /\ CallbacksOf(t) = {}
    /\ {h \in DOMAIN owners : owners[h].token = t} = {}
    /\ pending[t] = <<>>
    /\ \A i \in DOMAIN requests : requests[i].token # t

(* "Cancels the resource and removes queued deliveries" (events.md): once  *)
(* a handle is released or revoked no callback starts under it again, not  *)
(* even for a later registration.                                          *)
ReleaseIsFinal ==
  [][\A h \in issued \ DOMAIN callbacks :
       /\ h \notin DOMAIN callbacks'
       /\ \A t \in Token : delivery'[t] # delivery[t] /\ delivery'[t] # None
            => delivery'[t].handle # h]_vars
=============================================================================
