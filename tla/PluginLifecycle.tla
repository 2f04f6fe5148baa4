-------------------------- MODULE PluginLifecycle --------------------------
(***************************************************************************)
(* One plugin of the host, from `create' to the unloading of its library:  *)
(* the UI thread that loads it, hands it work and shuts it down, the worker*)
(* thread that makes the calls, and the lyrics thread that sends it lines  *)
(* through the LyricsBridge.  Jobs travel over an unbounded channel; the   *)
(* worker sleeps on its park token.                                        *)
(*                                                                         *)
(* Code: crates/winisland-plugin-host/src/{lifecycle,host}.rs,             *)
(* lifecycle/lyrics.rs, host/media.rs.  Deliveries of the worker's own     *)
(* queue are one call here; PluginExtensions has their detail.             *)
(***************************************************************************)
EXTENDS Naturals, Sequences

CONSTANTS
  Media,      \* media commands of other plugins, which expect a completion
  Plain,      \* media commands and host states nobody waits for
  Change,     \* settings changes, which the UI thread waits for
  Line,       \* lyric lines, which the lyrics thread waits for
  Batch,      \* jobs taken per turn of the worker (256)
  Widgets,    \* the most widgets the instance ticks
  MaxLoads,   \* how often the plugin is loaded
  NoJob

Job == Media \cup Plain \cup Change \cup Line

ASSUME LifecycleAssumption ==
  /\ Batch \in Nat \ {0}
  /\ Widgets \in Nat
  /\ MaxLoads \in Nat
  /\ NoJob \notin Job
  /\ \A m \in Media : m \notin Plain \cup Change \cup Line
  /\ \A c \in Change : c \notin Plain \cup Line
  /\ \A l \in Line : l \notin Plain

VARIABLES
  instance,   \* what the plugin has of the instance, see Stage
  mapped,     \* the PluginLibrary is open, or was forgotten
  entry,      \* the instance is in PluginHost::entries
  retained,   \* PluginHost::retained_dll
  runtime,    \* the HostRuntime: pinned, forgotten or freed
  drop,       \* how far PluginHost::drop is
  loads,      \* how many times `create' was called
  ui,         \* program counter of the UI thread
  sending,    \* the job the UI thread is handing over, or waits for
  worker,     \* program counter of the worker thread
  left,       \* iterations its current loop has left
  running,    \* the job it is executing
  stop,       \* stop_worker
  failure,    \* tick_failure is set
  permit,     \* the park token of the worker
  sender,     \* event_tx is there
  channel,    \* the jobs in the channel
  bridge,     \* the LyricsBridge has a clone of the sender
  lyrics,     \* program counter of the lyrics thread
  line,       \* the line it waits for
  linked,     \* the load whose sender the lyrics thread holds
  fate,       \* what became of each job
  answers     \* how often a media command was completed

host == <<instance, mapped, entry, retained, runtime, drop, loads>>
work == <<left, running, failure>>
jobs == <<channel, fate, answers>>
song == <<lyrics, line, linked>>
vars == <<host, ui, sending, worker, work, stop, permit, sender, jobs, bridge, song>>

-----------------------------------------------------------------------------
(* "partial": create failed midway; "ending": a shutdown was refused.      *)
Stage    == {"none", "partial", "live", "ending", "stopped", "freed"}
Fate     == {"new", "queued", "running", "done", "stale", "refused", "lost"}
UiStep   == {"idle", "creating", "created", "partial", "sending", "sent", "waiting",
             "stopping", "joining", "shutdown", "revoke", "destroy", "unmap"}
InPlugin == {"job", "deliver", "ticking"}       \* the worker is in plugin code
Working  == InPlugin \cup {"top", "jobs", "tick", "sleep", "parked", "drain", "done"}
Joined   == worker \in {"none", "exited"}

(* Faulty: joining does not wait.                                          *)
NotJoined == TRUE
MayJoin   == Joined

Unpark == permit' = TRUE
(* Faulty: the wake-up after a send, or after the stop flag, is forgotten. *)
SleepOn       == UNCHANGED permit
WakeAfterSend == Unpark
StopQuietly   == UNCHANGED permit
WakeToStop    == Unpark

Answer(m) == answers' = [answers EXCEPT ![m] = @ + (IF m \in Media THEN 1 ELSE 0)]
Becomes(j, f) == fate' = [fate EXCEPT ![j] = f]

(* Whoever waited for j gets an answer, or sees its response sender gone.  *)
Settled(j) == fate[j] \in {"done", "stale", "refused", "lost"}

-----------------------------------------------------------------------------
(* UI thread: load_instance and PluginInstance::create.                    *)

Load ==
  /\ ui = "idle" /\ drop = "no" /\ loads < MaxLoads
  /\ ~entry /\ ~retained
  /\ loads' = loads + 1
  /\ instance' = "none" /\ mapped' = TRUE /\ ui' = "creating"
  /\ worker' = "none" /\ left' = 0 /\ running' = NoJob
  /\ stop' = FALSE /\ failure' = FALSE /\ permit' = FALSE
  /\ UNCHANGED <<entry, retained, runtime, drop, sending, sender, jobs, bridge, song>>

(* create returns Ok with a handle, an error without one, or an error with *)
(* a partial instance, which is shut down on the spot.                     *)
CreateReturns ==
  /\ ui = "creating"
  /\ \/ instance' = "live" /\ ui' = "created" /\ UNCHANGED mapped
     \/ instance' = "none" /\ mapped' = FALSE /\ ui' = "idle"
     \/ instance' = "partial" /\ ui' = "partial" /\ UNCHANGED mapped
  /\ UNCHANGED <<entry, retained, runtime, drop, loads, sending, worker, work,
                 stop, permit, sender, jobs, bridge, song>>

ShutDownPartial ==
  /\ ui = "partial"
  /\ ui' = "shutdown"
  /\ UNCHANGED <<host, sending, worker, work, stop, permit, sender, jobs, bridge, song>>

StartWorker ==
  /\ ui = "created"
  /\ worker' = "top" /\ sender' = TRUE /\ bridge' = TRUE /\ entry' = TRUE
  /\ ui' = "idle"
  /\ UNCHANGED <<instance, mapped, retained, runtime, drop, loads, sending,
                 work, stop, permit, jobs, song>>

(* The thread cannot be spawned: the instance is shut down at once.        *)
StartFails ==
  /\ ui = "created"
  /\ ui' = "stopping"
  /\ UNCHANGED <<host, sending, worker, work, stop, permit, sender, jobs, bridge, song>>

-----------------------------------------------------------------------------
(* UI thread: queue_media_command, queue_host_state, call_settings_change. *)

(* A refused media command is completed by the caller, with StaleHandle.   *)
Refuse(j) == Becomes(j, "refused") /\ Answer(j) /\ UNCHANGED channel

BeginSend(j) ==
  /\ ui = "idle" /\ drop = "no" /\ entry
  /\ fate[j] = "new" /\ j \notin Line
  /\ IF stop \/ ~sender
     THEN Refuse(j) /\ UNCHANGED <<ui, sending, permit>>
     ELSE /\ ui' = "sending" /\ sending' = j /\ Unpark
          /\ UNCHANGED jobs
  /\ UNCHANGED <<host, worker, work, stop, sender, bridge, song>>

Send ==
  /\ ui = "sending"
  /\ IF worker = "exited"
     THEN /\ Refuse(sending)
          /\ ui' = "idle" /\ sending' = NoJob
     ELSE /\ channel' = Append(channel, sending)
          /\ Becomes(sending, "queued")
          /\ ui' = "sent"
          /\ UNCHANGED <<sending, answers>>
  /\ UNCHANGED <<host, worker, work, stop, permit, sender, bridge, song>>

AfterSend ==
  /\ ui = "sent"
  /\ WakeAfterSend
  /\ IF sending \in Change
     THEN ui' = "waiting" /\ UNCHANGED sending
     ELSE ui' = "idle" /\ sending' = NoJob
  /\ UNCHANGED <<host, worker, work, stop, sender, jobs, bridge, song>>

(* recv_timeout: an answer, a dropped response sender, or the two seconds. *)
StopWaiting ==
  /\ ui' = "idle" /\ sending' = NoJob
  /\ UNCHANGED <<host, worker, work, stop, permit, sender, jobs, bridge, song>>

HearAnswer   == ui = "waiting" /\ Settled(sending) /\ StopWaiting
WaitTimesOut == ui = "waiting" /\ ~Settled(sending) /\ StopWaiting

(* refresh_tick_widgets, Extensions::enqueue: the worker is woken anyway.  *)
Nudge ==
  /\ worker \in Working /\ ~permit /\ Unpark
  /\ UNCHANGED <<host, ui, sending, worker, work, stop, sender, jobs, bridge, song>>

-----------------------------------------------------------------------------
(* UI thread: unload_if_loaded, PluginInstance::shutdown, the two drops.   *)

Unload ==
  /\ ui = "idle" /\ drop = "no" /\ entry
  /\ ui' = "stopping"
  /\ UNCHANGED <<host, sending, worker, work, stop, permit, sender, jobs, bridge, song>>

RaiseStop ==
  /\ ui = "stopping"
  /\ stop' = TRUE /\ sender' = FALSE
  /\ ui' = "joining"
  /\ WakeToStop
  /\ UNCHANGED <<host, sending, worker, work, jobs, bridge, song>>

Join ==
  /\ ui = "joining" /\ MayJoin
  /\ ui' = "shutdown"
  /\ UNCHANGED <<host, sending, worker, work, stop, permit, sender, jobs, bridge, song>>

(* shutdown returns Ok.  A partial instance is destroyed where it failed;  *)
(* Drop for PluginInstance destroys without revoking.                      *)
ShutdownOk ==
  /\ ui = "shutdown"
  /\ instance' = "stopped"
  /\ ui' = IF instance = "partial" \/ drop = "fields" THEN "destroy" ELSE "revoke"
  /\ UNCHANGED <<mapped, entry, retained, runtime, drop, loads, sending, worker,
                 work, stop, permit, sender, jobs, bridge, song>>

(* It returns an error: the library is kept, and the instance too unless   *)
(* it never was whole.  Drop leaks the library.                            *)
ShutdownFails ==
  /\ ui = "shutdown"
  /\ ui' = "idle"
  /\ instance' = "ending"
  /\ IF instance = "partial"
     THEN retained' = TRUE /\ UNCHANGED entry
     ELSE entry' = (drop # "fields") /\ UNCHANGED retained
  /\ drop' = IF drop = "fields" THEN "done" ELSE drop
  /\ UNCHANGED <<mapped, runtime, loads, sending, worker, work, stop, permit,
                 sender, jobs, bridge, song>>

(* LyricsBridge::detach and HostRuntime::revoke_plugin.                    *)
Revoke ==
  /\ ui = "revoke"
  /\ bridge' = FALSE
  /\ ui' = "destroy"
  /\ UNCHANGED <<host, sending, worker, work, stop, permit, sender, jobs, song>>

Destroy ==
  /\ ui = "destroy"
  /\ instance' = "freed"
  /\ ui' = "unmap"
  /\ UNCHANGED <<mapped, entry, retained, runtime, drop, loads, sending, worker,
                 work, stop, permit, sender, jobs, bridge, song>>

Unmap ==
  /\ ui = "unmap"
  /\ mapped' = FALSE /\ entry' = FALSE
  /\ ui' = "idle"
  /\ drop' = IF drop = "fields" THEN "done" ELSE drop
  /\ UNCHANGED <<instance, retained, runtime, loads, sending, worker, work, stop,
                 permit, sender, jobs, bridge, song>>

(* Drop for PluginHost: shutdown_all, then the runtime is forgotten if any *)
(* plugin code stays, then the fields go, entries first.                   *)
DropHost ==
  /\ ui = "idle" /\ drop = "no"
  /\ drop' = "unload"
  /\ ui' = IF entry THEN "stopping" ELSE "idle"
  /\ UNCHANGED <<instance, mapped, entry, retained, runtime, loads, sending,
                 worker, work, stop, permit, sender, jobs, bridge, song>>

(* Faulty: an instance that failed to be created is not thought of.        *)
KeepForEntry == entry
KeepRuntime  == retained \/ entry

DropFields ==
  /\ ui = "idle" /\ drop = "unload"
  /\ runtime' = IF KeepRuntime THEN "forgotten" ELSE "freed"
  /\ IF entry
     THEN drop' = "fields" /\ ui' = "stopping"
     ELSE drop' = "done" /\ UNCHANGED ui
  /\ UNCHANGED <<instance, mapped, entry, retained, loads, sending, worker, work,
                 stop, permit, sender, jobs, bridge, song>>

-----------------------------------------------------------------------------
(* Worker thread: the closure of start_tick_worker.                        *)

CheckStop ==
  /\ worker = "top"
  /\ IF stop THEN worker' = "drain" /\ UNCHANGED left
             ELSE worker' = "jobs" /\ left' = Batch
  /\ UNCHANGED <<host, ui, sending, running, failure, stop, permit, sender, jobs,
                 bridge, song>>

TakeJob ==
  /\ worker = "jobs" /\ left > 0 /\ channel # <<>>
  /\ worker' = "job" /\ running' = Head(channel)
  /\ channel' = Tail(channel) /\ Becomes(Head(channel), "running")
  /\ left' = left - 1
  /\ UNCHANGED <<host, ui, sending, failure, stop, permit, sender, answers,
                 bridge, song>>

(* dispatch_event: the callback, if the resource still has one, then the   *)
(* completion or the response.                                             *)
FinishJob ==
  /\ worker = "job"
  /\ worker' = "jobs" /\ running' = NoJob
  /\ Becomes(running, "done") /\ Answer(running)
  /\ UNCHANGED <<host, ui, sending, left, failure, stop, permit, sender, channel,
                 bridge, song>>

NoMoreJobs ==
  /\ worker = "jobs" /\ (left = 0 \/ channel = <<>>)
  /\ worker' = "deliver"
  /\ UNCHANGED <<host, ui, sending, work, stop, permit, sender, jobs, bridge, song>>

(* Extensions::dispatch returns; the widgets to tick are looked up.        *)
Delivered ==
  /\ worker = "deliver"
  /\ worker' = "tick" /\ left' \in 0..Widgets
  /\ UNCHANGED <<host, ui, sending, running, failure, stop, permit, sender, jobs,
                 bridge, song>>

MoreTicks == left > 0 /\ ~stop

BeginTick ==
  /\ worker = "tick" /\ MoreTicks
  /\ worker' = "ticking" /\ left' = left - 1
  /\ UNCHANGED <<host, ui, sending, running, failure, stop, permit, sender, jobs,
                 bridge, song>>

TickReturns ==
  /\ worker = "ticking"
  /\ \/ worker' = "tick" /\ UNCHANGED <<stop, failure>>
     \/ worker' = "sleep" /\ stop' = TRUE /\ failure' = TRUE
  /\ UNCHANGED <<host, ui, sending, left, running, permit, sender, jobs, bridge, song>>

NoMoreTicks ==
  /\ worker = "tick" /\ ~MoreTicks
  /\ worker' = "sleep"
  /\ UNCHANGED <<host, ui, sending, work, stop, permit, sender, jobs, bridge, song>>

(* wait_duration is zero when a delivery waits or a timer is due.          *)
GoToSleep ==
  /\ worker = "sleep"
  /\ worker' \in {"top", "parked"}
  /\ UNCHANGED <<host, ui, sending, work, stop, permit, sender, jobs, bridge, song>>

Woken ==
  /\ worker = "parked" /\ permit
  /\ worker' = "top" /\ permit' = FALSE
  /\ UNCHANGED <<host, ui, sending, work, stop, sender, jobs, bridge, song>>

(* The timeout of the park: the next tick or timer, or an hour.            *)
ParkTimesOut ==
  /\ worker = "parked" /\ ~permit
  /\ worker' = "top"
  /\ UNCHANGED <<host, ui, sending, work, stop, permit, sender, jobs, bridge, song>>

(* Faulty: what is left in the channel is dropped without an answer.       *)
NoAnswer(m)   == UNCHANGED answers
DrainedJob(m) == Answer(m)

DrainJob ==
  /\ worker = "drain" /\ channel # <<>>
  /\ channel' = Tail(channel) /\ Becomes(Head(channel), "stale")
  /\ DrainedJob(Head(channel))
  /\ UNCHANGED <<host, ui, sending, worker, work, stop, permit, sender, bridge, song>>

(* Faulty: the worker does not look into the channel again.                *)
DrainSkipped == TRUE
DrainOver    == channel = <<>>

Drained ==
  /\ worker = "drain" /\ DrainOver
  /\ worker' = "done"
  /\ UNCHANGED <<host, ui, sending, work, stop, permit, sender, jobs, bridge, song>>

(* The closure ends and drops the receiver, with what has been sent since. *)
Exit ==
  /\ worker = "done"
  /\ worker' = "exited"
  /\ channel' = <<>>
  /\ fate' = [j \in Job |-> IF fate[j] = "queued" THEN "lost" ELSE fate[j]]
  /\ UNCHANGED <<host, ui, sending, work, stop, permit, sender, answers, bridge, song>>

-----------------------------------------------------------------------------
(* Lyrics thread: LyricsBridge::apply, for one worker.                     *)

CloneSender ==
  /\ lyrics = "idle" /\ bridge
  /\ \E l \in Line : fate[l] = "new"
  /\ lyrics' = "ready" /\ linked' = loads
  /\ UNCHANGED <<host, ui, sending, worker, work, stop, permit, sender, jobs,
                 bridge, line>>

ReceiverGone == linked # loads \/ worker \in {"none", "exited"}

SendLine(l) ==
  /\ lyrics = "ready" /\ fate[l] = "new"
  /\ IF ReceiverGone
     THEN /\ Becomes(l, "refused")
          /\ lyrics' = "idle"
          /\ UNCHANGED <<channel, line>>
     ELSE /\ Becomes(l, "queued") /\ channel' = Append(channel, l)
          /\ lyrics' = "sent" /\ line' = l
  /\ UNCHANGED <<host, ui, sending, worker, work, stop, permit, sender, answers,
                 bridge, linked>>

AfterLine ==
  /\ lyrics = "sent"
  /\ lyrics' = "waiting"
  /\ IF linked = loads THEN Unpark ELSE UNCHANGED permit
  /\ UNCHANGED <<host, ui, sending, worker, work, stop, sender, jobs, bridge,
                 line, linked>>

(* An answer keeps the worker active; anything else, or a refusal, ends it.*)
StopListening(next) ==
  /\ lyrics' = next /\ line' = NoJob
  /\ UNCHANGED <<host, ui, sending, worker, work, stop, permit, sender, jobs,
                 bridge, linked>>

HearLine     == /\ lyrics = "waiting" /\ Settled(line)
                /\ \/ fate[line] = "done" /\ StopListening("ready")
                   \/ StopListening("idle")
LineTimesOut == lyrics = "waiting" /\ ~Settled(line) /\ StopListening("idle")

FinishLyrics ==
  /\ lyrics = "ready"
  /\ lyrics' = "idle"
  /\ UNCHANGED <<host, ui, sending, worker, work, stop, permit, sender, jobs,
                 bridge, line, linked>>

-----------------------------------------------------------------------------
Init ==
  /\ instance = "none" /\ mapped = FALSE /\ entry = FALSE /\ retained = FALSE
  /\ runtime = "pinned" /\ drop = "no" /\ loads = 0
  /\ ui = "idle" /\ sending = NoJob
  /\ worker = "none" /\ left = 0 /\ running = NoJob
  /\ stop = FALSE /\ failure = FALSE /\ permit = FALSE
  /\ sender = FALSE /\ channel = <<>> /\ bridge = FALSE
  /\ lyrics = "idle" /\ line = NoJob /\ linked = 0
  /\ fate = [j \in Job |-> "new"]
  /\ answers = [m \in Job |-> 0]

(* What a thread goes on doing once it has started.                        *)
UiGoesOn ==
  \/ CreateReturns \/ ShutDownPartial \/ StartWorker \/ StartFails \/ Send \/ AfterSend \/ HearAnswer
  \/ RaiseStop \/ Join \/ ShutdownOk \/ ShutdownFails \/ Revoke \/ Destroy
  \/ Unmap \/ DropFields

UiBegins == Load \/ Unload \/ DropHost \/ \E j \in Job : BeginSend(j)

WorkerGoesOn ==
  \/ CheckStop \/ TakeJob \/ FinishJob \/ NoMoreJobs \/ Delivered \/ BeginTick
  \/ TickReturns \/ NoMoreTicks \/ GoToSleep \/ Woken \/ DrainJob \/ Drained \/ Exit

LyricsGoesOn == HearLine \/ AfterLine

LyricsBegins == CloneSender \/ FinishLyrics \/ \E l \in Line : SendLine(l)

Next == \/ UiGoesOn \/ UiBegins \/ WorkerGoesOn \/ LyricsGoesOn \/ LyricsBegins
        \/ Nudge \/ WaitTimesOut \/ LineTimesOut \/ ParkTimesOut

Spec == Init /\ [][Next]_vars

(* The threads are scheduled and the plugin's calls return.  No timeout is *)
(* assumed to expire: neither the park's nor a caller's.                   *)
Fairness == WF_vars(UiGoesOn) /\ WF_vars(WorkerGoesOn) /\ WF_vars(LyricsGoesOn)

FairSpec == Spec /\ Fairness

-----------------------------------------------------------------------------
TypeOK ==
  /\ instance \in Stage
  /\ {mapped, entry, retained, stop, failure, permit, sender, bridge} \subseteq BOOLEAN
  /\ runtime \in {"pinned", "forgotten", "freed"}
  /\ drop \in {"no", "unload", "fields", "done"}
  /\ loads \in 0..MaxLoads /\ linked \in 0..loads
  /\ ui \in UiStep /\ sending \in Job \cup {NoJob}
  /\ worker \in Working \cup {"none", "exited"}
  /\ left \in Nat /\ running \in Job \cup {NoJob}
  /\ channel \in Seq(Job)
  /\ lyrics \in {"idle", "ready", "sent", "waiting"}
  /\ line \in Line \cup {NoJob}
  /\ fate \in [Job -> Fate]
  /\ answers \in [Job -> Nat]

(* The promise to the plugin: its calls come one at a time, none but another*)
(* shutdown follows a refused shutdown, none at all a successful one but one*)
(* destroy, and the library is unmapped only then.  The worker, the joins,  *)
(* the retries and the drops of the code implement it.                      *)
Inside == IF ui = "creating" THEN "create"
          ELSE IF ui = "shutdown" THEN "shutdown"
          ELSE IF worker \in InPlugin THEN "callback" ELSE "nothing"

Contract == INSTANCE PluginContract WITH
  instance <- IF instance = "partial" THEN "live" ELSE instance,
  inside   <- Inside

ImplementsContract == Contract!Spec

(* The host tables that the plugin's code may still use are freed only when *)
(* that code is gone: no library mapped, no worker running (PluginHost::drop*)
(* forgets the runtime after any failed shutdown or retained library).      *)
RuntimeOutlivesLibrary == runtime = "freed" => ~mapped /\ Joined

(* A media command is completed once if its fate is known and not at all   *)
(* before: by the worker that ran it, by the worker's last drain, or by the*)
(* caller whose send was refused.                                          *)
AnswersMatchFates ==
  \A m \in Media :
    answers[m] = IF fate[m] \in {"done", "stale", "refused"} THEN 1 ELSE 0

(* A command that was sent is dropped unanswered only if the worker stopped *)
(* by itself, after a failed tick; a worker that was told to stop, however  *)
(* late the UI thread's last send, answers all it was sent.                 *)
LostOnlyAfterFailure ==
  [][\A m \in Media : fate[m] # "lost" /\ fate'[m] = "lost" => failure]_fate

(* What docs say of a send that returned Ok: a result follows.             *)
AcceptedIsAnswered == \A m \in Media : fate[m] = "lost" => answers[m] = 1

(* The same, of a worker with no widget to tick that could fail: what was  *)
(* sent is answered in the end.                                            *)
ResultsFollow == \A m \in Media : fate[m] = "queued" ~> answers[m] = 1

(* What is in the channel is taken out: no wake-up is lost between the     *)
(* worker's look into the channel and its park.                            *)
JobsAreTaken == channel # <<>> ~> channel = <<>>

(* No thread waits for the worker for ever: a caller gets an answer, or the*)
(* news that there will be none, without its two-second timeout, and the   *)
(* join of shutdown returns even if the worker was about to park.          *)
CallersHearBack == /\ ui = "waiting" ~> ui # "waiting"
                   /\ lyrics = "waiting" ~> lyrics # "waiting"
                   /\ ui = "joining" ~> ui # "joining"
=============================================================================
