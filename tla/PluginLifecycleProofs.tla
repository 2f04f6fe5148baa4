----------------------- MODULE PluginLifecycleProofs -----------------------
(***************************************************************************)
(* That the threads of PluginLifecycle keep the promise of PluginContract, *)
(* and that the host's tables outlive the plugin's code, for any jobs.     *)
(***************************************************************************)
EXTENDS PluginLifecycle, TLAPS

(* Where the UI thread is says how far the instance is.                    *)
UiKnows ==
  /\ ui = "creating" => instance = "none" /\ ~entry
  /\ ui = "created"  => instance = "live" /\ ~entry
  /\ ui = "partial"  => instance = "partial" /\ ~entry
  /\ ui \in {"stopping", "joining"} => instance \in {"live", "ending"}
  /\ ui = "shutdown" => instance \in {"partial", "live", "ending"}
  /\ ui \in {"revoke", "destroy"} => instance = "stopped"
  /\ ui = "unmap" => instance = "freed"
  /\ ui \in {"idle", "sending", "sent", "waiting"} =>
       IF entry THEN instance \in {"live", "ending"}
       ELSE mapped => retained \/ runtime = "forgotten"
  /\ ui \notin {"idle", "sending", "sent", "waiting"} => mapped
  /\ ui \in {"sending", "sent", "waiting"} => entry
  /\ entry => mapped
  /\ ~mapped => instance \in {"none", "freed"}

(* A worker that runs has a whole instance whose shutdown has not begun.   *)
WorkerHasInstance ==
  ~Joined => /\ instance = "live" /\ entry
             /\ ui \in {"idle", "sending", "sent", "waiting", "stopping", "joining"}

(* The runtime goes with the host, and only after every library.           *)
DropInOrder ==
  /\ drop \in {"no", "unload"} <=> runtime = "pinned"
  /\ drop = "fields" => runtime = "forgotten"
  /\ runtime = "freed" => ui = "idle" /\ drop = "done" /\ ~entry /\ ~retained
  /\ runtime \in {"pinned", "forgotten", "freed"}

HostInv == UiKnows /\ WorkerHasInstance /\ DropInOrder

LEMMA HostInit == Init => HostInv
BY DEF Init, HostInv, UiKnows, WorkerHasInstance, DropInOrder, Joined

LEMMA HostStep == HostInv /\ [Next]_vars => HostInv'
<1> SUFFICES ASSUME HostInv, [Next]_vars PROVE HostInv'
  OBVIOUS
<1> USE DEF HostInv, UiKnows, WorkerHasInstance, DropInOrder, Joined, host
<1>1. CASE UiBegins
  BY <1>1 DEF UiBegins, Load, Unload, DropHost, BeginSend
<1>2. CASE CreateReturns \/ ShutDownPartial \/ StartWorker \/ StartFails
  BY <1>2 DEF CreateReturns, ShutDownPartial, StartWorker, StartFails
<1>3. CASE Send \/ AfterSend \/ HearAnswer \/ WaitTimesOut
  BY <1>3 DEF Send, AfterSend, HearAnswer, WaitTimesOut, StopWaiting
<1>4. CASE RaiseStop \/ Join \/ Revoke \/ Destroy \/ Unmap
  BY <1>4 DEF RaiseStop, Join, MayJoin, Revoke, Destroy, Unmap
<1>5. CASE ShutdownOk \/ ShutdownFails
  BY <1>5 DEF ShutdownOk, ShutdownFails
<1>6. CASE DropFields
  BY <1>6 DEF DropFields, KeepRuntime
<1>7. CASE WorkerGoesOn \/ ParkTimesOut
  BY <1>7 DEF WorkerGoesOn, ParkTimesOut, CheckStop, TakeJob, FinishJob, NoMoreJobs,
     Delivered, BeginTick, TickReturns, NoMoreTicks, GoToSleep, Woken, DrainJob,
     Drained, Exit
<1>8. CASE LyricsGoesOn \/ LyricsBegins \/ LineTimesOut \/ Nudge
  BY <1>8 DEF LyricsGoesOn, LyricsBegins, LineTimesOut, Nudge, HearLine, AfterLine,
     StopListening, CloneSender, FinishLyrics, SendLine
<1>9. CASE UNCHANGED vars
  BY <1>9 DEF vars
<1> QED
  BY <1>1, <1>2, <1>3, <1>4, <1>5, <1>6, <1>7, <1>8, <1>9 DEF Next, UiGoesOn

LEMMA HostInvariant == Spec => []HostInv
BY HostInit, HostStep, PTL DEF Spec

(* The tables of the host are not freed under the plugin's code.           *)
THEOREM TablesOutlivePlugin == Spec => []RuntimeOutlivesLibrary
<1>1. HostInv => RuntimeOutlivesLibrary
  BY DEF HostInv, UiKnows, WorkerHasInstance, DropInOrder, RuntimeOutlivesLibrary
<1> QED BY <1>1, HostInvariant, PTL

(* The promise to the plugin is kept whatever the threads do when.         *)
THEOREM ContractIsKept == Spec => ImplementsContract
<1>1. Init => Contract!Init
  BY DEF Init, Contract!Init, Inside, InPlugin
<1>2. HostInv /\ [Next]_vars => [Contract!Next]_(Contract!vars)
  <2> SUFFICES ASSUME HostInv, [Next]_vars PROVE [Contract!Next]_(Contract!vars)
    OBVIOUS
  <2> USE DEF HostInv, UiKnows, WorkerHasInstance, Joined, host, Inside, InPlugin,
              Contract!vars
  <2>1. CASE Load
    BY <2>1 DEF Load, Contract!Next, Contract!Map, DropInOrder
  <2>2. CASE CreateReturns
    BY <2>2 DEF CreateReturns, Contract!Next, Contract!Created
  <2>3. CASE ShutDownPartial \/ Join
    BY <2>3 DEF ShutDownPartial, Join, MayJoin, Contract!Next, Contract!Enter
  <2>4. CASE ShutdownOk \/ ShutdownFails
    BY <2>4 DEF ShutdownOk, ShutdownFails, Contract!Next, Contract!ShutDown
  <2>5. CASE Destroy
    BY <2>5 DEF Destroy, Contract!Next, Contract!Destroy
  <2>6. CASE Unmap
    BY <2>6 DEF Unmap, Contract!Next, Contract!Unmap
  <2>7. CASE TakeJob \/ NoMoreJobs \/ BeginTick
    BY <2>7 DEF TakeJob, NoMoreJobs, BeginTick, Contract!Next, Contract!Enter
  <2>8. CASE FinishJob \/ Delivered \/ TickReturns
    BY <2>8 DEF FinishJob, Delivered, TickReturns, Contract!Next, Contract!Leave
  <2>9. CASE CheckStop \/ NoMoreTicks \/ GoToSleep \/ Woken \/ ParkTimesOut
             \/ DrainJob \/ Drained \/ Exit
    BY <2>9 DEF CheckStop, NoMoreTicks, GoToSleep, Woken, ParkTimesOut, DrainJob,
       Drained, Exit
  <2>10. CASE Unload \/ DropHost \/ (\E j \in Job : BeginSend(j))
    BY <2>10 DEF Unload, DropHost, BeginSend
  <2>11. CASE StartWorker \/ StartFails \/ Send \/ AfterSend \/ HearAnswer
              \/ WaitTimesOut \/ RaiseStop \/ Revoke \/ DropFields
    BY <2>11 DEF StartWorker, StartFails, Send, AfterSend, HearAnswer, WaitTimesOut,
       StopWaiting, RaiseStop, Revoke, DropFields
  <2>12. CASE LyricsGoesOn \/ LyricsBegins \/ LineTimesOut \/ Nudge
    BY <2>12 DEF LyricsGoesOn, LyricsBegins, LineTimesOut, Nudge, HearLine, AfterLine,
       StopListening, CloneSender, FinishLyrics, SendLine
  <2>13. CASE UNCHANGED vars
    BY <2>13 DEF vars
  <2> QED
    BY <2>1, <2>2, <2>3, <2>4, <2>5, <2>6, <2>7, <2>8, <2>9, <2>10, <2>11, <2>12,
       <2>13 DEF Next, UiGoesOn, UiBegins, WorkerGoesOn
<1> QED
  BY <1>1, <1>2, HostInvariant, PTL DEF Spec, ImplementsContract, Contract!Spec

-----------------------------------------------------------------------------
(* Where a job is, by its fate: new, in the channel, with the worker, or   *)
(* settled.                                                                *)
JobsTyped ==
  /\ channel \in Seq(Job)
  /\ fate \in [Job -> Fate]
  /\ answers \in [Job -> Nat]

ChannelIsQueued ==
  /\ \A i \in 1..Len(channel) : fate[channel[i]] = "queued"
  /\ \A i, j \in 1..Len(channel) : channel[i] = channel[j] => i = j
  /\ \A j \in Job : fate[j] = "queued" => \E i \in 1..Len(channel) : channel[i] = j

InHands ==
  /\ worker = "job" => running \in Job /\ fate[running] = "running"
  /\ ui = "sending" => sending \in Job \ Line /\ fate[sending] = "new"

(* The worker leaves its loop because the UI thread is in shutdown, which  *)
(* sends nothing, or because a tick failed.                                *)
StopHasReason ==
  /\ worker \in {"drain", "done"} => stop
  /\ stop /\ ~failure => ui = "joining" \/ Joined
  /\ ui \in {"creating", "created"} => ~stop
  /\ worker = "done" /\ ~failure => \A m \in Media : fate[m] # "queued"

JobsInv == JobsTyped /\ ChannelIsQueued /\ InHands /\ AnswersMatchFates /\ StopHasReason

(* What the channel holds after its head is taken, or a job is added.      *)
LEMMA TakingTheHead ==
  ASSUME JobsTyped, ChannelIsQueued, channel # <<>>, NEW f \in Fate, f # "queued"
  PROVE  LET q == Tail(channel)
             g == [fate EXCEPT ![Head(channel)] = f]
         IN  /\ Head(channel) \in Job /\ fate[Head(channel)] = "queued"
             /\ q \in Seq(Job) /\ g \in [Job -> Fate]
             /\ \A i \in 1..Len(q) : g[q[i]] = "queued"
             /\ \A i, j \in 1..Len(q) : q[i] = q[j] => i = j
             /\ \A j \in Job : g[j] = "queued" => \E i \in 1..Len(q) : q[i] = j
<1> DEFINE q == Tail(channel)
<1> DEFINE g == [fate EXCEPT ![Head(channel)] = f]
<1>1. /\ channel \in Seq(Job) /\ Len(channel) \in Nat /\ Len(channel) > 0
      /\ Head(channel) = channel[1] /\ Head(channel) \in Job
      /\ q \in Seq(Job) /\ Len(q) = Len(channel) - 1
      /\ \A i \in 1..Len(q) : q[i] = channel[i + 1]
  BY DEF JobsTyped
<1>2. fate[Head(channel)] = "queued" /\ g \in [Job -> Fate]
  BY <1>1 DEF JobsTyped, ChannelIsQueued
<1>3. \A i \in 1..Len(q) : q[i] \in Job /\ q[i] # Head(channel) /\ g[q[i]] = "queued"
  <2> TAKE i \in 1..Len(q)
  <2>1. i + 1 \in 1..Len(channel) /\ 1 \in 1..Len(channel) /\ i + 1 # 1
    BY <1>1
  <2>2. q[i] = channel[i + 1] /\ channel[i + 1] \in Job
    BY <1>1, <2>1
  <2> QED BY <1>1, <2>1, <2>2 DEF JobsTyped, ChannelIsQueued
<1>4. \A i, j \in 1..Len(q) : q[i] = q[j] => i = j
  <2> TAKE i, j \in 1..Len(q)
  <2>1. i + 1 \in 1..Len(channel) /\ j + 1 \in 1..Len(channel)
    BY <1>1
  <2> QED BY <1>1, <2>1 DEF ChannelIsQueued
<1>5. ASSUME NEW j \in Job, g[j] = "queued"
      PROVE  \E i \in 1..Len(q) : q[i] = j
  <2>1. j # Head(channel) /\ fate[j] = "queued"
    BY <1>1, <1>5 DEF JobsTyped
  <2>2. PICK k \in 1..Len(channel) : channel[k] = j
    BY <2>1 DEF ChannelIsQueued
  <2>3. k - 1 \in 1..Len(q) /\ q[k - 1] = j
    BY <1>1, <2>1, <2>2
  <2> QED BY <2>3
<1> QED BY <1>1, <1>2, <1>3, <1>4, <1>5

LEMMA AddingAJob ==
  ASSUME JobsTyped, ChannelIsQueued, NEW j \in Job, fate[j] = "new"
  PROVE  LET q == Append(channel, j)
             g == [fate EXCEPT ![j] = "queued"]
         IN  /\ q \in Seq(Job) /\ g \in [Job -> Fate]
             /\ \A i \in 1..Len(q) : g[q[i]] = "queued"
             /\ \A i, k \in 1..Len(q) : q[i] = q[k] => i = k
             /\ \A k \in Job : g[k] = "queued" => \E i \in 1..Len(q) : q[i] = k
<1> DEFINE q == Append(channel, j)
<1> DEFINE g == [fate EXCEPT ![j] = "queued"]
<1>1. /\ channel \in Seq(Job) /\ Len(channel) \in Nat
      /\ q \in Seq(Job) /\ Len(q) = Len(channel) + 1
      /\ \A i \in 1..Len(channel) : q[i] = channel[i] /\ channel[i] \in Job
      /\ q[Len(q)] = j
      /\ fate \in [Job -> Fate] /\ g \in [Job -> Fate]
  BY DEF JobsTyped, Fate
<1>2. \A i \in 1..Len(channel) : q[i] # j
  BY <1>1 DEF ChannelIsQueued
<1>3. \A i \in 1..Len(q) : i \in 1..Len(channel) \/ i = Len(q)
  BY <1>1
<1>4. \A i \in 1..Len(q) : g[q[i]] = "queued"
  BY <1>1, <1>3 DEF ChannelIsQueued
<1>5. \A i, k \in 1..Len(q) : q[i] = q[k] => i = k
  BY <1>1, <1>2, <1>3 DEF ChannelIsQueued
<1>6. ASSUME NEW k \in Job, g[k] = "queued"
      PROVE  \E i \in 1..Len(q) : q[i] = k
  <2>1. CASE k = j
    <3>1. Len(q) \in 1..Len(q)
      BY <1>1
    <3> QED BY <1>1, <2>1, <3>1
  <2>2. CASE k # j
    <3>1. PICK i \in 1..Len(channel) : channel[i] = k
      BY <1>1, <1>6, <2>2 DEF ChannelIsQueued
    <3>2. i \in 1..Len(q) /\ q[i] = k
      BY <1>1, <3>1
    <3> QED BY <3>2
  <2> QED BY <2>1, <2>2
<1> QED BY <1>1, <1>4, <1>5, <1>6

(* A job that never was in the channel gets a fate: the channel is as it was.*)
LEMMA SettlingAnother ==
  ASSUME JobsTyped, ChannelIsQueued, NEW j \in Job, fate[j] # "queued",
         NEW f \in Fate, f # "queued", UNCHANGED channel,
         fate' = [fate EXCEPT ![j] = f]
  PROVE  ChannelIsQueued'
BY DEF JobsTyped, ChannelIsQueued

LEMMA JobsInit == Init => JobsInv
BY DEF Init, JobsInv, JobsTyped, Fate, ChannelIsQueued, InHands, AnswersMatchFates,
   StopHasReason, Joined, Job

LEMMA MovingJobs ==
  ASSUME HostInv, JobsInv,
         Send \/ TakeJob \/ FinishJob \/ DrainJob \/ Exit
              \/ (\E l \in Line : SendLine(l)) \/ (\E j \in Job : BeginSend(j))
  PROVE  JobsInv'
<1>1. /\ channel \in Seq(Job) /\ fate \in [Job -> Fate] /\ answers \in [Job -> Nat]
      /\ Media \subseteq Job /\ Line \subseteq Job
  BY DEF JobsInv, JobsTyped, Job
<1>2. \A f \in {"queued", "running", "done", "stale", "refused", "lost"} : f \in Fate
  BY DEF Fate
<1>3. ASSUME NEW j \in Job, fate[j] \in {"new", "running"}, NEW f \in {"done", "refused"},
             Becomes(j, f), Answer(j), UNCHANGED channel
      PROVE  JobsTyped' /\ ChannelIsQueued' /\ AnswersMatchFates'
  <2>1. JobsTyped'
    BY <1>1, <1>2, <1>3 DEF Becomes, Answer, JobsTyped
  <2>2. ChannelIsQueued'
    BY <1>1, <1>2, <1>3, SettlingAnother DEF Becomes, JobsInv
  <2>3. AnswersMatchFates'
    BY <1>1, <1>3 DEF Becomes, Answer, JobsInv, AnswersMatchFates
  <2> QED BY <2>1, <2>2, <2>3
<1>4. ASSUME NEW j \in Job, BeginSend(j)
      PROVE  JobsInv'
  <2>1. CASE Refuse(j) /\ UNCHANGED <<ui, sending, permit>>
    <3>1. JobsTyped' /\ ChannelIsQueued' /\ AnswersMatchFates'
      BY <1>3, <1>4, <2>1 DEF BeginSend, Refuse
    <3>2. InHands' /\ StopHasReason'
      BY <1>1, <1>4, <2>1 DEF BeginSend, Refuse, Becomes, JobsInv, InHands,
         StopHasReason, work, Joined
    <3> QED BY <3>1, <3>2 DEF JobsInv
  <2>2. CASE ui' = "sending" /\ sending' = j /\ UNCHANGED jobs
    BY <1>4, <2>2 DEF BeginSend, JobsInv, JobsTyped, ChannelIsQueued, InHands,
       AnswersMatchFates, StopHasReason, work, jobs, Joined
  <2> QED BY <1>4, <2>1, <2>2 DEF BeginSend
<1>5. CASE Send
  <2>1. sending \in Job \ Line /\ fate[sending] = "new"
    BY <1>5 DEF Send, JobsInv, InHands
  <2>2. CASE worker = "exited"
    <3>1. JobsTyped' /\ ChannelIsQueued' /\ AnswersMatchFates'
      BY <1>3, <1>5, <2>1, <2>2 DEF Send, Refuse
    <3>2. InHands' /\ StopHasReason'
      BY <1>1, <1>5, <2>2 DEF Send, Refuse, Becomes, JobsInv, InHands, StopHasReason,
         work, Joined
    <3> QED BY <3>1, <3>2 DEF JobsInv
  <2>3. CASE worker # "exited"
    <3>1. /\ channel' = Append(channel, sending)
          /\ fate' = [fate EXCEPT ![sending] = "queued"]
          /\ ui' = "sent" /\ UNCHANGED <<sending, answers, worker, stop, running, failure>>
      BY <1>5, <2>3 DEF Send, Becomes, work
    <3>2. JobsTyped' /\ ChannelIsQueued'
      <4>1. JobsTyped /\ ChannelIsQueued /\ sending \in Job
        BY <2>1 DEF JobsInv
      <4>2. channel' \in Seq(Job) /\ fate' \in [Job -> Fate]
        BY <2>1, <3>1, <4>1, AddingAJob
      <4>3. ChannelIsQueued'
        BY <2>1, <3>1, <4>1, AddingAJob DEF ChannelIsQueued
      <4> QED BY <1>1, <3>1, <4>2, <4>3 DEF JobsTyped
    <3>3. InHands' /\ AnswersMatchFates'
      BY <1>1, <2>1, <3>1 DEF JobsInv, InHands, AnswersMatchFates
    <3>4. StopHasReason'
      BY <1>1, <1>5, <3>1 DEF Send, JobsInv, StopHasReason, Joined
    <3> QED BY <3>2, <3>3, <3>4 DEF JobsInv
  <2> QED BY <2>2, <2>3
<1>6. ASSUME NEW l \in Line, SendLine(l)
      PROVE  JobsInv'
  <2>1. l \in Job /\ l \notin Media /\ fate[l] = "new"
    BY <1>1, <1>6, LifecycleAssumption DEF SendLine
  <2>2. UNCHANGED <<ui, sending, worker, stop, running, failure, answers>>
    BY <1>6 DEF SendLine, work
  <2>3. CASE channel' = channel /\ fate' = [fate EXCEPT ![l] = "refused"]
    <3>1. JobsTyped'
      BY <1>1, <1>2, <2>2, <2>3 DEF JobsTyped
    <3>2. ChannelIsQueued'
      BY <1>2, <2>1, <2>3, SettlingAnother DEF JobsInv
    <3>3. InHands' /\ AnswersMatchFates' /\ StopHasReason'
      BY <1>1, <2>1, <2>2, <2>3 DEF JobsInv, InHands, AnswersMatchFates, StopHasReason,
         Joined
    <3> QED BY <3>1, <3>2, <3>3 DEF JobsInv
  <2>4. CASE channel' = Append(channel, l) /\ fate' = [fate EXCEPT ![l] = "queued"]
    <3>1. JobsTyped' /\ ChannelIsQueued'
      BY <1>1, <2>1, <2>2, <2>4, AddingAJob DEF JobsInv, JobsTyped, ChannelIsQueued
    <3>2. InHands' /\ AnswersMatchFates' /\ StopHasReason'
      BY <1>1, <2>1, <2>2, <2>4 DEF JobsInv, InHands, AnswersMatchFates, StopHasReason,
         Joined
    <3> QED BY <3>1, <3>2 DEF JobsInv
  <2> QED BY <1>6, <2>3, <2>4 DEF SendLine, Becomes
<1>7. CASE TakeJob
  <2>1. /\ channel # <<>> /\ channel' = Tail(channel) /\ running' = Head(channel)
        /\ fate' = [fate EXCEPT ![Head(channel)] = "running"]
        /\ UNCHANGED <<ui, sending, answers, stop, failure>>
        /\ worker = "jobs" /\ worker' = "job"
    BY <1>7 DEF TakeJob, Becomes
  <2>2. /\ JobsTyped' /\ ChannelIsQueued'
        /\ Head(channel) \in Job /\ fate[Head(channel)] = "queued"
    BY <1>1, <1>2, <2>1, TakingTheHead DEF JobsInv, JobsTyped, ChannelIsQueued
  <2>3. InHands' /\ AnswersMatchFates' /\ StopHasReason'
    BY <1>1, <2>1, <2>2 DEF JobsInv, InHands, AnswersMatchFates, StopHasReason, Joined
  <2> QED BY <2>2, <2>3 DEF JobsInv
<1>8. CASE FinishJob
  <2>1. running \in Job /\ fate[running] = "running"
    BY <1>8 DEF FinishJob, JobsInv, InHands
  <2>2. JobsTyped' /\ ChannelIsQueued' /\ AnswersMatchFates'
    BY <1>3, <1>8, <2>1 DEF FinishJob
  <2>3. InHands' /\ StopHasReason'
    BY <1>1, <1>8, <2>1 DEF FinishJob, Becomes, JobsInv, InHands, StopHasReason, Joined
  <2> QED BY <2>2, <2>3 DEF JobsInv
<1>9. CASE DrainJob
  <2>1. /\ channel # <<>> /\ channel' = Tail(channel)
        /\ fate' = [fate EXCEPT ![Head(channel)] = "stale"]
        /\ Answer(Head(channel))
        /\ UNCHANGED <<ui, sending, worker, stop, running, failure>>
        /\ worker = "drain"
    BY <1>9 DEF DrainJob, DrainedJob, Becomes, work
  <2>2. JobsTyped /\ ChannelIsQueued /\ "stale" \in Fate
    BY <1>2 DEF JobsInv
  <2>3. Head(channel) \in Job /\ fate[Head(channel)] = "queued"
    BY <2>1, <2>2, TakingTheHead
  <2>4. channel' \in Seq(Job) /\ fate' \in [Job -> Fate]
    BY <2>1, <2>2, TakingTheHead
  <2>5. ChannelIsQueued'
    BY <2>1, <2>2, TakingTheHead DEF ChannelIsQueued
  <2>6. JobsTyped' /\ AnswersMatchFates'
    BY <1>1, <2>1, <2>3, <2>4 DEF JobsInv, JobsTyped, Answer, AnswersMatchFates
  <2>7. InHands' /\ StopHasReason'
    BY <1>1, <2>1, <2>3 DEF JobsInv, InHands, StopHasReason, Joined
  <2> QED BY <2>5, <2>6, <2>7 DEF JobsInv
<1>10. CASE Exit
  <2>1. /\ channel' = <<>> /\ worker' = "exited"
        /\ fate' = [j \in Job |-> IF fate[j] = "queued" THEN "lost" ELSE fate[j]]
        /\ UNCHANGED <<ui, sending, answers, stop, running, failure>>
    BY <1>10 DEF Exit, work
  <2>2. JobsTyped' /\ ChannelIsQueued'
    BY <1>1, <1>2, <2>1 DEF JobsTyped, ChannelIsQueued
  <2>3. InHands' /\ AnswersMatchFates' /\ StopHasReason'
    BY <1>1, <2>1 DEF JobsInv, InHands, AnswersMatchFates, StopHasReason, Joined
  <2> QED BY <2>2, <2>3 DEF JobsInv
<1> QED BY <1>4, <1>5, <1>6, <1>7, <1>8, <1>9, <1>10

LEMMA OtherSteps ==
  ASSUME HostInv, JobsInv, [Next]_vars, UNCHANGED jobs,
         ~Send, \A j \in Job : ~BeginSend(j), ~Exit
  PROVE  JobsInv'
<1>1. JobsTyped' /\ ChannelIsQueued' /\ AnswersMatchFates'
  BY DEF JobsInv, JobsTyped, ChannelIsQueued, AnswersMatchFates, jobs
<1>2. InHands' /\ StopHasReason'
  <2> USE DEF jobs, work, JobsInv, InHands, StopHasReason, Joined
  <2>1. CASE Load
    BY <2>1 DEF Load, HostInv, WorkerHasInstance
  <2>2. CASE Unload \/ DropHost
    BY <2>2 DEF Unload, DropHost
  <2>3. CASE CreateReturns \/ ShutDownPartial \/ StartWorker \/ StartFails
             \/ AfterSend \/ HearAnswer \/ WaitTimesOut
    BY <2>3 DEF CreateReturns, ShutDownPartial, StartWorker, StartFails, AfterSend,
       HearAnswer, WaitTimesOut, StopWaiting, HostInv, WorkerHasInstance
  <2>4. CASE RaiseStop \/ Join \/ ShutdownOk \/ ShutdownFails \/ Revoke \/ Destroy
             \/ Unmap \/ DropFields
    BY <2>4 DEF RaiseStop, Join, MayJoin, ShutdownOk, ShutdownFails, Revoke, Destroy,
       Unmap, DropFields, HostInv, WorkerHasInstance
  <2>5. CASE CheckStop \/ NoMoreJobs \/ Delivered \/ BeginTick \/ TickReturns
             \/ NoMoreTicks \/ GoToSleep \/ Woken \/ ParkTimesOut
    BY <2>5 DEF CheckStop, NoMoreJobs, Delivered, BeginTick, TickReturns, NoMoreTicks,
       GoToSleep, Woken, ParkTimesOut, HostInv, WorkerHasInstance
  <2>6. CASE Drained
    <3>1. \A j \in Job : fate[j] # "queued"
      BY <2>6 DEF Drained, DrainOver, ChannelIsQueued
    <3> QED BY <2>6, <3>1 DEF Drained, Job
  <2>7. CASE LyricsGoesOn \/ CloneSender \/ FinishLyrics \/ LineTimesOut \/ Nudge
    BY <2>7 DEF LyricsGoesOn, CloneSender, FinishLyrics, LineTimesOut, Nudge, HearLine,
       AfterLine, StopListening
  <2>8. CASE (\E l \in Line : SendLine(l)) \/ TakeJob \/ FinishJob \/ DrainJob
    BY <2>8, MovingJobs
  <2>9. CASE UNCHANGED vars
    BY <2>9 DEF vars
  <2> QED BY <2>1, <2>2, <2>3, <2>4, <2>5, <2>6, <2>7, <2>8, <2>9
          DEF Next, UiGoesOn, UiBegins, WorkerGoesOn, LyricsBegins
<1> QED BY <1>1, <1>2 DEF JobsInv

(* The jobs move in seven ways only.                                       *)
LEMMA WhoMovesJobs ==
  ASSUME [Next]_vars
  PROVE  \/ Send \/ TakeJob \/ FinishJob \/ DrainJob \/ Exit
         \/ (\E l \in Line : SendLine(l)) \/ (\E j \in Job : BeginSend(j))
         \/ UNCHANGED jobs
BY DEF Next, UiGoesOn, UiBegins, WorkerGoesOn, LyricsGoesOn, LyricsBegins, vars,
   Load, Unload, DropHost, CreateReturns, ShutDownPartial, StartWorker, StartFails,
   AfterSend, HearAnswer, WaitTimesOut, StopWaiting, RaiseStop, Join, ShutdownOk,
   ShutdownFails, Revoke, Destroy, Unmap, DropFields, CheckStop, NoMoreJobs,
   Delivered, BeginTick, TickReturns, NoMoreTicks, GoToSleep, Woken, ParkTimesOut,
   Drained, CloneSender, FinishLyrics, LineTimesOut, Nudge, HearLine, AfterLine,
   StopListening

LEMMA JobsInvariant == Spec => []JobsInv
<1>1. HostInv /\ JobsInv /\ [Next]_vars => JobsInv'
  <2> SUFFICES ASSUME HostInv, JobsInv, [Next]_vars PROVE JobsInv'
    OBVIOUS
  <2>1. CASE Send \/ TakeJob \/ FinishJob \/ DrainJob \/ Exit
             \/ (\E l \in Line : SendLine(l)) \/ (\E j \in Job : BeginSend(j))
    BY <2>1, MovingJobs
  <2>2. CASE UNCHANGED jobs /\ ~Send /\ ~Exit /\ \A j \in Job : ~BeginSend(j)
    BY <2>2, OtherSteps
  <2> QED BY <2>1, <2>2, WhoMovesJobs
<1> QED BY <1>1, JobsInit, HostInvariant, PTL DEF Spec

(* Every media command is completed exactly once if it is settled.         *)
THEOREM CompletedOnce == Spec => []AnswersMatchFates
BY JobsInvariant, PTL DEF JobsInv

(* No command is lost by a worker that was told to stop.                   *)
THEOREM NothingLostInShutdown == Spec => LostOnlyAfterFailure
<1>1. JobsInv /\ [Next]_vars
        => [\A m \in Media : fate[m] # "lost" /\ fate'[m] = "lost" => failure]_fate
  <2> SUFFICES ASSUME JobsInv, [Next]_vars, fate' # fate, NEW m \in Media,
                      fate[m] # "lost", fate'[m] = "lost"
               PROVE  failure
    OBVIOUS
  <2>1. m \in Job /\ fate \in [Job -> Fate]
    BY DEF JobsInv, JobsTyped, Job
  <2>2. CASE Exit
    <3>1. worker = "done" /\ fate[m] = "queued"
      BY <2>1, <2>2 DEF Exit
    <3> QED BY <3>1 DEF JobsInv, StopHasReason
  <2>3. CASE ~Exit
    <3>1. CASE UNCHANGED jobs
      BY <3>1 DEF jobs
    <3>2. CASE Send \/ TakeJob \/ FinishJob \/ DrainJob
      BY <2>1, <3>2 DEF Send, TakeJob, FinishJob, DrainJob, Refuse, Becomes
    <3>3. CASE \E l \in Line : SendLine(l)
      BY <2>1, <3>3 DEF SendLine, Becomes
    <3>4. CASE \E j \in Job : BeginSend(j)
      BY <2>1, <3>4 DEF BeginSend, Refuse, Becomes, jobs
    <3> QED BY <2>3, <3>1, <3>2, <3>3, <3>4, WhoMovesJobs
  <2> QED BY <2>2, <2>3
<1> QED BY <1>1, JobsInvariant, PTL DEF Spec, LostOnlyAfterFailure
-----------------------------------------------------------------------------
(* The other types. Those of the channel, the fates and the answers are in *)
(* JobsTyped.                                                              *)
HostTyped ==
  /\ instance \in Stage
  /\ runtime \in {"pinned", "forgotten", "freed"}
  /\ drop \in {"no", "unload", "fields", "done"}
  /\ loads \in 0..MaxLoads
  /\ ui \in UiStep /\ sending \in Job \cup {NoJob}

WorkerTyped ==
  /\ worker \in Working \cup {"none", "exited"}
  /\ left \in Nat /\ running \in Job \cup {NoJob}

LyricsTyped ==
  /\ lyrics \in {"idle", "ready", "sent", "waiting"}
  /\ line \in Line \cup {NoJob} /\ linked \in 0..loads

FlagsTyped ==
  /\ mapped \in BOOLEAN /\ entry \in BOOLEAN /\ retained \in BOOLEAN
  /\ stop \in BOOLEAN /\ failure \in BOOLEAN /\ permit \in BOOLEAN
  /\ sender \in BOOLEAN /\ bridge \in BOOLEAN

ThreadsTyped == HostTyped /\ WorkerTyped /\ LyricsTyped

LEMMA ThreadsTypedInit == Init => ThreadsTyped
BY LifecycleAssumption DEF LifecycleAssumption, Init, ThreadsTyped, HostTyped, WorkerTyped,
   LyricsTyped, Stage, UiStep, Working

LEMMA HostTypedStep == ThreadsTyped /\ [Next]_vars => HostTyped'
<1> SUFFICES ASSUME ThreadsTyped, [Next]_vars PROVE HostTyped'
  OBVIOUS
<1> USE LifecycleAssumption DEF LifecycleAssumption, ThreadsTyped, HostTyped, Stage, UiStep, host
<1>1. CASE Load \/ Unload \/ DropHost
  BY <1>1 DEF Load, Unload, DropHost
<1>2. ASSUME NEW j \in Job, BeginSend(j) PROVE HostTyped'
  BY <1>2 DEF BeginSend
<1>3. CASE CreateReturns \/ ShutDownPartial \/ StartWorker \/ StartFails
  BY <1>3 DEF CreateReturns, ShutDownPartial, StartWorker, StartFails
<1>4. CASE Send \/ AfterSend \/ HearAnswer \/ WaitTimesOut
  BY <1>4 DEF Send, AfterSend, HearAnswer, WaitTimesOut, StopWaiting
<1>5. CASE RaiseStop \/ Join \/ Revoke \/ Destroy \/ Unmap
  BY <1>5 DEF RaiseStop, Join, Revoke, Destroy, Unmap
<1>6. CASE ShutdownOk \/ ShutdownFails \/ DropFields
  BY <1>6 DEF ShutdownOk, ShutdownFails, DropFields
<1>7. CASE WorkerGoesOn \/ ParkTimesOut
  BY <1>7 DEF WorkerGoesOn, ParkTimesOut, CheckStop, TakeJob, FinishJob, NoMoreJobs,
     Delivered, BeginTick, TickReturns, NoMoreTicks, GoToSleep, Woken, DrainJob,
     Drained, Exit
<1>8. CASE LyricsGoesOn \/ LyricsBegins \/ LineTimesOut \/ Nudge
  BY <1>8 DEF LyricsGoesOn, LyricsBegins, LineTimesOut, Nudge, HearLine, AfterLine,
     StopListening, CloneSender, FinishLyrics, SendLine
<1>9. CASE UNCHANGED vars
  BY <1>9 DEF vars
<1> QED
  BY <1>1, <1>2, <1>3, <1>4, <1>5, <1>6, <1>7, <1>8, <1>9 DEF Next, UiGoesOn, UiBegins

LEMMA WorkerTypedStep == JobsTyped /\ ThreadsTyped /\ [Next]_vars => WorkerTyped'
<1> SUFFICES ASSUME JobsTyped, ThreadsTyped, [Next]_vars PROVE WorkerTyped'
  OBVIOUS
<1> USE DEF ThreadsTyped, WorkerTyped, Working, InPlugin, work, Unpark
<1>1. CASE Load \/ Unload \/ DropHost
  BY <1>1 DEF Load, Unload, DropHost
<1>2. ASSUME NEW j \in Job, BeginSend(j) PROVE WorkerTyped'
  BY <1>2 DEF BeginSend
<1>3. CASE CreateReturns \/ ShutDownPartial \/ StartWorker \/ StartFails
  BY <1>3 DEF CreateReturns, ShutDownPartial, StartWorker, StartFails
<1>4. CASE Send \/ AfterSend \/ HearAnswer \/ WaitTimesOut
  BY <1>4 DEF Send, AfterSend, WakeAfterSend, HearAnswer, WaitTimesOut, StopWaiting
<1>5. CASE RaiseStop \/ Join \/ Revoke \/ Destroy \/ Unmap
  BY <1>5 DEF RaiseStop, WakeToStop, Join, Revoke, Destroy, Unmap
<1>6. CASE ShutdownOk \/ ShutdownFails \/ DropFields
  BY <1>6 DEF ShutdownOk, ShutdownFails, DropFields
<1>7. CASE CheckStop \/ BeginTick \/ Delivered
  BY <1>7, LifecycleAssumption DEF LifecycleAssumption, CheckStop, BeginTick, MoreTicks, Delivered
<1>8. CASE TakeJob
  <2>1. Head(channel) \in Job
    BY <1>8 DEF TakeJob, JobsTyped
  <2> QED BY <1>8, <2>1 DEF TakeJob
<1>9. CASE FinishJob \/ NoMoreJobs \/ TickReturns \/ NoMoreTicks \/ GoToSleep \/ Woken
          \/ ParkTimesOut \/ DrainJob \/ Drained \/ Exit
  BY <1>9 DEF FinishJob, NoMoreJobs, TickReturns, NoMoreTicks, GoToSleep, Woken,
     ParkTimesOut, DrainJob, Drained, Exit
<1>10. CASE LyricsGoesOn \/ LyricsBegins \/ LineTimesOut \/ Nudge
  BY <1>10 DEF LyricsGoesOn, LyricsBegins, LineTimesOut, Nudge, HearLine, AfterLine,
     StopListening, CloneSender, FinishLyrics, SendLine
<1>11. CASE UNCHANGED vars
  BY <1>11 DEF vars
<1> QED
  BY <1>1, <1>2, <1>3, <1>4, <1>5, <1>6, <1>7, <1>8, <1>9, <1>10, <1>11
  DEF Next, UiGoesOn, UiBegins, WorkerGoesOn

LEMMA LyricsTypedStep == ThreadsTyped /\ [Next]_vars => LyricsTyped'
<1> SUFFICES ASSUME ThreadsTyped, [Next]_vars PROVE LyricsTyped'
  OBVIOUS
<1> USE DEF ThreadsTyped, HostTyped, LyricsTyped, host, song
<1>1. CASE Load \/ Unload \/ DropHost
  BY <1>1, LifecycleAssumption DEF LifecycleAssumption, Load, Unload, DropHost
<1>2. ASSUME NEW j \in Job, BeginSend(j) PROVE LyricsTyped'
  BY <1>2 DEF BeginSend
<1>3. CASE CreateReturns \/ ShutDownPartial \/ StartWorker \/ StartFails
  BY <1>3 DEF CreateReturns, ShutDownPartial, StartWorker, StartFails
<1>4. CASE Send \/ AfterSend \/ HearAnswer \/ WaitTimesOut
  BY <1>4 DEF Send, AfterSend, HearAnswer, WaitTimesOut, StopWaiting
<1>5. CASE RaiseStop \/ Join \/ Revoke \/ Destroy \/ Unmap
  BY <1>5 DEF RaiseStop, Join, Revoke, Destroy, Unmap
<1>6. CASE ShutdownOk \/ ShutdownFails \/ DropFields
  BY <1>6 DEF ShutdownOk, ShutdownFails, DropFields
<1>7. CASE WorkerGoesOn \/ ParkTimesOut
  BY <1>7 DEF WorkerGoesOn, ParkTimesOut, CheckStop, TakeJob, FinishJob, NoMoreJobs,
     Delivered, BeginTick, TickReturns, NoMoreTicks, GoToSleep, Woken, DrainJob,
     Drained, Exit
<1>8. CASE LyricsGoesOn \/ LyricsBegins \/ LineTimesOut \/ Nudge
  BY <1>8, LifecycleAssumption DEF LifecycleAssumption, LyricsGoesOn, LyricsBegins,
     LineTimesOut, Nudge, HearLine, AfterLine, StopListening, CloneSender, FinishLyrics, SendLine
<1>9. CASE UNCHANGED vars
  BY <1>9 DEF vars
<1> QED
  BY <1>1, <1>2, <1>3, <1>4, <1>5, <1>6, <1>7, <1>8, <1>9 DEF Next, UiGoesOn, UiBegins

LEMMA FlagsTypedInit == Init => FlagsTyped
BY DEF Init, FlagsTyped

LEMMA FlagsTypedStep == FlagsTyped /\ [Next]_vars => FlagsTyped'
<1> SUFFICES ASSUME FlagsTyped, [Next]_vars PROVE FlagsTyped'
  OBVIOUS
<1> USE DEF FlagsTyped, host, work, Unpark
<1>1. CASE Load \/ Unload \/ DropHost
  BY <1>1, Zenon DEF Load, Unload, DropHost
<1>2. ASSUME NEW j \in Job, BeginSend(j) PROVE FlagsTyped'
  BY <1>2, Zenon DEF BeginSend
<1>3. CASE CreateReturns \/ ShutDownPartial \/ StartWorker \/ StartFails
  BY <1>3, Zenon DEF CreateReturns, ShutDownPartial, StartWorker, StartFails
<1>4. CASE Send \/ AfterSend \/ HearAnswer \/ WaitTimesOut
  BY <1>4, Zenon DEF Send, AfterSend, WakeAfterSend, HearAnswer, WaitTimesOut, StopWaiting
<1>5. CASE RaiseStop \/ Join \/ Revoke \/ Destroy \/ Unmap
  BY <1>5, Zenon DEF RaiseStop, WakeToStop, Join, Revoke, Destroy, Unmap
<1>6. CASE ShutdownOk \/ DropFields
  BY <1>6, Zenon DEF ShutdownOk, DropFields
<1>7. CASE ShutdownFails
  <2>1. entry' \in BOOLEAN /\ retained' \in BOOLEAN
    BY <1>7, Zenon DEF ShutdownFails
  <2> QED BY <1>7, <2>1, Zenon DEF ShutdownFails
<1>8. CASE CheckStop \/ TakeJob \/ FinishJob
  BY <1>8, Zenon DEF CheckStop, TakeJob, FinishJob
<1>15. CASE NoMoreJobs \/ Delivered \/ BeginTick
  BY <1>15, Zenon DEF NoMoreJobs, Delivered, BeginTick
<1>9. CASE TickReturns \/ NoMoreTicks \/ GoToSleep
  BY <1>9, Zenon DEF TickReturns, NoMoreTicks, GoToSleep
<1>14. CASE Woken \/ ParkTimesOut
  BY <1>14, Zenon DEF Woken, ParkTimesOut
<1>10. CASE DrainJob \/ Drained \/ Exit
  BY <1>10, Zenon DEF DrainJob, Drained, Exit
<1>11. CASE LyricsGoesOn \/ LineTimesOut \/ Nudge
  <2>1. CASE HearLine \/ LineTimesOut
    BY <2>1, Zenon DEF HearLine, LineTimesOut, StopListening
  <2>2. CASE AfterLine \/ Nudge
    BY <2>2, Zenon DEF AfterLine, Nudge
  <2> QED BY <1>11, <2>1, <2>2 DEF LyricsGoesOn
<1>12. CASE LyricsBegins
  <2>1. CASE CloneSender \/ FinishLyrics
    BY <2>1, Zenon DEF CloneSender, FinishLyrics
  <2>2. ASSUME NEW l \in Line, SendLine(l) PROVE FlagsTyped'
    BY <2>2, Zenon DEF SendLine
  <2> QED BY <1>12, <2>1, <2>2 DEF LyricsBegins
<1>13. CASE UNCHANGED vars
  BY <1>13, Zenon DEF vars
<1> QED
  BY <1>1, <1>2, <1>3, <1>4, <1>5, <1>6, <1>7, <1>8, <1>9, <1>10, <1>11, <1>12, <1>13,
     <1>14, <1>15
  DEF Next, UiGoesOn, UiBegins, WorkerGoesOn

(* The three threads, the channel between them and the host keep their     *)
(* types, for any jobs and numbers of loads, widgets and jobs per turn.    *)
THEOREM LifecycleTyped == Spec => []TypeOK
<1>1. JobsInv => JobsTyped
  BY DEF JobsInv
<1>2. JobsTyped /\ ThreadsTyped /\ FlagsTyped => TypeOK
  <2>1. FlagsTyped => {mapped, entry, retained, stop, failure, permit, sender, bridge} \subseteq BOOLEAN
    BY Zenon DEF FlagsTyped
  <2> QED BY <2>1 DEF JobsTyped, ThreadsTyped, HostTyped, WorkerTyped, LyricsTyped, TypeOK
<1>3. JobsTyped /\ ThreadsTyped /\ [Next]_vars => ThreadsTyped'
  BY HostTypedStep, WorkerTypedStep, LyricsTypedStep DEF ThreadsTyped
<1> QED BY <1>1, <1>2, <1>3, ThreadsTypedInit, FlagsTypedInit, FlagsTypedStep, JobsInvariant, PTL DEF Spec

-----------------------------------------------------------------------------
(* A worker that has looked into the channel, and may be about to sleep, or*)
(* that is still taking jobs, goes back to its loop's head only awake.     *)
Past    == {"deliver", "tick", "ticking", "sleep", "parked"}
Looping == Past \cup {"jobs", "job"}
Asleep  == worker = "parked" /\ ~permit

(* Between a send and the wake-up after it.                                *)
Waking == ui = "sent" \/ (lyrics = "sent" /\ linked = loads)

(* Whoever joins has raised the flag, and has woken the worker since.      *)
JoinersWake == ui = "joining" => stop /\ (worker \in Looping => permit)

(* History: whether the worker's last turn ended because its batch was used*)
(* up. It adds to what is recorded of a behaviour, and forbids none.       *)
VARIABLE cut
EndOfJobs == worker = "jobs" /\ worker' = "deliver"
TurnNext  == Next /\ cut' = (IF EndOfJobs THEN left = 0 ELSE cut)
TurnSpec  == Init /\ cut = FALSE /\ [][TurnNext]_<<vars, cut>>

(* Who sends something that the worker did not see is to wake it, or has;  *)
(* what the worker did see, and left, is what was beyond its batch.        *)
SendersWake == worker \in Past /\ ~permit /\ channel # <<>> => Waking \/ cut

LEMMA JoinersStep == ThreadsTyped /\ JoinersWake /\ [Next]_vars => JoinersWake'
<1> SUFFICES ASSUME ThreadsTyped, JoinersWake, [Next]_vars PROVE JoinersWake'
  OBVIOUS
<1> USE DEF JoinersWake, Looping, Past, host, work, jobs, song, Unpark
<1>1. CASE Load \/ CreateReturns \/ ShutDownPartial \/ StartWorker \/ StartFails
  BY <1>1 DEF Load, CreateReturns, ShutDownPartial, StartWorker, StartFails
<1>2. CASE Send \/ AfterSend \/ HearAnswer \/ WaitTimesOut \/ \E j \in Job : BeginSend(j)
  BY <1>2 DEF Send, AfterSend, HearAnswer, WaitTimesOut, StopWaiting, BeginSend
<1>3. CASE Unload \/ DropHost \/ RaiseStop \/ Join
  BY <1>3 DEF Unload, DropHost, RaiseStop, WakeToStop, Join
<1>4. CASE ShutdownOk \/ ShutdownFails \/ Revoke \/ Destroy \/ Unmap \/ DropFields
  BY <1>4 DEF ShutdownOk, ShutdownFails, Revoke, Destroy, Unmap, DropFields
<1>5. CASE CheckStop \/ TakeJob \/ FinishJob \/ NoMoreJobs \/ Delivered \/ BeginTick
  BY <1>5 DEF CheckStop, TakeJob, FinishJob, NoMoreJobs, Delivered, BeginTick
<1>6. CASE TickReturns \/ NoMoreTicks \/ GoToSleep \/ Woken \/ ParkTimesOut
  BY <1>6 DEF TickReturns, NoMoreTicks, GoToSleep, Woken, ParkTimesOut
<1>7. CASE DrainJob \/ Drained \/ Exit
  BY <1>7 DEF DrainJob, Drained, Exit
<1>8. CASE LyricsGoesOn \/ LyricsBegins \/ LineTimesOut \/ Nudge
  BY <1>8 DEF LyricsGoesOn, LyricsBegins, LineTimesOut, Nudge, HearLine, AfterLine,
     StopListening, CloneSender, FinishLyrics, SendLine
<1>9. CASE UNCHANGED vars
  BY <1>9 DEF vars
<1> QED BY <1>1, <1>2, <1>3, <1>4, <1>5, <1>6, <1>7, <1>8, <1>9
        DEF Next, UiGoesOn, UiBegins, WorkerGoesOn

LEMMA SendersStep ==
  ASSUME HostInv, ThreadsTyped, SendersWake, [TurnNext]_<<vars, cut>>
  PROVE  SendersWake'
<1>0. /\ [Next]_vars
      /\ EndOfJobs => cut' = (left = 0)
      /\ ~EndOfJobs => cut' = cut
  <2>1. CASE TurnNext
    BY <2>1 DEF TurnNext
  <2>2. CASE UNCHANGED <<vars, cut>>
    BY <2>2 DEF vars, EndOfJobs
  <2> QED BY <2>1, <2>2
<1> USE DEF SendersWake, Waking, Past, EndOfJobs, host, work, jobs, song, Unpark
<1>1. CASE NoMoreJobs
  BY <1>0, <1>1 DEF NoMoreJobs
<1>2. CASE Load \/ CreateReturns \/ ShutDownPartial \/ StartWorker \/ StartFails
  BY <1>0, <1>2 DEF Load, CreateReturns, ShutDownPartial, StartWorker, StartFails
<1>3. CASE Send \/ AfterSend \/ HearAnswer \/ WaitTimesOut \/ \E j \in Job : BeginSend(j)
  BY <1>0, <1>3 DEF Send, Refuse, AfterSend, WakeAfterSend, HearAnswer, WaitTimesOut, StopWaiting,
     BeginSend
<1>4. CASE Unload \/ DropHost \/ RaiseStop \/ Join
  BY <1>0, <1>4 DEF Unload, DropHost, RaiseStop, WakeToStop, Join
<1>5. CASE ShutdownOk \/ ShutdownFails \/ Revoke \/ Destroy \/ Unmap \/ DropFields
  BY <1>0, <1>5 DEF ShutdownOk, ShutdownFails, Revoke, Destroy, Unmap, DropFields
<1>6. CASE CheckStop \/ TakeJob \/ FinishJob \/ Delivered \/ BeginTick
  BY <1>0, <1>6 DEF CheckStop, TakeJob, FinishJob, Delivered, BeginTick
<1>7. CASE TickReturns \/ NoMoreTicks \/ GoToSleep \/ Woken \/ ParkTimesOut
  BY <1>0, <1>7 DEF TickReturns, NoMoreTicks, GoToSleep, Woken, ParkTimesOut
<1>8. CASE DrainJob \/ Drained \/ Exit
  BY <1>0, <1>8 DEF DrainJob, Drained, Exit
<1>9. CASE LyricsGoesOn \/ CloneSender \/ FinishLyrics \/ LineTimesOut \/ Nudge
  BY <1>0, <1>9 DEF LyricsGoesOn, LineTimesOut, Nudge, HearLine, AfterLine,
     StopListening, CloneSender, FinishLyrics
<1>10. CASE \E l \in Line : SendLine(l)
  BY <1>0, <1>10 DEF SendLine, ReceiverGone
<1>11. CASE UNCHANGED vars
  BY <1>0, <1>11 DEF vars
<1> QED BY <1>0, <1>1, <1>2, <1>3, <1>4, <1>5, <1>6, <1>7, <1>8, <1>9, <1>10, <1>11
        DEF Next, UiGoesOn, UiBegins, WorkerGoesOn, LyricsBegins

LEMMA ThreadsInvariant == Spec => [](JobsInv /\ HostInv /\ ThreadsTyped)
<1>1. JobsInv => JobsTyped
  BY DEF JobsInv
<1>2. JobsTyped /\ ThreadsTyped /\ [Next]_vars => ThreadsTyped'
  BY HostTypedStep, WorkerTypedStep, LyricsTypedStep DEF ThreadsTyped
<1> QED BY <1>1, <1>2, ThreadsTypedInit, JobsInvariant, HostInvariant, PTL DEF Spec

(* The UI thread never waits for a worker that sleeps: whatever the worker *)
(* was about to do when the flag was raised, the permit keeps it from      *)
(* parking (lifecycle.rs:371-380).  So shutdown needs no timeout.          *)
THEOREM NoSleeperIsJoined == Spec => [](ui = "joining" => ~Asleep)
<1>1. Init => JoinersWake
  BY DEF Init, JoinersWake
<1>2. JoinersWake => (ui = "joining" => ~Asleep)
  BY DEF JoinersWake, Asleep, Looping, Past
<1> QED BY <1>1, <1>2, JoinersStep, ThreadsInvariant, PTL DEF Spec

(* No wake-up is lost between the worker's look into the channel and its   *)
(* park (lifecycle.rs:188-253, 287-307): a worker sleeps on jobs only while*)
(* who sent the last of them is on the way to wake it, or after a turn that*)
(* used up its batch (188-195), the one case that wait_duration overlooks, *)
(* as ResultsFollow shows.                                                 *)
THEOREM NoWakeUpIsLost == TurnSpec => [](Asleep /\ channel # <<>> => Waking \/ cut)
<1>1. Init => SendersWake
  BY DEF Init, SendersWake, Past
<1>2. SendersWake => (Asleep /\ channel # <<>> => Waking \/ cut)
  BY DEF SendersWake, Asleep, Past
<1>3. TurnSpec => Spec
  <2>1. [TurnNext]_<<vars, cut>> => [Next]_vars
    BY DEF TurnNext, vars
  <2> QED BY <2>1, PTL DEF TurnSpec, Spec
<1> QED BY <1>1, <1>2, <1>3, SendersStep, ThreadsInvariant, PTL DEF TurnSpec
=============================================================================
