---------------------------- MODULE Notifications ----------------------------
(***************************************************************************)
(* Notifications of other programs on the island.  Windows tells that there*)
(* is one, not which: the feed compares what is in the notification centre *)
(* with what was there before.  It is updated in every frame, reads the    *)
(* centre in background jobs, and starts over 5 s after anything fails.    *)
(*                                                                         *)
(* Code: crates/winisland-platform-windows/src/notify/, src/ui/compact/    *)
(* notification.rs and mod.rs, crates/pollkit, and the capability probe of *)
(* src/main.rs.  Icons are left out.                                       *)
(***************************************************************************)
EXTENDS Naturals, FiniteSetsExt

CONSTANTS
  MaxNotes,    \* notifications that are published
  MaxTroubles  \* failures, and changes of the user's mind

ASSUME NotesAssumption == MaxNotes \in Nat /\ MaxTroubles \in Nat

VARIABLES
  centre,      \* the notification centre
  notes,       \* how many were published; the number is the creation time
  permission,  \* GetAccessStatus
  events,      \* what can be subscribed to: "wnf" (and the log), or only the "log"
  underway,    \* a signal that the callback has not stored yet
  delivery,    \* DELIVERY_PENDING
  failure,     \* ERROR_PENDING
  display,     \* config.notification_display
  capable,     \* Capabilities.toast_events
  probe,       \* the capability probe of main has not reset the signals yet
  wiped,       \* history: the probe reset a signal that was pending
  feed,        \* WindowsNotificationFeed
  card,        \* NotificationIndicator.pending and notification_id (sets)
  cards,       \* history: how often a notification was put on display
  troubles

outside   == <<centre, notes, permission, events, underway, display, probe, wiped>>
noteVars  == <<outside, delivery, failure, capable, feed, card, cards, troubles>>

-----------------------------------------------------------------------------
Note == 1..MaxNotes

(* pollkit::Job: `runs' until Done::send (done), or nothing comes (failed).*)
NoRead == [kind |-> "none", job |-> "idle", result |-> {}]

Closed ==
  [open |-> FALSE, watch |-> "none", status |-> "unknown", access |-> "idle",
   read |-> NoRead, attempted |-> FALSE, retry |-> "none", seen |-> {},
   pending |-> {}, delivery |-> FALSE, failure |-> FALSE]

(* The statics belong to the feed while update runs.                       *)
Feed == [feed EXCEPT !.delivery = delivery, !.failure = failure]

Trouble == troubles < MaxTroubles /\ troubles' = troubles + 1

(* What can fail in an update.                                             *)
Fault == {"unavailable", "start", "subscribe"}

-----------------------------------------------------------------------------
(* Steps of WindowsNotificationFeed::update, in its order.                 *)

(* stop cancels the jobs; schedule_retry; restart_monitor.                 *)
Stopped(f) ==
  [Closed EXCEPT !.status = f.status, !.attempted = f.attempted, !.retry = f.retry]
RetryLater(f) == [f EXCEPT !.attempted = FALSE, !.retry = "waits"]
Restarted(f)  == RetryLater(Stopped(f))

StartRead(f, kind, fault) ==
  IF fault = "start" THEN Restarted(f)
  ELSE [f EXCEPT !.read = [kind |-> kind, job |-> "runs", result |-> {}]]

StartMonitor(f, fault) ==
  StartRead([f EXCEPT !.open = TRUE, !.retry = "none", !.seen = {}, !.pending = {},
                      !.delivery = FALSE, !.failure = FALSE], "baseline", fault)

FinishAccess(f, fault) ==
  LET idle == [f EXCEPT !.access = "idle"] IN
  IF f.access = "granted"
  THEN IF fault = "unavailable" THEN RetryLater(idle) ELSE StartMonitor(idle, fault)
  ELSE IF f.access = "denied" THEN idle
  ELSE IF f.access = "lost" THEN RetryLater(idle)
  ELSE f

(* request_access, unless it was tried.                                    *)
AskAccess(f, fault) ==
  LET asked == [f EXCEPT !.attempted = TRUE] IN
  IF f.open \/ f.access # "idle" \/ f.attempted \/ f.retry = "waits" THEN f
  ELSE IF fault = "unavailable" THEN RetryLater(asked)
  ELSE IF permission = "allowed" THEN StartMonitor(asked, fault)
  ELSE IF permission = "unspecified" THEN [asked EXCEPT !.access = "asked"]
  ELSE asked

(* Faulty: what was there at the start is new.                             *)
SeenAtStartNot(f) == {}
SeenAtStart(f)    == f.seen \cup f.read.result

(* Faulty: what came before the subscription is waited for.                *)
ReconcileNot(f, fault)   == f
Reconcile(f, fault)      == StartRead(f, "reconcile", fault)

(* handle_notification_snapshot: the first one says what is old, and only  *)
(* then the feed subscribes; the others say what is new.                   *)
TakeBaseline(f, fault) ==
  LET known == [f EXCEPT !.read = NoRead, !.seen = SeenAtStart(f),
                         !.delivery = FALSE, !.failure = FALSE] IN
  IF fault = "subscribe" THEN Restarted([known EXCEPT !.status = "down"])
  ELSE Reconcile([known EXCEPT !.watch = events, !.status = "up"], fault)

TakeNews(f) ==
  LET news == f.read.result \ f.seen IN
  [f EXCEPT !.read = NoRead, !.seen = f.read.result,
            !.pending = IF news = {} THEN f.pending ELSE {Max(news)}]

FinishRead(f, fault) ==
  IF f.read.job = "failed" THEN Restarted(f)
  ELSE IF f.read.job # "done" THEN f
  ELSE IF f.read.kind = "baseline" THEN TakeBaseline(f, fault) ELSE TakeNews(f)

(* handle_subscription_error: WNF goes on without the event log.           *)
HandleError(f) ==
  LET taken == [f EXCEPT !.failure = FALSE] IN
  IF ~f.failure \/ f.watch = "wnf" THEN taken
  ELSE Restarted([taken EXCEPT !.status = "down"])

(* read_notifications_when_signaled.                                       *)
ReadWhenSignaled(f, fault) ==
  IF f.watch = "none" \/ f.read.job # "idle" \/ ~f.delivery THEN f
  ELSE StartRead([f EXCEPT !.delivery = FALSE], "event", fault)

Updated(fault) ==
  IF ~(display /\ capable)
  THEN [Stopped(Feed) EXCEPT !.attempted = FALSE, !.retry = "none"]
  ELSE LET answered == FinishAccess(Feed, fault)
           asked    == AskAccess(answered, fault)
           read     == FinishRead(asked, fault)
           checked  == HandleError(read)
       IN  ReadWhenSignaled(checked, fault)

-----------------------------------------------------------------------------
(* CompactOverlay::update in a frame: the feed, then the indicator, which  *)
(* shows what it has got now (Present), later (Defer) or never (Discard).  *)
UpdateFeed(f, state) ==
  LET got  == IF f.open THEN f.pending \cap centre ELSE {}   \* read_notification
      held == IF got = {} THEN card.held ELSE got
  IN
  /\ feed' = [f EXCEPT !.pending = {}, !.delivery = FALSE, !.failure = FALSE]
  /\ delivery' = f.delivery /\ failure' = f.failure
  /\ capable' = (capable /\ f.status # "down")
  /\ card' = IF ~(display /\ capable) \/ state = "Discard" THEN [held |-> {}, shown |-> {}]
             ELSE IF state = "Defer" THEN [held |-> held, shown |-> {}]
             ELSE [held |-> {}, shown |-> IF held = {} THEN card.shown ELSE held]
  /\ cards' = [n \in Note |->
                 cards[n] + IF display /\ capable /\ state = "Present" /\ n \in held THEN 1 ELSE 0]
  /\ UNCHANGED outside

(* dismiss_notification, activate_notification.                            *)
DismissCard ==
  /\ card.shown # {} /\ card' = [card EXCEPT !.shown = {}]
  /\ centre' = IF feed.open THEN centre \ card.shown ELSE centre
  /\ UNCHANGED <<notes, permission, events, underway, display, probe, wiped, delivery, failure,
                 capable, feed, cards, troubles>>

(* The card is shown for five seconds.                                     *)
CardEnds ==
  /\ card.shown # {} /\ card' = [card EXCEPT !.shown = {}]
  /\ UNCHANGED <<outside, delivery, failure, capable, feed, cards, troubles>>

SwitchDisplay ==
  /\ Trouble /\ display' = ~display
  /\ UNCHANGED <<centre, notes, permission, events, underway, probe, wiped, delivery, failure,
                 capable, feed, card, cards>>

-----------------------------------------------------------------------------
(* Other threads.                                                          *)

(* A notification is in the centre before it is signalled.                 *)
Publish ==
  /\ notes < MaxNotes /\ notes' = notes + 1
  /\ centre' = centre \cup {notes'}
  /\ underway' = (underway \/ feed.watch # "none")
  /\ UNCHANGED <<permission, events, display, probe, wiped, delivery, failure, capable, feed,
                 card, cards, troubles>>

(* wnf_notification_callback, event_log_callback.                          *)
SignalDelivery ==
  /\ underway /\ underway' = FALSE /\ delivery' = TRUE
  /\ UNCHANGED <<centre, notes, permission, events, display, probe, wiped, failure, capable,
                 feed, card, cards, troubles>>

SignalFailure ==
  /\ feed.watch # "none" /\ Trouble /\ failure' = TRUE
  /\ UNCHANGED <<outside, delivery, capable, feed, card, cards>>

(* main: the probe of notification events subscribes too, and so resets    *)
(* the signals, in its own thread.                                         *)
ProbeEvents ==
  /\ probe /\ probe' = FALSE
  /\ delivery' = FALSE /\ failure' = FALSE
  /\ wiped' = (delivery \/ failure)
  /\ \/ UNCHANGED <<capable, troubles>>
     \/ Trouble /\ capable' = FALSE
  /\ UNCHANGED <<centre, notes, permission, events, underway, display, feed, card, cards>>

AnswerAccess ==
  /\ feed.access = "asked"
  /\ \/ permission' = "allowed" /\ feed' = [feed EXCEPT !.access = "granted"]
     \/ permission' = "denied" /\ feed' = [feed EXCEPT !.access = "denied"]
     \/ UNCHANGED permission /\ feed' = [feed EXCEPT !.access = "lost"]
  /\ IF feed'.access = "lost" THEN Trouble ELSE UNCHANGED troubles
  /\ UNCHANGED <<centre, notes, events, underway, display, probe, wiped, delivery, failure,
                 capable, card, cards>>

(* The job of start_notification_read.                                     *)
ReadCentre ==
  /\ feed.read.job = "runs"
  /\ \/ feed' = [feed EXCEPT !.read.job = "done", !.read.result = centre]
        /\ UNCHANGED troubles
     \/ feed' = [feed EXCEPT !.read.job = "failed"] /\ Trouble
  /\ UNCHANGED <<outside, delivery, failure, capable, card, cards>>

RetryComes ==
  /\ feed.retry = "waits" /\ feed' = [feed EXCEPT !.retry = "due"]
  /\ UNCHANGED <<outside, delivery, failure, capable, card, cards, troubles>>

-----------------------------------------------------------------------------
NotesInit ==
  /\ centre = {} /\ notes = 0 /\ permission \in {"allowed", "unspecified"}
  /\ events \in {"wnf", "log"} /\ underway = FALSE /\ delivery = FALSE /\ failure = FALSE
  /\ display = TRUE /\ capable = TRUE /\ probe = TRUE /\ wiped = FALSE
  /\ feed = Closed /\ card = [held |-> {}, shown |-> {}]
  /\ cards = [n \in Note |-> 0] /\ troubles = 0

State == {"Present", "Defer", "Discard"}

FeedFrame ==
  \/ /\ UNCHANGED troubles
     /\ \E f \in {Updated("none")}, state \in State : UpdateFeed(f, state)
  \/ /\ Trouble
     /\ \E f \in {Updated(fault) : fault \in Fault}, state \in State : UpdateFeed(f, state)

NotesNext ==
  \/ FeedFrame \/ DismissCard \/ CardEnds \/ SwitchDisplay
  \/ Publish \/ SignalDelivery \/ SignalFailure \/ ProbeEvents
  \/ AnswerAccess \/ ReadCentre \/ RetryComes

NotesSpec ==
  /\ NotesInit /\ [][NotesNext]_noteVars
  /\ WF_noteVars(FeedFrame) /\ WF_noteVars(SignalDelivery) /\ WF_noteVars(ReadCentre)

-----------------------------------------------------------------------------
(* Types: WindowsNotificationFeed, NotificationIndicator, the signals.     *)
NotesTypeOK ==
  /\ centre \subseteq 1..notes /\ notes \in 0..MaxNotes
  /\ feed.watch \in {"none", "wnf", "log"} /\ feed.status \in {"unknown", "up", "down"}
  /\ feed.access \in {"idle", "asked", "granted", "denied", "lost"}
  /\ feed.retry \in {"none", "waits", "due"}
  /\ feed.seen \subseteq 1..notes /\ feed.pending = {}
  /\ card.held \subseteq 1..notes /\ card.shown \subseteq 1..notes

(* A notification is put on display at most once, however often the feed   *)
(* starts over and forgets what it has seen (handle_notification_snapshot).*)
ShownOnce == \A n \in Note : cards[n] <= 1

(* While the feed is subscribed, everything in the centre is seen sooner or*)
(* later, whenever it was published: before, during or after the reads and *)
(* the subscription; unless the probe of main wiped the signal.            *)
NewsIsSeen == []<>(feed.watch # "none" => wiped \/ centre \subseteq feed.seen)
=============================================================================
