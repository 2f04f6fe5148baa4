----------------------------- MODULE PluginInput -----------------------------
(***************************************************************************)
(* The pointer, the keyboard and the timers of a plugin's widgets.  The UI *)
(* thread says in every frame which widgets it draws, and where; the host  *)
(* routes input by it, remembers who holds capture, focus and hover, and   *)
(* tells the plugin of every change by an event; a timer may run only while*)
(* its widget is drawn.                                                    *)
(*                                                                         *)
(* Code: crates/winisland-plugin-host/src/extensions/input.rs,             *)
(* extensions.rs and services/extensions.rs, and route_plugin_input of     *)
(* src/window/app/plugins.rs.  One plugin, with at most one subscription,  *)
(* one region and one visible-only timer for a widget; where widgets lie is*)
(* left out: the pointer may hit any that is drawn.  The order of the queue*)
(* is PluginExtensions' concern.                                           *)
(***************************************************************************)
EXTENDS Naturals, FiniteSets, FiniteSetsExt

CONSTANTS
  Widget,      \* the widgets of the plugin
  Periodic,    \* those whose timer has an interval
  Code,        \* the codes of buttons, 0 (capture_button at first) not among them
  MaxPending,  \* MAX_PENDING
  MaxCalls     \* what the user does, the calls of the plugin, and frames

ASSUME PluginInputAssumption ==
  /\ IsFiniteSet(Widget) /\ Periodic \subseteq Widget
  /\ 0 \notin Code
  /\ MaxPending \in Nat \ {0} /\ MaxCalls \in Nat

VARIABLES
  live,        \* the widgets that are not released
  presented,   \* State.presentations
  drawing,     \* a frame being drawn: [known, next], in a set of at most one
  regions,     \* State.regions: the flags of a widget's region ({}: none)
  subscribed,  \* widgets with a callback for EVENT_INPUT
  router,      \* the rest of State
  timers,      \* the deadlines
  loops,       \* where the plugin's worker is
  alarm,       \* the timers that its park_timeout counts on
  calls

pluginSide == <<live, regions, subscribed>>
timerSide  == <<timers, loops, alarm>>
inputVars  == <<pluginSide, presented, drawing, router, timerSide, calls>>

-----------------------------------------------------------------------------
(* An Option is a set of at most one.                                      *)
Option(S) == {{}} \cup {{x} : x \in S}

Flags == {{}, {"pointer"}, {"scroll"}, {"pointer", "keyboard", "press"}}
Hold  == {"capture", "focus", "hover"}
Mode  == {"hidden", "passive", "interactive"}

CountCall == calls < MaxCalls /\ calls' = calls + 1

(* `informed' is history: what the events say that a widget holds.  So is  *)
(* `missed': widgets an event for which was not queued, or was purged.     *)
Router ==
  [capture : Option(Widget), focus : Option(Widget), hover : Option(Widget),
   button : Code \cup {0}, inputs : [Widget -> 0..MaxPending],
   ticks : [Widget -> 0..MaxPending], permit : BOOLEAN,
   informed : [Widget -> SUBSET Hold], missed : SUBSET Widget]

Interactive == {w \in Widget : presented[w] = "interactive"}
Drawn(p)  == {w \in Widget : p[w] # "hidden"}

Queued(s) == MapThenSumSet(LAMBDA w : s.inputs[w] + s.ticks[w], Widget)
Full(s)   == Queued(s) >= MaxPending

-----------------------------------------------------------------------------
(* State::send_input: to the subscriber, if there is one, and its queue has*)
(* room.  Enqueuing unparks the worker.                                    *)

Deaf(s, w) == w \notin subscribed \/ Full(s)

(* That a widget holds something from now on, or no longer.                *)
Inform(s, option, what, holds) ==
  IF option = {} THEN s
  ELSE LET w == CHOOSE w \in option : TRUE IN
    IF Deaf(s, w) THEN [s EXCEPT !.missed = @ \cup {w}]
    ELSE [s EXCEPT !.inputs[w] = @ + 1, !.permit = TRUE,
                   !.informed[w] = IF holds THEN @ \cup {what} ELSE @ \ {what}]

(* Moves, wheels, keys, buttons: they change nothing that is held.  A move *)
(* takes the place of one at the end of the queue (~grows).                *)
Forwarded(s, option, grows) ==
  IF option = {} THEN s
  ELSE LET w == CHOOSE w \in option : TRUE IN
    IF w \notin subscribed \/ (grows /\ Full(s)) THEN s
    ELSE [s EXCEPT !.inputs[w] = IF grows THEN @ + 1 ELSE @, !.permit = TRUE]

Accepts(w, flag) == w \in subscribed /\ flag \in regions[w]

(* State::cancel_missing.  Faulty: without what it takes to be told.       *)
CancelSilently(s, what, active, flag) ==
  IF \A w \in s[what] : w \in active /\ Accepts(w, flag) THEN s
  ELSE [s EXCEPT ![what] = {}]
Cancel(s, what, active, flag) ==
  IF \A w \in s[what] : w \in active /\ Accepts(w, flag) THEN s
  ELSE [Inform(s, s[what], what, FALSE) EXCEPT ![what] = {}]
CancelMissing(s, active) ==
  Cancel(Cancel(Cancel(s, "capture", active, "pointer"),
                "focus", active, "keyboard"), "hover", active, "pointer")

-----------------------------------------------------------------------------
(* route_input, which begins with cancel_missing.  `hit' is what is under  *)
(* the pointer and takes this kind of input.                               *)

Hits(flag) == Option({w \in Interactive : Accepts(w, flag)})

Current == CancelMissing(router, Interactive)

(* Hover and focus: the old one is told that it is over, the new one that  *)
(* it begins.                                                              *)
Turn(s, what, next) ==
  IF s[what] = next THEN s
  ELSE [Inform(Inform(s, s[what], what, FALSE), next, what, TRUE) EXCEPT ![what] = next]

Pressed(s, code, hit) ==
  IF s.capture # {} THEN Forwarded(s, s.capture, TRUE)
  ELSE LET focused == Turn(s, "focus", {w \in hit : "keyboard" \in regions[w]})
           caught  == {w \in hit : "press" \in regions[w]} IN
    IF caught = {} THEN Forwarded(focused, hit, TRUE)
    ELSE [Inform(focused, caught, "capture", TRUE) EXCEPT !.capture = caught, !.button = code]

Pointed(s, hit) == IF s.capture # {} THEN s.capture ELSE hit

Released(s, code, hit) ==
  IF s.capture # {} /\ code = s.button
  THEN [Inform(s, s.capture, "capture", FALSE) EXCEPT !.capture = {}]
  ELSE Forwarded(s, Pointed(s, hit), TRUE)

(* Events come between frames, on the thread that draws them.              *)
Routed(s) ==
  /\ drawing = {} /\ CountCall /\ router' = s
  /\ UNCHANGED <<pluginSide, presented, drawing, timerSide>>

MovePointer ==
  \E hit \in Hits("pointer"), grows \in BOOLEAN :
    LET s == Turn(Current, "hover", hit)
        target == Pointed(s, hit) IN
    /\ \A w \in target : ~grows => s.inputs[w] > 0
    /\ Routed(Forwarded(s, target, grows))
LeavePointer == Routed(Turn(Current, "hover", {}))
PressButton   == \E code \in Code, hit \in Hits("pointer") : Routed(Pressed(Current, code, hit))
ReleaseButton == \E code \in Code, hit \in Hits("pointer") : Routed(Released(Current, code, hit))
TurnWheel == \E hit \in Hits("scroll") : Routed(Forwarded(Current, hit, TRUE))
TypeKey   == Routed(Forwarded(Current, Current.focus, TRUE))

(* The window loses the keyboard, or the island is hidden: both become a   *)
(* BLUR or CANCEL that ends everything.                                    *)
LoseWindow == Routed(CancelMissing(Current, {}))

(* input_state, in update_plugins.                                         *)
InputState ==
  /\ drawing = {} /\ router' = Current
  /\ UNCHANGED <<pluginSide, presented, drawing, timerSide, calls>>

-----------------------------------------------------------------------------
(* A frame: begin_frame, present for every widget that is on the page, of  *)
(* those there were when it began, and finish_frame.                       *)

Nowhere == [w \in Widget |-> "hidden"]

BeginDrawing ==
  /\ drawing = {} /\ CountCall /\ drawing' = {[known |-> live, next |-> Nowhere]}
  /\ UNCHANGED <<pluginSide, presented, router, timerSide>>

Present ==
  \E d \in drawing : \E w \in d.known : \E m \in Mode \ {"hidden"} :
    /\ d.next[w] = "hidden"
    /\ drawing' = {[d EXCEPT !.next[w] = m]}
    /\ UNCHANGED <<pluginSide, presented, router, timerSide, calls>>

(* Faulty: nobody wakes the workers.                                       *)
NoneUnparked(s, next) == s
Unparked(s, next) ==
  IF Drawn(presented) = Drawn(next) THEN s ELSE [s EXCEPT !.permit = TRUE]

Finished(next) ==
  /\ presented' = next
  /\ router' = Unparked(CancelMissing(router, {w \in Widget : next[w] = "interactive"}), next)
  /\ drawing' = {}
  /\ UNCHANGED <<pluginSide, timerSide, calls>>

FinishFrame == \E d \in drawing : Finished(d.next)

(* clear_presentations: the island is hidden.                              *)
ClearPresentations == drawing = {} /\ Finished(Nowhere)

-----------------------------------------------------------------------------
(* The plugin's calls, from its worker or a thread of its own.             *)

SetRegions ==
  \E w \in live, F \in Flags :
    /\ CountCall /\ regions' = [regions EXCEPT ![w] = F]
    /\ UNCHANGED <<live, subscribed, presented, drawing, router, timerSide>>

ReleaseCapture ==
  \E w \in live :
    /\ CountCall
    /\ router' = IF w \in router.capture
                 THEN [Inform(router, {w}, "capture", FALSE) EXCEPT !.capture = {}] ELSE router
    /\ UNCHANGED <<pluginSide, presented, drawing, timerSide>>

Subscribe ==
  \E w \in live \ subscribed :
    /\ CountCall /\ subscribed' = subscribed \cup {w}
    /\ UNCHANGED <<live, regions, presented, drawing, router, timerSide>>

(* release_event: what is queued for it goes.                              *)
Unsubscribe ==
  \E w \in subscribed :
    /\ CountCall /\ subscribed' = subscribed \ {w}
    /\ router' = [router EXCEPT !.inputs[w] = 0, !.permit = TRUE,
                  !.missed = IF router.inputs[w] = 0 THEN @ ELSE @ \cup {w}]
    /\ UNCHANGED <<live, regions, presented, drawing, timerSide>>

(* Releasing a widget: remove_target counts passive widgets as active.     *)
ReleaseWidget ==
  \E w \in live :
    LET left == [presented EXCEPT ![w] = "hidden"] IN
    /\ CountCall /\ live' = live \ {w}
    /\ presented' = left
    /\ drawing' = {[d EXCEPT !.next[w] = "hidden"] : d \in drawing}
    /\ regions' = [regions EXCEPT ![w] = {}]
    /\ timers' = [timers EXCEPT ![w] = "none"]
    /\ router' = CancelMissing(router, Drawn(left))
    /\ UNCHANGED <<subscribed, loops, alarm>>

CreateTimer ==
  \E w \in live :
    /\ timers[w] = "none" /\ CountCall
    /\ timers' = [timers EXCEPT ![w] = "set"]
    /\ router' = [router EXCEPT !.permit = TRUE]
    /\ UNCHANGED <<pluginSide, presented, drawing, loops, alarm>>

-----------------------------------------------------------------------------
(* The worker of the plugin: dispatch, wait_duration, park_timeout.        *)

Due == {w \in Widget : timers[w] = "due" /\ w \in Drawn(presented)}

TimePasses ==
  \E w \in Widget :
    /\ timers[w] = "set" /\ timers' = [timers EXCEPT ![w] = "due"]
    /\ UNCHANGED <<pluginSide, presented, drawing, router, loops, alarm, calls>>

(* An event that finds the queue full is lost, and its deadline is over:   *)
(* of the events of those that are due, as many are queued as find room.   *)
Ticked(s, found) ==
  [s EXCEPT !.ticks = [w \in Widget |-> IF w \in found THEN @[w] + 1 ELSE @[w]],
            !.permit = @ \/ found # {}]

Dispatch ==
  /\ loops = "dispatch" /\ loops' = "deliver"
  /\ timers' = [w \in Widget |-> IF w \notin Due THEN timers[w]
                                 ELSE IF w \in Periodic THEN "set" ELSE "none"]
  /\ \E found \in SUBSET Due :
       /\ Cardinality(found) = Min({Cardinality(Due), MaxPending - Queued(router)})
       /\ router' = Ticked(router, found)
  /\ UNCHANGED <<pluginSide, presented, drawing, alarm, calls>>

Deliver ==
  /\ loops = "deliver" /\ Queued(router) > 0
  /\ \E w \in Widget :
       \/ router.inputs[w] > 0 /\ router' = [router EXCEPT !.inputs[w] = @ - 1]
       \/ router.ticks[w] > 0 /\ router' = [router EXCEPT !.ticks[w] = @ - 1]
  /\ UNCHANGED <<pluginSide, presented, drawing, timerSide, calls>>

(* wait_duration, once the queue is found empty; an event can still come   *)
(* before it looks.  It skips the timers of hidden widgets.                *)
Measure ==
  /\ loops = "deliver"
  /\ IF Queued(router) > 0 \/ Due # {}
     THEN loops' = "dispatch" /\ UNCHANGED alarm
     ELSE /\ loops' = "park"
          /\ alarm' = {w \in Drawn(presented) : timers[w] # "none"}
  /\ UNCHANGED <<pluginSide, presented, drawing, router, timers, calls>>

WakeWorker ==
  /\ loops = "park" /\ loops' = "dispatch" /\ alarm' = {}
  /\ router.permit \/ \E w \in alarm : timers[w] = "due"
  /\ router' = [router EXCEPT !.permit = FALSE]
  /\ UNCHANGED <<pluginSide, presented, drawing, timers, calls>>

InputWorker == Dispatch \/ Deliver \/ Measure \/ WakeWorker

-----------------------------------------------------------------------------
(* The plugin made its widgets and their regions when it was created; its  *)
(* worker starts after that.                                               *)
InputInit ==
  /\ live = Widget /\ presented = Nowhere /\ drawing = {}
  /\ regions = [w \in Widget |-> {"pointer", "keyboard", "press"}]
  /\ subscribed = Widget
  /\ router = [capture |-> {}, focus |-> {}, hover |-> {}, button |-> 0,
               inputs |-> [w \in Widget |-> 0], ticks |-> [w \in Widget |-> 0],
               permit |-> FALSE, informed |-> [w \in Widget |-> {}], missed |-> {}]
  /\ timers = [w \in Widget |-> "none"] /\ loops = "dispatch" /\ alarm = {}
  /\ calls = 0

UserInput   == \/ MovePointer \/ LeavePointer \/ PressButton \/ ReleaseButton
               \/ TurnWheel \/ TypeKey \/ LoseWindow \/ InputState
DrawFrame   == BeginDrawing \/ Present \/ FinishFrame \/ ClearPresentations
PluginCalls == \/ SetRegions \/ ReleaseCapture \/ Subscribe \/ Unsubscribe
               \/ ReleaseWidget \/ CreateTimer

InputNext == UserInput \/ DrawFrame \/ PluginCalls \/ TimePasses \/ InputWorker

InputSpec == InputInit /\ [][InputNext]_inputVars /\ WF_inputVars(InputWorker)

-----------------------------------------------------------------------------
InputTypeOK ==
  /\ live \subseteq Widget /\ subscribed \subseteq Widget
  /\ presented \in [Widget -> Mode]
  /\ drawing \in Option([known : SUBSET Widget, next : [Widget -> Mode]])
  /\ regions \in [Widget -> Flags]
  /\ router \in Router
  /\ timers \in [Widget -> {"none", "set", "due"}]
  /\ loops \in {"dispatch", "deliver", "park"}
  /\ alarm \subseteq Widget
  /\ calls \in 0..MaxCalls

(* What the events queued for a widget say it holds (capture after a DOWN, *)
(* until UP or CANCEL; focus after FOCUS, until BLUR; the pointer after    *)
(* ENTER, until LEAVE) is what the host routes by, unless one of them was  *)
(* lost.  Regions, subscriptions, presentations and widgets go at any time,*)
(* in the middle of a frame or of a press.                                 *)
ToldTruth ==
  \A w \in subscribed \ router.missed :
    router.informed[w] = {what \in Hold : w \in router[what]}

(* A timer that is due, of a widget that stays on screen, fires: the worker*)
(* slept without it while the widget was hidden.                           *)
VisibleTimersFire ==
  \A w \in Widget : []<>~(timers[w] = "due" /\ w \in Drawn(presented))
=============================================================================
