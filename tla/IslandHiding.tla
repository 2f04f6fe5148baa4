---------------------------- MODULE IslandHiding ----------------------------
(***************************************************************************)
(* When the island is out of sight, and where it comes back to.  It hides  *)
(* when it is idle, under a full screen program, by the hotkey or a swipe; *)
(* notifications and levels (volume, brightness) bring it back for a while;*)
(* it is dragged, expanded, and moved to other monitors in the meantime.   *)
(* All of this is one thread: events of the window, and frames.            *)
(*                                                                         *)
(* Code: HideState and its users in src/window/app.rs, app/frame.rs, app/  *)
(* input.rs, app/layout.rs, and the indicators of ui/compact.  Geometry is *)
(* reduced to what decides: the spring is home, between or away.           *)
(***************************************************************************)
EXTENDS Naturals

CONSTANTS
  Monitor, Offset,  \* a place is a monitor and config.position_*_offset
  NoPlace,
  MaxActs           \* what users, other programs and plugins do in a run

ASSUME HidingAssumption == NoPlace \notin Monitor \X Offset /\ MaxActs \in Nat

VARIABLES
  app,     \* App: HideState, geom, drags, springs.hide, the overlay
  world,   \* what the frames look at: buttons, foreground, files, signals
  acts

hidingVars == <<app, world, acts>>

Place == Monitor \X Offset

(* geom.win_x and win_y: at a place, or above it at the top of the monitor.*)
At(p)  == [place |-> p, top |-> FALSE]
TopOf(w) == [w EXCEPT !.top = TRUE]

Config == [auto_hide: BOOLEAN, fullscreen_auto_hide: BOOLEAN, full_width: BOOLEAN]

(* spring: 0 is home, 2 is away; what is between passes 0.3 or not.        *)
HidingInit ==
  \E m \in Monitor, o \in Offset :
  /\ app = [auto |-> FALSE, manual |-> FALSE, fullscreen |-> FALSE,
            notification_reveal |-> FALSE, overlay_reveal |-> FALSE, origin |-> NoPlace,
            win |-> At(<<m, o>>), configured |-> <<m, o>>, monitor |-> m, offset |-> o,
            restore |-> FALSE, visible |-> TRUE, expanded |-> FALSE,
            components_hidden |-> FALSE, is_dragging |-> FALSE, drag_axis |-> "none",
            drag_has_moved |-> FALSE, dismissing |-> FALSE, right |-> "up",
            suppressed |-> FALSE, paused |-> FALSE, cursor |-> FALSE, spring |-> 0,
            rested |-> FALSE, notification |-> "none", level |-> "none",
            config |-> [auto_hide |-> TRUE, fullscreen_auto_hide |-> TRUE,
                        full_width |-> FALSE]]
  /\ world = [left |-> "up", right |-> FALSE, full |-> FALSE, cursor |-> FALSE,
              hotkey |-> FALSE, tray |-> FALSE, news |-> {}, keep |-> FALSE,
              monitor |-> m, file |-> app.config]
  /\ acts = 0

-----------------------------------------------------------------------------
(* HideState and the App's helpers                                         *)

HasReason(s) == s.auto \/ s.fullscreen \/ s.manual
Hidden(s) == HasReason(s) /\ ~s.notification_reveal /\ ~s.overlay_reveal

FullscreenHide(s) == s.config.fullscreen_auto_hide /\ s.suppressed /\ ~s.paused

(* Input does not reach the island under a full screen program.            *)
Suppressed(s) == FullscreenHide(s) /\ ~s.overlay_reveal

CanHide(s) == FullscreenHide(s) \/ ~s.config.full_width

Reveal(s) ==
  IF FullscreenHide(s) THEN s
  ELSE [s EXCEPT !.auto = FALSE, !.fullscreen = FALSE, !.manual = FALSE,
                 !.notification_reveal = FALSE, !.overlay_reveal = FALSE,
                 !.rested = FALSE]

(* prepare_hide, once it can hide: the way back is kept.                   *)
PrepareHide(s) ==
  IF s.origin # NoPlace THEN s
  ELSE [s EXCEPT !.origin = s.win.place, !.win = TopOf(s.win)]

(* Faulty: it does not wait for the island to be in sight.                 *)
RestoreAtOnce(s) ==
  IF HasReason(s) \/ s.origin = NoPlace THEN s
  ELSE [s EXCEPT !.win = At(s.origin), !.origin = NoPlace]
RestoreOrigin(s) ==
  IF HasReason(s) \/ s.spring # 0 \/ s.origin = NoPlace THEN s
  ELSE [s EXCEPT !.win = At(s.origin), !.origin = NoPlace]

(* set_configured_window_position.  Faulty: the way back is not changed.   *)
ConfigureWindow(s, p) ==
  [s EXCEPT !.configured = p, !.win = IF s.origin # NoPlace THEN TopOf(At(p)) ELSE At(p)]
Configure(s, p) ==
  IF s.origin # NoPlace
  THEN [s EXCEPT !.configured = p, !.origin = p, !.win = TopOf(At(p))]
  ELSE [s EXCEPT !.configured = p, !.win = At(p)]

Collapse(s) == [s EXCEPT !.expanded = FALSE]
Expand(s) == [(IF HasReason(s) THEN Reveal(s) ELSE s) EXCEPT !.expanded = TRUE]

ApplyFullscreen(s) ==
  IF FullscreenHide(s) = s.fullscreen THEN s
  ELSE IF ~s.fullscreen
       THEN [PrepareHide(s) EXCEPT !.fullscreen = TRUE, !.expanded = FALSE,
                                   !.notification_reveal = FALSE, !.overlay_reveal = FALSE]
       ELSE [s EXCEPT !.fullscreen = FALSE, !.rested = FALSE]

-----------------------------------------------------------------------------
(* The steps of a frame, in the order of on_about_to_wait                  *)

(* What has come due and would change something.                           *)
Due ==
  {t \in {"restore", "reload", "monitor", "check", "fade", "idle", "spring"} :
     CASE t = "restore" -> app.restore
       [] t = "reload"  -> app.config # world.file
       [] t = "monitor" -> app.monitor # world.monitor
       [] t = "check"   -> \/ app.suppressed # world.full \/ app.cursor # world.cursor
                           \/ app.fullscreen # FullscreenHide(app)
       [] t = "fade"    -> app.notification = "shown" \/ app.level = "shown"
       [] t = "idle"    -> ~app.rested
       [] t = "spring"  -> TRUE}

HandleHotkey(s) ==
  IF ~world.hotkey THEN s
  ELSE IF FullscreenHide(s) THEN ApplyFullscreen([s EXCEPT !.paused = TRUE])
  ELSE IF s.paused /\ s.config.fullscreen_auto_hide /\ s.suppressed
       THEN ApplyFullscreen([s EXCEPT !.paused = FALSE])
  ELSE IF Hidden(s) THEN Reveal(s)
  ELSE IF CanHide(s)
       THEN [PrepareHide(s) EXCEPT !.expanded = FALSE, !.manual = TRUE, !.auto = FALSE]
       ELSE s

Reload(s, due) ==
  LET read  == IF "reload" \in due THEN [s EXCEPT !.config = world.file] ELSE s
      there == IF "monitor" \in due
               THEN [read EXCEPT !.monitor = world.monitor, !.restore = TRUE,
                                 !.configured = <<world.monitor, s.offset>>]
               ELSE read
  IN IF Hidden(there) /\ ~CanHide(there) THEN Reveal(there) ELSE there

(* The offset is that of the pointer, whatever became of the button.       *)
RightDrag(s, pull) ==
  IF s.right = "up" \/ pull = s.offset THEN s
  ELSE Configure([s EXCEPT !.right = "dragging", !.offset = pull], <<world.monitor, pull>>)

CheckFullscreen(s, due) ==
  IF "check" \notin due THEN s
  ELSE ApplyFullscreen([s EXCEPT !.suppressed = world.full, !.cursor = world.cursor,
                                 !.paused = s.paused /\ ~(world.full /\ ~s.suppressed)])

(* What an indicator makes of news: shown now, kept, or dropped.           *)
Indicate(card, new, state) ==
  CASE state = "present" -> IF new \/ card = "waiting" THEN "shown" ELSE card
    [] state = "defer"   -> IF new \/ card = "waiting" THEN "waiting" ELSE "none"
    [] state = "discard" -> "none"

Overlay(s, level, notification, news) ==
  [s EXCEPT !.level = Indicate(s.level, "level" \in news, level),
            !.notification = Indicate(s.notification, "notification" \in news, notification)]

OwnHide(s) == s.auto /\ ~s.manual

UpdateOverlay(s, news) ==
  LET present == ~s.expanded /\ ~Hidden(s)
      under   == FullscreenHide(s)
      told == Overlay(s,
                IF present /\ (~under \/ s.overlay_reveal) THEN "present"
                ELSE IF under \/ OwnHide(s) THEN "defer" ELSE "discard",
                IF present /\ ~under THEN "present"
                ELSE IF ~s.expanded /\ HasReason(s) THEN "defer" ELSE "discard",
                news)
  IN IF "notification" \in news /\ ~under /\ HasReason(s) /\ ~s.notification_reveal
     THEN Overlay([told EXCEPT !.notification_reveal = TRUE, !.rested = FALSE],
                  "present", "present", {})
     ELSE IF "level" \in news /\ (under \/ OwnHide(s))
     THEN Overlay([told EXCEPT !.overlay_reveal = under \/ s.overlay_reveal,
                               !.auto = under /\ s.auto, !.rested = FALSE],
                  "present", "present", {})
     ELSE told

OverlayVisible(s) == s.level = "shown" \/ s.notification = "shown"

EndReveals(s) ==
  LET ended == [s EXCEPT
        !.notification_reveal = s.notification_reveal /\ s.notification = "shown",
        !.overlay_reveal = s.overlay_reveal /\ OverlayVisible(s)]
  IN IF ended # s /\ HasReason(s) /\ CanHide(s) THEN PrepareHide(ended) ELSE ended

HideWhenIdle(s, hover) ==
  LET held == world.keep /\ ~s.components_hidden
      idle == /\ ~hover \/ s.components_hidden
              /\ ~s.expanded /\ ~s.is_dragging /\ ~OverlayVisible(s) /\ ~held
  IN IF ~s.config.auto_hide \/ (held /\ OwnHide(s))
     THEN [s EXCEPT !.auto = FALSE, !.rested = FALSE]
     ELSE IF Hidden(s) THEN s
     ELSE IF ~idle THEN [s EXCEPT !.rested = FALSE]
     ELSE IF s.rested /\ CanHide(s) THEN [PrepareHide(s) EXCEPT !.auto = TRUE]
     ELSE s

(* Time has passed: what was on display is over, the delay of idleness too.*)
Passed(s, due) ==
  [s EXCEPT !.rested = @ \/ "idle" \in due,
            !.level = IF "fade" \in due /\ @ = "shown" THEN "none" ELSE @,
            !.notification = IF "fade" \in due /\ @ = "shown" THEN "none" ELSE @]

(* A drag holds the spring of an island in sight.                          *)
Frozen(s) == s.is_dragging /\ ~s.dismissing /\ ~Hidden(s)

(* drag: where the pointer is now, as the axis and how far up.             *)
HideDrag(s, drag, due) ==
  LET axis   == IF s.drag_axis = "none" THEN drag.axis ELSE s.drag_axis
      moved  == [s EXCEPT !.drag_axis = axis,
                          !.drag_has_moved = s.drag_has_moved \/ drag.moved \/ axis # "none"]
      up     == IF axis = "up" /\ drag.reach > 0 /\ CanHide(moved) THEN PrepareHide(moved)
                ELSE moved
      target == IF Hidden(s) THEN 2 ELSE 0
      next   == IF Frozen(s)
                THEN IF axis = "up" /\ up.origin # NoPlace
                     THEN [up EXCEPT !.spring = drag.reach] ELSE up
                ELSE IF "spring" \in due
                THEN [s EXCEPT !.spring = IF @ < target THEN @ + 1
                                          ELSE IF @ > target THEN @ - 1 ELSE @]
                ELSE s
  IN IF Hidden(next) \/ (next.fullscreen /\ next.overlay_reveal) THEN next
     ELSE RestoreOrigin(next)

(* A press outside collapses the island; pressing on it keeps it awake.    *)
CollapseClick(s, hover) ==
  IF FullscreenHide(s) \/ world.left = "up" THEN s
  ELSE IF s.expanded /\ world.left = "outside" /\ ~hover THEN Collapse(s)
  ELSE IF ~s.expanded /\ hover THEN [s EXCEPT !.rested = FALSE] ELSE s

Drag ==
  IF app.is_dragging
  THEN {d \in [axis: {"none", "up", "side"}, moved: BOOLEAN, reach: 0..2] :
          /\ d.axis # "none" => d.moved
          /\ d.reach > 0 => "up" \in {d.axis, app.drag_axis}}
  ELSE {[axis |-> "none", moved |-> FALSE, reach |-> 0]}

(* The part of a frame for a visible window; each step has one outcome.    *)
Seen(s, due) ==
  \E pull \in Offset, double \in BOOLEAN :
  /\ pull = app.offset \/ app.right # "up"
  /\ double => app.suppressed
  /\ \E s1 \in {RightDrag(s, pull)} :
     \E s2 \in {CheckFullscreen(s1, due)} :
     \E s3 \in {IF double /\ s2.suppressed /\ ~FullscreenHide(s2) /\ Hidden(s2)
               THEN Reveal(s2) ELSE s2} :
     \E s4 \in {UpdateOverlay(s3, world.news)} :
     \E s5 \in {EndReveals(s4)} :
     \E aims \in BOOLEAN :
     /\ aims => ~Suppressed(s3) /\ ~s3.cursor
     /\ \E s6 \in {HideWhenIdle(s5, aims)} :
        \E drag \in Drag : \E s7 \in {HideDrag(s6, drag, due)} : app' = CollapseClick(s7, aims)

(* Frames go on while the window is invisible, but see to little.          *)
Frame(due) ==
  /\ \E passed \in {Passed(app, due)} :
     \E restored \in {IF "restore" \in due
                      THEN Configure([passed EXCEPT !.restore = FALSE], passed.configured)
                      ELSE passed} :
     \E heard \in {HandleHotkey([restored EXCEPT !.visible = (@ # world.tray)])} :
     \E s \in {Reload(heard, due)} :
       IF s.visible THEN Seen(s, due) ELSE app' = s
  /\ world' = [world EXCEPT !.hotkey = FALSE, !.tray = FALSE,
                            !.news = IF app'.visible THEN {} ELSE @]
  /\ UNCHANGED acts

-----------------------------------------------------------------------------
(* The mouse, as handle_input and handle_right_input are told of it.  The  *)
(* button belongs to the window where it went down.                        *)

Act == acts < MaxActs /\ acts' = acts + 1

Heard(s) == s.visible /\ ~Suppressed(s) /\ ~s.cursor

DragBegins(s, dismisses) ==
  [s EXCEPT !.is_dragging = TRUE, !.dismissing = dismisses, !.drag_has_moved = FALSE,
            !.drag_axis = "none"]

HandlePress(s) ==
  IF ~s.expanded /\ ~FullscreenHide(s) /\ s.notification = "shown"
  THEN {DragBegins(s, TRUE)}
  ELSE IF FullscreenHide(s) THEN {s}
  ELSE IF s.expanded THEN {s, Collapse(s)}
  ELSE IF Hidden(s) /\ ~s.components_hidden THEN {Reveal(s)}
  ELSE {DragBegins(s, FALSE)}

(* On the slider of a level, or somewhere the window is not.               *)
Press(where) ==
  /\ Act /\ world.left = "up" /\ app.visible
  /\ world' = [world EXCEPT !.left = where]
  /\ IF where = "outside" \/ ~Heard(app) THEN UNCHANGED app
     ELSE \/ app' \in HandlePress(app)
          \/ ~app.expanded /\ app.level = "shown" /\ UNCHANGED app

(* By dx and dy: far to one side, or not.                                  *)
DragEnds(s, gesture) ==
  LET over == [s EXCEPT !.is_dragging = FALSE, !.drag_axis = "none"]
      still == ~s.drag_has_moved \/ (s.components_hidden /\ s.drag_axis = "none")
      tapped == IF Hidden(s) THEN Reveal(over) ELSE Expand(over)
      swiped(up) == [over EXCEPT !.manual = up, !.auto = FALSE, !.fullscreen = FALSE]
  IN IF ~s.expanded /\ s.drag_axis # "up" /\ gesture = "side"
     THEN {[(IF Hidden(s) THEN Reveal(over) ELSE over) EXCEPT
              !.components_hidden = ~@, !.rested = FALSE]}
     ELSE IF s.drag_axis = "side" THEN {over}
     ELSE (IF still THEN {tapped} ELSE {})
          \cup (IF s.drag_has_moved
                THEN {swiped(up) : up \in {u \in BOOLEAN : IF u THEN s.spring > 0
                                                           ELSE s.spring < 2}}
                ELSE {})

HandleRelease(s, gesture) ==
  IF s.dismissing
  THEN LET over == [s EXCEPT !.dismissing = FALSE, !.is_dragging = FALSE,
                             !.drag_axis = "none"]
       IN {[over EXCEPT !.notification = IF @ = "shown" THEN "none" ELSE @], Expand(over)}
  ELSE IF s.is_dragging THEN DragEnds(s, gesture) ELSE {s}

Release(gesture) ==
  /\ Act /\ world.left # "up"
  /\ world' = [world EXCEPT !.left = "up"]
  /\ IF world.left = "island" /\ Heard(app) THEN app' \in HandleRelease(app, gesture)
     ELSE UNCHANGED app

RightHeard(s) ==
  s.visible /\ ~s.expanded /\ ~s.cursor /\ ~(s.suppressed /\ Hidden(s))

RightPress ==
  /\ Act /\ ~world.right
  /\ world' = [world EXCEPT !.right = TRUE]
  /\ app' = IF RightHeard(app) THEN [app EXCEPT !.right = "pressed"] ELSE app

RightRelease ==
  /\ Act /\ world.right
  /\ world' = [world EXCEPT !.right = FALSE]
  /\ app' = IF RightHeard(app) THEN [app EXCEPT !.right = "up"] ELSE app

-----------------------------------------------------------------------------
(* Other programs, the keyboard, the tray, the settings and the plugins    *)

(* What happens to the world shows in the next frame that looks.           *)
Happens(what, to) ==
  /\ Act /\ to # world[what]
  /\ world' = [world EXCEPT ![what] = to] /\ UNCHANGED app

OtherProgram ==
  \/ Happens("full", ~world.full)
  \/ Happens("cursor", ~world.cursor)
  \/ \E n \in {"notification", "level"} : Happens("news", world.news \cup {n})
  \/ \E m \in Monitor : Happens("monitor", m)
  \/ Happens("keep", ~world.keep)

(* poll_hotkey_presses counts by two.                                      *)
User ==
  \/ Happens("hotkey", ~world.hotkey)
  \/ Happens("tray", TRUE)
  \/ \E f \in DOMAIN world.file : Happens("file", [world.file EXCEPT ![f] = ~@])

(* ShowPage, winisland.expand and winisland.collapse do not ask what hides.*)
PluginAsks ==
  /\ Act /\ UNCHANGED world
  /\ app' \in {[app EXCEPT !.expanded = TRUE, !.rested = FALSE], Collapse(app)}

HidingNext ==
  \/ \E due \in SUBSET Due : Frame(due)
  \/ \E where \in {"island", "outside"} : Press(where)
  \/ \E gesture \in {"side", "stay"} : Release(gesture)
  \/ RightPress \/ RightRelease \/ OtherProgram \/ User \/ PluginAsks

(* Frames go on, at the latest 100 ms apart, and what is due is seen to.   *)
HidingSpec ==
  HidingInit /\ [][HidingNext]_hidingVars /\ WF_hidingVars(Frame(Due))

-----------------------------------------------------------------------------
(* Whatever hides the island, the way back is known, in every step of a    *)
(* swipe, a reveal and a return (prepare_hide, restore_hide_origin).       *)
WayBackIsKept == HasReason(app) \/ app.spring > 0 => app.origin # NoPlace

(* In the end the island is where it belongs.  Once nothing hides it and   *)
(* nothing drags it, it is back for good, on the monitor and at the offset *)
(* it has by then; and what keeps on hiding it prevails over notifications,*)
(* levels, drags and plugins (update_hide_drag, restore_hide_origin).      *)
EndsWhereItBelongs ==
  /\ <>[](app.visible /\ ~HasReason(app) /\ ~app.is_dragging)
       => <>[](/\ app.spring = 0 /\ app.origin = NoPlace
               /\ app.win = At(<<world.monitor, app.offset>>))
  /\ <>[](app.visible /\ HasReason(app)) => <>[](Hidden(app) /\ app.spring = 2)
=============================================================================
