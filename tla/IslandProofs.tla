---------------------------- MODULE IslandProofs ----------------------------
(***************************************************************************)
(* The island: for any monitors and offsets, the way back of an island that*)
(* is hidden, or not quite back, is known at every step; for any number of *)
(* notifications and failures, none of them is shown twice.                *)
(***************************************************************************)
EXTENDS IslandHiding, Notifications, WellFoundedInduction, TLAPS

Fields ==
  {"auto", "manual", "fullscreen", "notification_reveal", "overlay_reveal", "origin", "win",
   "configured", "monitor", "offset", "restore", "visible", "expanded", "components_hidden",
   "is_dragging", "drag_axis", "drag_has_moved", "dismissing", "right", "suppressed", "paused",
   "cursor", "spring", "rested", "notification", "level", "config"}

(* What is known of the state between any two steps of a frame.            *)
Sound(s) ==
  /\ DOMAIN s = Fields
  /\ s.origin \in Place \cup {NoPlace} /\ s.configured \in Place
  /\ s.win \in [place : Place, top : BOOLEAN]
  /\ s.monitor \in Monitor /\ s.offset \in Offset /\ s.spring \in 0..2
  /\ HasReason(s) \/ s.spring > 0 => s.origin # NoPlace

-----------------------------------------------------------------------------
LEMMA RevealSound == ASSUME NEW s, Sound(s) PROVE Sound(Reveal(s))
  BY DEF Sound, HasReason, Fields, Reveal

LEMMA PrepareSound ==
  ASSUME NEW s, Sound(s)
  PROVE  Sound(PrepareHide(s)) /\ PrepareHide(s).origin # NoPlace
  BY HidingAssumption DEF Sound, HasReason, Fields, PrepareHide, TopOf, Place

LEMMA RestoreSound == ASSUME NEW s, Sound(s) PROVE Sound(RestoreOrigin(s))
  BY DEF Sound, HasReason, Fields, RestoreOrigin, At

LEMMA ConfigureSound ==
  ASSUME NEW s, Sound(s), NEW p \in Place PROVE Sound(Configure(s, p))
  BY HidingAssumption DEF Sound, HasReason, Fields, Configure, TopOf, At, Place

LEMMA ExpandSound ==
  ASSUME NEW s, Sound(s) PROVE Sound(Expand(s)) /\ Sound(Collapse(s))
<1>1. PICK t : t = IF HasReason(s) THEN Reveal(s) ELSE s
  OBVIOUS
<1>2. Sound(t)
  BY <1>1, RevealSound
<1>3. Sound([t EXCEPT !.expanded = TRUE])
  BY <1>2 DEF Sound, HasReason, Fields
<1> QED BY <1>1, <1>3 DEF Expand, Collapse, Sound, HasReason, Fields

LEMMA ApplySound == ASSUME NEW s, Sound(s) PROVE Sound(ApplyFullscreen(s))
<1>1. PICK t : t = PrepareHide(s)
  OBVIOUS
<1>2. Sound(t) /\ t.origin # NoPlace
  BY <1>1, PrepareSound
<1>3. Sound([t EXCEPT !.fullscreen = TRUE, !.expanded = FALSE,
                      !.notification_reveal = FALSE, !.overlay_reveal = FALSE])
  BY <1>2 DEF Sound, HasReason, Fields
<1>4. Sound([s EXCEPT !.fullscreen = FALSE, !.rested = FALSE])
  BY DEF Sound, HasReason, Fields
<1> QED BY <1>1, <1>3, <1>4 DEF ApplyFullscreen

LEMMA HotkeySound == ASSUME NEW s, Sound(s) PROVE Sound(HandleHotkey(s))
<1>1. \A b \in BOOLEAN : Sound(ApplyFullscreen([s EXCEPT !.paused = b]))
  <2> SUFFICES ASSUME NEW b \in BOOLEAN PROVE Sound(ApplyFullscreen([s EXCEPT !.paused = b]))
    OBVIOUS
  <2>1. Sound([s EXCEPT !.paused = b])
    BY DEF Sound, HasReason, Fields
  <2> QED BY <2>1, ApplySound
<1>2. PICK t : t = PrepareHide(s)
  OBVIOUS
<1>3. Sound(t) /\ t.origin # NoPlace
  BY <1>2, PrepareSound
<1>4. Sound([t EXCEPT !.expanded = FALSE, !.manual = TRUE, !.auto = FALSE])
  BY <1>3 DEF Sound, HasReason, Fields
<1> QED BY <1>1, <1>2, <1>4, RevealSound DEF HandleHotkey

LEMMA ReloadSound ==
  ASSUME NEW s, Sound(s), NEW due, world.monitor \in Monitor PROVE Sound(Reload(s, due))
<1>1. PICK read : read = IF "reload" \in due THEN [s EXCEPT !.config = world.file] ELSE s
  OBVIOUS
<1>2. Sound(read)
  BY <1>1 DEF Sound, HasReason, Fields
<1>3. <<world.monitor, s.offset>> \in Place
  BY DEF Sound, Place
<1>4. PICK there : there =
        IF "monitor" \in due
        THEN [read EXCEPT !.monitor = world.monitor, !.restore = TRUE,
                          !.configured = <<world.monitor, s.offset>>]
        ELSE read
  OBVIOUS
<1>5. Sound(there)
  BY <1>2, <1>3, <1>4 DEF Sound, HasReason, Fields
<1>6. Reload(s, due) = IF Hidden(there) /\ ~CanHide(there) THEN Reveal(there) ELSE there
  BY <1>1, <1>4 DEF Reload
<1> QED BY <1>5, <1>6, RevealSound

LEMMA RightDragSound ==
  ASSUME NEW s, Sound(s), NEW pull \in Offset, world.monitor \in Monitor
  PROVE  Sound(RightDrag(s, pull))
<1>1. Sound([s EXCEPT !.right = "dragging", !.offset = pull])
  BY DEF Sound, HasReason, Fields
<1>2. <<world.monitor, pull>> \in Place
  BY DEF Place
<1> QED BY <1>1, <1>2, ConfigureSound DEF RightDrag

LEMMA CheckSound == ASSUME NEW s, Sound(s), NEW due PROVE Sound(CheckFullscreen(s, due))
<1>1. Sound([s EXCEPT !.suppressed = world.full, !.cursor = world.cursor,
                      !.paused = s.paused /\ ~(world.full /\ ~s.suppressed)])
  BY DEF Sound, HasReason, Fields
<1> QED BY <1>1, ApplySound DEF CheckFullscreen

LEMMA OverlaySound ==
  ASSUME NEW s, Sound(s), NEW level, NEW notification, NEW news
  PROVE  Sound(Overlay(s, level, notification, news))
  BY DEF Sound, HasReason, Fields, Overlay

LEMMA UpdateOverlaySound ==
  ASSUME NEW s, Sound(s), NEW news PROVE Sound(UpdateOverlay(s, news))
<1> DEFINE present == ~s.expanded /\ ~Hidden(s)
           under   == FullscreenHide(s)
           level   == IF present /\ (~under \/ s.overlay_reveal) THEN "present"
                      ELSE IF under \/ OwnHide(s) THEN "defer" ELSE "discard"
           notification == IF present /\ ~under THEN "present"
                           ELSE IF ~s.expanded /\ HasReason(s) THEN "defer" ELSE "discard"
           told == Overlay(s, level, notification, news)
           revealed == [told EXCEPT !.notification_reveal = TRUE, !.rested = FALSE]
           shown == [told EXCEPT !.overlay_reveal = under \/ s.overlay_reveal,
                                 !.auto = under /\ s.auto, !.rested = FALSE]
<1>1. Sound(told) /\ told.origin = s.origin
  BY OverlaySound DEF Sound, Fields, Overlay
<1>2. UpdateOverlay(s, news) =
        IF "notification" \in news /\ ~under /\ HasReason(s) /\ ~s.notification_reveal
        THEN Overlay(revealed, "present", "present", {})
        ELSE IF "level" \in news /\ (under \/ OwnHide(s))
        THEN Overlay(shown, "present", "present", {})
        ELSE told
  BY DEF UpdateOverlay
<1>3. told.manual = s.manual /\ told.fullscreen = s.fullscreen /\ told.auto = s.auto
  BY DEF Overlay, Sound, Fields
<1> HIDE DEF told, present, under, level, notification
<1>4. Sound(revealed) /\ Sound(shown)
  BY <1>1, <1>3 DEF Sound, HasReason, Fields
<1> HIDE DEF revealed, shown
<1> QED BY <1>1, <1>2, <1>4, OverlaySound

LEMMA EndRevealsSound == ASSUME NEW s, Sound(s) PROVE Sound(EndReveals(s))
<1>1. Sound([s EXCEPT
        !.notification_reveal = s.notification_reveal /\ s.notification = "shown",
        !.overlay_reveal = s.overlay_reveal /\ OverlayVisible(s)])
  BY DEF Sound, HasReason, Fields
<1> QED BY <1>1, PrepareSound DEF EndReveals

LEMMA IdleSound == ASSUME NEW s, Sound(s), NEW hover PROVE Sound(HideWhenIdle(s, hover))
<1>1. Sound([s EXCEPT !.auto = FALSE, !.rested = FALSE]) /\ Sound([s EXCEPT !.rested = FALSE])
  BY DEF Sound, HasReason, Fields
<1>2. PICK t : t = PrepareHide(s)
  OBVIOUS
<1>3. Sound(t) /\ t.origin # NoPlace
  BY <1>2, PrepareSound
<1>4. Sound([t EXCEPT !.auto = TRUE])
  BY <1>3 DEF Sound, HasReason, Fields
<1> QED BY <1>1, <1>2, <1>4 DEF HideWhenIdle

LEMMA PassedSound == ASSUME NEW s, Sound(s), NEW due PROVE Sound(Passed(s, due))
  BY DEF Sound, HasReason, Fields, Passed

(* The spring leaves home for a hidden island, or one whose way back the   *)
(* drag has just kept; only a spring that is home gives the way back up.   *)
LEMMA HideDragSound ==
  ASSUME NEW s, Sound(s), NEW drag, drag.reach \in 0..2, NEW due
  PROVE  Sound(HideDrag(s, drag, due))
<1> DEFINE axis   == IF s.drag_axis = "none" THEN drag.axis ELSE s.drag_axis
           moved  == [s EXCEPT !.drag_axis = axis,
                          !.drag_has_moved = s.drag_has_moved \/ drag.moved \/ axis # "none"]
           up     == IF axis = "up" /\ drag.reach > 0 /\ CanHide(moved) THEN PrepareHide(moved)
                     ELSE moved
           target == IF Hidden(s) THEN 2 ELSE 0
           held   == IF axis = "up" /\ up.origin # NoPlace
                     THEN [up EXCEPT !.spring = drag.reach] ELSE up
           free   == IF "spring" \in due
                     THEN [s EXCEPT !.spring = IF @ < target THEN @ + 1
                                               ELSE IF @ > target THEN @ - 1 ELSE @]
                     ELSE s
           next   == IF Frozen(s) THEN held ELSE free
<1>1. Sound(moved)
  BY DEF Sound, HasReason, Fields
<1>2. Sound(up)
  <2> HIDE DEF moved, axis
  <2> QED BY <1>1, PrepareSound
<1>3. Sound(held)
  <2> HIDE DEF up, axis
  <2> QED BY <1>2 DEF Sound, HasReason, Fields
<1>4. Sound(free)
  BY DEF Sound, HasReason, Fields, Hidden
<1>5. HideDrag(s, drag, due) =
        IF Hidden(next) \/ (next.fullscreen /\ next.overlay_reveal) THEN next
        ELSE RestoreOrigin(next)
  BY DEF HideDrag
<1> HIDE DEF held, free
<1> QED BY <1>3, <1>4, <1>5, RestoreSound

LEMMA CollapseClickSound ==
  ASSUME NEW s, Sound(s), NEW hover PROVE Sound(CollapseClick(s, hover))
<1>1. Sound([s EXCEPT !.rested = FALSE])
  BY DEF Sound, HasReason, Fields
<1> QED BY <1>1, ExpandSound DEF CollapseClick

-----------------------------------------------------------------------------
LEMMA PressSound == ASSUME NEW s, Sound(s), NEW t \in HandlePress(s) PROVE Sound(t)
<1>1. \A b \in BOOLEAN : Sound(DragBegins(s, b))
  BY DEF Sound, HasReason, Fields, DragBegins
<1>2. t \in {DragBegins(s, TRUE), DragBegins(s, FALSE), s, Collapse(s), Reveal(s)}
  BY DEF HandlePress
<1> QED BY <1>1, <1>2, ExpandSound, RevealSound

(* A swipe hides the island only from where the spring has left home.      *)
LEMMA DragEndsSound ==
  ASSUME NEW s, Sound(s), NEW gesture, NEW t \in DragEnds(s, gesture) PROVE Sound(t)
<1> DEFINE over == [s EXCEPT !.is_dragging = FALSE, !.drag_axis = "none"]
           tapped == IF Hidden(s) THEN Reveal(over) ELSE Expand(over)
           swiped(up) == [over EXCEPT !.manual = up, !.auto = FALSE, !.fullscreen = FALSE]
           shown == IF Hidden(s) THEN Reveal(over) ELSE over
           side == [shown EXCEPT !.components_hidden = ~@, !.rested = FALSE]
           ups == {u \in BOOLEAN : IF u THEN s.spring > 0 ELSE s.spring < 2}
<1>1. Sound(over) /\ over.spring = s.spring
  BY DEF Sound, HasReason, Fields
<1>2. \A up \in ups : Sound(swiped(up))
  <2>1. \A up \in ups : up \in BOOLEAN /\ (up => s.spring > 0)
    OBVIOUS
  <2> HIDE DEF ups
  <2>2. ASSUME NEW up \in ups PROVE Sound(swiped(up))
    <3>1. up \in BOOLEAN /\ (up => s.spring > 0)
      BY <2>1
    <3> QED BY <3>1 DEF Sound, HasReason, Fields
  <2> QED BY <2>2
<1>3. t \in {side, over, tapped} \cup {swiped(up) : up \in ups}
  <2> HIDE DEF tapped, side, over, swiped, ups
  <2>1. DragEnds(s, gesture) =
          IF ~s.expanded /\ s.drag_axis # "up" /\ gesture = "side"
          THEN {side}
          ELSE IF s.drag_axis = "side" THEN {over}
          ELSE (IF ~s.drag_has_moved \/ (s.components_hidden /\ s.drag_axis = "none")
                THEN {tapped} ELSE {})
               \cup (IF s.drag_has_moved THEN {swiped(up) : up \in ups} ELSE {})
    BY DEF DragEnds, tapped, side, over, swiped, ups
  <2> QED BY <2>1
<1> HIDE DEF over, ups
<1>4. Sound(tapped) /\ Sound(shown)
  BY <1>1, RevealSound, ExpandSound
<1> HIDE DEF tapped, shown
<1>5. Sound(side)
  BY <1>4 DEF Sound, HasReason, Fields
<1> HIDE DEF side, swiped
<1> QED BY <1>1, <1>2, <1>3, <1>4, <1>5

LEMMA ReleaseSound ==
  ASSUME NEW s, Sound(s), NEW gesture, NEW t \in HandleRelease(s, gesture) PROVE Sound(t)
<1> DEFINE over == [s EXCEPT !.dismissing = FALSE, !.is_dragging = FALSE, !.drag_axis = "none"]
           gone == [over EXCEPT !.notification = IF @ = "shown" THEN "none" ELSE @]
<1>1. Sound(over)
  BY DEF Sound, HasReason, Fields
<1>2. t \in {gone, Expand(over), s} \/ t \in DragEnds(s, gesture)
  BY DEF HandleRelease
<1> HIDE DEF over
<1>3. Sound(gone) /\ Sound(Expand(over))
  BY <1>1, ExpandSound DEF Sound, HasReason, Fields
<1> HIDE DEF gone
<1> QED BY <1>2, <1>3, DragEndsSound

-----------------------------------------------------------------------------
Sights == {"left", "right", "full", "cursor", "hotkey", "tray", "news", "keep", "monitor", "file"}

HidingInv == Sound(app) /\ DOMAIN world = Sights /\ world.monitor \in Monitor

LEMMA HidingInvInit == HidingInit => HidingInv
<1> SUFFICES ASSUME HidingInit PROVE HidingInv
  OBVIOUS
<1>1. PICK m \in Monitor, o \in Offset :
        /\ app = [auto |-> FALSE, manual |-> FALSE, fullscreen |-> FALSE,
            notification_reveal |-> FALSE, overlay_reveal |-> FALSE, origin |-> NoPlace,
            win |-> At(<<m, o>>), configured |-> <<m, o>>, monitor |-> m, offset |-> o,
            restore |-> FALSE, visible |-> TRUE, expanded |-> FALSE,
            components_hidden |-> FALSE, is_dragging |-> FALSE, drag_axis |-> "none",
            drag_has_moved |-> FALSE, dismissing |-> FALSE, right |-> "up",
            suppressed |-> FALSE, paused |-> FALSE, cursor |-> FALSE, spring |-> 0,
            rested |-> FALSE, notification |-> "none", level |-> "none",
            config |-> [auto_hide |-> TRUE, fullscreen_auto_hide |-> TRUE,
                        full_width |-> FALSE]]
        /\ world = [left |-> "up", right |-> FALSE, full |-> FALSE, cursor |-> FALSE,
              hotkey |-> FALSE, tray |-> FALSE, news |-> {}, keep |-> FALSE,
              monitor |-> m, file |-> app.config]
  BY DEF HidingInit
<1>2. <<m, o>> \in Place
  BY DEF Place
<1>3. Sound(app)
  BY <1>1, <1>2 DEF Sound, HasReason, Fields, At
<1>4. DOMAIN world = Sights /\ world.monitor = m
  BY <1>1 DEF Sights
<1> QED BY <1>3, <1>4 DEF HidingInv

LEMMA SeenSound ==
  ASSUME NEW s, Sound(s), world.monitor \in Monitor, NEW due, Seen(s, due)
  PROVE  Sound(app')
<1>1. PICK pull \in Offset, double \in BOOLEAN :
        \E s1 \in {RightDrag(s, pull)} :
        \E s2 \in {CheckFullscreen(s1, due)} :
        \E s3 \in {IF double /\ s2.suppressed /\ ~FullscreenHide(s2) /\ Hidden(s2)
                  THEN Reveal(s2) ELSE s2} :
        \E s4 \in {UpdateOverlay(s3, world.news)} :
        \E s5 \in {EndReveals(s4)} :
        \E aims \in BOOLEAN :
        \E s6 \in {HideWhenIdle(s5, aims)} :
           \E drag \in Drag : \E s7 \in {HideDrag(s6, drag, due)} : app' = CollapseClick(s7, aims)
  BY DEF Seen
<1>2. PICK s1, s2, s3, s4, s5, aims, s6, drag, s7 :
        /\ s1 = RightDrag(s, pull) /\ s2 = CheckFullscreen(s1, due)
        /\ s3 = IF double /\ s2.suppressed /\ ~FullscreenHide(s2) /\ Hidden(s2)
                THEN Reveal(s2) ELSE s2
        /\ s4 = UpdateOverlay(s3, world.news) /\ s5 = EndReveals(s4)
        /\ s6 = HideWhenIdle(s5, aims)
        /\ drag \in Drag /\ s7 = HideDrag(s6, drag, due) /\ app' = CollapseClick(s7, aims)
  BY <1>1
<1>3. Sound(s1)
  BY <1>2, RightDragSound
<1>4. Sound(s2)
  BY <1>2, <1>3, CheckSound
<1>5. Sound(s3)
  BY <1>2, <1>4, RevealSound
<1>6. Sound(s4)
  BY <1>2, <1>5, UpdateOverlaySound
<1>7. Sound(s5)
  BY <1>2, <1>6, EndRevealsSound
<1>8. Sound(s6)
  BY <1>2, <1>7, IdleSound
<1>9. drag.reach \in 0..2
  BY <1>2 DEF Drag
<1>10. Sound(s7)
  BY <1>2, <1>8, <1>9, HideDragSound
<1> QED BY <1>2, <1>10, CollapseClickSound

LEMMA FrameSound == ASSUME HidingInv, NEW due, Frame(due) PROVE HidingInv'
<1>1. PICK passed, restored, heard, s :
        /\ passed = Passed(app, due)
        /\ restored = IF "restore" \in due
                      THEN Configure([passed EXCEPT !.restore = FALSE], passed.configured)
                      ELSE passed
        /\ heard = HandleHotkey([restored EXCEPT !.visible = (@ # world.tray)])
        /\ s = Reload(heard, due)
        /\ IF s.visible THEN Seen(s, due) ELSE app' = s
  BY DEF Frame
<1>2. Sound(passed)
  BY <1>1, PassedSound DEF HidingInv
<1>3. Sound([passed EXCEPT !.restore = FALSE]) /\ passed.configured \in Place
  BY <1>2 DEF Sound, HasReason, Fields
<1>4. Sound(restored)
  BY <1>1, <1>2, <1>3, ConfigureSound
<1>5. Sound([restored EXCEPT !.visible = (@ # world.tray)])
  BY <1>4 DEF Sound, HasReason, Fields
<1>6. Sound(heard)
  BY <1>1, <1>5, HotkeySound
<1>7. Sound(s)
  BY <1>1, <1>6, ReloadSound DEF HidingInv
<1>8. Sound(app')
  BY <1>1, <1>7, SeenSound DEF HidingInv
<1>9. DOMAIN world' = Sights /\ world'.monitor = world.monitor
  BY DEF Frame, HidingInv, Sights
<1> QED BY <1>8, <1>9 DEF HidingInv

LEMMA HidingInvStep == HidingInv /\ [HidingNext]_hidingVars => HidingInv'
<1> SUFFICES ASSUME HidingInv, [HidingNext]_hidingVars PROVE HidingInv'
  OBVIOUS
<1>1. CASE UNCHANGED hidingVars
  BY <1>1 DEF hidingVars, HidingInv, Sound, HasReason
<1>2. CASE \E due \in SUBSET Due : Frame(due)
  BY <1>2, FrameSound
<1>3. CASE \E where \in {"island", "outside"} : Press(where)
  <2>1. PICK where : Press(where)
    BY <1>3
  <2>2. app' = app \/ app' \in HandlePress(app)
    BY <2>1 DEF Press
  <2>3. Sound(app')
    BY <2>2, PressSound DEF HidingInv
  <2>4. DOMAIN world' = Sights /\ world'.monitor = world.monitor
    BY <2>1 DEF Press, HidingInv, Sights
  <2> QED BY <2>3, <2>4 DEF HidingInv
<1>4. CASE \E gesture \in {"side", "stay"} : Release(gesture)
  <2>1. PICK gesture : Release(gesture)
    BY <1>4
  <2>2. app' = app \/ app' \in HandleRelease(app, gesture)
    BY <2>1 DEF Release
  <2>3. Sound(app')
    BY <2>2, ReleaseSound DEF HidingInv
  <2>4. DOMAIN world' = Sights /\ world'.monitor = world.monitor
    BY <2>1 DEF Release, HidingInv, Sights
  <2> QED BY <2>3, <2>4 DEF HidingInv
<1>5. CASE RightPress \/ RightRelease
  <2>1. Sound(app')
    BY <1>5 DEF RightPress, RightRelease, HidingInv, Sound, HasReason, Fields
  <2>2. DOMAIN world' = Sights /\ world'.monitor = world.monitor
    BY <1>5 DEF RightPress, RightRelease, HidingInv, Sights
  <2> QED BY <2>1, <2>2 DEF HidingInv
<1>6. CASE OtherProgram \/ User
  <2>1. ASSUME NEW what \in Sights, NEW to, Happens(what, to), what = "monitor" => to \in Monitor
        PROVE  HidingInv'
    BY <2>1 DEF Happens, HidingInv, Sound, HasReason, Sights
  <2> QED BY <1>6, <2>1 DEF OtherProgram, User, Sights
<1>7. CASE PluginAsks
  <2>1. app' \in {[app EXCEPT !.expanded = TRUE, !.rested = FALSE], Collapse(app)} /\ world' = world
    BY <1>7 DEF PluginAsks
  <2>2. Sound([app EXCEPT !.expanded = TRUE, !.rested = FALSE])
    BY DEF HidingInv, Sound, HasReason, Fields
  <2> QED BY <2>1, <2>2, ExpandSound DEF HidingInv
<1> QED BY <1>1, <1>2, <1>3, <1>4, <1>5, <1>6, <1>7 DEF HidingNext

(* Whatever hides the island or holds it out of place, the way back is     *)
(* known, however reveals, swipes, monitors and settings interleave.       *)
THEOREM TheWayBackIsKept == HidingSpec => []WayBackIsKept
<1>1. HidingInv => WayBackIsKept
  BY DEF HidingInv, Sound, WayBackIsKept
<1> QED BY <1>1, HidingInvInit, HidingInvStep, PTL DEF HidingSpec

-----------------------------------------------------------------------------
(* Notifications.  One is old once it has been shown, or waits to be shown.*)
Old(n) == cards[n] = 1 \/ n \in card.held

FeedFields ==
  {"open", "watch", "status", "access", "read", "attempted", "retry", "seen", "pending",
   "delivery", "failure"}

FeedTyped(f) ==
  /\ DOMAIN f = FeedFields
  /\ f.watch \in {"none", "wnf", "log"} /\ f.status \in {"unknown", "up", "down"}
  /\ f.access \in {"idle", "asked", "granted", "denied", "lost"}
  /\ f.retry \in {"none", "waits", "due"}
  /\ f.read \in [kind : {"none", "baseline", "reconcile", "event"},
                 job : {"idle", "runs", "done", "failed"}, result : SUBSET (1..notes)]
  /\ f.seen \subseteq 1..notes /\ f.pending \subseteq 1..notes

(* The feed is opened, then reads what there is, then subscribes.          *)
FeedOrder(f) ==
  /\ ~f.open => f.watch = "none" /\ f.read = NoRead
  /\ f.access # "idle" => ~f.open
  /\ f.watch = "none" => f.read.kind \in {"none", "baseline"}
  /\ f.watch # "none" => f.read.kind # "baseline"
  /\ f.read.job # "idle" => f.read.kind # "none"

(* No read of the centre misses what is old and still in it, and none that *)
(* comes after the first one can find it new.                              *)
OldIsKnown(f) ==
  \A n \in 1..notes : Old(n) =>
    /\ f.read.job = "done" /\ n \in centre => n \in f.read.result
    /\ f.watch # "none" /\ (n \in centre \/ (f.read.job = "done" /\ n \in f.read.result))
         => n \in f.seen

PendingIsNew(f) ==
  \A n \in f.pending : ~Old(n) /\ n \in f.seen /\ f.watch # "none" /\ f.read.job # "done"

FeedSound(f) == FeedTyped(f) /\ FeedOrder(f) /\ OldIsKnown(f) /\ PendingIsNew(f)

CardsInv ==
  /\ notes \in 0..MaxNotes /\ centre \subseteq 1..notes
  /\ cards \in [Note -> 0..1] /\ card \in [held : SUBSET (1..notes), shown : SUBSET (1..notes)]
  /\ \A n \in Note : (n \in card.held => cards[n] = 0) /\ (cards[n] = 1 => n <= notes)
  /\ events \in {"wnf", "log"}

NotesInv == CardsInv /\ FeedSound(feed) /\ feed.pending = {}

(* The last of some notifications is one of them.                          *)
LEMMA MaxIsIn ==
  ASSUME NEW m \in Nat, NEW S, S \subseteq 1..m, S # {} PROVE Max(S) \in S
<1> DEFINE R == OpToRel(<, Nat)
           T == {m - x : x \in S}
<1>1. IsWellFoundedOn(R, Nat)
  BY NatLessThanWellFounded
<1>2. \A x, y \in Nat : x < y => <<x, y>> \in R
  BY DEF OpToRel
<1> HIDE DEF R
<1>3. T \subseteq Nat /\ T # {}
  <2>1. \A x \in S : m - x \in Nat
    OBVIOUS
  <2>2. PICK x \in S : TRUE
    OBVIOUS
  <2>3. m - x \in T
    OBVIOUS
  <2> QED BY <2>1, <2>3
<1>4. PICK a \in T : \A b \in T : <<b, a>> \notin R
  BY <1>1, <1>3, WFMin
<1>5. PICK x \in S : a = m - x
  OBVIOUS
<1>6. \A y \in S : x >= y
  <2>1. SUFFICES ASSUME NEW y \in S, y > x PROVE FALSE
    BY <1>5
  <2>2. m - y \in T /\ m - y < a /\ m - y \in Nat /\ a \in Nat
    BY <1>5, <2>1
  <2> QED BY <1>2, <1>4, <2>2
<1> QED BY <1>6 DEF Max

-----------------------------------------------------------------------------
(* The feed closes, whatever it knew, or tries again later.                *)
LEMMA StoppedSound ==
  ASSUME NEW f, FeedSound(f)
  PROVE  FeedSound(Stopped(f)) /\ FeedSound(RetryLater(f)) /\ FeedSound(Restarted(f))
<1> USE DEF FeedSound, FeedTyped, FeedFields, FeedOrder, OldIsKnown, PendingIsNew
<1>1. ASSUME NEW g, FeedSound(g) PROVE FeedSound(RetryLater(g))
  BY <1>1 DEF RetryLater
<1>2. FeedSound(Stopped(f))
  BY DEF Stopped, Closed, NoRead
<1> QED BY <1>1, <1>2 DEF Restarted

LEMMA StartReadSound ==
  ASSUME NEW f, FeedSound(f), f.open, NEW fault, f.access = "idle",
         NEW kind \in {"baseline", "reconcile", "event"},
         kind = "baseline" <=> f.watch = "none"
  PROVE  FeedSound(StartRead(f, kind, fault))
<1> DEFINE g == [f EXCEPT !.read = [kind |-> kind, job |-> "runs", result |-> {}]]
<1>1. FeedSound(g)
  BY DEF FeedSound, FeedTyped, FeedFields, FeedOrder, OldIsKnown, PendingIsNew, NoRead
<1> QED BY <1>1, StoppedSound DEF StartRead

LEMMA StartMonitorSound ==
  ASSUME NEW f, FeedSound(f), ~f.open, f.access = "idle", NEW fault
  PROVE  FeedSound(StartMonitor(f, fault))
<1> DEFINE g == [f EXCEPT !.open = TRUE, !.retry = "none", !.seen = {}, !.pending = {},
                          !.delivery = FALSE, !.failure = FALSE]
<1>1. FeedSound(g) /\ g.open /\ g.access = "idle" /\ g.watch = "none"
  BY DEF FeedSound, FeedTyped, FeedFields, FeedOrder, OldIsKnown, PendingIsNew, NoRead
<1> HIDE DEF g
<1>2. FeedSound(StartRead(g, "baseline", fault))
  BY <1>1, StartReadSound
<1> QED BY <1>2 DEF StartMonitor, g

LEMMA AccessSound ==
  ASSUME NEW f, FeedSound(f), NEW fault
  PROVE  FeedSound(FinishAccess(f, fault)) /\ FeedSound(AskAccess(f, fault))
<1> DEFINE idle == [f EXCEPT !.access = "idle"]
           asked == [f EXCEPT !.attempted = TRUE]
           waits == [asked EXCEPT !.access = "asked"]
<1>1. /\ FeedSound(idle) /\ idle.access = "idle" /\ idle.open = f.open
      /\ FeedSound(asked) /\ asked.access = f.access /\ asked.open = f.open
      /\ ~f.open => FeedSound(waits)
  BY DEF FeedSound, FeedTyped, FeedFields, FeedOrder, OldIsKnown, PendingIsNew
<1> HIDE DEF idle, asked, waits
<1>2. f.access = "granted" => ~f.open
  BY DEF FeedSound, FeedOrder
<1>3. FeedSound(FinishAccess(f, fault))
  BY <1>1, <1>2, StoppedSound, StartMonitorSound DEF FinishAccess, idle
<1>4. FeedSound(AskAccess(f, fault))
  BY <1>1, StoppedSound, StartMonitorSound DEF AskAccess, asked, waits
<1> QED BY <1>3, <1>4

LEMMA TakeBaselineSound ==
  ASSUME NEW f, FeedSound(f), CardsInv, f.read.job = "done", f.read.kind = "baseline",
         NEW fault
  PROVE  FeedSound(TakeBaseline(f, fault))
<1> DEFINE known == [f EXCEPT !.read = NoRead, !.seen = SeenAtStart(f),
                              !.delivery = FALSE, !.failure = FALSE]
           down == [known EXCEPT !.status = "down"]
           watches == [known EXCEPT !.watch = events, !.status = "up"]
<1>1. f.watch = "none" /\ f.open /\ f.access = "idle"
  BY DEF FeedSound, FeedOrder, FeedTyped, NoRead
<1>2. FeedSound(down)
  BY <1>1 DEF FeedSound, FeedTyped, FeedFields, FeedOrder, OldIsKnown, PendingIsNew, NoRead,
              SeenAtStart
<1>3. /\ FeedSound(watches) /\ watches.open /\ watches.access = "idle"
      /\ watches.watch # "none"
  BY <1>1 DEF FeedSound, FeedTyped, FeedFields, FeedOrder, OldIsKnown, PendingIsNew, NoRead,
              SeenAtStart, CardsInv
<1> HIDE DEF down, watches
<1>4. FeedSound(Restarted(down)) /\ FeedSound(StartRead(watches, "reconcile", fault))
  BY <1>2, <1>3, StoppedSound, StartReadSound
<1> QED BY <1>4 DEF TakeBaseline, Reconcile, down, watches

(* What a read finds that was not seen is not old: the last of it is shown.*)
LEMMA TakeNewsSound ==
  ASSUME NEW f, FeedSound(f), CardsInv, f.read.job = "done", f.read.kind # "baseline"
  PROVE  FeedSound(TakeNews(f))
<1> DEFINE news == f.read.result \ f.seen
<1>1. f.watch # "none" /\ f.open /\ f.access = "idle"
  BY DEF FeedSound, FeedOrder, FeedTyped, NoRead
<1>2. f.pending = {} /\ f.read.result \subseteq 1..notes
  BY DEF FeedSound, PendingIsNew, FeedTyped
<1>3. \A n \in 1..notes : Old(n) => n \notin news
  BY <1>1 DEF FeedSound, OldIsKnown
<1>4. ASSUME news # {} PROVE Max(news) \in news
  <2>1. notes \in Nat
    BY NotesAssumption DEF CardsInv
  <2> QED BY <1>2, <1>4, <2>1, MaxIsIn
<1>5. PICK P : P = IF news = {} THEN f.pending ELSE {Max(news)}
  OBVIOUS
<1>6. P \subseteq news /\ P \subseteq 1..notes
  BY <1>2, <1>4, <1>5
<1> DEFINE g == [f EXCEPT !.read = NoRead, !.seen = f.read.result, !.pending = P]
<1>7. TakeNews(f) = g
  BY <1>5 DEF TakeNews
<1>8. FeedTyped(g)
  BY <1>2, <1>6 DEF FeedSound, FeedTyped, FeedFields, NoRead
<1>9. FeedOrder(g)
  BY <1>1 DEF FeedSound, FeedTyped, FeedFields, FeedOrder, NoRead
<1>10. OldIsKnown(g)
  BY DEF FeedSound, FeedTyped, FeedFields, OldIsKnown, NoRead
<1>11. PendingIsNew(g)
  BY <1>1, <1>3, <1>6 DEF FeedSound, FeedTyped, FeedFields, PendingIsNew, NoRead
<1> QED BY <1>7, <1>8, <1>9, <1>10, <1>11 DEF FeedSound

LEMMA FinishReadSound ==
  ASSUME NEW f, FeedSound(f), CardsInv, NEW fault PROVE FeedSound(FinishRead(f, fault))
  BY StoppedSound, TakeBaselineSound, TakeNewsSound DEF FinishRead

LEMMA HandleErrorSound ==
  ASSUME NEW f, FeedSound(f) PROVE FeedSound(HandleError(f))
<1> DEFINE taken == [f EXCEPT !.failure = FALSE]
<1>1. FeedSound(taken) /\ FeedSound([taken EXCEPT !.status = "down"])
  BY DEF FeedSound, FeedTyped, FeedFields, FeedOrder, OldIsKnown, PendingIsNew
<1> HIDE DEF taken
<1> QED BY <1>1, StoppedSound DEF HandleError, taken

LEMMA ReadSignaledSound ==
  ASSUME NEW f, FeedSound(f), NEW fault PROVE FeedSound(ReadWhenSignaled(f, fault))
<1> DEFINE g == [f EXCEPT !.delivery = FALSE]
<1>1. FeedSound(g) /\ g.watch = f.watch /\ g.open = f.open /\ g.access = f.access
  BY DEF FeedSound, FeedTyped, FeedFields, FeedOrder, OldIsKnown, PendingIsNew
<1>2. f.watch # "none" => f.open /\ f.access = "idle"
  BY DEF FeedSound, FeedOrder
<1> HIDE DEF g
<1>3. f.watch # "none" => FeedSound(StartRead(g, "event", fault))
  BY <1>1, <1>2, StartReadSound
<1> QED BY <1>3 DEF ReadWhenSignaled, g

LEMMA UpdatedSound ==
  ASSUME NotesInv, NEW fault PROVE FeedSound(Updated(fault))
<1>1. FeedSound(Feed)
  BY DEF NotesInv, Feed, FeedSound, FeedTyped, FeedFields, FeedOrder, OldIsKnown, PendingIsNew
<1>2. FeedSound([Stopped(Feed) EXCEPT !.attempted = FALSE, !.retry = "none"])
  <2>1. FeedSound(Stopped(Feed))
    BY <1>1, StoppedSound
  <2> HIDE DEF Feed
  <2> QED BY <2>1 DEF FeedSound, FeedTyped, FeedFields, FeedOrder, OldIsKnown, PendingIsNew
<1>3. CardsInv
  BY DEF NotesInv
<1> QED BY <1>1, <1>2, <1>3, AccessSound, FinishReadSound, HandleErrorSound, ReadSignaledSound
        DEF Updated

-----------------------------------------------------------------------------
(* A frame: what is pending and still in the centre becomes old.           *)
LEMMA UpdateFeedSound ==
  ASSUME NotesInv, NEW f, FeedSound(f), NEW state \in State, UpdateFeed(f, state)
  PROVE  NotesInv'
<1> DEFINE got  == IF f.open THEN f.pending \cap centre ELSE {}
           held == IF got = {} THEN card.held ELSE got
           shows == display /\ capable
<1>1. got \subseteq f.pending /\ got \subseteq centre /\ \A n \in got : ~Old(n)
  BY DEF FeedSound, PendingIsNew
<1>2. held \subseteq 1..notes /\ \A n \in held : n \in Note /\ cards[n] = 0
  <2>1. card.held \subseteq 1..notes /\ centre \subseteq 1..notes /\ 1..notes \subseteq Note
    BY NotesAssumption DEF NotesInv, CardsInv, Note
  <2>2. \A n \in got : cards[n] = 0
    <3>1. \A n \in Note : cards[n] = 0 \/ cards[n] = 1
      BY DEF NotesInv, CardsInv
    <3> HIDE DEF got
    <3> QED BY <1>1, <2>1, <3>1 DEF Old
  <2> QED BY <1>1, <2>1, <2>2 DEF NotesInv, CardsInv
<1>3. /\ feed' = [f EXCEPT !.pending = {}, !.delivery = FALSE, !.failure = FALSE]
      /\ card' = IF ~shows \/ state = "Discard" THEN [held |-> {}, shown |-> {}]
                 ELSE IF state = "Defer" THEN [held |-> held, shown |-> {}]
                 ELSE [held |-> {}, shown |-> IF held = {} THEN card.shown ELSE held]
      /\ cards' = [n \in Note |->
                     cards[n] + IF shows /\ state = "Present" /\ n \in held THEN 1 ELSE 0]
      /\ UNCHANGED <<centre, notes, events>>
  BY DEF UpdateFeed, outside
<1> HIDE DEF held, shows
<1>4. \A n \in Note : cards'[n] = cards[n] \/ (n \in held /\ cards'[n] = 1 /\ card'.held = {})
  BY <1>2, <1>3 DEF NotesInv, CardsInv, State
<1>5. card'.held \subseteq held /\ card'.shown \subseteq 1..notes
  BY <1>2, <1>3 DEF NotesInv, CardsInv
<1>6. CardsInv'
  <2>1. card' \in [held : SUBSET (1..notes), shown : SUBSET (1..notes)]
    BY <1>2, <1>3, <1>5
  <2>2. cards' \in [Note -> 0..1]
    BY <1>2, <1>3 DEF NotesInv, CardsInv
  <2>3. \A n \in Note : (n \in card'.held => cards'[n] = 0) /\ (cards'[n] = 1 => n <= notes)
    <3> SUFFICES ASSUME NEW n \in Note
                 PROVE  (n \in card'.held => cards'[n] = 0) /\ (cards'[n] = 1 => n <= notes)
      OBVIOUS
    <3>1. n \in held => cards[n] = 0 /\ n <= notes
      BY <1>2 DEF NotesInv, CardsInv
    <3>2. cards[n] = 1 => n <= notes
      BY DEF NotesInv, CardsInv
    <3> QED BY <1>4, <1>5, <3>1, <3>2
  <2> QED BY <1>3, <2>1, <2>2, <2>3 DEF NotesInv, CardsInv
<1>7. \A n \in 1..notes : Old(n)' => Old(n) \/ n \in got
  <2>1. 1..notes \subseteq Note
    BY NotesAssumption DEF NotesInv, CardsInv, Note
  <2>2. \A n \in held : Old(n) \/ n \in got
    BY DEF held, Old
  <2> QED BY <1>4, <1>5, <2>1, <2>2 DEF Old
<1>8. FeedSound(feed)'
  <2>1. FeedTyped(feed') /\ FeedOrder(feed')
    BY <1>3 DEF FeedSound, FeedTyped, FeedFields, FeedOrder
  <2>2. OldIsKnown(feed)'
    <3>1. /\ feed'.read = f.read /\ feed'.watch = f.watch /\ feed'.seen = f.seen
      BY <1>3 DEF FeedSound, FeedTyped, FeedFields
    <3>2. \A n \in got : f.watch # "none" /\ f.read.job # "done" /\ n \in f.seen
      BY <1>1 DEF FeedSound, PendingIsNew
    <3> QED BY <1>3, <1>7, <3>1, <3>2 DEF FeedSound, OldIsKnown
  <2>3. FeedTyped(feed)'
    BY <1>3, <2>1 DEF FeedTyped
  <2>4. feed'.pending = {}
    BY <1>3 DEF FeedSound, FeedTyped, FeedFields
  <2> QED BY <2>1, <2>2, <2>3, <2>4 DEF FeedSound, FeedOrder, PendingIsNew
<1>9. feed'.pending = {}
  BY <1>3 DEF FeedSound, FeedTyped, FeedFields
<1> QED BY <1>6, <1>8, <1>9 DEF NotesInv

LEMMA FeedFrameSound == NotesInv /\ FeedFrame => NotesInv'
<1> SUFFICES ASSUME NotesInv, FeedFrame PROVE NotesInv'
  OBVIOUS
<1>1. CASE \E f \in {Updated("none")}, state \in State : UpdateFeed(f, state)
  <2>1. PICK f \in {Updated("none")}, state \in State : UpdateFeed(f, state)
    BY <1>1
  <2>2. FeedSound(f)
    BY UpdatedSound
  <2> QED BY <2>1, <2>2, UpdateFeedSound
<1>2. CASE \E f \in {Updated(fault) : fault \in Fault}, state \in State : UpdateFeed(f, state)
  <2>1. PICK f \in {Updated(fault) : fault \in Fault}, state \in State : UpdateFeed(f, state)
    BY <1>2
  <2>2. FeedSound(f)
    BY UpdatedSound
  <2> QED BY <2>1, <2>2, UpdateFeedSound
<1> QED BY <1>1, <1>2 DEF FeedFrame

LEMMA OtherNotesSound ==
  ASSUME NotesInv, [NotesNext]_noteVars, ~FeedFrame PROVE NotesInv'
<1> USE DEF NotesInv
<1>1. CASE UNCHANGED <<centre, notes, events, cards, feed>> /\ card'.held = card.held
           /\ card' \in [held : SUBSET (1..notes), shown : SUBSET (1..notes)]
  BY <1>1 DEF CardsInv, FeedSound, FeedTyped, FeedOrder, OldIsKnown, PendingIsNew, Old
<1>2. CASE DismissCard
  <2>1. centre' \subseteq centre /\ UNCHANGED <<notes, events, cards, feed>>
        /\ card'.held = card.held
        /\ card' \in [held : SUBSET (1..notes), shown : SUBSET (1..notes)]
    BY <1>2 DEF DismissCard, CardsInv
  <2> QED BY <2>1 DEF CardsInv, FeedSound, FeedTyped, FeedOrder, OldIsKnown, PendingIsNew, Old
<1>3. CASE Publish
  <2>1. /\ notes < MaxNotes /\ notes' = notes + 1 /\ centre' = centre \cup {notes + 1}
        /\ UNCHANGED <<events, cards, card, feed>>
    BY <1>3 DEF Publish
  <2>2. notes \in Nat /\ notes + 1 \in Note /\ 1..notes \subseteq 1..(notes + 1)
    BY <2>1, NotesAssumption DEF CardsInv, Note
  <2>3. ~Old(notes + 1)
    BY <2>2 DEF CardsInv, Old
  <2>4. CardsInv'
    <3>1. notes' \in 0..MaxNotes /\ centre' \subseteq 1..notes'
      BY <2>1, <2>2, NotesAssumption DEF CardsInv
    <3>2. card' \in [held : SUBSET (1..notes'), shown : SUBSET (1..notes')]
      BY <2>1, <2>2 DEF CardsInv
    <3>3. \A n \in Note : cards[n] = 1 => n <= notes + 1
      BY <2>2 DEF CardsInv, Note
    <3> QED BY <2>1, <3>1, <3>2, <3>3 DEF CardsInv
  <2>5. FeedTyped(feed)' /\ FeedOrder(feed)' /\ PendingIsNew(feed)'
    BY <2>1, <2>2 DEF FeedSound, FeedTyped, FeedOrder, PendingIsNew
  <2>6. OldIsKnown(feed)'
    <3>1. SUFFICES ASSUME NEW n \in 1..(notes + 1), Old(n)
                   PROVE  /\ feed.read.job = "done" /\ n \in centre' => n \in feed.read.result
                          /\ feed.watch # "none"
                             /\ (n \in centre' \/ (feed.read.job = "done" /\ n \in feed.read.result))
                               => n \in feed.seen
      BY <2>1 DEF OldIsKnown, Old
    <3>2. n \in 1..notes
      BY <2>2, <2>3, <3>1
    <3> QED BY <2>1, <2>2, <3>1, <3>2 DEF FeedSound, OldIsKnown
  <2> QED BY <2>1, <2>4, <2>5, <2>6 DEF FeedSound
<1>4. CASE AnswerAccess
  <2>1. /\ UNCHANGED <<centre, notes, events, cards, card>> /\ feed.access = "asked"
        /\ \E a \in {"granted", "denied", "lost"} : feed' = [feed EXCEPT !.access = a]
    BY <1>4 DEF AnswerAccess
  <2> QED BY <2>1 DEF CardsInv, FeedSound, FeedTyped, FeedFields, FeedOrder, OldIsKnown,
                      PendingIsNew, Old
<1>5. CASE ReadCentre
  <2>1. /\ UNCHANGED <<centre, notes, events, cards, card>> /\ feed.read.job = "runs"
        /\ \/ feed' = [feed EXCEPT !.read.job = "done", !.read.result = centre]
           \/ feed' = [feed EXCEPT !.read.job = "failed"]
    BY <1>5 DEF ReadCentre, outside
  <2>2. CardsInv' /\ centre \subseteq 1..notes /\ feed'.pending = {}
    BY <2>1 DEF CardsInv, FeedSound, FeedTyped, FeedFields
  <2>3. /\ DOMAIN feed' = FeedFields /\ feed'.read.kind = feed.read.kind
        /\ \A x \in FeedFields \ {"read"} : feed'[x] = feed[x]
        /\ \/ feed'.read.job = "done" /\ feed'.read.result = centre
           \/ feed'.read.job = "failed"
        /\ feed'.read \in [kind : {"none", "baseline", "reconcile", "event"},
                            job : {"idle", "runs", "done", "failed"}, result : SUBSET (1..notes)]
    <3> DEFINE r == feed.read
    <3>1. r \in [kind : {"none", "baseline", "reconcile", "event"},
                 job : {"idle", "runs", "done", "failed"}, result : SUBSET (1..notes)]
      BY DEF FeedSound, FeedTyped
    <3>2. PICK q : /\ feed' = [feed EXCEPT !.read = q]
                   /\ q \in {[r EXCEPT !.job = "done", !.result = centre],
                             [r EXCEPT !.job = "failed"]}
      <4>1. DOMAIN feed = FeedFields
        BY DEF FeedSound, FeedTyped
      <4> HIDE DEF r
      <4> QED BY <2>1, <3>1, <4>1 DEF FeedFields, r
    <3> HIDE DEF r
    <3>3. /\ q.kind = r.kind
          /\ (q.job = "done" /\ q.result = centre) \/ q.job = "failed"
          /\ q \in [kind : {"none", "baseline", "reconcile", "event"},
                    job : {"idle", "runs", "done", "failed"}, result : SUBSET (1..notes)]
      BY <2>2, <3>1, <3>2
    <3> QED BY <3>2, <3>3 DEF FeedSound, FeedTyped, FeedFields, r
  <2>4. FeedTyped(feed)'
    BY <2>1, <2>3 DEF FeedSound, FeedTyped, FeedFields
  <2>5. feed.open /\ feed.read.kind # "none"
    BY <2>1 DEF FeedSound, FeedOrder, NoRead
  <2>6. FeedOrder(feed)'
    BY <2>1, <2>3, <2>5 DEF FeedSound, FeedOrder, FeedFields
  <2>7. OldIsKnown(feed)'
    BY <2>1, <2>3 DEF FeedSound, FeedFields, OldIsKnown, Old
  <2> QED BY <2>2, <2>4, <2>6, <2>7 DEF FeedSound, PendingIsNew
<1>6. CASE RetryComes
  <2>1. /\ UNCHANGED <<centre, notes, events, cards, card>>
        /\ feed' = [feed EXCEPT !.retry = "due"]
    BY <1>6 DEF RetryComes, outside
  <2> QED BY <2>1 DEF CardsInv, FeedSound, FeedTyped, FeedFields, FeedOrder, OldIsKnown,
                      PendingIsNew, Old
<1>7. CardEnds \/ SwitchDisplay \/ SignalDelivery \/ SignalFailure \/ ProbeEvents
        \/ UNCHANGED noteVars =>
      UNCHANGED <<centre, notes, events, cards, feed>> /\ card'.held = card.held
      /\ card' \in [held : SUBSET (1..notes), shown : SUBSET (1..notes)]
  BY DEF CardEnds, SwitchDisplay, SignalDelivery, SignalFailure, ProbeEvents, noteVars, outside,
         CardsInv
<1> QED BY <1>1, <1>2, <1>3, <1>4, <1>5, <1>6, <1>7 DEF NotesNext

LEMMA NotesStart == NotesInit => NotesInv
<1> SUFFICES ASSUME NotesInit PROVE NotesInv
  OBVIOUS
<1>1. CardsInv
  BY NotesAssumption DEF NotesInit, CardsInv, Note
<1>2. FeedSound(feed) /\ feed.pending = {}
  BY DEF NotesInit, FeedSound, FeedTyped, FeedFields, FeedOrder, OldIsKnown, PendingIsNew,
         Closed, NoRead, Old
<1> QED BY <1>1, <1>2 DEF NotesInv

(* However often the feed starts over and forgets what it has seen, no     *)
(* notification is put on display twice (handle_notification_snapshot of   *)
(* notify/, NotificationIndicator::update).                                *)
THEOREM NothingShownTwice == NotesSpec => []ShownOnce
<1>1. NotesInit => NotesInv
  BY NotesStart
<1>2. NotesInv /\ [NotesNext]_noteVars => NotesInv'
  BY FeedFrameSound, OtherNotesSound
<1>3. NotesInv => ShownOnce
  BY DEF NotesInv, CardsInv, ShownOnce
<1> QED BY <1>1, <1>2, <1>3, PTL DEF NotesSpec
=============================================================================
