---------------------------- MODULE WidgetFrames ----------------------------
(***************************************************************************)
(* What plugins draw.  Threads of a plugin create grid widgets and         *)
(* surfaces, submit draw lists that use its images, and announce           *)
(* activities that show surfaces.  The UI thread turns the lists into      *)
(* frames, without the lock while it does, gives up a surface after a      *)
(* number of failures, and keeps copies of what there is to show.          *)
(*                                                                         *)
(* Code: HostRuntime::prepare_widget_frame and revoke_plugin in            *)
(* crates/winisland-plugin-host/src/runtime.rs, services/{widget,image,    *)
(* activity,context}.rs, the surfaces of services/extensions.rs,           *)
(* host/context.rs, and src/window/app/v2.rs.  One plugin, and an island   *)
(* on screen.  Left out: titles, sizes and quotas, the expiry of           *)
(* activities, and empty draw lists after the first one.                   *)
(***************************************************************************)
EXTENDS Naturals, FiniteSets, Functions

CONSTANTS
  Grid,         \* ids of grid widgets,
  Compact,      \* of surfaces of kind SURFACE_COMPACT_MAIN,
  Page,         \* and of kind SURFACE_PAGE
  Picture,      \* ids of images
  Activity,     \* ids of activities and contexts
  Key,          \* the keys of surfaces
  MaxFailures,  \* failures in a row that disable (30)
  MaxStrokes    \* what the plugin does

Surface == Grid \cup Compact \cup Page

ASSUME FramesAssumption ==
  /\ Grid \cap Compact = {} /\ Grid \cap Page = {} /\ Compact \cap Page = {}
  /\ Surface \cap Picture = {} /\ Surface \cap Activity = {} /\ Picture \cap Activity = {}
  /\ MaxFailures \in Nat \ {0, 1} /\ MaxStrokes \in Nat
  /\ \E keys \in [Compact \cup Page -> Key] : IsInjective(keys)

VARIABLES
  standing,     \* the plugin in the registry: "live" or "gone"
  creating,     \* create_surface: per id, the ids it has listed (at most one set)
  allocated,    \* ResourceState.next: ids that have been given away
  surfaces,     \* ServiceState.widgets
  pictures,     \* ServiceState.images
  activities,   \* ServiceState.activities and contexts
  strokes,      \* what the plugin has done so far
  news,         \* activity_revision is not App::v2_activity_revision
  due,          \* Extensions.changed, until the redraw it leads to
  stage,        \* where the UI thread is
  todo,         \* the widgets of widgets_snapshot, or those left to prepare
  taken,        \* prepare_widget_frame, without the lock (at most one)
  copies        \* App's copies

pluginTables   == <<standing, creating, allocated, surfaces, pictures, activities, strokes>>
framesOfIsland == <<stage, todo, taken, copies>>
frameVars      == <<pluginTables, news, due, framesOfIsland>>

-----------------------------------------------------------------------------
(* A draw list is known by when it was submitted, as Arc::ptr_eq knows it. *)
NoList   == [serial |-> 0, uses |-> {}, malformed |-> FALSE]
DrawList == {NoList} \cup [serial : 1..MaxStrokes, uses : SUBSET Picture, malformed : BOOLEAN]

AtMostOne(S) == {{}} \cup {{x} : x \in S}

(* A grid widget has no key here: record.surface is None.                  *)
SurfaceRecord ==
  [key : AtMostOne(Key), list : DrawList, enabled : BOOLEAN,
   failures : 0..MaxFailures, disabled : BOOLEAN]
ActivityRecord == [compact : AtMostOne(Compact), page : AtMostOne(Page)]
Island ==
  [ids : SUBSET Surface, grid : SUBSET Grid, frames : UNION {[S -> 1..MaxStrokes] : S \in SUBSET Surface},
   activities : UNION {[A -> ActivityRecord] : A \in SUBSET Activity}]

Held(f)       == DOMAIN f
Put(f, x, v)  == [y \in DOMAIN f \cup {x} |-> IF y = x THEN v ELSE f[y]]
Without(f, S) == Restrict(f, DOMAIN f \ S)

Drawable == {w \in Held(surfaces) : ~surfaces[w].disabled}
Showable == {w \in Drawable : surfaces[w].enabled}

(* What prepare_widget_frame finds wrong with a list.                      *)
Sound(list) == ~list.malformed /\ list.uses \subseteq pictures

(* activities_snapshot.  A context shows no surface.                       *)
Announced ==
  LET told == {a \in Held(activities) : activities[a].compact \subseteq Showable} IN
  [a \in told |-> [activities[a] EXCEPT !.page = @ \cap Showable]]

-----------------------------------------------------------------------------
(* Services, called by any thread of the plugin.                           *)

Unused(x)   == x \notin allocated
Stroke      == standing = "live" /\ strokes < MaxStrokes /\ strokes' = strokes + 1
IslandRests == UNCHANGED framesOfIsland

(* Extensions::changed, once the service is done.                          *)
Wakes == due' = TRUE

(* create_surface lists the plugin's surfaces ...                          *)
ListSurfaces(w) ==
  /\ Stroke /\ Unused(w) /\ creating[w] = {}
  /\ creating' = [creating EXCEPT ![w] = {Held(surfaces)}]
  /\ UNCHANGED <<standing, allocated, surfaces, pictures, activities, news, due>>
  /\ IslandRests

NewRecord(key) ==
  [key |-> key, list |-> NoList, enabled |-> TRUE, failures |-> 0, disabled |-> FALSE]

KeyTaken(listed, k) == \E v \in listed \cap Held(surfaces) : surfaces[v].key = {k}

(* ... and looks at their keys, and allocates, under the lock of the state.*)
(* It is refused when one of those has the key.                            *)
CreateSurface(w, k) ==
  /\ \E listed \in creating[w] :
       IF KeyTaken(listed, k)
       THEN UNCHANGED <<allocated, surfaces, due>>
       ELSE /\ allocated' = allocated \cup {w}
            /\ surfaces' = Put(surfaces, w, NewRecord({k}))
            /\ Wakes
  /\ creating' = [creating EXCEPT ![w] = {}]
  /\ UNCHANGED <<standing, pictures, activities, strokes, news>>
  /\ IslandRests

(* Nobody is told of the id before its record is inserted.                 *)
CreateWidget(w) ==
  /\ Stroke /\ Unused(w)
  /\ allocated' = allocated \cup {w}
  /\ surfaces' = Put(surfaces, w, NewRecord({}))
  /\ Wakes
  /\ UNCHANGED <<standing, creating, pictures, activities, news>>
  /\ IslandRests

(* SURFACE_ENABLED is all that matters of a specification.                 *)
UpdateSurface(w) ==
  /\ Stroke
  /\ w \in Held(surfaces) /\ surfaces[w].key # {}
  /\ surfaces' = [surfaces EXCEPT ![w].enabled = ~@]
  /\ news' = TRUE /\ Wakes
  /\ UNCHANGED <<standing, creating, allocated, pictures, activities>>
  /\ IslandRests

ReleaseSurface(w) ==
  /\ Stroke /\ w \in Held(surfaces)
  /\ surfaces' = Without(surfaces, {w})
  /\ news' = TRUE /\ Wakes
  /\ UNCHANGED <<standing, creating, allocated, pictures, activities>>
  /\ IslandRests

(* A plugin may use an image it has released.                              *)
SubmitDrawList(w, uses, malformed) ==
  /\ Stroke
  /\ w \in Drawable /\ uses \subseteq allocated
  /\ surfaces' = [surfaces EXCEPT ![w].list =
                    [serial |-> strokes + 1, uses |-> uses, malformed |-> malformed]]
  /\ Wakes
  /\ UNCHANGED <<standing, creating, allocated, pictures, activities, news>>
  /\ IslandRests

AddImage(p) ==
  /\ Stroke /\ Unused(p)
  /\ allocated' = allocated \cup {p} /\ pictures' = pictures \cup {p}
  /\ UNCHANGED <<standing, creating, surfaces, activities, news, due>>
  /\ IslandRests

(* `require' fails from the release on, and so does the frame: whether the *)
(* image is still in ServiceState.images makes no difference.              *)
ReleaseImage(p) ==
  /\ Stroke /\ p \in pictures /\ pictures' = pictures \ {p}
  /\ UNCHANGED <<standing, creating, allocated, surfaces, activities, news, due>>
  /\ IslandRests

(* validate_surfaces.  A disabled surface cannot be announced.             *)
Announceable == [compact : AtMostOne(Compact \cap Drawable), page : AtMostOne(Page \cap Drawable)]

AnnounceActivity(a, spec) ==
  /\ Stroke /\ spec \in Announceable
  /\ spec.compact = {} => spec.page = {}
  /\ Unused(a) \/ (a \in Held(activities) /\ (activities[a].compact = {} <=> spec.compact = {}))
  /\ allocated' = allocated \cup {a}
  /\ activities' = Put(activities, a, spec)
  /\ news' = TRUE /\ Wakes
  /\ UNCHANGED <<standing, creating, surfaces, pictures>>
  /\ IslandRests

ReleaseActivity(a) ==
  /\ Stroke /\ a \in Held(activities)
  /\ activities' = Without(activities, {a})
  /\ news' = TRUE /\ Wakes
  /\ UNCHANGED <<standing, creating, allocated, surfaces, pictures>>
  /\ IslandRests

-----------------------------------------------------------------------------
(* The UI thread: revoke_plugin, after the threads of the plugin were      *)
(* joined, ...                                                             *)
RevokePlugin ==
  /\ standing = "live" /\ stage = "idle" /\ \A w \in Surface : creating[w] = {}
  /\ standing' = "gone"
  /\ surfaces' = Without(surfaces, Surface) /\ activities' = Without(activities, Activity)
  /\ pictures' = {}
  /\ news' = (news \/ Held(surfaces) # {} \/ Held(activities) # {})
  /\ due' = (due \/ Held(surfaces) # {})
  /\ UNCHANGED <<creating, allocated, strokes>> /\ IslandRests

(* ... a redraw of the island, for this or another reason: widgets_snapshot*)
(* (here), drawable_ids and what follows from it, prepare_v2_frames, and   *)
(* refresh_v2_activities.                                                  *)
Redraw ==
  /\ stage = "idle" /\ stage' = "ids"
  /\ todo' = Grid \cap Drawable /\ due' = FALSE
  /\ UNCHANGED <<pluginTables, news, taken, copies>>

RefreshWidgets ==
  /\ stage = "ids" /\ stage' = "frames"
  /\ LET left == copies.ids \ Drawable IN
     copies' = [copies EXCEPT !.ids = Drawable, !.grid = (@ \ left) \cup todo,
                              !.frames = Without(@, left)]
  /\ todo' = Drawable
  /\ UNCHANGED <<pluginTables, news, due, taken>>

(* prepare_widget_frame, for the island or for the settings window: it     *)
(* takes the list, ...                                                     *)
TakeList(w) ==
  /\ stage \in {"frames", "settings"} /\ taken = {} /\ w \in todo
  /\ IF w \in Held(surfaces) /\ surfaces[w].list # NoList
     THEN taken' = {[surface |-> w, list |-> surfaces[w].list, verdict |-> "none"]} /\ UNCHANGED todo
     ELSE todo' = todo \ {w} /\ UNCHANGED taken
  /\ UNCHANGED <<pluginTables, news, due, stage, copies>>

(* ... judges it without the lock, ...                                     *)
JudgeList ==
  \E t \in taken :
    /\ t.verdict = "none"
    /\ taken' = {[t EXCEPT !.verdict = IF Sound(t.list) THEN "sound" ELSE "unsound"]}
    /\ UNCHANGED <<pluginTables, news, due, stage, todo, copies>>

(* ... and looks at the record again.  What became of it there:            *)
Vanished(t) == t.surface \notin Held(surfaces)
GivenUp(t) == ~Vanished(t) /\ surfaces[t.surface].disabled
(* Faulty: one list is judged, and the next one pays for it.               *)
NeverReplaced(t) == FALSE
Replaced(t) == surfaces[t.surface].list # t.list

Failed(r) == [r EXCEPT !.failures = @ + 1, !.disabled = r.failures + 1 >= MaxFailures]
Prepared(r) == [r EXCEPT !.failures = 0]

Counted(t) ==
  IF Vanished(t) \/ GivenUp(t) \/ Replaced(t) THEN surfaces
  ELSE [surfaces EXCEPT ![t.surface] = IF t.verdict = "sound" THEN Prepared(@) ELSE Failed(@)]

(* The island keeps a frame that is Ok, whatever list it was made of, and  *)
(* drops that of a surface it finds disabled.                              *)
FramesAfter(t, outcome) ==
  IF Vanished(t) THEN copies.frames
  ELSE IF outcome[t.surface].disabled THEN Without(copies.frames, {t.surface})
  ELSE IF t.verdict = "sound" THEN Put(copies.frames, t.surface, t.list.serial)
  ELSE copies.frames

(* Faulty: nobody notices that a surface is disabled.                      *)
RevisionKept(outcome) == news
Revised(outcome) == news \/ \E w \in Held(surfaces) : outcome[w].disabled # surfaces[w].disabled

SettleFrame ==
  \E t \in taken :
    /\ t.verdict # "none" /\ taken' = {} /\ todo' = todo \ {t.surface}
    /\ surfaces' = Counted(t)
    /\ news' = Revised(surfaces')
    /\ copies' = IF stage = "frames"
                 THEN [copies EXCEPT !.frames = FramesAfter(t, surfaces')] ELSE copies
    /\ UNCHANGED <<standing, creating, allocated, pictures, activities, strokes, due, stage>>

FramesPrepared ==
  /\ stage \in {"frames", "settings"} /\ todo = {}
  /\ stage' = IF stage = "frames" THEN "activities" ELSE "idle"
  /\ UNCHANGED <<pluginTables, news, due, todo, taken, copies>>

(* refresh_v2_activities, in a redraw and in every tick of the event loop. *)
RefreshActivities ==
  /\ stage = "activities" \/ (stage = "idle" /\ news)
  /\ stage' = "idle" /\ news' = FALSE
  /\ copies' = IF news THEN [copies EXCEPT !.activities = Announced] ELSE copies
  /\ UNCHANGED <<pluginTables, due, todo, taken>>

(* The settings window draws the grid widgets it was told of.              *)
DrawSettings ==
  /\ stage = "idle" /\ stage' = "settings" /\ todo' = copies.grid
  /\ UNCHANGED <<pluginTables, news, due, taken, copies>>

-----------------------------------------------------------------------------
(* What the plugin may have made when it was created: nothing, or all it   *)
(* can make but activities.                                                *)
KeyAtFirst == CHOOSE keys \in [Compact \cup Page -> Key] : IsInjective(keys)
AtFirst(w) == NewRecord(IF w \in Grid THEN {} ELSE {KeyAtFirst[w]})

FramesInit ==
  /\ standing = "live" /\ creating = [w \in Surface |-> {}]
  /\ allocated \in {{}, Surface \cup Picture}
  /\ surfaces = [w \in allocated \cap Surface |-> AtFirst(w)]
  /\ pictures = allocated \cap Picture
  /\ activities = [a \in {} |-> [compact |-> {}, page |-> {}]]
  /\ strokes = 0 /\ news = FALSE /\ due = (allocated # {})
  /\ stage = "idle" /\ todo = {} /\ taken = {}
  /\ copies = [ids |-> {}, grid |-> {}, frames |-> [w \in {} |-> 0],
               activities |-> [a \in {} |-> [compact |-> {}, page |-> {}]]]

PluginDraws ==
  \/ \E w \in Compact \cup Page :
       \/ ListSurfaces(w)
       \/ \E k \in Key : CreateSurface(w, k)
       \/ UpdateSurface(w)
  \/ \E w \in Grid : CreateWidget(w)
  \/ \E w \in Surface :
       \/ ReleaseSurface(w)
       \/ SubmitDrawList(w, {}, TRUE)
       \/ \E uses \in SUBSET Picture : SubmitDrawList(w, uses, FALSE)
  \/ \E p \in Picture : AddImage(p) \/ ReleaseImage(p)
  \/ \E a \in Activity :
       \/ \E spec \in ActivityRecord : AnnounceActivity(a, spec)
       \/ ReleaseActivity(a)

Preparing ==
  \/ RefreshWidgets \/ JudgeList \/ SettleFrame \/ FramesPrepared
  \/ \E w \in Surface : TakeList(w)

FramesNext == PluginDraws \/ RevokePlugin \/ Redraw \/ Preparing \/ RefreshActivities \/ DrawSettings

(* The UI thread goes on with what it has begun; a redraw that is due, and *)
(* the next tick, come although it often does something else.              *)
FramesFairness ==
  WF_frameVars(Preparing) /\ SF_frameVars(due /\ Redraw) /\ SF_frameVars(RefreshActivities)

FramesSpec == FramesInit /\ [][FramesNext]_frameVars /\ FramesFairness

-----------------------------------------------------------------------------
FramesTypeOK ==
  /\ standing \in {"live", "gone"}
  /\ creating \in [Surface -> AtMostOne(SUBSET Surface)]
  /\ allocated \subseteq Surface \cup Picture \cup Activity
  /\ Held(surfaces) \subseteq Surface /\ Range(surfaces) \subseteq SurfaceRecord
  /\ pictures \subseteq Picture
  /\ Held(activities) \subseteq Activity /\ Range(activities) \subseteq ActivityRecord
  /\ strokes \in 0..MaxStrokes /\ {news, due} \subseteq BOOLEAN
  /\ stage \in {"idle", "ids", "frames", "activities", "settings"}
  /\ todo \subseteq Surface
  /\ taken \in AtMostOne([surface : Surface, list : DrawList, verdict : {"none", "sound", "unsound"}])
  /\ copies \in Island

(* A surface is disabled for the list it has, although the list was judged *)
(* without the lock and the plugin may have replaced it meanwhile, and even*)
(* when the failures that count up to the limit are those of several lists.*)
DisabledForCause ==
  \A w \in Held(surfaces) : surfaces[w].disabled => ~Sound(surfaces[w].list)

(* What the island shows has caught up when no redraw is due and the       *)
(* activities are no news, whatever plugins did in the middle of a redraw: *)
(* it has no frame of a surface that is gone, a surface with a sound list  *)
(* shows that list, and the activities are those whose surface is there,   *)
(* even when it went, or was disabled, without a word from the plugin.     *)
UpToDate(w) ==
  surfaces[w].list # NoList /\ Sound(surfaces[w].list) =>
    w \in Held(copies.frames) /\ copies.frames[w] = surfaces[w].list.serial
IslandCatchesUp ==
  stage = "idle" /\ ~due /\ ~news =>
    /\ Held(copies.frames) \subseteq Held(surfaces)
    /\ \A w \in Drawable : UpToDate(w)
    /\ copies.activities = Announced

(* Page/plugin-dev/api/widget.md on release: "Removes the widget."  From   *)
(* the grid of the island too, in the end.                                 *)
ReleasedWidgetsGo == \A w \in Grid : []<>(w \in copies.grid => w \in Held(surfaces))
=============================================================================
