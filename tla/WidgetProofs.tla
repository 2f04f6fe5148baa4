---------------------------- MODULE WidgetProofs ----------------------------
(***************************************************************************)
(* That a surface is disabled for the list it has, that the island shows   *)
(* what there is once no redraw is due, and that a plugin's widgets are    *)
(* told the truth about what they hold; for any widgets and other ids,     *)
(* codes, size of the queue, number of failures and strokes.               *)
(***************************************************************************)
EXTENDS WidgetFrames, PluginInput, TLAPS

(***************************************************************************)
(* Frames, tables and the copies of the island (WidgetFrames).             *)
(***************************************************************************)

(* The types again, in the form the provers use: tables are functions.     *)
TablesTyped ==
  /\ standing \in {"live", "gone"}
  /\ creating \in [Surface -> AtMostOne(SUBSET Surface)]
  /\ allocated \subseteq Surface \cup Picture \cup Activity
  /\ Held(surfaces) \subseteq Surface /\ surfaces \in [Held(surfaces) -> SurfaceRecord]
  /\ pictures \subseteq Picture
  /\ Held(activities) \subseteq Activity /\ activities \in [Held(activities) -> ActivityRecord]
  /\ strokes \in 0..MaxStrokes

Taken == [surface : Surface, list : DrawList \ {NoList}, verdict : {"none", "sound", "unsound"}]
IslandTyped ==
  /\ {news, due} \subseteq BOOLEAN
  /\ stage \in {"idle", "ids", "frames", "activities", "settings"}
  /\ todo \subseteq Surface /\ (stage = "ids" => todo \subseteq Grid)
  /\ taken \in AtMostOne(Taken)
  /\ copies \in Island

(* A surface that is not given up has failures to spare.                   *)
ToSpare == \A w \in Held(surfaces) : surfaces[w].disabled \/ surfaces[w].failures < MaxFailures

Typed == TablesTyped /\ IslandTyped /\ ToSpare

-----------------------------------------------------------------------------
LEMMA PutTyped ==
  ASSUME NEW f, NEW T, f \in [Held(f) -> T], NEW x, NEW v \in T
  PROVE  /\ Put(f, x, v) \in [Held(f) \cup {x} -> T]
         /\ Held(Put(f, x, v)) = Held(f) \cup {x}
         /\ Put(f, x, v)[x] = v
         /\ \A y \in Held(f) : y # x => Put(f, x, v)[y] = f[y]
BY DEF Put, Held

LEMMA WithoutTyped ==
  ASSUME NEW f, NEW T, f \in [Held(f) -> T], NEW S
  PROVE  /\ Without(f, S) \in [Held(f) \ S -> T]
         /\ Held(Without(f, S)) = Held(f) \ S
         /\ \A y \in Held(f) \ S : Without(f, S)[y] = f[y]
BY DEF Without, Held, Restrict

LEMMA IslandIs ==
  ASSUME NEW c, NEW S \in SUBSET Surface, NEW f \in [S -> 1..MaxStrokes],
         NEW A \in SUBSET Activity, NEW g \in [A -> ActivityRecord],
         NEW ids \in SUBSET Surface, NEW grid \in SUBSET Grid,
         c = [ids |-> ids, grid |-> grid, frames |-> f, activities |-> g]
  PROVE  c \in Island
BY DEF Island

LEMMA IslandHas ==
  ASSUME NEW c \in Island
  PROVE  /\ c = [ids |-> c.ids, grid |-> c.grid, frames |-> c.frames, activities |-> c.activities]
         /\ c.ids \subseteq Surface /\ c.grid \subseteq Grid
         /\ Held(c.frames) \subseteq Surface
         /\ c.frames \in [Held(c.frames) -> 1..MaxStrokes]
         /\ Held(c.activities) \subseteq Activity
         /\ c.activities \in [Held(c.activities) -> ActivityRecord]
BY DEF Island, Held

LEMMA NewRecordTyped ==
  ASSUME NEW key \in AtMostOne(Key)
  PROVE  NewRecord(key) \in SurfaceRecord /\ NewRecord(key).failures < MaxFailures
                                          /\ ~NewRecord(key).disabled
BY FramesAssumption DEF NewRecord, SurfaceRecord, DrawList

LEMMA AnnouncedTyped ==
  ASSUME TablesTyped
  PROVE  /\ Held(Announced) \subseteq Activity
         /\ Announced \in [Held(Announced) -> ActivityRecord]
<1>1. \A a \in Held(activities) :
         [activities[a] EXCEPT !.page = @ \cap Showable] \in ActivityRecord
  BY DEF TablesTyped, ActivityRecord, AtMostOne
<1> QED BY <1>1 DEF Announced, TablesTyped, Held

(* What settling a frame may do to a record.                               *)
LEMMA CountedTyped ==
  ASSUME Typed, NEW t \in taken, t.verdict # "none"
  PROVE  /\ Counted(t) \in [Held(surfaces) -> SurfaceRecord]
         /\ Held(Counted(t)) = Held(surfaces)
         /\ \A w \in Held(surfaces) :
              /\ Counted(t)[w].key = surfaces[w].key
              /\ Counted(t)[w].list = surfaces[w].list
              /\ Counted(t)[w].enabled = surfaces[w].enabled
              /\ Counted(t)[w].disabled \/ Counted(t)[w].failures < MaxFailures
              /\ Counted(t)[w].disabled => surfaces[w].disabled
                   \/ (w = t.surface /\ t.verdict = "unsound" /\ surfaces[w].list = t.list)
              /\ surfaces[w].disabled => Counted(t)[w].disabled
<1>1. ASSUME NEW r \in SurfaceRecord, ~r.disabled, r.failures < MaxFailures
      PROVE  /\ Failed(r) \in SurfaceRecord /\ Prepared(r) \in SurfaceRecord
             /\ Failed(r).disabled \/ Failed(r).failures < MaxFailures
             /\ Prepared(r).failures < MaxFailures /\ ~Prepared(r).disabled
             /\ Failed(r).key = r.key /\ Failed(r).list = r.list /\ Failed(r).enabled = r.enabled
             /\ Prepared(r).key = r.key /\ Prepared(r).list = r.list /\ Prepared(r).enabled = r.enabled
  <2>1. r.failures + 1 \in 0..MaxFailures /\ 0 \in 0..MaxFailures /\ 0 < MaxFailures
    BY <1>1, FramesAssumption DEF SurfaceRecord
  <2>2. (r.failures + 1 >= MaxFailures) \in BOOLEAN
    OBVIOUS
  <2>3. r.failures + 1 >= MaxFailures \/ r.failures + 1 < MaxFailures
    BY <2>1, FramesAssumption
  <2> QED BY <1>1, <2>1, <2>2, <2>3 DEF SurfaceRecord, Failed, Prepared
<1>2. t.verdict \in {"sound", "unsound"} /\ t.surface \in Surface
  BY DEF Typed, IslandTyped, AtMostOne, Taken
<1> QED
  BY <1>1, <1>2 DEF Typed, TablesTyped, ToSpare, Counted, Vanished, GivenUp, Replaced, Held

LEMMA TypedInit == FramesInit => Typed
<1> SUFFICES ASSUME FramesInit PROVE Typed
  OBVIOUS
<1>1. KeyAtFirst \in [Compact \cup Page -> Key]
  BY FramesAssumption DEF KeyAtFirst
<1>2. \A w \in Surface : AtFirst(w) \in SurfaceRecord /\ AtFirst(w).failures < MaxFailures
  BY <1>1, NewRecordTyped DEF AtFirst, Surface, AtMostOne
<1>3. TablesTyped /\ ToSpare
  BY <1>2, FramesAssumption DEF FramesInit, TablesTyped, ToSpare, Held, AtMostOne
<1>4. copies \in Island
  <2>1. {} \in SUBSET Surface /\ {} \in SUBSET Activity /\ {} \in SUBSET Grid
    OBVIOUS
  <2>2. [w \in {} |-> 0] \in [{} -> 1..MaxStrokes]
    OBVIOUS
  <2>3. [a \in {} |-> [compact |-> {}, page |-> {}]] \in [{} -> ActivityRecord]
    OBVIOUS
  <2> QED BY <2>1, <2>2, <2>3, IslandIs DEF FramesInit
<1> QED BY <1>3, <1>4 DEF Typed, IslandTyped, FramesInit, AtMostOne

(* The services leave the island alone, and the island the services.       *)
LEMMA TypedIsland ==
  ASSUME IslandTyped, IslandRests, {news', due'} \subseteq BOOLEAN
  PROVE  IslandTyped'
BY DEF IslandTyped, IslandRests, framesOfIsland

LEMMA TypedTables ==
  ASSUME TablesTyped, ToSpare, UNCHANGED pluginTables
  PROVE  TablesTyped' /\ ToSpare'
BY DEF TablesTyped, ToSpare, pluginTables, Held

LEMMA TypedStep == Typed /\ [FramesNext]_frameVars => Typed'
<1> SUFFICES ASSUME Typed, [FramesNext]_frameVars PROVE Typed'
  OBVIOUS
<1>0. TablesTyped /\ IslandTyped /\ ToSpare /\ news \in BOOLEAN /\ due \in BOOLEAN
  BY DEF Typed, IslandTyped
<1>s. ASSUME Stroke PROVE strokes' \in 0..MaxStrokes
  BY <1>0, <1>s, FramesAssumption DEF Stroke, TablesTyped
<1>1. ASSUME NEW w \in Compact \cup Page, ListSurfaces(w) PROVE Typed'
  <2>1. TablesTyped' /\ ToSpare'
    BY <1>0, <1>1, <1>s DEF ListSurfaces, TablesTyped, ToSpare, AtMostOne, Held, Surface
  <2> QED BY <1>0, <1>1, <2>1, TypedIsland DEF ListSurfaces, Typed
<1>2. ASSUME NEW w \in Compact \cup Page, NEW k \in Key, CreateSurface(w, k) PROVE Typed'
  <2>1. NewRecord({k}) \in SurfaceRecord /\ NewRecord({k}).failures < MaxFailures
    BY NewRecordTyped DEF AtMostOne
  <2>2. w \in Surface
    BY DEF Surface
  <2>3. {news', due'} \subseteq BOOLEAN /\ IslandRests
    BY <1>0, <1>2 DEF CreateSurface, Wakes
  <2>4. creating' \in [Surface -> AtMostOne(SUBSET Surface)]
    BY <1>0, <1>2 DEF CreateSurface, TablesTyped, AtMostOne
  <2>5. CASE UNCHANGED <<allocated, surfaces, due>>
    BY <1>0, <1>2, <2>3, <2>4, <2>5, TypedIsland
    DEF CreateSurface, Typed, TablesTyped, ToSpare
  <2>6. CASE allocated' = allocated \cup {w} /\ surfaces' = Put(surfaces, w, NewRecord({k}))
    <3>1. surfaces \in [Held(surfaces) -> SurfaceRecord]
      BY <1>0 DEF TablesTyped
    <3>2. /\ surfaces' \in [Held(surfaces) \cup {w} -> SurfaceRecord]
          /\ Held(surfaces') = Held(surfaces) \cup {w}
          /\ surfaces'[w] = NewRecord({k})
          /\ \A y \in Held(surfaces) : y # w => surfaces'[y] = surfaces[y]
      <4> DEFINE f == Put(surfaces, w, NewRecord({k}))
      <4>1. /\ f \in [Held(surfaces) \cup {w} -> SurfaceRecord]
            /\ Held(f) = Held(surfaces) \cup {w}
            /\ f[w] = NewRecord({k})
            /\ \A y \in Held(surfaces) : y # w => f[y] = surfaces[y]
        BY <2>1, <3>1 DEF Put, Held
      <4> HIDE DEF f
      <4>2. surfaces' = f
        BY <2>6 DEF f
      <4> QED BY <4>1, <4>2
    <3>3. TablesTyped'
      BY <1>0, <1>2, <2>2, <2>4, <2>6, <3>2 DEF CreateSurface, TablesTyped
    <3>4. ToSpare'
      BY <1>0, <2>1, <3>2 DEF ToSpare
    <3> QED BY <1>0, <2>3, <3>3, <3>4, TypedIsland DEF Typed
  <2> QED BY <1>2, <2>5, <2>6 DEF CreateSurface
<1>3. ASSUME NEW w \in Grid, CreateWidget(w) PROVE Typed'
  <2>1. NewRecord({}) \in SurfaceRecord /\ NewRecord({}).failures < MaxFailures
    BY NewRecordTyped DEF AtMostOne
  <2>2. w \in Surface
    BY DEF Surface
  <2>3. {news', due'} \subseteq BOOLEAN /\ IslandRests
    BY <1>0, <1>3 DEF CreateWidget, Wakes
  <2>4. surfaces \in [Held(surfaces) -> SurfaceRecord]
    BY <1>0 DEF TablesTyped
  <2>5. /\ surfaces' \in [Held(surfaces) \cup {w} -> SurfaceRecord]
        /\ Held(surfaces') = Held(surfaces) \cup {w}
        /\ surfaces'[w] = NewRecord({})
        /\ \A y \in Held(surfaces) : y # w => surfaces'[y] = surfaces[y]
    <3> DEFINE f == Put(surfaces, w, NewRecord({}))
    <3>1. /\ f \in [Held(surfaces) \cup {w} -> SurfaceRecord]
          /\ Held(f) = Held(surfaces) \cup {w}
          /\ f[w] = NewRecord({})
          /\ \A y \in Held(surfaces) : y # w => f[y] = surfaces[y]
      BY <2>1, <2>4 DEF Put, Held
    <3>2. surfaces' = f
      BY <1>3 DEF CreateWidget
    <3> HIDE DEF f
    <3> QED BY <3>1, <3>2
  <2>6. TablesTyped'
    BY <1>0, <1>3, <1>s, <2>2, <2>5 DEF CreateWidget, TablesTyped
  <2>7. ToSpare'
    BY <1>0, <2>1, <2>5 DEF ToSpare
  <2> QED BY <1>0, <2>3, <2>6, <2>7, TypedIsland DEF Typed
<1>4. ASSUME NEW w \in Compact \cup Page, UpdateSurface(w) PROVE Typed'
  <2>1. {news', due'} \subseteq BOOLEAN /\ IslandRests
    BY <1>0, <1>4 DEF UpdateSurface, Wakes
  <2>2. TablesTyped' /\ ToSpare'
    BY <1>0, <1>4, <1>s DEF UpdateSurface, TablesTyped, ToSpare, SurfaceRecord, Held
  <2> QED BY <1>0, <2>1, <2>2, TypedIsland DEF Typed
<1>5. ASSUME NEW w \in Surface, ReleaseSurface(w) PROVE Typed'
  <2>1. {news', due'} \subseteq BOOLEAN /\ IslandRests
    BY <1>0, <1>5 DEF ReleaseSurface, Wakes
  <2>2. surfaces \in [Held(surfaces) -> SurfaceRecord]
    BY <1>0 DEF TablesTyped
  <2>3. /\ surfaces' \in [Held(surfaces) \ {w} -> SurfaceRecord]
        /\ Held(surfaces') = Held(surfaces) \ {w}
        /\ \A y \in Held(surfaces) \ {w} : surfaces'[y] = surfaces[y]
    <3>1. surfaces' = Without(surfaces, {w})
      BY <1>5 DEF ReleaseSurface
    <3> QED BY <2>2, <3>1, WithoutTyped, Zenon
  <2>4. TablesTyped' /\ ToSpare'
    BY <1>0, <1>5, <1>s, <2>3 DEF ReleaseSurface, TablesTyped, ToSpare
  <2> QED BY <1>0, <2>1, <2>4, TypedIsland DEF Typed
<1>6. ASSUME NEW w \in Surface, NEW uses \in SUBSET Picture, NEW malformed \in BOOLEAN,
             SubmitDrawList(w, uses, malformed)
      PROVE Typed'
  <2>1. {news', due'} \subseteq BOOLEAN /\ IslandRests
    BY <1>0, <1>6 DEF SubmitDrawList, Wakes
  <2>2. [serial |-> strokes + 1, uses |-> uses, malformed |-> malformed] \in DrawList
    BY <1>0, <1>6, FramesAssumption DEF SubmitDrawList, Stroke, TablesTyped, DrawList
  <2>3. TablesTyped' /\ ToSpare'
    BY <1>0, <1>6, <1>s, <2>2
    DEF SubmitDrawList, TablesTyped, ToSpare, SurfaceRecord, Held, Drawable
  <2> QED BY <1>0, <2>1, <2>3, TypedIsland DEF Typed
<1>7. ASSUME NEW p \in Picture, AddImage(p) \/ ReleaseImage(p) PROVE Typed'
  <2>1. {news', due'} \subseteq BOOLEAN /\ IslandRests
    BY <1>0, <1>7 DEF AddImage, ReleaseImage
  <2>2. TablesTyped' /\ ToSpare'
    BY <1>0, <1>7, <1>s DEF AddImage, ReleaseImage, TablesTyped, ToSpare
  <2> QED BY <1>0, <2>1, <2>2, TypedIsland DEF Typed
<1>8. ASSUME NEW a \in Activity, NEW spec \in ActivityRecord, AnnounceActivity(a, spec)
      PROVE Typed'
  <2>1. {news', due'} \subseteq BOOLEAN /\ IslandRests
    BY <1>0, <1>8 DEF AnnounceActivity, Wakes
  <2>2. activities \in [Held(activities) -> ActivityRecord]
    BY <1>0 DEF TablesTyped
  <2>3. /\ activities' \in [Held(activities) \cup {a} -> ActivityRecord]
        /\ Held(activities') = Held(activities) \cup {a}
    <3> DEFINE f == Put(activities, a, spec)
    <3>1. /\ f \in [Held(activities) \cup {a} -> ActivityRecord]
          /\ Held(f) = Held(activities) \cup {a}
      BY <2>2 DEF Put, Held
    <3>2. activities' = f
      BY <1>8 DEF AnnounceActivity
    <3> HIDE DEF f
    <3> QED BY <3>1, <3>2
  <2>4. TablesTyped' /\ ToSpare'
    BY <1>0, <1>8, <1>s, <2>3 DEF AnnounceActivity, TablesTyped, ToSpare
  <2> QED BY <1>0, <2>1, <2>4, TypedIsland DEF Typed
<1>9. ASSUME NEW a \in Activity, ReleaseActivity(a) PROVE Typed'
  <2>1. {news', due'} \subseteq BOOLEAN /\ IslandRests
    BY <1>0, <1>9 DEF ReleaseActivity, Wakes
  <2>2. activities \in [Held(activities) -> ActivityRecord]
    BY <1>0 DEF TablesTyped
  <2>3. /\ activities' \in [Held(activities) \ {a} -> ActivityRecord]
        /\ Held(activities') = Held(activities) \ {a}
    <3>1. activities' = Without(activities, {a})
      BY <1>9 DEF ReleaseActivity
    <3> QED BY <2>2, <3>1, WithoutTyped, Zenon
  <2>4. TablesTyped' /\ ToSpare'
    BY <1>0, <1>9, <1>s, <2>3 DEF ReleaseActivity, TablesTyped, ToSpare
  <2> QED BY <1>0, <2>1, <2>4, TypedIsland DEF Typed
<1>10. ASSUME RevokePlugin PROVE Typed'
  <2>1. IslandRests /\ news' \in BOOLEAN /\ due' \in BOOLEAN
    BY <1>0, <1>10 DEF RevokePlugin
  <2>2. /\ surfaces \in [Held(surfaces) -> SurfaceRecord]
        /\ activities \in [Held(activities) -> ActivityRecord]
    BY <1>0 DEF TablesTyped
  <2>3. /\ surfaces' \in [Held(surfaces) \ Surface -> SurfaceRecord]
        /\ Held(surfaces') = Held(surfaces) \ Surface
        /\ activities' \in [Held(activities) \ Activity -> ActivityRecord]
        /\ Held(activities') = Held(activities) \ Activity
    <3>1. surfaces' = Without(surfaces, Surface) /\ activities' = Without(activities, Activity)
      BY <1>10 DEF RevokePlugin
    <3> QED BY <2>2, <3>1, WithoutTyped, Zenon
  <2>4. TablesTyped'
    BY <1>0, <1>10, <2>3 DEF RevokePlugin, TablesTyped
  <2>5. ToSpare'
    BY <1>0, <2>3 DEF TablesTyped, ToSpare
  <2> QED BY <1>0, <2>1, <2>4, <2>5, TypedIsland DEF Typed
<1>11. ASSUME Redraw \/ DrawSettings PROVE Typed'
  <2>1. copies.grid \subseteq Grid
    BY <1>0, IslandHas DEF IslandTyped
  <2>2. IslandTyped'
    BY <1>0, <1>11, <2>1 DEF Redraw, DrawSettings, IslandTyped, Surface
  <2> QED BY <1>0, <1>11, <2>2, TypedTables DEF Typed, Redraw, DrawSettings
<1>12. ASSUME RefreshWidgets PROVE Typed'
  <2> DEFINE left == copies.ids \ Drawable
             c == [ids |-> Drawable, grid |-> (copies.grid \ left) \cup todo,
                   frames |-> Without(copies.frames, left), activities |-> copies.activities]
  <2>1. copies' = c
    <3>1. copies = [ids |-> copies.ids, grid |-> copies.grid, frames |-> copies.frames,
                    activities |-> copies.activities]
      BY <1>0, IslandHas, Zenon DEF IslandTyped
    <3>2. copies' = [copies EXCEPT !.ids = Drawable, !.grid = (copies.grid \ left) \cup todo,
                                   !.frames = Without(copies.frames, left)]
      BY <1>12 DEF RefreshWidgets
    <3> HIDE DEF left
    <3> QED BY <3>1, <3>2
  <2>2. Drawable \subseteq Surface
    BY <1>0 DEF Drawable, TablesTyped
  <2>3. copies' \in Island
    <3>0. copies \in Island /\ todo \subseteq Grid
      BY <1>0, <1>12 DEF IslandTyped, RefreshWidgets
    <3>1. /\ copies.grid \subseteq Grid /\ Held(copies.frames) \subseteq Surface
          /\ copies.frames \in [Held(copies.frames) -> 1..MaxStrokes]
          /\ Held(copies.activities) \subseteq Activity
          /\ copies.activities \in [Held(copies.activities) -> ActivityRecord]
      BY <3>0, IslandHas
    <3>2. Without(copies.frames, left) \in [Held(copies.frames) \ left -> 1..MaxStrokes]
      BY <3>1, WithoutTyped, Zenon
    <3>3. /\ Held(copies.frames) \ left \in SUBSET Surface
          /\ (copies.grid \ left) \cup todo \in SUBSET Grid
      BY <3>0, <3>1
    <3> QED BY <2>1, <2>2, <3>1, <3>2, <3>3, IslandIs
  <2>4. IslandTyped'
    BY <1>0, <1>12, <2>2, <2>3 DEF RefreshWidgets, IslandTyped
  <2> QED BY <1>0, <1>12, <2>4, TypedTables DEF Typed, RefreshWidgets
<1>13. ASSUME NEW w \in Surface, TakeList(w) PROVE Typed'
  <2>1. IslandTyped'
    BY <1>0, <1>13 DEF TakeList, IslandTyped, AtMostOne, Taken, TablesTyped, SurfaceRecord
  <2> QED BY <1>0, <1>13, <2>1, TypedTables DEF Typed, TakeList
<1>14. ASSUME JudgeList PROVE Typed'
  <2>1. IslandTyped'
    BY <1>0, <1>14 DEF JudgeList, IslandTyped, AtMostOne, Taken
  <2> QED BY <1>0, <1>14, <2>1, TypedTables DEF Typed, JudgeList
<1>15. ASSUME SettleFrame PROVE Typed'
  <2>1. PICK t \in taken :
          /\ t.verdict # "none" /\ taken' = {} /\ todo' = todo \ {t.surface}
          /\ surfaces' = Counted(t) /\ news' = Revised(surfaces')
          /\ copies' = IF stage = "frames"
                       THEN [copies EXCEPT !.frames = FramesAfter(t, surfaces')] ELSE copies
          /\ UNCHANGED <<standing, creating, allocated, pictures, activities, strokes, due, stage>>
    BY <1>15 DEF SettleFrame
  <2>2. /\ surfaces' \in [Held(surfaces) -> SurfaceRecord]
        /\ Held(surfaces') = Held(surfaces)
        /\ \A w \in Held(surfaces) : surfaces'[w].disabled \/ surfaces'[w].failures < MaxFailures
    BY <2>1, CountedTyped
  <2>3. TablesTyped' /\ ToSpare'
    BY <1>0, <2>1, <2>2 DEF TablesTyped, ToSpare
  <2>4. news' \in BOOLEAN
    BY <1>0, <2>1 DEF Revised
  <2>5. copies' \in Island
    <3>0. copies \in Island
      BY <1>0 DEF IslandTyped
    <3>1. /\ copies.frames \in [Held(copies.frames) -> 1..MaxStrokes]
          /\ Held(copies.frames) \subseteq Surface
      BY <3>0, IslandHas
    <3>2. t.surface \in Surface /\ t.list.serial \in 1..MaxStrokes
      BY <1>0 DEF IslandTyped, AtMostOne, Taken, DrawList
    <3>3. \E S \in SUBSET Surface : FramesAfter(t, surfaces') \in [S -> 1..MaxStrokes]
      <4>1. Without(copies.frames, {t.surface}) \in [Held(copies.frames) \ {t.surface} -> 1..MaxStrokes]
        BY <3>1, WithoutTyped, Zenon
      <4>2. Put(copies.frames, t.surface, t.list.serial)
              \in [Held(copies.frames) \cup {t.surface} -> 1..MaxStrokes]
        BY <3>1, <3>2, PutTyped, Zenon
      <4>3. /\ Held(copies.frames) \ {t.surface} \in SUBSET Surface
            /\ Held(copies.frames) \cup {t.surface} \in SUBSET Surface
        BY <3>1, <3>2
      <4> QED BY <3>1, <4>1, <4>2, <4>3 DEF FramesAfter
    <3> DEFINE f == FramesAfter(t, surfaces')
    <3> HIDE DEF f
    <3>4. [copies EXCEPT !.frames = f]
            = [ids |-> copies.ids, grid |-> copies.grid, frames |-> f, activities |-> copies.activities]
      BY <3>0, IslandHas
    <3>5. [copies EXCEPT !.frames = f] \in Island
      BY <3>0, <3>3, <3>4, IslandHas, IslandIs DEF f
    <3> QED BY <2>1, <3>0, <3>5 DEF f
  <2>6. IslandTyped'
    BY <1>0, <2>1, <2>4, <2>5 DEF IslandTyped, AtMostOne
  <2> QED BY <2>3, <2>6 DEF Typed
<1>16. ASSUME FramesPrepared PROVE Typed'
  <2>1. IslandTyped'
    BY <1>0, <1>16 DEF FramesPrepared, IslandTyped
  <2> QED BY <1>0, <1>16, <2>1, TypedTables DEF Typed, FramesPrepared
<1>17. ASSUME RefreshActivities PROVE Typed'
  <2>1. copies' \in Island
    <3>0. copies \in Island
      BY <1>0 DEF IslandTyped
    <3>1. Held(Announced) \subseteq Activity /\ Announced \in [Held(Announced) -> ActivityRecord]
      BY <1>0, AnnouncedTyped
    <3>2. [copies EXCEPT !.activities = Announced]
            = [ids |-> copies.ids, grid |-> copies.grid, frames |-> copies.frames, activities |-> Announced]
      BY <3>0, IslandHas
    <3>3. [copies EXCEPT !.activities = Announced] \in Island
      BY <3>0, <3>1, <3>2, IslandHas, IslandIs
    <3> QED BY <1>17, <3>0, <3>3 DEF RefreshActivities
  <2>2. IslandTyped'
    BY <1>0, <1>17, <2>1 DEF RefreshActivities, IslandTyped
  <2> QED BY <1>0, <1>17, <2>2, TypedTables DEF Typed, RefreshActivities
<1>18. ASSUME UNCHANGED frameVars PROVE Typed'
  BY <1>0, <1>18, TypedTables DEF Typed, frameVars, IslandTyped, framesOfIsland
<1> QED
  BY <1>1, <1>2, <1>3, <1>4, <1>5, <1>6, <1>7, <1>8, <1>9, <1>10, <1>11, <1>12, <1>13,
     <1>14, <1>15, <1>16, <1>17, <1>18 DEF FramesNext, PluginDraws, Preparing

(* Every record, list, frame and copy is what it should be.                *)
THEOREM FramesTyped == FramesSpec => []FramesTypeOK
<1>1. Typed => FramesTypeOK
  BY DEF Typed, TablesTyped, IslandTyped, FramesTypeOK, Taken, AtMostOne, Range, Held
<1> QED BY <1>1, TypedInit, TypedStep, PTL DEF FramesSpec

-----------------------------------------------------------------------------
(* What the records become, seen from a record that is there afterwards.   *)
LEMMA WithoutRecord ==
  ASSUME NEW f, NEW S
  PROVE  /\ Held(Without(f, S)) = Held(f) \ S
         /\ \A y \in Held(f) \ S : Without(f, S)[y] = f[y]
BY DEF Without, Held, Restrict

(* A list is judged by images that were given away before it was submitted,*)
(* so what is found wrong with it stays wrong.                             *)
ListsAllocated ==
  /\ \A w \in Held(surfaces) : surfaces[w].list.uses \subseteq allocated
  /\ \A t \in taken : t.list.uses \subseteq allocated
Judged == \A t \in taken : t.verdict = "unsound" => ~Sound(t.list)

CauseInv == ListsAllocated /\ Judged /\ DisabledForCause

LEMMA CauseInit == FramesInit => CauseInv
BY DEF FramesInit, CauseInv, ListsAllocated, Judged, DisabledForCause, AtFirst, NewRecord,
   NoList, Held

LEMMA CauseStep == Typed /\ CauseInv /\ [FramesNext]_frameVars => CauseInv'
<1> SUFFICES ASSUME Typed, CauseInv, [FramesNext]_frameVars PROVE CauseInv'
  OBVIOUS
<1> USE DEF CauseInv, ListsAllocated, Judged, DisabledForCause, Sound
<1>0. TablesTyped /\ IslandTyped
  BY DEF Typed
<1>1. ASSUME NEW w \in Compact \cup Page, ListSurfaces(w) \/ UpdateSurface(w) PROVE CauseInv'
  BY <1>0, <1>1 DEF ListSurfaces, UpdateSurface, IslandRests, framesOfIsland, Held, TablesTyped,
     SurfaceRecord
<1>2. ASSUME NEW w \in Compact \cup Page, NEW k \in Key, CreateSurface(w, k) PROVE CauseInv'
  <2>1. CASE UNCHANGED <<allocated, surfaces, due>>
    BY <1>2, <2>1 DEF CreateSurface, IslandRests, framesOfIsland
  <2>2. CASE allocated' = allocated \cup {w} /\ surfaces' = Put(surfaces, w, NewRecord({k}))
    <3> DEFINE f == Put(surfaces, w, NewRecord({k}))
    <3>1. /\ Held(f) = Held(surfaces) \cup {w}
          /\ f[w] = NewRecord({k})
          /\ \A y \in Held(surfaces) : y # w => f[y] = surfaces[y]
      BY DEF Put, Held
    <3> HIDE DEF f
    <3>2. surfaces' = f
      BY <2>2 DEF f
    <3>3. pictures' = pictures /\ taken' = taken
      BY <1>2 DEF CreateSurface, IslandRests, framesOfIsland
    <3>4. allocated' = allocated \cup {w}
      BY <2>2
    <3> QED BY <3>1, <3>2, <3>3, <3>4 DEF NewRecord, NoList
  <2> QED BY <1>2, <2>1, <2>2 DEF CreateSurface
<1>3. ASSUME NEW w \in Grid, CreateWidget(w) PROVE CauseInv'
  <2> DEFINE f == Put(surfaces, w, NewRecord({}))
  <2>1. /\ Held(f) = Held(surfaces) \cup {w}
        /\ f[w] = NewRecord({})
        /\ \A y \in Held(surfaces) : y # w => f[y] = surfaces[y]
    BY DEF Put, Held
  <2>2. surfaces' = f
    BY <1>3 DEF CreateWidget
  <2> HIDE DEF f
  <2> QED BY <1>3, <2>1, <2>2 DEF CreateWidget, IslandRests, framesOfIsland, NewRecord, NoList
<1>4. ASSUME NEW w \in Surface, ReleaseSurface(w) PROVE CauseInv'
  <2> DEFINE f == Without(surfaces, {w})
  <2>1. Held(f) = Held(surfaces) \ {w} /\ \A y \in Held(surfaces) \ {w} : f[y] = surfaces[y]
    BY WithoutRecord, Zenon
  <2>2. surfaces' = f
    BY <1>4 DEF ReleaseSurface
  <2> HIDE DEF f
  <2> QED BY <1>4, <2>1, <2>2 DEF ReleaseSurface, IslandRests, framesOfIsland
<1>5. ASSUME NEW w \in Surface, NEW uses \in SUBSET Picture, NEW malformed \in BOOLEAN,
             SubmitDrawList(w, uses, malformed)
      PROVE CauseInv'
  BY <1>0, <1>5 DEF SubmitDrawList, IslandRests, framesOfIsland, Held, Drawable, TablesTyped,
     SurfaceRecord
<1>6. ASSUME NEW p \in Picture, AddImage(p) PROVE CauseInv'
  BY <1>6 DEF AddImage, Unused, IslandRests, framesOfIsland
<1>7. ASSUME NEW p \in Picture, ReleaseImage(p) PROVE CauseInv'
  BY <1>7 DEF ReleaseImage, IslandRests, framesOfIsland
<1>8. ASSUME NEW a \in Activity,
             ReleaseActivity(a) \/ \E spec \in ActivityRecord : AnnounceActivity(a, spec)
      PROVE CauseInv'
  BY <1>8 DEF AnnounceActivity, ReleaseActivity, IslandRests, framesOfIsland
<1>9. ASSUME RevokePlugin PROVE CauseInv'
  <2> DEFINE f == Without(surfaces, Surface)
  <2>1. Held(f) = Held(surfaces) \ Surface
    BY WithoutRecord, Zenon
  <2>2. Held(f) = {}
    BY <1>0, <2>1 DEF TablesTyped
  <2>3. surfaces' = f
    BY <1>9 DEF RevokePlugin
  <2> HIDE DEF f
  <2> QED BY <1>9, <2>2, <2>3 DEF RevokePlugin, IslandRests, framesOfIsland
<1>10. ASSUME NEW w \in Surface, TakeList(w) PROVE CauseInv'
  BY <1>10 DEF TakeList, pluginTables
<1>11. ASSUME JudgeList PROVE CauseInv'
  BY <1>0, <1>11 DEF JudgeList, pluginTables, IslandTyped, AtMostOne, Taken
<1>12. ASSUME SettleFrame PROVE CauseInv'
  <2>1. PICK t \in taken :
          /\ t.verdict # "none" /\ taken' = {} /\ surfaces' = Counted(t)
          /\ UNCHANGED <<allocated, pictures>>
    BY <1>12 DEF SettleFrame
  <2> DEFINE f == Counted(t)
  <2>2. /\ Held(f) = Held(surfaces)
        /\ \A w \in Held(surfaces) :
             /\ f[w].list = surfaces[w].list
             /\ f[w].disabled => surfaces[w].disabled
                  \/ (w = t.surface /\ t.verdict = "unsound" /\ surfaces[w].list = t.list)
    BY <2>1, CountedTyped
  <2>3. surfaces' = f
    BY <2>1
  <2> HIDE DEF f
  <2> QED BY <2>1, <2>2, <2>3
<1>13. ASSUME Redraw \/ RefreshWidgets \/ FramesPrepared \/ RefreshActivities \/ DrawSettings
              \/ UNCHANGED frameVars
       PROVE CauseInv'
  BY <1>13 DEF Redraw, RefreshWidgets, FramesPrepared, RefreshActivities, DrawSettings,
     pluginTables, frameVars, framesOfIsland
<1> HIDE DEF CauseInv, ListsAllocated, Judged, DisabledForCause, Sound
<1> QED
  BY <1>1, <1>2, <1>3, <1>4, <1>5, <1>6, <1>7, <1>8, <1>9, <1>10, <1>11, <1>12, <1>13
  DEF FramesNext, PluginDraws, Preparing

(* A surface is given up for the list it has, however lists and verdicts   *)
(* follow each other.                                                      *)
THEOREM GivenUpForCause == FramesSpec => []DisabledForCause
<1>1. Typed /\ CauseInv => DisabledForCause
  BY DEF CauseInv
<1> QED BY <1>1, TypedInit, TypedStep, CauseInit, CauseStep, PTL DEF FramesSpec

-----------------------------------------------------------------------------
(* The frames.  What the island has is of surfaces it knows, what it knows *)
(* is there unless a redraw is due, and what has been prepared since the   *)
(* redraw began is up to date unless another one is due.                   *)
InHand ==
  /\ taken # {} => stage \in {"frames", "settings"}
  /\ \A t \in taken : t.surface \in todo
  /\ stage = "frames" => todo \subseteq copies.ids
FramesOfKnown == Held(copies.frames) \subseteq copies.ids
KnownAreThere == ~due /\ stage # "ids" => copies.ids \subseteq Held(surfaces)
SameList ==
  ~due => \A t \in taken : t.surface \in Held(surfaces) => surfaces[t.surface].list = t.list
Shown ==
  ~due /\ stage # "ids" =>
    \A w \in Drawable : UpToDate(w) \/ (stage = "frames" /\ w \in todo)

ShownInv == InHand /\ FramesOfKnown /\ KnownAreThere /\ SameList /\ Shown

LEMMA ShownInit == FramesInit => ShownInv
<1> SUFFICES ASSUME FramesInit PROVE ShownInv
  OBVIOUS
<1>1. ~due => Drawable = {}
  BY DEF FramesInit, Drawable, Held
<1>2. taken = {} /\ stage = "idle" /\ copies.ids = {} /\ Held(copies.frames) = {}
  BY DEF FramesInit, Held
<1> QED BY <1>1, <1>2 DEF ShownInv, InHand, FramesOfKnown, KnownAreThere, SameList, Shown

(* A plugin that wakes the island can leave it as it is.                   *)
LEMMA ShownIfDue ==
  ASSUME ShownInv, IslandRests, due' = TRUE
  PROVE  ShownInv'
BY DEF ShownInv, InHand, FramesOfKnown, KnownAreThere, SameList, Shown, IslandRests, framesOfIsland

LEMMA ShownIfSame ==
  ASSUME ShownInv, IslandRests, UNCHANGED <<surfaces, due>>,
         \A w \in Held(surfaces) : Sound(surfaces[w].list)' => Sound(surfaces[w].list)
  PROVE  ShownInv'
<1>1. Drawable' = Drawable /\ UNCHANGED <<stage, todo, taken, copies, surfaces, due>>
  BY DEF Drawable, IslandRests, framesOfIsland
<1>2. \A w \in Drawable : UpToDate(w) => UpToDate(w)'
  BY <1>1 DEF UpToDate, Drawable
<1> QED
  BY <1>1, <1>2 DEF ShownInv, InHand, FramesOfKnown, KnownAreThere, SameList, Shown

LEMMA ShownStep == Typed /\ CauseInv /\ ShownInv /\ [FramesNext]_frameVars => ShownInv'
<1> SUFFICES ASSUME Typed, CauseInv, ShownInv, [FramesNext]_frameVars PROVE ShownInv'
  OBVIOUS
<1>0. TablesTyped /\ IslandTyped
  BY DEF Typed
<1>1. ASSUME NEW w \in Compact \cup Page, ListSurfaces(w) \/ UpdateSurface(w) PROVE ShownInv'
  <2>1. CASE UpdateSurface(w)
    BY <2>1, ShownIfDue DEF UpdateSurface, Wakes
  <2>2. CASE ListSurfaces(w)
    <3>1. IslandRests /\ UNCHANGED <<surfaces, due, pictures>>
      BY <2>2 DEF ListSurfaces
    <3>2. \A v \in Held(surfaces) : Sound(surfaces[v].list)' => Sound(surfaces[v].list)
      BY <3>1 DEF Sound
    <3> QED BY <3>1, <3>2, ShownIfSame
  <2> QED BY <1>1, <2>1, <2>2
<1>2. ASSUME NEW w \in Compact \cup Page, NEW k \in Key, CreateSurface(w, k) PROVE ShownInv'
  <2>1. IslandRests /\ pictures' = pictures
    BY <1>2 DEF CreateSurface
  <2>2. CASE UNCHANGED <<allocated, surfaces, due>>
    <3>1. \A v \in Held(surfaces) : Sound(surfaces[v].list)' => Sound(surfaces[v].list)
      BY <2>1, <2>2 DEF Sound
    <3> QED BY <2>1, <2>2, <3>1, ShownIfSame
  <2>3. CASE due' = TRUE
    BY <2>1, <2>3, ShownIfDue
  <2> QED BY <1>2, <2>2, <2>3 DEF CreateSurface, Wakes
<1>3. ASSUME NEW w \in Grid, CreateWidget(w) PROVE ShownInv'
  BY <1>3, ShownIfDue DEF CreateWidget, Wakes
<1>4. ASSUME NEW w \in Surface, ReleaseSurface(w) PROVE ShownInv'
  BY <1>4, ShownIfDue DEF ReleaseSurface, Wakes
<1>5. ASSUME NEW w \in Surface, NEW uses \in SUBSET Picture, NEW malformed \in BOOLEAN,
             SubmitDrawList(w, uses, malformed)
      PROVE ShownInv'
  BY <1>5, ShownIfDue DEF SubmitDrawList, Wakes
<1>6. ASSUME NEW p \in Picture, AddImage(p) \/ ReleaseImage(p) PROVE ShownInv'
  <2>1. IslandRests /\ UNCHANGED <<surfaces, due>>
    BY <1>6 DEF AddImage, ReleaseImage
  <2>2. \A w \in Held(surfaces) : Sound(surfaces[w].list)' => Sound(surfaces[w].list)
    BY <1>6, <2>1 DEF AddImage, ReleaseImage, Unused, Sound, CauseInv, ListsAllocated
  <2> QED BY <2>1, <2>2, ShownIfSame
<1>7. ASSUME NEW a \in Activity,
             ReleaseActivity(a) \/ \E spec \in ActivityRecord : AnnounceActivity(a, spec)
      PROVE ShownInv'
  BY <1>7, ShownIfDue DEF ReleaseActivity, AnnounceActivity, Wakes
<1>8. ASSUME RevokePlugin PROVE ShownInv'
  <2> DEFINE f == Without(surfaces, Surface)
  <2>1. Held(f) = Held(surfaces) \ Surface
    BY WithoutRecord, Zenon
  <2>2. Held(f) = {}
    BY <1>0, <2>1 DEF TablesTyped
  <2>3. surfaces' = f
    BY <1>8 DEF RevokePlugin
  <2> HIDE DEF f
  <2>4. Drawable' = {}
    BY <2>2, <2>3 DEF Drawable
  <2>5. ~due' => ~due /\ Held(surfaces) = {}
    BY <1>0, <1>8 DEF RevokePlugin, IslandTyped
  <2>6. UNCHANGED <<stage, todo, taken, copies>>
    BY <1>8 DEF RevokePlugin, IslandRests, framesOfIsland
  <2> QED BY <2>2, <2>3, <2>4, <2>5, <2>6
          DEF ShownInv, InHand, FramesOfKnown, KnownAreThere, SameList, Shown
<1>9. ASSUME Redraw PROVE ShownInv'
  BY <1>9 DEF Redraw, ShownInv, InHand, FramesOfKnown, KnownAreThere, SameList, Shown
<1>10. ASSUME RefreshWidgets PROVE ShownInv'
  <2> DEFINE left == copies.ids \ Drawable
             f == Without(copies.frames, left)
  <2>1. Held(f) = Held(copies.frames) \ left
    BY WithoutRecord, Zenon
  <2>2. copies'.ids = Drawable /\ copies'.frames = f
    BY <1>0, <1>10, IslandHas DEF RefreshWidgets, IslandTyped
  <2> HIDE DEF f
  <2>3. stage' = "frames" /\ todo' = Drawable /\ UNCHANGED <<surfaces, taken, due>> /\ stage = "ids"
    BY <1>10 DEF RefreshWidgets, pluginTables
  <2>4. Drawable' = Drawable /\ Drawable \subseteq Held(surfaces)
    BY <2>3 DEF Drawable
  <2>5. taken = {}
    BY <2>3 DEF ShownInv, InHand
  <2> QED BY <2>1, <2>2, <2>3, <2>4, <2>5
          DEF ShownInv, InHand, FramesOfKnown, KnownAreThere, SameList, Shown
<1>11. ASSUME NEW w \in Surface, TakeList(w) PROVE ShownInv'
  <2>1. UNCHANGED <<surfaces, pictures, due, stage, copies>> /\ w \in todo
    BY <1>11 DEF TakeList, pluginTables
  <2>2. Drawable' = Drawable /\ \A v : UpToDate(v) => UpToDate(v)'
    BY <2>1 DEF Drawable, UpToDate, Sound
  <2>3. CASE w \in Held(surfaces) /\ surfaces[w].list # NoList
    BY <1>11, <2>1, <2>2, <2>3
    DEF TakeList, ShownInv, InHand, FramesOfKnown, KnownAreThere, SameList, Shown
  <2>4. CASE ~(w \in Held(surfaces) /\ surfaces[w].list # NoList)
    <3>1. w \in Drawable => UpToDate(w)
      BY <2>4 DEF Drawable, UpToDate
    <3> QED BY <1>11, <2>1, <2>2, <2>4, <3>1
            DEF TakeList, ShownInv, InHand, FramesOfKnown, KnownAreThere, SameList, Shown
  <2> QED BY <2>3, <2>4
<1>12. ASSUME JudgeList PROVE ShownInv'
  <2>1. UNCHANGED <<surfaces, pictures, due, stage, todo, copies>>
    BY <1>12 DEF JudgeList, pluginTables
  <2>2. Drawable' = Drawable /\ \A v : UpToDate(v) => UpToDate(v)'
    BY <2>1 DEF Drawable, UpToDate, Sound
  <2>3. PICK t \in taken : taken' = {[t EXCEPT !.verdict = IF Sound(t.list) THEN "sound" ELSE "unsound"]}
    BY <1>12 DEF JudgeList
  <2>4. \A u \in taken' : u.surface = t.surface /\ u.list = t.list
    BY <1>0, <2>3 DEF IslandTyped, AtMostOne, Taken
  <2> QED BY <2>1, <2>2, <2>3, <2>4
          DEF ShownInv, InHand, FramesOfKnown, KnownAreThere, SameList, Shown
<1>13. ASSUME SettleFrame PROVE ShownInv'
  <2>1. PICK t \in taken :
          /\ t.verdict # "none" /\ taken' = {} /\ todo' = todo \ {t.surface}
          /\ surfaces' = Counted(t)
          /\ copies' = IF stage = "frames"
                       THEN [copies EXCEPT !.frames = FramesAfter(t, surfaces')] ELSE copies
          /\ UNCHANGED <<pictures, due, stage>>
    BY <1>13 DEF SettleFrame
  <2> DEFINE g == Counted(t)
  <2>2. /\ Held(g) = Held(surfaces)
        /\ \A w \in Held(surfaces) :
             g[w].list = surfaces[w].list /\ (surfaces[w].disabled => g[w].disabled)
    BY <2>1, CountedTyped
  <2>3. surfaces' = g
    BY <2>1
  <2> HIDE DEF g
  <2>4. Drawable' \subseteq Drawable
    BY <2>2, <2>3 DEF Drawable
  <2>5. CASE stage = "settings"
    <3>1. copies' = copies
      BY <2>1, <2>5
    <3>2. \A w \in Drawable' : UpToDate(w) => UpToDate(w)'
      BY <2>1, <2>2, <2>3, <3>1 DEF Drawable, UpToDate, Sound
    <3> QED BY <2>1, <2>2, <2>3, <2>4, <2>5, <3>1, <3>2
            DEF ShownInv, InHand, FramesOfKnown, KnownAreThere, SameList, Shown
  <2>6. CASE stage = "frames"
    <3> DEFINE f == FramesAfter(t, surfaces')
    <3>1. copies'.ids = copies.ids /\ copies'.frames = f
      BY <1>0, <2>1, <2>6, IslandHas DEF IslandTyped
    <3>2. /\ Held(Put(copies.frames, t.surface, t.list.serial)) = Held(copies.frames) \cup {t.surface}
          /\ Put(copies.frames, t.surface, t.list.serial)[t.surface] = t.list.serial
          /\ \A y \in Held(copies.frames) :
               y # t.surface => Put(copies.frames, t.surface, t.list.serial)[y] = copies.frames[y]
      BY DEF Put, Held
    <3>3. /\ Held(Without(copies.frames, {t.surface})) = Held(copies.frames) \ {t.surface}
          /\ \A y \in Held(copies.frames) \ {t.surface} :
               Without(copies.frames, {t.surface})[y] = copies.frames[y]
      BY WithoutRecord, Zenon
    <3>4. /\ Held(f) \subseteq Held(copies.frames) \cup {t.surface}
          /\ \A y \in Held(copies.frames) : y # t.surface => y \in Held(f) /\ f[y] = copies.frames[y]
          /\ t.surface \in Drawable' /\ t.verdict = "sound" =>
               t.surface \in Held(f) /\ f[t.surface] = t.list.serial
      <4>1. CASE Vanished(t)
        BY <2>2, <2>3, <4>1 DEF FramesAfter, Vanished, Drawable
      <4>2. CASE ~Vanished(t)
        BY <3>2, <3>3, <4>2 DEF FramesAfter, Drawable
      <4> QED BY <4>1, <4>2
    <3> HIDE DEF f
    <3>5. t.surface \in todo /\ todo \subseteq copies.ids
      BY <2>6 DEF ShownInv, InHand
    <3>6. InHand' /\ FramesOfKnown'
      BY <2>1, <2>6, <3>1, <3>4, <3>5 DEF ShownInv, InHand, FramesOfKnown
    <3>7. KnownAreThere' /\ SameList'
      BY <2>1, <2>2, <2>3, <3>1 DEF ShownInv, KnownAreThere, SameList
    <3>8. ASSUME ~due, NEW w \in Drawable', w # t.surface
          PROVE  UpToDate(w)' \/ w \in todo'
      <4>1. UpToDate(w) \/ w \in todo
        BY <2>4, <2>6, <3>8 DEF ShownInv, Shown
      <4>2. w \in Held(surfaces) /\ surfaces'[w].list = surfaces[w].list
        BY <2>2, <2>3, <2>4 DEF Drawable
      <4>3. UpToDate(w) => UpToDate(w)'
        BY <2>1, <3>1, <3>4, <3>8, <4>2 DEF UpToDate, Sound
      <4> QED BY <2>1, <3>8, <4>1, <4>3
    <3>9. ASSUME ~due, t.surface \in Drawable'
          PROVE  UpToDate(t.surface)'
      <4>1. t.surface \in Held(surfaces)
        BY <2>4, <3>9 DEF Drawable
      <4>2. surfaces'[t.surface].list = t.list
        BY <2>2, <2>3, <3>9, <4>1 DEF ShownInv, SameList
      <4>3. t.verdict \in {"sound", "unsound"}
        BY <1>0, <2>1 DEF IslandTyped, AtMostOne, Taken
      <4>4. t.verdict = "unsound" => ~Sound(t.list)
        BY DEF CauseInv, Judged
      <4> QED BY <2>1, <3>1, <3>4, <3>9, <4>2, <4>3, <4>4 DEF UpToDate, Sound
    <3>10. Shown'
      BY <2>1, <3>8, <3>9, <2>6 DEF Shown
    <3> QED BY <3>6, <3>7, <3>10 DEF ShownInv
  <2>7. stage \in {"frames", "settings"}
    BY <2>1 DEF ShownInv, InHand
  <2> QED BY <2>5, <2>6, <2>7
<1>14. ASSUME FramesPrepared \/ RefreshActivities \/ DrawSettings PROVE ShownInv'
  <2>1. UNCHANGED <<surfaces, pictures, due, taken>> /\ copies'.ids = copies.ids
        /\ copies'.frames = copies.frames
    BY <1>0, <1>14, IslandHas
    DEF FramesPrepared, RefreshActivities, DrawSettings, pluginTables, IslandTyped
  <2>2. Drawable' = Drawable /\ \A v : UpToDate(v) => UpToDate(v)'
    BY <2>1 DEF Drawable, UpToDate, Sound
  <2>3. stage # "ids" /\ stage' \in {"activities", "idle", "settings"} /\ (stage = "frames" => todo = {})
        /\ taken = {}
    BY <1>14 DEF FramesPrepared, RefreshActivities, DrawSettings, ShownInv, InHand
  <2> QED BY <2>1, <2>2, <2>3
          DEF ShownInv, InHand, FramesOfKnown, KnownAreThere, SameList, Shown
<1>15. ASSUME UNCHANGED frameVars PROVE ShownInv'
  <2>1. IslandRests /\ UNCHANGED <<surfaces, due, pictures>>
    BY <1>15 DEF frameVars, pluginTables, IslandRests
  <2>2. \A v \in Held(surfaces) : Sound(surfaces[v].list)' => Sound(surfaces[v].list)
    BY <2>1 DEF Sound
  <2> QED BY <2>1, <2>2, ShownIfSame
<1> QED
  BY <1>1, <1>2, <1>3, <1>4, <1>5, <1>6, <1>7, <1>8, <1>9, <1>10, <1>11, <1>12, <1>13, <1>14,
     <1>15 DEF FramesNext, PluginDraws, Preparing

-----------------------------------------------------------------------------
(* An id that create_surface is about to give away is not given away yet.  *)
NotYetMade == \A w \in Surface : creating[w] # {} => Unused(w) /\ w \notin Grid

LEMMA NotYetMadeStep == Typed /\ NotYetMade /\ [FramesNext]_frameVars => NotYetMade'
<1> SUFFICES ASSUME Typed, NotYetMade, [FramesNext]_frameVars PROVE NotYetMade'
  OBVIOUS
<1> USE DEF NotYetMade, Unused
<1>0. creating \in [Surface -> AtMostOne(SUBSET Surface)]
  BY DEF Typed, TablesTyped
<1>1. ASSUME NEW w \in Compact \cup Page,
             ListSurfaces(w) \/ \E k \in Key : CreateSurface(w, k)
      PROVE NotYetMade'
  BY <1>0, <1>1, FramesAssumption DEF ListSurfaces, CreateSurface, Surface
<1>2. ASSUME NEW w \in Grid, CreateWidget(w) PROVE NotYetMade'
  BY <1>2 DEF CreateWidget
<1>3. ASSUME (\E p \in Picture : AddImage(p))
             \/ (\E a \in Activity, spec \in ActivityRecord : AnnounceActivity(a, spec))
      PROVE NotYetMade'
  BY <1>3, FramesAssumption DEF AddImage, AnnounceActivity
<1>4. CASE UNCHANGED <<creating, allocated>>
  BY <1>4
<1> HIDE DEF NotYetMade
<1> QED
  BY <1>1, <1>2, <1>3, <1>4
  DEF FramesNext, PluginDraws, Preparing, UpdateSurface, ReleaseSurface, SubmitDrawList,
      ReleaseImage, ReleaseActivity, RevokePlugin, Redraw, RefreshWidgets, TakeList, JudgeList,
      SettleFrame, FramesPrepared, RefreshActivities, DrawSettings, frameVars, pluginTables

(* The activities.  Whatever changes what there is to show of them says so:*)
(* an activity speaks of surfaces that have been made.                     *)
OfSurfacesMade ==
  /\ Held(surfaces) \subseteq allocated
  /\ \A a \in Held(activities) : activities[a].compact \cup activities[a].page \subseteq allocated
NewsTold == ~news => copies.activities = Announced

NewsInv == OfSurfacesMade /\ NewsTold

LEMMA NewsInit == FramesInit => NewsInv
<1> SUFFICES ASSUME FramesInit PROVE NewsInv
  OBVIOUS
<1>1. Held(activities) = {} /\ Held(surfaces) \subseteq allocated
  BY DEF FramesInit, Held
<1>2. Announced \in [{} -> {}]
  BY <1>1 DEF Announced
<1>3. copies.activities \in [{} -> {}]
  BY DEF FramesInit
<1> QED BY <1>1, <1>2, <1>3 DEF NewsInv, OfSurfacesMade, NewsTold

LEMMA AnnouncedStays ==
  ASSUME OfSurfacesMade, activities' = activities,
         \A w \in allocated : w \in Showable' <=> w \in Showable
  PROVE  Announced' = Announced
<1> DEFINE told == {a \in Held(activities) : activities[a].compact \subseteq Showable}
           after == {a \in Held(activities) : activities[a].compact \subseteq Showable'}
<1>1. told = after
  BY DEF OfSurfacesMade
<1>2. \A a \in Held(activities) : activities[a].page \cap Showable = activities[a].page \cap Showable'
  BY DEF OfSurfacesMade
<1>3. Announced = [a \in told |-> [activities[a] EXCEPT !.page = activities[a].page \cap Showable]]
  BY DEF Announced
<1>4. Announced' = [a \in after |-> [activities[a] EXCEPT !.page = activities[a].page \cap Showable']]
  BY DEF Announced, Held
<1> QED BY <1>1, <1>2, <1>3, <1>4

(* A service that makes news has only to speak of surfaces that are made.  *)
LEMMA NewsIfSame ==
  ASSUME NewsInv, UNCHANGED <<activities, news>>, copies'.activities = copies.activities,
         allocated \subseteq allocated', Held(surfaces') \subseteq allocated',
         \A w \in allocated : w \in Showable' <=> w \in Showable
  PROVE  NewsInv'
<1>1. Announced' = Announced
  BY AnnouncedStays DEF NewsInv
<1>2. OfSurfacesMade'
  BY DEF NewsInv, OfSurfacesMade
<1> QED BY <1>1, <1>2 DEF NewsInv, NewsTold

LEMMA NewsStep == Typed /\ NotYetMade /\ NewsInv /\ [FramesNext]_frameVars => NewsInv'
<1> SUFFICES ASSUME Typed, NotYetMade, NewsInv, [FramesNext]_frameVars PROVE NewsInv'
  OBVIOUS
<1>0. TablesTyped /\ IslandTyped /\ OfSurfacesMade
  BY DEF Typed, NewsInv
<1>i. ASSUME IslandRests PROVE copies' = copies
  BY <1>i DEF IslandRests, framesOfIsland
<1>1. ASSUME UNCHANGED <<allocated, surfaces, activities, news>>,
             copies'.activities = copies.activities
      PROVE  NewsInv'
  <2>1. Showable' = Showable
    BY <1>1 DEF Showable, Drawable
  <2> QED BY <1>0, <1>1, <2>1, NewsIfSame DEF OfSurfacesMade
<1>2. ASSUME NEW w \in Surface, NEW key, Unused(w), allocated' = allocated \cup {w},
             surfaces' = Put(surfaces, w, NewRecord(key)), UNCHANGED <<activities, news, copies>>
      PROVE  NewsInv'
  <2> DEFINE f == Put(surfaces, w, NewRecord(key))
  <2>1. Held(f) = Held(surfaces) \cup {w} /\ \A y \in Held(surfaces) : y # w => f[y] = surfaces[y]
    BY DEF Put, Held
  <2>2. surfaces' = f
    BY <1>2
  <2> HIDE DEF f
  <2>3. \A v \in allocated : v \in Showable' <=> v \in Showable
    BY <1>0, <1>2, <2>1, <2>2 DEF Showable, Drawable, Unused, OfSurfacesMade
  <2>4. Held(surfaces') \subseteq allocated' /\ allocated \subseteq allocated'
    BY <1>0, <1>2, <2>1, <2>2 DEF OfSurfacesMade
  <2> QED BY <1>2, <2>3, <2>4, NewsIfSame
<1>3. ASSUME NEW w \in Compact \cup Page, ListSurfaces(w) \/ UpdateSurface(w) PROVE NewsInv'
  <2>1. CASE ListSurfaces(w)
    BY <1>1, <1>i, <2>1 DEF ListSurfaces
  <2>2. CASE UpdateSurface(w)
    BY <1>0, <2>2 DEF UpdateSurface, NewsInv, OfSurfacesMade, NewsTold, Held
  <2> QED BY <1>3, <2>1, <2>2
<1>4. ASSUME NEW w \in Compact \cup Page, NEW k \in Key, CreateSurface(w, k) PROVE NewsInv'
  <2>1. UNCHANGED <<activities, news, copies>> /\ w \in Surface
    BY <1>i, <1>4 DEF CreateSurface, Surface
  <2>2. CASE UNCHANGED <<allocated, surfaces>>
    BY <1>1, <2>1, <2>2
  <2>3. CASE allocated' = allocated \cup {w} /\ surfaces' = Put(surfaces, w, NewRecord({k}))
    <3>1. Unused(w)
      BY <1>4, <2>1 DEF CreateSurface, NotYetMade
    <3> QED BY <1>2, <2>1, <2>3, <3>1
  <2> QED BY <1>4, <2>2, <2>3 DEF CreateSurface
<1>5. ASSUME NEW w \in Grid, CreateWidget(w) PROVE NewsInv'
  BY <1>2, <1>i, <1>5 DEF CreateWidget, Surface
<1>6. ASSUME NEW w \in Surface, ReleaseSurface(w) PROVE NewsInv'
  <2>1. Held(Without(surfaces, {w})) = Held(surfaces) \ {w}
    BY WithoutRecord, Zenon
  <2> QED BY <1>0, <1>6, <2>1 DEF ReleaseSurface, NewsInv, OfSurfacesMade, NewsTold
<1>7. ASSUME NEW w \in Surface, NEW uses \in SUBSET Picture, NEW malformed \in BOOLEAN,
             SubmitDrawList(w, uses, malformed)
      PROVE NewsInv'
  <2>1. UNCHANGED <<allocated, activities, news, copies>>
    BY <1>i, <1>7 DEF SubmitDrawList
  <2>2. /\ Held(surfaces') = Held(surfaces)
        /\ \A v \in Held(surfaces) : /\ surfaces'[v].disabled = surfaces[v].disabled
                                     /\ surfaces'[v].enabled = surfaces[v].enabled
    BY <1>0, <1>7 DEF SubmitDrawList, Held, TablesTyped, SurfaceRecord, Drawable
  <2>3. Showable' = Showable
    BY <2>2 DEF Showable, Drawable
  <2> QED BY <1>0, <2>1, <2>2, <2>3, NewsIfSame DEF OfSurfacesMade
<1>8. ASSUME NEW p \in Picture, AddImage(p) \/ ReleaseImage(p) PROVE NewsInv'
  <2>1. UNCHANGED <<surfaces, activities, news, copies>> /\ allocated \subseteq allocated'
    BY <1>i, <1>8 DEF AddImage, ReleaseImage
  <2>2. Showable' = Showable
    BY <2>1 DEF Showable, Drawable
  <2> QED BY <1>0, <2>1, <2>2, NewsIfSame DEF OfSurfacesMade
<1>9. ASSUME NEW a \in Activity, NEW spec \in ActivityRecord, AnnounceActivity(a, spec)
      PROVE NewsInv'
  <2> DEFINE f == Put(activities, a, spec)
  <2>1. /\ Held(f) = Held(activities) \cup {a} /\ f[a] = spec
        /\ \A y \in Held(activities) : y # a => f[y] = activities[y]
    BY DEF Put, Held
  <2>2. activities' = f
    BY <1>9 DEF AnnounceActivity
  <2> HIDE DEF f
  <2>3. spec.compact \subseteq Held(surfaces) /\ spec.page \subseteq Held(surfaces)
    BY <1>9 DEF AnnounceActivity, Announceable, AtMostOne, Drawable
  <2>4. news' = TRUE /\ allocated \subseteq allocated' /\ surfaces' = surfaces
    BY <1>9 DEF AnnounceActivity
  <2> QED BY <1>0, <2>1, <2>2, <2>3, <2>4 DEF NewsInv, OfSurfacesMade, NewsTold
<1>10. ASSUME NEW a \in Activity, ReleaseActivity(a) PROVE NewsInv'
  <2> DEFINE f == Without(activities, {a})
  <2>1. Held(f) = Held(activities) \ {a} /\ \A y \in Held(activities) \ {a} : f[y] = activities[y]
    BY WithoutRecord, Zenon
  <2>2. activities' = f
    BY <1>10 DEF ReleaseActivity
  <2> HIDE DEF f
  <2> QED BY <1>0, <1>10, <2>1, <2>2 DEF ReleaseActivity, NewsInv, OfSurfacesMade, NewsTold
<1>11. ASSUME RevokePlugin PROVE NewsInv'
  <2> DEFINE f == Without(surfaces, Surface)
             g == Without(activities, Activity)
  <2>1. Held(f) = {} /\ Held(g) = {} /\ g \in [{} -> ActivityRecord]
    <3>1. /\ Held(f) = Held(surfaces) \ Surface /\ Held(g) = Held(activities) \ Activity
          /\ g \in [Held(activities) \ Activity -> ActivityRecord]
      BY <1>0 DEF TablesTyped, Without, Held, Restrict
    <3> HIDE DEF f, g
    <3> QED BY <1>0, <3>1 DEF TablesTyped
  <2>2. surfaces' = f /\ activities' = g
    BY <1>11 DEF RevokePlugin
  <2> HIDE DEF f, g
  <2>3. OfSurfacesMade'
    BY <2>1, <2>2 DEF OfSurfacesMade
  <2>4. ASSUME ~news' PROVE copies'.activities = Announced'
    <3>1. ~news /\ Held(surfaces) = {} /\ Held(activities) = {} /\ copies' = copies
      BY <1>i, <1>11, <2>4 DEF RevokePlugin
    <3>2. copies.activities = Announced
      BY <3>1 DEF NewsInv, NewsTold
    <3>3. Announced \in [{} -> {}]
      BY <3>1 DEF Announced
    <3>4. Announced' \in [{} -> {}]
      BY <2>1, <2>2 DEF Announced
    <3> QED BY <3>1, <3>2, <3>3, <3>4
  <2> QED BY <2>3, <2>4 DEF NewsInv, NewsTold
<1>12. ASSUME SettleFrame PROVE NewsInv'
  <2>1. PICK t \in taken :
          /\ t.verdict # "none" /\ surfaces' = Counted(t) /\ news' = Revised(surfaces')
          /\ copies' = IF stage = "frames"
                       THEN [copies EXCEPT !.frames = FramesAfter(t, surfaces')] ELSE copies
          /\ UNCHANGED <<allocated, activities>>
    BY <1>12 DEF SettleFrame
  <2> DEFINE g == Counted(t)
  <2>2. /\ Held(g) = Held(surfaces)
        /\ g \in [Held(surfaces) -> SurfaceRecord]
        /\ \A w \in Held(surfaces) : g[w].enabled = surfaces[w].enabled
    BY <2>1, CountedTyped
  <2>3. surfaces' = g
    BY <2>1
  <2> HIDE DEF g
  <2>4. copies'.activities = copies.activities
    BY <1>0, <2>1, IslandHas DEF IslandTyped
  <2>5. OfSurfacesMade'
    BY <1>0, <2>1, <2>2, <2>3 DEF OfSurfacesMade
  <2>6. ASSUME ~news' PROVE copies'.activities = Announced'
    <3>1. ~news /\ \A w \in Held(surfaces) : surfaces'[w].disabled = surfaces[w].disabled
      BY <2>1, <2>6 DEF Revised
    <3>2. Showable' = Showable
      BY <2>2, <2>3, <3>1 DEF Showable, Drawable
    <3>3. Announced' = Announced
      BY <1>0, <2>1, <3>2, AnnouncedStays
    <3> QED BY <2>4, <3>1, <3>3 DEF NewsInv, NewsTold
  <2> QED BY <2>5, <2>6 DEF NewsInv, NewsTold
<1>13. ASSUME RefreshActivities PROVE NewsInv'
  <2>1. UNCHANGED <<allocated, surfaces, activities>> /\ ~news'
    BY <1>13 DEF RefreshActivities, pluginTables
  <2>2. Announced' = Announced
    BY <2>1 DEF Announced, Showable, Drawable
  <2>3. copies'.activities = Announced
    <3>1. CASE news
      BY <1>0, <1>13, <3>1, IslandHas DEF RefreshActivities, IslandTyped
    <3>2. CASE ~news
      BY <1>13, <3>2 DEF RefreshActivities, NewsInv, NewsTold
    <3> QED BY <3>1, <3>2
  <2> QED BY <1>0, <2>1, <2>2, <2>3 DEF NewsInv, NewsTold, OfSurfacesMade
<1>14. ASSUME (\E w \in Surface : TakeList(w)) \/ JudgeList \/ FramesPrepared \/ Redraw \/ DrawSettings
              \/ RefreshWidgets \/ UNCHANGED frameVars
       PROVE NewsInv'
  <2>1. UNCHANGED <<allocated, surfaces, activities, news>>
    BY <1>14 DEF TakeList, JudgeList, FramesPrepared, Redraw, DrawSettings, RefreshWidgets,
       frameVars, pluginTables
  <2>2. copies'.activities = copies.activities
    <3>1. CASE RefreshWidgets
      BY <1>0, <3>1, IslandHas DEF RefreshWidgets, IslandTyped
    <3>2. CASE ~RefreshWidgets
      BY <1>14, <3>2 DEF TakeList, JudgeList, FramesPrepared, Redraw, DrawSettings, frameVars,
         framesOfIsland
    <3> QED BY <3>1, <3>2
  <2> QED BY <1>1, <2>1, <2>2
<1> QED
  BY <1>3, <1>4, <1>5, <1>6, <1>7, <1>8, <1>9, <1>10, <1>11, <1>12, <1>13, <1>14
  DEF FramesNext, PluginDraws, Preparing

(* When no redraw is due and the activities are no news, the island shows  *)
(* what there is, whatever plugins did while it redrew.                    *)
THEOREM IslandIsUpToDate == FramesSpec => []IslandCatchesUp
<1>1. ShownInv /\ NewsInv => IslandCatchesUp
  BY DEF ShownInv, NewsInv, FramesOfKnown, KnownAreThere, Shown, NewsTold, IslandCatchesUp
<1>2. FramesInit => NotYetMade
  BY DEF FramesInit, NotYetMade
<1> QED
  BY <1>1, <1>2, NotYetMadeStep, TypedInit, TypedStep, CauseInit, CauseStep, ShownInit, ShownStep, NewsInit, NewsStep, PTL
  DEF FramesSpec

-----------------------------------------------------------------------------
(***************************************************************************)
(* What widgets hold, and what they are told (PluginInput).                *)
(***************************************************************************)

Fields == {"capture", "focus", "hover", "button", "inputs", "ticks", "permit",
           "informed", "missed"}

RouterTyped(s) ==
  /\ DOMAIN s = Fields
  /\ \A what \in Hold : s[what] \in Option(Widget)
  /\ s.informed \in [Widget -> SUBSET Hold]

(* A widget that holds, or not, what its events say: of no matter which    *)
(* widget, subscribed or not, as long as it missed none of them.           *)
Truthful(s) ==
  \A w \in Widget : w \notin s.missed =>
    \A what \in Hold : what \in s.informed[w] <=> w \in s[what]

SoundRouter(s) == RouterTyped(s) /\ Truthful(s)

InputInv == SoundRouter(router) /\ live \subseteq Widget /\ subscribed \subseteq Widget

-----------------------------------------------------------------------------
(* What Inform does: nobody is routed otherwise, and whoever still has not *)
(* missed an event knows what it held before, and the news.                *)
Knows(t, s, option, what, holds) ==
  /\ RouterTyped(t)
  /\ \A h \in Hold : t[h] = s[h]
  /\ s.missed \subseteq t.missed
  /\ \A w \in Widget : w \notin t.missed =>
       \A h \in Hold : h \in t.informed[w] <=>
         IF w \in option /\ h = what THEN holds ELSE h \in s.informed[w]

LEMMA InformTells ==
  ASSUME NEW s, RouterTyped(s), NEW option \in Option(Widget), NEW what \in Hold,
         NEW holds \in BOOLEAN
  PROVE  Knows(Inform(s, option, what, holds), s, option, what, holds)
<1>1. CASE option = {}
  BY <1>1 DEF Inform, Knows
<1>2. CASE option # {}
  <2>1. PICK x \in Widget : option = {x}
    BY <1>2 DEF Option
  <2>2. (CHOOSE w \in option : TRUE) = x
    BY <2>1
  <2> DEFINE lost == [s EXCEPT !.missed = @ \cup {x}]
             told == [s EXCEPT !.inputs[x] = @ + 1, !.permit = TRUE,
                        !.informed[x] = IF holds THEN @ \cup {what} ELSE @ \ {what}]
  <2>3. Inform(s, option, what, holds) \in {lost, told}
    BY <1>2, <2>2 DEF Inform
  <2>4. Knows(lost, s, option, what, holds)
    BY <2>1 DEF Knows, RouterTyped, Fields, Hold
  <2>5. Knows(told, s, option, what, holds)
    <3>1. /\ DOMAIN told = Fields /\ told.missed = s.missed
          /\ \A h \in Hold : told[h] = s[h]
          /\ told.informed = [s.informed EXCEPT ![x] = IF holds THEN @ \cup {what}
                                                                ELSE @ \ {what}]
      BY DEF RouterTyped, Fields, Hold
    <3>2. told.informed \in [Widget -> SUBSET Hold]
      BY <3>1 DEF RouterTyped
    <3>3. RouterTyped(told)
      BY <3>1, <3>2 DEF RouterTyped
    <3> HIDE DEF told
    <3> QED BY <2>1, <3>1, <3>3 DEF Knows, RouterTyped
  <2> QED BY <2>3, <2>4, <2>5
<1> QED BY <1>1, <1>2

(* Then what was told of is so.                                            *)
LEMMA ThenItIsSo ==
  ASSUME NEW s, SoundRouter(s), NEW what \in Hold, NEW next \in Option(Widget),
         NEW t, RouterTyped(t), s.missed \subseteq t.missed,
         \A h \in Hold : t[h] = s[h],
         \A w \in Widget : w \notin t.missed =>
           \A h \in Hold : h \in t.informed[w] <=>
             IF h = what THEN w \in next ELSE h \in s.informed[w]
  PROVE  SoundRouter([t EXCEPT ![what] = next])
<1> DEFINE u == [t EXCEPT ![what] = next]
<1>1. /\ DOMAIN u = Fields /\ u.missed = t.missed /\ u.informed = t.informed
      /\ \A h \in Hold : u[h] = IF h = what THEN next ELSE s[h]
  BY DEF RouterTyped, Fields, Hold
<1> HIDE DEF u
<1>2. RouterTyped(u)
  BY <1>1 DEF RouterTyped, SoundRouter
<1>3. Truthful(u)
  BY <1>1 DEF Truthful, SoundRouter
<1> QED BY <1>2, <1>3 DEF SoundRouter, u

LEMMA EndedSound ==
  ASSUME NEW s, SoundRouter(s), NEW what \in Hold
  PROVE  SoundRouter([Inform(s, s[what], what, FALSE) EXCEPT ![what] = {}])
<1>1. PICK t : t = Inform(s, s[what], what, FALSE)
  OBVIOUS
<1>2. Knows(t, s, s[what], what, FALSE)
  BY <1>1, InformTells DEF SoundRouter, RouterTyped
<1>3. {} \in Option(Widget)
  BY DEF Option
<1>4. SoundRouter([t EXCEPT ![what] = {}])
  <2>1. ASSUME NEW w \in Widget, w \notin t.missed, NEW h \in Hold
        PROVE  h \in t.informed[w] <=> IF h = what THEN w \in {} ELSE h \in s.informed[w]
    BY <1>2, <2>1 DEF Knows, SoundRouter, Truthful
  <2> QED BY <1>2, <1>3, <2>1, ThenItIsSo DEF Knows
<1> QED BY <1>1, <1>4

LEMMA CancelSound ==
  ASSUME NEW s, SoundRouter(s), NEW what \in Hold, NEW active, NEW flag
  PROVE  SoundRouter(Cancel(s, what, active, flag))
  BY EndedSound DEF Cancel

LEMMA CancelMissingSound ==
  ASSUME NEW s, SoundRouter(s), NEW active PROVE SoundRouter(CancelMissing(s, active))
  BY CancelSound DEF CancelMissing, Hold

LEMMA TurnSound ==
  ASSUME NEW s, SoundRouter(s), NEW what \in Hold, NEW next \in Option(Widget)
  PROVE  /\ SoundRouter(Turn(s, what, next))
         /\ \A h \in Hold \ {what} : Turn(s, what, next)[h] = s[h]
<1>1. PICK t : t = Inform(s, s[what], what, FALSE)
  OBVIOUS
<1>2. Knows(t, s, s[what], what, FALSE)
  BY <1>1, InformTells DEF SoundRouter, RouterTyped
<1>3. PICK u : u = Inform(t, next, what, TRUE)
  OBVIOUS
<1>4. Knows(u, t, next, what, TRUE)
  <2>1. RouterTyped(t)
    BY <1>2 DEF Knows
  <2> QED BY <1>3, <2>1, InformTells
<1>5. ASSUME NEW w \in Widget, w \notin u.missed, NEW h \in Hold
      PROVE  h \in u.informed[w] <=> IF h = what THEN w \in next ELSE h \in s.informed[w]
  BY <1>2, <1>4, <1>5 DEF Knows, SoundRouter, Truthful
<1>6. SoundRouter([u EXCEPT ![what] = next])
  BY <1>2, <1>4, <1>5, ThenItIsSo DEF Knows
<1>7. \A h \in Hold \ {what} : [u EXCEPT ![what] = next][h] = s[h]
  BY <1>2, <1>4 DEF Knows, RouterTyped, Fields, Hold
<1> QED BY <1>1, <1>3, <1>6, <1>7 DEF Turn

LEMMA ForwardedSound ==
  ASSUME NEW s, SoundRouter(s), NEW option, NEW grows PROVE SoundRouter(Forwarded(s, option, grows))
<1>1. PICK w : w = CHOOSE v \in option : TRUE
  OBVIOUS
<1>2. \A n : SoundRouter([s EXCEPT !.inputs[w] = n, !.permit = TRUE])
  BY DEF SoundRouter, RouterTyped, Truthful, Fields, Hold
<1> QED BY <1>1, <1>2 DEF Forwarded

(* A widget takes capture when nobody has it.                              *)
LEMMA PressedSound ==
  ASSUME NEW s, SoundRouter(s), NEW code, NEW hit \in Option(Widget)
  PROVE  SoundRouter(Pressed(s, code, hit))
<1> DEFINE wants == {w \in hit : "keyboard" \in regions[w]}
           caught == {w \in hit : "press" \in regions[w]}
<1>1. wants \in Option(Widget) /\ caught \in Option(Widget)
  BY DEF Option
<1>2. PICK f : f = Turn(s, "focus", wants)
  OBVIOUS
<1>3. SoundRouter(f)
  BY <1>1, <1>2, TurnSound DEF Hold
<1>4. f.capture = s.capture
  BY <1>1, <1>2, TurnSound DEF Hold
<1>5. PICK t : t = Inform(f, caught, "capture", TRUE)
  OBVIOUS
<1>6. Knows(t, f, caught, "capture", TRUE)
  BY <1>1, <1>3, <1>5, InformTells DEF Hold, SoundRouter
<1>7. s.capture = {} => SoundRouter([t EXCEPT !.capture = caught])
  <2>1. SUFFICES ASSUME s.capture = {} PROVE SoundRouter([t EXCEPT !["capture"] = caught])
    OBVIOUS
  <2>2. \A w \in Widget : "capture" \in f.informed[w] => w \in f.missed
    BY <1>3, <1>4, <2>1 DEF SoundRouter, Truthful, Hold
  <2>3. ASSUME NEW w \in Widget, w \notin t.missed, NEW h \in Hold
        PROVE  h \in t.informed[w] <=> IF h = "capture" THEN w \in caught ELSE h \in f.informed[w]
    BY <1>6, <2>2, <2>3 DEF Knows
  <2>4. "capture" \in Hold
    BY DEF Hold
  <2> QED BY <1>1, <1>3, <1>6, <2>3, <2>4, ThenItIsSo DEF Knows
<1>8. \A u : SoundRouter(u) => SoundRouter([u EXCEPT !.button = code])
  BY DEF SoundRouter, RouterTyped, Truthful, Fields, Hold
<1>9. [t EXCEPT !.capture = caught, !.button = code]
        = [[t EXCEPT !.capture = caught] EXCEPT !.button = code]
  BY <1>6 DEF Knows, RouterTyped, Fields
<1> HIDE DEF wants, caught
<1> QED BY <1>2, <1>3, <1>5, <1>7, <1>8, <1>9, ForwardedSound DEF Pressed, wants, caught

LEMMA EndCaptureSound ==
  ASSUME NEW s, SoundRouter(s)
  PROVE  SoundRouter([Inform(s, s.capture, "capture", FALSE) EXCEPT !.capture = {}])
  BY EndedSound DEF Hold

LEMMA ReleasedSound ==
  ASSUME NEW s, SoundRouter(s), NEW code, NEW hit PROVE SoundRouter(Released(s, code, hit))
  BY EndCaptureSound, ForwardedSound DEF Released

-----------------------------------------------------------------------------
LEMMA HitIsOne == \A flag : Hits(flag) \subseteq Option(Widget)
  BY DEF Hits, Option, Interactive

LEMMA CurrentSound == ASSUME InputInv PROVE SoundRouter(Current)
  BY CancelMissingSound DEF Current, InputInv

LEMMA UserInputSound == ASSUME InputInv, UserInput PROVE SoundRouter(router')
<1>1. SoundRouter(Current)
  BY CurrentSound
<1>2. ASSUME NEW s, Routed(s) PROVE router' = s
  BY <1>2 DEF Routed
<1>3. CASE MovePointer
  <2>1. PICK hit \in Option(Widget) : \E s, target, grows :
          s = Turn(Current, "hover", hit) /\ Routed(Forwarded(s, target, grows))
    BY <1>3, HitIsOne DEF MovePointer
  <2> QED BY <1>1, <1>2, <2>1, TurnSound, ForwardedSound DEF Hold
<1>4. CASE LeavePointer
  <2>1. {} \in Option(Widget) /\ "hover" \in Hold
    BY DEF Option, Hold
  <2> QED BY <1>1, <1>2, <1>4, <2>1, TurnSound DEF LeavePointer
<1>5. CASE PressButton
  BY <1>1, <1>2, <1>5, HitIsOne, PressedSound DEF PressButton
<1>6. CASE ReleaseButton
  BY <1>1, <1>2, <1>6, ReleasedSound DEF ReleaseButton
<1>7. CASE TurnWheel \/ TypeKey
  BY <1>1, <1>2, <1>7, ForwardedSound DEF TurnWheel, TypeKey
<1>8. CASE LoseWindow
  BY <1>1, <1>2, <1>8, CancelMissingSound DEF LoseWindow
<1>9. CASE InputState
  BY <1>1, <1>9 DEF InputState
<1> QED BY <1>3, <1>4, <1>5, <1>6, <1>7, <1>8, <1>9 DEF UserInput

(* What says nothing of what is held.                                      *)
LEMMA NoNewsSound ==
  ASSUME NEW s, SoundRouter(s)
  PROVE  /\ \A b : SoundRouter([s EXCEPT !.permit = b])
         /\ \A f : SoundRouter([s EXCEPT !.inputs = f]) /\ SoundRouter([s EXCEPT !.ticks = f])
         /\ \A f, b : SoundRouter([s EXCEPT !.ticks = f, !.permit = b])
         /\ \A f, b, M : s.missed \subseteq M =>
              SoundRouter([s EXCEPT !.inputs = f, !.permit = b, !.missed = M])
  BY DEF SoundRouter, RouterTyped, Truthful, Fields, Hold

LEMMA DrawFrameSound == ASSUME InputInv, DrawFrame PROVE SoundRouter(router')
<1>1. ASSUME NEW next, Finished(next) PROVE SoundRouter(router')
  <2>1. PICK s : s = CancelMissing(router, {w \in Widget : next[w] = "interactive"})
    OBVIOUS
  <2>2. SoundRouter(s)
    BY <2>1, CancelMissingSound DEF InputInv
  <2>3. router' = Unparked(s, next)
    BY <1>1, <2>1 DEF Finished
  <2> QED BY <2>2, <2>3, NoNewsSound DEF Unparked
<1>2. CASE BeginDrawing \/ Present
  BY <1>2 DEF BeginDrawing, Present, InputInv
<1>3. CASE FinishFrame \/ ClearPresentations
  BY <1>1, <1>3 DEF FinishFrame, ClearPresentations
<1> QED BY <1>2, <1>3 DEF DrawFrame

LEMMA PluginCallsSound == ASSUME InputInv, PluginCalls PROVE SoundRouter(router')
<1>1. CASE SetRegions \/ Subscribe
  BY <1>1 DEF SetRegions, Subscribe, InputInv
<1>2. CASE ReleaseCapture
  <2>1. PICK w \in live :
          router' = IF w \in router.capture
                    THEN [Inform(router, {w}, "capture", FALSE) EXCEPT !.capture = {}] ELSE router
    BY <1>2 DEF ReleaseCapture
  <2>2. w \in router.capture => router.capture = {w}
    <3>1. router.capture \in Option(Widget)
      BY DEF InputInv, SoundRouter, RouterTyped, Hold
    <3> QED BY <3>1 DEF Option
  <2> QED BY <2>1, <2>2, EndCaptureSound DEF InputInv
<1>3. CASE Unsubscribe
  <2>1. PICK w \in subscribed :
          router' = [router EXCEPT !.inputs[w] = 0, !.permit = TRUE,
                     !.missed = IF router.inputs[w] = 0 THEN @ ELSE @ \cup {w}]
    BY <1>3 DEF Unsubscribe
  <2>2. PICK f, M : f = [router.inputs EXCEPT ![w] = 0]
          /\ M = IF router.inputs[w] = 0 THEN router.missed ELSE router.missed \cup {w}
    OBVIOUS
  <2>3. router' = [router EXCEPT !.inputs = f, !.permit = TRUE, !.missed = M]
    BY <2>1, <2>2 DEF InputInv, SoundRouter, RouterTyped, Fields
  <2>4. router.missed \subseteq M
    BY <2>2
  <2> QED BY <2>3, <2>4, NoNewsSound DEF InputInv
<1>4. CASE ReleaseWidget
  BY <1>4, CancelMissingSound DEF ReleaseWidget, InputInv
<1>5. CASE CreateTimer
  <2>1. \A b : SoundRouter([router EXCEPT !.permit = b])
    BY NoNewsSound DEF InputInv
  <2> QED BY <1>5, <2>1 DEF CreateTimer
<1> QED BY <1>1, <1>2, <1>3, <1>4, <1>5 DEF PluginCalls

LEMMA WorkerSound == ASSUME InputInv, InputWorker PROVE SoundRouter(router')
<1>1. CASE Dispatch
  <2>1. PICK found : router' = Ticked(router, found)
    BY <1>1 DEF Dispatch
  <2> QED BY <2>1, NoNewsSound DEF Ticked, InputInv
<1>2. CASE Deliver
  <2>1. PICK w \in Widget :
          \/ router' = [router EXCEPT !.inputs[w] = @ - 1]
          \/ router' = [router EXCEPT !.ticks[w] = @ - 1]
    BY <1>2 DEF Deliver
  <2>2. \A f : SoundRouter([router EXCEPT !.inputs = f]) /\ SoundRouter([router EXCEPT !.ticks = f])
    BY NoNewsSound DEF InputInv
  <2> QED BY <2>1, <2>2
<1>3. CASE Measure
  BY <1>3 DEF Measure, InputInv
<1>4. CASE WakeWorker
  BY <1>4, NoNewsSound DEF WakeWorker, InputInv
<1> QED BY <1>1, <1>2, <1>3, <1>4 DEF InputWorker

LEMMA InitSound == InputInit => InputInv
  BY DEF InputInit, InputInv, SoundRouter, RouterTyped, Truthful, Fields, Hold, Option

LEMMA StepSound == InputInv /\ [InputNext]_inputVars => SoundRouter(router')
<1> SUFFICES ASSUME InputInv, [InputNext]_inputVars PROVE SoundRouter(router')
  OBVIOUS
<1>1. CASE TimePasses
  BY <1>1 DEF TimePasses, InputInv
<1>2. CASE UNCHANGED inputVars
  BY <1>2 DEF inputVars, InputInv
<1> QED BY <1>1, <1>2, UserInputSound, DrawFrameSound, PluginCallsSound, WorkerSound DEF InputNext

LEMMA WidgetsOnly ==
  InputInv /\ [InputNext]_inputVars => (live \subseteq Widget /\ subscribed \subseteq Widget)'
<1> SUFFICES ASSUME InputInv, [InputNext]_inputVars
             PROVE  live' \subseteq Widget /\ subscribed' \subseteq Widget
  OBVIOUS
<1>1. UNCHANGED <<live, subscribed>> \/ Subscribe \/ Unsubscribe \/ ReleaseWidget
  <2>1. UserInput => UNCHANGED <<live, subscribed>>
    BY DEF UserInput, Routed, pluginSide, MovePointer, LeavePointer, PressButton, ReleaseButton,
           TurnWheel, TypeKey, LoseWindow, InputState
  <2>2. DrawFrame => UNCHANGED <<live, subscribed>>
    BY DEF DrawFrame, Finished, pluginSide, BeginDrawing, Present, FinishFrame, ClearPresentations
  <2>3. InputWorker \/ TimePasses => UNCHANGED <<live, subscribed>>
    BY DEF InputWorker, TimePasses, Dispatch, Deliver, Measure, WakeWorker, pluginSide
  <2>4. SetRegions \/ ReleaseCapture \/ CreateTimer => UNCHANGED <<live, subscribed>>
    BY DEF SetRegions, ReleaseCapture, CreateTimer, pluginSide
  <2> QED BY <2>1, <2>2, <2>3, <2>4 DEF InputNext, PluginCalls, inputVars, pluginSide
<1> QED BY <1>1 DEF InputInv, Subscribe, Unsubscribe, ReleaseWidget

(* What a widget knows by its events to hold is what the host routes input *)
(* by, as long as none of them was lost (extensions/input.rs: route_input, *)
(* cancel_missing, send_input).                                            *)
THEOREM HoldersAreTold == InputSpec => []ToldTruth
<1>1. InputInit => InputInv
  BY InitSound
<1>2. InputInv /\ [InputNext]_inputVars => InputInv'
  BY StepSound, WidgetsOnly DEF InputInv
<1>3. InputInv => ToldTruth
  <2> SUFFICES ASSUME InputInv, NEW w \in Widget, w \notin router.missed
               PROVE  router.informed[w] = {what \in Hold : w \in router[what]}
    BY DEF ToldTruth, InputInv
  <2>1. router.informed[w] \subseteq Hold
    BY DEF InputInv, SoundRouter, RouterTyped
  <2> QED BY <2>1 DEF InputInv, SoundRouter, Truthful
<1> QED BY <1>1, <1>2, <1>3, PTL DEF InputSpec

-----------------------------------------------------------------------------
(* A worker that sleeps, and that nobody has woken, counts on the timers of*)
(* all widgets that are shown.                                             *)
AlarmCounts ==
  loops = "park" /\ ~router.permit =>
    \A w \in Drawn(presented) : timers[w] # "none" => w \in alarm

ScreenTyped ==
  /\ presented \in [Widget -> Mode] /\ timers \in [Widget -> {"none", "set", "due"}]
  /\ \A d \in drawing : d \in [known : SUBSET Widget, next : [Widget -> Mode]]

(* No routing takes a permit back.                                         *)
Keeps(t, s) == s.permit => t.permit

LEMMA FieldKeeps ==
  ASSUME NEW s, RouterTyped(s), NEW what \in Hold, NEW option
  PROVE  [s EXCEPT ![what] = option].permit = s.permit
  BY DEF RouterTyped, Fields, Hold

LEMMA InformKeeps ==
  ASSUME NEW s, RouterTyped(s), NEW option, NEW what, NEW holds
  PROVE  Keeps(Inform(s, option, what, holds), s)
<1>1. PICK w : w = CHOOSE v \in option : TRUE
  OBVIOUS
<1>2. \A M : [s EXCEPT !.missed = M].permit = s.permit
  BY DEF RouterTyped, Fields
<1>3. \A f, g : [s EXCEPT !.inputs = f, !.permit = TRUE, !.informed = g].permit
  BY DEF RouterTyped, Fields
<1> QED BY <1>1, <1>2, <1>3 DEF Inform, Keeps

LEMMA ForwardedKeeps ==
  ASSUME NEW s, RouterTyped(s), NEW option, NEW grows PROVE Keeps(Forwarded(s, option, grows), s)
<1>1. PICK w : w = CHOOSE v \in option : TRUE
  OBVIOUS
<1>2. \A f : [s EXCEPT !.inputs = f, !.permit = TRUE].permit
  BY DEF RouterTyped, Fields
<1> QED BY <1>1, <1>2 DEF Forwarded, Keeps

LEMMA EndedKeeps ==
  ASSUME NEW s, SoundRouter(s), NEW what \in Hold
  PROVE  Keeps([Inform(s, s[what], what, FALSE) EXCEPT ![what] = {}], s)
<1>1. PICK t : t = Inform(s, s[what], what, FALSE)
  OBVIOUS
<1>2. RouterTyped(t) /\ Keeps(t, s)
  BY <1>1, InformTells, InformKeeps DEF SoundRouter, RouterTyped, Knows
<1> QED BY <1>1, <1>2, FieldKeeps DEF Keeps

LEMMA CancelMissingKeeps ==
  ASSUME NEW s, SoundRouter(s), NEW active PROVE Keeps(CancelMissing(s, active), s)
<1>1. ASSUME NEW t, SoundRouter(t), NEW what \in Hold, NEW flag
      PROVE  Keeps(Cancel(t, what, active, flag), t)
  BY <1>1, EndedKeeps DEF Cancel, Keeps
<1>2. {"capture", "focus", "hover"} \subseteq Hold
  BY DEF Hold
<1>3. PICK t : t = Cancel(s, "capture", active, "pointer")
  OBVIOUS
<1>4. SoundRouter(t) /\ Keeps(t, s)
  BY <1>1, <1>2, <1>3, CancelSound
<1>5. PICK u : u = Cancel(t, "focus", active, "keyboard")
  OBVIOUS
<1>6. SoundRouter(u) /\ Keeps(u, t)
  BY <1>1, <1>2, <1>4, <1>5, CancelSound
<1>7. Keeps(Cancel(u, "hover", active, "pointer"), u)
  BY <1>1, <1>2, <1>6
<1> QED BY <1>3, <1>4, <1>5, <1>6, <1>7 DEF CancelMissing, Keeps

LEMMA TurnKeeps ==
  ASSUME NEW s, SoundRouter(s), NEW what \in Hold, NEW next \in Option(Widget)
  PROVE  Keeps(Turn(s, what, next), s)
<1>1. PICK t : t = Inform(s, s[what], what, FALSE)
  OBVIOUS
<1>2. RouterTyped(t) /\ Keeps(t, s)
  BY <1>1, InformTells, InformKeeps DEF SoundRouter, RouterTyped, Knows
<1>3. PICK u : u = Inform(t, next, what, TRUE)
  OBVIOUS
<1>4. RouterTyped(u) /\ Keeps(u, t)
  BY <1>2, <1>3, InformTells, InformKeeps DEF Knows
<1>5. [u EXCEPT ![what] = next].permit = u.permit
  BY <1>4, FieldKeeps
<1> QED BY <1>1, <1>2, <1>3, <1>4, <1>5 DEF Turn, Keeps

LEMMA PressedKeeps ==
  ASSUME NEW s, SoundRouter(s), NEW code, NEW hit \in Option(Widget)
  PROVE  Keeps(Pressed(s, code, hit), s)
<1> DEFINE wants  == {w \in hit : "keyboard" \in regions[w]}
           caught == {w \in hit : "press" \in regions[w]}
<1>1. wants \in Option(Widget) /\ caught \in Option(Widget)
  BY DEF Option
<1>2. PICK f : f = Turn(s, "focus", wants)
  OBVIOUS
<1>3. SoundRouter(f) /\ Keeps(f, s)
  BY <1>1, <1>2, TurnSound, TurnKeeps DEF Hold
<1>4. PICK t : t = Inform(f, caught, "capture", TRUE)
  OBVIOUS
<1>5. RouterTyped(t) /\ Keeps(t, f)
  <2>1. "capture" \in Hold /\ RouterTyped(f)
    BY <1>3 DEF Hold, SoundRouter
  <2> QED BY <1>1, <1>4, <2>1, InformTells, InformKeeps DEF Knows
<1>6. [t EXCEPT !.capture = caught, !.button = code].permit = t.permit
  BY <1>5 DEF RouterTyped, Fields
<1>7. Keeps(Forwarded(s, s.capture, TRUE), s) /\ Keeps(Forwarded(f, hit, TRUE), f)
  BY <1>3, ForwardedKeeps DEF SoundRouter
<1> HIDE DEF wants, caught
<1> QED BY <1>2, <1>3, <1>4, <1>5, <1>6, <1>7 DEF Pressed, Keeps, wants, caught

LEMMA ReleasedKeeps ==
  ASSUME NEW s, SoundRouter(s), NEW code, NEW hit PROVE Keeps(Released(s, code, hit), s)
<1>1. Keeps([Inform(s, s.capture, "capture", FALSE) EXCEPT !.capture = {}], s)
  BY EndedKeeps DEF Hold
<1>2. Keeps(Forwarded(s, Pointed(s, hit), TRUE), s)
  BY ForwardedKeeps DEF SoundRouter
<1> QED BY <1>1, <1>2 DEF Released

LEMMA UserInputKeeps ==
  ASSUME InputInv, UserInput PROVE Keeps(router', router) /\ UNCHANGED <<timerSide, presented>>
<1>1. SoundRouter(Current) /\ Keeps(Current, router)
  BY CurrentSound, CancelMissingKeeps DEF Current, InputInv
<1>2. ASSUME NEW s, Routed(s), Keeps(s, router)
      PROVE  Keeps(router', router) /\ UNCHANGED <<timerSide, presented>>
  BY <1>2 DEF Routed
<1>3. CASE MovePointer
  <2>1. PICK hit \in Option(Widget) : \E s, target, grows :
          s = Turn(Current, "hover", hit) /\ Routed(Forwarded(s, target, grows))
    BY <1>3, HitIsOne DEF MovePointer
  <2>2. PICK s, target, grows :
          s = Turn(Current, "hover", hit) /\ Routed(Forwarded(s, target, grows))
    BY <2>1
  <2>3. SoundRouter(s) /\ Keeps(s, Current)
    BY <1>1, <2>2, TurnSound, TurnKeeps DEF Hold
  <2>4. Keeps(Forwarded(s, target, grows), s)
    BY <2>3, ForwardedKeeps DEF SoundRouter
  <2> QED BY <1>1, <1>2, <2>2, <2>3, <2>4 DEF Keeps
<1>4. CASE LeavePointer
  <2>1. {} \in Option(Widget) /\ "hover" \in Hold
    BY DEF Option, Hold
  <2>2. Keeps(Turn(Current, "hover", {}), Current)
    BY <1>1, <2>1, TurnKeeps
  <2> QED BY <1>1, <1>2, <1>4, <2>2 DEF LeavePointer, Keeps
<1>5. CASE PressButton
  <2>1. PICK hit \in Option(Widget) : \E code : Routed(Pressed(Current, code, hit))
    BY <1>5, HitIsOne DEF PressButton
  <2> PICK code : Routed(Pressed(Current, code, hit))
    BY <2>1
  <2>2. Keeps(Pressed(Current, code, hit), Current)
    BY <1>1, PressedKeeps
  <2> QED BY <1>1, <1>2, <2>2 DEF Keeps
<1>6. CASE ReleaseButton
  <2>1. PICK code, hit : Routed(Released(Current, code, hit))
    BY <1>6 DEF ReleaseButton
  <2>2. Keeps(Released(Current, code, hit), Current)
    BY <1>1, ReleasedKeeps
  <2> QED BY <1>1, <1>2, <2>1, <2>2 DEF Keeps
<1>7. CASE TurnWheel \/ TypeKey
  <2>1. PICK option : Routed(Forwarded(Current, option, TRUE))
    BY <1>7 DEF TurnWheel, TypeKey
  <2>2. Keeps(Forwarded(Current, option, TRUE), Current)
    BY <1>1, ForwardedKeeps DEF SoundRouter
  <2> QED BY <1>1, <1>2, <2>1, <2>2 DEF Keeps
<1>8. CASE LoseWindow
  <2>1. Keeps(CancelMissing(Current, {}), Current)
    BY <1>1, CancelMissingKeeps
  <2> QED BY <1>1, <1>2, <1>8, <2>1 DEF LoseWindow, Keeps
<1>9. CASE InputState
  BY <1>1, <1>9 DEF InputState
<1> QED BY <1>3, <1>4, <1>5, <1>6, <1>7, <1>8, <1>9 DEF UserInput

LEMMA ScreenStep == InputInv /\ ScreenTyped /\ [InputNext]_inputVars => ScreenTyped'
<1> SUFFICES ASSUME InputInv, ScreenTyped, [InputNext]_inputVars PROVE ScreenTyped'
  OBVIOUS
<1> USE DEF pluginSide, timerSide, ScreenTyped
<1>1. Nowhere \in [Widget -> Mode] /\ "hidden" \in Mode
  BY DEF Nowhere, Mode
<1>2. CASE UserInput
  <2>1. UNCHANGED <<presented, timers, drawing>>
    BY <1>2 DEF UserInput, Routed, MovePointer, LeavePointer, PressButton, ReleaseButton,
       TurnWheel, TypeKey, LoseWindow, InputState
  <2> QED BY <2>1
<1>3. CASE BeginDrawing
  <2>1. /\ drawing' = {[known |-> live, next |-> Nowhere]} /\ UNCHANGED <<presented, timers>>
    BY <1>3 DEF BeginDrawing
  <2>2. [known |-> live, next |-> Nowhere] \in [known : SUBSET Widget, next : [Widget -> Mode]]
    BY <1>1 DEF InputInv
  <2> QED BY <2>1, <2>2
<1>4. CASE Present
  BY <1>4 DEF Present, Mode
<1>5. CASE FinishFrame \/ ClearPresentations
  BY <1>1, <1>5 DEF FinishFrame, ClearPresentations, Finished
<1>6. CASE ReleaseWidget
  <2>1. PICK w \in live :
          /\ presented' = [presented EXCEPT ![w] = "hidden"]
          /\ timers' = [timers EXCEPT ![w] = "none"]
          /\ drawing' = {[d EXCEPT !.next[w] = "hidden"] : d \in drawing}
    BY <1>6 DEF ReleaseWidget
  <2>2. \A d \in [known : SUBSET Widget, next : [Widget -> Mode]] :
          [d EXCEPT !.next[w] = "hidden"] \in [known : SUBSET Widget, next : [Widget -> Mode]]
    BY <1>1
  <2>3. \A d \in drawing' : d \in [known : SUBSET Widget, next : [Widget -> Mode]]
    BY <2>1, <2>2
  <2> QED BY <1>1, <2>1, <2>3
<1>7. CASE SetRegions \/ ReleaseCapture \/ Subscribe \/ Unsubscribe \/ CreateTimer
  BY <1>7 DEF SetRegions, ReleaseCapture, Subscribe, Unsubscribe, CreateTimer
<1>8. CASE InputWorker \/ TimePasses
  BY <1>8 DEF InputWorker, TimePasses, Dispatch, Deliver, Measure, WakeWorker
<1>9. CASE UNCHANGED inputVars
  BY <1>9 DEF inputVars
<1> QED BY <1>2, <1>3, <1>4, <1>5, <1>6, <1>7, <1>8, <1>9 DEF InputNext, DrawFrame, PluginCalls

LEMMA AlarmStep == InputInv /\ ScreenTyped /\ AlarmCounts /\ [InputNext]_inputVars => AlarmCounts'
<1> SUFFICES ASSUME InputInv, ScreenTyped, AlarmCounts, [InputNext]_inputVars PROVE AlarmCounts'
  OBVIOUS
<1> USE DEF timerSide
<1>1. ASSUME Keeps(router', router), UNCHANGED <<timerSide, presented>> PROVE AlarmCounts'
  BY <1>1 DEF AlarmCounts, Keeps, Drawn
<1>2. ASSUME NEW next, Finished(next) PROVE AlarmCounts'
  <2>1. PICK s : s = CancelMissing(router, {w \in Widget : next[w] = "interactive"})
    OBVIOUS
  <2>2. SoundRouter(s) /\ Keeps(s, router)
    BY <2>1, CancelMissingSound, CancelMissingKeeps DEF InputInv
  <2>3. router' = Unparked(s, next) /\ presented' = next /\ UNCHANGED timerSide
    BY <1>2, <2>1 DEF Finished
  <2>4. CASE Drawn(presented) = Drawn(next)
    <3>1. router' = s /\ Drawn(presented)' = Drawn(presented)
      BY <2>3, <2>4 DEF Unparked, Drawn
    <3> QED BY <2>2, <2>3, <3>1 DEF AlarmCounts, Keeps
  <2>5. CASE Drawn(presented) # Drawn(next)
    <3>1. router' = [s EXCEPT !.permit = TRUE]
      BY <2>3, <2>5 DEF Unparked
    <3>2. router'.permit
      BY <2>2, <3>1 DEF SoundRouter, RouterTyped, Fields
    <3> QED BY <3>2 DEF AlarmCounts
  <2> QED BY <2>4, <2>5
<1>3. CASE BeginDrawing \/ Present \/ SetRegions \/ Subscribe
  <2>1. UNCHANGED <<router, timerSide, presented>>
    BY <1>3 DEF BeginDrawing, Present, SetRegions, Subscribe
  <2> QED BY <1>1, <2>1 DEF Keeps
<1>4. CASE ReleaseCapture
  <2>1. PICK w \in live :
          /\ router' = IF w \in router.capture
                       THEN [Inform(router, {w}, "capture", FALSE) EXCEPT !.capture = {}]
                       ELSE router
          /\ UNCHANGED <<timerSide, presented>>
    BY <1>4 DEF ReleaseCapture
  <2>2. w \in router.capture => router.capture = {w}
    <3>1. router.capture \in Option(Widget)
      BY DEF InputInv, SoundRouter, RouterTyped, Hold
    <3> QED BY <3>1 DEF Option
  <2>3. Keeps([Inform(router, router.capture, "capture", FALSE) EXCEPT !.capture = {}], router)
    BY EndedKeeps DEF InputInv, Hold
  <2> QED BY <1>1, <2>1, <2>2, <2>3 DEF Keeps
<1>5. CASE Unsubscribe
  <2>1. PICK f, M : router' = [router EXCEPT !.inputs = f, !.permit = TRUE, !.missed = M]
    BY <1>5 DEF Unsubscribe, InputInv, SoundRouter, RouterTyped, Fields
  <2>2. router'.permit
    BY <2>1 DEF InputInv, SoundRouter, RouterTyped, Fields
  <2> QED BY <2>2 DEF AlarmCounts
<1>6. CASE ReleaseWidget
  <2>1. PICK w \in live :
          /\ presented' = [presented EXCEPT ![w] = "hidden"]
          /\ timers' = [timers EXCEPT ![w] = "none"]
          /\ router' = CancelMissing(router, Drawn([presented EXCEPT ![w] = "hidden"]))
          /\ UNCHANGED <<loops, alarm>>
    BY <1>6 DEF ReleaseWidget
  <2>2. Keeps(router', router)
    BY <2>1, CancelMissingKeeps DEF InputInv
  <2>3. ASSUME NEW v \in Drawn(presented)', timers'[v] # "none"
        PROVE  v \in Drawn(presented) /\ timers[v] # "none"
    BY <2>1, <2>3 DEF Drawn, ScreenTyped
  <2> QED BY <2>1, <2>2, <2>3 DEF AlarmCounts, Keeps
<1>7. CASE CreateTimer
  <2>1. router'.permit
    BY <1>7 DEF CreateTimer, InputInv, SoundRouter, RouterTyped, Fields
  <2> QED BY <2>1 DEF AlarmCounts
<1>8. CASE TimePasses
  <2>1. PICK w \in Widget : /\ timers[w] = "set" /\ timers' = [timers EXCEPT ![w] = "due"]
                            /\ UNCHANGED <<presented, router, loops, alarm>>
    BY <1>8 DEF TimePasses
  <2> QED BY <2>1 DEF AlarmCounts, Drawn
<1>9. CASE Dispatch \/ Deliver
  <2>1. loops' # "park"
    BY <1>9 DEF Dispatch, Deliver
  <2> QED BY <2>1 DEF AlarmCounts
<1>10. CASE Measure
  BY <1>10 DEF Measure, AlarmCounts, Drawn
<1>11. CASE WakeWorker
  BY <1>11 DEF WakeWorker, AlarmCounts
<1>12. CASE UNCHANGED inputVars
  <2>1. UNCHANGED <<router, timerSide, presented>>
    BY <1>12 DEF inputVars
  <2> QED BY <1>1, <2>1 DEF Keeps
<1>13. CASE UserInput
  BY <1>1, <1>13, UserInputKeeps
<1>14. CASE FinishFrame \/ ClearPresentations
  BY <1>2, <1>14 DEF FinishFrame, ClearPresentations
<1> QED
  BY <1>3, <1>4, <1>5, <1>6, <1>7, <1>8, <1>9, <1>10, <1>11, <1>12, <1>13, <1>14
  DEF InputNext, DrawFrame, PluginCalls, InputWorker

(* No timer of a widget that is shown is slept through: timers that were   *)
(* hidden when the worker measured its sleep wake it when they come on the *)
(* screen (extensions.rs: finish_frame, wait_duration), as do timers that  *)
(* are created meanwhile.                                                  *)
THEOREM NoTimerIsSleptThrough == InputSpec => []AlarmCounts
<1>1. InputInit => InputInv /\ ScreenTyped /\ AlarmCounts
  BY InitSound DEF InputInit, ScreenTyped, AlarmCounts, Nowhere, Mode
<1>2. InputInv /\ [InputNext]_inputVars => InputInv'
  BY StepSound, WidgetsOnly DEF InputInv
<1> QED BY <1>1, <1>2, ScreenStep, AlarmStep, PTL DEF InputSpec
=============================================================================
