-------------------------- MODULE SystemMediaProofs --------------------------
(***************************************************************************)
(* That the cover and the lyrics shown belong to the song shown, for any   *)
(* players, songs and number of changes, although the threads and tasks    *)
(* that fetch them outlive songs; and that what plugins ask to be shown is *)
(* answered and obeyed, for any plugins, media and number of requests.     *)
(***************************************************************************)
EXTENDS MediaSelection, MediaInfo, ThumbnailFetcher, FiniteSetTheorems, TLAPS

(* The fetcher's thread has ended while the worker does not listen, and    *)
(* what it has loaded is what it is about to publish.                      *)
ThreadKnown ==
  /\ playing \in Tune \cup {Silence} /\ wish \in BOOLEAN /\ listening \in BOOLEAN /\ closed \in BOOLEAN
  /\ loop \in {"poll", "ask", "join"}
  /\ thread \in {"top", "checked", "waits", "loads", "publishes", "ended"}
  /\ loop # "join" /\ ~listening => thread = "ended"
  /\ loaded # {} => thread = "publishes"
  /\ loaded \subseteq loading

(* Numbers of tracks name songs, in what is shown and in every request.    *)
CoverRequest  == [track : Nat, tune : Tune \cup {Silence}]
CoverRequests == request \cup loading \cup loaded
Shown == [track : Nat, tune : Tune \cup {Silence}, cover : SUBSET CoverRequest]
ShownNamed ==
  /\ lastTrack \in Nat /\ shown \in Shown /\ shown.track \in 0..lastTrack
  /\ shown.track = 0 => shown.tune = Silence
  /\ shown.tune = Silence => shown.track = 0
  /\ loop = "ask" => shown.track # 0
RequestsName ==
  /\ CoverRequests \subseteq CoverRequest
  /\ \A r \in CoverRequests :
       /\ r.track \in 1..lastTrack
       /\ r.track = shown.track => r.tune = shown.tune

CoverInv == ThreadKnown /\ ShownNamed /\ RequestsName /\ CoverIsCurrent

LEMMA CoverInvInit == CoverInit => CoverInv
<1> SUFFICES ASSUME CoverInit PROVE CoverInv
  OBVIOUS
<1> USE DEF CoverInit
<1>1. ThreadKnown /\ RequestsName /\ CoverIsCurrent
  BY DEF ThreadKnown, RequestsName, CoverIsCurrent, Nothing, CoverRequests
<1>2. ShownNamed
  BY DEF ShownNamed, Shown, CoverRequest, Nothing
<1> QED BY <1>1, <1>2 DEF CoverInv

LEMMA CoverInvStep == CoverInv /\ [CoverNext]_coverVars => CoverInv'
<1> SUFFICES ASSUME CoverInv, [CoverNext]_coverVars PROVE CoverInv'
  OBVIOUS
<1> USE DEF CoverInv, worker_vars, thread_vars
<1>0. /\ Nothing \in Shown /\ Nothing.track = 0 /\ Nothing.tune = Silence /\ Nothing.cover = {}
      /\ CoverOf(shown) \in CoverRequest /\ CoverOf(shown).track = shown.track
      /\ CoverOf(shown).tune = shown.tune
  BY DEF Nothing, ShownNamed, Shown, CoverRequest, CoverOf
<1>1. ASSUME UNCHANGED <<shown, request, loading, loaded, lastTrack, loop>> 
      PROVE  ShownNamed' /\ RequestsName' /\ CoverIsCurrent'
  BY <1>1 DEF ShownNamed, Shown, RequestsName, CoverRequests, CoverIsCurrent, CoverOf
<1>2. ASSUME shown' = Nothing, loop' # "ask", UNCHANGED <<request, loading, loaded, lastTrack>>
      PROVE  ShownNamed' /\ RequestsName' /\ CoverIsCurrent'
  BY <1>0, <1>2 DEF ShownNamed, Shown, RequestsName, CoverRequests, CoverIsCurrent
<1>3. ASSUME NEW x \in Tune \cup {Silence}, PlayTune(x) \/ SwitchCovers PROVE CoverInv'
  BY <1>1, <1>3 DEF PlayTune, SwitchCovers, ThreadKnown
<1>4. ASSUME StartFetcher PROVE CoverInv'
  <2>1. ThreadKnown'
    BY <1>4 DEF StartFetcher, ThreadKnown
  <2>2. ShownNamed' /\ RequestsName' /\ CoverIsCurrent'
    BY <1>4 DEF StartFetcher, ShownNamed, RequestsName, CoverRequests, CoverIsCurrent, CoverOf
  <2> QED BY <2>1, <2>2
<1>5. ASSUME CloseFetcher PROVE CoverInv'
  <2>1. ThreadKnown'
    BY <1>5 DEF CloseFetcher, Notify, ThreadKnown
  <2>2. ShownNamed' /\ RequestsName' /\ CoverIsCurrent'
    BY <1>5 DEF CloseFetcher, ShownNamed, RequestsName, CoverRequests, CoverIsCurrent, CoverOf
  <2> QED BY <2>1, <2>2
<1>6. ASSUME JoinFetcher PROVE CoverInv'
  <2>1. ThreadKnown'
    BY <1>6 DEF JoinFetcher, ThreadKnown
  <2> QED BY <1>2, <1>6, <2>1 DEF JoinFetcher
<1>7. ASSUME ReadTune PROVE CoverInv'
  <2>1. ThreadKnown'
    BY <1>7 DEF ReadTune, ThreadKnown
  <2>2. CASE playing = Silence
    BY <1>2, <1>7, <2>1, <2>2 DEF ReadTune
  <2>3. CASE playing # Silence /\ playing # shown.tune
    <3>1. /\ shown' = [track |-> lastTrack + 1, tune |-> playing, cover |-> {}]
          /\ lastTrack' = lastTrack + 1 /\ UNCHANGED thread_vars
      BY <1>7, <2>3 DEF ReadTune
    <3>2. lastTrack' \in Nat /\ lastTrack' # 0 /\ lastTrack <= lastTrack'
      BY <3>1 DEF ShownNamed, Shown, CoverRequest
    <3>3. /\ shown' \in Shown /\ shown'.track = lastTrack + 1 /\ shown'.tune = playing
          /\ shown'.cover = {} 
      BY <3>1, <3>2 DEF Shown, ThreadKnown
    <3>4. ShownNamed'
      BY <2>3, <3>1, <3>2, <3>3 DEF ShownNamed, Shown, CoverRequest
    <3>5. RequestsName'
      BY <3>1, <3>2, <3>3 DEF RequestsName, CoverRequests, CoverRequest, ShownNamed, Shown
    <3> QED BY <2>1, <3>3, <3>4, <3>5 DEF CoverIsCurrent
  <2>4. CASE playing # Silence /\ playing = shown.tune
    <3>1. UNCHANGED <<shown, lastTrack, thread_vars>>
      BY <1>7, <2>4 DEF ReadTune
    <3>2. ShownNamed'
      BY <2>4, <3>1 DEF ShownNamed, Shown
    <3>3. RequestsName'
      BY <3>1 DEF RequestsName, CoverRequests
    <3>4. CoverIsCurrent'
      BY <3>1, CoverIsCurrent DEF CoverIsCurrent, CoverOf
    <3> QED BY <2>1, <3>2, <3>3, <3>4
  <2> QED BY <2>2, <2>3, <2>4
<1>8. ASSUME RequestCover PROVE CoverInv'
  <2>1. ThreadKnown'
    BY <1>8 DEF RequestCover, Notify, ThreadKnown
  <2>2. request' = {CoverOf(shown)} /\ UNCHANGED <<shown, lastTrack, loading, loaded>>
        /\ loop = "ask" /\ loop' = "poll"
    BY <1>8 DEF RequestCover
  <2>3. RequestsName'
    BY <1>0, <2>2 DEF RequestsName, CoverRequests, ShownNamed, Shown, CoverRequest
  <2>4. ShownNamed' /\ CoverIsCurrent'
    BY <2>2 DEF ShownNamed, Shown, CoverRequest, CoverIsCurrent, CoverOf
  <2> QED BY <2>1, <2>3, <2>4
<1>9. ASSUME CheckRequest \/ WaitForRequest \/ LoadCover \/ GiveUp PROVE CoverInv'
  <2>1. ThreadKnown'
    BY <1>9 DEF CheckRequest, WaitForRequest, LoadCover, GiveUp, ThreadKnown
  <2>2. CoverRequests' \subseteq CoverRequests /\ UNCHANGED <<shown, lastTrack, loop>>
    BY <1>9 DEF CheckRequest, WaitForRequest, LoadCover, GiveUp, CoverRequests, ThreadKnown
  <2>3. ShownNamed' /\ RequestsName' /\ CoverIsCurrent'
    BY <2>2 DEF ShownNamed, Shown, RequestsName, CoverIsCurrent, CoverOf
  <2> QED BY <2>1, <2>3
<1>10. ASSUME PublishCover PROVE CoverInv'
  <2>1. ThreadKnown'
    BY <1>10 DEF PublishCover, ThreadKnown
  <2>2. PICK r \in loaded : shown' = WithCover(r)
    BY <1>10 DEF PublishCover
  <2>3. r \in CoverRequest /\ (r.track = shown.track => r.tune = shown.tune)
    BY DEF RequestsName, CoverRequests
  <2>4. loading' = {} /\ loaded' = {} /\ UNCHANGED <<request, loop, lastTrack>>
    BY <1>10 DEF PublishCover
  <2>5. /\ shown' \in Shown /\ shown'.track = shown.track /\ shown'.tune = shown.tune
        /\ shown'.cover \in {shown.cover, {r}}
        /\ shown'.cover # shown.cover => Missing(r)
    BY <2>2, <2>3 DEF WithCover, Shown, ShownNamed
  <2>6. Missing(r) => r = CoverOf(shown)
    BY <2>3 DEF Missing, CoverOf, CoverRequest
  <2>7. CoverOf(shown)' = CoverOf(shown)
    BY <2>5 DEF CoverOf
  <2>8. CoverIsCurrent'
    BY <2>5, <2>6, <2>7 DEF CoverIsCurrent
  <2>9. ShownNamed' /\ RequestsName'
    BY <2>4, <2>5 DEF ShownNamed, Shown, RequestsName, CoverRequests
  <2> QED BY <2>1, <2>8, <2>9
<1>11. CASE UNCHANGED coverVars
  BY <1>1, <1>11 DEF coverVars, ThreadKnown
<1> HIDE DEF CoverInv
<1> QED
  BY <1>3, <1>4, <1>5, <1>6, <1>7, <1>8, <1>9, <1>10, <1>11 DEF CoverNext, CoverLoop, CoverThread

(* The cover shown is that of the song shown, however late it comes.       *)
THEOREM CoverBelongs == CoverSpec => []CoverIsCurrent
<1>1. CoverInv => CoverIsCurrent
  BY DEF CoverInv
<1> QED BY <1>1, CoverInvInit, CoverInvStep, PTL DEF CoverSpec

-----------------------------------------------------------------------------
(* Lyrics: what the worker knows, and the requests that it has made.       *)
Name   == App \cup {Unknown}
Song   == Title \cup {Unknown}
Task   == [title : Song, named : BOOLEAN, fetch : Nat, track : Nat, settings : 0..1]
Player == [app : Name, title : Song, named : BOOLEAN, timed : BOOLEAN, playing : BOOLEAN,
           pos : Position, told : Position, anew : BOOLEAN]
Info   == [app : Name, title : Song, named : BOOLEAN, timed : BOOLEAN, track : Nat,
           fetch : Nat, lyrics : SUBSET Task, playing : BOOLEAN, pos : Position,
           smtc : Position, target : Position, guard : {"none", "set", "late"}]
Timeline == [app : Name, timed : BOOLEAN, told : Position]

InfoTyped ==
  /\ player \in Player /\ info \in Info /\ tracks \in Nat /\ lyricTasks \subseteq Task
  /\ poll \in {"settings", "seek", "sought", "refused", "update"}
  /\ settings \in 0..1 /\ settingsSent \in Seq(0..1)
  /\ seeksSent \in Seq(Position) /\ seeking \subseteq Position /\ asked \in Position
  /\ timeline \subseteq Timeline

(* Tracks have numbers that no song had before, and requests for one track *)
(* are counted: the last one knows the settings in force.                  *)
TracksNumbered ==
  /\ info.track \in 0..tracks /\ (info.title = Unknown <=> info.track = 0)
  /\ \A t \in lyricTasks : t.track \in 0..tracks
TasksCounted ==
  \A t \in lyricTasks : t.track # 0 /\ t.track = info.track =>
    t.fetch <= info.fetch /\ (t.fetch = info.fetch => t.settings = settings)

LyricsInv == TracksNumbered /\ TasksCounted /\ LyricsAreCurrent
MediaInv  == InfoTyped /\ LyricsInv

(* What is shown is still the same song, with the same lyrics.             *)
SameSong(i) == /\ i.title = info.title /\ i.named = info.named /\ i.track = info.track
               /\ i.fetch = info.fetch /\ i.lyrics = info.lyrics
(* Or the lyrics have been asked for anew.                                 *)
AskedAnew(i) == /\ i.title = info.title /\ i.track = info.track
                /\ i.fetch > info.fetch /\ i.lyrics = {}

LEMMA PositionZero == 0 \in Position
  BY MediaInfoAssumption DEF Position

LEMMA DefaultInfo ==
  /\ Default \in Info /\ Default.track = 0 /\ Default.title = Unknown
  /\ Default.fetch = 0 /\ Default.lyrics = {}
  BY PositionZero DEF Default, Info, Name, Song

LEMMA RequeuedInfo ==
  ASSUME NEW i \in Info
  PROVE  /\ Requeued(i) \in Info /\ Requeued(i).title = i.title /\ Requeued(i).track = i.track
         /\ Requeued(i).fetch = i.fetch + 1 /\ Requeued(i).lyrics = {}
         /\ Requeued(i).named = i.named /\ Requeued(i).app = i.app
<1>1. i.fetch + 1 \in Nat
  BY DEF Info
<1> QED BY <1>1 DEF Requeued, Info

LEMMA RequestOf ==
  ASSUME NEW i \in Info, NEW s \in 0..1
  PROVE  /\ LyricsRequest(i, s) \in Task /\ LyricsRequest(i, s).track = i.track
         /\ LyricsRequest(i, s).fetch = i.fetch /\ LyricsRequest(i, s).settings = s
  BY DEF LyricsRequest, Info, Task

(* The same song keeps what is known of it.                                *)
LEMMA SongKept ==
  ASSUME MediaInv, info' \in Info, SameSong(info'), UNCHANGED <<tracks, settings>>,
         lyricTasks' \subseteq lyricTasks
  PROVE  LyricsInv'
<1>1. TracksNumbered'
  BY DEF MediaInv, LyricsInv, TracksNumbered, SameSong
<1>2. TasksCounted'
  BY DEF MediaInv, LyricsInv, TasksCounted, SameSong
<1>3. LyricsAreCurrent'
  BY DEF MediaInv, LyricsInv, LyricsAreCurrent, SameSong
<1> QED BY <1>1, <1>2, <1>3 DEF LyricsInv

(* When nothing is shown, nothing can be wrong.                            *)
LEMMA SongGone ==
  ASSUME MediaInv, info' = Default, UNCHANGED tracks,
         \A t \in lyricTasks' : t.track \in 0..tracks
  PROVE  LyricsInv'
<1>1. info'.track = 0 /\ info'.title = Unknown /\ info'.lyrics = {} /\ tracks \in Nat
  BY DefaultInfo DEF MediaInv, InfoTyped
<1>2. TracksNumbered'
  BY <1>1 DEF TracksNumbered
<1>3. TasksCounted' /\ LyricsAreCurrent'
  BY <1>1 DEF TasksCounted, LyricsAreCurrent
<1> QED BY <1>2, <1>3 DEF LyricsInv

(* The request made last is the only one with its number.                  *)
LEMMA LyricsAsked ==
  ASSUME MediaInv, info' \in Info, AskedAnew(info'), UNCHANGED tracks, settings' \in 0..1,
         lyricTasks' = lyricTasks \cup {LyricsRequest(info', settings')}
  PROVE  LyricsInv'
<1> DEFINE r == LyricsRequest(info', settings')
<1>1. /\ r.track = info.track /\ r.fetch = info'.fetch /\ r.settings = settings'
      /\ info'.fetch \in Nat /\ info.fetch \in Nat
      /\ \A t \in lyricTasks : t.fetch \in Nat
  BY RequestOf DEF MediaInv, InfoTyped, Info, Task, AskedAnew
<1> HIDE DEF r
<1>2. lyricTasks' = lyricTasks \cup {r}
  BY DEF r
<1>3. TracksNumbered'
  BY <1>1, <1>2 DEF MediaInv, LyricsInv, TracksNumbered, AskedAnew
<1>4. TasksCounted'
  <2> SUFFICES ASSUME NEW t \in lyricTasks', t.track # 0, t.track = info'.track
               PROVE  t.fetch <= info'.fetch /\ (t.fetch = info'.fetch => t.settings = settings')
    BY DEF TasksCounted
  <2>1. CASE t = r
    BY <1>1, <2>1
  <2>2. CASE t \in lyricTasks
    <3>1. t.fetch <= info.fetch /\ info.fetch < info'.fetch
      BY <2>2, <1>1 DEF MediaInv, LyricsInv, TasksCounted, AskedAnew
    <3> QED BY <3>1, <1>1, <2>2
  <2> QED BY <1>2, <2>1, <2>2
<1>5. LyricsAreCurrent'
  BY DEF LyricsAreCurrent, AskedAnew
<1> QED BY <1>3, <1>4, <1>5 DEF LyricsInv

(* And a new track has no other request than its own.                      *)
LEMMA TrackStarted ==
  ASSUME MediaInv, info' \in Info, tracks' = tracks + 1, info'.track = tracks + 1,
         info'.title # Unknown, info'.lyrics = {}, UNCHANGED settings,
         lyricTasks' \in {lyricTasks, lyricTasks \cup {LyricsRequest(info', settings)}}
  PROVE  LyricsInv'
<1> DEFINE r == LyricsRequest(info', settings)
<1>1. /\ r.track = tracks + 1 /\ r.fetch = info'.fetch /\ r.settings = settings
      /\ info'.fetch \in Nat /\ tracks \in Nat
      /\ \A t \in lyricTasks : t.track \in 0..tracks
  BY RequestOf DEF MediaInv, InfoTyped, Info, LyricsInv, TracksNumbered
<1> HIDE DEF r
<1>2. lyricTasks' \subseteq lyricTasks \cup {r}
  BY DEF r
<1>3. TracksNumbered'
  BY <1>1, <1>2 DEF TracksNumbered
<1>4. TasksCounted'
  BY <1>1, <1>2 DEF TasksCounted
<1>5. LyricsAreCurrent'
  BY DEF LyricsAreCurrent
<1> QED BY <1>3, <1>4, <1>5 DEF LyricsInv

-----------------------------------------------------------------------------
(* How the operators of the worker change what is shown.                   *)

LEMMA SoughtInfo ==
  ASSUME info \in Info, NEW p \in Position
  PROVE  /\ Sought(info, p) \in Info /\ SameSong(Sought(info, p))
         /\ Unsought(info, p) \in Info /\ SameSong(Unsought(info, p))
  BY PositionZero DEF Sought, Unsought, Info, SameSong

LEMMA SyncedInfo ==
  ASSUME NEW i \in Info, NEW r, r.told \in Position, r.playing \in BOOLEAN
  PROVE  /\ Synced(i, r) \in Info /\ Synced(i, r).title = i.title
         /\ Synced(i, r).named = i.named /\ Synced(i, r).track = i.track
         /\ Synced(i, r).fetch = i.fetch /\ Synced(i, r).lyrics = i.lyrics
  BY DEF Synced, Info

LEMMA EnrichedInfo ==
  ASSUME info \in Info, NEW r
  PROVE  /\ Enriched(r) \in Info /\ Enriched(r).title = info.title
         /\ Enriched(r).track = info.track
         /\ SameSong(Enriched(r)) \/ AskedAnew(Enriched(r))
<1>1. CASE r.title # Unknown /\ r.named /\ ~info.named
  <2> DEFINE i == [info EXCEPT !.named = TRUE]
  <2>1. /\ i \in Info /\ i.title = info.title /\ i.track = info.track /\ i.fetch = info.fetch
        /\ info.fetch \in Nat
    BY DEF Info
  <2>2. Enriched(r) = Requeued(i)
    BY <1>1 DEF Enriched
  <2> HIDE DEF i
  <2> QED BY <2>1, <2>2, RequeuedInfo DEF AskedAnew
<1>2. CASE ~(r.title # Unknown /\ r.named /\ ~info.named)
  BY <1>2 DEF Enriched, SameSong
<1> QED BY <1>1, <1>2

LEMMA TimedInfo ==
  ASSUME info \in Info, NEW i \in Info, NEW r, r.timed \in BOOLEAN,
         SameSong(i) \/ AskedAnew(i)
  PROVE  Timed(i, r) \in Info /\ (SameSong(Timed(i, r)) \/ AskedAnew(Timed(i, r)))
<1> DEFINE u == [i EXCEPT !.timed = r.timed]
<1>1. /\ u \in Info /\ u.title = i.title /\ u.track = i.track /\ u.fetch = i.fetch
      /\ u.lyrics = i.lyrics /\ u.named = i.named /\ i.fetch \in Nat /\ info.fetch \in Nat
  BY DEF Info
<1>2. Timed(i, r) = u \/ (i.fetch = info.fetch /\ Timed(i, r) = Requeued(u))
  BY DEF Timed
<1> HIDE DEF u
<1> QED BY <1>1, <1>2, RequeuedInfo DEF SameSong, AskedAnew

LEMMA StartedInfo ==
  ASSUME info \in Info, tracks \in Nat, NEW r \in Player
  PROVE  /\ [Started(r) EXCEPT !.timed = r.timed] \in Info
         /\ [Started(r) EXCEPT !.timed = r.timed].track = tracks + 1
         /\ [Started(r) EXCEPT !.timed = r.timed].title = r.title
         /\ [Started(r) EXCEPT !.timed = r.timed].lyrics = {}
<1> DEFINE i == [Default EXCEPT !.app = r.app, !.title = r.title, !.named = r.named,
                               !.track = tracks + 1, !.fetch = info.fetch,
                               !.playing = r.playing, !.pos = r.told, !.smtc = r.told]
           q == Requeued(i)
<1>1. i \in Info /\ i.title = r.title /\ i.track = tracks + 1
  <2>1. tracks + 1 \in Nat /\ info.fetch \in Nat
    BY DEF Info
  <2>2. r.app \in Name /\ r.title \in Song /\ r.named \in BOOLEAN /\ r.told \in Position
        /\ r.playing \in BOOLEAN
    BY DEF Player
  <2> QED BY <2>1, <2>2, DefaultInfo DEF Info
<1>2. Started(r) = q
  BY DEF Started
<1> HIDE DEF i
<1>3. q \in Info /\ q.title = r.title /\ q.track = tracks + 1 /\ q.lyrics = {}
  BY <1>1, RequeuedInfo
<1> HIDE DEF q
<1> QED BY <1>2, <1>3 DEF Info, Player

-----------------------------------------------------------------------------
LEMMA MediaInvInit == MediaInfoInit => MediaInv
<1> SUFFICES ASSUME MediaInfoInit PROVE MediaInv
  OBVIOUS
<1>1. player \in Player
  <2>1. CASE player = NoPlayer
    BY <2>1, PositionZero DEF NoPlayer, Player, Name, Song
  <2>2. CASE \E a \in App, x \in Title, full \in BOOLEAN : player = Playing(a, x, full)
    BY <2>2, PositionZero DEF Playing, Player, Name, Song
  <2> QED BY <2>1, <2>2 DEF MediaInfoInit
<1>2. InfoTyped
  BY <1>1, DefaultInfo, PositionZero DEF MediaInfoInit, InfoTyped
<1>3. LyricsInv
  BY DefaultInfo
  DEF MediaInfoInit, LyricsInv, TracksNumbered, TasksCounted, LyricsAreCurrent
<1> QED BY <1>2, <1>3 DEF MediaInv

(* Users and players.                                                      *)
LEMMA InputsKeep == MediaInv /\ Inputs => MediaInv'
<1> SUFFICES ASSUME MediaInv, Inputs PROVE MediaInv'
  OBVIOUS
<1> USE DEF uiSide, workerSide
<1>1. UNCHANGED <<info, lyricTasks, tracks, settings, poll, asked, timeline>>
  BY DEF Inputs, PlaySong, ChangeDetail, ClosePlayer, SwitchListening, ChangeSettings, RequestSeek
<1>2. LyricsInv'
  BY <1>1, SongKept DEF MediaInv, InfoTyped, SameSong
<1>3. player' \in Player
  <2>1. ASSUME NEW a \in App, NEW x \in Title \cup {Unknown}, NEW full \in BOOLEAN,
               PlaySong(a, x, full)
        PROVE  player' \in Player
    BY <2>1, PositionZero DEF PlaySong, Playing, Player, Name, Song
  <2>2. CASE ChangeDetail
    BY <2>2 DEF ChangeDetail, MediaInv, InfoTyped, Player
  <2>3. CASE ClosePlayer
    BY <2>3, PositionZero DEF ClosePlayer, NoPlayer, Player, Name, Song
  <2>4. CASE UNCHANGED player
    BY <2>4 DEF MediaInv, InfoTyped
  <2> QED
    BY <2>1, <2>2, <2>3, <2>4 DEF Inputs, SwitchListening, ChangeSettings, RequestSeek
<1>4. settingsSent' \in Seq(0..1)
  <2>1. CASE ChangeSettings
    BY <2>1 DEF ChangeSettings, MediaInv, InfoTyped
  <2>2. CASE UNCHANGED settingsSent
    BY <2>2 DEF MediaInv, InfoTyped
  <2> QED
    BY <2>1, <2>2 DEF Inputs, PlaySong, ChangeDetail, ClosePlayer, SwitchListening, RequestSeek
<1>5. seeksSent' \in Seq(Position) /\ seeking' \subseteq Position
  <2>1. ASSUME NEW p \in Position, RequestSeek(p)
        PROVE  seeksSent' \in Seq(Position) /\ seeking' \subseteq Position
    BY <2>1 DEF RequestSeek, MediaInv, InfoTyped
  <2>2. CASE UNCHANGED <<seeksSent, seeking>>
    BY <2>2 DEF MediaInv, InfoTyped
  <2> QED
    BY <2>1, <2>2 DEF Inputs, PlaySong, ChangeDetail, ClosePlayer, SwitchListening, ChangeSettings
<1> QED BY <1>1, <1>2, <1>3, <1>4, <1>5 DEF MediaInv, InfoTyped

(* The UI thread and the tasks.                                            *)
LEMMA ShowSeekKeeps == MediaInv /\ ShowSeek => MediaInv'
<1> SUFFICES ASSUME MediaInv, ShowSeek PROVE MediaInv'
  OBVIOUS
<1> USE DEF workerSide
<1>1. info' \in Info /\ SameSong(info')
  BY SoughtInfo DEF ShowSeek, MediaInv, InfoTyped, SameSong
<1>2. UNCHANGED <<player, lyricTasks, settingsSent, seeksSent, workerSide>> /\ seeking' = {}
  BY DEF ShowSeek
<1> QED BY <1>1, <1>2, SongKept DEF MediaInv, InfoTyped

LEMMA GuardKeeps == MediaInv /\ GuardRunsOut => MediaInv'
<1> SUFFICES ASSUME MediaInv, GuardRunsOut PROVE MediaInv'
  OBVIOUS
<1> USE DEF workerSide, uiSide
<1>1. info' \in Info /\ SameSong(info')
  BY DEF GuardRunsOut, MediaInv, InfoTyped, SameSong, Info
<1>2. UNCHANGED <<player, lyricTasks, uiSide, workerSide>>
  BY DEF GuardRunsOut
<1> QED BY <1>1, <1>2, SongKept DEF MediaInv, InfoTyped

(* Time, and what the player tells of it.                                  *)
LEMMA PlaybackKeeps == MediaInv /\ Playback => MediaInv'
<1> SUFFICES ASSUME MediaInv, Playback PROVE MediaInv'
  OBVIOUS
<1> USE DEF workerSide, uiSide
<1>1. \A p \in Position : p < MaxPosition => p + 1 \in Position
  BY MediaInfoAssumption DEF Position
<1>2. player \in Player /\ info \in Info
  BY DEF MediaInv, InfoTyped
<1>3. info' \in Info /\ SameSong(info')
  <2>1. CASE SongAdvances
    BY <1>1, <1>2, <2>1 DEF SongAdvances, Info, SameSong
  <2>2. CASE ReportPosition
    BY <1>2, <2>2 DEF ReportPosition, SameSong
  <2> QED BY <2>1, <2>2 DEF Playback
<1>4. player' \in Player
  BY <1>1, <1>2 DEF Playback, SongAdvances, ReportPosition, Player
<1>5. UNCHANGED <<lyricTasks, uiSide, workerSide>>
  BY DEF Playback, SongAdvances, ReportPosition
<1> QED BY <1>3, <1>4, <1>5, SongKept DEF MediaInv, InfoTyped

LEMMA LyricsKeep == MediaInv /\ Lyrics => MediaInv'
<1> SUFFICES ASSUME MediaInv, NEW t \in lyricTasks, NEW found \in BOOLEAN, FinishLyrics(t, found)
             PROVE  MediaInv'
  BY DEF Lyrics
<1> USE DEF workerSide, uiSide
<1>1. /\ UNCHANGED <<player, uiSide, workerSide>> /\ lyricTasks' \subseteq lyricTasks
      /\ lyricTasks \subseteq Task /\ info \in Info
  BY DEF FinishLyrics, MediaInv, InfoTyped
<1>2. CASE ~Matches(t, info)
  <2>1. info' \in Info /\ SameSong(info')
    BY <1>1, <1>2 DEF FinishLyrics, SameSong
  <2> QED BY <1>1, <2>1, SongKept DEF MediaInv, InfoTyped
<1>3. CASE Matches(t, info)
  <2>1. /\ info' \in Info /\ info'.title = info.title /\ info'.named = info.named
        /\ info'.track = info.track /\ info'.fetch = info.fetch /\ info'.lyrics \subseteq {t}
    BY <1>1, <1>3 DEF FinishLyrics, Info
  <2>2. TracksNumbered' /\ TasksCounted'
    BY <1>1, <2>1 DEF MediaInv, LyricsInv, TracksNumbered, TasksCounted
  <2>3. t.track = info.track /\ t.named = info.named
        /\ (info.title # Unknown => t.settings = settings)
    BY <1>3 DEF Matches, MediaInv, LyricsInv, TracksNumbered, TasksCounted
  <2>4. LyricsAreCurrent'
    BY <1>1, <2>1, <2>3 DEF LyricsAreCurrent
  <2> QED BY <1>1, <2>1, <2>2, <2>4 DEF MediaInv, InfoTyped, LyricsInv
<1> QED BY <1>2, <1>3

-----------------------------------------------------------------------------
(* The loop.                                                               *)
LEMMA SettingsKeep == MediaInv /\ PollSettings => MediaInv'
<1> SUFFICES ASSUME MediaInv, PollSettings PROVE MediaInv'
  OBVIOUS
<1> DEFINE i == LyricsRefreshed
<1>1. info \in Info /\ lyricTasks \subseteq Task /\ settings \in 0..1
  BY DEF MediaInv, InfoTyped
<1>2. settings' \in 0..1
  BY DEF PollSettings, MediaInv, InfoTyped
<1>3. \/ i = info /\ (info.title # Unknown => settings' = settings)
      \/ i = Requeued(info)
  <2>1. CASE settingsSent = <<>>
    BY <2>1 DEF LyricsRefreshed, PollSettings
  <2>2. CASE settingsSent # <<>>
    <3>1. Len(settingsSent) \in DOMAIN settingsSent /\ settings' = settingsSent[Len(settingsSent)]
      BY <2>2 DEF MediaInv, InfoTyped, PollSettings
    <3> QED BY <3>1 DEF LyricsRefreshed
  <2> QED BY <2>1, <2>2
<1>4. i \in Info /\ (i = Requeued(info) => i # info /\ AskedAnew(i))
  <2>1. info.fetch \in Nat
    BY <1>1 DEF Info
  <2> QED BY <1>1, <1>3, <2>1, RequeuedInfo DEF AskedAnew
<1>5. /\ lyricTasks' = IF i = info THEN lyricTasks
                       ELSE lyricTasks \cup {LyricsRequest(i, settings')}
      /\ info' \in {i, Default} /\ settingsSent' = <<>> /\ poll' = "seek"
      /\ timeline' \subseteq timeline
      /\ UNCHANGED <<player, seeksSent, seeking, asked, tracks>>
  BY DEF PollSettings
<1> HIDE DEF i
<1>6. InfoTyped'
  <2>1. lyricTasks' \subseteq Task
    BY <1>1, <1>2, <1>4, <1>5, RequestOf
  <2>2. info' \in Info
    BY <1>4, <1>5, DefaultInfo
  <2> QED BY <1>2, <1>5, <2>1, <2>2 DEF MediaInv, InfoTyped
<1>7. CASE info' = Default
  <2>1. i.track = info.track
    BY <1>3, <1>4 DEF AskedAnew
  <2>2. LyricsRequest(i, settings').track = info.track
    BY <1>2, <1>4, <2>1, RequestOf
  <2>3. \A t \in lyricTasks' : t.track \in 0..tracks
    BY <1>5, <2>2 DEF MediaInv, LyricsInv, TracksNumbered
  <2> QED BY <1>5, <1>6, <1>7, <2>3, SongGone DEF MediaInv
<1>8. CASE info' = i /\ i = info /\ info' # Default
  <2>1. CASE info.title # Unknown
    BY <1>3, <1>4, <1>5, <1>6, <1>8, <2>1, SongKept DEF MediaInv, SameSong
  <2>2. CASE info.title = Unknown
    <3>1. info.track = 0
      BY <2>2 DEF MediaInv, LyricsInv, TracksNumbered
    <3>2. LyricsInv'
      BY <1>5, <1>8, <2>2, <3>1
      DEF MediaInv, LyricsInv, TracksNumbered, TasksCounted, LyricsAreCurrent
    <3> QED BY <1>6, <3>2 DEF MediaInv
  <2> QED BY <2>1, <2>2
<1>9. CASE info' = i /\ i = Requeued(info) /\ info' # Default
  BY <1>2, <1>4, <1>5, <1>6, <1>9, LyricsAsked DEF MediaInv
<1> QED BY <1>3, <1>5, <1>7, <1>8, <1>9

(* A seek moves the position and nothing else.                             *)
LEMMA SeekIsTaken == MediaInv /\ TakeSeek => MediaInv'
<1> SUFFICES ASSUME MediaInv, TakeSeek PROVE MediaInv'
  OBVIOUS
<1> USE DEF uiSide
<1>0. info \in Info /\ asked \in Position /\ player \in Player /\ seeksSent \in Seq(Position)
  BY DEF MediaInv, InfoTyped
<1>1. UNCHANGED <<info, lyricTasks, settings, tracks, settingsSent, seeking, timeline>>
  BY DEF TakeSeek
<1>2. poll' \in {"settings", "seek", "sought", "refused", "update"} /\ seeksSent' = <<>>
  BY DEF TakeSeek
<1>3. asked' \in Position /\ player' \in Player
  <2>1. CASE ~enabled \/ seeksSent = <<>>
    BY <1>0, <2>1 DEF TakeSeek
  <2>2. CASE enabled /\ seeksSent # <<>>
    <3>1. asked' = seeksSent[Len(seeksSent)] /\ Len(seeksSent) \in DOMAIN seeksSent
      BY <1>0, <2>2 DEF TakeSeek
    <3>2. asked' \in Position
      BY <1>0, <3>1
    <3>3. player' = player \/ \E p \in {asked', player.pos} : player' = [player EXCEPT !.pos = p]
      BY <2>2 DEF TakeSeek
    <3> QED BY <1>0, <3>2, <3>3 DEF Player
  <2> QED BY <2>1, <2>2
<1> QED BY <1>0, <1>1, <1>2, <1>3, SongKept DEF MediaInv, InfoTyped, SameSong

LEMMA SeeksKeep == MediaInv /\ (ConfirmSeek \/ RefuseSeek \/ SkipUpdate) => MediaInv'
<1> SUFFICES ASSUME MediaInv, ConfirmSeek \/ RefuseSeek \/ SkipUpdate PROVE MediaInv'
  OBVIOUS
<1> USE DEF uiSide
<1>0. info \in Info /\ asked \in Position
  BY DEF MediaInv, InfoTyped
<1>1. info' \in Info /\ SameSong(info')
  <2>1. CASE info' = Sought(info, asked) \/ info' = Unsought(info, asked)
    BY <1>0, <2>1, SoughtInfo
  <2>2. CASE UNCHANGED info
    BY <1>0, <2>2 DEF SameSong
  <2> QED BY <2>1, <2>2 DEF ConfirmSeek, RefuseSeek, SkipUpdate
<1>2. /\ UNCHANGED <<player, lyricTasks, uiSide, settings, tracks, timeline>>
      /\ asked' \in {asked, 0} /\ poll' \in {"settings", "refused", "update"}
  BY DEF ConfirmSeek, RefuseSeek, SkipUpdate
<1> QED BY <1>0, <1>1, <1>2, PositionZero, SongKept DEF MediaInv, InfoTyped

LEMMA ClearKeeps == MediaInv /\ ClearInfo => MediaInv'
<1> SUFFICES ASSUME MediaInv, ClearInfo PROVE MediaInv'
  OBVIOUS
<1> USE DEF uiSide
<1>1. info' = Default /\ poll' = "settings" /\ timeline' \subseteq timeline
      /\ UNCHANGED <<player, lyricTasks, uiSide, settings, asked, tracks>>
  BY DEF ClearInfo
<1>2. LyricsInv'
  BY <1>1, SongGone DEF MediaInv, LyricsInv, TracksNumbered
<1> QED BY <1>1, <1>2, DefaultInfo DEF MediaInv, InfoTyped

(* update_media_info: a new track, none, or more of the same.              *)
LEMMA PublishKeeps ==
  ASSUME MediaInv, NEW r \in Player, PublishInfo(r), UNCHANGED settings
  PROVE  info' \in Info /\ tracks' \in Nat /\ lyricTasks' \subseteq Task /\ LyricsInv'
<1>0. info \in Info /\ tracks \in Nat /\ lyricTasks \subseteq Task /\ settings \in 0..1
      /\ info.fetch \in Nat
  BY DEF MediaInv, InfoTyped, Info
<1>1. lyricTasks' = IF info'.fetch > info.fetch
                    THEN lyricTasks \cup {LyricsRequest(info', settings)} ELSE lyricTasks
  BY DEF PublishInfo
<1>2. ASSUME info' \in Info PROVE lyricTasks' \subseteq Task
  BY <1>0, <1>1, <1>2, RequestOf
<1>3. CASE IsNewTrack(r)
  <2>1. info' = [Started(r) EXCEPT !.timed = r.timed] /\ tracks' = tracks + 1
    BY <1>3 DEF PublishInfo
  <2>2. info' \in Info /\ info'.track = tracks + 1 /\ info'.title = r.title /\ info'.lyrics = {}
    BY <1>0, <2>1, StartedInfo
  <2>3. r.title # Unknown
    BY <1>3 DEF IsNewTrack
  <2>4. LyricsInv'
    BY <1>1, <2>1, <2>2, <2>3, TrackStarted
  <2> QED BY <1>0, <1>2, <2>1, <2>2, <2>4
<1>4. CASE ~IsNewTrack(r) /\ r.title = Unknown /\ info.title # Unknown /\ info.app # r.app
  <2>1. info' = Default /\ tracks' = tracks
    BY <1>4 DEF PublishInfo
  <2>2. lyricTasks' = lyricTasks
    BY <1>0, <1>1, <2>1, DefaultInfo
  <2>3. LyricsInv'
    BY <2>1, <2>2, SongGone DEF MediaInv, LyricsInv, TracksNumbered
  <2> QED BY <1>0, <2>1, <2>2, <2>3, DefaultInfo
<1>5. CASE ~IsNewTrack(r) /\ ~(r.title = Unknown /\ info.title # Unknown /\ info.app # r.app)
  <2> DEFINE e == Enriched(r)
             s == Synced(e, r)
             d == Timed(s, r)
  <2>1. e \in Info /\ (SameSong(e) \/ AskedAnew(e))
    BY <1>0, EnrichedInfo
  <2>2. r.told \in Position /\ r.timed \in BOOLEAN /\ r.playing \in BOOLEAN
    BY DEF Player
  <2>3. s \in Info /\ (SameSong(s) \/ AskedAnew(s))
    <3> HIDE DEF e
    <3>1. /\ s \in Info /\ s.title = e.title /\ s.named = e.named /\ s.track = e.track
          /\ s.fetch = e.fetch /\ s.lyrics = e.lyrics
      BY <2>1, <2>2, SyncedInfo
    <3> QED BY <2>1, <3>1 DEF SameSong, AskedAnew
  <2>4. d \in Info /\ (SameSong(d) \/ AskedAnew(d))
    <3> HIDE DEF s
    <3> QED BY <1>0, <2>2, <2>3, TimedInfo
  <2>5. info' = d /\ tracks' = tracks
    BY <1>5 DEF PublishInfo
  <2> HIDE DEF d
  <2>6. CASE SameSong(info')
    <3>1. lyricTasks' = lyricTasks
      BY <1>0, <1>1, <2>6 DEF SameSong
    <3>2. LyricsInv'
      BY <2>4, <2>5, <2>6, <3>1, SongKept
    <3> QED BY <1>0, <2>4, <2>5, <3>1, <3>2
  <2>7. CASE AskedAnew(info')
    <3>1. lyricTasks' = lyricTasks \cup {LyricsRequest(info', settings')}
      BY <1>1, <2>7 DEF AskedAnew
    <3>2. LyricsInv'
      BY <1>0, <2>4, <2>5, <2>7, <3>1, LyricsAsked
    <3> QED BY <1>0, <1>2, <2>4, <2>5, <3>2
  <2> QED BY <2>4, <2>5, <2>6, <2>7
<1> QED BY <1>3, <1>4, <1>5

LEMMA UpdateKeeps ==
  ASSUME MediaInv, NEW fresh \in BOOLEAN, UpdateInfo(fresh)
  PROVE  MediaInv'
<1> USE DEF uiSide
<1>1. timeline' \subseteq Timeline
  <2>1. player \in Player /\ timeline \subseteq Timeline
    BY DEF MediaInv, InfoTyped
  <2>2. [app |-> player.app, timed |-> player.timed, told |-> player.told] \in Timeline
    BY <2>1 DEF Player, Timeline
  <2> QED BY <2>1, <2>2 DEF UpdateInfo
<1>2. PICK t \in timeline' :
        PublishInfo([player EXCEPT !.timed = t.timed, !.told = t.told,
                                   !.anew = fresh /\ player.anew])
  BY DEF UpdateInfo
<1> DEFINE r == [player EXCEPT !.timed = t.timed, !.told = t.told,
                               !.anew = fresh /\ player.anew]
<1>3. r \in Player
  BY <1>1, <1>2 DEF MediaInv, InfoTyped, Player, Timeline
<1>4. PublishInfo(r)
  BY <1>2
<1> HIDE DEF r
<1>5. poll' = "settings" /\ UNCHANGED <<uiSide, settings, asked>> /\ player' \in Player
  BY DEF UpdateInfo, MediaInv, InfoTyped, Player
<1>6. info' \in Info /\ tracks' \in Nat /\ lyricTasks' \subseteq Task /\ LyricsInv'
  BY <1>3, <1>4, <1>5, PublishKeeps
<1> QED BY <1>1, <1>5, <1>6 DEF MediaInv, InfoTyped

LEMMA MediaInvStep == MediaInv /\ [MediaInfoNext]_mediaInfoVars => MediaInv'
<1> SUFFICES ASSUME MediaInv, [MediaInfoNext]_mediaInfoVars PROVE MediaInv'
  OBVIOUS
<1>1. CASE Inputs \/ Playback \/ ShowSeek \/ GuardRunsOut \/ Lyrics
  BY <1>1, InputsKeep, PlaybackKeeps, ShowSeekKeeps, GuardKeeps, LyricsKeep
<1>2. CASE Poll
  BY <1>2, SettingsKeep, SeekIsTaken, SeeksKeep, ClearKeeps, UpdateKeeps DEF Poll
<1>3. CASE UNCHANGED mediaInfoVars
  <2>1. InfoTyped'
    BY <1>3 DEF mediaInfoVars, uiSide, workerSide, MediaInv, InfoTyped
  <2>2. LyricsInv'
    BY <1>3, SongKept DEF mediaInfoVars, workerSide, MediaInv, InfoTyped, SameSong
  <2> QED BY <2>1, <2>2 DEF MediaInv
<1> QED BY <1>1, <1>2, <1>3 DEF MediaInfoNext

(* MediaInfo, the locals of the loop and the track numbers have their types.*)
THEOREM MediaInfoTyped == MediaInfoSpec => []MediaInfoTypeOK
<1>1. MediaInv => MediaInfoTypeOK
  BY DEF MediaInv, InfoTyped, LyricsInv, TracksNumbered, Info, Name, Song, MediaInfoTypeOK
<1> QED BY <1>1, MediaInvInit, MediaInvStep, PTL DEF MediaInfoSpec

(* The lyrics shown are those of the song shown, for what is known of it   *)
(* and for the settings in force, however late the task that fetched them  *)
(* ends.                                                                   *)
THEOREM LyricsBelong == MediaInfoSpec => []LyricsAreCurrent
<1>1. MediaInv => LyricsAreCurrent
  BY DEF MediaInv, LyricsInv
<1> QED BY <1>1, MediaInvInit, MediaInvStep, PTL DEF MediaInfoSpec
-----------------------------------------------------------------------------
(* The selection of media by plugins.                                      *)

(* Every request that was made, and every answer that was given to one.    *)
Given == served \cup results \cup told
Made  == requests \cup Requested(Given) \cup lost

Typed == TypeOK /\ IsFiniteSet(requests) /\ (worker # "served" => served = {})

(* The requests have the numbers up to `sequence', one each, and none is in*)
(* two places.                                                             *)
Numbered ==
  /\ \A r \in Made : r.sequence \in 1..sequence
  /\ \A n \in 1..sequence : \E r \in Made : r.sequence = n
  /\ \A r, o \in Made : r.sequence = o.sequence => r = o
Apart ==
  /\ requests \cap lost = {}
  /\ \A a \in Given : a.request \notin requests \cup lost
  /\ \A a, b \in Given : a.request = b.request => a = b
  /\ served \cap results = {} /\ served \cap told = {} /\ results \cap told = {}

BridgeInv == Typed /\ Numbered /\ Apart

-----------------------------------------------------------------------------
(* What a step may do to the requests: nothing; make one more, which is put*)
(* into the bridge's queue or answered; or move them from place to place.  *)
places == <<requests, served, results, told, lost, sequence>>

Queued(r)      == requests' = requests \cup {r} /\ UNCHANGED told
AnsweredNow(r) == UNCHANGED requests /\ \E s \in Status : Tell(r, s)
Arrived(r) ==
  /\ r \in Request /\ r.sequence = sequence + 1 /\ sequence' = sequence + 1
  /\ UNCHANGED <<served, results, lost>>
  /\ Queued(r) \/ AnsweredNow(r)

Moving == BeginFrame \/ ReadResults \/ ServeRequests \/ PublishResults

LEMMA RequestsArrive ==
  ASSUME Typed, Requests PROVE \E r \in Request : Arrived(r)
<1> SUFFICES ASSUME NEW t \in Plugin, NEW s \in BOOLEAN, NEW x \in Source \cup Session \cup {Automatic},
                    SelectSource(t, x) \/ RefuseSource(t, s, x) \/ AskWorker(t, s, x)
             PROVE  \E r \in Request : Arrived(r)
  BY DEF Requests
<1>1. sequence \in 0..MaxRequests /\ MaxRequests \in Nat
  BY MediaAssumption DEF MediaAssumption, Typed, TypeOK
<1>2. sequence < MaxRequests => \A b \in BOOLEAN :
        /\ NewRequest(t, b, x) \in Request /\ NewRequest(t, b, x).sequence = sequence + 1
  BY <1>1 DEF NewRequest, Request, Target
<1>3. CASE SelectSource(t, x)
  BY <1>2, <1>3 DEF SelectSource, Arrives, Arrived, AnsweredNow, Status, bridge, refresh
<1>4. CASE RefuseSource(t, s, x)
  BY <1>2, <1>4 DEF RefuseSource, Arrives, Arrived, AnsweredNow, Status, bridge, refresh
<1>5. CASE AskWorker(t, s, x)
  BY <1>2, <1>5 DEF AskWorker, Arrives, Arrived, AnsweredNow, Queued, Status, bridge, refresh
<1> QED BY <1>3, <1>4, <1>5

LEMMA StepsAre ==
  ASSUME Typed, Next PROVE Moving \/ UNCHANGED places \/ \E r \in Request : Arrived(r)
<1>1. CASE Frame \/ Worker \/ Environment
  BY <1>1 DEF Frame, Worker, Environment, Moving, places, EndFrame, Look, LoadPlugin, UnloadPlugin,
     AddSource, ReleaseSource, AddSession, EndSession, OpenContext, island, bridge, refresh, history
<1> QED BY <1>1, RequestsArrive DEF Next

LEMMA ArrivalIsNumbered ==
  ASSUME BridgeInv, NEW r \in Request, Arrived(r)
  PROVE  (Numbered /\ Apart)' /\ Made' = Made \cup {r} /\ r \notin Made
<1>1. sequence \in Nat
  BY MediaAssumption DEF BridgeInv, Typed, TypeOK, MediaAssumption
<1>2. r \notin Made
  BY <1>1 DEF BridgeInv, Numbered, Arrived
<1>3. Made' = Made \cup {r}
  <2>1. CASE Queued(r)
    BY <2>1 DEF Arrived, Queued, Made, Given
  <2>2. ASSUME NEW s \in Status, UNCHANGED requests, Tell(r, s) PROVE Made' = Made \cup {r}
    <3>1. Given' = Given \cup {[request |-> r, status |-> s]}
      BY <2>2 DEF Tell, Arrived, Given
    <3>2. Requested(Given') = Requested(Given) \cup {r}
      <4> DEFINE new == [request |-> r, status |-> s]
      <4>1. new.request = r /\ Given' = Given \cup {new}
        BY <3>1
      <4> HIDE DEF new
      <4> QED BY <4>1 DEF Requested
    <3> QED BY <2>2, <3>2 DEF Arrived, Made
  <2> QED BY <2>1, <2>2 DEF Arrived, AnsweredNow
<1>4. Numbered'
  <2>1. sequence' = sequence + 1 /\ r.sequence = sequence + 1
    BY DEF Arrived
  <2> QED BY <1>1, <1>3, <2>1 DEF BridgeInv, Numbered
<1>5. CASE Queued(r)
  <2>1. Given' = Given /\ UNCHANGED <<served, results, told, lost>>
    BY <1>5 DEF Queued, Arrived, Given
  <2>2. \A a \in Given : a.request # r
    BY <1>2 DEF Made, Requested
  <2> QED BY <1>2, <1>3, <1>4, <1>5, <2>1, <2>2 DEF Queued, BridgeInv, Apart, Made
<1>6. ASSUME NEW s \in Status, UNCHANGED requests, Tell(r, s) PROVE Apart'
  <2> DEFINE new == [request |-> r, status |-> s]
  <2>1. Given' = Given \cup {new} /\ UNCHANGED <<served, results, lost>> /\ told' = told \cup {new}
    BY <1>6 DEF Tell, Arrived, Given
  <2>2. \A a \in Given : a.request # r
    BY <1>2 DEF Made, Requested
  <2>3. new.request = r /\ new \notin Given
    BY <2>2
  <2> HIDE DEF new
  <2> QED BY <1>2, <1>6, <2>1, <2>2, <2>3 DEF BridgeInv, Apart, Made, Given
<1> QED BY <1>2, <1>3, <1>4, <1>5, <1>6 DEF Arrived, AnsweredNow

LEMMA MovingKeepsApart ==
  ASSUME BridgeInv, Moving PROVE (Numbered /\ Apart)' /\ Made' = Made
<1> SUFFICES Made' = Made /\ sequence' = sequence /\ Apart'
  BY DEF BridgeInv, Numbered
<1>1. CASE BeginFrame
  <2>1. /\ requests' \subseteq requests /\ results' \subseteq results
        /\ lost' = lost \cup (requests \ requests') \cup Requested(results \ results')
        /\ \A a \in results' : a.request.token \in Retained
        /\ \A a \in results \ results' : a.request.token \notin Retained
        /\ UNCHANGED <<served, told, sequence>>
    BY <1>1 DEF BeginFrame, OfTokens, Requested, history, refresh
  <2>2. Made' = Made
    BY <2>1 DEF Made, Given, Requested
  <2>3. Given' \subseteq Given
    BY <2>1 DEF Given
  <2>4. \A a \in Given' : a.request \notin lost'
    BY <2>1, <2>3 DEF BridgeInv, Apart, Requested, Given
  <2>5. requests' \cap lost' = {}
    BY <2>1 DEF BridgeInv, Apart, Requested, Given
  <2>6. \A a \in Given' : a.request \notin requests' \cup lost'
    BY <2>1, <2>3, <2>4 DEF BridgeInv, Apart
  <2> QED BY <2>1, <2>2, <2>3, <2>5, <2>6 DEF BridgeInv, Apart
<1>2. CASE ReadResults
  <2>1. /\ told' = told \cup results /\ results' = {}
        /\ UNCHANGED <<requests, served, lost, sequence>>
    BY <1>2 DEF ReadResults, TakeResults, refresh
  <2>2. Given' = Given
    BY <2>1 DEF Given
  <2>3. Made' = Made
    BY <2>1, <2>2 DEF Made
  <2> QED BY <2>1, <2>2, <2>3 DEF BridgeInv, Apart
<1>3. CASE ServeRequests
  <2> DEFINE Q == OfTokens(requests, seen)
  <2>1. PICK status \in [Q -> Status] : served' = {[request |-> r, status |-> status[r]] : r \in Q}
    BY <1>3 DEF ServeRequests
  <2>2. /\ requests' = {} /\ lost' = lost \cup (requests \ Q) /\ Q \subseteq requests
        /\ served = {} /\ UNCHANGED <<results, told, sequence>>
    BY <1>3 DEF ServeRequests, BridgeInv, Typed, OfTokens, island
  <2> HIDE DEF Q
  <2>3. Requested(served') = Q /\ \A a, b \in served' : a.request = b.request => a = b
    <3>1. \A a \in served' : a.request \in Q /\ a = [request |-> a.request, status |-> status[a.request]]
      BY <2>1
    <3>2. ASSUME NEW r \in Q PROVE \E a \in served' : a.request = r
      <4> DEFINE answer == [request |-> r, status |-> status[r]]
      <4>1. answer \in served' /\ answer.request = r
        BY <2>1
      <4> QED BY <4>1
    <3> QED BY <3>1, <3>2, Zenon DEF Requested
  <2>4. \A a \in served' : a.request \in Q
    BY <2>3 DEF Requested
  <2>5. Made' = Made
    BY <2>2, <2>3 DEF Made, Given, Requested
  <2> QED BY <2>2, <2>3, <2>4, <2>5 DEF BridgeInv, Apart, Given
<1>4. CASE PublishResults
  <2>1. /\ results' = results \cup served /\ served' = {}
        /\ UNCHANGED <<requests, told, lost, sequence>>
    BY <1>4 DEF PublishResults, island, history
  <2>2. Given' = Given
    BY <2>1 DEF Given
  <2>3. Made' = Made
    BY <2>1, <2>2 DEF Made
  <2> QED BY <2>1, <2>2, <2>3 DEF BridgeInv, Apart
<1> QED BY <1>1, <1>2, <1>3, <1>4 DEF Moving

LEMMA InOnePlace ==
  ASSUME BridgeInv, NEW r \in Made
  PROVE  /\ \A S \in SUBSET Made : Asked(S, r.sequence) = IF r \in S THEN 1 ELSE 0
         /\ \A S \in SUBSET Given :
              Answered(S, r.sequence) = IF \E a \in S : a.request = r THEN 1 ELSE 0
<1>1. ASSUME NEW S \in SUBSET Made PROVE Asked(S, r.sequence) = IF r \in S THEN 1 ELSE 0
  <2>1. {o \in S : o.sequence = r.sequence} = IF r \in S THEN {r} ELSE {}
    BY DEF BridgeInv, Numbered
  <2> QED BY <2>1, FS_Singleton, FS_EmptySet DEF Asked
<1>2. ASSUME NEW S \in SUBSET Given
      PROVE  Answered(S, r.sequence) = IF \E a \in S : a.request = r THEN 1 ELSE 0
  <2>1. \A a \in S : a.request \in Made
    BY DEF Made, Requested
  <2>2. \A a \in S : a.request.sequence = r.sequence <=> a.request = r
    BY <2>1 DEF BridgeInv, Numbered
  <2>3. CASE \E a \in S : a.request = r
    <3>1. PICK a \in S : a.request = r
      BY <2>3
    <3>2. {b \in S : b.request.sequence = r.sequence} = {a}
      BY <2>2, <3>1 DEF BridgeInv, Apart
    <3> QED BY <2>3, <3>2, FS_Singleton DEF Answered
  <2>4. CASE ~\E a \in S : a.request = r
    <3>1. {b \in S : b.request.sequence = r.sequence} = {}
      BY <2>2, <2>4
    <3> QED BY <2>4, <3>1, FS_EmptySet DEF Answered
  <2> QED BY <2>3, <2>4
<1> QED BY <1>1, <1>2

(* One of the five cardinalities that are added up is 1.                   *)
LEMMA BridgeInvAnswers == BridgeInv => OneAnswerEach
<1> SUFFICES ASSUME BridgeInv, NEW n \in 1..sequence PROVE Places(n) = 1
  BY DEF OneAnswerEach
<1>1. PICK r \in Made : r.sequence = n
  BY DEF BridgeInv, Numbered
<1>2. requests \subseteq Made /\ lost \subseteq Made
  BY DEF Made
<1>3. served \subseteq Given /\ results \subseteq Given /\ told \subseteq Given
  BY DEF Given
<1>4. \A S \in {requests, lost} : Asked(S, n) = IF r \in S THEN 1 ELSE 0
  BY <1>1, <1>2, InOnePlace
<1>5. \A S \in {served, results, told} :
        Answered(S, n) = IF \E a \in S : a.request = r THEN 1 ELSE 0
  BY <1>1, <1>3, InOnePlace
<1>6. CASE r \in requests
  <2>1. r \notin lost /\ \A a \in Given : a.request # r
    BY <1>6 DEF BridgeInv, Apart
  <2> QED BY <1>4, <1>5, <1>6, <2>1 DEF Places, Given
<1>7. CASE r \in lost
  <2>1. r \notin requests /\ \A a \in Given : a.request # r
    BY <1>7 DEF BridgeInv, Apart
  <2> QED BY <1>4, <1>5, <1>7, <2>1 DEF Places, Given
<1>8. CASE \E a \in Given : a.request = r
  <2>1. PICK a \in Given : a.request = r
    BY <1>8
  <2>2. r \notin requests \cup lost /\ \A b \in Given : b.request = r => b = a
    BY <2>1 DEF BridgeInv, Apart
  <2>3. \A S \in SUBSET Given : (\E b \in S : b.request = r) <=> a \in S
    BY <2>1, <2>2
  <2>4. Places(n) = (IF a \in served THEN 1 ELSE 0) + (IF a \in results THEN 1 ELSE 0)
                      + (IF a \in told THEN 1 ELSE 0)
    BY <1>3, <1>4, <1>5, <2>2, <2>3 DEF Places
  <2> QED BY <2>1, <2>4 DEF BridgeInv, Apart, Given
<1> QED BY <1>6, <1>7, <1>8 DEF Made, Requested

-----------------------------------------------------------------------------
LEMMA RequestTyped == ASSUME Typed, Requests PROVE Typed'
<1>1. PICK r \in Request : Arrived(r)
  BY RequestsArrive
<1>2. PICK t \in Plugin, s \in BOOLEAN, x \in Source \cup Session \cup {Automatic} :
        (SelectSource(t, x) /\ x \in Source) \/ RefuseSource(t, s, x) \/ AskWorker(t, s, x)
  BY DEF Requests
<1>3. sequence \in 0..MaxRequests /\ MaxRequests \in Nat /\ sequence < MaxRequests
  BY <1>2, MediaAssumption
     DEF MediaAssumption, Typed, TypeOK, SelectSource, RefuseSource, AskWorker, Arrives
<1>4. sequence' = sequence + 1 /\ UNCHANGED <<served, results, lost>>
  BY <1>1 DEF Arrived
<1>5. sequence' \in 0..MaxRequests
  BY <1>3, <1>4
<1>6. told' \subseteq Answer /\ requests' \subseteq Request
  BY <1>1 DEF Arrived, Queued, AnsweredNow, Tell, Answer, Typed, TypeOK
<1>7. selection' \in {selection, None, sequence + 1} /\ selection \in 1..sequence \cup {None}
  BY <1>2 DEF SelectSource, RefuseSource, AskWorker, Awaited, Typed, TypeOK
<1>8. selection' \in 1..sequence' \cup {None}
  BY <1>3, <1>4, <1>7
<1>9. IsFiniteSet(requests') /\ Cardinality(requests') <= MaxQueue
  <2>1. CASE requests' = requests \cup {r} /\ Cardinality(requests) < MaxQueue
    <3>1. IsFiniteSet(requests) /\ Cardinality(requests) \in Nat /\ MaxQueue \in Nat
      BY FS_CardinalityType, MediaAssumption DEF MediaAssumption, Typed
    <3>2. /\ IsFiniteSet(requests')
          /\ Cardinality(requests') \in {Cardinality(requests), Cardinality(requests) + 1}
      BY <2>1, <3>1, FS_AddElement
    <3> QED BY <2>1, <3>1, <3>2
  <2>2. Cardinality(requests) < MaxQueue \/ UNCHANGED requests
    BY <1>2 DEF SelectSource, RefuseSource, AskWorker, QueueHasRoom, bridge
  <2>3. requests' = requests \cup {r} \/ UNCHANGED requests
    BY <1>1 DEF Arrived, Queued, AnsweredNow
  <2> QED BY <2>1, <2>2, <2>3 DEF Typed, TypeOK
<1>10. selected' \in Source \cup {None, Automatic} /\ owner' \in Plugin \cup {None}
  BY <1>2 DEF SelectSource, RefuseSource, AskWorker, Typed, TypeOK
<1>11. UNCHANGED <<plugins, media, ui, ready, known, refresh>>
  BY <1>2 DEF SelectSource, RefuseSource, AskWorker, bridge
<1> QED BY <1>4, <1>5, <1>6, <1>8, <1>9, <1>10, <1>11 DEF Typed, TypeOK, plugins, media, refresh

LEMMA TypedStep == ASSUME Typed, [Next]_vars PROVE Typed'
<1> USE MediaAssumption DEF MediaAssumption, Typed, TypeOK
<1>1. CASE UNCHANGED vars
  BY <1>1 DEF vars, plugins, media, island, bridge, refresh, history
<1>2. CASE BeginFrame
  <2>1. requests' \subseteq requests
    BY <1>2 DEF BeginFrame, OfTokens
  <2>2. IsFiniteSet(requests') /\ Cardinality(requests') <= MaxQueue
    BY <2>1, FS_Subset, FS_CardinalityType
  <2>3. results' \subseteq results /\ lost' \subseteq Request
    BY <1>2 DEF BeginFrame, Requested, Answer
  <2> QED BY <1>2, <2>1, <2>2, <2>3 DEF BeginFrame, plugins, media, refresh
<1>3. CASE ReadResults
  <2>1. \A a \in results : a.request.token \in Plugin
    BY DEF Answer, Request
  <2>2. /\ selected' \in {selected, None, Automatic} /\ selection' \in {selection, None}
        /\ owner' \in Plugin \cup {None}
    BY <1>3, <2>1 DEF ReadResults
  <2>3. /\ results' = {} /\ told' = told \cup results /\ ui' = "requests"
        /\ UNCHANGED <<plugins, media, sequence, ready, known, requests, refresh, lost>>
    BY <1>3 DEF ReadResults, TakeResults
  <2> QED BY <2>2, <2>3 DEF plugins, media, refresh
<1>4. CASE EndFrame
  BY <1>4 DEF EndFrame, plugins, media, island, bridge, refresh, history
<1>5. CASE Requests
  BY <1>5, RequestTyped
<1>6. CASE Look
  BY <1>6 DEF Look, plugins, island, bridge, history
<1>7. CASE ServeRequests
  <2> DEFINE Q == OfTokens(requests, seen)
  <2>1. PICK status \in [Q -> Status] : served' = {[request |-> r, status |-> status[r]] : r \in Q}
    BY <1>7 DEF ServeRequests
  <2>2. Q \subseteq requests
    BY DEF OfTokens
  <2>3. served' \subseteq Answer
    BY <2>1, <2>2 DEF Answer
  <2>4. \A r \in Selecting(Q) : r.token \in Plugin /\ (r.target = Automatic \/ r.target \in Session)
    BY <2>2 DEF Selecting, Outcomes, Request
  <2>5. Choose(Q)
    BY <1>7 DEF ServeRequests
  <2> HIDE DEF Q
  <2>6. chosen' \in Session \cup {None} /\ chosen_by' \in Plugin \cup {None}
    BY <2>4, <2>5 DEF Choose
  <2>7. requests' = {} /\ IsFiniteSet(requests') /\ Cardinality(requests') = 0
    BY <1>7, FS_EmptySet DEF ServeRequests
  <2> QED BY <1>7, <2>3, <2>6, <2>7 DEF ServeRequests, plugins, media, island
<1>8. CASE PublishResults
  BY <1>8 DEF PublishResults, plugins, media, island, history
<1>9. CASE Environment
  BY <1>9 DEF Environment, LoadPlugin, UnloadPlugin, AddSource, ReleaseSource, ClearSelected,
     AddSession, EndSession, OpenContext, plugins, media, island, bridge, refresh, history
<1> HIDE MediaAssumption DEF MediaAssumption, Typed, TypeOK
<1> QED BY <1>1, <1>2, <1>3, <1>4, <1>5, <1>6, <1>7, <1>8, <1>9 DEF Next, Frame, Worker

LEMMA BridgeInvInit == Init => BridgeInv
<1> SUFFICES ASSUME Init PROVE BridgeInv
  OBVIOUS
<1>1. IsFiniteSet({}) /\ Cardinality({}) = 0 /\ 0 <= MaxQueue /\ 0 \in 0..MaxRequests
  BY FS_EmptySet, MediaAssumption DEF MediaAssumption
<1>2. Typed
  BY <1>1 DEF Init, Typed, TypeOK
<1>3. Made = {} /\ Given = {} /\ sequence = 0
  BY DEF Made, Given, Requested, Init
<1> QED BY <1>2, <1>3 DEF BridgeInv, Numbered, Apart, Init

LEMMA BridgeInvStep == BridgeInv /\ [Next]_vars => BridgeInv'
<1> SUFFICES ASSUME BridgeInv, [Next]_vars PROVE BridgeInv'
  OBVIOUS
<1>1. Typed'
  BY TypedStep DEF BridgeInv
<1>2. CASE UNCHANGED places
  <2>1. UNCHANGED <<Made, Given>>
    BY <1>2 DEF places, Made, Given, Requested
  <2> QED BY <1>1, <1>2, <2>1 DEF BridgeInv, Numbered, Apart, places
<1>3. ASSUME NEW r \in Request, Arrived(r) PROVE BridgeInv'
  BY <1>1, <1>3, ArrivalIsNumbered DEF BridgeInv
<1>4. CASE Moving
  BY <1>1, <1>4, MovingKeepsApart DEF BridgeInv
<1>5. CASE UNCHANGED vars
  <2>1. UNCHANGED places
    BY <1>5 DEF vars, island, bridge, refresh, history, places
  <2> QED BY <1>2, <2>1
<1> QED BY <1>2, <1>3, <1>4, <1>5, StepsAre DEF BridgeInv

-----------------------------------------------------------------------------
(* Where requests come from and go: none for a source is left to the       *)
(* worker, and those it has served came before those it will serve.        *)
Routed ==
  /\ \A r \in Made : r.token \in active \cup gone /\ r.target \in spent \cup {Automatic}
  /\ \A r \in requests \cup Requested(served \cup results) : r.target \notin Source
  /\ \A a \in Given, r \in requests :
       a.status = "Ok" /\ a.request.target \notin Source => a.request.sequence < r.sequence

(* While no plugin is unloaded, the bridge knows all who have asked.       *)
Known ==
  /\ owner \in active \cup gone \cup {None}
  /\ ui # "idle" => known = active
  /\ gone = {} => known \subseteq active /\ \A r \in Made : r.token \in known

Last(r) == r.select /\ \A o \in Made : o.select => o.sequence <= r.sequence

(* Only the last selection is waited for ...                               *)
Awaiting == selection # None => \E r \in Made : Last(r) /\ r.sequence = selection

(* ... until it is answered; with Ok, it is in force.                      *)
WorkerHolds(r) ==
  /\ r.target = Automatic => chosen = None /\ chosen_by = None
  /\ r.target \in Session => chosen_by = r.token /\ chosen \in {r.target, None}

Obeyed ==
  gone = {} => \A r \in Made : Last(r) =>
    /\ r \in requests \cup Requested(served \cup results) => selection = r.sequence
    /\ \A a \in told : a.request = r /\ a.status = "Ok" => InForce(r)
    /\ \A a \in Given : a.request = r /\ a.status = "Ok" => WorkerHolds(r)

SelectionInv == BridgeInv /\ SelectionIsBacked /\ Routed /\ Known /\ Awaiting /\ Obeyed

LEMMA SelectionInvInit == Init => SelectionInv
<1> SUFFICES ASSUME Init PROVE SelectionInv
  OBVIOUS
<1>1. BridgeInv
  BY BridgeInvInit
<1>2. Made = {} /\ Given = {} /\ requests = {}
  BY DEF Made, Given, Requested, Init
<1>3. None \notin Source
  BY MediaAssumption DEF MediaAssumption
<1> QED BY <1>1, <1>2, <1>3
        DEF Init, SelectionInv, SelectionIsBacked, Routed, Known, Awaiting, Obeyed, Requested

(* Steps that move no request.                                             *)
LEMMA Unmoved ==
  ASSUME UNCHANGED places
  PROVE  /\ UNCHANGED <<requests, served, results, told, lost, sequence, Made, Given>>
         /\ \A r : Last(r)' <=> Last(r)
<1>1. UNCHANGED <<requests, served, results, told, lost, sequence, Made, Given>>
  BY DEF places, Made, Given, Requested
<1> QED BY <1>1 DEF Last

LEMMA PluginStep ==
  ASSUME SelectionInv, NEW t \in Plugin, LoadPlugin(t) \/ UnloadPlugin(t)
  PROVE  SelectionIsBacked' /\ Routed' /\ Known' /\ Awaiting' /\ Obeyed'
<1>1. UNCHANGED <<media, ui, island, bridge, refresh, history>>
  BY DEF LoadPlugin, UnloadPlugin
<1>2. UNCHANGED places
  BY <1>1 DEF places, island, bridge, refresh, history
<1>3. /\ (active \cup gone) \subseteq (active \cup gone)' /\ ui = "idle" /\ gone \subseteq gone'
      /\ gone' = {} => active \subseteq active'
  BY DEF LoadPlugin, UnloadPlugin
<1>4. SelectionIsBacked' /\ Awaiting'
  BY <1>1, <1>2, Unmoved DEF SelectionInv, SelectionIsBacked, Awaiting, island, media
<1>5. Routed' /\ Known'
  BY <1>1, <1>2, <1>3, Unmoved
     DEF SelectionInv, Routed, Known, island, media, bridge, Requested
<1>6. Obeyed'
  BY <1>1, <1>2, <1>3, Unmoved
     DEF SelectionInv, Obeyed, InForce, WorkerHolds, island, media, refresh, Requested
<1> QED BY <1>4, <1>5, <1>6

LEMMA SourceStep ==
  ASSUME SelectionInv, NEW x \in Source, AddSource(x) \/ ReleaseSource(x)
  PROVE  SelectionIsBacked' /\ Routed' /\ Known' /\ Awaiting' /\ Obeyed'
<1>1. UNCHANGED <<plugins, sessions, ui, owner, selection, sequence, bridge, refresh, history>>
  BY DEF AddSource, ReleaseSource, island
<1>2. UNCHANGED places
  BY <1>1 DEF places, island, bridge, refresh, history
<1>3. /\ spent \subseteq spent' /\ sources \subseteq spent
      /\ x \notin Session \cup {Automatic, None} /\ None \notin Source \cup {Automatic}
  BY MediaAssumption
     DEF MediaAssumption, AddSource, ReleaseSource, SelectionInv, BridgeInv, Typed, TypeOK
<1>4. SelectionIsBacked'
  BY <1>1, <1>3
     DEF SelectionInv, SelectionIsBacked, AddSource, ReleaseSource, ClearSelected, island
<1>5. Routed' /\ Known' /\ Awaiting'
  BY <1>1, <1>2, <1>3, Unmoved
     DEF SelectionInv, Routed, Known, Awaiting, plugins, bridge, Requested
<1>6. ASSUME NEW r \in Made, InForce(r) PROVE InForce(r)'
  <2>1. r.target \in spent \cup {Automatic}
    BY DEF SelectionInv, Routed
  <2> QED BY <1>1, <1>3, <1>6, <2>1
          DEF InForce, AddSource, ReleaseSource, ClearSelected, island
<1>7. Obeyed'
  BY <1>1, <1>2, <1>6, Unmoved
     DEF SelectionInv, Obeyed, WorkerHolds, plugins, refresh, Requested
<1> QED BY <1>4, <1>5, <1>7

LEMMA SessionStep ==
  ASSUME SelectionInv,
         (\E x \in Session : AddSession(x) \/ EndSession(x)) \/ OpenContext \/ EndFrame
  PROVE  SelectionIsBacked' /\ Routed' /\ Known' /\ Awaiting' /\ Obeyed'
<1>1. /\ UNCHANGED <<plugins, sources, island, known, requests, results, refresh, history>>
      /\ spent \subseteq spent' /\ ui' \in {ui, "idle"}
  BY DEF AddSession, EndSession, OpenContext, EndFrame, media, bridge
<1>2. UNCHANGED places
  BY <1>1 DEF places, island, bridge, refresh, history
<1>3. SelectionIsBacked' /\ Routed' /\ Known' /\ Awaiting'
  BY <1>1, <1>2, Unmoved
     DEF SelectionInv, SelectionIsBacked, Routed, Known, Awaiting, plugins, island, Requested
<1>4. Obeyed'
  BY <1>1, <1>2, Unmoved
     DEF SelectionInv, Obeyed, InForce, WorkerHolds, plugins, island, refresh, Requested
<1> QED BY <1>3, <1>4

LEMMA LookStep ==
  ASSUME SelectionInv, Look
  PROVE  SelectionIsBacked' /\ Routed' /\ Known' /\ Awaiting' /\ Obeyed'
<1>1. UNCHANGED <<plugins, sources, spent, ui, island, bridge, history, served>>
  BY DEF Look
<1>2. UNCHANGED places
  BY <1>1 DEF places, island, bridge, refresh, history
<1>3. SelectionIsBacked' /\ Routed' /\ Known' /\ Awaiting'
  BY <1>1, <1>2, Unmoved
     DEF SelectionInv, SelectionIsBacked, Routed, Known, Awaiting, plugins, island, bridge, Requested
<1>4. ASSUME NEW r \in Made, WorkerHolds(r), gone = {} PROVE WorkerHolds(r)'
  <2>1. r.token \in known
    BY <1>4 DEF SelectionInv, Known
  <2> QED BY <1>4, <2>1 DEF Look, ChooserLeft, WorkerHolds
<1>5. Obeyed'
  BY <1>1, <1>2, <1>4, Unmoved DEF SelectionInv, Obeyed, InForce, plugins, island, Requested
<1> QED BY <1>3, <1>5

(* A request is the last selection, or leaves it what it was.              *)
LEMMA LastAfterArrival ==
  ASSUME BridgeInv, NEW r \in Request, Arrived(r)
  PROVE  /\ \A o \in Made : r.sequence # o.sequence /\ o.sequence < r.sequence
         /\ r.select => \A o \in Made' : Last(o)' <=> o = r
         /\ ~r.select => \A o \in Made' : Last(o)' <=> o # r /\ Last(o)
<1>1. Made' = Made \cup {r}
  BY ArrivalIsNumbered
<1>2. sequence \in Nat /\ r.sequence = sequence + 1 /\ \A o \in Made : o.sequence \in 1..sequence
  BY MediaAssumption DEF MediaAssumption, BridgeInv, Typed, TypeOK, Numbered, Arrived
<1>3. \A o \in Made : o.sequence < r.sequence /\ ~(r.sequence <= o.sequence) /\ o # r
  BY <1>2
<1> QED BY <1>1, <1>2, <1>3 DEF Last

LEMMA AskStep ==
  ASSUME SelectionInv, NEW t \in Plugin, NEW s \in BOOLEAN,
         NEW x \in Source \cup Session \cup {Automatic},
         (SelectSource(t, x) /\ s /\ x \in Source) \/ (RefuseSource(t, s, x) /\ x \in Source)
           \/ (AskWorker(t, s, x) /\ x \notin Source)
  PROVE  SelectionIsBacked' /\ Routed' /\ Known' /\ Awaiting' /\ Obeyed'
<1>0. PICK r : r = NewRequest(t, s, x)
  OBVIOUS
<1>1. /\ r.token = t /\ r.select = s /\ r.target = x /\ r.sequence = sequence + 1
  BY <1>0 DEF NewRequest
<1>2. r \in Request /\ Arrived(r)
  <2>1. sequence \in 0..MaxRequests /\ MaxRequests \in Nat /\ sequence < MaxRequests
    BY MediaAssumption DEF MediaAssumption, SelectionInv, BridgeInv, Typed, TypeOK,
       SelectSource, RefuseSource, AskWorker, Arrives
  <2>2. r \in Request
    BY <1>0, <2>1 DEF NewRequest, Request, Target
  <2>3. s \in BOOLEAN /\ (SelectSource(t, x) /\ s => r = NewRequest(t, TRUE, x))
    BY <1>0
  <2> QED BY <1>0, <1>1, <2>2, <2>3
          DEF SelectSource, RefuseSource, AskWorker, Arrives, Arrived, AnsweredNow, Queued, Status,
              bridge, refresh
<1>3. /\ Made' = Made \cup {r} /\ r \notin Made
      /\ \A o \in Made : r.sequence # o.sequence /\ o.sequence < r.sequence
      /\ s => \A o \in Made' : Last(o)' <=> o = r
      /\ ~s => \A o \in Made' : Last(o)' <=> o # r /\ Last(o)
  BY <1>1, <1>2, ArrivalIsNumbered, LastAfterArrival DEF SelectionInv
<1>4. /\ t \in active /\ ui = "requests" /\ x \in spent \cup {Automatic} /\ t # None
      /\ UNCHANGED <<plugins, media, ui, known, refresh>>
  BY MediaAssumption DEF MediaAssumption, SelectSource, RefuseSource, AskWorker, Arrives, bridge,
     SelectionInv, BridgeInv, Typed, TypeOK
<1>5. /\ \A a \in Given : a \in Given' /\ a.request # r
      /\ \A a \in Given' : a \in Given \/ (a \in told' /\ a.request = r)
      /\ \A a \in told' : a \in told \/ a.request = r
      /\ \A o \in requests' : o \in requests \/ o = r
      /\ UNCHANGED <<served, results>>
  <2>1. \A a \in Given : a.request # r
    BY <1>3 DEF Made, Requested
  <2>2. UNCHANGED <<served, results>>
    BY <1>2 DEF Arrived
  <2>3. /\ told' = told \/ \E b : b.request = r /\ told' = told \cup {b}
        /\ requests' \subseteq requests \cup {r}
    BY <1>2 DEF Arrived, Queued, AnsweredNow, Tell
  <2> QED BY <2>1, <2>2, <2>3 DEF Given
<1>6. CASE SelectSource(t, x) /\ s /\ x \in Source
  <2>1. selected' = x /\ owner' = t /\ selection' = None /\ x \in sources /\ UNCHANGED requests
    BY <1>6 DEF SelectSource, bridge
  <2>2. SelectionIsBacked' /\ Awaiting'
    BY <1>4, <2>1 DEF SelectionIsBacked, Awaiting, media
  <2>3. Routed' /\ Known'
    BY <1>1, <1>3, <1>4, <1>5, <1>6, <2>1 DEF SelectionInv, Routed, Known, plugins, media, Requested
  <2>4. InForce(r)' /\ WorkerHolds(r)'
    BY <1>1, <1>6, <2>1, MediaAssumption DEF MediaAssumption, InForce, WorkerHolds
  <2>5. r \notin requests' \cup Requested(served' \cup results')
    BY <1>3, <1>5, <2>1 DEF Made, Given, Requested
  <2>6. Obeyed'
    BY <1>3, <1>6, <2>4, <2>5 DEF Obeyed
  <2> QED BY <2>2, <2>3, <2>6
<1>7. CASE (RefuseSource(t, s, x) /\ x \in Source) \/ (AskWorker(t, s, x) /\ x \notin Source)
  <2>1. selection' = (IF s THEN sequence + 1 ELSE selection) /\ UNCHANGED <<selected, owner>>
    BY <1>7 DEF RefuseSource, AskWorker, Awaited
  <2>2. \A a \in told' : a.request = r => a.status = "Failed"
    <3>1. told' = told \/ told' = told \cup {[request |-> r, status |-> "Failed"]}
      BY <1>0, <1>7 DEF RefuseSource, AskWorker, Tell
    <3> QED BY <1>5, <3>1 DEF Given
  <2>3. x \in Source => UNCHANGED requests
    BY <1>7 DEF RefuseSource, bridge
  <2>4. SelectionIsBacked'
    BY <1>4, <2>1 DEF SelectionInv, SelectionIsBacked, media
  <2>5. Awaiting'
    BY <1>1, <1>3, <2>1 DEF SelectionInv, Awaiting, Last
  <2>6. Routed'
    <3>1. \A o \in Made' : o.token \in active' \cup gone' /\ o.target \in spent' \cup {Automatic}
      BY <1>1, <1>3, <1>4 DEF SelectionInv, Routed, plugins, media
    <3>2. \A o \in requests' \cup Requested(served' \cup results') : o.target \notin Source
      BY <1>1, <1>5, <2>3 DEF SelectionInv, Routed, Requested
    <3>3. ASSUME NEW a \in Given', NEW o \in requests', a.status = "Ok", a.request.target \notin Source
          PROVE  a.request.sequence < o.sequence
      <4>1. a \in Given /\ a.request \in Made
        BY <1>5, <2>2, <3>3 DEF Made, Requested
      <4> QED BY <1>3, <1>5, <3>3, <4>1 DEF SelectionInv, Routed
    <3> QED BY <3>1, <3>2, <3>3 DEF Routed
  <2>7. Known'
    BY <1>1, <1>3, <1>4, <2>1 DEF SelectionInv, Known, plugins
  <2>8. Obeyed'
    <3>1. CASE s
      BY <1>1, <1>3, <1>5, <2>1, <2>2, <3>1 DEF Obeyed, Given
    <3>2. CASE ~s
      <4> SUFFICES ASSUME gone' = {}, NEW o \in Made', Last(o)'
                   PROVE  /\ o \in requests' \cup Requested(served' \cup results')
                               => selection' = o.sequence
                          /\ \A a \in told' : a.request = o /\ a.status = "Ok" => InForce(o)'
                          /\ \A a \in Given' : a.request = o /\ a.status = "Ok" => WorkerHolds(o)'
        BY DEF Obeyed
      <4>1. o \in Made /\ Last(o) /\ gone = {} /\ o # r
        BY <1>3, <1>4, <3>2 DEF plugins
      <4>2. InForce(o)' = InForce(o) /\ WorkerHolds(o)' = WorkerHolds(o)
        BY <1>4, <2>1 DEF InForce, WorkerHolds, media, refresh
      <4> QED BY <1>5, <2>1, <3>2, <4>1, <4>2 DEF SelectionInv, Obeyed
    <3> QED BY <3>1, <3>2
  <2> QED BY <2>4, <2>5, <2>6, <2>7, <2>8
<1> QED BY <1>6, <1>7

LEMMA MovingKeepsLast == ASSUME BridgeInv, Moving PROVE \A r : Last(r)' <=> Last(r)
  BY MovingKeepsApart DEF Last

LEMMA BeginFrameStep ==
  ASSUME SelectionInv, BeginFrame
  PROVE  SelectionIsBacked' /\ Routed' /\ Known' /\ Awaiting' /\ Obeyed'
<1>1. /\ UNCHANGED <<plugins, media, sequence, ready, refresh, told>>
      /\ requests' \subseteq requests /\ results' \subseteq results /\ known' = active
      /\ \A r \in requests : r.token \in active => r \in requests'
      /\ \A a \in results : a.request.token \in active => a \in results'
  BY DEF BeginFrame, OfTokens, Retained
<1>2. Made' = Made /\ (\A r : Last(r)' <=> Last(r)) /\ Given' \subseteq Given
  BY <1>1, MovingKeepsApart, MovingKeepsLast DEF Moving, SelectionInv, Given, refresh
<1>3. \/ owner \notin active \cup {None} /\ selected' = None /\ owner' = None /\ selection' = None
      \/ owner \in active \cup {None} /\ UNCHANGED <<selected, owner, selection>>
  BY DEF BeginFrame, OwnerLeft
<1>4. SelectionIsBacked'
  BY <1>1, <1>3, MediaAssumption DEF MediaAssumption, SelectionInv, SelectionIsBacked, media
<1>5. Routed'
  BY <1>1, <1>2 DEF SelectionInv, Routed, Requested, plugins, media, refresh
<1>6. Known'
  BY <1>1, <1>2, <1>3 DEF SelectionInv, Known, Routed, plugins
<1>7. Awaiting'
  BY <1>2, <1>3 DEF SelectionInv, Awaiting
<1>8. ASSUME gone = {} PROVE UNCHANGED <<selected, owner, selection>> /\ Given' = Given
  <2>1. \A a \in results : a.request.token \in active
    BY <1>8 DEF SelectionInv, Routed, Made, Given, Requested
  <2>2. results' = results
    BY <1>1, <2>1
  <2> QED BY <1>1, <1>3, <1>8, <2>2 DEF SelectionInv, Known, Given, refresh
<1>9. Obeyed'
  <2>1. \A r : WorkerHolds(r)' <=> WorkerHolds(r)
    BY <1>1 DEF WorkerHolds, refresh
  <2>2. ASSUME gone = {} PROVE \A r : InForce(r)' <=> InForce(r)
    BY <1>1, <1>8, <2>2 DEF InForce, media
  <2> QED BY <1>1, <1>2, <1>8, <2>1, <2>2 DEF SelectionInv, Obeyed, Requested, plugins, refresh
<1> QED BY <1>4, <1>5, <1>6, <1>7, <1>9

LEMMA ReadStep ==
  ASSUME SelectionInv, ReadResults
  PROVE  SelectionIsBacked' /\ Routed' /\ Known' /\ Awaiting' /\ Obeyed'
<1>1. /\ UNCHANGED <<plugins, media, sequence, ready, known, requests, refresh, lost>>
      /\ results' = {} /\ told' = told \cup results /\ ui = "results"
  BY DEF ReadResults, TakeResults
<1>2. Made' = Made /\ (\A r : Last(r)' <=> Last(r)) /\ Given' = Given
  BY <1>1, MovingKeepsApart, MovingKeepsLast DEF Moving, SelectionInv, Given, refresh
<1>3. results \subseteq Given /\ \A a \in Given : a.request \in Made
  BY DEF Given, Made, Requested
<1>4. Routed'
  BY <1>1, <1>2 DEF SelectionInv, Routed, Requested, plugins, media, refresh
<1>5. \A r : WorkerHolds(r)' <=> WorkerHolds(r)
  BY <1>1 DEF WorkerHolds, refresh
<1>6. CASE \A a \in results : a.request.sequence # selection
  <2>1. UNCHANGED <<selected, owner, selection>>
    BY <1>6 DEF ReadResults
  <2>2. SelectionIsBacked' /\ Known' /\ Awaiting'
    BY <1>1, <1>2, <2>1
       DEF SelectionInv, SelectionIsBacked, Known, Awaiting, plugins, media, ReadResults
  <2>3. ASSUME gone = {}, NEW a \in results, Last(a.request) PROVE FALSE
    <3>1. a.request \in Requested(served \cup results) /\ a.request \in Made
      BY <1>3, <2>3 DEF Requested
    <3> QED BY <1>6, <2>3, <3>1 DEF SelectionInv, Obeyed
  <2>4. \A r : InForce(r)' <=> InForce(r)
    BY <1>1, <2>1 DEF InForce, media
  <2>5. Obeyed'
    BY <1>1, <1>2, <1>5, <2>1, <2>3, <2>4 DEF SelectionInv, Obeyed, Requested, plugins, refresh
  <2> QED BY <1>4, <2>2, <2>5
<1>7. ASSUME NEW a \in results, a.request.sequence = selection, selection' = None,
             IF a.status # "Ok" \/ ~a.request.select
             THEN UNCHANGED <<selected, owner>>
             ELSE IF a.request.target = Automatic
             THEN selected' = None /\ owner' = None
             ELSE selected' = Automatic /\ owner' = a.request.token
      PROVE  SelectionIsBacked' /\ Known' /\ Awaiting' /\ Obeyed'
  <2>1. a.request \in Made /\ a \in Given /\ a.request.token \in Plugin /\ a.request.sequence \in Nat
    BY <1>3 DEF SelectionInv, BridgeInv, Typed, TypeOK, Answer, Request
  <2>2. selection # None /\ a.request.token # None /\ Automatic \notin Source /\ None \notin Source
    BY <1>7, <2>1, MediaAssumption DEF MediaAssumption
  <2>3. Last(a.request)
    <3>1. PICK r \in Made : Last(r) /\ r.sequence = selection
      BY <2>2 DEF SelectionInv, Awaiting
    <3> QED BY <1>7, <2>1, <3>1 DEF SelectionInv, BridgeInv, Numbered
  <2>4. SelectionIsBacked'
    BY <1>1, <1>7, <2>2 DEF SelectionInv, SelectionIsBacked, media
  <2>5. Known'
    BY <1>1, <1>2, <1>7, <2>1 DEF SelectionInv, Known, Routed, plugins
  <2>6. \A r \in Made : Last(r) => r = a.request
    <3>1. \A r \in Made : r.sequence \in Nat
      BY MediaAssumption DEF MediaAssumption, SelectionInv, BridgeInv, Numbered, Typed, TypeOK
    <3> QED BY <2>1, <2>3, <3>1 DEF SelectionInv, BridgeInv, Numbered, Last
  <2>7. \A b \in Given : b.request = a.request => b = a
    BY <2>1 DEF SelectionInv, BridgeInv, Apart
  <2>8. a.status = "Ok" => InForce(a.request)'
    <3>1. a.request.target \notin Source /\ a.request.select
      BY <2>1, <2>3 DEF SelectionInv, Routed, Requested, Last
    <3>2. a.request.target \in Target
      BY <2>1 DEF SelectionInv, BridgeInv, Typed, TypeOK, Answer, Request
    <3> QED BY <1>7, <3>1, <3>2 DEF InForce, Target
  <2>9. Obeyed'
    <3>1. a.request \notin requests' \cup Requested(served' \cup results')
      BY <1>1, <2>1, <2>7 DEF SelectionInv, BridgeInv, Apart, Requested, Given, refresh
    <3> QED BY <1>1, <1>2, <1>5, <2>6, <2>7, <2>8, <3>1 DEF SelectionInv, Obeyed, plugins, Given
  <2> QED BY <1>7, <2>4, <2>5, <2>9 DEF Awaiting
<1>8. \/ \A a \in results : a.request.sequence # selection
      \/ \E a \in results :
           /\ a.request.sequence = selection /\ selection' = None
           /\ IF a.status # "Ok" \/ ~a.request.select
              THEN UNCHANGED <<selected, owner>>
              ELSE IF a.request.target = Automatic
              THEN selected' = None /\ owner' = None
              ELSE selected' = Automatic /\ owner' = a.request.token
  BY DEF ReadResults
<1> QED BY <1>4, <1>6, <1>7, <1>8

LEMMA ServeStep ==
  ASSUME SelectionInv, ServeRequests
  PROVE  SelectionIsBacked' /\ Routed' /\ Known' /\ Awaiting' /\ Obeyed'
<1> DEFINE Q == OfTokens(requests, seen)
<1>1. PICK status \in [Q -> Status] :
        /\ \A r \in Q : status[r] \in Outcomes(r)
        /\ served' = {[request |-> r, status |-> status[r]] : r \in Q}
  BY DEF ServeRequests
<1>2. /\ requests' = {} /\ Choose(Q) /\ served = {}
      /\ UNCHANGED <<plugins, media, ui, island, ready, known, results, seen, handles, told>>
  BY DEF ServeRequests, SelectionInv, BridgeInv, Typed
<1>3. Made' = Made /\ \A r : Last(r)' <=> Last(r)
  BY MovingKeepsApart, MovingKeepsLast DEF Moving, SelectionInv
<1>4. Q \subseteq requests /\ requests \subseteq Made
  BY DEF OfTokens, Made
<1> HIDE DEF Q
<1>5. /\ \A a \in served' : a.request \in Q /\ a.status = status[a.request]
      /\ \A a \in Given' : a \in Given \/ a \in served'
      /\ \A a \in Given : a \in results \cup told
  BY <1>1, <1>2 DEF Given
<1>6. SelectionIsBacked' /\ Known' /\ Awaiting'
  BY <1>2, <1>3 DEF SelectionInv, SelectionIsBacked, Known, Awaiting, plugins, media, island
<1>7. Routed'
  <2>1. Requested(served' \cup results') \subseteq requests \cup Requested(served \cup results)
    BY <1>2, <1>4, <1>5 DEF Requested
  <2> QED BY <1>2, <1>3, <2>1 DEF SelectionInv, Routed, plugins, media
<1>8. \A r : InForce(r)' <=> InForce(r)
  BY <1>2 DEF InForce, media, island
<1>9. ASSUME NEW r \in Made, Last(r), NEW a \in Given', a.request = r, a.status = "Ok", gone = {}
      PROVE  WorkerHolds(r)'
  <2>1. \A o \in Selecting(Q) : o \in Made /\ o.select /\ o.sequence <= r.sequence
    BY <1>4, <1>9 DEF Selecting, Last
  <2>2. CASE a \in served'
    <3>1. r \in Q /\ status[r] = "Ok" /\ r.select
      BY <1>5, <1>9, <2>2 DEF Last
    <3>2. r \in Selecting(Q) /\ r.target \in handles \cup {Automatic}
      BY <1>1, <3>1 DEF Selecting, Outcomes
    <3>3. PICK o \in Selecting(Q) :
            /\ \A other \in Selecting(Q) : other.sequence <= o.sequence
            /\ chosen' = IF o.target = Automatic THEN None ELSE o.target
            /\ chosen_by' = IF o.target = Automatic THEN None ELSE o.token
      BY <1>2, <3>2 DEF Choose
    <3>4. o.sequence <= r.sequence /\ r.sequence <= o.sequence /\ o \in Made
      BY <2>1, <3>2, <3>3
    <3>5. \A p \in Made : p.sequence \in Nat
      BY MediaAssumption DEF MediaAssumption, SelectionInv, BridgeInv, Numbered, Typed, TypeOK
    <3>6. o = r
      BY <3>4, <3>5 DEF SelectionInv, BridgeInv, Numbered
    <3> QED BY <3>3, <3>6, MediaAssumption DEF MediaAssumption, WorkerHolds
  <2>3. CASE a \in Given
    <3>1. CASE r.target \in Source
      BY <3>1, MediaAssumption DEF MediaAssumption, WorkerHolds
    <3>2. CASE r.target \notin Source
      <4>1. \A o \in requests : r.sequence < o.sequence
        BY <1>9, <2>3, <3>2 DEF SelectionInv, Routed
      <4>2. \A o \in Made : o.sequence \in Nat
        BY MediaAssumption DEF MediaAssumption, SelectionInv, BridgeInv, Numbered, Typed, TypeOK
      <4>3. \A o \in Selecting(Q) : r.sequence < o.sequence
        BY <1>4, <4>1 DEF Selecting
      <4>4. Selecting(Q) = {}
        BY <1>9, <2>1, <4>2, <4>3
      <4>5. UNCHANGED <<chosen, chosen_by>>
        BY <1>2, <4>4 DEF Choose
      <4>6. WorkerHolds(r)
        BY <1>9, <2>3 DEF SelectionInv, Obeyed
      <4> QED BY <4>5, <4>6 DEF WorkerHolds
    <3> QED BY <3>1, <3>2
  <2> QED BY <1>5, <1>9, <2>2, <2>3
<1>10. Obeyed'
  <2>1. Requested(served' \cup results') \subseteq requests \cup Requested(served \cup results)
    BY <1>2, <1>4, <1>5 DEF Requested
  <2> QED BY <1>2, <1>3, <1>8, <1>9, <2>1 DEF SelectionInv, Obeyed, plugins, island
<1> QED BY <1>6, <1>7, <1>10

LEMMA PublishStep ==
  ASSUME SelectionInv, PublishResults
  PROVE  SelectionIsBacked' /\ Routed' /\ Known' /\ Awaiting' /\ Obeyed'
<1>1. /\ UNCHANGED <<plugins, media, ui, island, ready, known, requests, chosen, chosen_by, history>>
      /\ served' = {} /\ results' = results \cup served
  BY DEF PublishResults
<1>2. Made' = Made /\ \A r : Last(r)' <=> Last(r)
  BY MovingKeepsApart, MovingKeepsLast DEF Moving, SelectionInv
<1>3. Given' = Given /\ (served \cup results)' = served \cup results
  BY <1>1 DEF Given, history
<1>4. \A r : (InForce(r)' <=> InForce(r)) /\ (WorkerHolds(r)' <=> WorkerHolds(r))
  BY <1>1 DEF InForce, WorkerHolds, media, island
<1>5. SelectionIsBacked' /\ Known' /\ Awaiting'
  BY <1>1, <1>2 DEF SelectionInv, SelectionIsBacked, Known, Awaiting, plugins, media, island
<1>6. Routed' /\ Obeyed'
  BY <1>1, <1>2, <1>3, <1>4 DEF SelectionInv, Routed, Obeyed, plugins, media, island, history, Requested
<1> QED BY <1>5, <1>6

LEMMA SelectionInvStep == SelectionInv /\ [Next]_vars => SelectionInv'
<1> SUFFICES ASSUME SelectionInv, [Next]_vars PROVE SelectionInv'
  OBVIOUS
<1>1. BridgeInv'
  BY BridgeInvStep DEF SelectionInv
<1>2. CASE UNCHANGED vars
  <2>1. UNCHANGED places
    BY <1>2 DEF vars, island, bridge, refresh, history, places
  <2>2. SelectionIsBacked' /\ Routed' /\ Known' /\ Awaiting'
    BY <1>2, <2>1, Unmoved DEF SelectionInv, SelectionIsBacked, Routed, Known, Awaiting, Requested,
       vars, plugins, media, island, bridge
  <2>3. Obeyed'
    BY <1>2, <2>1, Unmoved DEF SelectionInv, Obeyed, InForce, WorkerHolds, Requested,
       vars, plugins, media, island, refresh
  <2> QED BY <1>1, <2>2, <2>3 DEF SelectionInv
<1>3. CASE Requests
  BY <1>1, <1>3, AskStep, MediaAssumption DEF MediaAssumption, Requests, SelectionInv
<1>4. CASE Frame
  BY <1>1, <1>4, BeginFrameStep, ReadStep, SessionStep DEF Frame, SelectionInv
<1>5. CASE Worker
  BY <1>1, <1>5, LookStep, ServeStep, PublishStep DEF Worker, SelectionInv
<1>6. CASE Environment
  <2>1. CASE \E t \in Plugin : LoadPlugin(t) \/ UnloadPlugin(t)
    BY <1>1, <2>1, PluginStep DEF SelectionInv
  <2>2. CASE \E x \in Source : AddSource(x) \/ ReleaseSource(x)
    BY <1>1, <2>2, SourceStep DEF SelectionInv
  <2>3. CASE (\E x \in Session : AddSession(x) \/ EndSession(x)) \/ OpenContext
    BY <1>1, <2>3, SessionStep DEF SelectionInv
  <2> QED BY <1>6, <2>1, <2>2, <2>3 DEF Environment
<1> QED BY <1>2, <1>3, <1>4, <1>5, <1>6 DEF Next

LEMMA SelectionInvObeys == SelectionInv => LatestIsObeyed
<1> SUFFICES ASSUME SelectionInv, Quiet, gone = {}, NEW a \in Selects, a.status = "Ok",
                    IsLatest(a.request)
             PROVE  InForce(a.request) /\ WorkerHolds(a.request)
  BY DEF LatestIsObeyed, WorkerHolds
<1>1. /\ requests = {} /\ results = {} /\ served = {}
      /\ a \in told /\ a \in Given /\ a.request \in Made /\ a.request.select
  BY DEF Quiet, SelectionInv, BridgeInv, Typed, Selects, Made, Given, Requested
<1>2. Made = Requested(told) \cup lost
  BY <1>1 DEF Made, Given
<1>3. \A o \in Made : o.sequence \in Nat
  BY MediaAssumption DEF MediaAssumption, SelectionInv, BridgeInv, Numbered, Typed, TypeOK
<1>4. \A o \in Made : o.select => o.sequence <= a.request.sequence
  BY <1>1, <1>2, <1>3 DEF IsLatest, Selects, Requested
<1> QED BY <1>1, <1>4 DEF Last, SelectionInv, Obeyed

LEMMA SelectionAlways == Spec => []SelectionInv
<1>1. Init => SelectionInv
  BY SelectionInvInit
<1>2. SelectionInv /\ [Next]_vars => SelectionInv'
  BY SelectionInvStep
<1> QED BY <1>1, <1>2, PTL DEF Spec

(* Whatever plugins, the event loop and the media worker do, a request for *)
(* media waits in one queue, or was answered once, or was dropped.         *)
THEOREM EveryRequestIsAnswered == Spec => []OneAnswerEach
<1>1. SelectionInv => OneAnswerEach
  BY BridgeInvAnswers DEF SelectionInv
<1> QED BY <1>1, SelectionAlways, PTL

(* What is selected is registered, and somebody is there to lose it with.  *)
THEOREM SelectionsAreBacked == Spec => []SelectionIsBacked
<1>1. SelectionInv => SelectionIsBacked
  BY DEF SelectionInv
<1> QED BY <1>1, SelectionAlways, PTL

(* The last selection to be made, if it was answered with Ok, is in force  *)
(* with both threads once they have nothing left to do.                    *)
THEOREM TheLatestIsObeyed == Spec => []LatestIsObeyed
  BY SelectionInvObeys, SelectionAlways, PTL

(* No request of a loaded plugin is dropped, but by a worker that looked   *)
(* before the plugin was loaded.                                           *)
THEOREM OnlyTheUnknownAreDropped == Spec => LostOnlyIfUnknown
<1> DEFINE Dropped == \A r \in lost' \ lost : r.token \in active => worker = "looked" /\ r.token \notin seen
<1>1. ASSUME SelectionInv, [Next]_vars PROVE [Dropped]_lost
  <2>1. CASE UNCHANGED lost
    BY <2>1
  <2>2. CASE BeginFrame
    BY <2>2 DEF BeginFrame, Retained
  <2>3. CASE ServeRequests
    BY <2>3 DEF ServeRequests, OfTokens
  <2>4. CASE UNCHANGED vars
    BY <2>1, <2>4 DEF vars, history
  <2>5. CASE \E r \in Request : Arrived(r)
    BY <2>1, <2>5 DEF Arrived
  <2>6. CASE UNCHANGED places
    BY <2>1, <2>6 DEF places
  <2>7. CASE ReadResults \/ PublishResults
    BY <2>1, <2>7 DEF ReadResults, PublishResults, history
  <2> QED BY <1>1, <2>2, <2>3, <2>4, <2>5, <2>6, <2>7, StepsAre DEF Moving, SelectionInv, BridgeInv
<1> QED BY <1>1, SelectionAlways, PTL DEF Spec, LostOnlyIfUnknown
=============================================================================
