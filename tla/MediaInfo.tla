------------------------------ MODULE MediaInfo ------------------------------
(***************************************************************************)
(* What the island knows of the song that plays: MediaInfo, in a watch     *)
(* channel that the media worker, the UI thread, the tasks that fetch      *)
(* lyrics and the thread that fetches the cover all write.                 *)
(*                                                                         *)
(* Code: src/core/smtc.rs, smtc/worker.rs, smtc/properties.rs.  Which      *)
(* session is followed is MediaSelection's concern: here there is one      *)
(* player, which can turn into another.  A position stands for all that are*)
(* within the tolerances of each other.  The song's own position and the   *)
(* one shown advance with time; what a player reports, and what was read   *)
(* of it last, stay what they are until there is another report.           *)
(***************************************************************************)
EXTENDS Naturals, Sequences

CONSTANTS
  App,         \* source_app_ids of players
  Title,       \* titles of songs
  MaxPosition,
  MaxInputs    \* what users and players do, and sessions that fail

(* What is not known yet is empty (a name of its own, for the provers).    *)
Unknown == ""
ASSUME MediaInfoAssumption ==
  /\ MaxPosition \in Nat /\ MaxInputs \in Nat
  /\ Unknown \notin App \cup Title

VARIABLES
  player,      \* the session: its app ("": none), title, artist, duration, whether it
               \* plays, where it is, what it has told of that, and whether it told it
               \* after the last read
  info,        \* the MediaInfo in the channel
  tracks,      \* NEXT_TRACK_ID - 1
  lyricTasks,  \* the tasks of spawn_lyrics_fetch
  poll,        \* where smtc_poll_loop is
  wanted,      \* enabled_tx
  enabled,     \* the loop's copy
  settingsSent,\* the channels of the lyrics settings
  settings,    \* the loop's lyrics settings
  seeksSent,   \* seek_tx
  seeking,     \* request_seek: sent and not yet applied (a set of at most one)
  asked,       \* the loop: the seek it has taken
  timeline,    \* TimelineCache: what was read last (a set of at most one)
  inputs

uiSide      == <<wanted, settingsSent, seeksSent, seeking>>
workerSide  == <<poll, enabled, settings, asked, timeline, tracks>>
mediaInfoVars ==
  <<player, info, lyricTasks, inputs, uiSide, workerSide>>

-----------------------------------------------------------------------------
Position == 0..MaxPosition
NoPlayer == [app |-> Unknown, title |-> Unknown, named |-> FALSE, timed |-> FALSE,
             playing |-> FALSE, pos |-> 0, told |-> 0, anew |-> FALSE]

(* MediaInfo::default().  `named': the artist is known; `timed': the       *)
(* duration is.  `pos' is position_ms with the time since last_update;     *)
(* `smtc' is last_smtc_pos, which has no time of its own.  A guard is "set"*)
(* until its four seconds are over.                                        *)
Default ==
  [app |-> Unknown, title |-> Unknown, named |-> FALSE, timed |-> FALSE, track |-> 0,
   fetch |-> 0, lyrics |-> {}, playing |-> FALSE, pos |-> 0, smtc |-> 0,
   target |-> 0, guard |-> "none"]

Input == inputs < MaxInputs /\ inputs' = inputs + 1

(* LyricsFetchRequest, for what is shown.                                  *)
LyricsRequest(i, s) ==
  [title |-> i.title, named |-> i.named, fetch |-> i.fetch, track |-> i.track,
   settings |-> s]

(* Faulty: the counter of the requests alone, which starts anew with every *)
(* default, and what the song is called.                                   *)
MatchesAnyTrack(t, i) == t.title = i.title /\ t.named = i.named /\ t.fetch = i.fetch
Matches(t, i) ==
  t.title = i.title /\ t.named = i.named /\ t.fetch = i.fetch /\ t.track = i.track

(* queue_lyrics: the lyrics go, and a request with a new id is made.       *)
Requeued(i) == [i EXCEPT !.lyrics = {}, !.fetch = @ + 1]

(* apply_seek and reject_seek: the position that comes back is the one that*)
(* was read last, however long ago the player told it.                     *)
Sought(i, p) == [i EXCEPT !.pos = p, !.target = p, !.guard = "set"]
Unsought(i, p) ==
  IF i.guard = "none" \/ i.target # p THEN i
  ELSE [i EXCEPT !.pos = i.smtc, !.target = 0, !.guard = "none"]

-----------------------------------------------------------------------------
(* The player and the user.                                                *)

Playing(a, x, full) ==
  [app |-> a, title |-> x, named |-> full, timed |-> full,
   playing |-> TRUE, pos |-> 0, told |-> 0, anew |-> TRUE]

PlaySong(a, x, full) ==
  /\ Input /\ player' = Playing(a, x, full)
  /\ <<a, x>> # <<player.app, player.title>>
  /\ UNCHANGED <<info, lyricTasks, uiSide, workerSide>>

(* The artist or the duration of a song are known late, or it is paused,   *)
(* resumed or jumps.                                                       *)
ChangeDetail ==
  /\ Input /\ player.app # Unknown
  /\ \/ ~player.named /\ player' = [player EXCEPT !.named = TRUE]
     \/ ~player.timed /\ player' = [player EXCEPT !.timed = TRUE]
     \/ player' = [player EXCEPT !.playing = ~@]
     \/ \E p \in Position \ {player.pos} : player' = [player EXCEPT !.pos = p]
  /\ UNCHANGED <<info, lyricTasks, uiSide, workerSide>>

(* Time passes for the song, and for what is shown.                        *)
SongAdvances ==
  /\ player.playing /\ player.pos < MaxPosition
  /\ player' = [player EXCEPT !.pos = @ + 1]
  /\ info' = IF info.playing /\ info.pos < MaxPosition THEN [info EXCEPT !.pos = @ + 1] ELSE info
  /\ UNCHANGED <<lyricTasks, inputs, uiSide, workerSide>>

(* A player that plays, or has moved, tells its position anew, in other    *)
(* milliseconds than the last time.                                        *)
ReportPosition ==
  /\ player.app # Unknown
  /\ player.told # player.pos \/ (player.playing /\ ~player.anew)
  /\ player' = [player EXCEPT !.told = player.pos, !.anew = TRUE]
  /\ UNCHANGED <<info, lyricTasks, inputs, uiSide, workerSide>>

ClosePlayer ==
  /\ Input /\ player.app # Unknown /\ player' = NoPlayer
  /\ UNCHANGED <<info, lyricTasks, uiSide, workerSide>>

SwitchListening ==
  /\ Input /\ wanted' = ~wanted
  /\ UNCHANGED <<player, info, lyricTasks, settingsSent, seeksSent, seeking, workerSide>>

ChangeSettings ==
  /\ Input /\ \E s \in 0..1 : settingsSent' = Append(settingsSent, s)
  /\ UNCHANGED <<player, info, lyricTasks, wanted, seeksSent, seeking, workerSide>>

(* request_seek: the worker may have the seek before it is shown.          *)
RequestSeek(p) ==
  /\ Input /\ seeking = {}
  /\ seeksSent' = Append(seeksSent, p) /\ seeking' = {p}
  /\ UNCHANGED <<player, info, lyricTasks, wanted, settingsSent, workerSide>>

ShowSeek ==
  /\ \E p \in seeking : info' = IF info.title = Unknown THEN info ELSE Sought(info, p)
  /\ seeking' = {}
  /\ UNCHANGED <<player, lyricTasks, inputs, wanted, settingsSent, seeksSent, workerSide>>

GuardRunsOut ==
  /\ info.guard = "set" /\ info' = [info EXCEPT !.guard = "late"]
  /\ UNCHANGED <<player, lyricTasks, inputs, uiSide, workerSide>>

(* A fetch of lyrics finds some or none; it is cancelled, or its result is *)
(* thrown away, when it is not what is shown that it was made for.         *)
FinishLyrics(t, found) ==
  /\ t \in lyricTasks /\ lyricTasks' = lyricTasks \ {t}
  /\ info' = IF Matches(t, info)
             THEN [info EXCEPT !.lyrics = IF found THEN {t} ELSE {}] ELSE info
  /\ UNCHANGED <<player, inputs, uiSide, workerSide>>

-----------------------------------------------------------------------------
(* smtc_poll_loop, once every 300 ms or when it is woken.                  *)

(* refresh_current_lyrics, when any of the settings that came differs.     *)
LyricsRefreshed ==
  IF info.title # Unknown /\ \E k \in DOMAIN settingsSent : settingsSent[k] # settings
  THEN Requeued(info) ELSE info

(* Then whether to listen: nothing is shown from then on if not.           *)
PollSettings ==
  /\ poll = "settings" /\ poll' = "seek"
  /\ settingsSent' = <<>>
  /\ settings' = IF settingsSent = <<>> THEN settings ELSE settingsSent[Len(settingsSent)]
  /\ lyricTasks' = IF LyricsRefreshed = info THEN lyricTasks
                   ELSE lyricTasks \cup {LyricsRequest(LyricsRefreshed, settings')}
  /\ enabled' = wanted
  /\ timeline' = IF wanted = enabled THEN timeline ELSE {}
  /\ info' = IF wanted = enabled \/ wanted THEN LyricsRefreshed ELSE Default
  /\ UNCHANGED <<player, inputs, wanted, seeksSent, seeking, asked, tracks>>

(* The last seek counts.  There may be no player; it may refuse; it may    *)
(* accept and do nothing; and another app's song may be shown.             *)
TakeSeek ==
  /\ poll = "seek" /\ seeksSent' = <<>>
  /\ IF ~enabled \/ seeksSent = <<>>
     THEN poll' = (IF enabled THEN "update" ELSE "settings") /\ UNCHANGED <<asked, player>>
     ELSE /\ asked' = seeksSent[Len(seeksSent)]
          /\ \/ /\ player.app # Unknown
                /\ \E p \in {asked', player.pos} : player' = [player EXCEPT !.pos = p]
                /\ poll' = IF player.app = info.app THEN "sought" ELSE "refused"
             \/ poll' = "refused" /\ UNCHANGED player
  /\ UNCHANGED <<info, lyricTasks, inputs, wanted, settingsSent, seeking,
                 enabled, settings, timeline, tracks>>

(* A seek that is not shown, since the user has sought something else since*)
(* or nothing plays, counts as refused.                                    *)
ConfirmSeek ==
  /\ poll = "sought"
  /\ IF info.title = Unknown \/ (info.guard # "none" /\ info.target # asked)
     THEN poll' = "refused" /\ UNCHANGED <<info, asked>>
     ELSE poll' = "update" /\ info' = Sought(info, asked) /\ asked' = 0
  /\ UNCHANGED <<player, lyricTasks, inputs, uiSide, enabled, settings, timeline, tracks>>

RefuseSeek ==
  /\ poll = "refused" /\ poll' = "update"
  /\ info' = Unsought(info, asked) /\ asked' = 0
  /\ UNCHANGED <<player, lyricTasks, inputs, uiSide, enabled, settings, timeline, tracks>>

(* MediaUpdateState::update: it is not due, or the session cannot be read. *)
SkipUpdate ==
  /\ poll = "update" /\ poll' = "settings"
  /\ UNCHANGED <<player, info, lyricTasks, inputs, uiSide,
                 enabled, settings, asked, timeline, tracks>>

(* The player is gone, fails or plays a video, for long enough.            *)
ClearInfo ==
  /\ poll = "update" /\ poll' = "settings" /\ info.title # Unknown
  /\ player.app # Unknown => inputs < MaxInputs
  /\ inputs' = IF player.app = Unknown THEN inputs ELSE inputs + 1
  /\ info' = Default
  /\ \/ timeline' = {}
     \/ player.app # Unknown /\ UNCHANGED timeline
  /\ UNCHANGED <<player, lyricTasks, uiSide, enabled, settings, asked, tracks>>

IsNewTrack(r) == r.title # Unknown /\ <<r.app, r.title>> # <<info.app, info.title>>

(* Faulty: nothing happens at the end of the guard.                        *)
RunOutIgnored(i) == FALSE
RunOut(i)        == i.guard = "late"

(* sync_timeline, update_playback_state: while a seek is guarded, the      *)
(* position stays the wanted one until the player confirms it; otherwise it*)
(* is what the player tells, if that is not what it told the last time.    *)
Synced(i, r) ==
  LET confirmed == r.told > 0 /\ r.told = i.target
      guarded   == i.guard = "set" /\ ~confirmed
      due       == \/ i.playing # r.playing
                   \/ r.told > 0 /\ i.pos = 0
                   \/ RunOut(i)
                   \/ r.anew \/ r.told # i.smtc
  IN  [i EXCEPT !.smtc = r.told, !.guard = IF guarded THEN "set" ELSE "none",
                !.pos = IF due /\ ~guarded THEN r.told ELSE @, !.playing = r.playing]

(* start_new_track; enrich_current_track.                                  *)
Started(r) ==
  Requeued([Default EXCEPT !.app = r.app, !.title = r.title, !.named = r.named,
                           !.track = tracks + 1, !.fetch = info.fetch,
                           !.playing = r.playing, !.pos = r.told, !.smtc = r.told])
Enriched(r) == IF r.title # Unknown /\ r.named /\ ~info.named
               THEN Requeued([info EXCEPT !.named = TRUE]) ELSE info

(* update_duration, and lyrics that are asked for again when it is known.  *)
Timed(i, r) ==
  LET u == [i EXCEPT !.timed = r.timed] IN
  IF ~i.timed /\ r.timed /\ i.lyrics = {} /\ i.fetch = info.fetch THEN Requeued(u) ELSE u

(* update_media_info, and the requests that it leaves.                     *)
PublishInfo(r) ==
  /\ IF IsNewTrack(r)
     THEN /\ info' = [Started(r) EXCEPT !.timed = r.timed]
          /\ tracks' = tracks + 1
     ELSE /\ UNCHANGED tracks
          /\ IF r.title = Unknown /\ info.title # Unknown /\ info.app # r.app
             THEN info' = Default
             ELSE info' = Timed(Synced(Enriched(r), r), r)
  /\ lyricTasks' = IF info'.fetch > info.fetch
                   THEN lyricTasks \cup {LyricsRequest(info', settings)} ELSE lyricTasks

(* fetch_properties: the timeline is read when it has to be, or every      *)
(* 500 ms; what was read before stands for what is old when it is used.    *)
UpdateInfo(fresh) ==
  /\ poll = "update" /\ poll' = "settings" /\ player.app # Unknown
  /\ LET known == {t \in timeline : ~IsNewTrack(player) /\ t.app = player.app}
         now   == [app |-> player.app, timed |-> player.timed, told |-> player.told]
     IN  /\ ~fresh => known # {}
         /\ timeline' = IF fresh THEN {now} ELSE known
         /\ \E t \in timeline' :
              PublishInfo([player EXCEPT !.timed = t.timed, !.told = t.told,
                                         !.anew = fresh /\ player.anew])
  /\ player' = [player EXCEPT !.anew = @ /\ ~fresh]
  /\ UNCHANGED <<inputs, uiSide, enabled, settings, asked>>

-----------------------------------------------------------------------------
MediaInfoInit ==
  /\ player \in {NoPlayer} \cup {Playing(a, x, full) : a \in App, x \in Title, full \in BOOLEAN}
  /\ info = Default /\ tracks = 0 /\ lyricTasks = {}
  /\ poll = "settings" /\ wanted = TRUE /\ enabled = TRUE
  /\ settingsSent = <<>> /\ settings = 0 /\ seeksSent = <<>> /\ seeking = {}
  /\ asked = 0 /\ timeline = {} 
  /\ inputs = 0

Inputs ==
  \/ \E a \in App, x \in Title \cup {Unknown}, full \in BOOLEAN : PlaySong(a, x, full)
  \/ ChangeDetail \/ ClosePlayer \/ SwitchListening \/ ChangeSettings
  \/ \E p \in Position : RequestSeek(p)

Playback == SongAdvances \/ ReportPosition

Lyrics == \E t \in lyricTasks, found \in BOOLEAN : FinishLyrics(t, found)
Poll   == \/ PollSettings \/ TakeSeek \/ ConfirmSeek \/ RefuseSeek
          \/ SkipUpdate \/ ClearInfo \/ (\E fresh \in BOOLEAN : UpdateInfo(fresh))

MediaInfoNext == Inputs \/ Playback \/ ShowSeek \/ GuardRunsOut \/ Lyrics \/ Poll

(* The threads run, the guard's time passes, and an update is due in every *)
(* 300 ms, a read of the timeline in every 500.  A player that plays goes  *)
(* on to tell where it is, and one that is paused where it stopped.        *)
MediaInfoSpec ==
  /\ MediaInfoInit /\ [][MediaInfoNext]_mediaInfoVars
  /\ WF_mediaInfoVars(Poll)
  /\ WF_mediaInfoVars(ShowSeek) /\ WF_mediaInfoVars(GuardRunsOut)
  /\ SF_mediaInfoVars(UpdateInfo(TRUE)) /\ WF_mediaInfoVars(ReportPosition)

-----------------------------------------------------------------------------
(* Types: MediaInfo, ThumbnailWorkerState, the locals of smtc_poll_loop.   *)
MediaInfoTypeOK ==
  /\ info.app \in App \cup {Unknown} /\ info.title \in Title \cup {Unknown}
  /\ info.track \in 0..tracks /\ info.pos \in Position /\ info.smtc \in Position
  /\ info.guard \in {"none", "set", "late"}
  /\ poll \in {"settings", "seek", "sought", "refused", "update"}
  /\ seeking \subseteq Position /\ asked \in Position

(* Lyrics that are shown are those of the song that is shown, looked for   *)
(* with all that is known of it and with the settings in force, although a *)
(* fetch takes longer than songs, settings and listening last              *)
(* (LyricsFetchRequest::matches).                                          *)
LyricsAreCurrent ==
  info.title # Unknown => \A l \in info.lyrics :
    l.track = info.track /\ l.named = info.named /\ l.settings = settings

Follows == enabled /\ info.title # Unknown
             /\ <<info.app, info.title>> = <<player.app, player.title>>

(* Whatever seeks were shown before they were refused, ignored or done, and*)
(* though a refusal brings an old position back, the position shown is     *)
(* where the song is again, in the end, if the player goes on to tell where*)
(* that is (sync_timeline, apply_seek, reject_seek).                       *)
PositionFollows == []<>(Follows => info.pos = player.pos)

=============================================================================
