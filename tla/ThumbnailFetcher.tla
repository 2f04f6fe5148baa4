--------------------------- MODULE ThumbnailFetcher ---------------------------
(***************************************************************************)
(* The cover of the song that plays: a thread fetches it for the media     *)
(* worker, which ends the thread when the island stops listening and waits *)
(* for it.                                                                 *)
(*                                                                         *)
(* Code: ThumbnailFetcher, fetch_thumbnail and publish_thumbnail in        *)
(* src/core/smtc/properties.rs; the worker's loop is that of MediaInfo,    *)
(* with what touches covers.                                               *)
(***************************************************************************)
EXTENDS Naturals

CONSTANTS
  Tune,        \* what players play
  MaxTunes     \* how often a player or the user changes something

(* The song of a session that plays none (a name, for the provers).        *)
Silence == ""
ASSUME TuneAssumption == MaxTunes \in Nat /\ Silence \notin Tune

VARIABLES
  playing,     \* what the session plays ("": nothing)
  shown,       \* of the MediaInfo: track_id, the song and its cover, if there
  lastTrack,   \* NEXT_TRACK_ID - 1
  wish,        \* enabled_tx
  loop,        \* where smtc_poll_loop is
  listening,   \* its copy of `wish'
  thread,      \* where the thread is
  request,     \* ThumbnailWorkerState.request (a set of at most one)
  closed,      \* ThumbnailWorkerState.closed
  loading,     \* the request the thread has taken
  loaded,      \* and its cover
  changed      \* how much has changed

worker_vars == <<loop, listening, lastTrack>>
thread_vars == <<thread, request, closed, loading, loaded>>
coverVars   == <<playing, shown, wish, changed, worker_vars, thread_vars>>

-----------------------------------------------------------------------------
Nothing == [track |-> 0, tune |-> Silence, cover |-> {}]

(* A cover carries the track that it was asked for, and its song.          *)
CoverOf(s) == [track |-> s.track, tune |-> s.tune]

Change == changed < MaxTunes /\ changed' = changed + 1

PlayTune(x) ==
  /\ Change /\ x # playing /\ playing' = x
  /\ UNCHANGED <<shown, wish, worker_vars, thread_vars>>

SwitchCovers ==
  /\ Change /\ wish' = ~wish
  /\ UNCHANGED <<playing, shown, worker_vars, thread_vars>>

-----------------------------------------------------------------------------
(* The media worker.                                                       *)

(* notify_one reaches the thread only if it waits.                         *)
Notify == thread' = IF thread = "waits" THEN "top" ELSE thread

StartFetcher ==
  /\ loop = "poll" /\ wish /\ ~listening /\ listening' = TRUE
  /\ thread' = "top" /\ closed' = FALSE /\ request' = {}
  /\ UNCHANGED <<playing, shown, wish, changed, loop, lastTrack, loading, loaded>>

(* ThumbnailFetcher::drop: `closed' is stored without the lock.            *)
CloseFetcher ==
  /\ loop = "poll" /\ ~wish /\ listening /\ listening' = FALSE
  /\ loop' = "join" /\ closed' = TRUE /\ Notify
  /\ UNCHANGED <<playing, shown, wish, changed, lastTrack, request, loading, loaded>>

JoinFetcher ==
  /\ loop = "join" /\ thread = "ended" /\ loop' = "poll"
  /\ shown' = Nothing
  /\ UNCHANGED <<playing, wish, changed, listening, lastTrack, thread_vars>>

(* fetch_properties: a new track, or one whose cover is still missing and  *)
(* is asked for again when the playback changes or every five seconds; and *)
(* the track goes when its player does.                                    *)
ReadTune ==
  /\ loop = "poll" /\ listening
  /\ IF playing = Silence THEN shown' = Nothing /\ UNCHANGED <<loop, lastTrack>>
     ELSE IF playing # shown.tune
     THEN /\ shown' = [track |-> lastTrack + 1, tune |-> playing, cover |-> {}]
          /\ lastTrack' = lastTrack + 1 /\ loop' = "ask"
     ELSE shown.cover = {} /\ loop' = "ask" /\ UNCHANGED <<shown, lastTrack>>
  /\ UNCHANGED <<playing, wish, changed, listening, thread_vars>>

(* ThumbnailFetcher::request, which replaces a request that waits; the lock*)
(* is the thread's from its check until it waits.                          *)
RequestCover ==
  /\ loop = "ask" /\ loop' = "poll" /\ thread # "checked"
  /\ request' = {CoverOf(shown)} /\ Notify
  /\ UNCHANGED <<playing, shown, wish, changed, listening, lastTrack, closed, loading, loaded>>

-----------------------------------------------------------------------------
(* The thread.                                                             *)

CheckRequest ==
  /\ thread = "top"
  /\ IF closed THEN thread' = "ended" /\ UNCHANGED <<request, loading>>
     ELSE IF request = {} THEN thread' = "checked" /\ UNCHANGED <<request, loading>>
     ELSE thread' = "loads" /\ loading' = request /\ request' = {}
  /\ UNCHANGED <<playing, shown, wish, changed, worker_vars, closed, loaded>>

WaitForRequest ==
  /\ thread = "checked" /\ thread' = "waits"
  /\ UNCHANGED <<playing, shown, wish, changed, worker_vars, request, closed, loading, loaded>>

(* thumbnail_request_is_current, and publish_thumbnail's condition.        *)
Missing(r) == shown.track = r.track /\ shown.cover = {}

(* The session refuses when it plays something else by now.                *)
LoadCover ==
  /\ thread = "loads" /\ \E r \in loading : Missing(r) /\ playing = r.tune
  /\ thread' = "publishes" /\ loaded' = loading
  /\ UNCHANGED <<playing, shown, wish, changed, worker_vars, request, closed, loading>>

(* No longer current, refused, too large, or failed ten times.             *)
GiveUp ==
  /\ thread = "loads" /\ thread' = "top" /\ loading' = {}
  /\ UNCHANGED <<playing, shown, wish, changed, worker_vars, request, closed, loaded>>

(* Faulty: what is shown is not looked at again after the download.        *)
CoverUnchecked(r) == [shown EXCEPT !.cover = {r}]
WithCover(r)      == IF Missing(r) THEN [shown EXCEPT !.cover = {r}] ELSE shown

PublishCover ==
  /\ thread = "publishes" /\ thread' = "top"
  /\ \E r \in loaded : shown' = WithCover(r)
  /\ loading' = {} /\ loaded' = {}
  /\ UNCHANGED <<playing, wish, changed, worker_vars, request, closed>>

-----------------------------------------------------------------------------
CoverInit ==
  /\ playing = Silence /\ shown = Nothing /\ lastTrack = 0 /\ wish = TRUE
  /\ loop = "poll" /\ listening = TRUE
  /\ thread = "top" /\ request = {} /\ closed = FALSE /\ loading = {} /\ loaded = {}
  /\ changed = 0

CoverLoop   == StartFetcher \/ CloseFetcher \/ JoinFetcher \/ ReadTune \/ RequestCover
CoverThread == CheckRequest \/ WaitForRequest \/ LoadCover \/ GiveUp \/ PublishCover

CoverNext ==
  \/ \E x \in Tune \cup {Silence} : PlayTune(x)
  \/ SwitchCovers \/ CoverLoop \/ CoverThread

(* Both threads run, and the loop comes back to the channel of `wish'.     *)
CoverSpec ==
  /\ CoverInit /\ [][CoverNext]_coverVars
  /\ WF_coverVars(CoverThread) /\ WF_coverVars(JoinFetcher)
  /\ WF_coverVars(RequestCover) /\ SF_coverVars(StartFetcher) /\ SF_coverVars(CloseFetcher)

-----------------------------------------------------------------------------
(* Types: ThumbnailWorkerState and what its two threads keep.              *)
CoverTypeOK ==
  /\ playing \in Tune \cup {Silence} /\ shown.tune \in Tune \cup {Silence}
  /\ shown.track \in 0..lastTrack
  /\ loop \in {"poll", "ask", "join"} /\ listening \in BOOLEAN /\ wish \in BOOLEAN
  /\ thread \in {"top", "checked", "waits", "loads", "publishes", "ended"}
  /\ closed \in BOOLEAN /\ loaded \subseteq loading

(* A cover that is shown belongs to the track that is shown, although the  *)
(* download outlasts songs (publish_thumbnail looks at the track again).   *)
CoverIsCurrent == \A c \in shown.cover : c = CoverOf(shown)

(* What the docs say of the worker: it polls the session's properties every*)
(* 300 ms.  It does not once it waits for a thread that missed the one     *)
(* notification of its end.                                                *)
PollsGoOn == []<>(loop = "poll")
=============================================================================
