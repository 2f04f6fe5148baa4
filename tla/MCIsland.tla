------------------------------ MODULE MCIsland ------------------------------
(* What the island shows and keeps: which player it follows, the song, its *)
(* cover, the notifications, the configuration and the order of the pages. *)
(* They share no variable: a behaviour is one of one of them, and the      *)
(* others rest.  The song is looked at twice: what is known of it and its  *)
(* lyrics, without seeks; and where it is, with songs known in full.       *)
EXTENDS MediaSelection, MediaInfo, ThumbnailFetcher, Notifications, ConfigStore, PageOrder

VARIABLE machine

islandVars == <<machine, vars, mediaInfoVars, coverVars, noteVars, configVars, pageVars>>

IslandInit ==
  /\ machine \in {"selection", "song", "seeks", "cover", "notes", "config", "pages"}
  /\ Init /\ MediaInfoInit /\ CoverInit /\ NotesInit /\ ConfigInit
  /\ PagesInit
  /\ machine \notin {"song", "seeks"} => player = NoPlayer
  /\ machine = "seeks" => player.named = (player # NoPlayer)
  /\ machine # "notes" => permission = "allowed" /\ events = "wnf"

InSelection(A) == machine = "selection" /\ A
                  /\ UNCHANGED <<machine, mediaInfoVars, coverVars, noteVars, configVars, pageVars>>
InSong(A)   == machine \in {"song", "seeks"} /\ A
               /\ UNCHANGED <<machine, vars, coverVars, noteVars, configVars, pageVars>>
InCover(A)  == machine = "cover" /\ A
               /\ UNCHANGED <<machine, vars, mediaInfoVars, noteVars, configVars, pageVars>>
InNotes(A)  == machine = "notes" /\ A
               /\ UNCHANGED <<machine, vars, mediaInfoVars, coverVars, configVars, pageVars>>
InConfig(A) == machine = "config" /\ A
               /\ UNCHANGED <<machine, vars, mediaInfoVars, coverVars, noteVars, pageVars>>
InPages(A)  == machine = "pages" /\ A
               /\ UNCHANGED <<machine, vars, mediaInfoVars, coverVars, noteVars, configVars>>

(* The threads never take either of these choices back.                    *)
Lookup == machine = "song" => player'.pos = 0 /\ seeking' = {}
Seeks  == machine = "seeks" => /\ settingsSent' = <<>> /\ lyricTasks \subseteq lyricTasks'
                               /\ player'.named = (player' # NoPlayer)

IslandNext == \/ InSelection(Next) \/ InSong(MediaInfoNext /\ Lookup /\ Seeks) \/ InCover(CoverNext)
              \/ InNotes(NotesNext) \/ InConfig(ConfigNext) \/ InPages(PagesNext)

(* The fairness of FairSpec, MediaInfoSpec and NotesSpec.  The event loop  *)
(* polls the configuration's file, and a thread that saves goes on.        *)
IslandSpec ==
  /\ IslandInit /\ [][IslandNext]_islandVars
  /\ WF_islandVars(InSelection(Frame)) /\ WF_islandVars(InSelection(Worker))
  /\ WF_islandVars(InSong(Poll)) /\ WF_islandVars(InSong(ShowSeek))
  /\ WF_islandVars(InSong(GuardRunsOut)) /\ WF_islandVars(InSong(ReportPosition))
  /\ SF_islandVars(InSong(UpdateInfo(TRUE)))
  /\ WF_islandVars(InNotes(FeedFrame)) /\ WF_islandVars(InNotes(SignalDelivery))
  /\ WF_islandVars(InNotes(ReadCentre))
  /\ WF_islandVars(InConfig(ReloadConfig)) /\ WF_islandVars(InConfig(SaveApp))
  /\ WF_islandVars(InConfig(SaveStep("ui"))) /\ WF_islandVars(InConfig(SaveStep("worker")))
=============================================================================
