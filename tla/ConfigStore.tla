----------------------------- MODULE ConfigStore -----------------------------
(***************************************************************************)
(* config.toml and the copies of it: the island's, which follows the file  *)
(* by its modification time; the settings window's, read once when it      *)
(* opens; and those of the media worker and the guide, which load, change  *)
(* and save. Saving writes a temporary file and renames it.                *)
(*   crates/winisland-core/src/persistence.rs                              *)
(*   src/window/app/{system,input,events}.rs, src/window/app.rs            *)
(*   src/window/settings/mod.rs, src/core/smtc/session.rs                  *)
(***************************************************************************)
EXTENDS Naturals, Sequences, FiniteSets

CONSTANTS MaxChanges,   \* changes made by the user and the worker together
          MaxTrouble    \* failed reads and writes, edits by hand, and crashes

ASSUME ConfigAssumption == MaxChanges \in Nat /\ MaxTrouble \in Nat

\* What the properties tell apart in a configuration: the parts that the settings
\* window, dragging, the media worker, the guide and the widgets of plugins change.
\* Defaults are zeros.
Part == {"preference", "position", "apps", "guide", "layout"}
Config == [Part -> Nat]
Defaults == [part \in Part |-> 0]

VARIABLES
  file,      \* config.toml: its contents and its modification time
  preserved, \* an unparsable file has been copied aside
  app,       \* App::config
  last_modified, \* App::last_config_modified
  dragging,  \* App::is_right_dragging: app differs from what is saved
  window,    \* SettingsApp::config, or <<>> when there is no window
  turn,      \* per thread: what it is doing with a configuration
  changes, trouble,
  estranged  \* history: a failed read or write has parted app from the file

actors == {"ui", "worker"}
configVars == <<file, preserved, app, last_modified, dragging, window, turn, changes, trouble,
                estranged>>

Idle == [at |-> "idle", values |-> << >>, next |-> "idle"]
\* save_config_at of one value after the other, and then `next`: back to idle, or on
\* with the last one.
Saving(values, next) ==
  IF values = << >> THEN Idle ELSE [at |-> "write", values |-> values, next |-> next]
Holding(value) == [at |-> "holding", values |-> <<value>>, next |-> "idle"]

ConfigInit ==
  /\ file = [state |-> "valid", value |-> [part \in Part |-> 1], time |-> 1]
  /\ preserved = FALSE
  /\ app = file.value /\ last_modified = 1
  /\ dragging = FALSE
  /\ window = << >>
  /\ turn = [a \in actors |-> Idle]
  /\ changes = 0 /\ trouble = 0
  /\ estranged = FALSE

----------------------------------------------------------------------------
(* load_config_at and save_config_at. *)

\* The outcomes of a load: the configuration, whether it is saved at once, and
\* what became of the rest. A file of an older version is migrated and saved; an
\* unparsable one is copied aside and replaced by the defaults, or, if it cannot
\* be copied, left alone; so is one that cannot be read.
LoadOutcomes ==
  CASE file.state = "valid"   -> {[value |-> file.value, save |-> FALSE, copy |-> FALSE]}
    [] file.state = "old"     -> {[value |-> file.value, save |-> TRUE, copy |-> FALSE]}
    [] file.state = "missing" -> {[value |-> Defaults, save |-> TRUE, copy |-> FALSE]}
    [] file.state = "invalid" -> {[value |-> Defaults, save |-> c, copy |-> c] : c \in BOOLEAN}
Unreadable == [value |-> Defaults, save |-> FALSE, copy |-> FALSE]

\* One outcome; a read that fails is trouble.
Load(outcome) ==
  /\ \/ outcome \in LoadOutcomes /\ UNCHANGED trouble
     \/ /\ outcome = Unreadable
        /\ trouble < MaxTrouble
        /\ trouble' = trouble + 1
  /\ preserved' = (preserved \/ outcome.copy)
SavedBy(outcome) == IF outcome.save THEN <<outcome.value>> ELSE << >>

\* Faulty: the file is truncated and written in place.
FaultyWriteTemporary(a) ==
  /\ turn[a].at = "write"
  /\ file' = [file EXCEPT !.state = "invalid", !.time = @ + 1]
  /\ turn' = [turn EXCEPT ![a].at = "rename"]
  /\ UNCHANGED <<preserved, app, last_modified, dragging, window, changes, trouble, estranged>>

\* write_config_atomically: the temporary file, with a name of its own, is
\* written and synced ...
WriteTemporary(a) ==
  /\ turn[a].at = "write"
  /\ turn' = [turn EXCEPT ![a].at = "rename"]
  /\ UNCHANGED <<file, preserved, app, last_modified, dragging, window, changes, trouble,
                 estranged>>

Done(a) ==
  turn' = [turn EXCEPT ![a] = IF Len(@.values) > 1 THEN Saving(Tail(@.values), @.next)
                              ELSE IF @.next = "idle" THEN Idle ELSE Holding(@.values[1])]

\* ... and renamed over the file.
Rename(a) ==
  /\ turn[a].at = "rename"
  /\ file' = [state |-> "valid", value |-> turn[a].values[1], time |-> file.time + 1]
  /\ Done(a)
  /\ UNCHANGED <<preserved, app, last_modified, dragging, window, changes, trouble, estranged>>

\* An error of either removes the temporary file and is logged.
FailSave(a) ==
  /\ turn[a].at \in {"write", "rename"}
  /\ trouble < MaxTrouble
  /\ trouble' = trouble + 1
  /\ estranged' = (estranged \/ a = "ui")
  /\ Done(a)
  /\ UNCHANGED <<file, preserved, app, last_modified, dragging, window, changes>>

----------------------------------------------------------------------------
(* The island. *)

UiFree == turn["ui"].at = "idle"
Changed(value, part) == [value EXCEPT ![part] = @ + 1]
OneChange == changes < MaxChanges /\ changes' = changes + 1

\* Faulty: the time is taken after the file has been read, when the worker may
\* have saved once more.
FaultyReloadConfig ==
  /\ UiFree
  /\ file.time # last_modified
  /\ \E outcome \in LoadOutcomes :
       /\ app' = outcome.value
       /\ turn' = [turn EXCEPT !["ui"] = Saving(SavedBy(outcome), "idle")]
       /\ preserved' = (preserved \/ outcome.copy)
  /\ last_modified' = IF turn["worker"].at = "rename" THEN file.time + 1 ELSE file.time
  /\ UNCHANGED <<file, dragging, window, changes, trouble, estranged>>

\* reload_config_if_changed, twice a second: the modification time is taken
\* before the file is read.
ReloadConfig ==
  /\ UiFree
  /\ file.time # last_modified
  /\ last_modified' = file.time
  /\ \E outcome \in LoadOutcomes \cup {Unreadable} :
       /\ Load(outcome)
       /\ app' = outcome.value
       /\ turn' = [turn EXCEPT !["ui"] = Saving(SavedBy(outcome), "idle")]
       /\ estranged' = (~outcome.save /\ (file.state = "invalid" \/ outcome.value # file.value))
  /\ UNCHANGED <<file, dragging, window, changes>>

\* update_right_drag moves the island; the release of the button saves App::config.
Drag ==
  /\ UiFree
  /\ OneChange
  /\ dragging' = TRUE
  /\ app' = Changed(app, "position")
  /\ UNCHANGED <<file, preserved, last_modified, window, turn, trouble, estranged>>

DragEnd ==
  /\ UiFree
  /\ dragging
  /\ dragging' = FALSE
  /\ turn' = [turn EXCEPT !["ui"] = Saving(<<app>>, "idle")]
  /\ UNCHANGED <<file, preserved, app, last_modified, window, changes, trouble, estranged>>

\* migrate_legacy_dock_position, after a reload or at the start: an old file says where
\* the island docks, and not where it is.
MigrateDock ==
  /\ UiFree
  /\ OneChange
  /\ app' = Changed(app, "position")
  /\ turn' = [turn EXCEPT !["ui"] = Saving(<<app'>>, "idle")]
  /\ UNCHANGED <<file, preserved, last_modified, dragging, window, trouble, estranged>>

\* normalize_active_plugin_widget_layout of what has been loaded: as it is, or with
\* another layout, and then it is saved once more.
Normalized(value) == {value, Changed(value, "layout")}
SaveNormalized(outcome, value) ==
  /\ IF value = outcome.value THEN UNCHANGED changes ELSE OneChange
  /\ turn' = [turn EXCEPT !["ui"] =
       Saving(SavedBy(outcome) \o IF value = outcome.value THEN << >> ELSE <<value>>, "idle")]

\* The widgets of plugins have changed: the island takes the layout, and nothing
\* else, of what it loads (src/window/app/events.rs).
ChangeWidgets ==
  /\ UiFree
  /\ \E outcome \in LoadOutcomes \cup {Unreadable} : \E value \in Normalized(outcome.value) :
       /\ Load(outcome)
       /\ app' = [app EXCEPT !["layout"] = value["layout"]]
       /\ SaveNormalized(outcome, value)
       /\ estranged' = (estranged \/ (turn'["ui"] = Idle /\ app'["layout"] # file.value["layout"]))
  /\ UNCHANGED <<file, last_modified, dragging, window>>

\* close_guide: load, mark the guide as done in the file and in the island, save.
CloseGuide ==
  /\ UiFree
  /\ OneChange
  /\ app["guide"] = 1
  /\ app' = Changed(app, "guide")
  /\ \E outcome \in LoadOutcomes \cup {Unreadable} :
       /\ Load(outcome)
       /\ LET done == [outcome.value EXCEPT !["guide"] = app["guide"] + 1]
          IN turn' = [turn EXCEPT !["ui"] = Saving(Append(SavedBy(outcome), done), "idle")]
  /\ UNCHANGED <<file, last_modified, dragging, window, estranged>>

----------------------------------------------------------------------------
(* The settings window, on the UI thread, and the media worker. *)

\* open_settings gives the window a copy of the file.
OpenSettings ==
  /\ UiFree
  /\ window = << >>
  /\ \E outcome \in LoadOutcomes \cup {Unreadable} : \E value \in Normalized(outcome.value) :
       /\ Load(outcome)
       /\ window' = <<value>>
       /\ SaveNormalized(outcome, value)
  /\ UNCHANGED <<file, app, last_modified, dragging, estranged>>

\* persist_settings_change saves the window's copy.
ChangeSetting ==
  /\ UiFree
  /\ window # << >>
  /\ OneChange
  /\ window' = <<Changed(window[1], "preference")>>
  /\ turn' = [turn EXCEPT !["ui"] = Saving(window', "idle")]
  /\ UNCHANGED <<file, preserved, app, last_modified, dragging, trouble, estranged>>

CloseSettings ==
  /\ UiFree
  /\ window # << >>
  /\ window' = << >>
  /\ UNCHANGED <<file, preserved, app, last_modified, dragging, turn, changes, trouble,
                 estranged>>

\* auto_allow_new_apps, when a session of an unknown application plays: load ...
RecordApp ==
  /\ turn["worker"].at = "idle"
  /\ OneChange
  /\ \E outcome \in LoadOutcomes \cup {Unreadable} :
       /\ Load(outcome)
       /\ turn' = [turn EXCEPT !["worker"] =
                     IF outcome.save THEN Saving(SavedBy(outcome), "holding")
                     ELSE Holding(outcome.value)]
  /\ UNCHANGED <<file, app, last_modified, dragging, window, estranged>>

\* ... and change and save, unless the application is there already.
SaveApp ==
  /\ turn["worker"].at = "holding"
  /\ turn' \in {[turn EXCEPT !["worker"] = Saving(<<Changed(@.values[1], "apps")>>, "idle")],
               [turn EXCEPT !["worker"] = Idle]}
  /\ UNCHANGED <<file, preserved, app, last_modified, dragging, window, changes, trouble,
                 estranged>>

----------------------------------------------------------------------------
(* The surroundings. *)

\* Somebody edits, breaks or removes the file, or brings one of an old version.
Edit ==
  /\ trouble < MaxTrouble
  /\ trouble' = trouble + 1
  /\ \E state \in {"valid", "old", "invalid", "missing"} :
       file' = [state |-> state, value |-> Changed(file.value, "preference"),
                time |-> file.time + 1]
  /\ UNCHANGED <<preserved, app, last_modified, dragging, window, turn, changes, estranged>>

\* The program ends anywhere and starts again: App::default loads the file and
\* takes its time afterwards, before any other thread runs.
Restart ==
  /\ trouble < MaxTrouble
  /\ trouble' = trouble + 1
  /\ \E outcome \in LoadOutcomes :
       /\ preserved' = (preserved \/ outcome.copy)
       /\ app' = outcome.value
       /\ turn' = [a \in actors |-> IF a = "ui" THEN Saving(SavedBy(outcome), "idle") ELSE Idle]
       /\ estranged' = (~outcome.save /\ file.state = "invalid")
  /\ last_modified' = file.time
  /\ dragging' = FALSE
  /\ window' = << >>
  /\ UNCHANGED <<file, changes>>

----------------------------------------------------------------------------
SaveStep(a) == WriteTemporary(a) \/ Rename(a)
ConfigNext == \/ \E a \in actors : SaveStep(a) \/ FailSave(a)
              \/ ReloadConfig \/ Drag \/ DragEnd \/ MigrateDock \/ ChangeWidgets \/ CloseGuide
              \/ OpenSettings \/ ChangeSetting \/ CloseSettings
              \/ RecordApp \/ SaveApp
              \/ Edit \/ Restart

ConfigSpec == ConfigInit /\ [][ConfigNext]_configVars

----------------------------------------------------------------------------
(* Properties. *)

ConfigTypeOK ==
  /\ file \in [state : {"valid", "old", "invalid", "missing"}, value : Config, time : Nat]
  /\ app \in Config /\ last_modified \in Nat
  /\ window = << >> \/ window[1] \in Config

\* The file changes from one whole configuration to another: whatever the two
\* threads save at the same time and wherever the program ends, what a start
\* finds is a value somebody handed to save_config, or somebody's edit
\* (crates/winisland-core/src/persistence.rs:255-288).
SavesAreWhole ==
  [][trouble' = trouble =>
       \/ file' = file
       \/ \E a \in actors : turn[a].at = "rename" /\ file'.value = turn[a].values[1]
                              /\ file'.state = "valid"]_file

\* The island catches up with the file, whoever wrote it and however that falls
\* together with its own saves and reads (src/window/app/system.rs:594-632).
Settled == dragging \/ estranged \/ app = file.value
IslandFollows == []<>Settled
=============================================================================
