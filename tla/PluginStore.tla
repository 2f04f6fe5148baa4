---------------------------- MODULE PluginStore ----------------------------
(***************************************************************************)
(* The files of one plugin, and who moves them: installing or updating it  *)
(* (a background extraction, then an activation on the UI thread), removing*)
(* it, enabling and disabling it, and loading it at the start. Every step  *)
(* of these operations on the file system is an action of its own, any of  *)
(* them may fail, and the process may stop between any two of them.        *)
(*   crates/winisland-plugin-host/src/host.rs                              *)
(*   crates/winisland-plugin-package/src/activate.rs                       *)
(*   src/plugin/inventory.rs, src/window/app/{system,frame}.rs             *)
(***************************************************************************)
EXTENDS Naturals, Sequences, FiniteSets

CONSTANTS MaxHidden,    \* hidden directories that exist at a time
          MaxVersion,   \* packages the user ever installs
          MaxStops      \* times the process stops

ASSUME StoreAssumption == /\ MaxHidden \in Nat /\ MaxVersion \in Nat /\ MaxStops \in Nat

\* Where the plugin can be: its directory, a DLL put there by hand, and
\* directories whose name begins with a dot (staging, backup, uninstall).
Destination == 0
LooseDll == 1
Hidden == 2..(MaxHidden + 1)
Place == 0..(MaxHidden + 1)

File == {"manifest", "entry"}
Absent == [version |-> 0, files |-> {}]
Nothing == [p \in Place |-> Absent]
Visible == {Destination, LooseDll}

VARIABLES
  disk,        \* what is at each place: a version, and which files of it
  disabled,    \* the plugin is on the list of disabled plugins
  loaded,      \* version of the entry in PluginHost::entries (0: none) ...
  loadedFrom,  \* ... and the place its path begins with
  extraction,  \* the background job behind App::pending_install
  manager,     \* where the UI thread is in an operation
  op,          \* the local variables of that operation
  newest,      \* versions handed out so far
  stops,       \* times the process has stopped
  kept,        \* history: a version was installed and its removal has not been decided
  interfered   \* history: a removal took the directory of an extraction under way

entries == <<loaded, loadedFrom>>
counters == <<newest, stops>>
storeHistory == <<kept, interfered>>
storeVars == <<disk, disabled, loaded, loadedFrom, extraction, manager, op, newest, stops, kept,
               interfered>>

NoExtraction == [at |-> "idle", version |-> 0, dir |-> 0, left |-> {}]
NoOp == [version |-> 0, staging |-> 0, backup |-> 0, previous |-> 0, wasLoaded |-> FALSE,
         targets |-> {}, moved |-> << >>, before |-> [p \in Visible |-> Absent], clean |-> TRUE]

Exists(p) == disk[p] # Absent
Whole(p) == disk[p].files = File

\* `path.starts_with(destination)` and the two kinds of uninstall targets; the
\* hidden directories are not left out of the latter.
Targets == {p \in Place \ {LooseDll} : "manifest" \in disk[p].files}
             \cup {p \in {LooseDll} : Exists(p)}

\* A name that no one has used: it differs from every directory there is and
\* from those the extraction and the operation still refer to.
Fresh == Hidden \ ({p \in Hidden : Exists(p)} \cup {extraction.dir, op.staging, op.backup}
                     \cup {op.moved[i][1] : i \in 1..Len(op.moved)})
NewName == CHOOSE p \in Fresh : TRUE

\* std::fs::rename of a directory onto one that exists fails; every other rename
\* may fail too.
CanRename(from, to) == Exists(from) /\ ~Exists(to)
Renamed(from, to) == [disk EXCEPT ![to] = disk[from], ![from] = Absent]

\* What is left of `p` by std::fs::remove_dir_all, which can fail anywhere.
Remains(p) == {[disk EXCEPT ![p] = Absent]}
                \cup {[disk EXCEPT ![p].files = rest] : rest \in SUBSET disk[p].files}

StoreInit ==
  /\ disk = Nothing
  /\ disabled = FALSE
  /\ loaded = 0 /\ loadedFrom = 0
  /\ extraction = NoExtraction
  /\ manager = "idle" /\ op = NoOp
  /\ newest = 0 /\ stops = 0
  /\ kept = FALSE /\ interfered = FALSE

----------------------------------------------------------------------------
(* Loading. *)

\* load_library and load_instance: the code of `p` becomes an entry, or the
\* instance fails to start and leaves nothing, or it fails and refuses to stop,
\* and is an entry although the load is an error.
LoadFrom(p) ==
  /\ loaded = 0
  /\ ~disabled
  /\ "entry" \in disk[p].files
  /\ loaded' = disk[p].version
  /\ loadedFrom' = p
DoNotLoad == UNCHANGED entries

\* unload_if_loaded, when the instance agrees to stop.
UnloadInstance == loaded' = 0 /\ loadedFrom' = 0

\* PluginHost::load_all: what is not hidden, in the order of the directory; of two copies
\* the first one wins. A loose DLL has no manifest to agree with.
LoadAll ==
  /\ manager = "down"
  /\ manager' = "idle"
  /\ \/ \E p \in Visible :
          /\ p = Destination => "manifest" \in disk[p].files
          /\ LoadFrom(p)
     \/ DoNotLoad
  /\ UNCHANGED <<disk, disabled, extraction, op, counters, storeHistory>>

\* The process ends, in whatever it is doing.
Stop ==
  /\ manager # "down"
  /\ stops < MaxStops
  /\ stops' = stops + 1
  /\ manager' = "down"
  /\ op' = NoOp
  /\ extraction' = NoExtraction
  /\ UnloadInstance
  /\ UNCHANGED <<disk, disabled, newest, storeHistory>>

\* The user copies a DLL into the plugin directory while the program is down.
DropLooseDll ==
  /\ manager = "down"
  /\ ~Exists(LooseDll)
  /\ newest < MaxVersion
  /\ newest' = newest + 1
  /\ disk' = [disk EXCEPT ![LooseDll] = [version |-> newest', files |-> {"entry"}]]
  /\ UNCHANGED <<disabled, entries, extraction, manager, op, stops, storeHistory>>

\* PluginManager::set_plugin_enabled: the list only, the plugin runs on until
\* the next start.
SetEnabled ==
  /\ manager = "idle"
  /\ \E p \in Visible : "entry" \in disk[p].files
  /\ disabled' = ~disabled
  /\ UNCHANGED <<disk, entries, extraction, manager, op, counters, storeHistory>>

\* drain_failed_plugins: to persist the list and to stop the plugin can each fail.
DrainFailed ==
  /\ manager = "idle"
  /\ loaded # 0
  /\ disabled' \in {disabled, TRUE}
  /\ UnloadInstance \/ DoNotLoad
  /\ UNCHANGED <<disk, extraction, manager, op, counters, storeHistory>>

----------------------------------------------------------------------------
(* extract_plugin, on a thread of its own. *)

\* install_zip_drop, and the extraction as far as its new staging directory.
BeginExtraction ==
  /\ manager = "idle"
  /\ extraction.at = "idle"
  /\ newest < MaxVersion
  /\ Fresh # {}
  /\ newest' = newest + 1
  /\ extraction' = [at |-> "writing", version |-> newest', dir |-> NewName, left |-> File]
  /\ disk' = [disk EXCEPT ![NewName] = [version |-> newest', files |-> {}]]
  /\ UNCHANGED <<disabled, entries, manager, op, stops, storeHistory>>

\* One file of the archive, in the archive's order. create_dir_all(parent) makes
\* the staging directory again if someone has moved it.
Extract(f) ==
  /\ extraction.at = "writing"
  /\ f \in extraction.left
  /\ extraction' = [extraction EXCEPT !.left = @ \ {f}]
  /\ disk' = [disk EXCEPT ![extraction.dir] =
                [version |-> extraction.version, files |-> @.files \cup {f}]]
  /\ UNCHANGED <<disabled, entries, manager, op, counters, storeHistory>>

\* Faulty: the error of an entry is skipped, and the loop goes on.
FaultyFinishExtraction ==
  /\ extraction.at = "writing"
  /\ "entry" \in disk[extraction.dir].files
  /\ extraction' = [extraction EXCEPT !.at = "extracted", !.left = {}]
  /\ UNCHANGED <<disk, disabled, entries, manager, op, counters, storeHistory>>

\* The last check: the entry DLL is there.
FinishExtraction ==
  /\ extraction.at = "writing"
  /\ extraction.left = {}
  /\ "entry" \in disk[extraction.dir].files
  /\ extraction' = [extraction EXCEPT !.at = "extracted"]
  /\ UNCHANGED <<disk, disabled, entries, manager, op, counters, storeHistory>>

\* Any error removes the staging directory.
FailExtraction ==
  /\ extraction.at = "writing"
  /\ disk' \in Remains(extraction.dir)
  /\ extraction' = [extraction EXCEPT !.at = "failed", !.left = {}]
  /\ UNCHANGED <<disabled, entries, manager, op, counters, storeHistory>>

\* poll_pending_plugin_install meets an error.
PollFailure ==
  /\ manager = "idle"
  /\ extraction.at = "failed"
  /\ extraction' = NoExtraction
  /\ UNCHANGED <<disk, disabled, entries, manager, op, counters, storeHistory>>

----------------------------------------------------------------------------
(* activate_staged_plugin, on the UI thread. *)

\* poll_pending_plugin_install meets a result. The staged DLL is opened, the
\* loaded copy must be the packaged one, and it is asked to stop. Its last
\* error is that it refuses; `clean` stays TRUE as nothing has been moved.
BeginActivation ==
  /\ manager = "idle"
  /\ extraction.at = "extracted"
  /\ extraction' = NoExtraction
  /\ op' = [NoOp EXCEPT !.version = extraction.version, !.staging = extraction.dir,
                        !.previous = IF "manifest" \in disk[Destination].files
                                     THEN disk[Destination].version ELSE 0,
                        !.wasLoaded = loaded # 0, !.before = [p \in Visible |-> disk[p]]]
  /\ \/ /\ "entry" \in disk[extraction.dir].files
        /\ loaded # 0 => loadedFrom = Destination
        /\ UnloadInstance
        /\ manager' = IF Exists(Destination) THEN "back_up" ELSE "place"
     \/ /\ \/ "entry" \notin disk[extraction.dir].files
           \/ loaded # 0
        /\ UNCHANGED entries
        /\ manager' = "clean"
  /\ UNCHANGED <<disk, disabled, counters, storeHistory>>

BackUp ==
  /\ manager = "back_up"
  /\ Fresh # {}
  /\ \/ /\ disk' = Renamed(Destination, NewName)
        /\ op' = [op EXCEPT !.backup = NewName]
        /\ manager' = "place"
     \/ manager' = "reload" /\ UNCHANGED <<disk, op>>
  /\ UNCHANGED <<disabled, entries, extraction, counters, storeHistory>>

PlaceNew ==
  /\ manager = "place"
  /\ \/ /\ CanRename(op.staging, Destination)
        /\ disk' = Renamed(op.staging, Destination)
        /\ manager' = "load"
     \/ manager' = "restore" /\ UNCHANGED disk
  /\ UNCHANGED <<disabled, entries, extraction, op, counters, storeHistory>>

\* Faulty: a new version that cannot be stopped is taken back like any other.
FaultyLoadNew ==
  /\ manager = "load"
  /\ \/ LoadFrom(Destination) /\ manager' = "discard" /\ kept' = TRUE
     \/ (LoadFrom(Destination) \/ DoNotLoad) /\ manager' = "take_back" /\ kept' = kept
  /\ UNCHANGED <<disk, disabled, extraction, op, counters, interfered>>

\* The new version is loaded; or it is not; or it failed and cannot be stopped,
\* and then it stays where it is and so does the backup.
LoadNew ==
  /\ manager = "load"
  /\ \/ /\ LoadFrom(Destination)
        /\ \/ manager' = "discard" /\ op' = op /\ kept' = TRUE
           \/ manager' = "clean" /\ op' = [op EXCEPT !.clean = FALSE] /\ kept' = kept
     \/ DoNotLoad /\ manager' = "take_back" /\ UNCHANGED <<op, kept>>
  /\ UNCHANGED <<disk, disabled, extraction, counters, interfered>>

\* Faulty: the new version is taken back, and the old one is forgotten.
FaultyTakeBack ==
  /\ manager = "take_back"
  /\ CanRename(Destination, op.staging)
  /\ disk' = Renamed(Destination, op.staging)
  /\ manager' = "reload"
  /\ UNCHANGED <<disabled, entries, extraction, op, counters, storeHistory>>

\* rollback_new: an error of it does not keep rollback_old from being tried.
TakeBack ==
  /\ manager = "take_back"
  /\ manager' = "restore"
  /\ \/ /\ CanRename(Destination, op.staging)
        /\ disk' = Renamed(Destination, op.staging)
        /\ op' = op
     \/ UNCHANGED disk /\ op' = [op EXCEPT !.clean = FALSE]
  /\ UNCHANGED <<disabled, entries, extraction, counters, storeHistory>>

\* rollback_old, if there was a previous version.
Restore ==
  /\ manager = "restore"
  /\ manager' = "reload"
  /\ \/ /\ op.backup # 0
        /\ CanRename(op.backup, Destination)
        /\ disk' = Renamed(op.backup, Destination)
        /\ op' = op
     \/ /\ op.backup # 0
        /\ UNCHANGED disk
        /\ op' = [op EXCEPT !.clean = FALSE]
     \/ op.backup = 0 /\ UNCHANGED <<disk, op>>
  /\ UNCHANGED <<disabled, entries, extraction, counters, storeHistory>>

\* The previous version is loaded again if it was, against its own manifest.
Reload ==
  /\ manager = "reload"
  /\ manager' = "clean"
  /\ \/ /\ op.wasLoaded
        /\ op.previous \in {0, disk[Destination].version}
        /\ LoadFrom(Destination)
     \/ DoNotLoad
  /\ UNCHANGED <<disk, disabled, extraction, op, counters, storeHistory>>

\* poll_pending_plugin_install removes the staging directory after an error.
CleanStaging ==
  /\ manager = "clean"
  /\ manager' = "idle"
  /\ op' = NoOp
  /\ disk' \in Remains(op.staging)
  /\ UNCHANGED <<disabled, entries, extraction, counters, storeHistory>>

\* The backup of a version that has been replaced; a failure is a warning.
Discard ==
  /\ manager = "discard"
  /\ manager' = "idle"
  /\ op' = NoOp
  /\ \/ op.backup = 0 /\ UNCHANGED disk
     \/ op.backup # 0 /\ disk' \in Remains(op.backup)
  /\ UNCHANGED <<disabled, entries, extraction, counters, storeHistory>>

----------------------------------------------------------------------------
(* PluginManager::uninstall_plugin, on the UI thread. *)

\* The request of the settings window first stops the plugin, or gives up.
BeginRemoval ==
  /\ manager = "idle"
  /\ Targets # {}
  /\ UnloadInstance
  /\ manager' = "remove"
  /\ op' = [NoOp EXCEPT !.targets = Targets, !.before = [p \in Visible |-> disk[p]]]
  /\ UNCHANGED <<disk, disabled, extraction, counters, storeHistory>>

\* Faulty: the targets are deleted where they are, and cannot be put back.
FaultyMoveAside ==
  /\ manager = "remove"
  /\ \E p \in op.targets :
       /\ disk' = [disk EXCEPT ![p] = Absent]
       /\ op' = [op EXCEPT !.targets = @ \ {p}, !.clean = FALSE]
       /\ interfered' = (interfered \/ (extraction.at # "idle" /\ p = extraction.dir))
  /\ UNCHANGED <<disabled, entries, extraction, manager, counters, kept>>

\* One target after the other is moved aside.
MoveAside ==
  /\ manager = "remove"
  /\ \E p \in op.targets :
       /\ Fresh # {}
       /\ CanRename(p, NewName)
       /\ disk' = Renamed(p, NewName)
       /\ op' = [op EXCEPT !.targets = @ \ {p}, !.moved = Append(@, <<p, NewName>>)]
       /\ interfered' = (interfered \/ (extraction.at # "idle" /\ p = extraction.dir))
  /\ UNCHANGED <<disabled, entries, extraction, manager, counters, kept>>

\* Faulty: an error does not move the earlier targets back.
FaultyRemovalFails ==
  /\ manager = "remove"
  /\ manager' = "not_removed"
  /\ UNCHANGED <<disk, disabled, entries, extraction, op, counters, storeHistory>>

\* A rename fails, or after all of them the list cannot be written.
RemovalFails ==
  /\ manager = "remove"
  /\ manager' = "undo"
  /\ UNCHANGED <<disk, disabled, entries, extraction, op, counters, storeHistory>>

\* with_rollback, the last one first.
Undo ==
  /\ manager = "undo"
  /\ IF op.moved = << >>
     THEN manager' = "not_removed" /\ UNCHANGED <<disk, op>>
     ELSE LET last == op.moved[Len(op.moved)]
              shorter == [op EXCEPT !.moved = SubSeq(@, 1, Len(@) - 1)]
          IN /\ manager' = manager
             /\ \/ /\ CanRename(last[2], last[1])
                   /\ disk' = Renamed(last[2], last[1])
                   /\ op' = shorter
                \/ UNCHANGED disk /\ op' = [shorter EXCEPT !.clean = FALSE]
  /\ UNCHANGED <<disabled, entries, extraction, counters, storeHistory>>

\* All targets are aside: the plugin leaves the list, and is gone.
Forget ==
  /\ manager = "remove"
  /\ op.targets = {}
  /\ disabled' = FALSE
  /\ manager' = "delete"
  /\ kept' = FALSE
  /\ UNCHANGED <<disk, entries, extraction, op, counters, interfered>>

\* What was moved aside is deleted, or stays hidden.
DeleteMoved ==
  /\ manager = "delete"
  /\ op.moved # << >>
  /\ disk' \in Remains(op.moved[1][2])
  /\ op' = [op EXCEPT !.moved = Tail(@)]
  /\ UNCHANGED <<disabled, entries, extraction, manager, counters, storeHistory>>

EndRemoval ==
  /\ \/ manager = "delete" /\ op.moved = << >>
     \/ manager = "not_removed"
  /\ manager' = "idle"
  /\ op' = NoOp
  /\ UNCHANGED <<disk, disabled, entries, extraction, counters, storeHistory>>

----------------------------------------------------------------------------
Installing == BeginExtraction \/ (\E f \in File : Extract(f)) \/ FinishExtraction
                \/ FailExtraction \/ PollFailure
Activating == BeginActivation \/ BackUp \/ PlaceNew \/ LoadNew \/ TakeBack \/ Restore
                \/ Reload \/ CleanStaging \/ Discard
Removing == BeginRemoval \/ MoveAside \/ RemovalFails \/ Undo \/ Forget \/ DeleteMoved
                \/ EndRemoval
StoreNext == LoadAll \/ Stop \/ DropLooseDll \/ SetEnabled \/ DrainFailed
                \/ Installing \/ Activating \/ Removing

StoreSpec == StoreInit /\ [][StoreNext]_storeVars

----------------------------------------------------------------------------
(* Properties. *)

StoreTypeOK ==
  /\ disk \in [Place -> [version : Nat, files : SUBSET File]]
  /\ disabled \in BOOLEAN
  /\ loaded \in Nat /\ loadedFrom \in Place
  /\ extraction \in [at : {"idle", "writing", "extracted", "failed"}, version : Nat,
                     dir : Place, left : SUBSET File]

\* At whatever step of an update, a removal or their rollbacks the process stops
\* or a file operation fails, a whole version of an installed plugin is on the
\* disk (crates/winisland-plugin-host/src/host.rs:506-560), unless a removal took
\* away the directory of an extraction that was under way.
AVersionSurvives ==
  kept /\ ~interfered => \E p \in Place : Whole(p) \/ (p = LooseDll /\ Exists(p))

\* What the start can find is never a part of a package: it is written under a
\* hidden name and shown by a rename (crates/winisland-plugin-package/src/
\* activate.rs:191-260), and moved out of sight before it is deleted.
VisibleIsComplete == ~interfered => disk[Destination] = Absent \/ Whole(Destination)

\* A failed activation whose rollback met no further error leaves the directory
\* of the plugin as it was (host.rs:517-553).
FailedUpdateRestores ==
  manager = "clean" /\ op.clean => disk[Destination] = op.before[Destination]

\* A removal that reports an error, and whose rollback met none, has moved back
\* all that the start can find; one that reports none has left none of it
\* (src/plugin/inventory.rs:79-126).
RemovalIsAllOrNothing ==
  /\ manager = "not_removed" /\ op.clean =>
       \A p \in Visible : disk[p] = op.before[p]
  /\ manager = "delete" /\ ~interfered => \A p \in Visible : ~Exists(p)

\* Between operations, the code that runs is the code that is installed: its
\* version is the one on the disk where it was loaded from, whatever an update
\* or a removal, its errors and their rollbacks have moved (host.rs:450-563).
RunningIsInstalled ==
  manager = "idle" /\ loaded # 0 =>
     disk[loadedFrom].version = loaded /\ "entry" \in disk[loadedFrom].files
=============================================================================
