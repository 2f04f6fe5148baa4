---------------------------- MODULE CrashMarkers ----------------------------
(***************************************************************************)
(* Which plugin is to blame for the end of the process. Every call into a  *)
(* plugin leaves a marker file while it runs; a panic records the plugin   *)
(* of its thread; the next start disables what it finds named, and only    *)
(* then removes the names. The process may end between any two steps.      *)
(*   crates/winisland-plugin-host/src/fault.rs                             *)
(*   src/utils/logger.rs (check_crash_flag, panic_hook)                    *)
(***************************************************************************)
EXTENDS Naturals, Sequences, FiniteSets

CONSTANTS Accused,    \* identifiers of plugins
          Thread,     \* threads that call plugins; their ids recur in every process
          MaxDepth,   \* guards of one thread inside each other
          MaxEnds,    \* times the process ends
          NoOne,      \* no file
          Blank       \* a file that names nobody, what a failed write may leave

ASSUME MarkersAssumption == /\ NoOne \notin Accused /\ Blank \notin Accused /\ NoOne # Blank
                            /\ MaxDepth \in Nat /\ MaxEnds \in Nat

VARIABLES
  stack,      \* per thread, the plugins whose PluginCallGuard is alive
  step,       \* per thread: in code, or inside PluginCallGuard::enter or drop
  callee,     \* per thread, the plugin a guard is being entered for
  marker,     \* per thread, the content of .active-plugin-ThreadId(n)
  crashFile,  \* .crash_plugin
  crashFlag,  \* .crash_flag
  list,       \* .disabled-plugins
  writing,    \* contents that fs::write has made room for and not written yet
  panicked,   \* the thread inside the panic hook, and how far it is
  phase,      \* of the process
  ids,        \* recover_crashed_plugin: plugins still to be disabled
  ends,
  amiss,      \* history: per thread, the last change of its marker failed
  suspects,   \* history: plugins with a guard when the process ended
  owed,       \* history: plugins that were executing, and marked, when it ended
  gaveUp,     \* history: recovery met an error, or did not begin
  interrupted \* history: times the process ended during this recovery

threadVars == <<stack, step, callee>>
files == <<marker, crashFile, crashFlag, list>>
blameHistory == <<suspects, owed, gaveUp, interrupted>>
callVars == <<threadVars, marker, amiss>>
markerVars == <<stack, step, callee, marker, crashFile, crashFlag, list, writing, panicked,
                phase, ids, ends, amiss, suspects, owed, gaveUp, interrupted>>

NotWriting == [on |-> FALSE, to |-> {}]
NoPanic == [on |-> FALSE, recorded |-> FALSE]

Top(t) == IF stack[t] = << >> THEN NoOne ELSE stack[t][Len(stack[t])]
Below(t) == SubSeq(stack[t], 1, Len(stack[t]) - 1)
Named == ({marker[t] : t \in Thread} \cup {crashFile}) \ {NoOne, Blank}
NeverFailed == [t \in Thread |-> FALSE]

MarkersInit ==
  /\ stack = [t \in Thread |-> << >>]
  /\ step = [t \in Thread |-> "code"]
  /\ callee = [t \in Thread |-> NoOne]
  /\ marker = [t \in Thread |-> NoOne]
  /\ crashFile = NoOne /\ crashFlag = FALSE
  /\ list = {} /\ writing = NotWriting
  /\ panicked = NoPanic
  /\ phase = "running"
  /\ ids = {} /\ ends = 0
  /\ amiss = NeverFailed
  /\ suspects = {} /\ owed = {} /\ gaveUp = FALSE /\ interrupted = 0

----------------------------------------------------------------------------
(* PluginCallGuard. A host has one directory of markers: a thread has one path. *)

\* A change of the thread's marker: an error is ignored, or logged, and what the
\* file holds is then another matter.
Mark(t, content, onError) ==
  \E left \in {content} \cup onError :
    /\ marker' = [marker EXCEPT ![t] = left]
    /\ amiss' = [amiss EXCEPT ![t] = left # content]

\* fs::write opens and truncates the file before it writes.
Write(t, content) == Mark(t, content, {marker[t], Blank})

\* enter: the marker is written before the plugin becomes the thread's plugin,
\* which it becomes even when the marker could not be written.
EnterMark(t) ==
  /\ phase = "running"
  /\ step[t] = "code"
  /\ Len(stack[t]) < MaxDepth
  /\ \E p \in Accused :
       /\ Write(t, p)
       /\ callee' = [callee EXCEPT ![t] = p]
  /\ step' = [step EXCEPT ![t] = "entering"]
  /\ UNCHANGED <<stack, crashFile, crashFlag, list, writing, panicked, phase, ids, ends,
                 blameHistory>>

EnterRun(t) ==
  /\ phase = "running"
  /\ step[t] = "entering"
  /\ stack' = [stack EXCEPT ![t] = Append(@, callee[t])]
  /\ callee' = [callee EXCEPT ![t] = NoOne]
  /\ step' = [step EXCEPT ![t] = "code"]
  /\ UNCHANGED <<files, amiss, writing, panicked, phase, ids, ends, blameHistory>>

\* Faulty: the marker is removed only when it hides that of an outer call.
FaultyLeaveRemove(t) ==
  /\ phase = "running"
  /\ step[t] = "code"
  /\ stack[t] # << >>
  /\ Mark(t, IF Len(stack[t]) > 1 THEN NoOne ELSE marker[t], {marker[t]})
  /\ step' = [step EXCEPT ![t] = "leaving"]
  /\ UNCHANGED <<stack, callee, crashFile, crashFlag, list, writing, panicked, phase, ids, ends,
                 blameHistory>>

\* drop: the marker goes, then the one of the call around this one comes back.
LeaveRemove(t) ==
  /\ phase = "running"
  /\ step[t] = "code"
  /\ stack[t] # << >>
  /\ Mark(t, NoOne, {marker[t]})
  /\ step' = [step EXCEPT ![t] = "leaving"]
  /\ UNCHANGED <<stack, callee, crashFile, crashFlag, list, writing, panicked, phase, ids, ends,
                 blameHistory>>

LeaveRestore(t) ==
  /\ phase = "running"
  /\ step[t] = "leaving"
  /\ stack' = [stack EXCEPT ![t] = Below(t)]
  /\ IF Below(t) = << >> THEN UNCHANGED <<marker, amiss>>
                         ELSE Write(t, Below(t)[Len(Below(t))])
  /\ step' = [step EXCEPT ![t] = "code"]
  /\ UNCHANGED <<callee, crashFile, crashFlag, list, writing, panicked, phase, ids, ends,
                 blameHistory>>

----------------------------------------------------------------------------
(* set_plugin_disabled, called by the UI thread and by the recovery. *)

\* The list is read and changed; fs::write empties the file first. The last
\* entry is taken away with the file, at once.
BeginWrite(new) ==
  /\ ~writing.on
  /\ list' = {}
  /\ writing' = IF new = {} THEN NotWriting ELSE [on |-> TRUE, to |-> new]

EndWrite ==
  /\ writing.on
  /\ list' = writing.to
  /\ writing' = NotWriting

\* disabled_plugin_ids: a list that cannot be read is an empty one.
ListRead == {list, {}}

\* The user, a failed tick or a removal changes one entry.
ChangeList ==
  /\ phase = "running"
  /\ \E ps \in ListRead, p \in Accused : BeginWrite(ps \cup {p}) \/ BeginWrite(ps \ {p})
  /\ UNCHANGED <<callVars, crashFile, crashFlag, panicked, phase, ids, ends, blameHistory>>

\* The contents, or an error that leaves the file empty.
ListChanged ==
  /\ phase = "running"
  /\ EndWrite \/ (writing.on /\ writing' = NotWriting /\ UNCHANGED list)
  /\ UNCHANGED <<callVars, crashFile, crashFlag, panicked, phase, ids, ends, blameHistory>>

----------------------------------------------------------------------------
(* The end of the process. *)

\* Everything that was executing and could be marked or recorded, and everything
\* that had a guard.
Executing == {Top(t) : t \in {u \in Thread : step[u] \in {"code", "panicking"} /\ ~amiss[u]}}
Accountable == (Executing \cup {crashFile}) \ {NoOne, Blank}
Guarded == (UNION {{stack[t][i] : i \in 1..Len(stack[t])} \cup {callee[t]} : t \in Thread})
             \ {NoOne}

End ==
  /\ phase' = "down"
  /\ stack' = [t \in Thread |-> << >>]
  /\ step' = [t \in Thread |-> "code"]
  /\ callee' = [t \in Thread |-> NoOne]
  /\ writing' = NotWriting
  /\ panicked' = NoPanic
  /\ ids' = {}

\* panic_hook on thread t: the flag, then the plugin of the thread, then abort.
\* The other threads run on until the end. Neither file is sure to be written.
Panic(t) ==
  /\ phase = "running"
  /\ ~panicked.on
  /\ step[t] = "code"
  /\ ends < MaxEnds
  /\ crashFlag' \in {TRUE, crashFlag}
  /\ panicked' = [on |-> TRUE, recorded |-> FALSE]
  /\ step' = [step EXCEPT ![t] = "panicking"]
  /\ UNCHANGED <<stack, callee, marker, amiss, crashFile, list, writing, phase, ids, ends,
                 blameHistory>>

RecordCrash(t) ==
  /\ phase = "running"
  /\ step[t] = "panicking"
  /\ ~panicked.recorded
  /\ IF Top(t) = NoOne THEN UNCHANGED crashFile ELSE crashFile' \in {Top(t), crashFile, Blank}
  /\ panicked' = [panicked EXCEPT !.recorded = TRUE]
  /\ UNCHANGED <<callVars, crashFlag, list, writing, phase, ids, ends, blameHistory>>

\* The process is gone: by the abort of a panic, an access violation in a
\* plugin, a kill, or `exit(0)` of the updater while callbacks run. Any of them
\* may also meet a start that is still recovering, or a list half written.
Die ==
  /\ phase # "down"
  /\ ends < MaxEnds
  /\ ends' = ends + 1
  /\ suspects' = suspects \cup Guarded
  /\ owed' = owed \cup Accountable
  /\ interrupted' = IF phase = "running" THEN 0 ELSE interrupted + 1
  /\ End
  /\ UNCHANGED <<files, amiss, gaveUp>>

----------------------------------------------------------------------------
(* check_crash_flag and recover_crashed_plugin, before any plugin is loaded. *)

\* has_active_plugin_markers looks for files, recover_crashed_plugin reads them;
\* one that cannot be read names nobody. Without a flag and a marker the record
\* of a panic is not looked at.
CheckCrashFlag ==
  /\ phase = "down"
  /\ \/ /\ crashFlag \/ \E t \in Thread : marker[t] # NoOne
        /\ phase' = "disabling"
        /\ \E read \in SUBSET Named : ids' = read /\ gaveUp' = (gaveUp \/ read # Named)
        /\ UNCHANGED <<amiss, suspects, owed, interrupted>>
     \/ /\ ~crashFlag /\ \A t \in Thread : marker[t] = NoOne
        /\ phase' = "running"
        /\ amiss' = NeverFailed
        /\ owed' = {} /\ suspects' = {} /\ interrupted' = 0
        /\ gaveUp' = (gaveUp \/ crashFile # NoOne)
        /\ UNCHANGED ids
  /\ UNCHANGED <<threadVars, files, writing, panicked, ends>>

\* set_plugin_disabled for one plugin after the other.
Disable ==
  /\ phase = "disabling"
  /\ \E p \in ids, ps \in ListRead : /\ BeginWrite(ps \cup {p})
                                     /\ ids' = ids \ {p}
                                     /\ gaveUp' = (gaveUp \/ ps # list)
  /\ UNCHANGED <<callVars, crashFile, crashFlag, panicked, phase, ends, suspects, owed,
                 interrupted>>

Disabled ==
  /\ phase = "disabling"
  /\ EndWrite
  /\ UNCHANGED <<callVars, crashFile, crashFlag, panicked, phase, ids, ends, blameHistory>>

\* Faulty: markers are removed while there are plugins left to disable.
FaultyEraseMarker(t) ==
  /\ phase \in {"disabling", "erasing"}
  /\ marker[t] \in list
  /\ marker' = [marker EXCEPT ![t] = NoOne]
  /\ UNCHANGED <<threadVars, amiss, crashFile, crashFlag, list, writing, panicked, phase, ids,
                 ends, blameHistory>>

\* The markers, then the record of the panic.
AllDisabled ==
  /\ phase = "disabling"
  /\ ids = {}
  /\ ~writing.on
  /\ phase' = "erasing"
  /\ UNCHANGED <<callVars, files, writing, panicked, ids, ends, blameHistory>>

EraseMarker(t) ==
  /\ phase = "erasing"
  /\ marker[t] # NoOne
  /\ marker' = [marker EXCEPT ![t] = NoOne]
  /\ UNCHANGED <<threadVars, amiss, crashFile, crashFlag, list, writing, panicked, phase, ids,
                 ends, blameHistory>>

EraseRecord ==
  /\ phase = "erasing"
  /\ \A t \in Thread : marker[t] = NoOne
  /\ crashFile' = NoOne
  /\ phase' = "recovered"
  /\ UNCHANGED <<callVars, crashFlag, list, writing, panicked, ids, ends, blameHistory>>

\* An error of any of these ends the recovery, with the rest of the names left;
\* a list being written may be lost with it.
GiveUp ==
  /\ phase \in {"disabling", "erasing"}
  /\ phase' = "recovered"
  /\ gaveUp' = TRUE
  /\ writing' = NotWriting
  /\ ids' = {}
  /\ UNCHANGED <<callVars, files, panicked, ends, suspects, owed, interrupted>>

\* check_crash_flag removes the flag whatever the recovery returned, if it can.
RemoveFlag ==
  /\ phase = "recovered"
  /\ crashFlag' \in {FALSE, crashFlag}
  /\ phase' = "running"
  /\ amiss' = NeverFailed
  /\ owed' = {}
  /\ suspects' = {}
  /\ interrupted' = 0
  /\ UNCHANGED <<threadVars, marker, crashFile, list, writing, panicked, ids, ends, gaveUp>>

----------------------------------------------------------------------------
Calling == \E t \in Thread : EnterMark(t) \/ EnterRun(t) \/ LeaveRemove(t) \/ LeaveRestore(t)
Ending == Die \/ \E t \in Thread : Panic(t) \/ RecordCrash(t)
Recovering == CheckCrashFlag \/ Disable \/ Disabled \/ AllDisabled
                \/ (\E t \in Thread : EraseMarker(t)) \/ EraseRecord \/ GiveUp \/ RemoveFlag
MarkersNext == Calling \/ ChangeList \/ ListChanged \/ Ending \/ Recovering

MarkersSpec == MarkersInit /\ [][MarkersNext]_markerVars

----------------------------------------------------------------------------
(* Properties. *)

MarkersTypeOK ==
  /\ stack \in [Thread -> Seq(Accused)]
  /\ step \in [Thread -> {"code", "entering", "leaving", "panicking"}]
  /\ marker \in [Thread -> Accused \cup {NoOne, Blank}]
  /\ crashFile \in Accused \cup {NoOne, Blank}
  /\ list \subseteq Accused /\ ids \subseteq Accused
  /\ phase \in {"running", "down", "disabling", "erasing", "recovered"}

\* A plugin that was executing when the process ended is named by a file, or on
\* the list of disabled plugins, from then until recovery is over, even if the
\* process ends again at any step of it (crates/winisland-plugin-host/src/fault.rs:
\* 153-200). A second end of that kind can meet the list between its truncation
\* and its contents when some markers are gone already. A plugin whose marker
\* could not be written runs unmarked (39-41, 59-63): it is named by the record of
\* its own panic, if by anything.
BlameIsKept ==
  phase # "running" /\ ~gaveUp /\ interrupted <= 1 => owed \subseteq Named \cup list \cup writing.to

\* Recovery disables no plugin that had no call under way when the process ended,
\* but for the plugin named by a marker that could not be removed (58) or written
\* over, as long as no later call of that thread has put its marker right.
OnlyRunningBlamed ==
  phase # "running" /\ ~gaveUp =>
    /\ crashFile \in suspects \cup {NoOne, Blank}
    /\ \A t \in Thread : marker[t] \in suspects \cup {NoOne, Blank} \/ amiss[t]
=============================================================================
