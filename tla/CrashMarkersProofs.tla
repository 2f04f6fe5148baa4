------------------------- MODULE CrashMarkersProofs -------------------------
(***************************************************************************)
(* That the right plugins are disabled after a crash, for any plugins,     *)
(* threads, depth of calls, number of crashes and number of markers that   *)
(* could not be written or removed: none without a call under way but for  *)
(* a marker that failed last, and, unless the recovery is cut off more     *)
(* than once, all that were executing and marked. And that config.toml, the*)
(* other file that outlives a crash, holds a whole configuration after any *)
(* number of saves at once.                                                *)
(***************************************************************************)
EXTENDS CrashMarkers, ConfigStore, SequenceTheorems, TLAPS

Someone == Accused \cup {NoOne, Blank}

FilesTyped ==
  /\ stack \in [Thread -> Seq(Accused)]
  /\ step \in [Thread -> {"code", "entering", "leaving", "panicking"}]
  /\ callee \in [Thread -> Accused \cup {NoOne}] /\ marker \in [Thread -> Someone]
  /\ crashFile \in Someone /\ crashFlag \in BOOLEAN
  /\ list \subseteq Accused /\ ids \subseteq Accused
  /\ writing \in [on : BOOLEAN, to : SUBSET Accused]
  /\ phase \in {"running", "down", "disabling", "erasing", "recovered"}
  /\ amiss \in [Thread -> BOOLEAN] /\ gaveUp \in BOOLEAN /\ interrupted \in Nat

(* A file that is being written is empty; only a process that runs calls.  *)
WritesEmpty == IF writing.on THEN list = {} ELSE writing.to = {}
CallsNothing(t) == stack[t] = << >> /\ callee[t] = NoOne /\ step[t] = "code"
CalleeKnown   == \A t \in Thread : step[t] = "entering" => callee[t] \in Accused
LeavesSomeone == \A t \in Thread : step[t] = "leaving" => stack[t] # << >>
RunsOnlyWhileRunning == phase # "running" => \A t \in Thread : CallsNothing(t)

(* The marker of a thread whose last change went well is the plugin it     *)
(* runs, but for two moments.                                              *)
MarkerAgrees(t) ==
  \/ amiss[t]
  \/ /\ step[t] \in {"code", "panicking"} => marker[t] = Top(t)
     /\ step[t] = "entering" => marker[t] = callee[t]
     /\ step[t] = "leaving" => marker[t] = NoOne
Panicked(p) == \E t \in Thread : step[t] = "panicking" /\ p = Top(t)
RecordAgrees == crashFile \in {NoOne, Blank} \/ Panicked(crashFile)
NamesWhileRunning ==
  phase = "running" /\ ~gaveUp => RecordAgrees /\ \A t \in Thread : MarkerAgrees(t)

(* While it does not run: what is named, and what the recovery owes.       *)
Cause == suspects \cup {NoOne, Blank}
NamesWhileDown ==
  phase # "running" /\ ~gaveUp =>
    /\ crashFile \in Cause
    /\ \A t \in Thread : marker[t] \in Cause \/ amiss[t]
    /\ phase = "recovered" => crashFile = NoOne /\ \A t \in Thread : marker[t] = NoOne

DebtWhileRunning == phase = "running" => owed = {}
DebtWhileDown ==
  phase # "running" /\ ~gaveUp =>
    /\ phase = "disabling" => Named \subseteq ids \cup list \cup writing.to
    /\ phase \in {"down", "erasing", "recovered"} => ~writing.on
    /\ interrupted = 0 /\ phase \in {"down", "disabling"} => owed \subseteq Named
    /\ interrupted <= 1 /\ phase = "down" => owed \subseteq Named \cup list
    /\ interrupted <= 1 /\ phase = "disabling" => owed \subseteq Named \cup list \cup writing.to
    /\ interrupted <= 1 /\ phase \in {"erasing", "recovered"} => owed \subseteq list

FilesOK   == FilesTyped /\ WritesEmpty /\ CalleeKnown /\ LeavesSomeone /\ RunsOnlyWhileRunning
NamesOK   == NamesWhileRunning /\ NamesWhileDown
DebtOK    == DebtWhileRunning /\ DebtWhileDown
MarkersInv == FilesOK /\ NamesOK /\ DebtOK

LEMMA BelowIsStack ==
  ASSUME NEW t \in Thread, stack[t] \in Seq(Accused), stack[t] # << >>
  PROVE  Below(t) \in Seq(Accused)
<1>1. Len(stack[t]) \in Nat /\ Len(stack[t]) - 1 \in Int
  OBVIOUS
<1>2. \A i \in 1..(Len(stack[t]) - 1) : stack[t][i] \in Accused
  BY <1>1
<1> QED BY <1>1, <1>2, SubSeqProperties DEF Below

LEMMA MarkersInvInit == MarkersInit => MarkersInv
<1> SUFFICES ASSUME MarkersInit PROVE MarkersInv
  OBVIOUS
<1> USE DEF MarkersInit
<1>1. FilesOK
  <2>1. stack \in [Thread -> Seq(Accused)]
    OBVIOUS
  <2>2. FilesTyped
    BY <2>1 DEF FilesTyped, NotWriting, NeverFailed, Someone
  <2>3. WritesEmpty /\ CalleeKnown /\ LeavesSomeone /\ RunsOnlyWhileRunning
    BY DEF WritesEmpty, CalleeKnown, LeavesSomeone, RunsOnlyWhileRunning, NotWriting
  <2> QED BY <2>2, <2>3 DEF FilesOK
<1>2. NamesOK
  <2>1. RecordAgrees
    BY DEF RecordAgrees
  <2>2. ASSUME NEW t \in Thread PROVE MarkerAgrees(t)
    BY DEF MarkerAgrees, Top
  <2> QED BY <2>1, <2>2 DEF NamesOK, NamesWhileRunning, NamesWhileDown
<1>3. DebtOK
  BY DEF DebtOK, DebtWhileRunning, DebtWhileDown
<1> QED BY <1>1, <1>2, <1>3 DEF MarkersInv

-----------------------------------------------------------------------------
(* Calls: one thread's marker, stack and step change.                      *)
LEMMA CallKeeps ==
  ASSUME MarkersInv, phase = "running", NEW t \in Thread,
         UNCHANGED <<crashFile, crashFlag, list, writing, phase, ids, gaveUp, interrupted,
                     suspects, owed>>,
         NEW s \in Seq(Accused), NEW c \in Accused \cup {NoOne}, NEW m \in Someone,
         NEW b \in BOOLEAN, NEW g \in {"code", "entering", "leaving"},
         stack' = [stack EXCEPT ![t] = s], callee' = [callee EXCEPT ![t] = c],
         marker' = [marker EXCEPT ![t] = m], amiss' = [amiss EXCEPT ![t] = b],
         step' = [step EXCEPT ![t] = g], step[t] # "panicking",
         g = "entering" => c \in Accused, g = "leaving" => s # << >>,
         ~gaveUp => MarkerAgrees(t)'
  PROVE  MarkersInv'
<1>1. FilesOK'
  <2>1. FilesTyped'
    BY DEF MarkersInv, FilesOK, FilesTyped
  <2>2. WritesEmpty' /\ RunsOnlyWhileRunning'
    BY DEF MarkersInv, FilesOK, WritesEmpty, RunsOnlyWhileRunning
  <2>3. CalleeKnown' /\ LeavesSomeone'
    BY DEF MarkersInv, FilesOK, FilesTyped, CalleeKnown, LeavesSomeone
  <2> QED BY <2>1, <2>2, <2>3 DEF FilesOK
<1>2. NamesOK'
  <2>1. \A u \in Thread \ {t} : /\ stack'[u] = stack[u] /\ callee'[u] = callee[u]
                                /\ marker'[u] = marker[u] /\ amiss'[u] = amiss[u]
                                /\ step'[u] = step[u]
    BY DEF MarkersInv, FilesOK, FilesTyped
  <2>2. ASSUME ~gaveUp, NEW u \in Thread PROVE MarkerAgrees(u)'
    BY <2>1, <2>2 DEF MarkersInv, NamesOK, NamesWhileRunning, MarkerAgrees, Top
  <2>3. ASSUME ~gaveUp PROVE RecordAgrees'
    BY <2>1, <2>3 DEF MarkersInv, NamesOK, NamesWhileRunning, RecordAgrees, Panicked, Top
  <2> QED BY <2>2, <2>3 DEF NamesOK, NamesWhileRunning, NamesWhileDown
<1>3. DebtOK'
  BY DEF MarkersInv, DebtOK, DebtWhileRunning, DebtWhileDown
<1> QED BY <1>1, <1>2, <1>3 DEF MarkersInv

(* A marker holds what it should, or its last change went wrong.           *)
LEMMA Marked ==
  ASSUME FilesTyped, NEW t \in Thread, NEW content \in Someone, NEW onError \in SUBSET Someone,
         Mark(t, content, onError)
  PROVE  \E m \in Someone, b \in BOOLEAN :
            /\ marker' = [marker EXCEPT ![t] = m] /\ amiss' = [amiss EXCEPT ![t] = b]
            /\ marker'[t] = m /\ amiss'[t] = b /\ (b \/ m = content)
<1>1. PICK m \in {content} \cup onError : /\ marker' = [marker EXCEPT ![t] = m]
                                          /\ amiss' = [amiss EXCEPT ![t] = m # content]
  BY DEF Mark
<1>2. m \in Someone /\ (m # content) \in BOOLEAN
  OBVIOUS
<1>3. marker'[t] = m /\ amiss'[t] = (m # content)
  BY <1>1 DEF FilesTyped
<1> QED BY <1>1, <1>2, <1>3

LEMMA CallingKeeps == MarkersInv /\ Calling => MarkersInv'
<1> SUFFICES ASSUME MarkersInv, NEW t \in Thread,
                    EnterMark(t) \/ EnterRun(t) \/ LeaveRemove(t) \/ LeaveRestore(t)
             PROVE  MarkersInv'
  BY DEF Calling
<1> USE DEF blameHistory, files
<1>0. /\ stack \in [Thread -> Seq(Accused)] /\ callee \in [Thread -> Accused \cup {NoOne}]
      /\ marker \in [Thread -> Someone] /\ amiss \in [Thread -> BOOLEAN]
      /\ step \in [Thread -> {"code", "entering", "leaving", "panicking"}]
      /\ stack[t] \in Seq(Accused) /\ callee[t] \in Accused \cup {NoOne} /\ marker[t] \in Someone
      /\ amiss[t] \in BOOLEAN
      /\ NoOne \in Someone /\ Blank \in Someone /\ NoOne \notin Accused /\ FilesTyped
      /\ \A p \in Accused : p \in Someone
  BY MarkersAssumption DEF MarkersInv, FilesOK, FilesTyped, Someone
<1>1. CASE EnterMark(t)
  <2>1. PICK p \in Accused : Write(t, p) /\ callee' = [callee EXCEPT ![t] = p]
    BY <1>1 DEF EnterMark
  <2>2. PICK m \in Someone, b \in BOOLEAN :
          /\ marker' = [marker EXCEPT ![t] = m] /\ amiss' = [amiss EXCEPT ![t] = b]
          /\ marker'[t] = m /\ amiss'[t] = b /\ (b \/ m = p)
    BY <1>0, <2>1, Marked DEF Write
  <2>3. /\ stack' = [stack EXCEPT ![t] = stack[t]] /\ step' = [step EXCEPT ![t] = "entering"]
        /\ step[t] = "code" /\ phase = "running"
        /\ UNCHANGED <<crashFile, crashFlag, list, writing, phase, ids, gaveUp, interrupted,
                       suspects, owed>>
    BY <1>0, <1>1 DEF EnterMark
  <2>4. MarkerAgrees(t)'
    BY <1>0, <2>1, <2>2, <2>3 DEF MarkerAgrees
  <2> QED BY <1>0, <2>1, <2>2, <2>3, <2>4, CallKeeps
<1>2. CASE EnterRun(t)
  <2>1. /\ stack' = [stack EXCEPT ![t] = Append(@, callee[t])]
        /\ callee' = [callee EXCEPT ![t] = NoOne] /\ step' = [step EXCEPT ![t] = "code"]
        /\ step[t] = "entering" /\ phase = "running"
        /\ marker' = [marker EXCEPT ![t] = marker[t]] /\ amiss' = [amiss EXCEPT ![t] = amiss[t]]
        /\ UNCHANGED <<marker, amiss, crashFile, crashFlag, list, writing, phase, ids, gaveUp,
                       interrupted, suspects, owed>>
    BY <1>0, <1>2 DEF EnterRun
  <2>2. callee[t] \in Accused
    BY <1>0, <2>1 DEF MarkersInv, CalleeKnown, FilesOK
  <2>3. Append(stack[t], callee[t]) \in Seq(Accused)
    BY <1>0, <2>2
  <2>4. ~gaveUp => MarkerAgrees(t)'
    <3>1. SUFFICES ASSUME ~gaveUp PROVE MarkerAgrees(t)'
      OBVIOUS
    <3>2. amiss[t] \/ marker[t] = callee[t]
      BY <2>1, <3>1 DEF MarkersInv, NamesOK, NamesWhileRunning, MarkerAgrees
    <3>3. Top(t)' = callee[t]
      <4>1. stack'[t] = Append(stack[t], callee[t])
        BY <1>0, <2>1
      <4>2. \A s \in Seq(Accused), e \in Accused :
              Append(s, e) # << >> /\ Append(s, e)[Len(Append(s, e))] = e
        OBVIOUS
      <4>3. stack'[t] # << >> /\ stack'[t][Len(stack'[t])] = callee[t]
        BY <1>0, <2>2, <4>1, <4>2
      <4> QED BY <4>3 DEF Top
    <3>4. step'[t] = "code" /\ marker'[t] = marker[t] /\ amiss'[t] = amiss[t]
      BY <1>0, <2>1
    <3> QED BY <3>2, <3>3, <3>4 DEF MarkerAgrees
  <2> QED BY <1>0, <2>1, <2>3, <2>4, CallKeeps
<1>3. CASE LeaveRemove(t)
  <2>1. PICK m \in Someone, b \in BOOLEAN :
          /\ marker' = [marker EXCEPT ![t] = m] /\ amiss' = [amiss EXCEPT ![t] = b]
          /\ marker'[t] = m /\ amiss'[t] = b /\ (b \/ m = NoOne)
    BY <1>0, <1>3, Marked DEF LeaveRemove
  <2>2. /\ step' = [step EXCEPT ![t] = "leaving"]
        /\ stack' = [stack EXCEPT ![t] = stack[t]] /\ callee' = [callee EXCEPT ![t] = callee[t]]
        /\ step[t] = "code" /\ phase = "running" /\ stack[t] # << >>
        /\ UNCHANGED <<crashFile, crashFlag, list, writing, phase, ids, gaveUp, interrupted,
                       suspects, owed>>
    BY <1>0, <1>3 DEF LeaveRemove
  <2>3. MarkerAgrees(t)'
    BY <1>0, <2>1, <2>2 DEF MarkerAgrees
  <2> QED BY <1>0, <2>1, <2>2, <2>3, CallKeeps
<1>4. CASE LeaveRestore(t)
  <2> DEFINE below == Below(t)
             top == IF below = << >> THEN NoOne ELSE below[Len(below)]
  <2>1. /\ stack' = [stack EXCEPT ![t] = below]
        /\ IF below = << >> THEN UNCHANGED <<marker, amiss>> ELSE Write(t, top)
        /\ step' = [step EXCEPT ![t] = "code"] /\ callee' = [callee EXCEPT ![t] = callee[t]]
        /\ step[t] = "leaving" /\ phase = "running"
        /\ UNCHANGED <<crashFile, crashFlag, list, writing, phase, ids, gaveUp, interrupted,
                       suspects, owed>>
    BY <1>0, <1>4 DEF LeaveRestore
  <2>2. below \in Seq(Accused)
    BY <1>0, <2>1, BelowIsStack DEF MarkersInv, FilesOK, LeavesSomeone
  <2>3. stack'[t] = below /\ step'[t] = "code"
    BY <1>0, <2>1
  <2> HIDE DEF below
  <2>4. top \in Someone /\ Top(t)' = top
    BY <1>0, <2>2, <2>3 DEF Top
  <2> HIDE DEF top
  <2>5. CASE below = << >>
    <3>1. /\ marker' = [marker EXCEPT ![t] = marker[t]] /\ amiss' = [amiss EXCEPT ![t] = amiss[t]]
          /\ marker'[t] = marker[t] /\ amiss'[t] = amiss[t] /\ Top(t)' = NoOne
      BY <1>0, <2>1, <2>4, <2>5 DEF top
    <3>2. ASSUME ~gaveUp PROVE MarkerAgrees(t)'
      <4>1. amiss[t] \/ marker[t] = NoOne
        BY <2>1, <3>2 DEF MarkersInv, NamesOK, NamesWhileRunning, MarkerAgrees
      <4> QED BY <2>3, <3>1, <4>1 DEF MarkerAgrees
    <3> QED BY <1>0, <2>1, <2>2, <3>1, <3>2, CallKeeps
  <2>6. CASE below # << >>
    <3>1. PICK m \in Someone, b \in BOOLEAN :
            /\ marker' = [marker EXCEPT ![t] = m] /\ amiss' = [amiss EXCEPT ![t] = b]
            /\ marker'[t] = m /\ amiss'[t] = b /\ (b \/ m = top)
      BY <1>0, <2>1, <2>4, <2>6, Marked DEF Write
    <3>2. MarkerAgrees(t)'
      BY <2>3, <2>4, <3>1 DEF MarkerAgrees
    <3> QED BY <1>0, <2>1, <2>2, <3>1, <3>2, CallKeeps
  <2> QED BY <2>5, <2>6
<1> QED BY <1>1, <1>2, <1>3, <1>4

-----------------------------------------------------------------------------
(* The list changes: it is empty until its new contents are written.       *)
LEMMA ListKeeps == MarkersInv /\ (ChangeList \/ ListChanged) => MarkersInv'
<1> SUFFICES ASSUME MarkersInv, ChangeList \/ ListChanged PROVE MarkersInv'
  OBVIOUS
<1> USE DEF blameHistory, threadVars, callVars
<1>1. /\ phase = "running"
      /\ UNCHANGED <<stack, step, callee, marker, amiss, crashFile, crashFlag, phase,
                     ids, suspects, owed, gaveUp, interrupted>>
  BY DEF ChangeList, ListChanged
<1>2. list' \subseteq Accused /\ writing' \in [on : BOOLEAN, to : SUBSET Accused] /\ WritesEmpty'
  <2>1. list \subseteq Accused /\ writing \in [on : BOOLEAN, to : SUBSET Accused]
    BY DEF MarkersInv, FilesOK, FilesTyped
  <2>2. CASE ChangeList
    <3>1. PICK new \in SUBSET Accused : BeginWrite(new)
      BY <2>1, <2>2 DEF ChangeList, ListRead
    <3> QED BY <3>1 DEF BeginWrite, NotWriting, WritesEmpty
  <2>3. CASE ListChanged
    <3>1. writing' = NotWriting /\ list' \in {list, writing.to} /\ NotWriting.on = FALSE
      BY <2>3 DEF ListChanged, EndWrite, NotWriting
    <3> QED BY <2>1, <3>1 DEF NotWriting, WritesEmpty
  <2> QED BY <2>2, <2>3
<1>3. FilesOK'
  BY <1>1, <1>2 DEF MarkersInv, FilesOK, FilesTyped, CalleeKnown, LeavesSomeone,
                    RunsOnlyWhileRunning
<1>4. NamesOK'
  BY <1>1 DEF MarkersInv, NamesOK, NamesWhileRunning, NamesWhileDown, RecordAgrees, Panicked,
              MarkerAgrees, Top
<1>5. DebtOK'
  BY <1>1 DEF MarkersInv, DebtOK, DebtWhileRunning, DebtWhileDown
<1> QED BY <1>3, <1>4, <1>5 DEF MarkersInv

-----------------------------------------------------------------------------
(* The end.                                                                *)
LEMMA PanicKeeps ==
  ASSUME MarkersInv, NEW t \in Thread, Panic(t)
  PROVE  MarkersInv'
<1> USE DEF blameHistory
<1>1. /\ phase = "running" /\ step[t] = "code" /\ crashFlag' \in {TRUE, crashFlag}
      /\ step' = [step EXCEPT ![t] = "panicking"]
      /\ UNCHANGED <<stack, callee, marker, amiss, crashFile, list, writing, phase, ids,
                     blameHistory>>
  BY DEF Panic
<1>2. step \in [Thread -> {"code", "entering", "leaving", "panicking"}]
  BY DEF MarkersInv, FilesOK, FilesTyped
<1>3. step'[t] = "panicking" /\ \A u \in Thread \ {t} : step'[u] = step[u]
  BY <1>1, <1>2
<1>4. FilesOK'
  <2>1. FilesTyped'
    BY <1>1, <1>2 DEF MarkersInv, FilesOK, FilesTyped
  <2>2. WritesEmpty' /\ CalleeKnown' /\ LeavesSomeone' /\ RunsOnlyWhileRunning'
    BY <1>1, <1>3
    DEF MarkersInv, FilesOK, WritesEmpty, CalleeKnown, LeavesSomeone, RunsOnlyWhileRunning
  <2> QED BY <2>1, <2>2 DEF FilesOK
<1>5. NamesOK'
  <2>1. ASSUME ~gaveUp, NEW u \in Thread PROVE MarkerAgrees(u)'
    BY <1>1, <1>3, <2>1 DEF MarkersInv, NamesOK, NamesWhileRunning, MarkerAgrees, Top
  <2>2. ASSUME ~gaveUp PROVE RecordAgrees'
    BY <1>1, <1>3, <2>2
    DEF MarkersInv, NamesOK, NamesWhileRunning, RecordAgrees, Panicked, Top
  <2> QED BY <1>1, <2>1, <2>2 DEF NamesOK, NamesWhileRunning, NamesWhileDown
<1>6. DebtOK'
  BY <1>1 DEF MarkersInv, DebtOK, DebtWhileRunning, DebtWhileDown
<1> QED BY <1>4, <1>5, <1>6 DEF MarkersInv

LEMMA RecordKeeps ==
  ASSUME MarkersInv, NEW t \in Thread, RecordCrash(t)
  PROVE  MarkersInv'
<1> USE DEF blameHistory, threadVars, callVars
<1>1. /\ phase = "running" /\ step[t] = "panicking" /\ crashFile' \in {Top(t), crashFile, Blank}
      /\ UNCHANGED <<stack, step, callee, marker, amiss, crashFlag, list, writing, phase, ids,
                     blameHistory>>
  BY DEF RecordCrash
<1>2. crashFile' \in Someone
  <2>1. stack[t] \in Seq(Accused) /\ crashFile \in Someone
    BY DEF MarkersInv, FilesOK, FilesTyped
  <2>2. Top(t) \in Someone
    BY <2>1 DEF Top, Someone
  <2> QED BY <1>1, <2>1, <2>2 DEF Someone
<1>3. FilesOK'
  BY <1>1, <1>2 DEF MarkersInv, FilesOK, FilesTyped, WritesEmpty, CalleeKnown, LeavesSomeone,
                    RunsOnlyWhileRunning
<1>4. NamesOK'
  <2>1. ASSUME ~gaveUp, NEW u \in Thread PROVE MarkerAgrees(u)'
    BY <1>1, <2>1 DEF MarkersInv, NamesOK, NamesWhileRunning, MarkerAgrees, Top
  <2>2. ASSUME ~gaveUp PROVE RecordAgrees'
    <3>1. RecordAgrees /\ Panicked(Top(t))
      BY <1>1, <2>2 DEF MarkersInv, NamesOK, NamesWhileRunning, Panicked
    <3> QED BY <1>1, <3>1 DEF RecordAgrees, Panicked, Top
  <2> QED BY <1>1, <2>1, <2>2 DEF NamesOK, NamesWhileRunning, NamesWhileDown
<1>5. DebtOK'
  BY <1>1 DEF MarkersInv, DebtOK, DebtWhileRunning, DebtWhileDown
<1> QED BY <1>3, <1>4, <1>5 DEF MarkersInv

(* What is named had a call, unless its marker went wrong, and all that    *)
(* was executing is named, unless its marker did.                          *)
LEMMA NamesAtTheEnd ==
  ASSUME MarkersInv, phase = "running", ~gaveUp
  PROVE  /\ crashFile \in Guarded \cup {NoOne, Blank}
         /\ \A t \in Thread : marker[t] \in Guarded \cup {NoOne, Blank} \/ amiss[t]
         /\ Accountable \subseteq Named
<1>1. ASSUME NEW t \in Thread
      PROVE  /\ Top(t) # NoOne => Top(t) \in Guarded
             /\ callee[t] # NoOne => callee[t] \in Guarded
  <2>1. stack[t] \in Seq(Accused)
    BY DEF MarkersInv, FilesOK, FilesTyped
  <2>2. ASSUME stack[t] # << >> PROVE Len(stack[t]) \in 1..Len(stack[t])
    BY <2>1, <2>2
  <2> QED BY <2>2 DEF Top, Guarded
<1>2. ASSUME NEW t \in Thread PROVE marker[t] \in Guarded \cup {NoOne, Blank} \/ amiss[t]
  <2>1. MarkerAgrees(t) /\ step[t] \in {"code", "entering", "leaving", "panicking"}
    BY DEF MarkersInv, NamesOK, NamesWhileRunning, FilesOK, FilesTyped
  <2> QED BY <1>1, <2>1 DEF MarkerAgrees
<1>3. crashFile \in Guarded \cup {NoOne, Blank}
  BY <1>1 DEF MarkersInv, NamesOK, NamesWhileRunning, RecordAgrees, Panicked
<1>4. Executing \subseteq {marker[t] : t \in Thread}
  BY DEF MarkersInv, NamesOK, NamesWhileRunning, MarkerAgrees, Executing
<1> QED BY <1>2, <1>3, <1>4 DEF Accountable, Named

LEMMA DieKeeps == MarkersInv /\ Die => MarkersInv'
<1> SUFFICES ASSUME MarkersInv, Die PROVE MarkersInv'
  OBVIOUS
<1> USE DEF files
<1>1. /\ phase # "down" /\ phase' = "down" /\ ids' = {} /\ writing' = NotWriting
      /\ stack' = [t \in Thread |-> << >>] /\ step' = [t \in Thread |-> "code"]
      /\ callee' = [t \in Thread |-> NoOne]
      /\ suspects' = suspects \cup Guarded /\ owed' = owed \cup Accountable
      /\ interrupted' = IF phase = "running" THEN 0 ELSE interrupted + 1
      /\ UNCHANGED <<marker, amiss, crashFile, crashFlag, list, gaveUp>>
  BY DEF Die, End
<1>2. FilesOK'
  <2>1. stack' \in [Thread -> Seq(Accused)]
    BY <1>1
  <2>2. FilesTyped'
    BY <1>1, <2>1 DEF MarkersInv, FilesOK, FilesTyped, NotWriting, Someone
  <2>3. WritesEmpty' /\ CalleeKnown' /\ LeavesSomeone' /\ RunsOnlyWhileRunning'
    BY <1>1 DEF WritesEmpty, CalleeKnown, LeavesSomeone, RunsOnlyWhileRunning, CallsNothing,
                NotWriting
  <2> QED BY <2>2, <2>3 DEF FilesOK
<1>3. Named' = Named
  BY <1>1 DEF Named
<1>4. CASE phase = "running"
  <2>1. ASSUME ~gaveUp
        PROVE  /\ crashFile \in Cause'
               /\ \A t \in Thread : marker[t] \in Cause' \/ amiss[t]
               /\ owed' \subseteq Named
    BY <1>1, <1>4, <2>1, NamesAtTheEnd DEF MarkersInv, DebtOK, DebtWhileRunning, Cause
  <2>2. NamesOK'
    BY <1>1, <1>4, <2>1 DEF NamesOK, NamesWhileRunning, NamesWhileDown
  <2>3. DebtOK'
    BY <1>1, <1>3, <2>1 DEF DebtOK, DebtWhileRunning, DebtWhileDown, NotWriting
  <2> QED BY <1>2, <2>2, <2>3 DEF MarkersInv
<1>5. CASE phase # "running"
  <2>1. Accountable \subseteq Named
    BY <1>5 DEF MarkersInv, FilesOK, RunsOnlyWhileRunning, CallsNothing, Accountable, Executing,
                Top, Named
  <2>2. NamesOK'
    BY <1>1, <1>5 DEF MarkersInv, NamesOK, NamesWhileRunning, NamesWhileDown, Cause
  <2>3. interrupted' = interrupted + 1 /\ interrupted \in Nat /\ owed' \subseteq owed \cup Named
    BY <1>1, <1>5, <2>1 DEF MarkersInv, FilesOK, FilesTyped
  <2>4. ASSUME ~gaveUp, interrupted' <= 1 PROVE owed' \subseteq Named \cup list
    <3>1. interrupted = 0
      BY <2>3, <2>4
    <3>2. CASE phase = "disabling"
      BY <2>3, <2>4, <3>1, <3>2, <1>5 DEF MarkersInv, DebtOK, DebtWhileDown
    <3>3. CASE phase \in {"erasing", "recovered"}
      BY <2>3, <2>4, <3>1, <3>3, <1>5 DEF MarkersInv, DebtOK, DebtWhileDown
    <3> QED BY <1>1, <1>5, <3>2, <3>3 DEF MarkersInv, FilesOK, FilesTyped
  <2>5. DebtOK'
    BY <1>1, <1>3, <2>3, <2>4 DEF DebtOK, DebtWhileRunning, DebtWhileDown, NotWriting
  <2> QED BY <1>2, <2>2, <2>5 DEF MarkersInv
<1> QED BY <1>4, <1>5

-----------------------------------------------------------------------------
(* The recovery: no thread calls a plugin while it lasts.                  *)

LEMMA IdleFiles ==
  ASSUME MarkersInv, phase # "running", UNCHANGED threadVars,
         marker' \in [Thread -> Someone], amiss' \in [Thread -> BOOLEAN], crashFile' \in Someone, crashFlag' \in BOOLEAN,
         list' \subseteq Accused, ids' \subseteq Accused,
         writing' \in [on : BOOLEAN, to : SUBSET Accused], WritesEmpty',
         phase' \in {"running", "down", "disabling", "erasing", "recovered"},
         gaveUp' \in BOOLEAN, interrupted' \in Nat
  PROVE  FilesOK'
<1>1. FilesTyped'
  BY DEF threadVars, MarkersInv, FilesOK, FilesTyped
<1>2. CalleeKnown' /\ LeavesSomeone' /\ RunsOnlyWhileRunning'
  BY DEF threadVars, MarkersInv, FilesOK, CalleeKnown, LeavesSomeone, RunsOnlyWhileRunning,
         CallsNothing
<1> QED BY <1>1, <1>2 DEF FilesOK

LEMMA CheckKeeps == MarkersInv /\ CheckCrashFlag => MarkersInv'
<1> SUFFICES ASSUME MarkersInv, CheckCrashFlag PROVE MarkersInv'
  OBVIOUS
<1> USE DEF files
<1>0. /\ phase = "down" /\ UNCHANGED <<threadVars, marker, crashFile, crashFlag, list, writing>>
      /\ FilesTyped /\ WritesEmpty /\ NamesWhileDown /\ DebtWhileDown
      /\ Named \subseteq Accused /\ Named' = Named
  BY DEF CheckCrashFlag, MarkersInv, FilesOK, FilesTyped, NamesOK, DebtOK, Named, Someone
<1>1. ASSUME phase' = "disabling", NEW read \in SUBSET Named, ids' = read,
             gaveUp' = (gaveUp \/ read # Named), UNCHANGED <<amiss, suspects, owed, interrupted>>
      PROVE  MarkersInv'
  <2>1. FilesOK'
    BY <1>0, <1>1, IdleFiles DEF FilesTyped, WritesEmpty
  <2>2. NamesOK'
    BY <1>0, <1>1 DEF NamesOK, NamesWhileRunning, NamesWhileDown, Cause
  <2>3. DebtOK'
    BY <1>0, <1>1 DEF DebtOK, DebtWhileRunning, DebtWhileDown, WritesEmpty
  <2> QED BY <2>1, <2>2, <2>3 DEF MarkersInv
<1>2. CASE /\ ~crashFlag /\ \A t \in Thread : marker[t] = NoOne
           /\ phase' = "running" /\ amiss' = NeverFailed
           /\ owed' = {} /\ suspects' = {} /\ interrupted' = 0
           /\ gaveUp' = (gaveUp \/ crashFile # NoOne) /\ UNCHANGED ids
  <2>1. amiss' \in [Thread -> BOOLEAN] /\ gaveUp' \in BOOLEAN
    BY <1>0, <1>2 DEF NeverFailed, FilesTyped
  <2>2. FilesOK'
    BY <1>0, <1>2, <2>1, IdleFiles DEF FilesTyped, WritesEmpty
  <2>3. ASSUME ~gaveUp' PROVE RecordAgrees' /\ \A t \in Thread : MarkerAgrees(t)'
    <3>1. crashFile = NoOne
      BY <1>2, <2>3
    <3>2. \A t \in Thread : stack'[t] = << >> /\ step'[t] = "code"
      BY <1>0 DEF threadVars, MarkersInv, FilesOK, RunsOnlyWhileRunning, CallsNothing
    <3> QED BY <1>0, <1>2, <3>1, <3>2 DEF RecordAgrees, MarkerAgrees, Top
  <2>4. NamesOK'
    BY <1>2, <2>3 DEF NamesOK, NamesWhileRunning, NamesWhileDown
  <2>5. DebtOK'
    BY <1>2 DEF DebtOK, DebtWhileRunning, DebtWhileDown
  <2> QED BY <2>2, <2>4, <2>5 DEF MarkersInv
<1> QED BY <1>1, <1>2 DEF CheckCrashFlag

(* One plugin after the other is put on the list.                          *)
LEMMA DisableKeeps == MarkersInv /\ (Disable \/ Disabled) => MarkersInv'
<1> SUFFICES ASSUME MarkersInv, Disable \/ Disabled PROVE MarkersInv'
  OBVIOUS
<1> USE DEF blameHistory, callVars
<1>0. /\ phase = "disabling"
      /\ UNCHANGED <<threadVars, marker, amiss, crashFile, crashFlag, phase, suspects, owed,
                     interrupted>>
      /\ FilesTyped /\ WritesEmpty /\ NamesWhileDown /\ DebtWhileDown
      /\ Named' = Named /\ gaveUp' \in BOOLEAN /\ (gaveUp => gaveUp')
  BY DEF Disable, Disabled, MarkersInv, FilesOK, FilesTyped, NamesOK, DebtOK, Named
<1>1. NamesOK'
  BY <1>0 DEF NamesOK, NamesWhileRunning, NamesWhileDown, Cause
<1>2. CASE Disable
  <2>1. PICK p \in ids, ps \in ListRead :
          BeginWrite(ps \cup {p}) /\ ids' = ids \ {p} /\ gaveUp' = (gaveUp \/ ps # list)
    BY <1>2 DEF Disable
  <2>2. /\ ~writing.on /\ list' = {} /\ writing'.on = TRUE /\ writing'.to = ps \cup {p}
        /\ writing.to = {} /\ p \in Accused
        /\ writing' \in [on : BOOLEAN, to : SUBSET Accused]
    BY <1>0, <2>1 DEF BeginWrite, WritesEmpty, FilesTyped, ListRead
  <2>3. FilesOK'
    BY <1>0, <2>1, <2>2, IdleFiles DEF FilesTyped, WritesEmpty
  <2>4. DebtOK'
    BY <1>0, <2>1, <2>2 DEF DebtOK, DebtWhileRunning, DebtWhileDown
  <2> QED BY <1>1, <2>3, <2>4 DEF MarkersInv
<1>3. CASE Disabled
  <2>1. /\ writing.on /\ list' = writing.to /\ writing'.on = FALSE /\ writing'.to = {}
        /\ list = {} /\ ids' = ids /\ list' \subseteq Accused /\ gaveUp' = gaveUp
        /\ writing' \in [on : BOOLEAN, to : SUBSET Accused]
    BY <1>0, <1>3 DEF Disabled, EndWrite, NotWriting, WritesEmpty, FilesTyped
  <2>2. FilesOK'
    BY <1>0, <2>1, IdleFiles DEF FilesTyped, WritesEmpty
  <2>3. DebtOK'
    BY <1>0, <2>1 DEF DebtOK, DebtWhileRunning, DebtWhileDown
  <2> QED BY <1>1, <2>2, <2>3 DEF MarkersInv
<1> QED BY <1>2, <1>3

LEMMA AllDisabledKeeps == MarkersInv /\ AllDisabled => MarkersInv'
<1> SUFFICES ASSUME MarkersInv, AllDisabled PROVE MarkersInv'
  OBVIOUS
<1> USE DEF blameHistory, callVars, files
<1>0. /\ phase = "disabling" /\ phase' = "erasing" /\ ids = {} /\ ~writing.on
      /\ UNCHANGED <<threadVars, amiss, files, writing, ids, blameHistory>>
      /\ FilesTyped /\ WritesEmpty /\ NamesWhileDown /\ DebtWhileDown
      /\ Named' = Named
  BY DEF AllDisabled, MarkersInv, FilesOK, NamesOK, DebtOK, Named
<1>1. FilesOK'
  BY <1>0, IdleFiles DEF FilesTyped, WritesEmpty
<1>2. NamesOK'
  BY <1>0 DEF NamesOK, NamesWhileRunning, NamesWhileDown, Cause
<1>3. ~gaveUp => Named \subseteq list
  BY <1>0 DEF DebtWhileDown, WritesEmpty
<1>4. DebtOK'
  BY <1>0, <1>3 DEF DebtOK, DebtWhileRunning, DebtWhileDown, WritesEmpty
<1> QED BY <1>1, <1>2, <1>4 DEF MarkersInv

(* And only then the names are removed.                                    *)
LEMMA EraseKeeps == MarkersInv /\ ((\E t \in Thread : EraseMarker(t)) \/ EraseRecord) => MarkersInv'
<1> SUFFICES ASSUME MarkersInv, (\E t \in Thread : EraseMarker(t)) \/ EraseRecord
             PROVE  MarkersInv'
  OBVIOUS
<1> USE DEF blameHistory, callVars
<1>0. /\ phase = "erasing" /\ phase' \in {"erasing", "recovered"}
      /\ UNCHANGED <<threadVars, amiss, crashFlag, list, writing, ids, blameHistory>>
      /\ FilesTyped /\ WritesEmpty /\ NamesWhileDown /\ DebtWhileDown
  BY DEF EraseMarker, EraseRecord, MarkersInv, FilesOK, NamesOK, DebtOK
<1>1. /\ marker' \in [Thread -> Someone] /\ crashFile' \in {crashFile, NoOne}
      /\ \A t \in Thread : marker'[t] \in {marker[t], NoOne}
      /\ phase' = "recovered" => crashFile' = NoOne /\ \A t \in Thread : marker'[t] = NoOne
  <2>1. ASSUME NEW t \in Thread, EraseMarker(t)
        PROVE  /\ marker' = [marker EXCEPT ![t] = NoOne] /\ crashFile' = crashFile
               /\ phase' = "erasing"
    BY <1>0, <2>1 DEF EraseMarker
  <2>2. CASE EraseRecord
    BY <1>0, <2>2 DEF EraseRecord, FilesTyped
  <2>3. NoOne \in Someone
    BY DEF Someone
  <2> QED BY <1>0, <2>1, <2>2, <2>3 DEF FilesTyped
<1>2. FilesOK'
  BY <1>0, <1>1, IdleFiles DEF FilesTyped, WritesEmpty, Someone
<1>3. NamesOK'
  BY <1>0, <1>1 DEF NamesOK, NamesWhileRunning, NamesWhileDown, Cause
<1>4. DebtOK'
  BY <1>0 DEF DebtOK, DebtWhileRunning, DebtWhileDown
<1> QED BY <1>2, <1>3, <1>4 DEF MarkersInv

LEMMA GiveUpKeeps == MarkersInv /\ GiveUp => MarkersInv'
<1> SUFFICES ASSUME MarkersInv, GiveUp PROVE MarkersInv'
  OBVIOUS
<1> USE DEF files, callVars
<1>0. /\ phase # "running" /\ phase' = "recovered" /\ gaveUp' = TRUE /\ writing' = NotWriting
      /\ ids' = {} /\ UNCHANGED <<threadVars, amiss, files, interrupted>> /\ FilesTyped
  BY DEF GiveUp, MarkersInv, FilesOK
<1>1. FilesOK'
  BY <1>0, IdleFiles DEF FilesTyped, WritesEmpty, NotWriting
<1>2. NamesOK' /\ DebtOK'
  BY <1>0 DEF NamesOK, NamesWhileRunning, NamesWhileDown, DebtOK, DebtWhileRunning, DebtWhileDown
<1> QED BY <1>1, <1>2 DEF MarkersInv

(* With no name left, the next calls start from nothing.                   *)
LEMMA RemoveFlagKeeps == MarkersInv /\ RemoveFlag => MarkersInv'
<1> SUFFICES ASSUME MarkersInv, RemoveFlag PROVE MarkersInv'
  OBVIOUS
<1>0. /\ phase = "recovered" /\ phase' = "running" /\ crashFlag' \in {FALSE, crashFlag} /\ owed' = {}
      /\ interrupted' = 0 /\ amiss' = NeverFailed
      /\ UNCHANGED <<threadVars, marker, crashFile, list, writing, ids, gaveUp>>
      /\ FilesTyped /\ WritesEmpty /\ NamesWhileDown
  BY DEF RemoveFlag, MarkersInv, FilesOK, NamesOK
<1>1. FilesOK'
  BY <1>0, IdleFiles DEF FilesTyped, WritesEmpty, NeverFailed
<1>2. ASSUME ~gaveUp PROVE RecordAgrees' /\ \A t \in Thread : MarkerAgrees(t)'
  <2>1. crashFile = NoOne /\ \A t \in Thread : marker[t] = NoOne
    BY <1>0, <1>2 DEF NamesWhileDown
  <2>2. \A t \in Thread : stack'[t] = << >> /\ step'[t] = "code"
    BY <1>0 DEF threadVars, MarkersInv, FilesOK, RunsOnlyWhileRunning, CallsNothing
  <2> QED BY <1>0, <2>1, <2>2 DEF RecordAgrees, MarkerAgrees, Top
<1>3. NamesOK'
  BY <1>0, <1>2 DEF NamesOK, NamesWhileRunning, NamesWhileDown
<1>4. DebtOK'
  BY <1>0 DEF DebtOK, DebtWhileRunning, DebtWhileDown
<1> QED BY <1>1, <1>3, <1>4 DEF MarkersInv

-----------------------------------------------------------------------------
LEMMA MarkersInvStep == MarkersInv /\ [MarkersNext]_markerVars => MarkersInv'
<1> SUFFICES ASSUME MarkersInv, [MarkersNext]_markerVars PROVE MarkersInv'
  OBVIOUS
<1>1. CASE UNCHANGED markerVars
  <2>1. FilesOK'
    BY <1>1 DEF markerVars, MarkersInv, FilesOK, FilesTyped, WritesEmpty, CalleeKnown,
                LeavesSomeone, RunsOnlyWhileRunning, CallsNothing
  <2>2. NamesOK'
    BY <1>1 DEF markerVars, MarkersInv, NamesOK, NamesWhileRunning, NamesWhileDown, RecordAgrees,
                Panicked, MarkerAgrees, Top, Cause
  <2>3. DebtOK'
    BY <1>1 DEF markerVars, MarkersInv, DebtOK, DebtWhileRunning, DebtWhileDown, Named
  <2> QED BY <2>1, <2>2, <2>3 DEF MarkersInv
<1>2. CASE Recovering
  BY <1>2, CheckKeeps, DisableKeeps, AllDisabledKeeps, EraseKeeps, GiveUpKeeps, RemoveFlagKeeps
  DEF Recovering
<1>3. CASE Ending
  BY <1>3, DieKeeps, PanicKeeps, RecordKeeps DEF Ending
<1> QED BY <1>1, <1>2, <1>3, CallingKeeps, ListKeeps DEF MarkersNext

(* Files, guards and the steps of the recovery have their types.           *)
THEOREM MarkersTyped == MarkersSpec => []MarkersTypeOK
<1>1. MarkersInv => MarkersTypeOK
  BY DEF MarkersInv, FilesOK, FilesTyped, MarkersTypeOK, Someone
<1> QED BY <1>1, MarkersInvInit, MarkersInvStep, PTL DEF MarkersSpec

(* No file names a plugin that had no call under way at the end, so none is*)
(* disabled without cause, unless an earlier recovery left its names or the*)
(* last change of that marker failed.                                      *)
THEOREM BlameIsJust == MarkersSpec => []OnlyRunningBlamed
<1>1. MarkersInv => OnlyRunningBlamed
  BY DEF MarkersInv, NamesOK, NamesWhileDown, Cause, OnlyRunningBlamed
<1> QED BY <1>1, MarkersInvInit, MarkersInvStep, PTL DEF MarkersSpec

(* What was executing and marked at the end stays named, or is on the list,*)
(* whatever one more end of the process does to the recovery.              *)
THEOREM BlameLasts == MarkersSpec => []BlameIsKept
<1>1. MarkersInv => BlameIsKept
  BY DEF MarkersInv, FilesOK, FilesTyped, DebtOK, DebtWhileDown, BlameIsKept
<1> QED BY <1>1, MarkersInvInit, MarkersInvStep, PTL DEF MarkersSpec
-----------------------------------------------------------------------------
(* config.toml: whoever is at a save has a whole configuration to write,   *)
(* the next of those it was given, and nobody else touches the file.       *)
Turns == [at : {"idle", "write", "rename", "holding"}, values : Seq(Config),
          next : {"idle", "holding"}]
Outcomes == [value : Config, save : BOOLEAN, copy : BOOLEAN]

SaversHold == \A a \in actors : turn[a].at # "idle" => turn[a].values # << >>

ConfigInv ==
  /\ ConfigTypeOK
  /\ window \in {<< >>} \cup {<<value>> : value \in Config}
  /\ turn \in [actors -> Turns] /\ SaversHold
  /\ changes \in Nat /\ trouble \in Nat

(* What a load yields is a configuration, and so is what is saved of it.   *)
LEMMA LoadYields ==
  ASSUME ConfigTypeOK, NEW outcome \in LoadOutcomes \cup {Unreadable}
  PROVE  outcome \in Outcomes /\ SavedBy(outcome) \in Seq(Config)
<1>1. Defaults \in Config
  BY DEF Defaults, Config
<1>2. Unreadable \in Outcomes
  BY <1>1 DEF Unreadable, Outcomes
<1>3. file.state \in {"valid", "old", "invalid", "missing"} /\ file.value \in Config
  BY DEF ConfigTypeOK
<1>4. outcome \in Outcomes
  <2>1. CASE outcome = Unreadable
    BY <2>1, <1>2
  <2>2. CASE outcome \in LoadOutcomes /\ file.state = "valid"
    <3>1. outcome = [value |-> file.value, save |-> FALSE, copy |-> FALSE]
      BY <2>2 DEF LoadOutcomes
    <3> QED BY <3>1, <1>3 DEF Outcomes
  <2>3. CASE outcome \in LoadOutcomes /\ file.state = "old"
    <3>1. outcome = [value |-> file.value, save |-> TRUE, copy |-> FALSE]
      BY <2>3 DEF LoadOutcomes
    <3> QED BY <3>1, <1>3 DEF Outcomes
  <2>4. CASE outcome \in LoadOutcomes /\ file.state = "missing"
    <3>1. outcome = [value |-> Defaults, save |-> TRUE, copy |-> FALSE]
      BY <2>4 DEF LoadOutcomes
    <3> QED BY <3>1, <1>1 DEF Outcomes
  <2>5. CASE outcome \in LoadOutcomes /\ file.state = "invalid"
    <3>1. outcome \in {[value |-> Defaults, save |-> c, copy |-> c] : c \in BOOLEAN}
      BY <2>5 DEF LoadOutcomes
    <3> QED BY <3>1, <1>1 DEF Outcomes
  <2> QED BY <2>1, <2>2, <2>3, <2>4, <2>5, <1>3
<1> QED BY <1>4 DEF Outcomes, SavedBy

LEMMA ChangedTyped ==
  ASSUME NEW value \in Config, NEW part \in Part PROVE Changed(value, part) \in Config
  BY DEF Config, Changed

LEMMA NormalizedTyped ==
  ASSUME NEW value \in Config, NEW other \in Normalized(value) PROVE other \in Config
  BY ChangedTyped DEF Normalized, Part

(* A thread that goes on to save goes on to save whole configurations.     *)
Whole(t) == t \in Turns /\ (t.at # "idle" => t.values # << >>)

LEMMA SavingWhole ==
  ASSUME NEW values \in Seq(Config), NEW next \in {"idle", "holding"}
  PROVE  Whole(Saving(values, next))
  BY DEF Whole, Turns, Saving, Idle

LEMMA SavingOneWhole ==
  ASSUME NEW value \in Config PROVE <<value>> \in Seq(Config) /\ Whole(Saving(<<value>>, "idle"))
<1>1. <<value>> \in Seq(Config)
  OBVIOUS
<1> QED BY <1>1, SavingWhole

LEMMA IdleWhole == Whole(Idle)
  BY DEF Whole, Turns, Idle

LEMMA HoldingWhole == ASSUME NEW value \in Config PROVE Whole(Holding(value))
  BY DEF Whole, Turns, Holding

LEMMA TurnsWhole ==
  ConfigInv => \A a \in actors : Whole(turn[a])
  BY DEF ConfigInv, SaversHold, Whole

(* The step of one thread, whatever it goes on with.                       *)
LEMMA OneTurn ==
  ASSUME ConfigInv, NEW a \in actors, NEW t, Whole(t), turn' = [turn EXCEPT ![a] = t]
  PROVE  turn' \in [actors -> Turns] /\ SaversHold'
  BY DEF ConfigInv, SaversHold, Whole

LEMMA DoneKeeps ==
  ASSUME ConfigInv, NEW a \in actors, turn[a].at # "idle", Done(a)
  PROVE  turn' \in [actors -> Turns] /\ SaversHold'
<1> DEFINE t == turn[a]
<1>1. t \in Turns /\ t.values # << >>
  BY DEF ConfigInv, SaversHold
<1>2. t.values \in Seq(Config) /\ t.values[1] \in Config /\ t.next \in {"idle", "holding"}
  BY <1>1 DEF Turns
<1>3. Len(t.values) > 1 => Tail(t.values) \in Seq(Config)
  BY <1>2
<1>4. PICK u : u = IF Len(t.values) > 1 THEN Saving(Tail(t.values), t.next)
                   ELSE IF t.next = "idle" THEN Idle ELSE Holding(t.values[1])
  OBVIOUS
<1>5. Whole(u)
  BY <1>2, <1>3, <1>4, SavingWhole, IdleWhole, HoldingWhole
<1>6. turn' = [turn EXCEPT ![a] = u]
  BY <1>4 DEF Done
<1> QED BY <1>5, <1>6, OneTurn

LEMMA ConfigInvInit == ConfigInit => ConfigInv
  BY DEF ConfigInit, ConfigInv, ConfigTypeOK, SaversHold, Turns, Idle, Config

-----------------------------------------------------------------------------
(* Steps of a save.                                                        *)
LEMMA WriteTemporaryKeeps ==
  ASSUME ConfigInv, NEW a \in actors, WriteTemporary(a) PROVE ConfigInv'
<1>1. turn' \in [actors -> Turns] /\ SaversHold'
  BY DEF ConfigInv, WriteTemporary, Turns, SaversHold
<1> QED BY <1>1 DEF ConfigInv, ConfigTypeOK, WriteTemporary

LEMMA RenameKeeps == ASSUME ConfigInv, NEW a \in actors, Rename(a) PROVE ConfigInv'
<1>1. turn' \in [actors -> Turns] /\ SaversHold'
  BY DoneKeeps DEF Rename
<1>2. turn[a].values[1] \in Config
  BY DEF Rename, ConfigInv, SaversHold, Turns
<1> QED BY <1>1, <1>2 DEF ConfigInv, ConfigTypeOK, Rename

LEMMA FailSaveKeeps == ASSUME ConfigInv, NEW a \in actors, FailSave(a) PROVE ConfigInv'
<1>1. turn' \in [actors -> Turns] /\ SaversHold'
  BY DoneKeeps DEF FailSave
<1> QED BY <1>1 DEF ConfigInv, ConfigTypeOK, FailSave

-----------------------------------------------------------------------------
(* Steps of the island, its settings and the media worker.                 *)
LEMMA LoadCounts == ASSUME ConfigInv, NEW outcome, Load(outcome) PROVE trouble' \in Nat
  BY DEF ConfigInv, Load

LEMMA LoadIsOne ==
  ASSUME NEW outcome, Load(outcome) PROVE outcome \in LoadOutcomes \cup {Unreadable}
  BY DEF Load

LEMMA ReloadConfigKeeps == ConfigInv /\ ReloadConfig => ConfigInv'
<1> SUFFICES ASSUME ConfigInv, ReloadConfig PROVE ConfigInv'
  OBVIOUS
<1>1. PICK outcome \in LoadOutcomes \cup {Unreadable} :
        /\ Load(outcome) /\ app' = outcome.value
        /\ turn' = [turn EXCEPT !["ui"] = Saving(SavedBy(outcome), "idle")]
  BY DEF ReloadConfig
<1>2. outcome \in Outcomes /\ SavedBy(outcome) \in Seq(Config)
  BY LoadYields DEF ConfigInv
<1>3. turn' \in [actors -> Turns] /\ SaversHold'
  BY <1>1, <1>2, SavingWhole, OneTurn DEF actors
<1>4. app' \in Config /\ trouble' \in Nat
  BY <1>1, <1>2, LoadCounts DEF Outcomes
<1> QED BY <1>3, <1>4 DEF ReloadConfig, ConfigInv, ConfigTypeOK

LEMMA DragKeeps == ConfigInv /\ (Drag \/ DragEnd \/ MigrateDock) => ConfigInv'
<1> SUFFICES ASSUME ConfigInv, Drag \/ DragEnd \/ MigrateDock PROVE ConfigInv'
  OBVIOUS
<1>1. app' \in Config /\ changes' \in Nat
  BY ChangedTyped DEF Drag, DragEnd, MigrateDock, OneChange, ConfigInv, ConfigTypeOK, Part
<1>2. Whole(Saving(<<app>>, "idle")) /\ Whole(Saving(<<app'>>, "idle"))
  BY <1>1, SavingOneWhole DEF ConfigInv, ConfigTypeOK
<1>3. turn' \in [actors -> Turns] /\ SaversHold'
  <2>1. CASE Drag
    BY <2>1 DEF Drag, ConfigInv, SaversHold
  <2>2. CASE DragEnd \/ MigrateDock
    BY <2>2, <1>2, OneTurn DEF DragEnd, MigrateDock, actors
  <2> QED BY <2>1, <2>2
<1> QED BY <1>1, <1>3 DEF Drag, DragEnd, MigrateDock, ConfigInv, ConfigTypeOK

(* Of a load that is normalised, both configurations are saved in turn.    *)
LEMMA SaveNormalizedKeeps ==
  ASSUME ConfigInv, NEW outcome \in LoadOutcomes \cup {Unreadable},
         NEW value \in Normalized(outcome.value), SaveNormalized(outcome, value)
  PROVE  turn' \in [actors -> Turns] /\ SaversHold' /\ changes' \in Nat /\ value \in Config
<1>1. outcome \in Outcomes /\ SavedBy(outcome) \in Seq(Config)
  BY LoadYields DEF ConfigInv
<1>2. value \in Config
  BY <1>1, NormalizedTyped DEF Outcomes
<1>3. PICK more : more \in Seq(Config)
                    /\ more = IF value = outcome.value THEN << >> ELSE <<value>>
  <2>1. << >> \in Seq(Config) /\ <<value>> \in Seq(Config)
    BY <1>2, SavingOneWhole
  <2> QED BY <2>1
<1>4. SavedBy(outcome) \o more \in Seq(Config)
  BY <1>1, <1>3
<1>5. turn' = [turn EXCEPT !["ui"] = Saving(SavedBy(outcome) \o more, "idle")]
  BY <1>3 DEF SaveNormalized
<1>6. turn' \in [actors -> Turns] /\ SaversHold'
  BY <1>4, <1>5, SavingWhole, OneTurn DEF actors
<1>7. changes' \in Nat
  BY DEF SaveNormalized, OneChange, ConfigInv
<1> QED BY <1>2, <1>6, <1>7

LEMMA ChangeWidgetsKeeps == ConfigInv /\ ChangeWidgets => ConfigInv'
<1> SUFFICES ASSUME ConfigInv, ChangeWidgets PROVE ConfigInv'
  OBVIOUS
<1>1. PICK outcome \in LoadOutcomes \cup {Unreadable} : \E value \in Normalized(outcome.value) :
        /\ Load(outcome) /\ app' = [app EXCEPT !["layout"] = value["layout"]]
        /\ SaveNormalized(outcome, value)
  BY DEF ChangeWidgets
<1>2. PICK value \in Normalized(outcome.value) :
        /\ Load(outcome) /\ app' = [app EXCEPT !["layout"] = value["layout"]]
        /\ SaveNormalized(outcome, value)
  BY <1>1
<1>3. turn' \in [actors -> Turns] /\ SaversHold' /\ changes' \in Nat /\ value \in Config
  BY <1>2, SaveNormalizedKeeps
<1>4. trouble' \in Nat
  BY <1>2, LoadCounts
<1>5. app' \in Config
  BY <1>2, <1>3 DEF ConfigInv, ConfigTypeOK, Config, Part
<1> QED BY <1>3, <1>4, <1>5 DEF ChangeWidgets, ConfigInv, ConfigTypeOK

LEMMA CloseGuideKeeps == ConfigInv /\ CloseGuide => ConfigInv'
<1> SUFFICES ASSUME ConfigInv, CloseGuide PROVE ConfigInv'
  OBVIOUS
<1>1. PICK outcome \in LoadOutcomes \cup {Unreadable} :
        /\ Load(outcome)
        /\ turn' = [turn EXCEPT !["ui"] = Saving(Append(SavedBy(outcome),
                       [outcome.value EXCEPT !["guide"] = app["guide"] + 1]), "idle")]
  BY DEF CloseGuide
<1>2. outcome \in Outcomes /\ SavedBy(outcome) \in Seq(Config)
  BY LoadYields DEF ConfigInv
<1>3. PICK done : done = [outcome.value EXCEPT !["guide"] = app["guide"] + 1]
  OBVIOUS
<1>4. app \in Config /\ outcome.value \in Config
  BY <1>2 DEF ConfigInv, ConfigTypeOK, Outcomes
<1>5. app["guide"] + 1 \in Nat
  BY <1>4 DEF Config, Part
<1>6. done \in Config
  BY <1>3, <1>4, <1>5 DEF Config
<1>7. Append(SavedBy(outcome), done) \in Seq(Config)
  BY <1>2, <1>6
<1>8. turn' \in [actors -> Turns] /\ SaversHold'
  BY <1>1, <1>3, <1>7, SavingWhole, OneTurn DEF actors
<1>9. app' \in Config
  BY <1>4, ChangedTyped DEF CloseGuide, Part
<1> QED BY <1>1, <1>8, <1>9, LoadCounts DEF CloseGuide, OneChange, ConfigInv, ConfigTypeOK

LEMMA OpenSettingsKeeps == ConfigInv /\ OpenSettings => ConfigInv'
<1> SUFFICES ASSUME ConfigInv, OpenSettings PROVE ConfigInv'
  OBVIOUS
<1>1. PICK outcome \in LoadOutcomes \cup {Unreadable} : \E value \in Normalized(outcome.value) :
        Load(outcome) /\ window' = <<value>> /\ SaveNormalized(outcome, value)
  BY DEF OpenSettings
<1>2. PICK value \in Normalized(outcome.value) :
        Load(outcome) /\ window' = <<value>> /\ SaveNormalized(outcome, value)
  BY <1>1
<1>3. turn' \in [actors -> Turns] /\ SaversHold' /\ changes' \in Nat /\ value \in Config
  BY <1>2, SaveNormalizedKeeps
<1>4. trouble' \in Nat
  BY <1>2, LoadCounts
<1>5. window' \in {<< >>} \cup {<<v>> : v \in Config} /\ window'[1] \in Config
  BY <1>2, <1>3
<1> QED BY <1>3, <1>4, <1>5 DEF OpenSettings, ConfigInv, ConfigTypeOK

LEMMA SettingsKeep == ConfigInv /\ (ChangeSetting \/ CloseSettings) => ConfigInv'
<1> SUFFICES ASSUME ConfigInv, ChangeSetting \/ CloseSettings PROVE ConfigInv'
  OBVIOUS
<1>1. CASE ChangeSetting
  <2>1. PICK value \in Config : window = <<value>>
    BY <1>1 DEF ChangeSetting, ConfigInv
  <2>2. PICK changed : changed = Changed(value, "preference")
    OBVIOUS
  <2>3. changed \in Config /\ window' = <<changed>>
    BY <1>1, <2>1, <2>2, ChangedTyped DEF ChangeSetting, Part
  <2>4. Whole(Saving(<<changed>>, "idle"))
    BY <2>3, SavingOneWhole
  <2>5. turn' \in [actors -> Turns] /\ SaversHold'
    BY <1>1, <2>3, <2>4, OneTurn DEF ChangeSetting, actors
  <2>6. window' \in {<< >>} \cup {<<v>> : v \in Config} /\ window'[1] \in Config
    BY <2>3
  <2> QED BY <1>1, <2>5, <2>6 DEF ChangeSetting, OneChange, ConfigInv, ConfigTypeOK
<1>2. CASE CloseSettings
  BY <1>2 DEF CloseSettings, ConfigInv, ConfigTypeOK, SaversHold
<1> QED BY <1>1, <1>2

LEMMA RecordAppKeeps == ConfigInv /\ RecordApp => ConfigInv'
<1> SUFFICES ASSUME ConfigInv, RecordApp PROVE ConfigInv'
  OBVIOUS
<1>1. PICK outcome \in LoadOutcomes \cup {Unreadable} :
        /\ Load(outcome)
        /\ turn' = [turn EXCEPT !["worker"] =
                      IF outcome.save THEN Saving(SavedBy(outcome), "holding")
                      ELSE Holding(outcome.value)]
  BY DEF RecordApp
<1>2. outcome \in Outcomes /\ SavedBy(outcome) \in Seq(Config)
  BY LoadYields DEF ConfigInv
<1>3. PICK t : t = IF outcome.save THEN Saving(SavedBy(outcome), "holding")
                   ELSE Holding(outcome.value)
  OBVIOUS
<1>4. Whole(t)
  BY <1>2, <1>3, SavingWhole, HoldingWhole DEF Outcomes
<1>5. turn' \in [actors -> Turns] /\ SaversHold'
  BY <1>1, <1>3, <1>4, OneTurn DEF actors
<1> QED BY <1>1, <1>5, LoadCounts DEF RecordApp, OneChange, ConfigInv, ConfigTypeOK

LEMMA SaveAppKeeps == ConfigInv /\ SaveApp => ConfigInv'
<1> SUFFICES ASSUME ConfigInv, SaveApp PROVE ConfigInv'
  OBVIOUS
<1>1. turn["worker"] \in Turns /\ turn["worker"].values # << >>
  BY DEF SaveApp, ConfigInv, SaversHold, actors
<1>2. turn["worker"].values[1] \in Config
  BY <1>1 DEF Turns
<1>3. PICK changed : changed = Changed(turn["worker"].values[1], "apps")
  OBVIOUS
<1>4. changed \in Config
  BY <1>2, <1>3, ChangedTyped DEF Part
<1>5. PICK t : Whole(t) /\ turn' = [turn EXCEPT !["worker"] = t]
  <2>1. Whole(Saving(<<changed>>, "idle")) /\ Whole(Idle)
    BY <1>4, SavingOneWhole, IdleWhole
  <2>2. \/ turn' = [turn EXCEPT !["worker"] = Saving(<<changed>>, "idle")]
        \/ turn' = [turn EXCEPT !["worker"] = Idle]
    BY <1>3 DEF SaveApp
  <2> QED BY <2>1, <2>2
<1>6. turn' \in [actors -> Turns] /\ SaversHold'
  BY <1>5, OneTurn DEF actors
<1> QED BY <1>6 DEF SaveApp, ConfigInv, ConfigTypeOK

-----------------------------------------------------------------------------
(* Steps of the surroundings.                                              *)
LEMMA EditKeeps == ConfigInv /\ Edit => ConfigInv'
<1> SUFFICES ASSUME ConfigInv, Edit PROVE ConfigInv'
  OBVIOUS
<1>1. Changed(file.value, "preference") \in Config
  BY ChangedTyped DEF ConfigInv, ConfigTypeOK, Part
<1> QED BY <1>1 DEF Edit, ConfigInv, ConfigTypeOK, SaversHold

LEMMA RestartKeeps == ConfigInv /\ Restart => ConfigInv'
<1> SUFFICES ASSUME ConfigInv, Restart PROVE ConfigInv'
  OBVIOUS
<1>1. PICK outcome \in LoadOutcomes :
        /\ app' = outcome.value
        /\ turn' = [a \in actors |-> IF a = "ui" THEN Saving(SavedBy(outcome), "idle") ELSE Idle]
  BY DEF Restart
<1>2. outcome \in Outcomes /\ SavedBy(outcome) \in Seq(Config)
  BY LoadYields DEF ConfigInv
<1>3. Whole(Saving(SavedBy(outcome), "idle")) /\ Whole(Idle)
  BY <1>2, SavingWhole, IdleWhole
<1>4. turn' \in [actors -> Turns] /\ SaversHold'
  BY <1>1, <1>3 DEF Whole, SaversHold
<1>5. app' \in Config
  BY <1>1, <1>2 DEF Outcomes
<1> QED BY <1>4, <1>5 DEF Restart, ConfigInv, ConfigTypeOK

LEMMA ConfigInvStep == ConfigInv /\ [ConfigNext]_configVars => ConfigInv'
<1> SUFFICES ASSUME ConfigInv, [ConfigNext]_configVars PROVE ConfigInv'
  OBVIOUS
<1>1. CASE UNCHANGED configVars
  BY <1>1 DEF configVars, ConfigInv, ConfigTypeOK, SaversHold
<1>2. ASSUME NEW a \in actors, SaveStep(a) \/ FailSave(a) PROVE ConfigInv'
  BY <1>2, WriteTemporaryKeeps, RenameKeeps, FailSaveKeeps DEF SaveStep
<1> QED BY <1>1, <1>2, ReloadConfigKeeps, DragKeeps, ChangeWidgetsKeeps, CloseGuideKeeps,
           OpenSettingsKeeps, SettingsKeep, RecordAppKeeps, SaveAppKeeps, EditKeeps, RestartKeeps
        DEF ConfigNext

(* Only a rename, of the value that comes next in its save, replaces the   *)
(* file; what changes it otherwise is counted as trouble.                  *)
LEMMA OnlyRenamesReplace ==
  ASSUME ConfigInv, [ConfigNext]_configVars, trouble' = trouble, file' # file
  PROVE  \E a \in actors : turn[a].at = "rename" /\ file'.value = turn[a].values[1]
                             /\ file'.state = "valid"
<1>1. ~Edit
  BY DEF Edit, ConfigInv
<1>2. PICK a \in actors : Rename(a)
  BY <1>1 DEF ConfigNext, configVars, SaveStep, WriteTemporary, FailSave, ReloadConfig, Drag,
              DragEnd, MigrateDock, ChangeWidgets, CloseGuide, OpenSettings, ChangeSetting,
              CloseSettings, RecordApp, SaveApp, Restart
<1> QED BY <1>2 DEF Rename

(* Whatever is in the file, in the island, in the window or in the hands of*)
(* a thread is a whole configuration.                                      *)
THEOREM ConfigTyped == ConfigSpec => []ConfigTypeOK
<1>1. ConfigInv => ConfigTypeOK
  BY DEF ConfigInv
<1> QED BY <1>1, ConfigInvInit, ConfigInvStep, PTL DEF ConfigSpec

(* Whatever the two threads save at the same time and wherever the program *)
(* ends, the file changes from one whole configuration to another.         *)
THEOREM FileStaysWhole == ConfigSpec => SavesAreWhole
<1>1. ConfigInv /\ [ConfigNext]_configVars =>
        [trouble' = trouble =>
           \/ file' = file
           \/ \E a \in actors : turn[a].at = "rename" /\ file'.value = turn[a].values[1]
                                  /\ file'.state = "valid"]_file
  BY OnlyRenamesReplace
<1> QED BY <1>1, ConfigInvInit, ConfigInvStep, PTL DEF ConfigSpec, SavesAreWhole
=============================================================================
