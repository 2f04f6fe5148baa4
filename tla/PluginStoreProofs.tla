-------------------------- MODULE PluginStoreProofs --------------------------
(***************************************************************************)
(* The files of a plugin, for any number of hidden directories, versions   *)
(* and stops of the process: what the start can find is complete, a whole  *)
(* version survives, what runs is what is installed, a failed update is    *)
(* taken back, and a removal is whole or undone.                           *)
(***************************************************************************)
EXTENDS PluginStore, TLAPS

Copy == [version : Nat, files : SUBSET File]
Op   == [version : Nat, staging : Place, backup : Place, previous : Nat, wasLoaded : BOOLEAN,
         targets : SUBSET Place, moved : Seq(Place \X Hidden), before : [Visible -> Copy],
         clean : BOOLEAN]
Extraction == [at : {"idle", "writing", "extracted", "failed"}, version : Nat, dir : Place,
               left : SUBSET File]

Moving   == {"back_up", "place", "load", "take_back", "restore", "reload", "clean", "discard"}
Clearing == {"remove", "undo", "not_removed", "delete"}

StoreTyped ==
  /\ disk \in [Place -> Copy] /\ disabled \in BOOLEAN
  /\ loaded \in Nat /\ loadedFrom \in Place
  /\ extraction \in Extraction /\ op \in Op
  /\ manager \in Moving \cup Clearing \cup {"idle", "down"}
  /\ newest \in Nat /\ kept \in BOOLEAN /\ interfered \in BOOLEAN

Extracting == extraction.at # "idle"

(* Where extraction and activation work, and that only one of them does.   *)
Placed ==
  /\ Extracting => extraction.dir \in Hidden
  /\ manager \in Moving => /\ ~Extracting /\ op.staging \in Hidden
                           /\ op.backup \in Hidden \cup {0} /\ op.backup # op.staging
  /\ manager = "back_up" => Exists(Destination)
  /\ manager = "delete" => ~kept

(* What runs has been found where the start looks, and stays there.        *)
EntryBacked ==
  /\ loaded # 0 => /\ manager \in {"idle", "clean", "discard"}
                   /\ loadedFrom \in Visible /\ disk[loadedFrom].version = loaded
                   /\ "entry" \in disk[loadedFrom].files

(* Every directory that can be renamed to the plugin's own is complete.    *)
Complete ==
  ~interfered =>
    /\ disk[Destination] = Absent \/ Whole(Destination)
    /\ extraction.at = "writing" => disk[extraction.dir].files = File \ extraction.left
    /\ extraction.at = "extracted" => Whole(extraction.dir)
    /\ manager \in {"back_up", "place"} => Whole(op.staging)
    /\ manager \in {"place", "load", "take_back", "restore"} /\ op.backup # 0 => Whole(op.backup)
    /\ manager = "load" => Whole(Destination)

(* What a removal has moved aside is there to be moved back or deleted.    *)
Aside ==
  ~interfered /\ manager \in {"remove", "undo", "delete"} =>
    /\ \A i \in 1..Len(op.moved) :
         /\ Exists(op.moved[i][2]) /\ op.moved[i][2] \notin op.targets
         /\ op.moved[i][1] = Destination => Whole(op.moved[i][2])
         /\ Extracting => op.moved[i][1] # extraction.dir /\ op.moved[i][2] # extraction.dir
         /\ \A j \in 1..Len(op.moved) : i # j => op.moved[i][2] # op.moved[j][2]
    /\ \A p \in op.targets : Exists(p) \/ (Extracting /\ p = extraction.dir)

(* A whole version where no error and no next step deletes it.             *)
Keeper(p) ==
  /\ Whole(p)
  /\ Extracting => p # extraction.dir
  /\ manager \in Moving => p # op.staging
  /\ manager \in {"load", "take_back"} => p # Destination
  /\ manager = "discard" /\ op.backup # 0 => p # op.backup
Survivor == kept /\ ~interfered => \E p \in Place : Keeper(p)

StoreInv == StoreTyped /\ Placed /\ EntryBacked /\ Complete /\ Aside /\ Survivor

-----------------------------------------------------------------------------
LEMMA Places ==
  /\ Destination \in Place /\ LooseDll \in Place /\ Visible \subseteq Place /\ Hidden \subseteq Place
  /\ Destination \notin Hidden /\ LooseDll \notin Hidden /\ Visible \cap Hidden = {}
  /\ Destination # LooseDll /\ Destination = 0 /\ \A p \in Hidden : p # 0
  BY StoreAssumption DEF Destination, LooseDll, Visible, Hidden, Place

LEMMA Copies == /\ Absent \in Copy /\ Absent.files = {} /\ Absent.version = 0
                /\ File # {} /\ "entry" \in File /\ "manifest" \in File
  BY DEF Absent, Copy, File

LEMMA WholeExists == ASSUME NEW p, Whole(p) PROVE Exists(p)
  BY Copies DEF Whole, Exists

LEMMA FreshName ==
  ASSUME Fresh # {}
  PROVE  /\ NewName \in Hidden /\ ~Exists(NewName) /\ NewName # extraction.dir
         /\ NewName # op.staging /\ NewName # op.backup
         /\ \A i \in 1..Len(op.moved) : NewName # op.moved[i][1]
  BY DEF Fresh, NewName

(* A rename, and the remains of a deletion.                                *)
LEMMA AfterRename ==
  ASSUME disk \in [Place -> Copy], NEW from \in Place, NEW to \in Place,
         CanRename(from, to), disk' = Renamed(from, to)
  PROVE  /\ disk' \in [Place -> Copy] /\ from # to /\ Exists(from) /\ ~Exists(to)
         /\ disk'[to] = disk[from] /\ disk'[from] = Absent
         /\ \A p \in Place \ {from, to} : disk'[p] = disk[p]
  BY Copies DEF CanRename, Renamed, Exists

LEMMA AfterRemoval ==
  ASSUME disk \in [Place -> Copy], NEW p \in Place, disk' \in Remains(p)
  PROVE  /\ disk' \in [Place -> Copy] /\ \A q \in Place \ {p} : disk'[q] = disk[q]
<1>1. CASE disk' = [disk EXCEPT ![p] = Absent]
  BY <1>1, Copies
<1>2. CASE \E rest \in SUBSET disk[p].files : disk' = [disk EXCEPT ![p].files = rest]
  BY <1>2 DEF Copy
<1> QED BY <1>1, <1>2 DEF Remains

LEMMA NoOpTyped == /\ NoOp \in Op /\ NoOp.moved = << >> /\ NoOp.targets = {}
                   /\ NoExtraction \in Extraction /\ NoExtraction.at = "idle"
<1>1. << >> \in Seq(Place \X Hidden) /\ [p \in Visible |-> Absent] \in [Visible -> Copy]
  BY Copies
<1>2. 0 \in Place
  BY Places
<1> QED BY <1>1, <1>2 DEF NoOp, Op, NoExtraction, Extraction

LEMMA StoreInvInit == StoreInit => StoreInv
<1> SUFFICES ASSUME StoreInit PROVE StoreInv
  OBVIOUS
<1>1. \A p \in Place : disk[p] = Absent
  BY DEF StoreInit, Nothing
<1>2. StoreTyped
  BY NoOpTyped, Places, Copies DEF StoreInit, StoreTyped, Nothing
<1>3. Placed /\ EntryBacked /\ Survivor /\ Aside
  BY NoOpTyped DEF StoreInit, Placed, EntryBacked, Survivor, Aside, Extracting, Moving
<1>4. Complete
  BY <1>1, NoOpTyped, Places DEF StoreInit, Complete
<1> QED BY <1>2, <1>3, <1>4 DEF StoreInv

-----------------------------------------------------------------------------
(* Between operations: loading, the list, and the end of the process.      *)
LEMMA RestKeeps ==
  ASSUME StoreInv, LoadAll \/ SetEnabled \/ DrainFailed \/ PollFailure \/ Stop
  PROVE  StoreInv'
<1> USE DEF entries, counters, storeHistory
<1>0. /\ UNCHANGED <<disk, newest, kept, interfered>>
      /\ manager' \in {"idle", "down"}
      /\ \/ extraction' = NoExtraction
         \/ UNCHANGED extraction
      /\ op' \in {op, NoOp}
      /\ disk \in [Place -> Copy] /\ extraction \in Extraction /\ op \in Op
  BY DEF LoadAll, SetEnabled, DrainFailed, PollFailure, Stop, StoreInv, StoreTyped
<1>1. /\ disabled' \in BOOLEAN /\ loaded' \in Nat /\ loadedFrom' \in Place
      /\ loaded' # 0 => /\ manager' = "idle" /\ loadedFrom' \in Visible
                        /\ disk[loadedFrom'].version = loaded'
                        /\ "entry" \in disk[loadedFrom'].files
  <2>1. disabled \in BOOLEAN /\ loaded \in Nat /\ loadedFrom \in Place
    BY DEF StoreInv, StoreTyped
  <2>2. CASE LoadAll
    BY <1>0, <2>1, <2>2, Places
    DEF LoadAll, LoadFrom, DoNotLoad, StoreInv, EntryBacked, Copy
  <2>3. CASE SetEnabled \/ PollFailure
    BY <2>1, <2>3 DEF SetEnabled, PollFailure, StoreInv, EntryBacked
  <2>4. CASE DrainFailed
    <3>1. disabled' \in BOOLEAN /\ manager' = "idle" /\ (UnloadInstance \/ DoNotLoad)
      BY <2>1, <2>4 DEF DrainFailed
    <3>2. CASE UnloadInstance
      BY <3>1, <3>2, Places DEF UnloadInstance
    <3>3. CASE DoNotLoad
      BY <2>1, <3>1, <3>3 DEF DoNotLoad, StoreInv, EntryBacked
    <3> QED BY <3>1, <3>2, <3>3
  <2>5. CASE Stop
    BY <2>1, <2>5, Places DEF Stop, UnloadInstance, Destination
  <2> QED BY <2>2, <2>3, <2>4, <2>5
<1>2. StoreTyped'
  BY <1>0, <1>1, NoOpTyped DEF StoreInv, StoreTyped
<1>3. Placed' /\ EntryBacked' /\ Aside'
  BY <1>0, <1>1, NoOpTyped
  DEF StoreInv, Placed, EntryBacked, Aside, Extracting, Moving, Clearing
<1>4. Complete'
  BY <1>0, NoOpTyped DEF StoreInv, Complete, Whole
<1>5. Survivor'
  <2>1. ASSUME kept, ~interfered PROVE \E p \in Place : Keeper(p)'
    <3>1. PICK p \in Place : Keeper(p)
      BY <2>1 DEF StoreInv, Survivor
    <3>2. Keeper(p)'
      BY <1>0, <3>1, NoOpTyped DEF Keeper, Whole, Extracting, Moving
    <3> QED BY <3>2
  <2> QED BY <1>0, <2>1 DEF Survivor
<1> QED BY <1>2, <1>3, <1>4, <1>5 DEF StoreInv

LEMMA DropKeeps ==
  ASSUME StoreInv, DropLooseDll
  PROVE  StoreInv'
<1> USE DEF entries
<1>0. /\ manager = "down" /\ ~Exists(LooseDll) /\ newest' = newest + 1
      /\ disk' = [disk EXCEPT ![LooseDll] = [version |-> newest', files |-> {"entry"}]]
      /\ UNCHANGED <<disabled, loaded, loadedFrom, extraction, manager, op, kept, interfered>>
      /\ disk \in [Place -> Copy] /\ extraction \in Extraction /\ op \in Op /\ newest \in Nat
  BY DEF DropLooseDll, storeHistory, StoreInv, StoreTyped
<1>1. disk' \in [Place -> Copy] /\ \A p \in Place \ {LooseDll} : disk'[p] = disk[p]
  <2>1. [version |-> newest', files |-> {"entry"}] \in Copy
    BY <1>0 DEF Copy, File
  <2> QED BY <1>0, <2>1
<1>2. StoreTyped'
  BY <1>0, <1>1 DEF StoreInv, StoreTyped
<1>3. Placed' /\ EntryBacked' /\ Aside'
  BY <1>0 DEF StoreInv, Placed, EntryBacked, Aside, Extracting, Moving
<1>4. Complete'
  BY <1>0, <1>1, Places DEF StoreInv, Complete, Whole, Placed, Extracting
<1>5. Survivor'
  <2>1. ASSUME kept, ~interfered PROVE \E p \in Place : Keeper(p)'
    <3>1. PICK p \in Place : Keeper(p)
      BY <2>1 DEF StoreInv, Survivor
    <3>2. p # LooseDll
      BY <1>0, <3>1, WholeExists DEF Keeper
    <3>3. Keeper(p)'
      BY <1>0, <1>1, <3>1, <3>2 DEF Keeper, Whole, Extracting
    <3> QED BY <3>3
  <2> QED BY <1>0, <2>1 DEF Survivor
<1> QED BY <1>2, <1>3, <1>4, <1>5 DEF StoreInv

-----------------------------------------------------------------------------
(* An extraction works in a hidden directory that nobody else has.         *)
LEMMA ExtractionKeeps ==
  ASSUME StoreInv, NEW d \in Hidden,
         UNCHANGED <<disabled, entries, manager, op, storeHistory>>,
         newest' \in Nat, extraction' \in Extraction, disk' \in [Place -> Copy],
         \A p \in Place \ {d} : disk'[p] = disk[p],
         extraction'.at # "idle" => extraction'.dir = d,
         Extracting => extraction.dir = d,
         \/ Extracting /\ extraction'.at # "idle"
         \/ manager = "idle" /\ ~Exists(d),
         ~interfered => /\ extraction'.at = "writing" => disk'[d].files = File \ extraction'.left
                        /\ extraction'.at = "extracted" => disk'[d].files = File
  PROVE  StoreInv'
<1> USE DEF entries, storeHistory
<1>0. d \in Place /\ d # Destination /\ d # LooseDll /\ d \notin Visible
  BY Places
<1>1. StoreTyped'
  BY DEF StoreInv, StoreTyped
<1>2. manager \notin Moving
  BY DEF StoreInv, Placed, Moving
<1>3. Placed'
  BY <1>0, <1>2 DEF StoreInv, Placed, Extracting, Exists, Moving
<1>4. EntryBacked'
  BY <1>0, Places DEF StoreInv, EntryBacked
<1>5. Complete'
  BY <1>0, <1>2, Places DEF StoreInv, Complete, Whole, Moving
<1>6. Aside'
  <2>1. CASE manager = "idle"
    BY <2>1 DEF Aside
  <2>2. CASE Extracting /\ extraction'.at # "idle"
    <3> SUFFICES ASSUME ~interfered, manager \in {"remove", "undo", "delete"} PROVE Aside'
      BY DEF Aside
    <3>1. op \in Op /\ op.moved \in Seq(Place \X Hidden) /\ op.targets \subseteq Place
      BY DEF StoreInv, StoreTyped, Op
    <3>2. ASSUME NEW i \in 1..Len(op.moved)
          PROVE  /\ op.moved[i][2] \in Place /\ op.moved[i][2] # d /\ op.moved[i][1] # d
                 /\ Exists(op.moved[i][2])
      <4>1. op.moved[i] \in Place \X Hidden
        BY <3>1
      <4>2. op.moved[i][2] \in Place
        BY <4>1, Places
      <4> QED BY <2>2, <4>2 DEF StoreInv, Aside
    <3>3. \A i \in 1..Len(op.moved) : disk'[op.moved[i][2]] = disk[op.moved[i][2]]
      BY <3>2
    <3>4. ASSUME NEW p \in op.targets PROVE Exists(p)' \/ p = d
      BY <2>2, <3>1 DEF StoreInv, Aside, Exists
    <3>5. /\ \A i \in 1..Len(op.moved) :
               /\ Exists(op.moved[i][2])' /\ op.moved[i][2] \notin op.targets
               /\ op.moved[i][1] = Destination => Whole(op.moved[i][2])'
               /\ op.moved[i][1] # d /\ op.moved[i][2] # d
               /\ \A j \in 1..Len(op.moved) : i # j => op.moved[i][2] # op.moved[j][2]
      BY <3>2, <3>3 DEF StoreInv, Aside, Exists, Whole
    <3> QED BY <2>2, <3>4, <3>5 DEF Aside, Extracting
  <2> QED BY <2>1, <2>2
<1>7. Survivor'
  <2>1. ASSUME kept, ~interfered PROVE \E p \in Place : Keeper(p)'
    <3>1. PICK p \in Place : Keeper(p)
      BY <2>1 DEF StoreInv, Survivor
    <3>2. p # d
      BY <3>1, WholeExists DEF Keeper
    <3>3. Keeper(p)'
      BY <1>2, <3>1, <3>2 DEF Keeper, Whole, Extracting, Moving
    <3> QED BY <3>3
  <2> QED BY <2>1 DEF Survivor
<1> QED BY <1>1, <1>3, <1>4, <1>5, <1>6, <1>7 DEF StoreInv

LEMMA InstallingKeeps ==
  ASSUME StoreInv,
         BeginExtraction \/ (\E f \in File : Extract(f)) \/ FinishExtraction \/ FailExtraction
  PROVE  StoreInv'
<1> USE DEF counters
<1>0. /\ disk \in [Place -> Copy] /\ extraction \in Extraction /\ newest \in Nat
      /\ Extracting => extraction.dir \in Hidden
      /\ \A d \in Hidden : d \in Place
  BY Places DEF StoreInv, StoreTyped, Placed
<1>1. CASE BeginExtraction
  <2> DEFINE d == NewName
  <2>1. /\ d \in Hidden /\ ~Exists(d)
        /\ manager = "idle" /\ extraction.at = "idle" /\ newest' = newest + 1
        /\ extraction' = [at |-> "writing", version |-> newest', dir |-> d, left |-> File]
        /\ disk' = [disk EXCEPT ![d] = [version |-> newest', files |-> {}]]
        /\ UNCHANGED <<disabled, entries, manager, op, storeHistory>>
    BY <1>1, FreshName DEF BeginExtraction
  <2> HIDE DEF d
  <2>2. [version |-> newest', files |-> {}] \in Copy /\ newest' \in Nat
    BY <1>0, <2>1 DEF Copy
  <2>3. extraction' \in Extraction /\ extraction'.at = "writing" /\ extraction'.dir = d
        /\ extraction'.left = File
    BY <1>0, <2>1, <2>2 DEF Extraction
  <2>4. disk' \in [Place -> Copy] /\ disk'[d].files = {}
        /\ \A p \in Place \ {d} : disk'[p] = disk[p]
    BY <1>0, <2>1, <2>2
  <2> QED BY <2>1, <2>2, <2>3, <2>4, ExtractionKeeps DEF Extracting
<1>2. ASSUME NEW f \in File, Extract(f) PROVE StoreInv'
  <2> DEFINE d == extraction.dir
  <2>1. /\ extraction.at = "writing" /\ f \in extraction.left /\ d \in Hidden
        /\ extraction' = [extraction EXCEPT !.left = @ \ {f}]
        /\ disk' = [disk EXCEPT ![d] = [version |-> extraction.version,
                                        files |-> disk[d].files \cup {f}]]
        /\ UNCHANGED <<disabled, entries, manager, op, newest, storeHistory>>
    BY <1>0, <1>2 DEF Extract, Extracting
  <2>2. extraction' \in Extraction /\ extraction'.at = "writing" /\ extraction'.dir = d
        /\ extraction'.left = extraction.left \ {f} /\ extraction.left \subseteq File
    BY <1>0, <2>1 DEF Extraction
  <2>3. [version |-> extraction.version, files |-> disk[d].files \cup {f}] \in Copy
    BY <1>0, <2>1 DEF Extraction, Copy
  <2>4. disk' \in [Place -> Copy] /\ disk'[d].files = disk[d].files \cup {f}
        /\ \A p \in Place \ {d} : disk'[p] = disk[p]
    BY <1>0, <2>1, <2>3
  <2>5. ~interfered => disk'[d].files = File \ extraction'.left
    <3>1. ~interfered => disk[d].files = File \ extraction.left
      BY <2>1 DEF StoreInv, Complete
    <3> QED BY <2>1, <2>2, <2>4, <3>1
  <2>6. newest' \in Nat
    BY <1>0, <2>1
  <2> HIDE DEF d
  <2> QED BY <2>1, <2>2, <2>4, <2>5, <2>6, ExtractionKeeps DEF Extracting, d
<1>3. CASE FinishExtraction
  <2> DEFINE d == extraction.dir
  <2>1. /\ extraction.at = "writing" /\ extraction.left = {} /\ d \in Hidden
        /\ extraction' = [extraction EXCEPT !.at = "extracted"]
        /\ UNCHANGED <<disk, disabled, entries, manager, op, newest, storeHistory>>
    BY <1>0, <1>3 DEF FinishExtraction, Extracting
  <2>2. extraction' \in Extraction /\ extraction'.at = "extracted" /\ extraction'.dir = d
    BY <1>0, <2>1 DEF Extraction
  <2>3. ~interfered => disk[d].files = File
    BY <2>1 DEF StoreInv, Complete
  <2> QED BY <1>0, <2>1, <2>2, <2>3, ExtractionKeeps DEF Extracting
<1>4. CASE FailExtraction
  <2> DEFINE d == extraction.dir
  <2>1. /\ extraction.at = "writing" /\ d \in Hidden /\ disk' \in Remains(d)
        /\ extraction' = [extraction EXCEPT !.at = "failed", !.left = {}]
        /\ UNCHANGED <<disabled, entries, manager, op, newest, storeHistory>>
    BY <1>0, <1>4 DEF FailExtraction, Extracting
  <2>2. extraction' \in Extraction /\ extraction'.at = "failed" /\ extraction'.dir = d
    BY <1>0, <2>1 DEF Extraction
  <2>3. disk' \in [Place -> Copy] /\ \A p \in Place \ {d} : disk'[p] = disk[p]
    BY <1>0, <2>1, AfterRemoval
  <2> QED BY <1>0, <2>1, <2>2, <2>3, ExtractionKeeps DEF Extracting
<1> QED BY <1>1, <1>2, <1>3, <1>4

-----------------------------------------------------------------------------
(* An activation has the files for itself.                                 *)
LEMMA BeginActivationKeeps == ASSUME StoreInv, BeginActivation PROVE StoreInv'
<1> USE DEF counters, storeHistory, entries
<1>0. /\ manager = "idle" /\ extraction.at = "extracted" /\ extraction' = NoExtraction
      /\ manager' \in {"back_up", "place", "clean"}
      /\ UNCHANGED <<disk, disabled, newest, kept, interfered>>
      /\ disk \in [Place -> Copy] /\ extraction \in Extraction /\ extraction.dir \in Hidden
      /\ extraction.dir \in Place
      /\ manager' = "back_up" => Exists(Destination)
  BY Places DEF BeginActivation, StoreInv, StoreTyped, Placed, Extracting
<1>1. op' \in Op /\ op'.staging = extraction.dir /\ op'.backup = 0 /\ op'.moved = << >>
  <2>1. disk[Destination].version \in Nat /\ [p \in Visible |-> disk[p]] \in [Visible -> Copy]
        /\ extraction.version \in Nat
    BY <1>0, Places DEF Copy, Extraction
  <2>2. NoOp.backup = 0
    BY DEF NoOp
  <2> DEFINE previous == IF "manifest" \in disk[Destination].files
                         THEN disk[Destination].version ELSE 0
             before == [p \in Visible |-> disk[p]]
  <2>3. previous \in Nat /\ before \in [Visible -> Copy]
    BY <2>1
  <2> HIDE DEF previous, before
  <2>4. op' = [NoOp EXCEPT !.version = extraction.version, !.staging = extraction.dir,
                        !.previous = previous,
                        !.wasLoaded = loaded # 0, !.before = before]
    BY DEF BeginActivation, previous, before
  <2> QED BY <1>0, <2>1, <2>2, <2>3, <2>4, NoOpTyped DEF Op
<1>2. loaded' \in Nat /\ loadedFrom' \in Place
      /\ (loaded' # 0 => manager' = "clean" /\ UNCHANGED entries)
  BY Places DEF BeginActivation, UnloadInstance, StoreInv, StoreTyped, Destination
<1>3. StoreTyped'
  BY <1>0, <1>1, <1>2, NoOpTyped DEF StoreInv, StoreTyped, Moving
<1>4. Placed' /\ EntryBacked' /\ Aside'
  <2>1. Placed'
    BY <1>0, <1>1, NoOpTyped, Places DEF Placed, Extracting, Exists, Moving
  <2>2. EntryBacked'
    BY <1>0, <1>2 DEF StoreInv, EntryBacked
  <2> QED BY <1>0, <2>1, <2>2 DEF Aside
<1>5. Complete'
  BY <1>0, <1>1, NoOpTyped DEF StoreInv, Complete, Whole
<1>6. Survivor'
  <2>1. ASSUME kept, ~interfered PROVE \E p \in Place : Keeper(p)'
    <3>1. PICK p \in Place : Keeper(p)
      BY <2>1 DEF StoreInv, Survivor
    <3>2. Keeper(p)'
      BY <1>0, <1>1, <3>1, NoOpTyped DEF Keeper, Whole, Extracting
    <3> QED BY <3>2
  <2> QED BY <1>0, <2>1 DEF Survivor
<1> QED BY <1>3, <1>4, <1>5, <1>6 DEF StoreInv

LEMMA ActivatingTyped ==
  ASSUME StoreInv, manager \in Moving, manager' \in (Moving \ {"back_up"}) \cup {"idle"},
         UNCHANGED <<disabled, extraction, newest, interfered>>, kept' \in BOOLEAN,
         disk' \in [Place -> Copy], op' \in Op, loaded' \in Nat, loadedFrom' \in Place,
         manager' \in Moving => /\ op'.staging = op.staging /\ op'.backup # op.staging
                                /\ op'.backup \in Hidden \cup {0}
  PROVE  StoreTyped' /\ Placed' /\ Aside'
<1>1. StoreTyped'
  BY DEF StoreInv, StoreTyped
<1>2. Placed' /\ Aside'
  BY DEF StoreInv, Placed, Aside, Extracting, Moving
<1> QED BY <1>1, <1>2

LEMMA BackUpKeeps == ASSUME StoreInv, BackUp PROVE StoreInv'
<1> USE DEF counters, storeHistory, entries
<1>0. /\ manager = "back_up" /\ UNCHANGED <<disabled, entries, extraction, newest, kept, interfered>>
      /\ disk \in [Place -> Copy] /\ op \in Op /\ ~Extracting /\ op.staging \in Hidden
      /\ op.backup \in Hidden \cup {0} /\ op.backup # op.staging
      /\ loaded = 0 /\ loadedFrom \in Place
  BY DEF BackUp, StoreInv, StoreTyped, Placed, EntryBacked, Moving
<1>1. CASE manager' = "reload" /\ UNCHANGED <<disk, op>>
  <2>1. StoreTyped' /\ Placed' /\ Aside'
    BY <1>0, <1>1, ActivatingTyped DEF Moving, StoreInv, StoreTyped
  <2>2. EntryBacked' /\ Complete'
    BY <1>0, <1>1 DEF StoreInv, EntryBacked, Complete, Whole
  <2>3. ASSUME kept, ~interfered PROVE \E p \in Place : Keeper(p)'
    BY <1>0, <1>1, <2>3 DEF StoreInv, Survivor, Keeper, Whole, Extracting, Moving
  <2> QED BY <1>0, <2>1, <2>2, <2>3 DEF StoreInv, Survivor
<1>2. CASE /\ disk' = Renamed(Destination, NewName) /\ op' = [op EXCEPT !.backup = NewName]
           /\ manager' = "place" /\ Fresh # {}
  <2> DEFINE n == NewName
  <2>1. n \in Hidden /\ n \in Place /\ ~Exists(n) /\ n # op.staging /\ n # extraction.dir
        /\ n # Destination
    BY <1>2, FreshName, Places
  <2>2. disk' = Renamed(Destination, n) /\ op' = [op EXCEPT !.backup = n] /\ manager' = "place"
    BY <1>2
  <2> HIDE DEF n
  <2>3. /\ disk' \in [Place -> Copy] /\ disk'[n] = disk[Destination]
        /\ disk'[Destination] = Absent
        /\ \A p \in Place \ {Destination, n} : disk'[p] = disk[p]
        /\ Exists(Destination)
    BY <1>0, <2>1, <2>2, AfterRename, Places DEF CanRename, StoreInv, Placed
  <2>4. op' \in Op /\ op'.staging = op.staging /\ op'.backup = n
    BY <1>0, <2>1, <2>2 DEF Op
  <2>5. StoreTyped' /\ Placed' /\ Aside'
    BY <1>0, <2>1, <2>2, <2>3, <2>4, ActivatingTyped DEF Moving, StoreInv, StoreTyped
  <2>6. EntryBacked' /\ Complete'
    <3>1. ~interfered => Whole(op.staging) /\ Whole(Destination)
      BY <1>0, <2>3 DEF StoreInv, Complete, Exists
    <3>2. disk'[op'.staging] = disk[op.staging]
      BY <1>0, <2>1, <2>3, <2>4, Places
    <3>3. ~interfered => Whole(op.staging)' /\ Whole(op.backup)'
      BY <2>3, <2>4, <3>1, <3>2 DEF Whole
    <3>4. Complete'
      BY <1>0, <2>2, <2>3, <3>3 DEF Complete, Extracting
    <3> QED BY <1>0, <3>4 DEF EntryBacked
  <2>7. ASSUME kept, ~interfered PROVE \E p \in Place : Keeper(p)'
    <3>1. PICK p \in Place : Keeper(p)
      BY <2>7 DEF StoreInv, Survivor
    <3>2. CASE p = Destination
      BY <1>0, <2>1, <2>2, <2>3, <2>4, <3>1, <3>2 DEF Keeper, Whole, Extracting
    <3>3. CASE p # Destination
      <4>1. p # n
        BY <2>1, <3>1, WholeExists DEF Keeper
      <4> QED BY <1>0, <2>2, <2>3, <2>4, <3>1, <3>3, <4>1 DEF Keeper, Whole, Extracting, Moving
    <3> QED BY <3>2, <3>3
  <2> QED BY <1>0, <2>5, <2>6, <2>7 DEF StoreInv, Survivor
<1> QED BY <1>1, <1>2 DEF BackUp

LEMMA PlaceNewKeeps == ASSUME StoreInv, PlaceNew PROVE StoreInv'
<1> USE DEF counters, storeHistory, entries
<1>0. /\ manager = "place"
      /\ UNCHANGED <<disabled, entries, extraction, op, newest, kept, interfered>>
      /\ disk \in [Place -> Copy] /\ op \in Op /\ ~Extracting /\ op.staging \in Hidden
      /\ op.backup \in Hidden \cup {0} /\ op.backup # op.staging
      /\ loaded = 0 /\ loadedFrom \in Place
  BY DEF PlaceNew, StoreInv, StoreTyped, Placed, EntryBacked, Moving
<1>1. CASE manager' = "restore" /\ UNCHANGED disk
  <2>1. StoreTyped' /\ Placed' /\ Aside'
    BY <1>0, <1>1, ActivatingTyped DEF Moving, StoreInv, StoreTyped
  <2>2. EntryBacked' /\ Complete'
    BY <1>0, <1>1 DEF StoreInv, EntryBacked, Complete, Whole
  <2>3. ASSUME kept, ~interfered PROVE \E p \in Place : Keeper(p)'
    BY <1>0, <1>1, <2>3 DEF StoreInv, Survivor, Keeper, Whole, Extracting, Moving
  <2> QED BY <1>0, <2>1, <2>2, <2>3 DEF StoreInv, Survivor
<1>2. CASE /\ CanRename(op.staging, Destination) /\ disk' = Renamed(op.staging, Destination)
           /\ manager' = "load"
  <2>1. /\ disk' \in [Place -> Copy] /\ disk'[Destination] = disk[op.staging]
        /\ \A p \in Place \ {Destination, op.staging} : disk'[p] = disk[p]
        /\ ~Exists(Destination)
    <3>1. op.staging \in Place /\ Destination \in Place
      BY <1>0, Places
    <3> QED BY <1>0, <1>2, <3>1, AfterRename
  <2>2. StoreTyped' /\ Placed' /\ Aside'
    BY <1>0, <1>2, <2>1, ActivatingTyped DEF Moving, StoreInv, StoreTyped
  <2>3. EntryBacked' /\ Complete'
    <3>1. ~interfered => Whole(Destination)' /\ (op.backup # 0 => Whole(op.backup)')
      BY <1>0, <2>1, Places DEF StoreInv, Complete, Whole
    <3> QED BY <1>0, <1>2, <3>1 DEF EntryBacked, Complete, Extracting, Whole
  <2>4. ASSUME kept, ~interfered PROVE \E p \in Place : Keeper(p)'
    <3>1. PICK p \in Place : Keeper(p)
      BY <2>4 DEF StoreInv, Survivor
    <3>2. p # Destination /\ p # op.staging
      BY <1>0, <2>1, <3>1, WholeExists DEF Keeper, Moving
    <3> QED BY <1>0, <1>2, <2>1, <3>1, <3>2 DEF Keeper, Whole, Extracting
  <2> QED BY <1>0, <2>2, <2>3, <2>4 DEF StoreInv, Survivor
<1> QED BY <1>1, <1>2 DEF PlaceNew

LEMMA LoadNewKeeps == ASSUME StoreInv, LoadNew PROVE StoreInv'
<1> USE DEF counters
<1>0. /\ manager = "load" /\ UNCHANGED <<disk, disabled, extraction, newest, interfered>>
      /\ disk \in [Place -> Copy] /\ op \in Op /\ ~Extracting /\ op.staging \in Hidden
      /\ op.backup \in Hidden \cup {0} /\ op.backup # op.staging
      /\ loaded = 0 /\ loadedFrom \in Place /\ kept \in BOOLEAN
      /\ manager' \in {"discard", "clean", "take_back"}
      /\ manager' # "discard" => kept' = kept
      /\ manager' = "discard" => kept' = TRUE
  BY DEF LoadNew, StoreInv, StoreTyped, Placed, EntryBacked, Moving
<1>1. op' \in Op /\ op'.staging = op.staging /\ op'.backup = op.backup
  BY <1>0 DEF LoadNew, Op
<1>2. /\ loaded' \in Nat /\ loadedFrom' \in Place /\ EntryBacked'
  <2>1. CASE LoadFrom(Destination) /\ manager' \in {"discard", "clean"}
    <3>1. disk[Destination] \in Copy /\ Destination \in Place /\ Destination \in Visible
      BY <1>0, Places DEF Visible
    <3> QED BY <1>0, <2>1, <3>1 DEF LoadFrom, EntryBacked, Copy
  <2>2. CASE DoNotLoad
    BY <1>0, <2>2 DEF DoNotLoad, entries, EntryBacked
  <2> QED BY <2>1, <2>2 DEF LoadNew
<1>3. StoreTyped' /\ Placed' /\ Aside'
  BY <1>0, <1>1, <1>2, ActivatingTyped DEF Moving
<1>4. Complete'
  BY <1>0, <1>1 DEF StoreInv, Complete, Whole, Extracting
<1>5. ASSUME kept', ~interfered PROVE \E p \in Place : Keeper(p)'
  <2>1. CASE manager' = "discard"
    <3>1. Whole(Destination)
      BY <1>0, <1>5 DEF StoreInv, Complete
    <3>2. /\ Destination \in Place /\ Destination # op.staging
          /\ op.backup # 0 => Destination # op.backup
      BY <1>0, Places
    <3>3. Keeper(Destination)'
      BY <1>0, <1>1, <2>1, <3>1, <3>2 DEF Keeper, Whole, Extracting
    <3> QED BY <3>2, <3>3
  <2>2. CASE manager' # "discard"
    <3>1. PICK p \in Place : Keeper(p)
      BY <1>0, <1>5, <2>2 DEF StoreInv, Survivor
    <3> QED BY <1>0, <1>1, <2>2, <3>1 DEF Keeper, Whole, Extracting, Moving
  <2> QED BY <2>1, <2>2
<1> QED BY <1>0, <1>2, <1>3, <1>4, <1>5 DEF StoreInv, Survivor

(* The rollback, each of whose renames may fail.                           *)
LEMMA TakeBackKeeps == ASSUME StoreInv, TakeBack PROVE StoreInv'
<1> USE DEF counters, storeHistory, entries
<1>0. /\ manager = "take_back" /\ manager' = "restore"
      /\ UNCHANGED <<disabled, entries, extraction, newest, kept, interfered>>
      /\ disk \in [Place -> Copy] /\ op \in Op /\ ~Extracting /\ op.staging \in Hidden
      /\ op.backup \in Hidden \cup {0} /\ op.backup # op.staging
      /\ loaded = 0 /\ loadedFrom \in Place
  BY DEF TakeBack, StoreInv, StoreTyped, Placed, EntryBacked, Moving
<1>1. op' \in Op /\ op'.staging = op.staging /\ op'.backup = op.backup
  BY <1>0 DEF TakeBack, Op
<1>2. disk' \in [Place -> Copy]
      /\ \/ UNCHANGED disk
         \/ /\ disk'[Destination] = Absent
            /\ \A p \in Place \ {Destination, op.staging} : disk'[p] = disk[p]
  <2>1. op.staging \in Place /\ Destination \in Place
    BY <1>0, Places
  <2> QED BY <1>0, <2>1, AfterRename DEF TakeBack
<1>3. StoreTyped' /\ Placed' /\ Aside'
  BY <1>0, <1>1, <1>2, ActivatingTyped DEF Moving, StoreInv, StoreTyped
<1>4. EntryBacked' /\ Complete'
  <2>1. ~interfered /\ op.backup # 0 => disk'[op.backup] = disk[op.backup] /\ Whole(op.backup)
    BY <1>0, <1>2, Places DEF StoreInv, Complete
  <2>2. ~interfered => disk'[Destination] = Absent \/ Whole(Destination)'
    BY <1>2 DEF StoreInv, Complete, Whole
  <2> QED BY <1>0, <1>1, <2>1, <2>2 DEF EntryBacked, Complete, Extracting, Whole
<1>5. ASSUME kept, ~interfered PROVE \E p \in Place : Keeper(p)'
  <2>1. PICK p \in Place : Keeper(p)
    BY <1>5 DEF StoreInv, Survivor
  <2>2. p # Destination /\ p # op.staging
    BY <1>0, <2>1 DEF Keeper, Moving
  <2> QED BY <1>0, <1>1, <1>2, <2>1, <2>2 DEF Keeper, Whole, Extracting
<1> QED BY <1>0, <1>3, <1>4, <1>5 DEF StoreInv, Survivor

LEMMA RestoreKeeps == ASSUME StoreInv, Restore PROVE StoreInv'
<1> USE DEF counters, storeHistory, entries
<1>0. /\ manager = "restore" /\ manager' = "reload"
      /\ UNCHANGED <<disabled, entries, extraction, newest, kept, interfered>>
      /\ disk \in [Place -> Copy] /\ op \in Op /\ ~Extracting /\ op.staging \in Hidden
      /\ op.backup \in Hidden \cup {0} /\ op.backup # op.staging
      /\ loaded = 0 /\ loadedFrom \in Place
  BY DEF Restore, StoreInv, StoreTyped, Placed, EntryBacked, Moving
<1>1. op' \in Op /\ op'.staging = op.staging /\ op'.backup = op.backup
  BY <1>0 DEF Restore, Op
<1>2. disk' \in [Place -> Copy]
      /\ \/ UNCHANGED disk
         \/ /\ op.backup # 0 /\ disk'[Destination] = disk[op.backup]
            /\ \A p \in Place \ {Destination, op.backup} : disk'[p] = disk[p]
            /\ ~Exists(Destination)
  <2>1. op.backup \in Place /\ Destination \in Place
    BY <1>0, Places
  <2> QED BY <1>0, <2>1, AfterRename DEF Restore
<1>3. StoreTyped' /\ Placed' /\ Aside'
  BY <1>0, <1>1, <1>2, ActivatingTyped DEF Moving, StoreInv, StoreTyped
<1>4. EntryBacked' /\ Complete'
  <2>1. ~interfered => disk'[Destination] = Absent \/ Whole(Destination)'
    BY <1>0, <1>2 DEF StoreInv, Complete, Whole
  <2> QED BY <1>0, <1>1, <2>1 DEF EntryBacked, Complete, Extracting
<1>5. ASSUME kept, ~interfered PROVE \E p \in Place : Keeper(p)'
  <2>1. PICK p \in Place : Keeper(p)
    BY <1>5 DEF StoreInv, Survivor
  <2>2. CASE UNCHANGED disk
    BY <1>0, <1>1, <2>1, <2>2 DEF Keeper, Whole, Extracting, Moving
  <2>3. CASE ~UNCHANGED disk /\ p = op.backup
    <3>1. Keeper(Destination)'
      BY <1>0, <1>1, <1>2, <2>1, <2>3, Places DEF Keeper, Whole, Extracting
    <3> QED BY <3>1, Places
  <2>4. CASE ~UNCHANGED disk /\ p # op.backup
    <3>1. p # Destination
      BY <1>2, <2>1, <2>4, WholeExists DEF Keeper
    <3> QED BY <1>0, <1>1, <1>2, <2>1, <2>4, <3>1 DEF Keeper, Whole, Extracting, Moving
  <2> QED BY <2>2, <2>3, <2>4
<1> QED BY <1>0, <1>3, <1>4, <1>5 DEF StoreInv, Survivor

LEMMA ReloadKeeps == ASSUME StoreInv, Reload PROVE StoreInv'
<1> USE DEF counters, storeHistory
<1>0. /\ manager = "reload" /\ manager' = "clean"
      /\ UNCHANGED <<disk, disabled, extraction, op, newest, kept, interfered>>
      /\ disk \in [Place -> Copy] /\ op \in Op /\ ~Extracting /\ op.staging \in Hidden
      /\ op.backup \in Hidden \cup {0} /\ op.backup # op.staging
      /\ loaded = 0 /\ loadedFrom \in Place
      /\ LoadFrom(Destination) \/ DoNotLoad
  BY DEF Reload, StoreInv, StoreTyped, Placed, EntryBacked, Moving
<1>1. loaded' \in Nat /\ loadedFrom' \in Place /\ EntryBacked'
  <2>1. disk[Destination] \in Copy /\ Destination \in Place /\ Destination \in Visible
    BY <1>0, Places DEF Visible
  <2> QED BY <1>0, <2>1 DEF LoadFrom, DoNotLoad, entries, EntryBacked, Copy
<1>2. StoreTyped' /\ Placed' /\ Aside'
  BY <1>0, <1>1, ActivatingTyped DEF Moving, StoreInv, StoreTyped
<1>3. Complete'
  BY <1>0 DEF StoreInv, Complete, Whole, Extracting
<1>4. ASSUME kept, ~interfered PROVE \E p \in Place : Keeper(p)'
  BY <1>0, <1>4 DEF StoreInv, Survivor, Keeper, Whole, Extracting, Moving
<1> QED BY <1>0, <1>1, <1>2, <1>3, <1>4 DEF StoreInv, Survivor

(* Only what is hidden is deleted at the end.                              *)
LEMMA EndActivationKeeps == ASSUME StoreInv, CleanStaging \/ Discard PROVE StoreInv'
<1> USE DEF counters, storeHistory, entries
<1> DEFINE d == IF manager = "clean" THEN op.staging ELSE op.backup
<1>0. /\ manager \in {"clean", "discard"} /\ manager' = "idle" /\ op' = NoOp
      /\ UNCHANGED <<disabled, entries, extraction, newest, kept, interfered>>
      /\ disk \in [Place -> Copy] /\ ~Extracting /\ op.staging \in Hidden
      /\ op.backup \in Hidden \cup {0}
      /\ loaded \in Nat /\ loadedFrom \in Place
  BY DEF CleanStaging, Discard, StoreInv, StoreTyped, Placed, Moving
<1>1. disk' \in [Place -> Copy]
      /\ \/ UNCHANGED disk
         \/ d \in Hidden /\ \A p \in Place \ {d} : disk'[p] = disk[p]
  <2>1. d \in Hidden => d \in Place
    BY Places
  <2> QED BY <1>0, <2>1, AfterRemoval DEF CleanStaging, Discard
<1>2. \A p \in Visible : p \in Place /\ disk'[p] = disk[p]
  BY <1>1, Places
<1>3. StoreTyped' /\ Placed' /\ Aside'
  <2>1. disk' \in [Place -> Copy] /\ op' \in Op /\ kept' \in BOOLEAN
    BY <1>0, <1>1, NoOpTyped DEF StoreInv, StoreTyped
  <2>2. manager \in Moving /\ manager' \notin Moving
    BY <1>0 DEF Moving
  <2> HIDE DEF d
  <2>3. loaded' = loaded /\ loadedFrom' = loadedFrom
    BY <1>0
  <2>4. manager' = "idle" /\ loaded \in Nat /\ loadedFrom \in Place
    BY <1>0
  <2>5. UNCHANGED <<disabled, extraction, newest, interfered>>
    BY <1>0
  <2> QED BY <2>1, <2>2, <2>3, <2>4, <2>5, ActivatingTyped
<1>4. EntryBacked' /\ Complete'
  <2>1. EntryBacked'
    BY <1>0, <1>2 DEF StoreInv, EntryBacked
  <2>2. Destination \in Visible
    BY DEF Visible
  <2>3. ~interfered => disk'[Destination] = Absent \/ Whole(Destination)'
    BY <1>2, <2>2 DEF StoreInv, Complete, Whole
  <2>4. Complete'
    BY <1>0, <2>3 DEF Complete, Extracting
  <2> QED BY <2>1, <2>4
<1>5. ASSUME kept, ~interfered PROVE \E p \in Place : Keeper(p)'
  <2>1. PICK p \in Place : Keeper(p)
    BY <1>5 DEF StoreInv, Survivor
  <2>2. d \in Hidden => p # d
    BY <1>0, <2>1, Places DEF Keeper, Moving
  <2>3. disk'[p] = disk[p]
    BY <1>1, <2>2
  <2> HIDE DEF d
  <2> QED BY <1>0, <2>1, <2>3 DEF Keeper, Whole, Extracting, Moving
<1> QED BY <1>0, <1>3, <1>4, <1>5 DEF StoreInv, Survivor

-----------------------------------------------------------------------------
(* A removal, beside an extraction that may be under way.                  *)
LEMMA ClearingTyped ==
  ASSUME StoreInv, manager' \in Clearing \cup {"idle"},
         UNCHANGED <<extraction, newest>>, manager' = "delete" => ~kept',
         disabled' \in BOOLEAN, kept' \in BOOLEAN, interfered' \in BOOLEAN,
         disk' \in [Place -> Copy], op' \in Op, loaded' = 0, loadedFrom' \in Place
  PROVE  StoreTyped' /\ Placed' /\ EntryBacked'
<1>1. StoreTyped'
  BY DEF StoreInv, StoreTyped
<1>2. Placed' /\ EntryBacked'
  BY DEF StoreInv, Placed, EntryBacked, Extracting, Moving, Clearing
<1> QED BY <1>1, <1>2

LEMMA BeginRemovalKeeps == ASSUME StoreInv, BeginRemoval PROVE StoreInv'
<1> USE DEF counters, storeHistory
<1>0. /\ manager = "idle" /\ manager' = "remove" /\ loaded' = 0 /\ loadedFrom' = 0
      /\ op' = [NoOp EXCEPT !.targets = Targets, !.before = [p \in Visible |-> disk[p]]]
      /\ UNCHANGED <<disk, disabled, extraction, newest, kept, interfered>>
      /\ disk \in [Place -> Copy]
  BY DEF BeginRemoval, UnloadInstance, StoreInv, StoreTyped
<1>1. op' \in Op /\ op'.targets = Targets /\ op'.moved = << >>
  <2>1. Targets \in SUBSET Place /\ [p \in Visible |-> disk[p]] \in [Visible -> Copy]
    BY <1>0, Places DEF Targets
  <2> QED BY <1>0, <2>1, NoOpTyped DEF Op
<1>2. StoreTyped' /\ Placed' /\ EntryBacked'
  BY <1>0, <1>1, ClearingTyped, Places DEF Clearing, StoreInv, StoreTyped
<1>3. \A p \in Targets : Exists(p)
  BY Copies DEF Targets, Exists
<1>4. Aside'
  BY <1>0, <1>1, <1>3 DEF Aside, Exists
<1>5. Complete'
  BY <1>0 DEF StoreInv, Complete, Whole, Extracting
<1>6. ASSUME kept, ~interfered PROVE \E p \in Place : Keeper(p)'
  BY <1>0, <1>6 DEF StoreInv, Survivor, Keeper, Whole, Extracting, Moving
<1> QED BY <1>0, <1>2, <1>4, <1>5, <1>6 DEF StoreInv, Survivor

LEMMA MoveAsideKeeps == ASSUME StoreInv, MoveAside PROVE StoreInv'
<1> USE DEF counters, entries
<1>n. PICK n : n = NewName
  OBVIOUS
<1>0. /\ manager = "remove" /\ UNCHANGED <<disabled, entries, extraction, manager, newest, kept>>
      /\ disk \in [Place -> Copy] /\ op \in Op /\ loaded = 0 /\ loadedFrom \in Place
      /\ op.moved \in Seq(Place \X Hidden) /\ op.targets \subseteq Place
      /\ interfered \in BOOLEAN
  BY DEF MoveAside, StoreInv, StoreTyped, EntryBacked, Op
<1>1. PICK p \in op.targets :
        /\ Fresh # {} /\ CanRename(p, n) /\ disk' = Renamed(p, n)
        /\ op' = [op EXCEPT !.targets = @ \ {p}, !.moved = Append(@, <<p, n>>)]
        /\ interfered' = (interfered \/ (Extracting /\ p = extraction.dir))
  BY <1>n DEF MoveAside, Extracting
<1>2. /\ n \in Hidden /\ n \in Place /\ ~Exists(n) /\ n # extraction.dir /\ n # Destination
      /\ p \in Place
  BY <1>0, <1>1, <1>n, FreshName, Places
<1>3. /\ disk' \in [Place -> Copy] /\ disk'[n] = disk[p] /\ disk'[p] = Absent /\ p # n /\ Exists(p)
      /\ \A q \in Place \ {p, n} : disk'[q] = disk[q]
  BY <1>0, <1>1, <1>2, AfterRename
<1>4. /\ op' \in Op /\ op'.targets = op.targets \ {p} /\ op'.moved = Append(op.moved, <<p, n>>)
  <2>1. Append(op.moved, <<p, n>>) \in Seq(Place \X Hidden) /\ op.targets \ {p} \in SUBSET Place
    BY <1>0, <1>2
  <2> DEFINE m == Append(op.moved, <<p, n>>)
  <2>2. op' = [op EXCEPT !.targets = op.targets \ {p}, !.moved = m]
    BY <1>0, <1>1 DEF Op
  <2> HIDE DEF m
  <2>3. op' \in Op /\ op'.targets = op.targets \ {p} /\ op'.moved = m
    BY <1>0, <2>1, <2>2 DEF Op, m
  <2> QED BY <2>3 DEF m
<1>5. StoreTyped' /\ Placed' /\ EntryBacked'
  BY <1>0, <1>1, <1>3, <1>4, ClearingTyped DEF Clearing, StoreInv, StoreTyped, Extracting
<1>6. CASE interfered'
  BY <1>5, <1>6 DEF StoreInv, Complete, Aside, Survivor
<1>7. CASE ~interfered'
  <2>0. ~interfered /\ (Extracting => p # extraction.dir /\ extraction.dir \in Hidden)
    BY <1>0, <1>1, <1>7 DEF StoreInv, Placed
  <2>1. Complete'
    <3>1. Extracting => disk'[extraction.dir] = disk[extraction.dir]
      BY <1>2, <1>3, <2>0, Places
    <3>2. disk'[Destination] = disk[Destination] \/ disk'[Destination] = Absent
      BY <1>2, <1>3, Places
    <3> QED BY <1>0, <2>0, <3>1, <3>2 DEF StoreInv, Complete, Whole, Extracting
  <2>2. Aside'
    <3>1. ASSUME NEW i \in 1..Len(op.moved)
          PROVE  /\ op.moved[i][2] \in Place /\ op.moved[i][2] # p /\ op.moved[i][2] # n
                 /\ disk'[op.moved[i][2]] = disk[op.moved[i][2]]
                 /\ Exists(op.moved[i][2]) /\ op.moved[i][2] \notin op.targets
                 /\ op.moved[i][1] = Destination => Whole(op.moved[i][2])
                 /\ Extracting => /\ op.moved[i][1] # extraction.dir
                                  /\ op.moved[i][2] # extraction.dir
                 /\ \A j \in 1..Len(op.moved) : i # j => op.moved[i][2] # op.moved[j][2]
      <4>1. op.moved[i] \in Place \X Hidden
        BY <1>0
      <4>2. op.moved[i][2] \in Place
        BY <4>1, Places
      <4>3. /\ Exists(op.moved[i][2]) /\ op.moved[i][2] \notin op.targets
            /\ op.moved[i][1] = Destination => Whole(op.moved[i][2])
            /\ Extracting => op.moved[i][1] # extraction.dir /\ op.moved[i][2] # extraction.dir
            /\ \A j \in 1..Len(op.moved) : i # j => op.moved[i][2] # op.moved[j][2]
        BY <1>0, <2>0, <3>1 DEF StoreInv, Aside
      <4>4. op.moved[i][2] # p /\ op.moved[i][2] # n
        BY <1>2, <4>3
      <4> QED BY <1>3, <4>2, <4>3, <4>4
    <3>2. n \notin op.targets
      BY <1>0, <1>2, <2>0 DEF StoreInv, Aside
    <3>3. p = Destination => disk'[n].files = File
      BY <1>3, <2>0 DEF StoreInv, Complete, Exists, Whole
    <3>4. Exists(n)'
      BY <1>3 DEF Exists
    <3>m. PICK m : m = op'.moved
      OBVIOUS
    <3>5. /\ Len(m) = Len(op.moved) + 1 /\ Len(op.moved) \in Nat
          /\ m[Len(op.moved) + 1] = <<p, n>>
          /\ \A i \in 1..Len(op.moved) : m[i] = op.moved[i]
      BY <1>0, <1>4, <3>m
    <3>6. ASSUME NEW i \in 1..Len(m)
          PROVE  /\ Exists(m[i][2])' /\ m[i][2] \notin op'.targets
                 /\ m[i][1] = Destination => disk'[m[i][2]].files = File
                 /\ Extracting => m[i][1] # extraction.dir /\ m[i][2] # extraction.dir
                 /\ \A j \in 1..Len(m) : i # j => m[i][2] # m[j][2]
      <4>1. CASE i \in 1..Len(op.moved)
        <5>1. m[i] = op.moved[i]
          BY <3>5, <4>1
        <5>2. \A j \in 1..Len(m) : i # j => m[i][2] # m[j][2]
          BY <3>1, <3>5, <4>1, <5>1
        <5> QED BY <1>4, <3>1, <4>1, <5>1, <5>2 DEF Exists, Whole
      <4>2. CASE i = Len(op.moved) + 1
        <5>1. m[i] = <<p, n>> /\ m[i][1] = p /\ m[i][2] = n
          BY <3>5, <4>2
        <5>2. \A j \in 1..Len(m) : i # j => m[i][2] # m[j][2]
          BY <3>1, <3>5, <4>2, <5>1
        <5> QED BY <1>2, <1>4, <2>0, <3>2, <3>3, <3>4, <5>1, <5>2 DEF Exists
      <4> QED BY <3>5, <4>1, <4>2
    <3>7. ASSUME NEW q \in op'.targets PROVE Exists(q)' \/ (Extracting /\ q = extraction.dir)
      <4>1. q \in op.targets /\ q # p /\ q # n
        BY <1>4, <3>2
      <4> QED BY <1>0, <1>3, <2>0, <4>1 DEF StoreInv, Aside, Exists
    <3> QED BY <1>0, <3>m, <3>6, <3>7 DEF Aside, Extracting, Whole
  <2>3. ASSUME kept PROVE \E q \in Place : Keeper(q)'
    <3>1. PICK q \in Place : Keeper(q)
      BY <2>0, <2>3 DEF StoreInv, Survivor
    <3>2. CASE q = p
      BY <1>0, <1>2, <1>3, <3>1, <3>2 DEF Keeper, Whole, Extracting, Moving
    <3>3. CASE q # p
      <4>1. q # n
        BY <1>2, <3>1, WholeExists DEF Keeper
      <4> QED BY <1>0, <1>3, <3>1, <3>3, <4>1 DEF Keeper, Whole, Extracting, Moving
    <3> QED BY <3>2, <3>3
  <2> QED BY <1>0, <1>5, <2>1, <2>2, <2>3 DEF StoreInv, Survivor
<1> QED BY <1>6, <1>7

LEMMA UndoKeeps == ASSUME StoreInv, Undo PROVE StoreInv'
<1> USE DEF counters, entries, storeHistory
<1>0. /\ manager = "undo"
      /\ UNCHANGED <<disabled, entries, extraction, newest, kept, interfered>>
      /\ disk \in [Place -> Copy] /\ op \in Op /\ loaded = 0 /\ loadedFrom \in Place
      /\ op.moved \in Seq(Place \X Hidden) /\ op.targets \subseteq Place
  BY DEF Undo, StoreInv, StoreTyped, EntryBacked, Op
<1>1. CASE op.moved = << >>
  <2>1. manager' = "not_removed" /\ UNCHANGED <<disk, op>>
    BY <1>1 DEF Undo
  <2>2. StoreTyped' /\ Placed' /\ EntryBacked'
    BY <1>0, <2>1, ClearingTyped DEF Clearing, StoreInv, StoreTyped
  <2>3. Complete' /\ Aside'
    BY <1>0, <2>1 DEF StoreInv, Complete, Aside, Whole, Extracting
  <2>4. ASSUME kept, ~interfered PROVE \E p \in Place : Keeper(p)'
    BY <1>0, <2>1, <2>4 DEF StoreInv, Survivor, Keeper, Whole, Extracting, Moving
  <2> QED BY <1>0, <2>2, <2>3, <2>4 DEF StoreInv, Survivor
<1>2. CASE op.moved # << >>
  <2>1. PICK k, from, to, m :
          /\ k = Len(op.moved) /\ from = op.moved[k][2] /\ to = op.moved[k][1]
          /\ m = SubSeq(op.moved, 1, k - 1)
    OBVIOUS
  <2>2. /\ k \in 1..Len(op.moved) /\ op.moved[k] \in Place \X Hidden
        /\ from \in Hidden /\ to \in Place /\ from \in Place /\ from # Destination
    <3>1. Len(op.moved) \in Nat /\ Len(op.moved) # 0
      BY <1>0, <1>2
    <3>2. k \in 1..Len(op.moved)
      BY <2>1, <3>1
    <3>3. op.moved[k] \in Place \X Hidden
      BY <1>0, <3>2
    <3>4. from \in Hidden /\ to \in Place
      BY <2>1, <3>3
    <3> QED BY <3>2, <3>3, <3>4, Places
  <2>3. m \in Seq(Place \X Hidden) /\ Len(m) = k - 1 /\ \A i \in 1..(k - 1) : m[i] = op.moved[i]
    BY <1>0, <2>1, <2>2
  <2>4. /\ manager' = "undo" /\ op'.moved = m /\ op' \in Op /\ op'.targets = op.targets
        /\ (CanRename(from, to) /\ disk' = Renamed(from, to)) \/ UNCHANGED disk
    <3>1. /\ manager' = "undo"
          /\ \/ /\ CanRename(from, to) /\ disk' = Renamed(from, to)
                /\ op' = [op EXCEPT !.moved = m]
             \/ UNCHANGED disk /\ op' = [[op EXCEPT !.moved = m] EXCEPT !.clean = FALSE]
      <4>1. /\ manager' = manager
            /\ \/ /\ CanRename(from, to) /\ disk' = Renamed(from, to)
                  /\ op' = [op EXCEPT !.moved = SubSeq(op.moved, 1, Len(op.moved) - 1)]
               \/ /\ UNCHANGED disk
                  /\ op' = [[op EXCEPT !.moved = SubSeq(op.moved, 1, Len(op.moved) - 1)]
                              EXCEPT !.clean = FALSE]
        BY <1>0, <1>2, <2>1 DEF Undo, Op
      <4> QED BY <1>0, <2>1, <4>1
    <3> QED BY <1>0, <2>3, <3>1 DEF Op
  <2>5. \/ UNCHANGED disk
        \/ /\ disk'[to] = disk[from] /\ disk'[from] = Absent /\ Exists(from) /\ ~Exists(to)
           /\ \A q \in Place \ {from, to} : disk'[q] = disk[q]
    BY <1>0, <2>2, <2>4, AfterRename
  <2>6. disk' \in [Place -> Copy]
    BY <1>0, <2>2, <2>4, AfterRename
  <2>7. StoreTyped' /\ Placed' /\ EntryBacked'
    BY <1>0, <2>4, <2>6, ClearingTyped DEF Clearing, StoreInv, StoreTyped
  <2>8. ASSUME ~interfered
        PROVE  /\ to = Destination => Whole(from)
               /\ Extracting => from # extraction.dir /\ to # extraction.dir
    BY <1>0, <2>1, <2>2, <2>8 DEF StoreInv, Aside
  <2>9. Complete'
    <3> SUFFICES ASSUME ~interfered PROVE Complete'
      BY <1>0 DEF Complete
    <3>1. disk'[Destination] = Absent \/ Whole(Destination)'
      <4>1. CASE to = Destination
        BY <1>0, <2>4, <2>5, <2>8, <4>1 DEF StoreInv, Complete, Whole
      <4>2. CASE to # Destination
        BY <1>0, <2>2, <2>5, <4>2, Places DEF StoreInv, Complete, Whole
      <4> QED BY <4>1, <4>2
    <3>2. Extracting => disk'[extraction.dir] = disk[extraction.dir]
      BY <2>5, <2>8, Places DEF StoreInv, Placed
    <3> QED BY <1>0, <2>4, <3>1, <3>2 DEF StoreInv, Complete, Whole, Extracting
  <2>10. Aside'
    <3> SUFFICES ASSUME ~interfered PROVE Aside'
      BY <1>0 DEF Aside
    <3>1. ASSUME NEW i \in 1..Len(m)
          PROVE  /\ disk'[m[i][2]] = disk[m[i][2]]
                 /\ disk[m[i][2]] # Absent /\ m[i][2] \notin op.targets
                 /\ m[i][1] = Destination => disk[m[i][2]].files = File
                 /\ Extracting => m[i][1] # extraction.dir /\ m[i][2] # extraction.dir
                 /\ \A j \in 1..Len(m) : i # j => m[i][2] # m[j][2]
      <4>1. /\ m[i] = op.moved[i] /\ i \in 1..Len(op.moved) /\ i # k
            /\ \A j \in 1..Len(m) : m[j] = op.moved[j] /\ j \in 1..Len(op.moved)
        BY <2>2, <2>3, <3>1
      <4>2. /\ Exists(op.moved[i][2]) /\ op.moved[i][2] \notin op.targets
            /\ op.moved[i][1] = Destination => Whole(op.moved[i][2])
            /\ Extracting => op.moved[i][1] # extraction.dir /\ op.moved[i][2] # extraction.dir
            /\ \A j \in 1..Len(op.moved) : i # j => op.moved[i][2] # op.moved[j][2]
        BY <1>0, <4>1 DEF StoreInv, Aside
      <4>3. m[i][2] # from
        BY <2>1, <2>2, <4>1, <4>2
      <4>4. m[i][2] \in Place
        <5>1. m[i] \in Place \X Hidden
          BY <2>3, <3>1
        <5> QED BY <5>1, Places
      <4>5. disk'[m[i][2]] = disk[m[i][2]]
        BY <2>5, <4>1, <4>2, <4>3, <4>4 DEF Exists
      <4> QED BY <4>1, <4>2, <4>5 DEF Exists, Whole
    <3>2. ASSUME NEW q \in op.targets
          PROVE  disk'[q] # Absent \/ (Extracting /\ q = extraction.dir)
      <4>1. q # from
        BY <1>0, <2>1, <2>2, <3>2 DEF StoreInv, Aside
      <4>2. disk[q] # Absent \/ (Extracting /\ q = extraction.dir)
        BY <1>0, <3>2 DEF StoreInv, Aside, Exists
      <4> QED BY <1>0, <2>5, <3>2, <4>1, <4>2 DEF Exists
    <3>3. \A i \in 1..Len(m) :
            /\ disk'[m[i][2]] # Absent /\ m[i][2] \notin op.targets
            /\ m[i][1] = Destination => disk'[m[i][2]].files = File
            /\ Extracting => m[i][1] # extraction.dir /\ m[i][2] # extraction.dir
            /\ \A j \in 1..Len(m) : i # j => m[i][2] # m[j][2]
      BY <3>1
    <3> QED BY <1>0, <2>4, <3>2, <3>3 DEF Aside, Extracting, Whole, Exists
  <2>11. ASSUME kept, ~interfered PROVE \E q \in Place : Keeper(q)'
    <3>1. PICK q \in Place : Keeper(q)
      BY <2>11 DEF StoreInv, Survivor
    <3>2. CASE UNCHANGED disk
      BY <1>0, <2>4, <3>1, <3>2 DEF Keeper, Whole, Extracting, Moving
    <3>3. CASE ~UNCHANGED disk /\ q = from
      <4>1. Keeper(to)'
        BY <1>0, <2>4, <2>5, <2>8, <2>11, <3>1, <3>3 DEF Keeper, Whole, Extracting, Moving
      <4> QED BY <2>2, <4>1
    <3>4. CASE ~UNCHANGED disk /\ q # from
      <4>1. q # to
        BY <2>5, <3>1, <3>4, WholeExists DEF Keeper
      <4> QED BY <1>0, <2>4, <2>5, <3>1, <3>4, <4>1 DEF Keeper, Whole, Extracting, Moving
    <3> QED BY <3>2, <3>3, <3>4
  <2> QED BY <1>0, <2>7, <2>9, <2>10, <2>11 DEF StoreInv, Survivor
<1> QED BY <1>1, <1>2

(* Deleting what was moved aside comes after the plugin was given up.      *)
LEMMA EndRemovalKeeps ==
  ASSUME StoreInv, RemovalFails \/ Forget \/ DeleteMoved \/ EndRemoval
  PROVE  StoreInv'
<1> USE DEF counters, entries, storeHistory
<1>0. /\ manager \in Clearing /\ manager' \in {"undo", "delete", "idle"}
      /\ UNCHANGED <<entries, extraction, newest, interfered>>
      /\ disk \in [Place -> Copy] /\ op \in Op /\ loaded = 0 /\ loadedFrom \in Place
      /\ op.moved \in Seq(Place \X Hidden)
      /\ kept \in BOOLEAN /\ disabled \in BOOLEAN
  BY DEF RemovalFails, Forget, DeleteMoved, EndRemoval, StoreInv, StoreTyped, EntryBacked, Op,
         Clearing
<1>1. CASE DeleteMoved
  <2>1. /\ manager = "delete" /\ manager' = "delete" /\ ~kept /\ kept' = kept
        /\ disabled' = disabled /\ op.moved # << >>
        /\ disk' \in Remains(op.moved[1][2]) /\ op' = [op EXCEPT !.moved = Tail(@)]
    BY <1>1 DEF DeleteMoved, StoreInv, Placed
  <2>2. PICK d : d = op.moved[1][2]
    OBVIOUS
  <2>3. d \in Hidden /\ d \in Place /\ Tail(op.moved) \in Seq(Place \X Hidden)
    <3>1. op.moved[1] \in Place \X Hidden
      BY <1>0, <2>1
    <3> QED BY <1>0, <2>1, <2>2, <3>1, Places
  <2>4. op' \in Op
    BY <1>0, <2>1, <2>3 DEF Op
  <2>5. disk' \in [Place -> Copy] /\ \A q \in Place \ {d} : disk'[q] = disk[q]
    BY <1>0, <2>1, <2>2, <2>3, AfterRemoval
  <2>6. StoreTyped' /\ Placed' /\ EntryBacked'
    BY <1>0, <2>1, <2>4, <2>5, ClearingTyped DEF Clearing, StoreInv, StoreTyped
  <2>7. disk'[Destination] = disk[Destination]
    BY <2>3, <2>5, Places
  <2>8. op.moved' = Tail(op.moved) /\ op.targets' = op.targets
    BY <1>0, <2>1 DEF Op
  <2>9. \A i \in 1..Len(op.moved') : i + 1 \in 1..Len(op.moved) /\ op.moved'[i] = op.moved[i + 1]
    BY <1>0, <2>1, <2>8
  <2>10. 1 \in 1..Len(op.moved)
    BY <1>0, <2>1
  <2>11. ASSUME ~interfered, Extracting PROVE d # extraction.dir
    BY <2>1, <2>2, <2>10, <2>11 DEF StoreInv, Aside
  <2>12. Complete'
    <3>1. ASSUME ~interfered, Extracting
          PROVE  extraction.dir \in Place /\ disk'[extraction.dir] = disk[extraction.dir]
      BY <2>5, <2>11, <3>1, Places DEF StoreInv, Placed
    <3> QED BY <1>0, <2>1, <2>7, <3>1 DEF StoreInv, Complete, Whole, Extracting
  <2>13. ASSUME ~interfered PROVE Aside'
    <3>1. ASSUME NEW i \in 1..Len(op.moved')
          PROVE  /\ op.moved'[i][2] \in Place \ {d}
                 /\ op.moved'[i] = op.moved[i + 1] /\ i + 1 \in 1..Len(op.moved)
      <4>1. i + 1 # 1 /\ i + 1 \in 1..Len(op.moved) /\ op.moved[i + 1] \in Place \X Hidden
        BY <1>0, <2>9
      <4>2. op.moved[i + 1][2] # op.moved[1][2]
        BY <2>1, <2>10, <2>13, <4>1 DEF StoreInv, Aside
      <4> QED BY <2>2, <2>9, <4>1, <4>2, Places
    <3>2. ASSUME NEW i \in 1..Len(op.moved')
          PROVE  /\ disk'[op.moved'[i][2]] # Absent /\ op.moved'[i][2] \notin op'.targets
                 /\ op.moved'[i][1] = Destination => disk'[op.moved'[i][2]].files = File
                 /\ Extracting => op.moved'[i][1] # extraction.dir
                                 /\ op.moved'[i][2] # extraction.dir
      BY <2>1, <2>5, <2>8, <2>13, <3>1 DEF StoreInv, Aside, Exists, Whole
    <3>3. ASSUME NEW i \in 1..Len(op.moved'), NEW j \in 1..Len(op.moved'), i # j
          PROVE  op.moved'[i][2] # op.moved'[j][2]
      BY <2>1, <2>13, <3>1, <3>3 DEF StoreInv, Aside
    <3>4. ASSUME NEW p \in op'.targets PROVE Exists(p)' \/ (Extracting /\ p = extraction.dir)
      <4>1. p \in op.targets /\ p \in Place /\ p # d
        BY <1>0, <2>1, <2>2, <2>8, <2>10, <2>13 DEF StoreInv, Aside, Op
      <4> QED BY <2>1, <2>5, <2>13, <4>1 DEF StoreInv, Aside, Exists
    <3> QED BY <1>0, <3>2, <3>3, <3>4 DEF Aside, Exists, Whole, Extracting
  <2> QED BY <1>0, <2>1, <2>6, <2>12, <2>13 DEF StoreInv, Survivor, Aside
<1>2. CASE RemovalFails \/ Forget \/ EndRemoval
  <2>1. /\ UNCHANGED disk /\ op' \in {op, NoOp} /\ disabled' \in BOOLEAN
        /\ kept' \in BOOLEAN /\ (kept' => kept) /\ (manager' = "delete" => ~kept')
        /\ manager' \in {"undo", "delete"} => manager = "remove" /\ op' = op
    <3>1. CASE RemovalFails
      BY <1>0, <3>1 DEF RemovalFails
    <3>2. CASE Forget
      BY <1>0, <3>2 DEF Forget
    <3>3. CASE EndRemoval
      BY <1>0, <3>3 DEF EndRemoval
    <3> QED BY <1>2, <3>1, <3>2, <3>3
  <2>2. StoreTyped' /\ Placed' /\ EntryBacked'
    BY <1>0, <2>1, NoOpTyped, ClearingTyped DEF Clearing, StoreInv, StoreTyped
  <2>3. Complete'
    BY <1>0, <2>1 DEF StoreInv, Complete, Whole, Extracting
  <2>4. Aside'
    BY <1>0, <2>1 DEF StoreInv, Aside, Exists, Whole, Extracting
  <2>5. ASSUME kept', ~interfered PROVE \E p \in Place : Keeper(p)'
    <3>1. PICK p \in Place : Keeper(p)
      BY <2>1, <2>5 DEF StoreInv, Survivor
    <3>2. Keeper(p)'
      BY <1>0, <2>1, <3>1 DEF Keeper, Whole, Extracting, Moving
    <3> QED BY <3>2
  <2> QED BY <1>0, <2>2, <2>3, <2>4, <2>5 DEF StoreInv, Survivor
<1> QED BY <1>1, <1>2

-----------------------------------------------------------------------------
LEMMA StoreInvStep == StoreInv /\ [StoreNext]_storeVars => StoreInv'
<1> SUFFICES ASSUME StoreInv, [StoreNext]_storeVars PROVE StoreInv'
  OBVIOUS
<1>1. CASE UNCHANGED storeVars
  BY <1>1
  DEF storeVars, StoreInv, StoreTyped, Placed, EntryBacked, Complete, Aside, Survivor, Keeper,
      Whole, Exists, Extracting
<1>2. CASE Installing
  BY <1>2, InstallingKeeps, RestKeeps DEF Installing
<1>3. CASE Activating
  BY <1>3, BeginActivationKeeps, BackUpKeeps, PlaceNewKeeps, LoadNewKeeps, TakeBackKeeps,
     RestoreKeeps, ReloadKeeps, EndActivationKeeps DEF Activating
<1>4. CASE Removing
  BY <1>4, BeginRemovalKeeps, MoveAsideKeeps, UndoKeeps, EndRemovalKeeps DEF Removing
<1>5. CASE LoadAll \/ Stop \/ DropLooseDll \/ SetEnabled \/ DrainFailed
  BY <1>5, RestKeeps, DropKeeps
<1> QED BY <1>1, <1>2, <1>3, <1>4, <1>5 DEF StoreNext

(* What the start can find of the plugin is all of one package, unless a   *)
(* removal interfered with an extraction.                                  *)
THEOREM NothingHalfShown == StoreSpec => []VisibleIsComplete
<1>1. StoreInv => VisibleIsComplete
  BY DEF StoreInv, Complete, VisibleIsComplete
<1> QED BY <1>1, StoreInvInit, StoreInvStep, PTL DEF StoreSpec

(* A whole version is on the disk at every step of updates and removals,   *)
(* whatever fails and wherever the process stops.                          *)
THEOREM NeverWithoutVersion == StoreSpec => []AVersionSurvives
<1>1. StoreInv => AVersionSurvives
  BY DEF StoreInv, Survivor, Keeper, AVersionSurvives
<1> QED BY <1>1, StoreInvInit, StoreInvStep, PTL DEF StoreSpec

(* Between operations, what runs is what is installed.                     *)
THEOREM InstalledIsRunning == StoreSpec => []RunningIsInstalled
<1>1. StoreInv => RunningIsInstalled
  BY DEF StoreInv, EntryBacked, RunningIsInstalled
<1> QED BY <1>1, StoreInvInit, StoreInvStep, PTL DEF StoreSpec

-----------------------------------------------------------------------------
(* The way back of an update: while no rollback has failed, what was there *)
(* before is where the next rename takes it from.                          *)
Updatable ==
  op.clean =>
    /\ manager = "back_up" => op.backup = 0
    /\ manager \in {"back_up", "reload", "clean"} =>
         disk[Destination] = op.before[Destination]
    /\ manager \in {"place", "load", "take_back", "restore"} =>
         IF op.backup = 0 THEN op.before[Destination] = Absent
                          ELSE disk[op.backup] = op.before[Destination]
    /\ manager \in {"place", "restore"} => disk[Destination] = Absent

LEMMA BeginUpdate == ASSUME StoreInv, BeginActivation PROVE Updatable'
<1>1. /\ manager' \in {"back_up", "place", "clean"} /\ UNCHANGED disk
      /\ manager' = "place" => disk[Destination] = Absent
  BY DEF BeginActivation, Exists
<1>2. op'.backup = 0 /\ op'.before[Destination] = disk[Destination]
  <2> DEFINE previous == IF "manifest" \in disk[Destination].files
                         THEN disk[Destination].version ELSE 0
             before == [p \in Visible |-> disk[p]]
  <2>1. before[Destination] = disk[Destination]
    BY DEF Visible
  <2> HIDE DEF previous, before
  <2>2. op' = [NoOp EXCEPT !.version = extraction.version, !.staging = extraction.dir,
                        !.previous = previous,
                        !.wasLoaded = loaded # 0, !.before = before]
    BY DEF BeginActivation, previous, before
  <2> QED BY <2>1, <2>2 DEF NoOp
<1> QED BY <1>1, <1>2 DEF Updatable

LEMMA UpdateGoesOn ==
  ASSUME StoreInv, Updatable,
         BackUp \/ PlaceNew \/ LoadNew \/ TakeBack \/ Restore \/ Reload
  PROVE  Updatable'
<1>0. /\ disk \in [Place -> Copy] /\ op \in Op /\ Destination \in Place
      /\ manager \in Moving => /\ op.staging \in Hidden /\ op.staging \in Place
                               /\ op.backup \in Hidden \cup {0} /\ op.backup \in Place
                               /\ op.backup # op.staging /\ op.staging # Destination
                               /\ Destination = 0
  BY Places DEF StoreInv, StoreTyped, Placed
<1>1. CASE BackUp
  <2>1. CASE manager' = "reload" /\ UNCHANGED <<disk, op>>
    BY <1>1, <2>1 DEF BackUp, Updatable
  <2>2. CASE /\ disk' = Renamed(Destination, NewName) /\ op' = [op EXCEPT !.backup = NewName]
             /\ manager' = "place" /\ Fresh # {}
    <3>1. PICK n : n = NewName
      OBVIOUS
    <3>2. n \in Hidden /\ n \in Place /\ ~Exists(n) /\ n # 0
      BY <2>2, <3>1, FreshName, Places
    <3>3. Exists(Destination) /\ manager = "back_up"
      BY <1>1 DEF BackUp, StoreInv, Placed
    <3>4. disk'[n] = disk[Destination] /\ disk'[Destination] = Absent
      BY <1>0, <2>2, <3>1, <3>2, <3>3, AfterRename DEF CanRename
    <3>5. op'.backup = n /\ op'.before = op.before /\ op'.clean = op.clean
      BY <1>0, <2>2, <3>1 DEF Op
    <3> QED BY <2>2, <3>2, <3>3, <3>4, <3>5 DEF Updatable
  <2> QED BY <1>1, <2>1, <2>2 DEF BackUp
<1>2. CASE PlaceNew
  <2>1. manager = "place" /\ op' = op
    BY <1>2 DEF PlaceNew
  <2>2. CASE manager' = "restore" /\ UNCHANGED disk
    BY <2>1, <2>2 DEF Updatable
  <2>3. CASE CanRename(op.staging, Destination) /\ disk' = Renamed(op.staging, Destination)
             /\ manager' = "load"
    <3>1. \A p \in Place \ {Destination, op.staging} : disk'[p] = disk[p]
      BY <1>0, <2>1, <2>3, AfterRename DEF Moving
    <3> QED BY <1>0, <2>1, <2>3, <3>1 DEF Updatable, Moving
  <2> QED BY <1>2, <2>2, <2>3 DEF PlaceNew
<1>3. CASE LoadNew
  <2>1. /\ manager = "load" /\ UNCHANGED disk
        /\ manager' \in {"discard", "clean", "take_back"}
        /\ manager' = "clean" => op'.clean = FALSE
    BY <1>0, <1>3 DEF LoadNew, Op
  <2>2. manager' = "take_back" => op' = op
    BY <1>3 DEF LoadNew
  <2>3. CASE manager' = "take_back"
    BY <2>1, <2>2, <2>3 DEF Updatable
  <2>4. CASE manager' = "clean"
    BY <2>1, <2>4 DEF Updatable
  <2>5. CASE manager' = "discard"
    BY <2>5 DEF Updatable
  <2> QED BY <2>1, <2>3, <2>4, <2>5
<1>4. CASE TakeBack
  <2>1. manager = "take_back" /\ manager' = "restore"
    BY <1>4 DEF TakeBack
  <2>2. CASE /\ CanRename(Destination, op.staging)
             /\ disk' = Renamed(Destination, op.staging) /\ op' = op
    <3>1. /\ disk'[Destination] = Absent
          /\ \A p \in Place \ {Destination, op.staging} : disk'[p] = disk[p]
      BY <1>0, <2>1, <2>2, AfterRename DEF Moving
    <3> QED BY <1>0, <2>1, <2>2, <3>1 DEF Updatable, Moving
  <2>3. CASE op' = [op EXCEPT !.clean = FALSE]
    BY <1>0, <2>3 DEF Updatable, Op
  <2> QED BY <1>4, <2>2, <2>3 DEF TakeBack
<1>5. CASE Restore
  <2>1. manager = "restore" /\ manager' = "reload"
    BY <1>5 DEF Restore
  <2>2. CASE /\ op.backup # 0 /\ CanRename(op.backup, Destination)
             /\ disk' = Renamed(op.backup, Destination) /\ op' = op
    <3>1. disk'[Destination] = disk[op.backup]
      BY <1>0, <2>1, <2>2, AfterRename DEF Moving
    <3> QED BY <2>1, <2>2, <3>1 DEF Updatable
  <2>3. CASE op' = [op EXCEPT !.clean = FALSE]
    BY <1>0, <2>3 DEF Updatable, Op
  <2>4. CASE op.backup = 0 /\ UNCHANGED <<disk, op>>
    BY <2>1, <2>4 DEF Updatable
  <2> QED BY <1>5, <2>2, <2>3, <2>4 DEF Restore
<1>6. CASE Reload
  BY <1>6 DEF Reload, Updatable
<1> QED BY <1>1, <1>2, <1>3, <1>4, <1>5, <1>6

LEMMA UpdatableStep ==
  ASSUME StoreInv, Updatable, [StoreNext]_storeVars
  PROVE  Updatable'
<1>1. CASE UNCHANGED storeVars
  BY <1>1 DEF storeVars, Updatable
<1>2. CASE manager' \notin Moving \ {"discard"}
  BY <1>2 DEF Moving, Updatable
<1>3. CASE Installing
  BY <1>3 DEF Installing, BeginExtraction, Extract, FinishExtraction, FailExtraction,
     PollFailure, StoreInv, Placed, Extracting, Moving, Updatable
<1>4. CASE Activating
  <2>1. CASE BeginActivation
    BY <2>1, BeginUpdate
  <2>2. CASE CleanStaging \/ Discard
    BY <2>2 DEF CleanStaging, Discard, Updatable
  <2> QED BY <1>4, <2>1, <2>2, UpdateGoesOn DEF Activating
<1>5. CASE Removing \/ LoadAll \/ Stop \/ DropLooseDll \/ SetEnabled \/ DrainFailed
  <2>1. manager' \notin Moving
    BY <1>5 DEF Removing, BeginRemoval, MoveAside, RemovalFails, Undo, Forget, DeleteMoved,
       EndRemoval, LoadAll, Stop, DropLooseDll, SetEnabled, DrainFailed, Moving
  <2> QED BY <1>2, <2>1
<1> QED BY <1>1, <1>3, <1>4, <1>5 DEF StoreNext

(* A failed update whose rollback met no further error leaves the plugin's *)
(* directory as it was.                                                    *)
THEOREM UpdatesRollBack == StoreSpec => []FailedUpdateRestores
<1>1. StoreInit => Updatable
  BY DEF StoreInit, Updatable
<1>2. Updatable => FailedUpdateRestores
  BY DEF Updatable, FailedUpdateRestores
<1> QED BY <1>1, <1>2, StoreInvInit, StoreInvStep, UpdatableStep, PTL DEF StoreSpec

-----------------------------------------------------------------------------
(* A removal, whatever it does to an extraction.  What was moved aside is  *)
(* where it was moved, and no target is.                                   *)
Orderly ==
  manager \in {"remove", "undo"} =>
    /\ \A i \in 1..Len(op.moved) :
         /\ disk[op.moved[i][2]] # Absent /\ op.moved[i][2] \notin op.targets
         /\ Extracting => op.moved[i][2] # extraction.dir
         /\ \A j \in 1..Len(op.moved) : i # j => op.moved[i][2] # op.moved[j][2]
    /\ \A p \in op.targets : disk[p] # Absent \/ (Extracting /\ p = extraction.dir)

(* What the start can find is where it was, or aside under one entry.      *)
Returnable(p) ==
  \/ /\ disk[p] = op.before[p]
     /\ \A i \in 1..Len(op.moved) : op.moved[i][1] # p
  \/ /\ p \notin op.targets /\ disk[p] = Absent
     /\ \E i \in 1..Len(op.moved) :
          /\ op.moved[i][1] = p /\ disk[op.moved[i][2]] = op.before[p]
          /\ \A j \in 1..Len(op.moved) : j # i => op.moved[j][1] # p

Revertible ==
  op.clean => /\ manager \in {"remove", "undo"} => \A p \in Visible : Returnable(p)
              /\ manager = "not_removed" => \A p \in Visible : disk[p] = op.before[p]

(* What remains to be moved is all that the start could find.              *)
Cleared ==
  ~interfered => /\ manager = "remove" => \A p \in Visible \ op.targets : ~Exists(p)
                 /\ manager = "delete" => \A p \in Visible : ~Exists(p)

RemovalInv == Orderly /\ Revertible /\ Cleared

LEMMA BeginRemovalInv == ASSUME StoreInv, BeginRemoval PROVE RemovalInv'
<1>1. /\ manager' = "remove" /\ UNCHANGED <<disk, extraction, interfered>>
      /\ op'.targets = Targets /\ op'.moved = << >>
      /\ \A p \in Visible : op'.before[p] = disk[p]
  <2> DEFINE before == [p \in Visible |-> disk[p]]
  <2>1. \A p \in Visible : before[p] = disk[p]
    OBVIOUS
  <2> HIDE DEF before
  <2>2. op' = [NoOp EXCEPT !.targets = Targets, !.before = before]
    BY DEF BeginRemoval, before
  <2>3. manager' = "remove" /\ UNCHANGED <<disk, extraction, interfered>>
    BY DEF BeginRemoval, storeHistory
  <2> QED BY <2>1, <2>2, <2>3 DEF NoOp
<1>2. \A p \in Targets : disk[p] # Absent
  BY Copies DEF Targets, Exists
<1>3. ~interfered => \A p \in Visible \ Targets : ~Exists(p)
  <2> SUFFICES ASSUME ~interfered, NEW p \in Visible, Exists(p) PROVE p \in Targets
    OBVIOUS
  <2>1. CASE p = LooseDll
    BY <2>1, Places DEF Targets
  <2>2. CASE p = Destination
    <3>1. Whole(Destination)
      BY <2>2 DEF StoreInv, Complete, Exists
    <3> QED BY <2>2, <3>1, Copies, Places DEF Targets, Whole
  <2> QED BY <2>1, <2>2 DEF Visible
<1>4. Orderly' /\ Cleared'
  BY <1>1, <1>2, <1>3 DEF Orderly, Cleared, Exists
<1>5. Revertible'
  BY <1>1 DEF Revertible, Returnable
<1> QED BY <1>4, <1>5 DEF RemovalInv

(* Steps that keep the operation and touch one directory out of sight.     *)
LEMMA AsideRemovalInv ==
  ASSUME StoreInv, RemovalInv, NEW d \in Place \ Visible,
         manager \in Clearing, UNCHANGED <<manager, op, interfered>>,
         \A p \in Place \ {d} : disk'[p] = disk[p],
         Extracting => Extracting' /\ extraction'.dir = extraction.dir /\ extraction.dir = d,
         ~Extracting => ~Extracting' /\ UNCHANGED disk
  PROVE  RemovalInv'
<1>0. /\ op.moved \in Seq(Place \X Hidden) /\ op.targets \subseteq Place
      /\ \A p \in Visible : p \in Place /\ disk'[p] = disk[p]
  BY Places DEF StoreInv, StoreTyped, Op
<1>1. Cleared'
  BY <1>0 DEF RemovalInv, Cleared, Exists
<1>2. ASSUME manager \in {"remove", "undo"}
      PROVE  \A i \in 1..Len(op.moved) : disk'[op.moved[i][2]] = disk[op.moved[i][2]]
  <2> SUFFICES ASSUME NEW i \in 1..Len(op.moved)
               PROVE  disk'[op.moved[i][2]] = disk[op.moved[i][2]]
    OBVIOUS
  <2>1. op.moved[i] \in Place \X Hidden
    BY <1>0
  <2>2. op.moved[i][2] \in Place
    BY <2>1, Places
  <2>3. Extracting => op.moved[i][2] # d
    BY <1>2 DEF RemovalInv, Orderly
  <2> QED BY <2>2, <2>3
<1>3. Orderly'
  BY <1>0, <1>2 DEF RemovalInv, Orderly
<1>4. Revertible'
  BY <1>0, <1>2 DEF RemovalInv, Revertible, Returnable
<1> QED BY <1>1, <1>3, <1>4 DEF RemovalInv

LEMMA MoveAsideRemovalInv == ASSUME StoreInv, RemovalInv, MoveAside PROVE RemovalInv'
<1>n. PICK n : n = NewName
  OBVIOUS
<1>0. /\ manager = "remove" /\ UNCHANGED <<extraction, manager>>
      /\ disk \in [Place -> Copy] /\ op \in Op
      /\ op.moved \in Seq(Place \X Hidden) /\ op.targets \subseteq Place
  BY DEF MoveAside, StoreInv, StoreTyped, Op
<1>1. PICK p \in op.targets :
        /\ Fresh # {} /\ CanRename(p, n) /\ disk' = Renamed(p, n)
        /\ op' = [op EXCEPT !.targets = @ \ {p}, !.moved = Append(@, <<p, n>>)]
        /\ interfered' = (interfered \/ (Extracting /\ p = extraction.dir))
  BY <1>n DEF MoveAside, Extracting
<1>2. /\ n \in Hidden /\ n \in Place /\ disk[n] = Absent /\ n # extraction.dir
      /\ n \notin Visible /\ p \in Place
  BY <1>0, <1>1, <1>n, FreshName, Places DEF Exists
<1>3. /\ disk'[n] = disk[p] /\ disk'[p] = Absent /\ p # n /\ disk[p] # Absent
      /\ \A q \in Place \ {p, n} : disk'[q] = disk[q]
  BY <1>0, <1>1, <1>2, AfterRename DEF Exists
<1>m. PICK m : m = Append(op.moved, <<p, n>>)
  OBVIOUS
<1>4. /\ op'.targets = op.targets \ {p} /\ op'.moved = m /\ op'.before = op.before
      /\ op'.clean = op.clean
  BY <1>0, <1>1, <1>m DEF Op
<1>5. /\ Len(m) = Len(op.moved) + 1 /\ Len(op.moved) \in Nat
      /\ m[Len(op.moved) + 1] = <<p, n>>
      /\ \A i \in 1..Len(op.moved) : m[i] = op.moved[i]
  BY <1>0, <1>m
<1>6. ASSUME NEW i \in 1..Len(op.moved)
      PROVE  /\ op.moved[i][2] \in Place /\ op.moved[i][2] # p /\ op.moved[i][2] # n
             /\ disk'[op.moved[i][2]] = disk[op.moved[i][2]]
             /\ disk[op.moved[i][2]] # Absent /\ op.moved[i][2] \notin op.targets
             /\ Extracting => op.moved[i][2] # extraction.dir
             /\ \A j \in 1..Len(op.moved) : i # j => op.moved[i][2] # op.moved[j][2]
  <2>1. op.moved[i] \in Place \X Hidden
    BY <1>0
  <2>2. op.moved[i][2] \in Place
    BY <2>1, Places
  <2>3. /\ disk[op.moved[i][2]] # Absent /\ op.moved[i][2] \notin op.targets
        /\ Extracting => op.moved[i][2] # extraction.dir
        /\ \A j \in 1..Len(op.moved) : i # j => op.moved[i][2] # op.moved[j][2]
    BY <1>0 DEF RemovalInv, Orderly
  <2> QED BY <1>1, <1>2, <1>3, <2>2, <2>3
<1>7. n \notin op.targets
  BY <1>0, <1>2 DEF RemovalInv, Orderly
<1>8. Orderly'
  <2>1. ASSUME NEW i \in 1..Len(m)
        PROVE  /\ disk'[m[i][2]] # Absent /\ m[i][2] \notin op'.targets
               /\ Extracting => m[i][2] # extraction.dir
               /\ \A j \in 1..Len(m) : i # j => m[i][2] # m[j][2]
    <3>1. CASE i \in 1..Len(op.moved)
      <4>1. m[i] = op.moved[i]
        BY <1>5, <3>1
      <4>2. \A j \in 1..Len(m) : i # j => m[i][2] # m[j][2]
        BY <1>5, <1>6, <3>1, <4>1
      <4> QED BY <1>4, <1>6, <3>1, <4>1, <4>2
    <3>2. CASE i = Len(op.moved) + 1
      <4>1. m[i][2] = n
        BY <1>5, <3>2
      <4>2. \A j \in 1..Len(m) : i # j => m[i][2] # m[j][2]
        BY <1>5, <1>6, <3>2, <4>1
      <4> QED BY <1>2, <1>3, <1>4, <1>7, <4>1, <4>2
    <3> QED BY <1>5, <3>1, <3>2
  <2>2. ASSUME NEW q \in op'.targets
        PROVE  disk'[q] # Absent \/ (Extracting /\ q = extraction.dir)
    <3>1. q \in op.targets /\ q # p /\ q # n /\ q \in Place
      BY <1>0, <1>4, <1>7
    <3> QED BY <1>0, <1>3, <3>1 DEF RemovalInv, Orderly
  <2> QED BY <1>0, <1>4, <2>1, <2>2 DEF Orderly, Extracting
<1>9. Revertible'
  <2> SUFFICES ASSUME op.clean, NEW q \in Visible PROVE Returnable(q)'
    BY <1>0, <1>4 DEF Revertible
  <2>0. Returnable(q) /\ q \in Place /\ q # n
    BY <1>0, <1>2, Places DEF RemovalInv, Revertible
  <2>1. CASE q = p
    <3>1. /\ disk[q] = op.before[q]
          /\ \A i \in 1..Len(op.moved) : op.moved[i][1] # q
      BY <1>1, <2>0, <2>1 DEF Returnable
    <3>2. /\ m[Len(m)] = <<p, n>> /\ Len(m) \in 1..Len(m)
          /\ \A j \in 1..Len(m) : j # Len(m) => m[j][1] # q
      BY <1>5, <3>1
    <3>3. /\ m[Len(m)][1] = q /\ disk'[m[Len(m)][2]] = op'.before[q]
          /\ q \notin op'.targets /\ disk'[q] = Absent
      BY <1>3, <1>4, <2>1, <3>1, <3>2
    <3> QED BY <1>4, <3>2, <3>3 DEF Returnable
  <2>2. CASE q # p
    <3>1. disk'[q] = disk[q]
      BY <1>3, <2>0, <2>2
    <3>2. CASE disk[q] = op.before[q] /\ \A i \in 1..Len(op.moved) : op.moved[i][1] # q
      <4>1. \A i \in 1..Len(m) : m[i][1] # q
        BY <1>5, <2>2, <3>2
      <4> QED BY <1>4, <3>1, <3>2, <4>1 DEF Returnable
    <3>3. CASE ~(disk[q] = op.before[q] /\ \A i \in 1..Len(op.moved) : op.moved[i][1] # q)
      <4>1. PICK i \in 1..Len(op.moved) :
               /\ q \notin op.targets /\ disk[q] = Absent
               /\ op.moved[i][1] = q /\ disk[op.moved[i][2]] = op.before[q]
               /\ \A j \in 1..Len(op.moved) : j # i => op.moved[j][1] # q
        BY <2>0, <3>3 DEF Returnable
      <4>2. /\ i \in 1..Len(m) /\ m[i] = op.moved[i]
            /\ \A j \in 1..Len(m) : j # i => m[j][1] # q
        BY <1>5, <2>2, <4>1
      <4>3. disk'[m[i][2]] = op'.before[q]
        BY <1>4, <1>6, <4>1, <4>2
      <4> QED BY <1>4, <3>1, <4>1, <4>2, <4>3 DEF Returnable
    <3> QED BY <3>2, <3>3
  <2> QED BY <2>1, <2>2
<1>10. Cleared'
  <2> SUFFICES ASSUME ~interfered, NEW q \in Visible, q \notin op'.targets PROVE disk'[q] = Absent
    BY <1>0, <1>1 DEF Cleared, Exists
  <2>1. CASE q = p
    BY <1>3, <2>1
  <2>2. CASE q # p
    <3>1. q \in Place /\ q # n /\ disk[q] = Absent
      BY <1>0, <1>2, <1>4, <2>2, Places DEF RemovalInv, Cleared, Exists
    <3> QED BY <1>3, <2>2, <3>1
  <2> QED BY <2>1, <2>2
<1> QED BY <1>8, <1>9, <1>10 DEF RemovalInv

LEMMA UndoRemovalInv == ASSUME StoreInv, RemovalInv, Undo PROVE RemovalInv'
<1>0. /\ manager = "undo" /\ UNCHANGED <<extraction, interfered>>
      /\ disk \in [Place -> Copy] /\ op \in Op
      /\ op.moved \in Seq(Place \X Hidden) /\ op.targets \subseteq Place
  BY DEF Undo, StoreInv, StoreTyped, Op, storeHistory
<1>1. CASE op.moved = << >>
  <2>1. manager' = "not_removed" /\ UNCHANGED <<disk, op>>
    BY <1>1 DEF Undo
  <2>2. 1..Len(op.moved) = {}
    BY <1>1
  <2>3. Revertible'
    BY <1>0, <2>1, <2>2 DEF RemovalInv, Revertible, Returnable
  <2> QED BY <2>1, <2>3 DEF RemovalInv, Orderly, Cleared
<1>2. CASE op.moved # << >>
  <2>1. PICK k, from, to, m :
          /\ k = Len(op.moved) /\ from = op.moved[k][2] /\ to = op.moved[k][1]
          /\ m = SubSeq(op.moved, 1, k - 1)
    OBVIOUS
  <2>2. /\ k \in 1..Len(op.moved) /\ from \in Hidden /\ to \in Place /\ from \in Place
        /\ from \notin Visible
    <3>1. k \in 1..Len(op.moved)
      BY <1>0, <1>2, <2>1
    <3>2. op.moved[k] \in Place \X Hidden
      BY <1>0, <3>1
    <3> QED BY <2>1, <3>1, <3>2, Places
  <2>3. m \in Seq(Place \X Hidden) /\ Len(m) = k - 1 /\ \A i \in 1..(k - 1) : m[i] = op.moved[i]
    BY <1>0, <2>1, <2>2
  <2>4. /\ manager' = "undo" /\ op'.moved = m /\ op'.targets = op.targets
        /\ op'.before = op.before
        /\ \/ CanRename(from, to) /\ disk' = Renamed(from, to) /\ op'.clean = op.clean
           \/ UNCHANGED disk /\ op'.clean = FALSE
    <3>1. /\ manager' = manager
          /\ \/ /\ CanRename(from, to) /\ disk' = Renamed(from, to)
                /\ op' = [op EXCEPT !.moved = m]
             \/ UNCHANGED disk /\ op' = [[op EXCEPT !.moved = m] EXCEPT !.clean = FALSE]
      <4>1. /\ manager' = manager
            /\ \/ /\ CanRename(from, to) /\ disk' = Renamed(from, to)
                  /\ op' = [op EXCEPT !.moved = SubSeq(op.moved, 1, Len(op.moved) - 1)]
               \/ /\ UNCHANGED disk
                  /\ op' = [[op EXCEPT !.moved = SubSeq(op.moved, 1, Len(op.moved) - 1)]
                              EXCEPT !.clean = FALSE]
        BY <1>0, <1>2, <2>1 DEF Undo, Op
      <4> QED BY <2>1, <4>1
    <3> QED BY <1>0, <3>1 DEF Op
  <2>5. \/ UNCHANGED disk
        \/ /\ disk'[to] = disk[from] /\ disk'[from] = Absent
           /\ disk[from] # Absent /\ disk[to] = Absent
           /\ \A q \in Place \ {from, to} : disk'[q] = disk[q]
    BY <1>0, <2>2, <2>4, AfterRename DEF Exists
  <2>6. ASSUME NEW i \in 1..Len(m)
        PROVE  /\ m[i] = op.moved[i] /\ i \in 1..Len(op.moved) /\ i # k /\ m[i][2] \in Place
               /\ disk'[m[i][2]] = disk[m[i][2]]
               /\ disk[m[i][2]] # Absent /\ m[i][2] \notin op.targets
               /\ Extracting => m[i][2] # extraction.dir
               /\ \A j \in 1..Len(m) : i # j => m[i][2] # m[j][2]
    <3>1. /\ m[i] = op.moved[i] /\ i \in 1..Len(op.moved) /\ i # k
          /\ \A j \in 1..Len(m) : m[j] = op.moved[j] /\ j \in 1..Len(op.moved)
      BY <2>2, <2>3, <2>1
    <3>2. m[i][2] \in Place
      <4>1. m[i] \in Place \X Hidden
        BY <2>3
      <4> QED BY <4>1, Places
    <3>3. /\ disk[op.moved[i][2]] # Absent /\ op.moved[i][2] \notin op.targets
          /\ Extracting => op.moved[i][2] # extraction.dir
          /\ \A j \in 1..Len(op.moved) : i # j => op.moved[i][2] # op.moved[j][2]
      BY <1>0, <3>1 DEF RemovalInv, Orderly
    <3>4. m[i][2] # from
      BY <2>1, <2>2, <3>1, <3>3
    <3>5. disk'[m[i][2]] = disk[m[i][2]]
      BY <2>5, <3>1, <3>2, <3>3, <3>4
    <3> QED BY <3>1, <3>2, <3>3, <3>5
  <2>7. Orderly'
    <3>1. ASSUME NEW q \in op.targets
          PROVE  disk'[q] # Absent \/ (Extracting /\ q = extraction.dir)
      <4>1. q # from /\ q \in Place
        BY <1>0, <2>1, <2>2 DEF RemovalInv, Orderly
      <4>2. disk[q] # Absent \/ (Extracting /\ q = extraction.dir)
        BY <1>0 DEF RemovalInv, Orderly
      <4> QED BY <2>5, <4>1, <4>2
    <3>2. \A i \in 1..Len(m) :
            /\ disk'[m[i][2]] # Absent /\ m[i][2] \notin op.targets
            /\ Extracting => m[i][2] # extraction.dir
            /\ \A j \in 1..Len(m) : i # j => m[i][2] # m[j][2]
      BY <2>6
    <3> QED BY <1>0, <2>4, <3>1, <3>2 DEF Orderly, Extracting
  <2>8. Revertible'
    <3> SUFFICES ASSUME op'.clean, NEW q \in Visible PROVE Returnable(q)'
      BY <2>4 DEF Revertible
    <3>1. /\ op.clean /\ disk'[to] = disk[from] /\ disk[to] = Absent
          /\ \A p \in Place \ {from, to} : disk'[p] = disk[p]
          /\ Returnable(q) /\ q \in Place /\ q # from
      BY <1>0, <2>2, <2>4, AfterRename, Places DEF RemovalInv, Revertible, Exists
    <3>2. CASE disk[q] = op.before[q] /\ \A i \in 1..Len(op.moved) : op.moved[i][1] # q
      <4>1. q # to /\ \A i \in 1..Len(m) : m[i][1] # q
        BY <2>1, <2>2, <2>6, <3>2
      <4>2. disk'[q] = op'.before[q]
        BY <2>4, <3>1, <3>2, <4>1
      <4> QED BY <2>4, <4>1, <4>2 DEF Returnable
    <3>3. CASE ~(disk[q] = op.before[q] /\ \A i \in 1..Len(op.moved) : op.moved[i][1] # q)
      <4>1. PICK i \in 1..Len(op.moved) :
               /\ q \notin op.targets /\ disk[q] = Absent
               /\ op.moved[i][1] = q /\ disk[op.moved[i][2]] = op.before[q]
               /\ \A j \in 1..Len(op.moved) : j # i => op.moved[j][1] # q
        BY <3>1, <3>3 DEF Returnable
      <4>2. CASE i = k
        <5>1. disk'[q] = op'.before[q]
          BY <2>1, <2>4, <3>1, <4>1, <4>2
        <5>2. \A j \in 1..Len(m) : m[j][1] # q
          BY <2>6, <4>1, <4>2
        <5> QED BY <2>4, <5>1, <5>2 DEF Returnable
      <4>3. CASE i # k
        <5>1. q # to
          BY <2>1, <2>2, <4>1, <4>3
        <5>2. i \in 1..Len(m) /\ m[i] = op.moved[i]
          BY <1>0, <2>1, <2>3, <4>3
        <5>3. disk'[q] = Absent /\ disk'[m[i][2]] = op'.before[q]
          BY <2>4, <2>6, <3>1, <4>1, <5>1, <5>2
        <5>4. \A j \in 1..Len(m) : j # i => m[j][1] # q
          BY <2>6, <4>1
        <5> QED BY <2>4, <4>1, <5>2, <5>3, <5>4 DEF Returnable
      <4> QED BY <4>2, <4>3
    <3> QED BY <3>2, <3>3
  <2> QED BY <2>4, <2>7, <2>8 DEF RemovalInv, Cleared
<1> QED BY <1>1, <1>2

LEMMA EndRemovalInv ==
  ASSUME StoreInv, RemovalInv, RemovalFails \/ Forget \/ DeleteMoved \/ EndRemoval
  PROVE  RemovalInv'
<1>1. CASE RemovalFails
  <2>1. manager = "remove" /\ manager' = "undo" /\ UNCHANGED <<disk, extraction, op, interfered>>
    BY <1>1 DEF RemovalFails, storeHistory
  <2> QED BY <2>1 DEF RemovalInv, Orderly, Revertible, Returnable, Cleared, Extracting
<1>2. CASE Forget
  <2>1. /\ manager = "remove" /\ op.targets = {} /\ manager' = "delete"
        /\ UNCHANGED <<disk, op, interfered>>
    BY <1>2 DEF Forget
  <2> QED BY <2>1 DEF RemovalInv, Orderly, Revertible, Cleared, Exists
<1>3. CASE DeleteMoved
  <2>1. /\ manager = "delete" /\ manager' = "delete" /\ interfered' = interfered
        /\ op.moved # << >> /\ disk' \in Remains(op.moved[1][2])
        /\ disk \in [Place -> Copy] /\ op.moved \in Seq(Place \X Hidden)
    BY <1>3 DEF DeleteMoved, storeHistory, StoreInv, StoreTyped, Op
  <2>2. PICK d : d = op.moved[1][2]
    OBVIOUS
  <2>3. op.moved[1] \in Place \X Hidden
    BY <2>1
  <2>4. d \in Hidden /\ d \in Place
    BY <2>2, <2>3, Places
  <2>5. \A p \in Visible : disk'[p] = disk[p]
    BY <2>1, <2>2, <2>4, AfterRemoval, Places
  <2> QED BY <2>1, <2>5 DEF RemovalInv, Orderly, Revertible, Cleared, Exists
<1>4. CASE EndRemoval
  BY <1>4 DEF EndRemoval, RemovalInv, Orderly, Revertible, Cleared
<1> QED BY <1>1, <1>2, <1>3, <1>4

LEMMA ExtractionRemovalInv ==
  ASSUME StoreInv, RemovalInv, manager \in Clearing, Installing
  PROVE  RemovalInv'
<1>1. /\ (\E f \in File : Extract(f)) \/ FinishExtraction \/ FailExtraction
      /\ extraction.at = "writing" /\ UNCHANGED <<manager, op, interfered>>
  BY DEF Installing, BeginExtraction, PollFailure, Extract, FinishExtraction, FailExtraction,
         Clearing, storeHistory
<1>2. PICK d : d = extraction.dir
  OBVIOUS
<1>3. d \in Hidden /\ d \in Place /\ d \notin Visible /\ disk \in [Place -> Copy]
      /\ extraction \in Extraction /\ Extracting
  BY <1>1, <1>2, Places DEF StoreInv, StoreTyped, Placed, Extracting
<1>4. Extracting' /\ extraction'.dir = d
  BY <1>1, <1>2, <1>3 DEF Extract, FinishExtraction, FailExtraction, Extracting, Extraction
<1>5. \A p \in Place \ {d} : disk'[p] = disk[p]
  <2>1. CASE FailExtraction
    BY <1>2, <1>3, <2>1, AfterRemoval DEF FailExtraction
  <2>2. CASE (\E f \in File : Extract(f)) \/ FinishExtraction
    BY <1>2, <1>3, <2>2 DEF Extract, FinishExtraction
  <2> QED BY <1>1, <2>1, <2>2
<1> QED BY <1>1, <1>2, <1>3, <1>4, <1>5, AsideRemovalInv

LEMMA RemovalInvStep ==
  ASSUME StoreInv, RemovalInv, [StoreNext]_storeVars
  PROVE  RemovalInv'
<1>1. CASE UNCHANGED storeVars
  BY <1>1 DEF storeVars, RemovalInv, Orderly, Revertible, Returnable, Cleared, Exists, Extracting
<1>2. CASE manager' \notin Clearing
  BY <1>2 DEF Clearing, RemovalInv, Orderly, Revertible, Cleared
<1>3. CASE Installing
  <2>1. manager' = manager
    BY <1>3 DEF Installing, BeginExtraction, Extract, FinishExtraction, FailExtraction,
       PollFailure
  <2> QED BY <1>2, <1>3, <2>1, ExtractionRemovalInv
<1>4. CASE Activating \/ LoadAll \/ Stop \/ DropLooseDll \/ SetEnabled \/ DrainFailed
  <2>1. manager' \notin Clearing
    BY <1>4 DEF Activating, BeginActivation, BackUp, PlaceNew, LoadNew, TakeBack, Restore,
       Reload, CleanStaging, Discard, LoadAll, Stop, DropLooseDll, SetEnabled, DrainFailed,
       Clearing
  <2> QED BY <1>2, <2>1
<1>5. CASE Removing
  BY <1>5, BeginRemovalInv, MoveAsideRemovalInv, UndoRemovalInv, EndRemovalInv DEF Removing
<1> QED BY <1>1, <1>3, <1>4, <1>5 DEF StoreNext

(* A removal is undone, or leaves nothing of what the start can find.      *)
THEOREM RemovalsAreWhole == StoreSpec => []RemovalIsAllOrNothing
<1>1. StoreInit => RemovalInv
  BY DEF StoreInit, RemovalInv, Orderly, Revertible, Cleared
<1>2. RemovalInv => RemovalIsAllOrNothing
  BY DEF RemovalInv, Revertible, Cleared, RemovalIsAllOrNothing
<1> QED BY <1>1, <1>2, StoreInvInit, StoreInvStep, RemovalInvStep, PTL DEF StoreSpec
=============================================================================
