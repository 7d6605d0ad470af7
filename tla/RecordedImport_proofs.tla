------------------------- MODULE RecordedImport_proofs -------------------------
(***************************************************************************)
(* Theorems about the recorded resource import.                             *)
(*                                                                         *)
(* RecordedImport, the page, for any files, any verdict on them and any     *)
(* number of activations.  ImportInv is inductive: the activation that      *)
(* active.current names is the only one whose ticket still matches, so it   *)
(* is the only one whose End changes the page.                              *)
(*                                                                         *)
(* RecordedViews, for any recordings whose checkpoints have positive ids    *)
(* and finitely many retained pages and windows.  Whatever draws the views  *)
(* draws a selection that resolves, with a pointer that is either fresh or  *)
(* leads to the window selected: DrawnKeeps.  The page below changes as if  *)
(* it had no views.                                                         *)
(*                                                                         *)
(* ResourceRecording, the reader, for any captures, queries, tokens and     *)
(* limits.  Each accepted line either opens a checkpoint above every id     *)
(* read so far or adds its own id, also above all of them, to the latest.   *)
(* The loop accepts exactly the excerpts a debugger may have recorded.      *)
(***************************************************************************)
EXTENDS RecordedViews, ResourceRecording, FiniteSetTheorems, WellFoundedInduction, TLAPS

(***************************************************************************)
(* The page.                                                                *)
(***************************************************************************)
USE DEF Boxes

\* An activation keeps its type while another call supersedes it.
LEMMA AbandonedType ==
  ASSUME ImportTypeOK
  PROVE  Abandoned \in [Slots -> Activations]
<1>1. NoImport \in Activations
  BY DEF NoImport, Activations, Choices, NoPair
<1>2. \A s \in Slots : imports[s] \in Activations
  BY DEF ImportTypeOK
<1>3. \A i \in Activations : [i EXCEPT !.aborted = TRUE, !.current = FALSE] \in Activations
  BY DEF Activations
<1>4. \A i \in Activations : [i EXCEPT !.current = FALSE] \in Activations
  BY DEF Activations
<1> QED BY <1>1, <1>2, <1>3, <1>4 DEF Abandoned, Stopped

\* After clearPending no activation is heard and none reads.
LEMMA AbandonedIsMute ==
  ASSUME ImportTypeOK, OneReader, NEW s \in Slots
  PROVE  ~Abandoned[s].current /\ Abandoned[s].stage # "reading"
BY DEF ImportTypeOK, OneReader, Abandoned, Stopped, NoImport, Activations

\* The empty page satisfies the invariant.
LEMMA InitHolds == ImportInit => ImportInv
<1> SUFFICES ASSUME ImportInit PROVE ImportInv
  OBVIOUS
<1>1. NoPair \in Choices
  BY DEF NoPair, Choices
<1>2. NoImport \in Activations
  BY <1>1 DEF NoImport, Activations
<1>3. ImportTypeOK
  <2>1. 0 \in 0..MaxImports
    BY ImportAssumption
  <2>2. imports \in [Slots -> Activations]
    BY <1>2 DEF ImportInit
  <2>3. drawn \in [busy : BOOLEAN, result : Importable \cup {NoPair}]
    BY DEF ImportInit
  <2> QED BY <1>1, <2>1, <2>2, <2>3 DEF ImportInit, ImportTypeOK
<1>4. OneReader /\ ShownIsChosen
  BY DEF ImportInit, OneReader, ShownIsChosen, Slots, NoImport
<1> QED BY <1>3, <1>4 DEF ImportInv

\* Every event that begins with clearPending keeps it.
LEMMA ClearedKeeps ==
  ASSUME ImportInv, NEW boxes \in Choices, Cleared(boxes), mounted' \in BOOLEAN
  PROVE  ImportInv'
<1>1. ImportTypeOK'
  <2>1. imports' \in [Slots -> Activations]
    BY AbandonedType DEF Cleared, ImportInv
  <2>2. 0 \in 0..MaxImports
    BY ImportAssumption
  <2> QED BY <2>1, <2>2 DEF Cleared, ImportTypeOK
<1>2. OneReader'
  BY AbandonedIsMute DEF Cleared, ImportInv, OneReader, Slots
<1>3. ShownIsChosen'
  BY DEF Cleared, ShownIsChosen
<1> QED BY <1>1, <1>2, <1>3 DEF ImportInv

\* A start takes a free slot for its activation.
LEMMA StartKeeps ==
  ASSUME ImportInv, StartImport
  PROVE  ImportInv'
<1>1. PICK s \in Slots :
        /\ active' = s
        /\ imports' = [Abandoned EXCEPT ![s] =
             [stage |-> "reading", box |-> 1, files |-> files, aborted |-> FALSE, current |-> TRUE]]
  BY DEF StartImport
<1>2. Abandoned \in [Slots -> Activations] /\ files \in Choices /\ s \in 1..MaxImports
  BY AbandonedType DEF ImportInv, ImportTypeOK, Slots
<1>3. ImportTypeOK'
  <2>1. [stage |-> "reading", box |-> 1, files |-> files, aborted |-> FALSE, current |-> TRUE]
          \in Activations
    BY <1>2 DEF Activations
  <2>2. imports' \in [Slots -> Activations]
    BY <1>1, <1>2, <2>1
  <2>3. active' \in 0..MaxImports
    BY <1>1, <1>2, ImportAssumption
  <2> QED BY <1>2, <2>2, <2>3 DEF StartImport, ImportInv, ImportTypeOK
<1>4. OneReader'
  BY <1>1, <1>2, AbandonedIsMute DEF StartImport, ImportInv, OneReader, Slots
<1>5. ShownIsChosen'
  BY DEF StartImport, ShownIsChosen
<1> QED BY <1>3, <1>4, <1>5 DEF ImportInv

\* An activation goes on to its next file, or to its digests.
LEMMA LoadedKeeps ==
  ASSUME ImportInv, NEW s \in Slots, Loaded(s)
  PROVE  ImportInv'
<1>1. imports' \in [Slots -> Activations]
  BY DEF Loaded, ImportInv, ImportTypeOK, Activations
<1>2. \A u \in Slots :
        /\ imports'[u].current = imports[u].current /\ imports'[u].aborted = imports[u].aborted
        /\ imports'[u].files = imports[u].files
        /\ imports'[u].stage = "reading" => imports[u].stage = "reading"
        /\ imports[u].stage # "idle" => imports'[u].stage # "idle"
  BY DEF Loaded, ImportInv, ImportTypeOK, Activations
<1>3. active \in 0..MaxImports
  BY DEF ImportInv, ImportTypeOK
<1>4. OneReader'
  BY <1>2, <1>3, ImportAssumption DEF Loaded, ImportInv, OneReader, Slots
<1>5. ShownIsChosen' /\ ImportTypeOK'
  BY <1>1 DEF Loaded, ImportInv, ShownIsChosen, ImportTypeOK
<1> QED BY <1>4, <1>5 DEF ImportInv

\* An activation ends: it is heard only if the page still waits for it.
LEMMA EndKeeps ==
  ASSUME ImportInv, NEW s \in Slots, NEW accepted \in BOOLEAN, End(s, accepted),
         accepted => imports[s].files \in Importable
  PROVE  ImportInv'
<1> DEFINE heard == ~imports[s].aborted /\ imports[s].current
<1>1. /\ imports \in [Slots -> Activations] /\ NoImport \in Activations
      /\ imports[s].current => s = active /\ ~imports[s].aborted
      /\ s \in 1..MaxImports /\ active \in 0..MaxImports
  BY DEF ImportInv, ImportTypeOK, OneReader, NoImport, Activations, Choices, NoPair, Slots
<1>2. heard => busy /\ imports[s].files = files /\ s = active
  BY <1>1, ImportAssumption DEF ImportInv, OneReader
<1>3. ImportTypeOK'
  <2>1. imports' \in [Slots -> Activations]
    BY <1>1 DEF End
  <2>2. result' \in Importable \cup {NoPair} /\ error' \in BOOLEAN /\ busy' \in BOOLEAN
    BY DEF End, ImportInv, ImportTypeOK
  <2>3. active' \in 0..MaxImports
    BY <1>1, ImportAssumption DEF End
  <2> QED BY <2>1, <2>2, <2>3 DEF End, ImportInv, ImportTypeOK
<1>4. OneReader'
  BY <1>1, ImportAssumption DEF End, ImportInv, OneReader, NoImport, Slots
<1>5. ShownIsChosen'
  BY <1>1, <1>2 DEF End, ImportInv, ShownIsChosen
<1> QED BY <1>3, <1>4, <1>5 DEF ImportInv

\* React catches up.
LEMMA DrawKeeps ==
  ASSUME ImportInv, Draw
  PROVE  ImportInv'
BY DEF Draw, ImportInv, ImportTypeOK, OneReader, ShownIsChosen

\* One step of the page.
LEMMA PageKeeps ==
  ASSUME ImportInv, [ImportNext]_importVars
  PROVE  ImportInv'
<1>1. NoPair \in Choices /\ files \in Choices
  BY DEF ImportInv, ImportTypeOK, NoPair, Choices
<1>2. ASSUME NEW b \in Boxes, NEW f \in Files \cup {NoFile}, Choose(b, f) PROVE ImportInv'
  <2>1. [files EXCEPT ![b] = f] \in Choices
    BY <1>1 DEF Choices
  <2> QED BY <1>2, <2>1, ClearedKeeps DEF Choose, ImportInv, ImportTypeOK
<1>3. CASE Cancel \/ Reset \/ Leave
  BY <1>1, <1>3, ClearedKeeps DEF Cancel, Reset, Leave, ImportInv, ImportTypeOK
<1>4. CASE Enter
  BY <1>4 DEF Enter, ImportInv, ImportTypeOK, OneReader, ShownIsChosen
<1>5. ASSUME NEW s \in Slots, ReadRefused(s) PROVE ImportInv'
  BY <1>5, EndKeeps DEF ReadRefused
<1>6. ASSUME NEW s \in Slots, Hashed(s) PROVE ImportInv'
  <2>1. imports[s].aborted \in BOOLEAN
    BY DEF ImportInv, ImportTypeOK, Activations
  <2> QED BY <1>6, <2>1, EndKeeps DEF Hashed
<1>7. CASE UNCHANGED importVars
  BY <1>7 DEF importVars, ImportInv, ImportTypeOK, OneReader, ShownIsChosen
<1> QED BY <1>2, <1>3, <1>4, <1>5, <1>6, <1>7, StartKeeps, LoadedKeeps, DrawKeeps
        DEF ImportNext, PageEvent, Activity

(***************************************************************************)
(* The theorems.                                                            *)
(***************************************************************************)
\* The page is busy exactly while its one live import runs, and shows only
\* recordings of the files in its boxes.
THEOREM ImportInvariant == ImportSpec => []ImportInv
<1> QED BY InitHolds, PageKeeps, PTL DEF ImportSpec

\* What clearPending does to the page is what FileImport calls giving up.
LEMMA ClearedGivesUp ==
  ASSUME NEW boxes, Cleared(boxes),
         \/ boxes = files \/ boxes = NoPair
         \/ \E b \in Boxes, f \in Files \cup {NoFile} : boxes = [files EXCEPT ![b] = f]
  PROVE  Promise!GiveUp
BY DEF Cleared, Promise!GiveUp, Phase, Promise!NoChoice, NoPair, Promise!Boxes

\* An end that is heard succeeds or is refused, any other changes nothing.
LEMMA EndPromised ==
  ASSUME ImportInv, NEW s \in Slots, NEW accepted \in BOOLEAN, End(s, accepted),
         accepted => imports[s].files \in Importable
  PROVE  Promise!Next \/ UNCHANGED Promise!vars
<1> DEFINE heard == ~imports[s].aborted /\ imports[s].current
<1>1. /\ imports[s].current => s = active /\ ~imports[s].aborted
      /\ s \in 1..MaxImports /\ heard \in BOOLEAN
  BY DEF ImportInv, ImportTypeOK, OneReader, Activations, Slots
<1>2. heard => busy /\ imports[s].files = files
  BY <1>1, ImportAssumption DEF ImportInv, OneReader
<1>3. NoPair \notin Importable
  BY ImportAssumption DEF NoPair, Pairs
<1>4. CASE heard /\ accepted
  <2>1. result' = files /\ ~busy' /\ error' = error /\ files' = files
    BY <1>1, <1>2, <1>4 DEF End
  <2>2. ~error /\ result' # NoPair
    BY <1>2, <1>3, <1>4, <2>1 DEF ImportInv, ShownIsChosen
  <2>3. Promise!Succeed
    BY <1>2, <1>4, <2>1, <2>2 DEF Promise!Succeed, Phase
  <2> QED BY <2>3 DEF Promise!Next
<1>5. CASE heard /\ ~accepted
  <2>1. result' = result /\ ~busy' /\ error' /\ files' = files
    BY <1>1, <1>5 DEF End
  <2>2. Promise!Refuse
    BY <1>2, <1>5, <2>1 DEF Promise!Refuse, Phase
  <2> QED BY <2>2 DEF Promise!Next
<1>6. CASE ~heard
  <2>1. UNCHANGED <<files, busy, error, result>>
    BY <1>1, <1>6 DEF End
  <2> QED BY <2>1 DEF Promise!vars, Phase
<1> QED BY <1>1, <1>4, <1>5, <1>6

\* Every step of the page is a step of FileImport or none.
LEMMA StepPromised ==
  ASSUME ImportInv, [ImportNext]_importVars
  PROVE  Promise!Next \/ UNCHANGED Promise!vars
<1>1. CASE \E b \in Boxes, f \in Files \cup {NoFile} : Choose(b, f)
  BY <1>1, ClearedGivesUp DEF Choose, Promise!Next
<1>2. CASE Cancel \/ Reset \/ Leave
  BY <1>2, ClearedGivesUp DEF Cancel, Reset, Leave, Promise!Next
<1>3. CASE StartImport
  <2>1. ~busy /\ busy' /\ result' = NoPair /\ files' = files /\ \A b \in Boxes : files[b] # NoFile
    BY <1>3 DEF StartImport, ImportInv, ShownIsChosen
  <2>2. Promise!Start
    BY <2>1 DEF Promise!Start, Phase, Promise!Chosen, Promise!Boxes
  <2> QED BY <2>2 DEF Promise!Next
<1>4. CASE Enter \/ Draw \/ (\E s \in Slots : Loaded(s)) \/ UNCHANGED importVars
  <2>1. UNCHANGED <<files, busy, error, result>>
    BY <1>4 DEF Enter, Draw, Loaded, importVars
  <2> QED BY <2>1 DEF Promise!vars, Phase
<1>5. ASSUME NEW s \in Slots, ReadRefused(s) PROVE Promise!Next \/ UNCHANGED Promise!vars
  BY <1>5, EndPromised DEF ReadRefused
<1>6. ASSUME NEW s \in Slots, Hashed(s) PROVE Promise!Next \/ UNCHANGED Promise!vars
  <2>1. imports[s].aborted \in BOOLEAN
    BY DEF ImportInv, ImportTypeOK, Activations
  <2> QED BY <1>6, <2>1, EndPromised DEF Hashed
<1> QED BY <1>1, <1>2, <1>3, <1>4, <1>5, <1>6 DEF ImportNext, PageEvent, Activity

\* The page implements FileImport.
THEOREM KeepsThePromise == ImportSpec => ImplementsFileImport
<1>1. ImportInit => Promise!Init
  BY DEF ImportInit, Promise!Init, Phase, Promise!NoChoice, NoPair, Promise!Boxes
<1>2. ImportInv /\ [ImportNext]_importVars => [Promise!Next]_Promise!vars
  BY StepPromised
<1> QED BY <1>1, <1>2, ImportInvariant, PTL DEF ImportSpec, ImplementsFileImport, Promise!Spec

(***************************************************************************)
(* The views.                                                               *)
(***************************************************************************)
SelectionRecords == [point : Nat, page : Nat, memory : Nat, baseline : [point : Nat, memory : Nat]]
PointerRecords == [on : BOOLEAN, windows : SUBSET Nat, memory : Nat]

(***************************************************************************)
(* Recordings.                                                              *)
(***************************************************************************)
\* The first id of a list is one of the list.
LEMMA FirstIsIn ==
  ASSUME NEW ids \in SUBSET Nat, ids # {}
  PROVE  First(ids) \in ids
<1>1. PICK i \in ids : \A j \in ids : ~(<<j, i>> \in OpToRel(<, Nat))
  BY WFMin, NatLessThanWellFounded
<1>2. \A j \in ids : ~(j < i)
  BY <1>1, Zenon DEF OpToRel
<1>3. \A j \in ids : i <= j
  BY <1>2
<1> QED BY <1>3 DEF First

\* What ViewAssumption says of one checkpoint.
LEMMA CheckpointRetained ==
  ASSUME NEW rec \in Importable
  PROVE  /\ Points[rec] # {} /\ Points[rec] \subseteq Nat \ {0}
         /\ Ids(rec) \subseteq Nat \ {0}
         /\ \A c \in Points[rec] :
              /\ Pages[rec][c] \subseteq Nat \ {0} /\ Memories[rec][c] \subseteq Nat \ {0}
              /\ IsFiniteSet(Memories[rec][c])
BY ViewAssumption DEF Ids

\* A checkpoint opens on a selection that resolves.
LEMMA InitialResolves ==
  ASSUME NEW rec \in Importable, NEW c \in Points[rec]
  PROVE  Initial(rec, c) \in SelectionRecords /\ Resolves(rec, Initial(rec, c))
<1>1. /\ Pages[rec][c] \subseteq Nat \ {0} /\ Memories[rec][c] \subseteq Nat \ {0} /\ c \in Nat
  BY CheckpointRetained
<1>2. \A ids \in SUBSET (Nat \ {0}) : IF ids = {} THEN First(ids) = 0 ELSE First(ids) \in ids
  BY FirstIsIn DEF First
<1>3. /\ IF Pages[rec][c] = {} THEN First(Pages[rec][c]) = 0
         ELSE First(Pages[rec][c]) \in Pages[rec][c]
      /\ IF Memories[rec][c] = {} THEN First(Memories[rec][c]) = 0
         ELSE First(Memories[rec][c]) \in Memories[rec][c]
  BY <1>1, <1>2
<1>4. First(Pages[rec][c]) \in Nat /\ First(Memories[rec][c]) \in Nat
  BY <1>1, <1>3
<1> QED BY <1>1, <1>3, <1>4 DEF Initial, Resolves, SelectionRecords, NoBaseline

\* Another window keeps a selection resolvable, since the baseline goes with it.
LEMMA ChosenResolves ==
  ASSUME NEW rec \in Importable, seen \in SelectionRecords, Resolves(rec, seen),
         NEW m \in Memories[rec][seen.point]
  PROVE  /\ Chosen(m) \in SelectionRecords /\ Resolves(rec, Chosen(m))
         /\ Chosen(m).point = seen.point /\ Chosen(m).memory = m
<1>1. m \in Nat \ {0}
  BY CheckpointRetained DEF Resolves
<1>2. NoBaseline \in [point : Nat, memory : Nat] /\ seen.baseline \in [point : Nat, memory : Nat]
  BY DEF NoBaseline, SelectionRecords
<1> DEFINE b == IF m = seen.memory THEN seen.baseline ELSE NoBaseline
<1>3. Chosen(m) = [seen EXCEPT !.memory = m, !.baseline = b]
  BY DEF Chosen, SelectionRecords
<1>4. b \in [point : Nat, memory : Nat]
  BY <1>2
<1> HIDE DEF b
<1>5. Chosen(m) \in SelectionRecords
  BY <1>1, <1>3, <1>4 DEF SelectionRecords
<1>6. /\ Chosen(m).point = seen.point /\ Chosen(m).page = seen.page
      /\ Chosen(m).memory = m /\ Chosen(m).baseline = b
  BY <1>3 DEF SelectionRecords
<1> QED BY <1>1, <1>5, <1>6 DEF Resolves, b

\* The window a pointer leads to is one of its windows.
LEMMA TargetIsIn ==
  ASSUME NEW p \in PointerRecords, IsFiniteSet(p.windows),
         p.memory \in p.windows \cup {0}, Target(p) # 0
  PROVE  Target(p) \in p.windows
<1>1. CASE p.memory # 0
  BY <1>1 DEF Target
<1>2. CASE p.memory = 0
  <2>1. Cardinality(p.windows) = 1 /\ Target(p) = CHOOSE m \in p.windows : TRUE
    BY <1>2 DEF Target
  <2>2. \E x : p.windows = {x}
    BY <2>1, FS_Singleton
  <2> QED BY <2>1, <2>2
<1> QED BY <1>1, <1>2

(***************************************************************************)
(* Steps of the views.                                                      *)
(***************************************************************************)
\* What the invariant says while the views are on the page.
LEMMA ViewFacts ==
  ASSUME ViewInv, Viewing
  PROVE  /\ r \in Importable
         /\ selection \in SelectionRecords /\ seen \in SelectionRecords
         /\ pointer \in PointerRecords
         /\ Resolves(r, selection) /\ Resolves(r, seen)
         /\ Windows \subseteq Nat \ {0} /\ IsFiniteSet(Windows)
         /\ Windows = Memories[r][seen.point] /\ seen.point \in Points[r]
         /\ pointer.windows \subseteq Windows /\ IsFiniteSet(pointer.windows)
         /\ pointer.memory \in pointer.windows \cup {0}
<1>1. r \in Importable
  BY DEF ViewInv, ImportInv, ImportTypeOK, Viewing, r
<1>2. /\ selection \in SelectionRecords /\ seen \in SelectionRecords /\ pointer \in PointerRecords
  BY DEF ViewInv, ViewTypeOK, SelectionRecords, PointerRecords
<1>3. Resolves(r, selection) /\ Resolves(r, seen) /\ seen.point \in Points[r]
  BY DEF ViewInv, SelectionResolves, Resolves
<1>4. Windows \subseteq Nat \ {0} /\ IsFiniteSet(Windows)
  BY <1>1, <1>3, CheckpointRetained DEF Windows
<1>5. pointer.windows \subseteq Windows /\ pointer.memory \in pointer.windows \cup {0}
  BY DEF ViewInv, DisplayedIsSelected
<1> QED BY <1>1, <1>2, <1>3, <1>4, <1>5, FS_Subset DEF Windows

\* The invariant survives every drawing of a selection that resolves.
LEMMA DrawnKeeps ==
  ASSUME ViewInv, Viewing, NEW s \in SelectionRecords, NEW p \in PointerRecords,
         Resolves(r, s), Drawn(s, p),
         UNCHANGED <<importVars, reading, urls, timers, download>>,
         ~Remount(s) =>
           /\ p.windows \subseteq Windows /\ p.memory \in p.windows \cup {0}
           /\ p.on /\ Target(p) # 0 => Target(p) = s.memory
  PROVE  ViewInv'
<1>1. ImportInv' /\ r' = r /\ Viewing'
  BY PageKeeps DEF ViewInv, importVars, r, Viewing
<1>2. NoPointer \in PointerRecords /\ Target(NoPointer) = 0
  <2>1. Cardinality({}) = 0
    BY FS_EmptySet
  <2> QED BY <2>1 DEF NoPointer, PointerRecords, Target
<1>3. ViewTypeOK'
  BY <1>2 DEF Drawn, ViewInv, ViewTypeOK, SelectionRecords, PointerRecords
<1>4. SelectionResolves'
  BY <1>1 DEF Drawn, SelectionResolves, Resolves
<1>5. Windows' = Memories[r][s.point] /\ s.memory # 0 => s.memory \in Windows'
  BY <1>1 DEF Drawn, Windows, Resolves
<1>6. Windows' = Memories[r][s.point]
  BY <1>1 DEF Drawn, Windows
<1>7. DisplayedIsSelected'
  <2>1. CASE Remount(s)
    <3>1. pointer' = NoPointer /\ seen' = s /\ selection' = s
      BY <2>1 DEF Drawn
    <3>2. Displayed' = s.memory
      BY <3>1 DEF Displayed, NoPointer
    <3> QED BY <1>5, <1>6, <3>1, <3>2 DEF DisplayedIsSelected, NoPointer
  <2>2. CASE ~Remount(s)
    <3>1. pointer' = p /\ seen' = s /\ selection' = s /\ s.point = seen.point
      BY <2>2 DEF Drawn, Remount
    <3>2. Windows' = Windows /\ IsFiniteSet(Windows)
      BY <1>6, <3>1, ViewFacts DEF Windows
    <3>3. p.on /\ Target(p) # 0 => Target(p) \in Windows
      BY <2>2, <3>2, FS_Subset, TargetIsIn
    <3>4. Displayed' = IF p.on THEN Target(p) ELSE s.memory
      BY <3>1 DEF Displayed, Target
    <3> QED BY <1>5, <1>6, <2>2, <3>1, <3>2, <3>3, <3>4 DEF DisplayedIsSelected
  <2> QED BY <2>1, <2>2
<1>8. DownloadIsTracked'
  BY DEF ViewInv, DownloadIsTracked
<1> QED BY <1>1, <1>3, <1>4, <1>7, <1>8 DEF ViewInv

\* The pointer on the page may stay as long as the window does.
LEMMA PointerStays ==
  ASSUME ViewInv, Viewing, NEW s, s.memory = seen.memory
  PROVE  /\ pointer.windows \subseteq Windows /\ pointer.memory \in pointer.windows \cup {0}
         /\ pointer.on /\ Target(pointer) # 0 => Target(pointer) = s.memory
BY ViewFacts DEF ViewInv, DisplayedIsSelected, Displayed

\* The select boxes of a checkpoint and its page.
LEMMA SelectsKeep ==
  ASSUME ViewInv, Viewing, NEW i \in Ids(r), SelectPoint(i) \/ SelectPage(i) \/ SelectMemory(i)
  PROVE  ViewInv'
<1>1. CASE SelectPoint(i)
  <2>1. i \in Points[r] \ {seen.point} /\ Drawn(Initial(r, i), pointer)
        /\ UNCHANGED <<importVars, reading, urls, timers, download>>
    BY <1>1 DEF SelectPoint, Act
  <2>2. Remount(Initial(r, i))
    BY <2>1 DEF Remount, Initial
  <2> QED BY <2>1, <2>2, ViewFacts, InitialResolves, DrawnKeeps
<1>2. CASE SelectPage(i)
  <2> DEFINE s == [seen EXCEPT !.page = i]
  <2>1. i \in Pages[r][seen.point] /\ Drawn(s, pointer)
        /\ UNCHANGED <<importVars, reading, urls, timers, download>>
    BY <1>2 DEF SelectPage, Act
  <2>2. i \in Nat
    BY ViewFacts, CheckpointRetained
  <2>3. s \in SelectionRecords /\ s.memory = seen.memory
    BY <2>2, ViewFacts DEF SelectionRecords
  <2>4. Resolves(r, s)
    BY <2>1, ViewFacts DEF Resolves, SelectionRecords
  <2> HIDE DEF s
  <2> QED BY <2>1, <2>3, <2>4, ViewFacts, PointerStays, DrawnKeeps
<1>3. CASE SelectMemory(i)
  <2>1. i \in Windows /\ Drawn(Chosen(i), NoPointer)
        /\ UNCHANGED <<importVars, reading, urls, timers, download>>
    BY <1>3 DEF SelectMemory, Act
  <2>2. NoPointer \in PointerRecords /\ NoPointer.windows = {} /\ NoPointer.memory = 0 /\ ~NoPointer.on
    BY DEF NoPointer, PointerRecords
  <2> QED BY <2>1, <2>2, ViewFacts, ChosenResolves, DrawnKeeps
<1> QED BY <1>1, <1>2, <1>3

\* Following a pointer selects the one window it leads to.
LEMMA PointerKeeps ==
  ASSUME ViewInv, Viewing, NEW windows \in SUBSET Windows, NEW m \in windows \cup {0},
         SelectPointer(windows, m)
  PROVE  ViewInv'
<1> DEFINE p == [on |-> TRUE, windows |-> windows, memory |-> m]
           s == IF Target(p) = 0 THEN seen ELSE Chosen(Target(p))
<1>1. Drawn(s, p) /\ UNCHANGED <<importVars, reading, urls, timers, download>>
  BY DEF SelectPointer, Act
<1>2. p \in PointerRecords /\ p.windows = windows /\ p.memory = m
  BY ViewFacts DEF PointerRecords
<1>3. IsFiniteSet(p.windows)
  BY <1>2, ViewFacts, FS_Subset
<1> HIDE DEF p
<1>4. Target(p) # 0 => Target(p) \in Windows
  BY <1>2, <1>3, TargetIsIn
<1>5. /\ s \in SelectionRecords /\ Resolves(r, s)
      /\ Target(p) # 0 => Target(p) = s.memory
  BY <1>4, ViewFacts, ChosenResolves
<1> HIDE DEF s
<1> QED BY <1>1, <1>2, <1>5, DrawnKeeps

\* Going back from a pointer keeps its window selected.
LEMMA ClearPointerKeeps ==
  ASSUME ViewInv, Viewing, ClearPointer
  PROVE  ViewInv'
<1> DEFINE s == IF Listed = 0 THEN seen ELSE Chosen(Listed)
<1>1. Drawn(s, NoPointer) /\ UNCHANGED <<importVars, reading, urls, timers, download>>
  BY DEF ClearPointer, Act
<1>2. NoPointer \in PointerRecords /\ NoPointer.windows = {} /\ NoPointer.memory = 0 /\ ~NoPointer.on
  BY DEF NoPointer, PointerRecords
<1>3. Listed # 0 => Listed \in Windows
  <2>1. Target(pointer) # 0 => Target(pointer) \in Windows
    BY ViewFacts, TargetIsIn
  <2>2. seen.memory # 0 => seen.memory \in Windows
    BY ViewFacts DEF Resolves
  <2> QED BY <2>1, <2>2 DEF Listed
<1>4. s \in SelectionRecords /\ Resolves(r, s)
  BY <1>3, ViewFacts, ChosenResolves
<1> HIDE DEF s
<1> QED BY <1>1, <1>2, <1>4, DrawnKeeps

\* A baseline is another window of the recording.
LEMMA BaselineKeeps ==
  ASSUME ViewInv, Viewing, NEW b \in {NoBaseline} \cup [point : Ids(r), memory : Ids(r)],
         SelectBaseline(b)
  PROVE  ViewInv'
<1> DEFINE s == [seen EXCEPT !.baseline = b]
<1>1. Drawn(s, pointer) /\ UNCHANGED <<importVars, reading, urls, timers, download>>
  BY DEF SelectBaseline, Act
<1>2. b \in [point : Nat, memory : Nat]
  BY ViewFacts, CheckpointRetained DEF NoBaseline
<1>3. s \in SelectionRecords /\ s.memory = seen.memory
  BY <1>2, ViewFacts DEF SelectionRecords
<1>4. Displayed # 0 /\ Displayed = seen.memory
  BY DEF SelectBaseline, ViewInv, DisplayedIsSelected
<1>5. Resolves(r, s)
  BY <1>4, ViewFacts DEF SelectBaseline, Resolves, SelectionRecords
<1> HIDE DEF s
<1> QED BY <1>1, <1>3, <1>5, ViewFacts, PointerStays, DrawnKeeps

\* A restored selection is drawn over whatever the views showed.
LEMMA DrawRestoredKeeps ==
  ASSUME ViewInv, DrawRestored
  PROVE  ViewInv'
BY ViewFacts, DrawnKeeps DEF DrawRestored, Remount

\* The bookmark controls leave what is drawn alone.
LEMMA BookmarkKeeps ==
  ASSUME ViewInv,
         \/ \E on \in BOOLEAN : ReadBookmark(on) \/ Save(on)
         \/ Restore
         \/ \E u \in 1..MaxUrls : Expire(u)
  PROVE  ViewInv'
<1>1. ImportInv' /\ r' = r /\ (Viewing' <=> Viewing)
  BY PageKeeps DEF ReadBookmark, Save, Restore, Expire, ViewInv, importVars, r, Viewing
<1>2. seen' = seen /\ pointer' = pointer /\ Windows' = Windows
  BY <1>1 DEF ReadBookmark, Save, Restore, Expire, Windows
<1>3. Displayed' = Displayed
  BY <1>2 DEF Displayed, Target
<1>4. CASE Restore
  <2>1. PICK s \in Selections(r) : Resolves(r, s) /\ selection' = s
    BY <1>4 DEF Restore
  <2>2. s \in SelectionRecords
    <3>1. Ids(r) \subseteq Nat
      BY <1>4, ViewFacts, CheckpointRetained DEF Restore
    <3> QED BY <2>1, <3>1 DEF Selections, SelectionRecords, NoBaseline
  <2>3. ViewTypeOK' /\ DownloadIsTracked'
    BY <1>4, <2>1, <2>2 DEF Restore, ViewInv, ViewTypeOK, SelectionRecords, DownloadIsTracked
  <2>4. SelectionResolves' /\ DisplayedIsSelected'
    BY <1>1, <1>2, <1>3, <1>4, <2>1 DEF Restore, ViewInv, SelectionResolves, DisplayedIsSelected, Resolves
  <2> QED BY <1>1, <2>3, <2>4 DEF ViewInv
<1>5. CASE ~Restore
  <2>1. selection' = selection /\ restored' = restored /\ reading' \in BOOLEAN
    BY <1>5 DEF ReadBookmark, Save, Expire, ViewInv, ViewTypeOK
  <2>2. SelectionResolves' /\ DisplayedIsSelected'
    BY <1>1, <1>2, <1>3, <2>1 DEF ViewInv, SelectionResolves, DisplayedIsSelected, Resolves
  <2>3. MaxUrls \in Nat
    BY ViewAssumption
  <2>4. download' \in 0..MaxUrls /\ DownloadIsTracked'
    BY <1>5, <2>3, SMTT(30) DEF ReadBookmark, Save, Revoke, Expire, ViewInv, ViewTypeOK, DownloadIsTracked
  <2>5. ViewTypeOK'
    BY <1>2, <2>1, <2>4 DEF ViewInv, ViewTypeOK
  <2> QED BY <1>1, <2>2, <2>4, <2>5 DEF ViewInv
<1> QED BY <1>4, <1>5

(***************************************************************************)
(* Steps of the page.                                                       *)
(***************************************************************************)
\* An event of the page takes the recording, and with it the views, away.
LEMMA EventTakesAway ==
  ASSUME PageEvent
  PROVE  drawn'.result = NoPair
BY DEF PageEvent, Choose, Cancel, Reset, Leave, StartImport, Cleared

\* A page that is not open shows nothing.
LEMMA ClosedShowsNothing ==
  ASSUME ImportInv, ~mounted
  PROVE  drawn.result = NoPair
BY DEF ImportInv, ShownIsChosen

\* The page opens, closes and draws its views.
LEMMA PageStepKeeps ==
  ASSUME ViewInv,
         \/ PageEvent /\ NoViews
         \/ (Enter \/ Activity) /\ UNCHANGED views
         \/ Draw /\ OpenViews
  PROVE  ViewInv'
<1>1. ImportInv'
  BY PageKeeps DEF ViewInv, ImportNext
<1>2. 0 \in 0..MaxUrls
  BY ViewAssumption
<1>3. NoSelection \in SelectionRecords /\ NoPointer \in PointerRecords
  BY DEF NoSelection, NoBaseline, NoPointer, SelectionRecords, PointerRecords
<1>4. CASE PageEvent /\ NoViews
  <2>1. ViewTypeOK' /\ DownloadIsTracked'
    BY <1>2, <1>3, <1>4 DEF NoViews, Revoke, ViewInv, ViewTypeOK, DownloadIsTracked, SelectionRecords, PointerRecords
  <2>2. ~Viewing'
    BY <1>4, EventTakesAway DEF Viewing
  <2> QED BY <1>1, <2>1, <2>2 DEF ViewInv, SelectionResolves, DisplayedIsSelected
<1>5. CASE (Enter \/ Activity) /\ UNCHANGED views
  <2>1. drawn' = drawn
    BY <1>5 DEF Enter, Activity, Loaded, ReadRefused, Hashed, End
  <2>2. Viewing' => Viewing
    BY <1>5, <2>1, ClosedShowsNothing
    DEF Enter, Activity, Loaded, ReadRefused, Hashed, End, Viewing, ViewInv
  <2>3. r' = r /\ Windows' = Windows /\ Displayed' = Displayed
    BY <1>5, <2>1 DEF views, r, Windows, Displayed, Target
  <2> QED BY <1>1, <1>5, <2>2, <2>3
          DEF views, ViewInv, ViewTypeOK, SelectionResolves, DisplayedIsSelected, DownloadIsTracked, Resolves
<1>6. CASE Draw /\ OpenViews /\ result = NoPair
  <2>1. ~Viewing' /\ UNCHANGED views
    BY <1>6 DEF Draw, OpenViews, Viewing
  <2> QED BY <1>1, <2>1
          DEF views, ViewInv, ViewTypeOK, SelectionResolves, DisplayedIsSelected, DownloadIsTracked
<1>7. CASE Draw /\ OpenViews /\ result # NoPair
  <2> DEFINE s == Initial(result, First(Points[result]))
  <2>1. /\ selection' = s /\ seen' = s /\ restored' = FALSE /\ pointer' = NoPointer
        /\ reading' = FALSE /\ UNCHANGED <<urls, timers, download>>
        /\ drawn'.result = result /\ r' = result
    BY <1>7 DEF Draw, OpenViews, r
  <2>2. result \in Importable
    BY <1>7 DEF ViewInv, ImportInv, ImportTypeOK
  <2>3. First(Points[result]) \in Points[result]
    BY <2>2, CheckpointRetained, FirstIsIn
  <2>4. s \in SelectionRecords /\ Resolves(result, s)
    BY <2>2, <2>3, InitialResolves
  <2> HIDE DEF s
  <2>5. ViewTypeOK' /\ DownloadIsTracked'
    BY <1>3, <2>1, <2>4
    DEF ViewInv, ViewTypeOK, DownloadIsTracked, SelectionRecords, PointerRecords
  <2>6. SelectionResolves'
    BY <2>1, <2>4 DEF SelectionResolves, Resolves
  <2>7. Displayed' = s.memory /\ Windows' = Memories[result][s.point]
    BY <2>1 DEF Displayed, NoPointer, Windows
  <2>8. DisplayedIsSelected'
    BY <2>1, <2>4, <2>7 DEF DisplayedIsSelected, NoPointer, Resolves
  <2> QED BY <1>1, <2>5, <2>6, <2>8 DEF ViewInv
<1> QED BY <1>4, <1>5, <1>6, <1>7

\* One step of the page with its views.
LEMMA ViewStepKeeps ==
  ASSUME ViewInv, [ViewNext]_viewVars
  PROVE  ViewInv'
<1>1. ASSUME ViewEvent PROVE ViewInv'
  <2>1. ASSUME Viewing, \E i \in Ids(r) : SelectPoint(i) \/ SelectPage(i) \/ SelectMemory(i) PROVE ViewInv'
    BY <2>1, SelectsKeep
  <2>2. ASSUME Viewing, NEW windows \in SUBSET Windows, NEW m \in windows \cup {0},
               SelectPointer(windows, m)
        PROVE  ViewInv'
    BY <2>2, PointerKeeps
  <2>3. ASSUME ClearPointer PROVE ViewInv'
    BY <2>3, ClearPointerKeeps DEF ClearPointer, Act
  <2>4. ASSUME Viewing, NEW b \in {NoBaseline} \cup [point : Ids(r), memory : Ids(r)], SelectBaseline(b)
        PROVE  ViewInv'
    BY <2>4, BaselineKeeps
  <2> QED BY <1>1, <2>1, <2>2, <2>3, <2>4, DrawRestoredKeeps, BookmarkKeeps DEF ViewEvent
<1>2. CASE UNCHANGED viewVars
  <2>1. ImportInv'
    BY <1>2, PageKeeps DEF viewVars, ViewInv
  <2>2. r' = r /\ Windows' = Windows /\ Displayed' = Displayed /\ Viewing' = Viewing
    BY <1>2 DEF viewVars, importVars, views, r, Windows, Displayed, Target, Viewing
  <2> QED BY <1>2, <2>1, <2>2
          DEF viewVars, views, ViewInv, ViewTypeOK, SelectionResolves, DisplayedIsSelected,
              DownloadIsTracked, Resolves
<1> QED BY <1>1, <1>2, PageStepKeeps DEF ViewNext

(***************************************************************************)
(* The theorems.                                                            *)
(***************************************************************************)
\* The page and its views keep their invariant.
THEOREM ViewInvariant == ViewSpec => []ViewInv
<1>1. ViewInit => ViewInv
  <2> SUFFICES ASSUME ViewInit PROVE ViewInv
    OBVIOUS
  <2>1. ImportInv /\ 0 \in 0..MaxUrls
    BY InitHolds, ViewAssumption DEF ViewInit
  <2>2. ~Viewing
    BY DEF ViewInit, ImportInit, Viewing
  <2>3. ViewTypeOK
    <3>1. /\ NoSelection \in SelectionRecords /\ NoPointer \in PointerRecords
          /\ selection = NoSelection /\ seen = NoSelection /\ pointer = NoPointer
      BY DEF ViewInit, NoSelection, NoBaseline, NoPointer, SelectionRecords, PointerRecords
    <3> QED BY <2>1, <3>1 DEF ViewInit, ViewTypeOK, SelectionRecords, PointerRecords
  <2>4. DownloadIsTracked
    BY DEF ViewInit, DownloadIsTracked
  <2> QED BY <2>1, <2>2, <2>3, <2>4 DEF ViewInv, SelectionResolves, DisplayedIsSelected
<1> QED BY <1>1, ViewStepKeeps, PTL DEF ViewSpec

\* Every selection of the page resolves against the recording shown.
THEOREM SelectionsResolve == ViewSpec => []SelectionResolves
<1>1. ViewInv => SelectionResolves
  BY DEF ViewInv
<1> QED BY <1>1, ViewInvariant, PTL

\* The bytes on the page are those of the window selected.
THEOREM DisplayedAreSelected == ViewSpec => []DisplayedIsSelected
<1>1. ViewInv => DisplayedIsSelected
  BY DEF ViewInv
<1> QED BY <1>1, ViewInvariant, PTL

\* No object URL is leaked or revoked by the timer of another.
THEOREM DownloadsAreTracked == ViewSpec => []DownloadIsTracked
<1>1. ViewInv => DownloadIsTracked
  BY DEF ViewInv
<1> QED BY <1>1, ViewInvariant, PTL

\* The page under its views is the page of RecordedImport.
LEMMA ViewsLeaveThePage == ViewSpec => ImportSpec
<1>1. ViewInit => ImportInit
  BY DEF ViewInit
<1>2. [ViewNext]_viewVars => [ImportNext]_importVars
  BY DEF ViewNext, ViewEvent, ImportNext, viewVars, SelectPoint, SelectPage, SelectMemory, SelectPointer,
         ClearPointer, SelectBaseline, Act, DrawRestored, ReadBookmark, Restore, Save, Expire
<1> QED BY <1>1, <1>2, PTL DEF ViewSpec, ImportSpec

\* So the page with its views implements FileImport as well.
THEOREM ViewsKeepThePromise == ViewSpec => ImplementsFileImport
BY ViewsLeaveThePage, KeepsThePromise, PTL

(***************************************************************************)
(* The reader of the lines.                                                 *)
(***************************************************************************)
\* No id filed so far is above the last one read.
LEMMA FiledIdsAreRead ==
  ASSUME RecordingInv, verdict # "refused", NEW i \in DOMAIN points, NEW a \in Named(points[i])
  PROVE  a \in Nat /\ a <= previousId
<1>1. a \in ReadIds
  BY DEF RecordingInv, EveryPairIsFiled
<1>2. PICK k \in DOMAIN pairs : a = pairs[k].id
  BY <1>1 DEF ReadIds
<1>3. pairs[k] \in Lines /\ pairs[k].id <= previousId
  BY DEF RecordingInv
<1> QED BY <1>2, <1>3 DEF Lines

\* What a retained line changes of the latest checkpoint, field by field.
LEMMA RetainedFields ==
  ASSUME points \in Seq(PointRecords), points # <<>>,
         NEW l \in Lines, l.op \in {"stack", "variables", "memory", "query"}
  PROVE  \E q \in PointRecords :
           /\ Retained(l) = [points EXCEPT ![Len(points)] = q]
           /\ q.id = Latest.id /\ q.rev = Latest.rev
           /\ q.stack = IF l.op = "stack" THEN l.id ELSE Latest.stack
           /\ q.variables = IF l.op = "variables" THEN Latest.variables \cup {l.id} ELSE Latest.variables
           /\ q.pages = IF l.op = "query" THEN Latest.pages \cup {l.id} ELSE Latest.pages
           /\ q.memories = IF l.op = "memory" THEN Latest.memories \cup {l.id} ELSE Latest.memories
<1> DEFINE n == Len(points)
<1>1. n \in DOMAIN points /\ Latest \in PointRecords /\ l.id \in Nat
  BY DEF Latest, Lines
<1> DEFINE q == CASE l.op = "stack"     -> [Latest EXCEPT !.stack = l.id]
                  [] l.op = "variables" -> [Latest EXCEPT !.variables = @ \cup {l.id}]
                  [] l.op = "memory"    -> [Latest EXCEPT !.memories = @ \cup {l.id}]
                  [] OTHER              -> [Latest EXCEPT !.pages = @ \cup {l.id}]
<1>2. Retained(l) = [points EXCEPT ![n] = q]
  BY <1>1 DEF Retained, Latest
<1>3. q \in PointRecords /\ q.id = Latest.id /\ q.rev = Latest.rev
  BY <1>1 DEF PointRecords
<1>4. /\ q.stack = IF l.op = "stack" THEN l.id ELSE Latest.stack
      /\ q.variables = IF l.op = "variables" THEN Latest.variables \cup {l.id} ELSE Latest.variables
  BY <1>1 DEF PointRecords
<1>5. /\ q.pages = IF l.op = "query" THEN Latest.pages \cup {l.id} ELSE Latest.pages
      /\ q.memories = IF l.op = "memory" THEN Latest.memories \cup {l.id} ELSE Latest.memories
  BY <1>1 DEF PointRecords
<1> QED BY <1>2, <1>3, <1>4, <1>5

\* A line that is no step adds its id to the latest checkpoint, and only that.
LEMMA RetainedAdds ==
  ASSUME points \in Seq(PointRecords), points # <<>>,
         NEW l \in Lines, l.op \in {"stack", "variables", "memory", "query"}, l.id # 0,
         l.op = "stack" => Latest.stack = 0
  PROVE  \E q \in PointRecords :
           /\ Retained(l) = [points EXCEPT ![Len(points)] = q]
           /\ q.id = Latest.id /\ q.rev = Latest.rev
           /\ Retentions(q) = Retentions(Latest) \cup {l.id}
<1>1. PICK q \in PointRecords :
        /\ Retained(l) = [points EXCEPT ![Len(points)] = q]
        /\ q.id = Latest.id /\ q.rev = Latest.rev
        /\ q.stack = IF l.op = "stack" THEN l.id ELSE Latest.stack
        /\ q.variables = IF l.op = "variables" THEN Latest.variables \cup {l.id} ELSE Latest.variables
        /\ q.pages = IF l.op = "query" THEN Latest.pages \cup {l.id} ELSE Latest.pages
        /\ q.memories = IF l.op = "memory" THEN Latest.memories \cup {l.id} ELSE Latest.memories
  BY RetainedFields
<1>2. Retentions(q) = Retentions(Latest) \cup {l.id}
  BY <1>1 DEF Retentions
<1> QED BY <1>1, <1>2

\* The ids read after one more line.
LEMMA ReadAdds ==
  ASSUME pairs \in Seq(Lines), NEW l \in Lines, pairs' = Append(pairs, l)
  PROVE  ReadIds' = ReadIds \cup {l.id}
<1>1. /\ DOMAIN pairs' = 1..Len(pairs) + 1 /\ DOMAIN pairs = 1..Len(pairs) /\ Len(pairs) \in Nat
      /\ pairs'[Len(pairs) + 1] = l
      /\ \A k \in 1..Len(pairs) : pairs'[k] = pairs[k]
  OBVIOUS
<1> QED BY <1>1 DEF ReadIds

\* The lines read so far end at the last id.
LEMMA PairsKeep ==
  ASSUME RecordingInv, NEW l \in Lines, Read(l)
  PROVE  /\ pairs' \in Seq(Lines) /\ previousId' \in Nat
         /\ \A k \in DOMAIN pairs' : pairs'[k].id <= previousId'
<1> DEFINE m == Len(pairs)
<1>1. /\ l.id \in Nat /\ previousId \in Nat /\ l.id > previousId /\ previousId' = l.id
      /\ pairs \in Seq(Lines) /\ pairs' = Append(pairs, l)
  BY DEF Read, Fits, RecordingInv, Lines
<1>2. /\ DOMAIN pairs' = 1..m + 1 /\ DOMAIN pairs = 1..m /\ m \in Nat
      /\ pairs'[m + 1] = l /\ pairs' \in Seq(Lines)
      /\ \A k \in 1..m : pairs'[k] = pairs[k] /\ pairs[k] \in Lines
  BY <1>1
<1>3. \A k \in 1..m : pairs[k].id \in Nat /\ pairs[k].id <= previousId
  BY <1>2 DEF RecordingInv, Lines
<1>4. \A k \in 1..m + 1 : pairs'[k].id <= l.id
  BY <1>1, <1>2, <1>3
<1> QED BY <1>1, <1>2, <1>4

\* What is filed so far, said of the numbers of the checkpoints.
LEMMA FiledFacts ==
  ASSUME RecordingInv, verdict # "refused"
  PROVE  /\ Len(points) \in Nat /\ DOMAIN points = 1..Len(points)
         /\ \A i, j \in 1..Len(points) : i < j =>
              /\ points[i].id < points[j].id /\ points[i].rev < points[j].rev
              /\ \A a \in Retentions(points[i]) : a < points[j].id
         /\ \A i \in 1..Len(points) : \A a \in Retentions(points[i]) : points[i].id < a
         /\ ReadIds = UNION {Named(points[i]) : i \in 1..Len(points)}
         /\ \A i \in 1..Len(points) : points[i].rev \in Nat /\ points[i].id \in Nat
         /\ \A i \in 1..Len(points) : \A a \in Named(points[i]) : a \in Nat /\ a <= previousId
<1>1. points \in Seq(PointRecords)
  BY DEF RecordingInv
<1>2. /\ Len(points) \in Nat /\ DOMAIN points = 1..Len(points)
      /\ \A i \in 1..Len(points) : points[i] \in PointRecords
  BY <1>1
<1>3. \A i \in 1..Len(points) : points[i].rev \in Nat /\ points[i].id \in Nat
  BY <1>2 DEF PointRecords, Revs
<1> QED BY <1>2, <1>3, FiledIdsAreRead DEF RecordingInv, EveryPairIsFiled

\* A step that is accepted opens a checkpoint above everything.
LEMMA StepKeeps ==
  ASSUME RecordingInv, NEW l \in Lines, Read(l), l.op = "step"
  PROVE  RecordingInv'
<1> DEFINE n == Len(points)
           p == NewPoint(l)
<1>1. /\ l.id \in Nat /\ previousId \in Nat /\ l.id > previousId
      /\ points \in Seq(PointRecords) /\ pairs \in Seq(Lines) /\ verdict # "refused" /\ verdict' = verdict
      /\ points # <<>> => l.rev > Latest.rev
  BY DEF Read, Fits, StepFits, RecordingInv, Lines
<1>2. p \in PointRecords /\ p.id = l.id /\ p.rev = l.rev /\ Retentions(p) = {} /\ Named(p) = {l.id}
  BY DEF NewPoint, PointRecords, Retentions, Named, Lines
<1>3. points' = Append(points, p)
  BY DEF Read
<1> HIDE DEF p
<1>4. /\ points' \in Seq(PointRecords) /\ n \in Nat
      /\ DOMAIN points' = 1..n + 1 /\ DOMAIN points = 1..n
      /\ points'[n + 1] = p
      /\ \A i \in 1..n : points'[i] = points[i]
  BY <1>1, <1>2, <1>3
<1>5. /\ pairs' \in Seq(Lines) /\ previousId' \in Nat
      /\ \A k \in DOMAIN pairs' : pairs'[k].id <= previousId'
  BY PairsKeep
<1>6. \A i \in 1..n : \A a \in Named(points[i]) : a < l.id
  BY <1>1, FiledFacts
<1>7. \A i \in 1..n : points[i].rev < l.rev
  <2> SUFFICES ASSUME NEW i \in 1..n PROVE points[i].rev < l.rev
    OBVIOUS
  <2>1. points[i].rev \in Nat /\ points[n].rev \in Nat /\ l.rev \in Nat /\ points # <<>>
    BY <1>1, <1>4, FiledFacts DEF Lines, Revs
  <2>2. i < n => points[i].rev < points[n].rev
    BY <1>1, <1>4, FiledFacts
  <2>3. points[n].rev < l.rev
    BY <1>1, <2>1 DEF Latest
  <2> QED BY <1>4, <2>1, <2>2, <2>3
<1>8. \A i, j \in 1..n + 1 : i < j =>
        /\ points'[i].id < points'[j].id /\ points'[i].rev < points'[j].rev
        /\ \A a \in Retentions(points'[i]) : a < points'[j].id
  <2> SUFFICES ASSUME NEW i \in 1..n + 1, NEW j \in 1..n + 1, i < j
               PROVE  /\ points'[i].id < points'[j].id /\ points'[i].rev < points'[j].rev
                      /\ \A a \in Retentions(points'[i]) : a < points'[j].id
    OBVIOUS
  <2>1. i \in 1..n /\ points'[i] = points[i]
    BY <1>4
  <2>2. CASE j = n + 1
    <3>1. points'[j].id = l.id /\ points'[j].rev = l.rev
      BY <1>2, <1>4, <2>2
    <3>2. points[i].id \in Named(points[i]) /\ Retentions(points[i]) \subseteq Named(points[i])
      BY DEF Named
    <3> QED BY <1>6, <1>7, <2>1, <3>1, <3>2
  <2>3. CASE j # n + 1
    <3>1. j \in 1..n /\ points'[j] = points[j]
      BY <1>4, <2>3
    <3> QED BY <1>1, <2>1, <3>1, FiledFacts
  <2> QED BY <2>2, <2>3
<1>9. \A i \in 1..n + 1 : \A a \in Retentions(points'[i]) : points'[i].id < a
  <2>1. \A i \in 1..n : \A a \in Retentions(points[i]) : points[i].id < a
    BY <1>1, FiledFacts
  <2>2. \A i \in 1..n + 1 : (i \in 1..n /\ points'[i] = points[i]) \/ Retentions(points'[i]) = {}
    BY <1>2, <1>4
  <2> QED BY <2>1, <2>2, Zenon
<1>10. ReadIds' = UNION {Named(points'[i]) : i \in 1..n + 1}
  <2>1. ReadIds' = ReadIds \cup {l.id}
    BY <1>1, ReadAdds DEF Read
  <2>2. ReadIds = UNION {Named(points[i]) : i \in 1..n}
    BY <1>1, FiledFacts
  <2> QED BY <1>2, <1>4, <2>1, <2>2
<1> QED BY <1>4, <1>5, <1>8, <1>9, <1>10 DEF RecordingInv, EveryPairIsFiled

\* Any other accepted line is filed under the latest checkpoint.
LEMMA RetentionKeeps ==
  ASSUME RecordingInv, NEW l \in Lines, Read(l), l.op # "step"
  PROVE  RecordingInv'
<1> DEFINE n == Len(points)
<1>1. /\ l.id \in Nat /\ previousId \in Nat /\ l.id > previousId
      /\ points \in Seq(PointRecords) /\ pairs \in Seq(Lines) /\ verdict # "refused" /\ verdict' = verdict
      /\ points # <<>> /\ (l.op = "stack" => Latest.stack = 0)
      /\ l.op \in {"stack", "variables", "memory", "query"} /\ points' = Retained(l)
  BY DEF Read, Fits, RecordingInv, Lines, Operations
<1>2. PICK q \in PointRecords :
        /\ points' = [points EXCEPT ![n] = q]
        /\ q.id = Latest.id /\ q.rev = Latest.rev
        /\ Retentions(q) = Retentions(Latest) \cup {l.id}
  BY <1>1, RetainedAdds
<1>3. /\ points' \in Seq(PointRecords) /\ n \in Nat /\ n > 0
      /\ DOMAIN points' = 1..n /\ DOMAIN points = 1..n
      /\ points'[n] = q /\ Latest = points[n]
      /\ \A i \in 1..n : i # n => points'[i] = points[i]
  BY <1>1, <1>2 DEF Latest
<1> HIDE DEF n
<1>9. n \in 1..n /\ \A i, j \in 1..n : i < j => i # n
  BY <1>3
<1>4. /\ pairs' \in Seq(Lines) /\ previousId' \in Nat
      /\ \A k \in DOMAIN pairs' : pairs'[k].id <= previousId'
  BY PairsKeep
<1>5. \A i \in 1..n : \A a \in Named(points[i]) : a < l.id
  BY <1>1, FiledFacts DEF n
<1>6. \A i, j \in 1..n : i < j =>
        /\ points'[i].id < points'[j].id /\ points'[i].rev < points'[j].rev
        /\ \A a \in Retentions(points'[i]) : a < points'[j].id
  <2> SUFFICES ASSUME NEW i \in 1..n, NEW j \in 1..n, i < j
               PROVE  /\ points'[i].id < points'[j].id /\ points'[i].rev < points'[j].rev
                      /\ \A a \in Retentions(points'[i]) : a < points'[j].id
    OBVIOUS
  <2>1. i # n /\ points'[i] = points[i]
    BY <1>3, <1>9
  <2>2. points'[j].id = points[j].id /\ points'[j].rev = points[j].rev
    BY <1>2, <1>3
  <2> QED BY <1>1, <2>1, <2>2, FiledFacts DEF n
<1>7. \A i \in 1..n : \A a \in Retentions(points'[i]) : points'[i].id < a
  <2>1. \A i \in 1..n : \A a \in Retentions(points[i]) : points[i].id < a
    BY <1>1, FiledFacts DEF n
  <2>2. points[n].id < l.id
    BY <1>3, <1>5, <1>9 DEF Named
  <2> QED BY <1>2, <1>3, <2>1, <2>2
<1>8. ReadIds' = UNION {Named(points'[i]) : i \in 1..n}
  <2>1. ReadIds' = ReadIds \cup {l.id}
    BY <1>1, ReadAdds DEF Read
  <2>2. ReadIds = UNION {Named(points[i]) : i \in 1..n}
    BY <1>1, FiledFacts DEF n
  <2>3. Named(q) = Named(points[n]) \cup {l.id}
    BY <1>2, <1>3 DEF Named
  <2>4. \A i \in 1..n : Named(points'[i]) = IF i = n THEN Named(points[n]) \cup {l.id} ELSE Named(points[i])
    BY <1>3, <2>3
  <2> QED BY <1>9, <2>1, <2>2, <2>4
<1> QED BY <1>3, <1>4, <1>6, <1>7, <1>8 DEF RecordingInv, EveryPairIsFiled

\* The lines tried are lines.
LEMMA CandidatesAreLines ==
  ASSUME previousId \in Nat, NEW l \in Candidates
  PROVE  l \in Lines
<1>1. /\ {previousId, previousId + 1} \subseteq Nat
      /\ {0} \subseteq 0..MaxPages /\ {FALSE} \subseteq BOOLEAN /\ 0..MaxPages \subseteq 0..MaxPages
  BY RecordingAssumption
<1>2. ASSUME NEW ops \in SUBSET Operations, NEW queries \in SUBSET (Queries \cup {None}),
             NEW cursors \in SUBSET (Tokens \cup {None}), NEW positions \in SUBSET (0..MaxPages),
             NEW ends \in SUBSET BOOLEAN, l \in Worth(ops, queries, cursors, positions, ends)
      PROVE  l \in Lines
  BY <1>1, <1>2 DEF Worth, Lines
<1>3. CASE l \in Worth({"step", "stack", "memory", "other"}, {None}, {None}, {0}, {FALSE})
  <2>1. {"step", "stack", "memory", "other"} \in SUBSET Operations
    BY DEF Operations
  <2> QED BY <1>1, <1>2, <1>3, <2>1
<1>4. CASE l \in Worth({"variables"}, {None}, {None}, 0..MaxPages, BOOLEAN)
  <2>1. {"variables"} \in SUBSET Operations
    BY DEF Operations
  <2> QED BY <1>1, <1>2, <1>4, <2>1
<1>5. CASE l \in Worth({"query"}, Queries, Tokens \cup {None}, {0}, {FALSE})
  <2>1. {"query"} \in SUBSET Operations
    BY DEF Operations
  <2> QED BY <1>1, <1>2, <1>5, <2>1
<1> QED BY <1>3, <1>4, <1>5 DEF Candidates

\* Starting over, which a refusal does, satisfies the types.
LEMMA NothingReadKeeps ==
  ASSUME NothingRead, verdict' = "refused"
  PROVE  RecordingInv'
BY DEF NothingRead, RecordingInv, EveryPairIsFiled

\* What is kept of each checkpoint has its type and its place.
THEOREM RecordingInvariant == Spec => []RecordingInv
<1>1. Init => RecordingInv
  BY DEF Init, RecordingInv, EveryPairIsFiled, ReadIds
<1>2. ASSUME RecordingInv, [Next]_vars PROVE RecordingInv'
  <2>1. \A l \in Candidates : l \in Lines
    BY <1>2, CandidatesAreLines DEF RecordingInv
  <2>2. ASSUME NEW l \in Candidates, Read(l) PROVE RecordingInv'
    BY <1>2, <2>1, <2>2, StepKeeps, RetentionKeeps
  <2>3. ASSUME NEW l \in Candidates, Refuse(l) PROVE RecordingInv'
    BY <2>3, NothingReadKeeps DEF Refuse
  <2>4. CASE Finish
    <3>1. CASE verdict' = "refused" /\ NothingRead
      BY <3>1, NothingReadKeeps
    <3>2. CASE UNCHANGED <<pairs, previousId, capture, points, tokens, consumed>>
      <4>1. verdict # "refused"
        BY <2>4 DEF Finish
      <4>2. ReadIds' = ReadIds
        BY <3>2 DEF ReadIds
      <4> QED BY <1>2, <3>2, <4>1, <4>2 DEF RecordingInv, EveryPairIsFiled
    <3> QED BY <2>4, <3>1, <3>2 DEF Finish
  <2>5. CASE UNCHANGED vars
    BY <1>2, <2>5 DEF vars, RecordingInv, EveryPairIsFiled, ReadIds
  <2> QED BY <1>2, <2>2, <2>3, <2>4, <2>5 DEF Next
<1> QED BY <1>1, <1>2, PTL DEF Spec

\* An import, finished or under way, has filed every line it read, whatever the
\* files hold and whatever the limits are.
THEOREM EveryPairFiled == Spec => []EveryPairIsFiled
<1>1. RecordingInv => EveryPairIsFiled
  BY DEF RecordingInv
<1> QED BY <1>1, RecordingInvariant, PTL

(***************************************************************************)
(* The loop is exact.                                                       *)
(*                                                                         *)
(* LoopInv is inductive: the few things the loop keeps of the lines read    *)
(* agree with those lines, and the lines are an excerpt.  An excerpt goes   *)
(* on as one exactly with a line that follows it (ExcerptOfAppend), which   *)
(* is what the tests of the loop ask of the line (FitsIsFollows); the       *)
(* checks at the end ask what Whole says of each checkpoint                 *)
(* (CompleteIsWhole), since numbering the pages of source variables in      *)
(* order is counting those before each (RanksAreCounts).                    *)
(***************************************************************************)
\* The last checkpoint of a recording so far.
LastStep(s, c) == c \in Steps(s) /\ \A d \in Steps(s) : d <= c

\* What the loop has to ask of a line that goes on an excerpt, said of the lines alone.
PageFollows(s, l) ==
  /\ l.next # None =>
       l.next # l.token /\ \A k \in DOMAIN s : IsPage(s, k) => s[k].next # l.next
  /\ l.token # None =>
       /\ \A k \in DOMAIN s : IsPage(s, k) => s[k].token # l.token
       /\ \E k \in DOMAIN s : /\ IsPage(s, k) /\ s[k].next = l.token /\ s[k].query = l.query
                              /\ \E c \in Steps(s) : LastStep(s, c) /\ Owns(s, c, k)

Follows(s, l) ==
  /\ l.sound /\ l.op # "other" /\ l.id > 0
  /\ \A k \in DOMAIN s : s[k].id < l.id
  /\ \A k \in DOMAIN s : s[k].capture = l.capture
  /\ IF l.op = "step"
     THEN /\ \A c \in Steps(s) : s[c].rev < l.rev
          /\ Cardinality(Steps(s)) < MaxPoints
     ELSE \E c \in Steps(s) : LastStep(s, c) /\ s[c].rev = l.rev
  /\ l.op = "stack" => \A k \in DOMAIN s : s[k].op = "stack" => \E c \in Steps(s) : k < c
  /\ l.op = "query" => PageFollows(s, l)

\* One more line.
LEMMA Appended ==
  ASSUME NEW s \in Seq(Lines), NEW l \in Lines
  PROVE  /\ Append(s, l) \in Seq(Lines) /\ Len(s) \in Nat
         /\ DOMAIN s = 1..Len(s) /\ DOMAIN Append(s, l) = 1..Len(s) + 1
         /\ Append(s, l)[Len(s) + 1] = l
         /\ \A k \in 1..Len(s) : Append(s, l)[k] = s[k] /\ s[k] \in Lines
         /\ \A k \in 1..Len(s) + 1 : k \in 1..Len(s) \/ k = Len(s) + 1
         /\ \A k \in 1..Len(s) : k \in 1..Len(s) + 1 /\ k < Len(s) + 1 /\ k # Len(s) + 1
         /\ Len(s) + 1 \in 1..Len(s) + 1
OBVIOUS

\* It is a checkpoint of its own or belongs to the last one.
LEMMA StepsOfAppend ==
  ASSUME NEW s \in Seq(Lines), NEW l \in Lines
  PROVE  /\ Steps(s) \subseteq 1..Len(s)
         /\ Steps(Append(s, l)) = IF l.op = "step" THEN Steps(s) \cup {Len(s) + 1} ELSE Steps(s)
         /\ \A k \in 1..Len(s) : \A c : Owns(Append(s, l), c, k) <=> Owns(s, c, k)
         /\ \A c : Owns(Append(s, l), c, Len(s) + 1) <=>
                     IF l.op = "step" THEN c = Len(s) + 1 ELSE LastStep(s, c)
<1> DEFINE n == Len(s)
           t == Append(s, l)
<1>1. /\ n \in Nat /\ DOMAIN s = 1..n /\ DOMAIN t = 1..n + 1 /\ t[n + 1] = l
      /\ \A k \in 1..n : t[k] = s[k]
  BY Appended
<1> HIDE DEF n, t
<1>2. Steps(s) \subseteq 1..n
  BY <1>1 DEF Steps
<1>3. Steps(t) = IF l.op = "step" THEN Steps(s) \cup {n + 1} ELSE Steps(s)
  BY <1>1 DEF Steps
<1>4. ASSUME NEW k \in 1..n, NEW c PROVE Owns(t, c, k) <=> Owns(s, c, k)
  BY <1>1, <1>2, <1>3 DEF Owns
<1>5. ASSUME NEW c PROVE Owns(t, c, n + 1) <=> IF l.op = "step" THEN c = n + 1 ELSE LastStep(s, c)
  <2>1. CASE l.op = "step"
    <3>1. \A d \in Steps(t) : d <= n + 1 /\ d \in Nat
      BY <1>1, <1>2, <1>3, <2>1
    <3>2. n + 1 \in Steps(t)
      BY <1>3, <2>1
    <3> QED BY <1>1, <2>1, <3>1, <3>2 DEF Owns
  <2>2. CASE l.op # "step"
    BY <1>1, <1>2, <1>3, <2>2 DEF Owns, LastStep
  <2> QED BY <2>1, <2>2
<1> QED BY <1>2, <1>3, <1>4, <1>5 DEF n, t

\* A page of the lines before goes on as it did.
LEMMA GoesOnOfAppend ==
  ASSUME NEW s \in Seq(Lines), NEW l \in Lines, NEW k \in 1..Len(s)
  PROVE  GoesOn(Append(s, l), k) <=> GoesOn(s, k)
<1> DEFINE n == Len(s)
           t == Append(s, l)
<1>1. /\ n \in Nat /\ \A i \in 1..n : t[i] = s[i]
      /\ Steps(s) \subseteq 1..n
      /\ Steps(t) = IF l.op = "step" THEN Steps(s) \cup {n + 1} ELSE Steps(s)
      /\ \A i \in 1..n : \A c : Owns(t, c, i) <=> Owns(s, c, i)
  BY Appended, StepsOfAppend
<1> HIDE DEF n, t
<1>2. \A i \in 1..k - 1 : i \in 1..n
  BY <1>1 DEF n
<1>3. \A i \in 1..n : \A c : Owns(s, c, i) => c \in Steps(s) /\ c \in Steps(t)
  BY <1>1 DEF Owns
<1>4. k \in 1..n
  BY DEF n
<1>5. \A i \in 1..k - 1 :
        (\E c \in Steps(t) : Owns(t, c, i) /\ Owns(t, c, k)) <=> (\E c \in Steps(s) : Owns(s, c, i) /\ Owns(s, c, k))
  BY <1>1, <1>2, <1>3, <1>4
<1>6. \A i \in 1..k - 1 : (IsPage(t, i) <=> IsPage(s, i)) /\ t[i] = s[i]
  BY <1>1, <1>2 DEF IsPage
<1>7. t[k] = s[k]
  BY <1>1, <1>4
<1>8. GoesOn(t, k) <=> GoesOn(s, k)
  BY <1>5, <1>6, <1>7, Zenon DEF GoesOn
<1> QED BY <1>8 DEF n, t

\* Each part of an excerpt, said of one more line.
LEMMA PlainPartsOfAppend ==
  ASSUME NEW s \in Seq(Lines), NEW l \in Lines, EachSound(s), IdsRise(s), OneCapture(s)
  PROVE  /\ EachSound(Append(s, l)) <=> l.sound /\ l.op # "other" /\ l.id > 0
         /\ IdsRise(Append(s, l)) <=> \A k \in DOMAIN s : s[k].id < l.id
         /\ OneCapture(Append(s, l)) <=> \A k \in DOMAIN s : s[k].capture = l.capture
<1> DEFINE n == Len(s)
           t == Append(s, l)
<1>1. /\ n \in Nat /\ DOMAIN s = 1..n /\ DOMAIN t = 1..n + 1 /\ t[n + 1] = l
      /\ \A k \in 1..n : t[k] = s[k]
      /\ \A k \in 1..n + 1 : k \in 1..n \/ k = n + 1
      /\ \A k \in 1..n : k \in 1..n + 1 /\ k < n + 1 /\ k # n + 1
      /\ n + 1 \in 1..n + 1
  BY Appended
<1> HIDE DEF n, t
<1>2. EachSound(t) <=> l.sound /\ l.op # "other" /\ l.id > 0
  BY <1>1 DEF EachSound
<1>3. IdsRise(t) <=> \A k \in 1..n : s[k].id < l.id
  BY <1>1 DEF IdsRise
<1>4. OneCapture(t) <=> \A k \in 1..n : s[k].capture = l.capture
  BY <1>1 DEF OneCapture
<1> QED BY <1>1, <1>2, <1>3, <1>4 DEF n, t

\* A step must be above the steps before it, and one more must be allowed.
LEMMA StepsRiseOfAppend ==
  ASSUME NEW s \in Seq(Lines), NEW l \in Lines, StepsRise(s)
  PROVE  StepsRise(Append(s, l)) <=>
           (l.op = "step" => /\ \A c \in Steps(s) : s[c].rev < l.rev
                             /\ Cardinality(Steps(s)) < MaxPoints)
<1> DEFINE n == Len(s)
           t == Append(s, l)
<1>1. /\ n \in Nat /\ t[n + 1] = l
      /\ \A k \in 1..n : t[k] = s[k]
      /\ Steps(s) \subseteq 1..n
      /\ Steps(t) = IF l.op = "step" THEN Steps(s) \cup {n + 1} ELSE Steps(s)
  BY Appended, StepsOfAppend
<1> HIDE DEF n, t
<1>2. \A k \in Steps(s) : k < n + 1 /\ k # n + 1 /\ t[k] = s[k] /\ k \in Nat
  BY <1>1
<1>3. CASE l.op # "step"
  BY <1>1, <1>2, <1>3 DEF StepsRise, t
<1>4. CASE l.op = "step"
  <2>1. Steps(t) = Steps(s) \cup {n + 1} /\ n + 1 \notin Steps(s)
    BY <1>1, <1>2, <1>4
  <2>2. (\A i, j \in Steps(t) : i < j => t[i].rev < t[j].rev) <=> \A c \in Steps(s) : s[c].rev < l.rev
    BY <1>1, <1>2, <2>1 DEF StepsRise
  <2>3. IsFiniteSet(Steps(s))
    <3>1. IsFiniteSet(1..n)
      BY <1>1, FS_Interval
    <3> QED BY <1>1, <3>1, FS_Subset
  <2>4. Cardinality(Steps(t)) = Cardinality(Steps(s)) + 1 /\ Cardinality(Steps(s)) \in Nat
    BY <2>1, <2>3, FS_AddElement, FS_CardinalityType
  <2>5. Cardinality(Steps(t)) <= MaxPoints <=> Cardinality(Steps(s)) < MaxPoints
    BY <2>4, RecordingAssumption
  <2> QED BY <1>4, <2>2, <2>5 DEF StepsRise, t
<1> QED BY <1>3, <1>4

\* Any other line must have the revision of the last step.
LEMMA OwnersOfAppend ==
  ASSUME NEW s \in Seq(Lines), NEW l \in Lines, EachOwned(s)
  PROVE  EachOwned(Append(s, l)) <=>
           (l.op # "step" => \E c \in Steps(s) : LastStep(s, c) /\ s[c].rev = l.rev)
<1> DEFINE n == Len(s)
           t == Append(s, l)
<1>1. /\ n \in Nat /\ DOMAIN s = 1..n /\ DOMAIN t = 1..n + 1 /\ t[n + 1] = l
      /\ \A k \in 1..n : t[k] = s[k]
      /\ \A k \in 1..n + 1 : k \in 1..n \/ k = n + 1
      /\ \A k \in 1..n : k \in 1..n + 1
      /\ n + 1 \in 1..n + 1
      /\ Steps(s) \subseteq 1..n
      /\ Steps(t) = IF l.op = "step" THEN Steps(s) \cup {n + 1} ELSE Steps(s)
      /\ \A k \in 1..n : \A c : Owns(t, c, k) <=> Owns(s, c, k)
      /\ \A c : Owns(t, c, n + 1) <=> IF l.op = "step" THEN c = n + 1 ELSE LastStep(s, c)
  BY Appended, StepsOfAppend
<1> HIDE DEF n, t
<1>2. \A k \in 1..n : \E c \in Steps(t) : Owns(t, c, k) /\ t[c].rev = t[k].rev
  BY <1>1 DEF EachOwned
<1>3. EachOwned(t) <=> \E c \in Steps(t) : Owns(t, c, n + 1) /\ t[c].rev = l.rev
  BY <1>1, <1>2 DEF EachOwned
<1>4. CASE l.op = "step"
  BY <1>1, <1>3, <1>4 DEF t
<1>5. CASE l.op # "step"
  <2>1. \A c \in Steps(s) : t[c] = s[c]
    BY <1>1
  <2> QED BY <1>1, <1>3, <1>5, <2>1 DEF t
<1> QED BY <1>4, <1>5

\* A stack must be the first since the last step.
LEMMA StackOfAppend ==
  ASSUME NEW s \in Seq(Lines), NEW l \in Lines, OneStack(s)
  PROVE  OneStack(Append(s, l)) <=>
           (l.op = "stack" => \A k \in DOMAIN s : s[k].op = "stack" => \E c \in Steps(s) : k < c)
<1> DEFINE n == Len(s)
           t == Append(s, l)
<1>1. /\ n \in Nat /\ DOMAIN s = 1..n /\ DOMAIN t = 1..n + 1 /\ t[n + 1] = l
      /\ \A k \in 1..n : t[k] = s[k]
      /\ \A k \in 1..n + 1 : k \in 1..n \/ k = n + 1
      /\ \A k \in 1..n : k \in 1..n + 1 /\ k < n + 1 /\ ~(n + 1 < k)
      /\ n + 1 \in 1..n + 1
      /\ Steps(s) \subseteq 1..n
      /\ Steps(t) = IF l.op = "step" THEN Steps(s) \cup {n + 1} ELSE Steps(s)
  BY Appended, StepsOfAppend
<1> HIDE DEF n, t
<1>2. \A c \in Steps(s) : c \in Steps(t) /\ c < n + 1 /\ c \in Nat
  BY <1>1
<1>3. \A c \in Steps(t) : c < n + 1 => c \in Steps(s)
  BY <1>1
<1>4. \A i, j \in 1..n : t[i].op = "stack" /\ t[j].op = "stack" /\ i < j => \E c \in Steps(t) : i < c /\ c < j
  BY <1>1, <1>2 DEF OneStack
<1>5. OneStack(t) <=> \A i \in 1..n : s[i].op = "stack" /\ l.op = "stack" => \E c \in Steps(t) : i < c /\ c < n + 1
  BY <1>1, <1>4 DEF OneStack
<1>6. \A i \in 1..n : (\E c \in Steps(t) : i < c /\ c < n + 1) <=> (\E c \in Steps(s) : i < c)
  BY <1>2, <1>3
<1> QED BY <1>1, <1>5, <1>6 DEF t

\* A page must go on where one ended, and name a token of its own.
LEMMA TokensOfAppend ==
  ASSUME NEW s \in Seq(Lines), NEW l \in Lines, TokensOnce(s)
  PROVE  TokensOnce(Append(s, l)) <=> (l.op = "query" => PageFollows(s, l))
<1> DEFINE n == Len(s)
           t == Append(s, l)
<1>1. /\ n \in Nat /\ DOMAIN s = 1..n /\ DOMAIN t = 1..n + 1 /\ t[n + 1] = l
      /\ \A k \in 1..n : t[k] = s[k]
      /\ \A k \in 1..n + 1 : k \in 1..n \/ k = n + 1
      /\ \A k \in 1..n : k \in 1..n + 1 /\ k # n + 1
      /\ n + 1 \in 1..n + 1 /\ n + 1 - 1 = n
      /\ Steps(t) = IF l.op = "step" THEN Steps(s) \cup {n + 1} ELSE Steps(s)
      /\ \A k \in 1..n : \A c : Owns(t, c, k) <=> Owns(s, c, k)
      /\ \A c : Owns(t, c, n + 1) <=> IF l.op = "step" THEN c = n + 1 ELSE LastStep(s, c)
      /\ \A k \in 1..n : GoesOn(t, k) <=> GoesOn(s, k)
  BY Appended, StepsOfAppend, GoesOnOfAppend
<1> HIDE DEF n, t
<1>2. /\ \A k \in 1..n : IsPage(t, k) <=> IsPage(s, k)
      /\ IsPage(t, n + 1) <=> l.op = "query"
  BY <1>1 DEF IsPage
<1>3. CASE l.op # "query"
  <2>1. TokensOnce(t)
    BY <1>1, <1>2, <1>3 DEF TokensOnce
  <2> QED BY <1>3, <2>1 DEF t
<1>4. CASE l.op = "query"
  <2>1. GoesOn(t, n + 1) <=>
          \E k \in 1..n : /\ IsPage(s, k) /\ s[k].next = l.token /\ s[k].query = l.query
                          /\ \E c \in Steps(s) : LastStep(s, c) /\ Owns(s, c, k)
    <3>1. Steps(t) = Steps(s) /\ \A c : Owns(t, c, n + 1) <=> LastStep(s, c)
      BY <1>1, <1>4
    <3>2. \A k \in 1..n : (\E c \in Steps(t) : Owns(t, c, k) /\ Owns(t, c, n + 1)) <=>
                          (\E c \in Steps(s) : LastStep(s, c) /\ Owns(s, c, k))
      BY <1>1, <3>1
    <3> QED BY <1>1, <1>2, <3>2 DEF GoesOn
  <2>2. PageFollows(s, l) <=>
          /\ l.next # None => l.next # l.token /\ \A k \in 1..n : IsPage(s, k) => s[k].next # l.next
          /\ l.token # None => (\A k \in 1..n : IsPage(s, k) => s[k].token # l.token) /\ GoesOn(t, n + 1)
    BY <1>1, <2>1 DEF PageFollows
  <2>3. TokensOnce(t) => PageFollows(s, l)
    BY <1>1, <1>2, <1>4, <2>2 DEF TokensOnce
  <2>4. ASSUME PageFollows(s, l) PROVE TokensOnce(t)
    <3> SUFFICES ASSUME NEW i \in 1..n + 1, NEW j \in 1..n + 1, IsPage(t, i), IsPage(t, j)
                 PROVE  /\ t[i].next # None => (i # j => t[i].next # t[j].next) /\ t[i].next # t[i].token
                        /\ t[i].token # None => (i # j => t[i].token # t[j].token) /\ GoesOn(t, i)
      BY <1>1 DEF TokensOnce
    <3>1. CASE i \in 1..n /\ j \in 1..n
      BY <1>1, <1>2, <3>1 DEF TokensOnce
    <3>2. CASE i \in 1..n /\ j = n + 1
      <4>1. t[i] = s[i] /\ t[j] = l /\ IsPage(s, i) /\ (GoesOn(t, i) <=> GoesOn(s, i))
        BY <1>1, <1>2, <3>2
      <4>2. /\ s[i].next # None => s[i].next # s[i].token
            /\ s[i].token # None => GoesOn(s, i)
        BY <1>1, <4>1, <3>2 DEF TokensOnce
      <4> QED BY <2>2, <2>4, <3>2, <4>1, <4>2
    <3>3. CASE i = n + 1
      BY <1>1, <1>2, <2>2, <2>4, <3>3
    <3> QED BY <1>1, <3>1, <3>2, <3>3
  <2> QED BY <1>4, <2>3, <2>4 DEF t
<1> QED BY <1>3, <1>4

\* So an excerpt goes on as one exactly with a line that follows it.
LEMMA ExcerptOfAppend ==
  ASSUME NEW s \in Seq(Lines), NEW l \in Lines, Excerpt(s)
  PROVE  Excerpt(Append(s, l)) <=> Follows(s, l)
<1>1. EachSound(s) /\ IdsRise(s) /\ OneCapture(s) /\ StepsRise(s) /\ EachOwned(s) /\ OneStack(s) /\ TokensOnce(s)
  BY DEF Excerpt
<1> QED BY <1>1, PlainPartsOfAppend, StepsRiseOfAppend, OwnersOfAppend, StackOfAppend, TokensOfAppend, Zenon
        DEF Excerpt, Follows

Stands(p, s, c) == c \in Steps(s) /\ s[c].id = p.id
OfKind(s, c, op) == {k \in {i \in DOMAIN s : Owns(s, c, i)} : s[k].op = op}
IdsOf(s, c, op) == {s[k].id : k \in OfKind(s, c, op)}

\* What the loop keeps of the last line and of all lines.
HeaderAgrees ==
  /\ pairs = <<>> => previousId = 0 /\ capture = None
  /\ pairs # <<>> => previousId = pairs[Len(pairs)].id /\ capture # None
  /\ \A k \in DOMAIN pairs : pairs[k].capture = capture

\* What it keeps of each checkpoint.
PointsAgree ==
  /\ Len(points) = Cardinality(Steps(pairs))
  /\ \A i \in DOMAIN points : \E c \in Steps(pairs) : Stands(points[i], pairs, c)
  /\ \A c \in Steps(pairs) : \E i \in DOMAIN points : Stands(points[i], pairs, c)
  /\ \A i \in DOMAIN points : \A c \in Steps(pairs) : Stands(points[i], pairs, c) =>
       /\ points[i].rev = pairs[c].rev
       /\ {points[i].stack} \ {0} = IdsOf(pairs, c, "stack")
       /\ points[i].variables = IdsOf(pairs, c, "variables")
       /\ points[i].pages = IdsOf(pairs, c, "query")
       /\ points[i].memories = IdsOf(pairs, c, "memory")

\* What it keeps of the page tokens.
TokensAgree ==
  /\ tokens \in [Tokens -> Keys \cup {NoKey}]
  /\ \A k \in DOMAIN pairs : IsPage(pairs, k) => pairs[k].query \in Queries
  /\ \A k \in DOMAIN pairs : IsPage(pairs, k) /\ pairs[k].next # None =>
       \E i \in DOMAIN points : \E c \in Steps(pairs) :
         /\ Stands(points[i], pairs, c) /\ Owns(pairs, c, k)
         /\ tokens[pairs[k].next] = [query |-> pairs[k].query, point |-> i]
  /\ \A t \in Tokens : tokens[t] # NoKey => \E k \in DOMAIN pairs : IsPage(pairs, k) /\ pairs[k].next = t
  /\ consumed = {pairs[k].token : k \in {j \in DOMAIN pairs : IsPage(pairs, j)}} \ {None}

LoopInv == verdict = "reading" => HeaderAgrees /\ PointsAgree /\ TokensAgree /\ Excerpt(pairs)

\* The types, said of the numbers of the lines and the checkpoints.
LEMMA ReaderTypes ==
  ASSUME RecordingInv
  PROVE  /\ DOMAIN points = 1..Len(points) /\ Len(points) \in Nat
         /\ DOMAIN pairs = 1..Len(pairs) /\ Len(pairs) \in Nat
         /\ Steps(pairs) \subseteq 1..Len(pairs)
         /\ \A k \in 1..Len(pairs) : pairs[k].id \in Nat /\ pairs[k].rev \in Nat
         /\ \A i \in 1..Len(points) : points[i].id \in Nat /\ points[i].stack \in Nat
<1>1. pairs \in Seq(Lines) /\ points \in Seq(PointRecords)
  BY DEF RecordingInv
<1>2. /\ DOMAIN pairs = 1..Len(pairs) /\ Len(pairs) \in Nat /\ \A k \in 1..Len(pairs) : pairs[k] \in Lines
      /\ DOMAIN points = 1..Len(points) /\ Len(points) \in Nat
      /\ \A i \in 1..Len(points) : points[i] \in PointRecords
  BY <1>1
<1>3. /\ \A l \in Lines : l.id \in Nat /\ l.rev \in Nat
      /\ \A p \in PointRecords : p.id \in Nat /\ p.stack \in Nat
  BY DEF Lines, PointRecords, Revs
<1> QED BY <1>2, <1>3 DEF Steps

\* Checkpoint and line determine each other.
LEMMA StandsOnce ==
  ASSUME RecordingInv, LoopInv, verdict = "reading"
  PROVE  /\ \A i, j \in DOMAIN points : \A c \in Steps(pairs) : Stands(points[i], pairs, c) /\ Stands(points[j], pairs, c) => i = j
         /\ \A i \in DOMAIN points : \A c, d \in Steps(pairs) : Stands(points[i], pairs, c) /\ Stands(points[i], pairs, d) => c = d
         /\ \A i, j \in DOMAIN points : \A c, d \in Steps(pairs) : Stands(points[i], pairs, c) /\ Stands(points[j], pairs, d) /\ i <= j => c <= d
<1>1. /\ DOMAIN points = 1..Len(points) /\ Len(points) \in Nat
      /\ DOMAIN pairs = 1..Len(pairs) /\ Len(pairs) \in Nat
      /\ \A k \in 1..Len(pairs) : pairs[k].id \in Nat
      /\ \A i \in 1..Len(points) : points[i].id \in Nat
      /\ Steps(pairs) \subseteq 1..Len(pairs)
  BY ReaderTypes
<1>2. \A i, j \in 1..Len(points) : i < j => points[i].id < points[j].id
  BY <1>1 DEF RecordingInv, EveryPairIsFiled
<1>3. \A i, j \in 1..Len(pairs) : i < j => pairs[i].id < pairs[j].id
  BY <1>1 DEF LoopInv, Excerpt, IdsRise
<1>4. \A i, j \in 1..Len(points) : points[i].id = points[j].id => i = j
  BY <1>1, <1>2
<1>5. \A i, j \in 1..Len(pairs) : pairs[i].id = pairs[j].id => i = j
  BY <1>1, <1>3
<1>6. \A i, j \in 1..Len(pairs) : pairs[i].id <= pairs[j].id => i <= j
  <2> SUFFICES ASSUME NEW i \in 1..Len(pairs), NEW j \in 1..Len(pairs), j < i
               PROVE  ~(pairs[i].id <= pairs[j].id)
    BY <1>1
  <2>1. pairs[j].id < pairs[i].id /\ pairs[j].id \in Nat /\ pairs[i].id \in Nat
    BY <1>1, <1>3
  <2> QED BY <2>1
<1>7. \A i, j \in 1..Len(points) : i <= j => points[i].id <= points[j].id
  BY <1>1, <1>2
<1> QED BY <1>1, <1>4, <1>5, <1>6, <1>7 DEF Stands

\* The latest checkpoint stands for the last step.
LEMMA LatestStands ==
  ASSUME RecordingInv, LoopInv, verdict = "reading"
  PROVE  /\ points = <<>> <=> Steps(pairs) = {}
         /\ points = <<>> <=> pairs = <<>>
         /\ points # <<>> => Len(points) \in DOMAIN points
                          /\ \E c \in Steps(pairs) : Stands(points[Len(points)], pairs, c) /\ LastStep(pairs, c)
<1>1. /\ DOMAIN points = 1..Len(points) /\ Len(points) \in Nat
      /\ DOMAIN pairs = 1..Len(pairs) /\ Len(pairs) \in Nat
      /\ points = <<>> <=> Len(points) = 0
      /\ pairs = <<>> <=> Len(pairs) = 0
      /\ Steps(pairs) \subseteq 1..Len(pairs)
  BY DEF RecordingInv, Steps
<1>2. points = <<>> <=> Steps(pairs) = {}
  BY <1>1 DEF LoopInv, PointsAgree
<1>3. pairs # <<>> => Steps(pairs) # {}
  BY <1>1 DEF LoopInv, Excerpt, EachOwned
<1>4. ASSUME points # <<>>
      PROVE  Len(points) \in DOMAIN points /\ \E c \in Steps(pairs) : Stands(points[Len(points)], pairs, c) /\ LastStep(pairs, c)
  <2>1. Len(points) \in DOMAIN points
    BY <1>1, <1>4
  <2>2. PICK c \in Steps(pairs) : Stands(points[Len(points)], pairs, c)
    BY <2>1 DEF LoopInv, PointsAgree
  <2>3. ASSUME NEW d \in Steps(pairs) PROVE d <= c
    <3>1. PICK i \in DOMAIN points : Stands(points[i], pairs, d)
      BY DEF LoopInv, PointsAgree
    <3> QED BY <1>1, <2>1, <2>2, <3>1, StandsOnce
  <2> QED BY <2>1, <2>2, <2>3 DEF LastStep
<1> QED BY <1>1, <1>2, <1>3, <1>4

\* The ids: a line is above the last one exactly if it is above all.
LEMMA IdsAreAbove ==
  ASSUME RecordingInv, LoopInv, verdict = "reading", NEW l \in Lines
  PROVE  l.id > previousId <=> l.id > 0 /\ \A k \in DOMAIN pairs : pairs[k].id < l.id
<1>1. /\ DOMAIN pairs = 1..Len(pairs) /\ Len(pairs) \in Nat /\ l.id \in Nat /\ previousId \in Nat
      /\ pairs = <<>> <=> Len(pairs) = 0
      /\ \A k \in 1..Len(pairs) : pairs[k].id \in Nat /\ pairs[k].id <= previousId
  BY ReaderTypes DEF RecordingInv, Lines
<1>2. pairs = <<>> => previousId = 0
  BY DEF LoopInv, HeaderAgrees
<1>3. pairs # <<>> => previousId = pairs[Len(pairs)].id /\ Len(pairs) \in 1..Len(pairs)
  BY <1>1 DEF LoopInv, HeaderAgrees
<1> QED BY <1>1, <1>2, <1>3

\* The capture: the same as that of the last line exactly if the same as that of all.
LEMMA CaptureIsOne ==
  ASSUME RecordingInv, LoopInv, verdict = "reading", NEW l \in Lines
  PROVE  /\ capture \in {None, l.capture} <=> \A k \in DOMAIN pairs : pairs[k].capture = l.capture
         /\ pairs # <<>> => (l.capture = capture <=> \A k \in DOMAIN pairs : pairs[k].capture = l.capture)
<1>1. DOMAIN pairs = 1..Len(pairs) /\ Len(pairs) \in Nat /\ (pairs = <<>> <=> Len(pairs) = 0)
  BY DEF RecordingInv
<1>2. pairs = <<>> => capture = None
  BY DEF LoopInv, HeaderAgrees
<1>3. \A k \in DOMAIN pairs : pairs[k].capture = capture
  BY DEF LoopInv, HeaderAgrees
<1>4. pairs # <<>> => capture # None /\ 1 \in DOMAIN pairs
  BY <1>1 DEF LoopInv, HeaderAgrees
<1> QED BY <1>1, <1>2, <1>3, <1>4

\* Checkpoints.
LEMMA StepsFollow ==
  ASSUME RecordingInv, LoopInv, verdict = "reading", NEW l \in Lines
  PROVE  StepFits(l) <=>
           /\ \A k \in DOMAIN pairs : pairs[k].capture = l.capture
           /\ \A c \in Steps(pairs) : pairs[c].rev < l.rev
           /\ Cardinality(Steps(pairs)) < MaxPoints
<1>1. Len(points) = Cardinality(Steps(pairs))
  BY DEF LoopInv, PointsAgree
<1>2. (points # <<>> => l.rev > Latest.rev) <=> \A c \in Steps(pairs) : pairs[c].rev < l.rev
  <2>1. CASE points = <<>>
    BY <2>1, LatestStands
  <2>2. CASE points # <<>>
    <3>1. PICK c \in Steps(pairs) : Stands(points[Len(points)], pairs, c) /\ LastStep(pairs, c)
      BY <2>2, LatestStands
    <3>2. Latest.rev = pairs[c].rev
      BY <2>2, <3>1, LatestStands DEF Latest, LoopInv, PointsAgree
    <3>3. \A d \in Steps(pairs) : d = c \/ pairs[d].rev < pairs[c].rev
      BY <3>1 DEF LastStep, LoopInv, Excerpt, StepsRise, Steps, RecordingInv
    <3>4. l.rev \in Nat /\ \A d \in Steps(pairs) : pairs[d].rev \in Nat
      BY ReaderTypes DEF Lines, Revs
    <3> QED BY <2>2, <3>1, <3>2, <3>3, <3>4
  <2> QED BY <2>1, <2>2
<1> QED BY <1>1, <1>2, CaptureIsOne DEF StepFits

\* What is retained at the latest checkpoint.
LEMMA RetainedFollow ==
  ASSUME RecordingInv, LoopInv, verdict = "reading", NEW l \in Lines
  PROVE  /\ (points # <<>> /\ l.rev = Latest.rev /\ l.capture = capture) <=>
              /\ \A k \in DOMAIN pairs : pairs[k].capture = l.capture
              /\ \E c \in Steps(pairs) : LastStep(pairs, c) /\ pairs[c].rev = l.rev
         /\ points # <<>> =>
              (Latest.stack = 0 <=>
                 \A k \in DOMAIN pairs : pairs[k].op = "stack" => \E c \in Steps(pairs) : k < c)
<1>1. CASE points = <<>>
  BY <1>1, LatestStands
<1>2. CASE points # <<>>
  <2>1. PICK c \in Steps(pairs) : Stands(points[Len(points)], pairs, c) /\ LastStep(pairs, c)
    BY <1>2, LatestStands
  <2>2. Latest.rev = pairs[c].rev /\ {Latest.stack} \ {0} = IdsOf(pairs, c, "stack")
    BY <1>2, <2>1, LatestStands DEF Latest, LoopInv, PointsAgree
  <2>3. \A d \in Steps(pairs) : LastStep(pairs, d) => d = c
    BY <2>1 DEF LastStep, Steps, RecordingInv
  <2>4. pairs # <<>>
    BY <1>2, LatestStands
  <2>5. \A k \in DOMAIN pairs : Owns(pairs, c, k) <=> ~(k < c)
    BY <2>1 DEF Owns, LastStep, Steps, RecordingInv
  <2>6. \A k \in DOMAIN pairs : k < c <=> \E d \in Steps(pairs) : k < d
    BY <2>1 DEF LastStep, Steps, RecordingInv
  <2>7. Latest.stack = 0 <=> OfKind(pairs, c, "stack") = {}
    BY <2>2 DEF IdsOf
  <2>8. Latest.stack = 0 <=> \A k \in DOMAIN pairs : pairs[k].op = "stack" => \E d \in Steps(pairs) : k < d
    BY <2>5, <2>6, <2>7 DEF OfKind
  <2> QED BY <1>2, <2>1, <2>2, <2>3, <2>4, <2>8, CaptureIsOne
<1> QED BY <1>1, <1>2

\* Pages of a query.
LEMMA PagesFollow ==
  ASSUME RecordingInv, LoopInv, verdict = "reading", NEW l \in Lines, l.query \in Queries, points # <<>>
  PROVE  QueryFits(l) <=> PageFollows(pairs, l)
<1> DEFINE n == Len(points)
<1>1. PICK c \in Steps(pairs) : Stands(points[n], pairs, c) /\ LastStep(pairs, c)
  BY LatestStands
<1>2. n \in DOMAIN points /\ DOMAIN points \subseteq Nat \ {0}
  BY LatestStands DEF RecordingInv
<1> HIDE DEF n
<1>3. \A d \in Steps(pairs) : LastStep(pairs, d) => d = c
  BY <1>1 DEF LastStep, Steps, RecordingInv
<1>4. l.next \in Tokens \cup {None} /\ l.token \in Tokens \cup {None}
  BY DEF Lines
<1>5. Key(l) # NoKey /\ Key(l) = [query |-> l.query, point |-> n]
  BY RecordingAssumption DEF Key, NoKey, n
<1>6. ASSUME NEW t \in Tokens
      PROVE  tokens[t] = NoKey <=> \A k \in DOMAIN pairs : IsPage(pairs, k) => pairs[k].next # t
  <2>1. ASSUME NEW k \in DOMAIN pairs, IsPage(pairs, k), pairs[k].next = t PROVE tokens[t] # NoKey
    <3>1. pairs[k].next # None /\ pairs[k].query # None
      BY <2>1, RecordingAssumption DEF LoopInv, TokensAgree
    <3>2. PICK i \in DOMAIN points : tokens[t] = [query |-> pairs[k].query, point |-> i]
      BY <2>1, <3>1 DEF LoopInv, TokensAgree
    <3> QED BY <3>1, <3>2 DEF NoKey
  <2>2. tokens[t] # NoKey => \E k \in DOMAIN pairs : IsPage(pairs, k) /\ pairs[k].next = t
    BY DEF LoopInv, TokensAgree
  <2> QED BY <2>1, <2>2
<1>7. ASSUME NEW t \in Tokens
      PROVE  t \notin consumed <=> \A k \in DOMAIN pairs : IsPage(pairs, k) => pairs[k].token # t
  BY RecordingAssumption DEF LoopInv, TokensAgree
<1>8. ASSUME NEW t \in Tokens, l.token = t
      PROVE  tokens[t] = Key(l) <=>
               \E k \in DOMAIN pairs : /\ IsPage(pairs, k) /\ pairs[k].next = t /\ pairs[k].query = l.query
                                       /\ \E d \in Steps(pairs) : LastStep(pairs, d) /\ Owns(pairs, d, k)
  <2>1. t # None
    BY RecordingAssumption
  <2>2. ASSUME tokens[t] = Key(l)
        PROVE  \E k \in DOMAIN pairs : /\ IsPage(pairs, k) /\ pairs[k].next = t /\ pairs[k].query = l.query
                                       /\ Owns(pairs, c, k)
    <3>1. PICK k \in DOMAIN pairs : IsPage(pairs, k) /\ pairs[k].next = t
      BY <1>5, <2>2 DEF LoopInv, TokensAgree
    <3>2. PICK i \in DOMAIN points : \E d \in Steps(pairs) :
            /\ Stands(points[i], pairs, d) /\ Owns(pairs, d, k)
            /\ tokens[t] = [query |-> pairs[k].query, point |-> i]
      BY <2>1, <3>1 DEF LoopInv, TokensAgree
    <3>3. PICK d \in Steps(pairs) : /\ Stands(points[i], pairs, d) /\ Owns(pairs, d, k)
                                    /\ tokens[t] = [query |-> pairs[k].query, point |-> i]
      BY <3>2
    <3>4. [query |-> pairs[k].query, point |-> i] = [query |-> l.query, point |-> n]
      BY <1>5, <2>2, <3>3
    <3>5. pairs[k].query = l.query /\ i = n
      <4>1. [query |-> pairs[k].query, point |-> i].query = [query |-> l.query, point |-> n].query
        BY <3>4, Zenon
      <4>2. [query |-> pairs[k].query, point |-> i].point = [query |-> l.query, point |-> n].point
        BY <3>4, Zenon
      <4> QED BY <4>1, <4>2
    <3>6. d = c
      BY <1>1, <1>2, <3>3, <3>5, StandsOnce
    <3> QED BY <3>1, <3>3, <3>5, <3>6
  <2>3. ASSUME NEW k \in DOMAIN pairs, IsPage(pairs, k), pairs[k].next = t, pairs[k].query = l.query,
               NEW d \in Steps(pairs), LastStep(pairs, d), Owns(pairs, d, k)
        PROVE  tokens[t] = Key(l)
    <3>1. d = c /\ Owns(pairs, c, k)
      BY <1>3, <2>3
    <3>2. PICK i \in DOMAIN points : \E e \in Steps(pairs) :
            /\ Stands(points[i], pairs, e) /\ Owns(pairs, e, k)
            /\ tokens[t] = [query |-> pairs[k].query, point |-> i]
      BY <2>1, <2>3 DEF LoopInv, TokensAgree
    <3>3. PICK e \in Steps(pairs) : /\ Stands(points[i], pairs, e) /\ Owns(pairs, e, k)
                                    /\ tokens[t] = [query |-> pairs[k].query, point |-> i]
      BY <3>2
    <3>4. e = c
      BY <3>1, <3>3 DEF Owns, Steps, RecordingInv
    <3>5. i = n
      BY <1>1, <1>2, <3>3, <3>4, StandsOnce
    <3> QED BY <1>5, <2>3, <3>3, <3>5
  <2> QED BY <1>1, <2>2, <2>3
<1>9. (l.next # None => tokens[l.next] = NoKey /\ l.next # l.token) <=>
        (l.next # None => l.next # l.token /\ \A k \in DOMAIN pairs : IsPage(pairs, k) => pairs[k].next # l.next)
  BY <1>4, <1>6
<1>10. Continues(l) <=>
         (l.token # None =>
            /\ \A k \in DOMAIN pairs : IsPage(pairs, k) => pairs[k].token # l.token
            /\ \E k \in DOMAIN pairs : /\ IsPage(pairs, k) /\ pairs[k].next = l.token /\ pairs[k].query = l.query
                                       /\ \E d \in Steps(pairs) : LastStep(pairs, d) /\ Owns(pairs, d, k))
  BY <1>4, <1>7, <1>8 DEF Continues
<1> QED BY <1>9, <1>10 DEF QueryFits, PageFollows

\* The loop's tests ask of a line that it follows the lines read.
LEMMA FitsIsFollows ==
  ASSUME RecordingInv, LoopInv, verdict = "reading",
         NEW l \in Lines, l.op = "query" => l.query \in Queries
  PROVE  Fits(l) <=> Follows(pairs, l)
<1>1. CASE l.op = "step"
  BY <1>1, IdsAreAbove, StepsFollow DEF Fits, Follows
<1>2. CASE l.op # "step"
  <2>1. CASE points = <<>>
    <3>1. ~Fits(l)
      BY <1>2, <2>1 DEF Fits
    <3>2. Steps(pairs) = {}
      BY <2>1, LatestStands
    <3> QED BY <1>2, <3>1, <3>2 DEF Follows
  <2>2. CASE points # <<>>
    <3>1. l.op = "query" => (QueryFits(l) <=> PageFollows(pairs, l))
      BY <2>2, PagesFollow
    <3> QED BY <1>2, <2>2, <3>1, IdsAreAbove, RetainedFollow, Zenon DEF Fits, Follows
  <2> QED BY <2>1, <2>2
<1> QED BY <1>1, <1>2

\* Numbering a finite set of lines in order is counting the lines before each.
LEMMA RanksAreCounts ==
  ASSUME NEW n \in Nat, NEW S \in SUBSET (1..n), NEW f \in [S -> Nat]
  PROVE  (\A k \in S : f[k] = Cardinality({i \in S : i < k})) <=>
           /\ {f[j] : j \in S} = 0..Cardinality(S) - 1
           /\ \A i, j \in S : i < j => f[i] < f[j]
<1> DEFINE m == Cardinality(S)
           Below(k) == {i \in S : i < k}
<1>1. S \subseteq Nat /\ IsFiniteSet(S) /\ m \in Nat
  <2>1. IsFiniteSet(1..n)
    BY FS_Interval
  <2>2. IsFiniteSet(S)
    BY <2>1, FS_Subset
  <2> QED BY <2>2, FS_CardinalityType
<1>2. \A k \in S : IsFiniteSet(Below(k)) /\ Cardinality(Below(k)) \in Nat
  BY <1>1, FS_Subset, FS_CardinalityType
<1> HIDE DEF m
<1>3. IsFiniteSet(0..m - 1) /\ Cardinality(0..m - 1) = m
  <2>1. 0 \in Int /\ m - 1 \in Int
    BY <1>1
  <2>2. IsFiniteSet(0..m - 1) /\ Cardinality(0..m - 1) = IF 0 > m - 1 THEN 0 ELSE m - 1 - 0 + 1
    BY <2>1, FS_Interval
  <2>3. (IF 0 > m - 1 THEN 0 ELSE m - 1 - 0 + 1) = m
    BY <1>1
  <2> QED BY <2>2, <2>3
<1>4. ASSUME \A k \in S : f[k] = Cardinality(Below(k))
      PROVE  {f[j] : j \in S} = 0..m - 1 /\ \A i, j \in S : i < j => f[i] < f[j]
  <2>1. ASSUME NEW i \in S, NEW j \in S, i < j PROVE f[i] < f[j]
    <3> DEFINE B == Below(i)
               C == Below(j)
    <3>1. i \notin B /\ B \cup {i} \subseteq C
      <4>1. i \in Nat /\ j \in Nat /\ \A x \in B : x \in S /\ x \in Nat /\ x < i
        BY <1>1
      <4>2. i \notin B /\ i \in C
        BY <2>1, <4>1
      <4>3. \A x \in B : x \in C
        BY <2>1, <4>1
      <4> QED BY <4>2, <4>3
    <3>2. IsFiniteSet(B) /\ IsFiniteSet(C)
      BY <1>2
    <3>3. f[i] = Cardinality(B) /\ f[j] = Cardinality(C)
      BY <1>4
    <3> HIDE DEF B, C
    <3>4. Cardinality(B \cup {i}) = Cardinality(B) + 1
      BY <3>1, <3>2, FS_AddElement
    <3>5. Cardinality(B \cup {i}) <= Cardinality(C)
      BY <3>1, <3>2, FS_Subset
    <3>6. f[i] \in Nat /\ f[j] \in Nat
      OBVIOUS
    <3> QED BY <3>3, <3>4, <3>5, <3>6
  <2>2. ASSUME NEW k \in S PROVE f[k] < m
    <3> DEFINE B == Below(k)
    <3>1. k \notin B /\ B \cup {k} \subseteq S
      BY <1>1
    <3>2. IsFiniteSet(B) /\ f[k] = Cardinality(B)
      BY <1>2, <1>4
    <3> HIDE DEF B
    <3>3. Cardinality(B \cup {k}) = Cardinality(B) + 1
      BY <3>1, <3>2, FS_AddElement
    <3>4. Cardinality(B \cup {k}) <= m
      BY <1>1, <3>1, FS_Subset DEF m
    <3>5. f[k] \in Nat
      OBVIOUS
    <3> QED BY <1>1, <3>2, <3>3, <3>4, <3>5
  <2>3. f \in [S -> 0..m - 1]
    BY <1>1, <2>2
  <2>4. IsInjective(f)
    BY <1>1, <2>1, <2>3 DEF IsInjective
  <2>5. f \in Injection(S, 0..m - 1)
    BY <2>3, <2>4 DEF Injection
  <2>6. f \in Surjection(S, 0..m - 1)
    BY <1>3, <2>5, FS_Injection DEF m
  <2>7. \A x \in 0..m - 1 : \E j \in S : f[j] = x
    BY <2>6 DEF Surjection
  <2> QED BY <2>1, <2>3, <2>7
<1>5. ASSUME {f[j] : j \in S} = 0..m - 1, \A i, j \in S : i < j => f[i] < f[j], NEW k \in S
      PROVE  f[k] = Cardinality(Below(k))
  <2> DEFINE B == Below(k)
             g == [i \in B |-> f[i]]
             T == 0..f[k] - 1
  <2>1. f[k] \in Nat /\ f[k] < m
    BY <1>1, <1>5
  <2>2. IsFiniteSet(T) /\ Cardinality(T) = f[k]
    <3>1. 0 \in Int /\ f[k] - 1 \in Int
      BY <2>1
    <3>2. IsFiniteSet(T) /\ Cardinality(T) = IF 0 > f[k] - 1 THEN 0 ELSE f[k] - 1 - 0 + 1
      BY <3>1, FS_Interval
    <3>3. (IF 0 > f[k] - 1 THEN 0 ELSE f[k] - 1 - 0 + 1) = f[k]
      BY <2>1
    <3> QED BY <3>2, <3>3
  <2>3. B \subseteq S /\ \A i \in B : i < k /\ f[i] \in Nat /\ f[i] < f[k]
    BY <1>5
  <2>4. g \in [B -> T]
    <3>1. \A i \in B : f[i] \in T
      BY <2>1, <2>3
    <3> QED BY <3>1
  <2>5. \A i, j \in B : f[i] = f[j] => i = j
    BY <1>1, <1>5, <2>3
  <2>6. \A x \in T : \E i \in B : g[i] = x
    <3> SUFFICES ASSUME NEW x \in T PROVE \E i \in B : f[i] = x
      OBVIOUS
    <3>1. x \in 0..m - 1 /\ x < f[k]
      BY <1>1, <2>1
    <3>2. PICK j \in S : f[j] = x
      BY <1>5, <3>1
    <3>3. j < k
      BY <1>1, <1>5, <2>1, <3>1, <3>2
    <3> QED BY <3>2, <3>3
  <2>7. IsInjective(g)
    BY <2>4, <2>5 DEF IsInjective
  <2> HIDE DEF B, T
  <2>8. g \in Injection(B, T)
    BY <2>4, <2>7 DEF Injection
  <2>9. g \in Surjection(B, T)
    BY <2>4, <2>6 DEF Surjection
  <2> HIDE DEF g
  <2>10. Cardinality(B) = Cardinality(T)
    BY <2>2, <2>8, <2>9, FS_Injection
  <2> QED BY <2>2, <2>10 DEF B
<1> QED BY <1>4, <1>5 DEF m

\* What Whole asks at one checkpoint.
WholeAt(c) ==
  LET V == OfKind(pairs, c, "variables")
      K == OfKind(pairs, c, "stack")
  IN /\ OfKind(pairs, c, "memory") # {} \/ OfKind(pairs, c, "query") # {}
     /\ K # {} <=> V # {}
     /\ \A i \in K, j \in V : i < j
     /\ {pairs[j].at : j \in V} = 0..Cardinality(V) - 1
     /\ \A i, j \in V : i < j => pairs[i].at < pairs[j].at /\ pairs[i].more
     /\ \A j \in V : pairs[j].more => \E i \in V : j < i

\* Whole asks it at each.
LEMMA WholeIsAtEach == Whole(pairs) <=> Steps(pairs) # {} /\ \A c \in Steps(pairs) : WholeAt(c)
BY DEF Whole, WholeAt, OfKind

\* The checks at the end ask the same of the checkpoint kept.
LEMMA CompleteAt ==
  ASSUME RecordingInv, LoopInv, verdict = "reading",
         NEW i \in DOMAIN points, NEW c \in Steps(pairs), Stands(points[i], pairs, c)
  PROVE  WholeAt(c) <=>
           /\ points[i].pages # {} \/ points[i].memories # {}
           /\ SourceReady(points[i])
<1> DEFINE V == OfKind(pairs, c, "variables")
           K == OfKind(pairs, c, "stack")
           n == Len(pairs)
           p == points[i]
<1>1. /\ DOMAIN pairs = 1..n /\ n \in Nat /\ p.stack \in Nat
      /\ \A k \in 1..n : pairs[k].id \in Nat
  BY ReaderTypes
<1>2. /\ {p.stack} \ {0} = IdsOf(pairs, c, "stack")
      /\ p.variables = IdsOf(pairs, c, "variables")
      /\ p.pages = IdsOf(pairs, c, "query")
      /\ p.memories = IdsOf(pairs, c, "memory")
  BY DEF LoopInv, PointsAgree
<1>3. V \subseteq 1..n /\ K \subseteq 1..n
  BY <1>1 DEF OfKind
<1>4. \A k, j \in 1..n : /\ k < j <=> pairs[k].id < pairs[j].id
                         /\ pairs[k].id = pairs[j].id => k = j
  <2>1. \A k, j \in 1..n : k < j => pairs[k].id < pairs[j].id
    BY <1>1 DEF LoopInv, Excerpt, IdsRise
  <2> QED BY <1>1, <2>1
<1>5. {k \in DOMAIN pairs : pairs[k].id \in p.variables} = V
  BY <1>1, <1>2, <1>3, <1>4 DEF IdsOf
<1>6. p.pages # {} \/ p.memories # {} <=> OfKind(pairs, c, "memory") # {} \/ OfKind(pairs, c, "query") # {}
  BY <1>2 DEF IdsOf
<1>7. p.stack # 0 <=> K # {}
  BY <1>2 DEF IdsOf
<1>8. \A k \in K : pairs[k].id = p.stack
  BY <1>2 DEF IdsOf
<1> DEFINE f == [k \in V |-> pairs[k].at]
<1>9. f \in [V -> Nat]
  <2>1. \A k \in 1..n : pairs[k] \in Lines
    BY <1>1 DEF RecordingInv
  <2>2. \A k \in V : pairs[k].at \in Nat
    BY <1>3, <2>1 DEF Lines
  <2> QED BY <2>2
<1> HIDE DEF V, K, n
<1>10. (\A k \in V : f[k] = Cardinality({j \in V : j < k})) <=>
          /\ {f[j] : j \in V} = 0..Cardinality(V) - 1
          /\ \A j, k \in V : j < k => f[j] < f[k]
  <2> HIDE DEF f
  <2> QED BY <1>1, <1>3, <1>9, RanksAreCounts
<1>11. (\A k \in V : pairs[k].at = Cardinality({j \in V : j < k})) <=>
          /\ {pairs[j].at : j \in V} = 0..Cardinality(V) - 1
          /\ \A j, k \in V : j < k => pairs[j].at < pairs[k].at
  <2>1. \A k \in V : f[k] = pairs[k].at
    OBVIOUS
  <2>2. {f[j] : j \in V} = {pairs[j].at : j \in V}
    OBVIOUS
  <2> HIDE DEF f
  <2> QED BY <1>10, <2>1, <2>2
<1>12. (\A k \in V : pairs[k].more <=> \E j \in V : k < j) <=>
          /\ \A j, k \in V : j < k => pairs[j].more
          /\ \A k \in V : pairs[k].more => \E j \in V : k < j
  <2>1. \A k \in V : pairs[k].more \in BOOLEAN
    <3>1. \A k \in 1..n : pairs[k] \in Lines
      BY <1>1 DEF RecordingInv
    <3> QED BY <1>3, <3>1 DEF Lines
  <2> QED BY <2>1
<1>13. K # {} => ((\A k \in V : pairs[k].id > p.stack) <=> \A j \in K, k \in V : j < k)
  BY <1>1, <1>3, <1>4, <1>8
<1>14. SourceReady(p) <=>
         (p.stack # 0 \/ V # {} =>
            /\ p.stack # 0 /\ V # {}
            /\ \A k \in V : pairs[k].id > p.stack
            /\ \A k \in V : pairs[k].at = Cardinality({j \in V : j < k})
            /\ \A k \in V : pairs[k].more <=> \E j \in V : k < j)
  BY <1>5 DEF SourceReady
<1>15. WholeAt(c) <=>
         /\ OfKind(pairs, c, "memory") # {} \/ OfKind(pairs, c, "query") # {}
         /\ K # {} <=> V # {}
         /\ \A j \in K, k \in V : j < k
         /\ {pairs[j].at : j \in V} = 0..Cardinality(V) - 1
         /\ \A j, k \in V : j < k => pairs[j].at < pairs[k].at
         /\ \A j, k \in V : j < k => pairs[j].more
         /\ \A k \in V : pairs[k].more => \E j \in V : k < j
  BY DEF WholeAt, V, K
<1>16. CASE K = {} /\ V = {}
  <2>1. SourceReady(p)
    BY <1>7, <1>14, <1>16
  <2>2. {pairs[j].at : j \in V} = 0..Cardinality(V) - 1
    <3>1. Cardinality(V) = 0 /\ 0..(0 - 1) = {}
      BY <1>16, FS_EmptySet
    <3> QED BY <1>16, <3>1
  <2> QED BY <1>6, <1>15, <1>16, <2>1, <2>2
<1>17. CASE K # {} /\ V # {}
  BY <1>6, <1>7, <1>11, <1>12, <1>13, <1>14, <1>15, <1>17
<1>18. CASE ~(K # {} <=> V # {})
  BY <1>7, <1>14, <1>15, <1>18
<1> QED BY <1>16, <1>17, <1>18

\* So an import succeeds exactly on a whole excerpt.
LEMMA CompleteIsWhole ==
  ASSUME RecordingInv, LoopInv, verdict = "reading"
  PROVE  Complete <=> Whole(pairs)
<1>1. Steps(pairs) # {} <=> points # <<>>
  BY LatestStands
<1>2. /\ \A i \in DOMAIN points : \E c \in Steps(pairs) : Stands(points[i], pairs, c)
      /\ \A c \in Steps(pairs) : \E i \in DOMAIN points : Stands(points[i], pairs, c)
  BY DEF LoopInv, PointsAgree
<1>3. \A i \in DOMAIN points, c \in Steps(pairs) : Stands(points[i], pairs, c) =>
        (WholeAt(c) <=> (points[i].pages # {} \/ points[i].memories # {}) /\ SourceReady(points[i]))
  BY CompleteAt
<1>4. (\A c \in Steps(pairs) : WholeAt(c)) <=>
        \A i \in DOMAIN points : (points[i].pages # {} \/ points[i].memories # {}) /\ SourceReady(points[i])
  BY <1>2, <1>3, Zenon
<1> QED BY <1>1, <1>4, WholeIsAtEach DEF Complete

\* The lines of one kind under a checkpoint, after one more line.
LEMMA IdsOfAppend ==
  ASSUME NEW s \in Seq(Lines), NEW l \in Lines, NEW op \in Operations \ {"step"}
  PROVE  /\ \A c \in Steps(s) : IdsOf(Append(s, l), c, op) =
              IF l.op = op /\ LastStep(s, c) THEN IdsOf(s, c, op) \cup {l.id} ELSE IdsOf(s, c, op)
         /\ l.op = "step" => IdsOf(Append(s, l), Len(s) + 1, op) = {}
<1> DEFINE n == Len(s)
           t == Append(s, l)
<1>1. /\ n \in Nat /\ DOMAIN s = 1..n /\ DOMAIN t = 1..n + 1 /\ t[n + 1] = l
      /\ \A k \in 1..n : t[k] = s[k]
      /\ \A k \in 1..n + 1 : k \in 1..n \/ k = n + 1
      /\ \A k \in 1..n : k \in 1..n + 1 /\ k # n + 1
      /\ n + 1 \in 1..n + 1
      /\ Steps(s) \subseteq 1..n
      /\ \A k \in 1..n : \A c : Owns(t, c, k) <=> Owns(s, c, k)
      /\ \A c : Owns(t, c, n + 1) <=> IF l.op = "step" THEN c = n + 1 ELSE LastStep(s, c)
  BY Appended, StepsOfAppend
<1> HIDE DEF n, t
<1>2. ASSUME NEW c \in Steps(s)
      PROVE  OfKind(t, c, op) = IF l.op = op /\ LastStep(s, c) THEN OfKind(s, c, op) \cup {n + 1} ELSE OfKind(s, c, op)
  <2>1. c # n + 1
    BY <1>1
  <2>2. \A k \in 1..n : k \in OfKind(t, c, op) <=> k \in OfKind(s, c, op)
    BY <1>1 DEF OfKind
  <2>3. n + 1 \in OfKind(t, c, op) <=> l.op = op /\ LastStep(s, c)
    BY <1>1, <2>1 DEF OfKind
  <2>4. OfKind(t, c, op) \subseteq 1..n + 1 /\ OfKind(s, c, op) \subseteq 1..n
    BY <1>1 DEF OfKind
  <2>5. CASE l.op = op /\ LastStep(s, c)
    BY <1>1, <2>2, <2>3, <2>4, <2>5
  <2>6. CASE ~(l.op = op /\ LastStep(s, c))
    <3>1. \A k \in 1..n + 1 : k \in OfKind(t, c, op) <=> k \in OfKind(s, c, op)
      BY <1>1, <2>2, <2>3, <2>4, <2>6
    <3>2. OfKind(s, c, op) \subseteq 1..n + 1
      BY <1>1, <2>4
    <3> QED BY <2>4, <2>6, <3>1, <3>2
  <2> QED BY <2>5, <2>6
<1>3. \A c : \A k \in OfKind(s, c, op) : t[k].id = s[k].id
  BY <1>1 DEF OfKind
<1>4. ASSUME NEW c \in Steps(s)
      PROVE  IdsOf(t, c, op) = IF l.op = op /\ LastStep(s, c) THEN IdsOf(s, c, op) \cup {l.id} ELSE IdsOf(s, c, op)
  <2>1. {t[k].id : k \in OfKind(s, c, op)} = {s[k].id : k \in OfKind(s, c, op)}
    BY <1>3
  <2>2. {t[k].id : k \in OfKind(s, c, op) \cup {n + 1}} = {t[k].id : k \in OfKind(s, c, op)} \cup {l.id}
    BY <1>1
  <2> QED BY <1>2, <2>1, <2>2 DEF IdsOf
<1>5. ASSUME l.op = "step" PROVE IdsOf(t, n + 1, op) = {}
  <2>1. \A k \in 1..n : ~Owns(t, n + 1, k)
    BY <1>1 DEF Owns
  <2>2. OfKind(t, n + 1, op) = {}
    BY <1>1, <1>5, <2>1 DEF OfKind
  <2> QED BY <2>2 DEF IdsOf
<1> QED BY <1>4, <1>5 DEF n, t

\* A line accepted leaves an excerpt.
LEMMA ExcerptKeeps ==
  ASSUME RecordingInv, LoopInv, NEW l \in Lines, l.op = "query" => l.query \in Queries, Read(l)
  PROVE  Excerpt(pairs')
<1>1. verdict = "reading" /\ Fits(l) /\ pairs' = Append(pairs, l)
  BY DEF Read
<1>2. pairs \in Seq(Lines) /\ Excerpt(pairs)
  BY <1>1 DEF RecordingInv, LoopInv
<1>3. Follows(pairs, l)
  BY <1>1, FitsIsFollows
<1> QED BY <1>1, <1>2, <1>3, ExcerptOfAppend

\* What is kept of the last line agrees.
LEMMA HeaderKeeps ==
  ASSUME RecordingInv, LoopInv, NEW l \in Lines, Read(l)
  PROVE  HeaderAgrees'
<1> DEFINE m == Len(pairs)
<1>1. verdict = "reading" /\ Fits(l) /\ pairs' = Append(pairs, l) /\ previousId' = l.id /\ pairs \in Seq(Lines)
  BY DEF Read, RecordingInv
<1>2. /\ m \in Nat /\ DOMAIN pairs = 1..m /\ DOMAIN pairs' = 1..m + 1 /\ pairs'[m + 1] = l /\ Len(pairs') = m + 1
      /\ \A k \in 1..m : pairs'[k] = pairs[k]
      /\ \A k \in 1..m + 1 : k \in 1..m \/ k = m + 1
      /\ pairs' # <<>>
  BY <1>1, Appended
<1>3. capture' = l.capture /\ \A k \in DOMAIN pairs : pairs[k].capture = l.capture
  <2>1. CASE l.op = "step"
    BY <1>1, <2>1, StepsFollow DEF Read, Fits
  <2>2. CASE l.op # "step"
    BY <1>1, <2>2, RetainedFollow DEF Read, Fits
  <2> QED BY <2>1, <2>2
<1>4. l.capture # None
  BY RecordingAssumption DEF Lines
<1> HIDE DEF m
<1> QED BY <1>1, <1>2, <1>3, <1>4 DEF HeaderAgrees

\* The checkpoints agree after a step.
LEMMA PointsKeepStep ==
  ASSUME RecordingInv, LoopInv, NEW l \in Lines, Read(l), l.op = "step"
  PROVE  PointsAgree'
<1> DEFINE m == Len(pairs)
           n == Len(points)
           p == NewPoint(l)
<1>1. /\ verdict = "reading" /\ Fits(l) /\ pairs' = Append(pairs, l) /\ points' = Append(points, p)
      /\ pairs \in Seq(Lines) /\ points \in Seq(PointRecords) /\ l.id > previousId /\ l.id \in Nat /\ previousId \in Nat
  BY DEF Read, Fits, RecordingInv, Lines
<1>2. /\ m \in Nat /\ DOMAIN pairs = 1..m /\ pairs'[m + 1] = l
      /\ \A k \in 1..m : pairs'[k] = pairs[k] /\ pairs[k].id \in Nat /\ pairs[k].id <= previousId
      /\ Steps(pairs) \subseteq 1..m
      /\ Steps(pairs') = Steps(pairs) \cup {m + 1}
      /\ \A k \in 1..m : k # m + 1
  BY <1>1, Appended, StepsOfAppend, ReaderTypes DEF RecordingInv
<1>3. /\ n \in Nat /\ DOMAIN points = 1..n /\ DOMAIN points' = 1..n + 1 /\ points'[n + 1] = p /\ Len(points') = n + 1
      /\ \A i \in 1..n : points'[i] = points[i]
      /\ \A i \in 1..n + 1 : i \in 1..n \/ i = n + 1
      /\ n + 1 \in 1..n + 1 /\ \A i \in 1..n : i \in 1..n + 1
  BY <1>1
<1>4. p.id = l.id /\ p.rev = l.rev /\ p.stack = 0 /\ p.variables = {} /\ p.pages = {} /\ p.memories = {}
  BY DEF NewPoint
<1>5. /\ Len(points) = Cardinality(Steps(pairs))
      /\ \A i \in 1..n : \E c \in Steps(pairs) : Stands(points[i], pairs, c)
      /\ \A c \in Steps(pairs) : \E i \in 1..n : Stands(points[i], pairs, c)
      /\ \A i \in 1..n : \A c \in Steps(pairs) : Stands(points[i], pairs, c) =>
           /\ points[i].rev = pairs[c].rev
           /\ {points[i].stack} \ {0} = IdsOf(pairs, c, "stack")
           /\ points[i].variables = IdsOf(pairs, c, "variables")
           /\ points[i].pages = IdsOf(pairs, c, "query")
           /\ points[i].memories = IdsOf(pairs, c, "memory")
  BY <1>1, <1>3 DEF LoopInv, PointsAgree
<1>6. /\ \A i \in 1..n : points[i].id # l.id
      /\ \A k \in 1..m : pairs[k].id # l.id
  <2>1. \A i \in 1..n : points[i].id \in Nat /\ points[i].id <= previousId
    BY <1>1, FiledFacts DEF Named
  <2> QED BY <1>1, <1>2, <2>1
<1>7. ASSUME NEW op \in {"stack", "variables", "query", "memory"}
      PROVE  /\ \A c \in Steps(pairs) : IdsOf(pairs', c, op) = IdsOf(pairs, c, op)
             /\ IdsOf(pairs', m + 1, op) = {}
  <2>1. op \in Operations \ {"step"} /\ l.op # op
    BY DEF Operations
  <2> QED BY <1>1, <2>1, IdsOfAppend
<1> HIDE DEF m, n, p
<1>8. Len(points') = Cardinality(Steps(pairs'))
  <2>1. IsFiniteSet(Steps(pairs))
    <3>1. IsFiniteSet(1..m)
      BY <1>2, FS_Interval
    <3> QED BY <1>2, <3>1, FS_Subset
  <2>2. Cardinality(Steps(pairs) \cup {m + 1}) = Cardinality(Steps(pairs)) + 1
    BY <1>2, <2>1, FS_AddElement
  <2> QED BY <1>2, <1>3, <1>5, <2>2 DEF n
<1>9. \A i \in 1..n : \A c \in Steps(pairs) : Stands(points'[i], pairs', c) <=> Stands(points[i], pairs, c)
  BY <1>2, <1>3 DEF Stands
<1>10. Stands(points'[n + 1], pairs', m + 1)
  BY <1>2, <1>3, <1>4 DEF Stands
<1>11. \A i \in 1..n : ~Stands(points'[i], pairs', m + 1)
  BY <1>2, <1>3, <1>6 DEF Stands
<1>12. \A c \in Steps(pairs) : ~Stands(points'[n + 1], pairs', c)
  BY <1>2, <1>3, <1>4, <1>6 DEF Stands
<1>13. \A i \in 1..n + 1 : \E c \in Steps(pairs') : Stands(points'[i], pairs', c)
  BY <1>2, <1>3, <1>5, <1>9, <1>10
<1>14. \A c \in Steps(pairs') : \E i \in 1..n + 1 : Stands(points'[i], pairs', c)
  BY <1>2, <1>3, <1>5, <1>9, <1>10
<1>15. \A i \in 1..n + 1 : \A c \in Steps(pairs') : Stands(points'[i], pairs', c) =>
         /\ points'[i].rev = pairs'[c].rev
         /\ {points'[i].stack} \ {0} = IdsOf(pairs', c, "stack")
         /\ points'[i].variables = IdsOf(pairs', c, "variables")
         /\ points'[i].pages = IdsOf(pairs', c, "query")
         /\ points'[i].memories = IdsOf(pairs', c, "memory")
  <2> SUFFICES ASSUME NEW i \in 1..n + 1, NEW c \in Steps(pairs'), Stands(points'[i], pairs', c)
               PROVE  /\ points'[i].rev = pairs'[c].rev
                      /\ {points'[i].stack} \ {0} = IdsOf(pairs', c, "stack")
                      /\ points'[i].variables = IdsOf(pairs', c, "variables")
                      /\ points'[i].pages = IdsOf(pairs', c, "query")
                      /\ points'[i].memories = IdsOf(pairs', c, "memory")
    OBVIOUS
  <2>1. CASE i \in 1..n /\ c \in Steps(pairs)
    <3>1. Stands(points[i], pairs, c) /\ points'[i] = points[i] /\ pairs'[c] = pairs[c]
      BY <1>2, <1>3, <1>9, <2>1
    <3> QED BY <1>5, <1>7, <2>1, <3>1
  <2>2. CASE i = n + 1 /\ c = m + 1
    BY <1>2, <1>3, <1>4, <1>7, <2>2
  <2> QED BY <1>2, <1>3, <1>11, <1>12, <2>1, <2>2
<1> QED BY <1>3, <1>8, <1>13, <1>14, <1>15 DEF PointsAgree

\* And after any other line.
LEMMA PointsKeepRetained ==
  ASSUME RecordingInv, LoopInv, NEW l \in Lines, Read(l), l.op # "step"
  PROVE  PointsAgree'
<1> DEFINE m == Len(pairs)
           n == Len(points)
<1>1. /\ verdict = "reading" /\ pairs' = Append(pairs, l) /\ points' = Retained(l) /\ points # <<>>
      /\ l.op = "stack" => Latest.stack = 0
      /\ l.op \in {"stack", "variables", "memory", "query"}
      /\ pairs \in Seq(Lines) /\ points \in Seq(PointRecords) /\ l.id > previousId /\ l.id \in Nat /\ previousId \in Nat
  BY DEF Read, Fits, RecordingInv, Lines, Operations
<1>2. /\ m \in Nat /\ DOMAIN pairs = 1..m /\ Steps(pairs) \subseteq 1..m
      /\ \A k \in 1..m : pairs'[k] = pairs[k]
      /\ Steps(pairs') = Steps(pairs)
  BY <1>1, Appended, StepsOfAppend
<1>3. PICK q \in PointRecords :
        /\ points' = [points EXCEPT ![n] = q]
        /\ q.id = Latest.id /\ q.rev = Latest.rev
        /\ q.stack = IF l.op = "stack" THEN l.id ELSE Latest.stack
        /\ q.variables = IF l.op = "variables" THEN Latest.variables \cup {l.id} ELSE Latest.variables
        /\ q.pages = IF l.op = "query" THEN Latest.pages \cup {l.id} ELSE Latest.pages
        /\ q.memories = IF l.op = "memory" THEN Latest.memories \cup {l.id} ELSE Latest.memories
  BY <1>1, RetainedFields
<1>4. /\ n \in Nat /\ n \in 1..n /\ DOMAIN points = 1..n /\ DOMAIN points' = 1..n /\ Len(points') = n
      /\ points'[n] = q /\ Latest = points[n]
      /\ \A i \in 1..n : i # n => points'[i] = points[i]
  BY <1>1, <1>3 DEF Latest
<1>5. /\ Len(points) = Cardinality(Steps(pairs))
      /\ \A i \in 1..n : \E c \in Steps(pairs) : Stands(points[i], pairs, c)
      /\ \A c \in Steps(pairs) : \E i \in 1..n : Stands(points[i], pairs, c)
      /\ \A i \in 1..n : \A c \in Steps(pairs) : Stands(points[i], pairs, c) =>
           /\ points[i].rev = pairs[c].rev
           /\ {points[i].stack} \ {0} = IdsOf(pairs, c, "stack")
           /\ points[i].variables = IdsOf(pairs, c, "variables")
           /\ points[i].pages = IdsOf(pairs, c, "query")
           /\ points[i].memories = IdsOf(pairs, c, "memory")
  BY <1>1, <1>4 DEF LoopInv, PointsAgree
<1>6. ASSUME NEW c \in Steps(pairs), NEW op \in {"stack", "variables", "query", "memory"}
      PROVE  IdsOf(pairs', c, op) =
               IF l.op = op /\ LastStep(pairs, c) THEN IdsOf(pairs, c, op) \cup {l.id} ELSE IdsOf(pairs, c, op)
  <2>1. op \in Operations \ {"step"}
    BY DEF Operations
  <2> QED BY <1>1, <2>1, IdsOfAppend
<1>7. PICK last \in Steps(pairs) : Stands(points[n], pairs, last) /\ LastStep(pairs, last)
  BY <1>1, LatestStands
<1>8. \A c \in Steps(pairs) : LastStep(pairs, c) <=> c = last
  BY <1>2, <1>7 DEF LastStep
<1>9. \A i \in 1..n : \A c \in Steps(pairs) : Stands(points'[i], pairs', c) <=> Stands(points[i], pairs, c)
  <2>1. \A i \in 1..n : points'[i].id = points[i].id
    BY <1>3, <1>4
  <2> QED BY <1>2, <2>1 DEF Stands
<1>10. \A i \in 1..n : \A c \in Steps(pairs) : Stands(points[i], pairs, c) => (i = n <=> c = last)
  BY <1>1, <1>4, <1>7, StandsOnce
<1> HIDE DEF m, n
<1>11. ASSUME NEW i \in 1..n, NEW c \in Steps(pairs), Stands(points'[i], pairs', c)
       PROVE  /\ points'[i].rev = pairs'[c].rev
              /\ {points'[i].stack} \ {0} = IdsOf(pairs', c, "stack")
              /\ points'[i].variables = IdsOf(pairs', c, "variables")
              /\ points'[i].pages = IdsOf(pairs', c, "query")
              /\ points'[i].memories = IdsOf(pairs', c, "memory")
  <2>1. /\ Stands(points[i], pairs, c) /\ pairs'[c] = pairs[c]
        /\ points[i].rev = pairs[c].rev
        /\ {points[i].stack} \ {0} = IdsOf(pairs, c, "stack")
        /\ points[i].variables = IdsOf(pairs, c, "variables")
        /\ points[i].pages = IdsOf(pairs, c, "query")
        /\ points[i].memories = IdsOf(pairs, c, "memory")
    BY <1>2, <1>5, <1>9, <1>11
  <2>2. CASE i # n
    <3>1. points'[i] = points[i] /\ ~LastStep(pairs, c)
      BY <1>4, <1>8, <1>10, <2>1, <2>2
    <3> QED BY <1>6, <2>1, <3>1
  <2>3. CASE i = n
    <3>1. points'[i] = q /\ points[i] = Latest /\ LastStep(pairs, c)
      BY <1>4, <1>8, <1>10, <2>1, <2>3
    <3>2. \A op \in {"stack", "variables", "query", "memory"} :
            IdsOf(pairs', c, op) = IF l.op = op THEN IdsOf(pairs, c, op) \cup {l.id} ELSE IdsOf(pairs, c, op)
      BY <1>6, <3>1
    <3>3. {q.stack} \ {0} = IdsOf(pairs', c, "stack")
      <4>1. l.id # 0
        BY <1>1
      <4>2. CASE l.op = "stack"
        <5>1. IdsOf(pairs, c, "stack") = {} /\ q.stack = l.id
          BY <1>1, <1>3, <2>1, <3>1, <4>2
        <5> QED BY <3>2, <4>1, <4>2, <5>1
      <4>3. CASE l.op # "stack"
        BY <1>3, <2>1, <3>1, <3>2, <4>3
      <4> QED BY <4>2, <4>3
    <3>4. q.variables = IdsOf(pairs', c, "variables")
      BY <1>3, <2>1, <3>1, <3>2
    <3>5. q.pages = IdsOf(pairs', c, "query")
      BY <1>3, <2>1, <3>1, <3>2
    <3>6. q.memories = IdsOf(pairs', c, "memory")
      BY <1>3, <2>1, <3>1, <3>2
    <3> QED BY <1>3, <2>1, <3>1, <3>3, <3>4, <3>5, <3>6
  <2> QED BY <2>2, <2>3
<1>12. Len(points') = Cardinality(Steps(pairs'))
  BY <1>2, <1>4, <1>5 DEF n
<1>13. /\ \A i \in 1..n : \E c \in Steps(pairs') : Stands(points'[i], pairs', c)
       /\ \A c \in Steps(pairs') : \E i \in 1..n : Stands(points'[i], pairs', c)
  BY <1>2, <1>5, <1>9
<1>14. \A i \in 1..n : \A c \in Steps(pairs') : Stands(points'[i], pairs', c) =>
         /\ points'[i].rev = pairs'[c].rev
         /\ {points'[i].stack} \ {0} = IdsOf(pairs', c, "stack")
         /\ points'[i].variables = IdsOf(pairs', c, "variables")
         /\ points'[i].pages = IdsOf(pairs', c, "query")
         /\ points'[i].memories = IdsOf(pairs', c, "memory")
  BY <1>2, <1>11
<1> QED BY <1>4, <1>12, <1>13, <1>14 DEF PointsAgree

\* The tokens agree: a page that is accepted issues a token that nobody issued
\* and uses one that nobody used.
LEMMA TokensKeep ==
  ASSUME RecordingInv, LoopInv, NEW l \in Lines, l.op = "query" => l.query \in Queries, Read(l)
  PROVE  TokensAgree'
<1> DEFINE m == Len(pairs)
           n == Len(points)
           P == {j \in DOMAIN pairs : IsPage(pairs, j)}
           Q == {j \in DOMAIN pairs' : IsPage(pairs', j)}
<1>1. /\ verdict = "reading" /\ Fits(l) /\ pairs' = Append(pairs, l)
      /\ pairs \in Seq(Lines) /\ points \in Seq(PointRecords)
      /\ tokens' = IF l.op = "query" /\ l.next # None THEN [tokens EXCEPT ![l.next] = Key(l)] ELSE tokens
      /\ consumed' = IF l.op = "query" THEN consumed \cup ({l.token} \ {None}) ELSE consumed
      /\ l.next \in Tokens \cup {None} /\ l.token \in Tokens \cup {None}
  BY DEF Read, RecordingInv, Lines
<1>2. /\ m \in Nat /\ DOMAIN pairs = 1..m /\ DOMAIN pairs' = 1..m + 1 /\ pairs'[m + 1] = l
      /\ \A k \in 1..m : pairs'[k] = pairs[k] /\ pairs[k] \in Lines
      /\ \A k \in 1..m + 1 : k \in 1..m \/ k = m + 1
      /\ \A k \in 1..m : k \in 1..m + 1 /\ k # m + 1
      /\ m + 1 \in 1..m + 1
      /\ Steps(pairs) \subseteq 1..m /\ Steps(pairs) \subseteq Steps(pairs')
      /\ \A k \in 1..m : \A c : Owns(pairs', c, k) <=> Owns(pairs, c, k)
      /\ l.op # "step" => \A c : Owns(pairs', c, m + 1) <=> LastStep(pairs, c)
  BY <1>1, Appended, StepsOfAppend
<1>3. /\ \A k \in 1..m : IsPage(pairs', k) <=> IsPage(pairs, k)
      /\ IsPage(pairs', m + 1) <=> l.op = "query"
  BY <1>2 DEF IsPage
<1>4. /\ tokens \in [Tokens -> Keys \cup {NoKey}]
      /\ \A k \in 1..m : IsPage(pairs, k) => pairs[k].query \in Queries
      /\ \A k \in 1..m : IsPage(pairs, k) /\ pairs[k].next # None =>
           \E i \in DOMAIN points : \E c \in Steps(pairs) :
             /\ Stands(points[i], pairs, c) /\ Owns(pairs, c, k)
             /\ tokens[pairs[k].next] = [query |-> pairs[k].query, point |-> i]
      /\ \A t \in Tokens : tokens[t] # NoKey => \E k \in 1..m : IsPage(pairs, k) /\ pairs[k].next = t
      /\ consumed = {pairs[k].token : k \in P} \ {None}
  BY <1>1, <1>2 DEF LoopInv, TokensAgree
<1>5. n \in Nat /\ DOMAIN points = 1..n /\ \A i \in DOMAIN points : i \in DOMAIN points' /\ points'[i].id = points[i].id
  <2>1. CASE l.op = "step"
    <3>1. points' = Append(points, NewPoint(l))
      BY <2>1 DEF Read
    <3> QED BY <1>1, <3>1
  <2>2. CASE l.op # "step"
    <3>1. l.op \in {"stack", "variables", "query", "memory"} /\ points # <<>> /\ points' = Retained(l)
      BY <1>1, <2>2 DEF Read, Fits, Lines, Operations
    <3>2. PICK q \in PointRecords : points' = [points EXCEPT ![n] = q] /\ q.id = Latest.id
      BY <1>1, <3>1, RetainedFields
    <3> QED BY <1>1, <3>1, <3>2 DEF Latest
  <2> QED BY <2>1, <2>2
<1>6. \A i \in DOMAIN points : \A c \in Steps(pairs) : Stands(points[i], pairs, c) => Stands(points'[i], pairs', c)
  BY <1>2, <1>5 DEF Stands
<1>7. ASSUME l.op = "query"
      PROVE  /\ l.query \in Queries /\ n \in DOMAIN points /\ Key(l) = [query |-> l.query, point |-> n]
             /\ Key(l) \in Keys
             /\ l.next # None => tokens[l.next] = NoKey
             /\ \E c \in Steps(pairs) : Stands(points[n], pairs, c) /\ LastStep(pairs, c)
  <2>1. points # <<>> /\ QueryFits(l)
    BY <1>1, <1>7 DEF Fits
  <2>2. n \in DOMAIN points
    BY <1>1, <2>1, LatestStands
  <2>3. n <= MaxPoints
    BY <1>1 DEF LoopInv, PointsAgree, Excerpt, StepsRise
  <2>4. n \in 1..MaxPoints
    BY <1>5, <2>2, <2>3, RecordingAssumption
  <2>5. Key(l) = [query |-> l.query, point |-> n]
    BY DEF Key
  <2> QED BY <1>1, <1>7, <2>1, <2>2, <2>4, <2>5, LatestStands DEF QueryFits, Keys
<1> HIDE DEF m, n, P, Q
<1>8. tokens' \in [Tokens -> Keys \cup {NoKey}]
  BY <1>1, <1>4, <1>7
<1>9. \A k \in 1..m + 1 : IsPage(pairs', k) => pairs'[k].query \in Queries
  BY <1>2, <1>3, <1>4, <1>7
<1>10. \A k \in 1..m : IsPage(pairs, k) /\ pairs[k].next # None => tokens[pairs[k].next] # NoKey
  <2> SUFFICES ASSUME NEW k \in 1..m, IsPage(pairs, k), pairs[k].next # None PROVE tokens[pairs[k].next] # NoKey
    OBVIOUS
  <2>1. PICK i \in DOMAIN points : tokens[pairs[k].next] = [query |-> pairs[k].query, point |-> i]
    BY <1>4
  <2>2. pairs[k].query # None
    BY <1>4, RecordingAssumption
  <2> QED BY <2>1, <2>2 DEF NoKey
<1>11. ASSUME NEW k \in 1..m + 1, IsPage(pairs', k), pairs'[k].next # None
       PROVE  \E i \in DOMAIN points' : \E c \in Steps(pairs') :
                /\ Stands(points'[i], pairs', c) /\ Owns(pairs', c, k)
                /\ tokens'[pairs'[k].next] = [query |-> pairs'[k].query, point |-> i]
  <2>1. CASE k \in 1..m
    <3>1. IsPage(pairs, k) /\ pairs'[k] = pairs[k] /\ pairs[k].next # None
      BY <1>2, <1>3, <1>11, <2>1
    <3>2. PICK i \in DOMAIN points : \E c \in Steps(pairs) :
            /\ Stands(points[i], pairs, c) /\ Owns(pairs, c, k)
            /\ tokens[pairs[k].next] = [query |-> pairs[k].query, point |-> i]
      BY <1>4, <2>1, <3>1
    <3>3. PICK c \in Steps(pairs) :
            /\ Stands(points[i], pairs, c) /\ Owns(pairs, c, k)
            /\ tokens[pairs[k].next] = [query |-> pairs[k].query, point |-> i]
      BY <3>2
    <3>4. pairs[k].next \in Tokens
      BY <1>2, <2>1, <3>1 DEF Lines
    <3>5. tokens'[pairs[k].next] = tokens[pairs[k].next]
      BY <1>1, <1>4, <1>7, <1>10, <2>1, <3>1, <3>4
    <3> QED BY <1>2, <1>5, <1>6, <2>1, <3>1, <3>3, <3>5
  <2>2. CASE k = m + 1
    <3>1. l.op = "query" /\ l.next # None /\ pairs'[k] = l
      BY <1>2, <1>3, <1>11, <2>2
    <3>2. PICK c \in Steps(pairs) : Stands(points[n], pairs, c) /\ LastStep(pairs, c)
      BY <1>7, <3>1
    <3>3. Owns(pairs', c, k) /\ c \in Steps(pairs')
      BY <1>2, <2>2, <3>1, <3>2
    <3>4. n \in DOMAIN points' /\ Stands(points'[n], pairs', c)
      BY <1>5, <1>6, <1>7, <3>1, <3>2
    <3>5. tokens'[l.next] = [query |-> l.query, point |-> n]
      BY <1>1, <1>4, <1>7, <3>1
    <3> QED BY <3>1, <3>3, <3>4, <3>5
  <2> QED BY <1>2, <2>1, <2>2
<1>12. ASSUME NEW t \in Tokens, tokens'[t] # NoKey
       PROVE  \E k \in 1..m + 1 : IsPage(pairs', k) /\ pairs'[k].next = t
  <2>1. CASE l.op = "query" /\ l.next = t
    BY <1>2, <1>3, <2>1
  <2>2. CASE ~(l.op = "query" /\ l.next = t)
    <3>1. tokens[t] # NoKey
      BY <1>1, <1>4, <1>12, <2>2
    <3>2. PICK k \in 1..m : IsPage(pairs, k) /\ pairs[k].next = t
      BY <1>4, <3>1
    <3> QED BY <1>2, <1>3, <3>2
  <2> QED BY <2>1, <2>2
<1>13. consumed' = {pairs'[k].token : k \in Q} \ {None}
  <2>1. Q = IF l.op = "query" THEN P \cup {m + 1} ELSE P
    <3>1. \A k \in 1..m : k \in Q <=> k \in P
      BY <1>2, <1>3 DEF P, Q
    <3>2. m + 1 \in Q <=> l.op = "query"
      BY <1>2, <1>3 DEF Q
    <3>3. Q \subseteq 1..m + 1 /\ P \subseteq 1..m
      BY <1>2 DEF P, Q
    <3>4. CASE l.op = "query"
      <4>1. \A k \in 1..m + 1 : k \in Q <=> k \in P \cup {m + 1}
        BY <1>2, <3>1, <3>2, <3>4
      <4>2. P \cup {m + 1} \subseteq 1..m + 1
        BY <1>2, <3>3
      <4> QED BY <3>3, <3>4, <4>1, <4>2
    <3>5. CASE l.op # "query"
      <4>1. \A k \in 1..m + 1 : k \in Q <=> k \in P
        BY <1>2, <3>1, <3>2, <3>3, <3>5
      <4>2. P \subseteq 1..m + 1
        BY <1>2, <3>3
      <4> QED BY <3>3, <3>5, <4>1, <4>2
    <3> QED BY <3>4, <3>5
  <2>2. \A k \in P : pairs'[k] = pairs[k]
    BY <1>2 DEF P
  <2>3. {pairs'[k].token : k \in P} = {pairs[k].token : k \in P}
    BY <2>2
  <2>4. {pairs'[k].token : k \in P \cup {m + 1}} = {pairs'[k].token : k \in P} \cup {l.token}
    BY <1>2
  <2> QED BY <1>1, <1>4, <2>1, <2>3, <2>4
<1> QED BY <1>2, <1>8, <1>9, <1>11, <1>12, <1>13 DEF TokensAgree, Q

\* The invariant of the loop, for every step.
LEMMA LoopKeeps ==
  ASSUME RecordingInv, LoopInv, [Next]_vars
  PROVE  LoopInv'
<1>1. \A l \in Candidates : l \in Lines
  BY CandidatesAreLines DEF RecordingInv
<1>2. ASSUME NEW l \in Candidates, Read(l) PROVE LoopInv'
  <2>1. l \in Lines /\ (l.op = "query" => l.query \in Queries)
    BY <1>1 DEF Candidates, Worth
  <2>2. PointsAgree'
    BY <1>2, <2>1, PointsKeepStep, PointsKeepRetained
  <2>3. HeaderAgrees' /\ TokensAgree' /\ Excerpt(pairs')
    BY <1>2, <2>1, HeaderKeeps, TokensKeep, ExcerptKeeps
  <2> QED BY <2>2, <2>3 DEF LoopInv
<1>3. CASE verdict' # "reading"
  BY <1>3 DEF LoopInv
<1>4. CASE UNCHANGED vars
  BY <1>4 DEF vars, LoopInv, HeaderAgrees, PointsAgree, TokensAgree
<1> QED BY <1>2, <1>3, <1>4 DEF Next, Refuse, Finish

\* Nothing read so far is an excerpt of nothing.
LEMMA LoopStarts == Init => LoopInv
<1> SUFFICES ASSUME Init PROVE LoopInv
  OBVIOUS
<1>1. pairs = <<>> /\ DOMAIN pairs = {} /\ points = <<>> /\ DOMAIN points = {} /\ Len(points) = 0
  BY DEF Init
<1>2. Steps(pairs) = {} /\ Cardinality(Steps(pairs)) = 0
  <2>1. Steps(pairs) = {}
    BY <1>1 DEF Steps
  <2> QED BY <2>1, FS_EmptySet
<1>3. HeaderAgrees
  BY <1>1 DEF Init, HeaderAgrees
<1>4. PointsAgree
  BY <1>1, <1>2 DEF PointsAgree
<1>5. TokensAgree
  BY <1>1 DEF Init, TokensAgree
<1>6. Excerpt(pairs)
  BY <1>1, <1>2, RecordingAssumption
     DEF Excerpt, EachSound, IdsRise, OneCapture, StepsRise, EachOwned, OneStack, TokensOnce
<1> QED BY <1>3, <1>4, <1>5, <1>6 DEF LoopInv

\* What the loop keeps agrees with the lines it has read, which are an excerpt.
THEOREM LoopInvariant == Spec => []LoopInv
BY LoopStarts, LoopKeeps, RecordingInvariant, PTL DEF Spec

\* The loop and the checks after it accept exactly the whole excerpts, for any
\* captures, queries, tokens and limits.
THEOREM LoopIsAlwaysExact == Spec => []LoopIsExact
<1>1. ASSUME RecordingInv, LoopInv PROVE LoopIsExact
  <2> SUFFICES ASSUME verdict = "reading"
               PROVE  /\ Excerpt(pairs)
                      /\ \A l \in Candidates : Fits(l) <=> Excerpt(Append(pairs, l))
                      /\ Complete <=> Whole(pairs)
    BY DEF LoopIsExact
  <2>1. Excerpt(pairs) /\ pairs \in Seq(Lines)
    BY <1>1 DEF LoopInv, RecordingInv
  <2>2. ASSUME NEW l \in Candidates PROVE Fits(l) <=> Excerpt(Append(pairs, l))
    <3>1. l \in Lines
      BY <1>1, CandidatesAreLines DEF RecordingInv
    <3>2. l.op = "query" => l.query \in Queries
      BY DEF Candidates, Worth
    <3> QED BY <1>1, <2>1, <3>1, <3>2, FitsIsFollows, ExcerptOfAppend
  <2> QED BY <1>1, <2>1, <2>2, CompleteIsWhole
<1> QED BY <1>1, RecordingInvariant, LoopInvariant, PTL

=============================================================================
