-------------------------- MODULE LdsTranscript_proofs --------------------------
(***************************************************************************)
(* Theorems about the reader of a V22 transcript, for every recording and   *)
(* all limits.  The inductive invariant is TypeOK with AnchorIsHere and     *)
(* IdsFollowSlots: whether a query may be answered is decided by the event  *)
(* alone, and the map from values to positions says nothing that the map    *)
(* from positions to rows does not.                                         *)
(* Which lines one recording explains follows from RowsAgree and CellsAgree, *)
(* and from a count of the values that were not shown.                       *)
(***************************************************************************)
EXTENDS LdsTranscript, FiniteSetTheorems, SequenceTheorems, TLAPS

AnchorIsHere == phase = "reading" => (anchored <=> event \in Checkpoints)

IdsFollowSlots ==
  \A e \in Checkpoints : \A i \in ids[e] :
    \E s \in slots[e] : s.at = i.at /\ s.row.id = i.id

IInv == TypeOK /\ AnchorIsHere /\ IdsFollowSlots

\* What bounds positions, and tables, is a number.
LEMMA Bounds == LastExtent \in Nat /\ Cardinality(SSAValues) \in Nat
  BY RecordingAssumption, ContentAssumption, FS_CardinalityType DEF LastExtent

\* What a page of a checkpoint is made of.
LEMMA PageShape ==
  ASSUME NEW e \in Checkpoints, NEW p \in Pages[e]
  PROVE  /\ p.start \in Nat /\ p.more \in BOOLEAN
         /\ p.rows \in Seq(Rows) /\ Len(p.rows) \in Nat
         /\ Extent(p) \in 0..LastExtent /\ AtLeast(p) \in 0..LastExtent
         /\ \A j \in DOMAIN p.rows :
              /\ j \in 1..Len(p.rows) /\ p.start + j \in 1..LastExtent
              /\ p.rows[j] \in Rows /\ p.rows[j].id \in SSAValues
<1>1. /\ p \in [start : 0..MaxPosition, rows : RowLists, more : BOOLEAN]
      /\ Len(p.rows) <= PageLimit
      /\ p.more => Extent(p) <= MaxPosition
  BY DEF Pages
<1>2. PICK n \in 0..Cardinality(SSAValues) : p.rows \in [1..n -> Rows]
  BY <1>1 DEF RowLists
<1>3. n \in Nat /\ p.rows \in Seq(Rows) /\ Len(p.rows) = n /\ DOMAIN p.rows = 1..n
  BY <1>2, Bounds
<1>4. /\ p.start \in Nat /\ p.more \in BOOLEAN /\ p.start <= MaxPosition
      /\ MaxPosition \in Nat /\ PageLimit \in Nat /\ PageLimit >= 1
  BY <1>1, RecordingAssumption
<1>5. Extent(p) \in 0..LastExtent /\ AtLeast(p) \in 0..LastExtent
  BY <1>1, <1>3, <1>4 DEF Extent, AtLeast, LastExtent
<1>6. \A j \in 1..n : p.start + j \in 1..LastExtent
  BY <1>1, <1>3, <1>4 DEF LastExtent
<1>7. \A j \in 1..n : p.rows[j] \in Rows /\ p.rows[j].id \in SSAValues
  BY <1>2 DEF Rows
<1>8. QED
  BY <1>3, <1>4, <1>5, <1>6, <1>7

\* What a table of a checkpoint is made of.
LEMMA TableShape ==
  ASSUME NEW e \in Checkpoints, NEW t \in Tables[e]
  PROVE  /\ Len(t) \in 0..Cardinality(SSAValues) /\ Len(t) \in Nat
         /\ DOMAIN t = 1..Len(t)
         /\ \A i, j \in DOMAIN t : t[i].id = t[j].id => i = j
<1>1. t \in RowLists /\ TableOf(e, t)
  BY DEF Tables
<1>2. PICK n \in 0..Cardinality(SSAValues) : t \in [1..n -> Rows]
  BY <1>1 DEF RowLists
<1>3. n \in Nat /\ Len(t) = n /\ DOMAIN t = 1..n
  BY <1>2, Bounds
<1>4. QED
  BY <1>1, <1>3 DEF TableOf

\* What a window of the allocation is made of.
LEMMA WindowShape ==
  ASSUME NEW w \in Windows
  PROVE  /\ w.offset \in 0..Size /\ Len(w.cells) \in Nat
         /\ \A j \in DOMAIN w.cells :
              w.offset + j - 1 \in 0..Size-1 /\ w.cells[j] \in Storage
<1>1. /\ w \in [offset : 0..Size, cells : UNION {[1..n -> Storage] : n \in 1..Size}]
      /\ w.offset + Len(w.cells) <= Size
  BY DEF Windows
<1>2. PICK n \in 1..Size : w.cells \in [1..n -> Storage]
  BY <1>1
<1>3. Len(w.cells) = n /\ DOMAIN w.cells = 1..n
  BY <1>2, RecordingAssumption
<1>4. QED
  BY <1>1, <1>2, <1>3, RecordingAssumption

-----------------------------------------------------------------------------
\* The invariant

\* Nothing has been read of any checkpoint at the start.
LEMMA InitInvariant == Init => IInv
<1> SUFFICES ASSUME Init PROVE IInv
  OBVIOUS
<1>1. 0 \in Cursors /\ 0 \notin Checkpoints /\ 0 \in 0..LastExtent
  BY RecordingAssumption, Bounds DEF Cursors
<1>2. 0 \in 0..MaxValueRows /\ 0 \in 0..MaxMemoryCells
  BY LimitsAssumption
<1>3. TypeOK
  BY <1>1, <1>2 DEF Init, TypeOK
<1>4. AnchorIsHere /\ IdsFollowSlots
  BY <1>1 DEF Init, AnchorIsHere, IdsFollowSlots
<1>5. QED
  BY <1>3, <1>4 DEF IInv

\* A page that fits keeps the invariant.
LEMMA PageKeepsInvariant == IInv /\ InspectValues => IInv'
<1> SUFFICES ASSUME IInv, InspectValues PROVE IInv'
  OBVIOUS
<1>1. event \in Checkpoints
  BY DEF IInv, InspectValues, AnchorIsHere, Reading
<1>2. PICK p \in Pages[event] :
        /\ PageFits(p)
        /\ slots' = [slots EXCEPT ![event] = @ \cup
             {[at |-> p.start + j, row |-> p.rows[j]] : j \in DOMAIN p.rows}]
        /\ ids' = [ids EXCEPT ![event] = @ \cup
             {[at |-> p.start + j, id |-> p.rows[j].id] : j \in DOMAIN p.rows}]
        /\ counts' = [counts EXCEPT ![event] = IF p.more THEN @ ELSE @ \cup {Extent(p)}]
        /\ extents' = [extents EXCEPT ![event] = ExtentAfter(p)]
        /\ valueRows' = valueRows + Len(p.rows)
  BY DEF InspectValues
<1>3. /\ p.start \in Nat /\ p.more \in BOOLEAN
      /\ p.rows \in Seq(Rows) /\ Len(p.rows) \in Nat
      /\ Extent(p) \in 0..LastExtent /\ AtLeast(p) \in 0..LastExtent
      /\ \A j \in DOMAIN p.rows :
           /\ j \in 1..Len(p.rows) /\ p.start + j \in 1..LastExtent
           /\ p.rows[j] \in Rows /\ p.rows[j].id \in SSAValues
  BY <1>1, PageShape
<1>4. UNCHANGED <<phase, event, anchored, completed, cells, memoryCells>>
  BY DEF InspectValues
<1>5. TypeOK'
  <2>1. slots' \in [Checkpoints -> SUBSET [at : 1..LastExtent, row : Rows]]
    BY <1>1, <1>2, <1>3 DEF IInv, TypeOK
  <2>2. ids' \in [Checkpoints -> SUBSET [at : 1..LastExtent, id : SSAValues]]
    BY <1>1, <1>2, <1>3, SMTT(30) DEF IInv, TypeOK
  <2>3. counts' \in [Checkpoints -> SUBSET (0..LastExtent)]
    BY <1>1, <1>2, <1>3 DEF IInv, TypeOK
  <2>4. extents' \in [Checkpoints -> 0..LastExtent]
    BY <1>1, <1>2, <1>3 DEF IInv, TypeOK, ExtentAfter
  <2>5. valueRows' \in 0..MaxValueRows
    BY <1>2, <1>3, LimitsAssumption DEF IInv, TypeOK, PageFits
  <2>6. QED
    BY <1>4, <2>1, <2>2, <2>3, <2>4, <2>5 DEF IInv, TypeOK
<1>6. AnchorIsHere'
  BY <1>4 DEF IInv, AnchorIsHere
<1>7. IdsFollowSlots'
  <2> SUFFICES ASSUME NEW e \in Checkpoints, NEW i \in ids'[e]
               PROVE  \E s \in slots'[e] : s.at = i.at /\ s.row.id = i.id
    BY DEF IdsFollowSlots
  <2>1. slots[e] \subseteq slots'[e]
    BY <1>1, <1>2 DEF IInv, TypeOK
  <2>2. CASE i \in ids[e]
    BY <2>1, <2>2 DEF IInv, IdsFollowSlots
  <2>3. CASE i \notin ids[e]
    <3>1. e = event
      BY <1>1, <1>2, <2>3 DEF IInv, TypeOK
    <3>2. PICK j \in DOMAIN p.rows : i = [at |-> p.start + j, id |-> p.rows[j].id]
      BY <1>1, <1>2, <2>3, <3>1 DEF IInv, TypeOK
    <3>3. [at |-> p.start + j, row |-> p.rows[j]] \in slots'[e]
      BY <1>1, <1>2, <3>1 DEF IInv, TypeOK
    <3>4. QED
      BY <3>2, <3>3
  <2>4. QED
    BY <2>2, <2>3
<1>8. QED
  BY <1>5, <1>6, <1>7 DEF IInv

\* A window that fits keeps the invariant.
LEMMA WindowKeepsInvariant == IInv /\ ReadMemory => IInv'
<1> SUFFICES ASSUME IInv, ReadMemory PROVE IInv'
  OBVIOUS
<1>1. event \in Checkpoints
  BY DEF IInv, ReadMemory, AnchorIsHere, Reading
<1>2. PICK w \in Windows :
        /\ WindowFits(w)
        /\ cells' = [cells EXCEPT ![event] = @ \cup
             {[at |-> w.offset + j - 1, holds |-> w.cells[j]] : j \in DOMAIN w.cells}]
        /\ memoryCells' = memoryCells + Len(w.cells)
  BY DEF ReadMemory
<1>3. UNCHANGED <<phase, event, anchored, completed, slots, ids, counts, extents, valueRows>>
  BY DEF ReadMemory
<1>4. cells' \in [Checkpoints -> SUBSET [at : 0..Size-1, holds : Storage]]
  BY <1>1, <1>2, WindowShape DEF IInv, TypeOK
<1>5. memoryCells' \in 0..MaxMemoryCells
  BY <1>2, WindowShape, LimitsAssumption DEF IInv, TypeOK, WindowFits
<1>6. QED
  BY <1>3, <1>4, <1>5 DEF IInv, TypeOK, AnchorIsHere, IdsFollowSlots

\* Every other line leaves what was shown alone, and a snapshot goes with the event.
LEMMA StepKeepsInvariant == IInv /\ [Next]_vars => IInv'
<1> SUFFICES ASSUME IInv, [Next]_vars PROVE IInv'
  OBVIOUS
<1> USE DEF IInv, TypeOK, AnchorIsHere, IdsFollowSlots, shown
<1>1. CASE Step
  BY <1>1 DEF Step, StepFits, ControlFits, SnapshotFits, Arrive, Reading
<1>2. CASE Seek
  BY <1>2 DEF Seek, SeekFits, ControlFits, SnapshotFits, Arrive, Reading
<1>3. CASE GetState
  BY <1>3 DEF GetState, SnapshotFits, Reading
<1>4. CASE InspectValues
  BY <1>4, PageKeepsInvariant
<1>5. CASE ReadMemory
  BY <1>5, WindowKeepsInvariant
<1>6. CASE Discover \/ Refusal \/ UNCHANGED vars
  BY <1>6 DEF Discover, Refusal, vars
<1>7. CASE Terminate
  BY <1>7 DEF Terminate, Reading
<1>8. CASE Finish
  BY <1>8 DEF Finish
<1>9. CASE Refuse
  BY <1>9 DEF Refuse
<1>10. QED
  BY <1>1, <1>2, <1>3, <1>4, <1>5, <1>6, <1>7, <1>8, <1>9 DEF Next

\* Every value stays in its type, a query can be answered exactly at a checkpoint, and
\* the two maps of rows agree, whatever the recorded lines claim.
THEOREM TranscriptInvariant == Spec => []IInv
  BY InitInvariant, StepKeepsInvariant, PTL DEF Spec

-----------------------------------------------------------------------------
\* The refinement

\* An accepted page leaves exactly the tables that show it.
LEMMA PageFilters ==
  ASSUME TypeOK, event \in Checkpoints, event' = event, NEW p \in Pages[event],
         slots' = [slots EXCEPT ![event] = @ \cup
           {[at |-> p.start + j, row |-> p.rows[j]] : j \in DOMAIN p.rows}],
         counts' = [counts EXCEPT ![event] = IF p.more THEN @ ELSE @ \cup {Extent(p)}],
         extents' = [extents EXCEPT ![event] = ExtentAfter(p)]
  PROVE  tables' = [tables EXCEPT ![event] = {t \in @ : ShowsPage(t, p)}]
<1>1. /\ p.start \in Nat /\ p.more \in BOOLEAN
      /\ Extent(p) \in 0..LastExtent /\ AtLeast(p) \in 0..LastExtent
      /\ Len(p.rows) \in Nat /\ DOMAIN p.rows = 1..Len(p.rows)
  BY PageShape
<1>2. ASSUME NEW e \in Checkpoints, e # event
      PROVE  tables'[e] = tables[e]
  BY <1>2 DEF TypeOK, tables, Known
<1>3. ASSUME NEW t \in Tables[event]
      PROVE  Known(event, t)' <=> Known(event, t) /\ ShowsPage(t, p)
  <2>1. Len(t) \in Nat /\ DOMAIN t = 1..Len(t)
    BY TableShape
  <2>2. slots'[event] = slots[event] \cup
          {[at |-> p.start + j, row |-> p.rows[j]] : j \in DOMAIN p.rows}
    BY DEF TypeOK
  <2>3. counts'[event] = IF p.more THEN counts[event] ELSE counts[event] \cup {Extent(p)}
    BY DEF TypeOK
  <2>4. extents'[event] = ExtentAfter(p) /\ extents[event] \in 0..LastExtent
    BY DEF TypeOK
  <2>5. extents'[event] <= Len(t) <=> extents[event] <= Len(t) /\ AtLeast(p) <= Len(t)
    BY <1>1, <2>1, <2>4 DEF ExtentAfter
  <2>6. (\A s \in slots'[event] : s.at \in DOMAIN t /\ t[s.at] = s.row) <=>
          /\ \A s \in slots[event] : s.at \in DOMAIN t /\ t[s.at] = s.row
          /\ \A j \in DOMAIN p.rows : p.start + j \in DOMAIN t /\ t[p.start + j] = p.rows[j]
    <3>1. ASSUME NEW j \in DOMAIN p.rows
          PROVE  [at |-> p.start + j, row |-> p.rows[j]] \in slots'[event]
      BY <2>2
    <3>2. ASSUME NEW s \in slots'[event]
          PROVE  \/ s \in slots[event]
                 \/ \E j \in DOMAIN p.rows : s.at = p.start + j /\ s.row = p.rows[j]
      BY <2>2
    <3>3. slots[event] \subseteq slots'[event]
      BY <2>2
    <3>4. QED
      BY <3>1, <3>2, <3>3, ZenonT(30)
  <2>7. (\A n \in counts'[event] : Len(t) = n) <=>
          (\A n \in counts[event] : Len(t) = n) /\ (p.more \/ Len(t) = Extent(p))
    BY <1>1, <2>3
  <2>8. Extent(p) <= Len(t) => \A j \in DOMAIN p.rows : p.start + j \in DOMAIN t
    BY <1>1, <2>1 DEF Extent
  <2>9. AtLeast(p) <= Len(t) /\ (p.more \/ Len(t) = Extent(p)) <=>
          Extent(p) <= Len(t) /\ (p.more <=> Extent(p) < Len(t))
    BY <1>1, <2>1 DEF AtLeast
  <2>10. QED
    BY <2>5, <2>6, <2>7, <2>8, <2>9 DEF Known, ShowsPage
<1>4. tables'[event] = {t \in tables[event] : ShowsPage(t, p)}
  <2>1. tables'[event] = {t \in Tables[event] : Known(event, t)'}
    BY DEF tables, Known
  <2>2. tables[event] = {t \in Tables[event] : Known(event, t)}
    BY DEF tables
  <2>3. QED
    BY <1>3, <2>1, <2>2
<1>5. QED
  BY <1>2, <1>4 DEF tables

\* An accepted window leaves exactly the images that show it.
LEMMA WindowFilters ==
  ASSUME TypeOK, event \in Checkpoints, event' = event, NEW w \in Windows,
         cells' = [cells EXCEPT ![event] = @ \cup
           {[at |-> w.offset + j - 1, holds |-> w.cells[j]] : j \in DOMAIN w.cells}]
  PROVE  images' = [images EXCEPT ![event] = {m \in @ : ShowsWindow(m, w)}]
<1>1. ASSUME NEW e \in Checkpoints, e # event
      PROVE  images'[e] = images[e]
  BY <1>1 DEF TypeOK, images, KnownImage
<1>2. cells'[event] = cells[event] \cup
        {[at |-> w.offset + j - 1, holds |-> w.cells[j]] : j \in DOMAIN w.cells}
  BY DEF TypeOK
<1>3. ASSUME NEW m \in Images
      PROVE  KnownImage(event, m)' <=> KnownImage(event, m) /\ ShowsWindow(m, w)
  <2>1. ASSUME NEW j \in DOMAIN w.cells
        PROVE  [at |-> w.offset + j - 1, holds |-> w.cells[j]] \in cells'[event]
    BY <1>2
  <2>2. ASSUME NEW c \in cells'[event]
        PROVE  \/ c \in cells[event]
               \/ \E j \in DOMAIN w.cells : c.at = w.offset + j - 1 /\ c.holds = w.cells[j]
    BY <1>2
  <2>3. cells[event] \subseteq cells'[event]
    BY <1>2
  <2>4. (\A c \in cells'[event] : m[c.at] = c.holds) <=>
          /\ \A c \in cells[event] : m[c.at] = c.holds
          /\ \A j \in DOMAIN w.cells : m[w.offset + j - 1] = w.cells[j]
    <3>1. ASSUME \A c \in cells'[event] : m[c.at] = c.holds, NEW j \in DOMAIN w.cells
          PROVE  m[w.offset + j - 1] = w.cells[j]
      BY <2>1, <3>1
    <3>2. QED
      BY <2>2, <2>3, <3>1
  <2>5. QED
    BY <2>4 DEF KnownImage, ShowsWindow
<1>4. images'[event] = {m \in images[event] : ShowsWindow(m, w)}
  BY <1>3 DEF images, KnownImage
<1>5. QED
  BY <1>1, <1>4 DEF images

\* Nothing read yet: every table and image is possible.
LEMMA RefinementInit == Init => Recorder!Init
<1> SUFFICES ASSUME Init PROVE Recorder!Init
  OBVIOUS
<1>1. \A e \in Checkpoints : tables[e] = Tables[e]
  BY TableShape DEF Init, tables, Known
<1>2. tables = Tables
  BY <1>1 DEF tables, Tables
<1>3. images = [e \in Checkpoints |-> Images]
  BY DEF Init, images, KnownImage
<1>4. QED
  BY <1>2, <1>3 DEF Init, Recorder!Init

\* Every line that fits is a move or a reading of one recording, or changes nothing.
LEMMA RefinementStep == IInv /\ [Next]_vars => [Recorder!Next]_Recorder!vars
<1> SUFFICES ASSUME IInv, [Next]_vars PROVE [Recorder!Next]_Recorder!vars
  OBVIOUS
<1>1. ASSUME UNCHANGED shown PROVE UNCHANGED <<tables, images>>
  BY <1>1 DEF shown, tables, images, Known, KnownImage
<1>2. ASSUME UNCHANGED shown, event' \in Cursors PROVE Recorder!Move
  BY <1>1, <1>2 DEF Recorder!Move
<1>3. CASE Step \/ Seek
  BY <1>2, <1>3 DEF Step, Seek, Arrive, Recorder!Next
<1>4. CASE InspectValues
  <2>1. event \in Checkpoints
    BY <1>4 DEF IInv, InspectValues, AnchorIsHere, Reading
  <2>2. PICK p \in Pages[event] :
          tables' = [tables EXCEPT ![event] = {t \in @ : ShowsPage(t, p)}]
    BY <1>4, <2>1, PageFilters DEF IInv, InspectValues
  <2>3. images' = images /\ event' = event
    BY <1>4 DEF InspectValues, images, KnownImage
  <2>4. QED
    BY <2>1, <2>2, <2>3 DEF Recorder!Next, Recorder!ReadValues
<1>5. CASE ReadMemory
  <2>1. event \in Checkpoints /\ event >= FirstCaptured
    BY <1>5 DEF IInv, ReadMemory, AnchorIsHere, Reading, WindowFits
  <2>2. PICK w \in Windows :
          images' = [images EXCEPT ![event] = {m \in @ : ShowsWindow(m, w)}]
    BY <1>5, <2>1, WindowFilters DEF IInv, ReadMemory
  <2>3. tables' = tables /\ event' = event
    BY <1>5 DEF ReadMemory, tables, Known
  <2>4. QED
    BY <2>1, <2>2, <2>3 DEF Recorder!Next, Recorder!ReadMemory
<1>6. CASE GetState \/ Discover \/ Refusal \/ Terminate \/ Finish \/ Refuse \/ UNCHANGED vars
  <2>1. UNCHANGED <<event, shown>>
    BY <1>6 DEF GetState, Discover, Refusal, Terminate, Finish, Refuse, vars
  <2>2. QED
    BY <1>1, <2>1 DEF Recorder!vars
<1>7. QED
  BY <1>3, <1>4, <1>5, <1>6 DEF Next

\* The reader implements LdsRecorder: all that it accepts is said of one recording that
\* does not change, however the cursor moves between two readings of a checkpoint.
THEOREM Refinement == Spec => ImplementsRecorder
  BY TranscriptInvariant, RefinementInit, RefinementStep, PTL
     DEF Spec, ImplementsRecorder, Recorder!Spec

-----------------------------------------------------------------------------
\* Honest lines

\* A page of a table that explains the lines so far is accepted.
LEMMA HonestPageFits ==
  ASSUME IInv, event \in Checkpoints, NEW t \in tables[event], NEW p \in Pages[event],
         ShowsPage(t, p), valueRows + Len(p.rows) <= MaxValueRows
  PROVE  PageFits(p)
<1>1. t \in Tables[event] /\ Known(event, t)
  BY DEF tables
<1>2. /\ Len(t) \in Nat /\ DOMAIN t = 1..Len(t)
      /\ \A i, j \in DOMAIN t : t[i].id = t[j].id => i = j
  BY <1>1, TableShape
<1>3. /\ p.start \in Nat /\ p.more \in BOOLEAN
      /\ Extent(p) \in 0..LastExtent /\ Len(p.rows) \in Nat
      /\ \A j \in DOMAIN p.rows : j \in 1..Len(p.rows)
  BY PageShape
<1>4. extents[event] \in 0..LastExtent /\ counts[event] \subseteq 0..LastExtent
  BY DEF IInv, TypeOK
<1>5. CountFits(p)
  BY <1>1, <1>2, <1>3, <1>4 DEF CountFits, Known, ShowsPage
<1>6. ASSUME NEW j \in DOMAIN p.rows
      PROVE  RowFits(p.start + j, p.rows[j])
  <2>1. p.start + j \in DOMAIN t /\ t[p.start + j] = p.rows[j]
    BY <1>2, <1>3 DEF ShowsPage, Extent
  <2>2. \A s \in slots[event] : s.at \in DOMAIN t /\ t[s.at] = s.row
    BY <1>1 DEF Known
  <2>3. ASSUME NEW i \in ids[event], i.id = p.rows[j].id
        PROVE  i.at = p.start + j
    <3>1. PICK s \in slots[event] : s.at = i.at /\ s.row.id = i.id
      BY DEF IInv, IdsFollowSlots
    <3>2. t[s.at].id = t[p.start + j].id
      BY <2>1, <2>2, <2>3, <3>1
    <3>3. QED
      BY <1>2, <2>1, <2>2, <3>1, <3>2
  <2>4. QED
    BY <2>1, <2>2, <2>3 DEF RowFits
<1>7. QED
  BY <1>5, <1>6 DEF PageFits

\* A window of an image that explains the lines so far is accepted.
LEMMA HonestWindowFits ==
  ASSUME event >= FirstCaptured, event \in Checkpoints,
         NEW m \in images[event], NEW w \in Windows,
         ShowsWindow(m, w), memoryCells + Len(w.cells) <= MaxMemoryCells
  PROVE  WindowFits(w)
<1>1. KnownImage(event, m)
  BY DEF images
<1>2. QED
  BY <1>1 DEF WindowFits, KnownImage, ShowsWindow

\* The answer to a step, which stops at the first and at the last cursor, is accepted.
LEMMA HonestStepFits ==
  ASSUME IInv, NEW forward \in BOOLEAN, NEW count \in 1..End+1
  PROVE  \E at \in Cursors :
           /\ at = (IF forward THEN Max({e \in Cursors : e <= event + count})
                    ELSE Min({e \in Cursors : e + count >= event}))
           /\ \E advanced \in 0..End-1 :
                StepFits(forward, count, at, advanced, at \in Checkpoints)
<1> DEFINE at == StepTarget(forward, count)
           up == {e \in Cursors : e <= event + count}
           down == {e \in Cursors : e + count >= event}
<1>1. End \in Nat /\ End >= 1 /\ event \in 0..End /\ count \in Nat
  BY RecordingAssumption DEF IInv, TypeOK, Cursors
<1>2. at \in Cursors
  BY <1>1 DEF StepTarget, Least, Cursors
<1>3. ASSUME forward PROVE at = Max(up)
  <2>1. at \in up /\ \A e \in up : at >= e
    BY <1>1, <1>3 DEF StepTarget, Least, Cursors
  <2>2. \A e, f \in up : e >= f /\ f >= e => e = f
    BY <1>1 DEF Cursors
  <2>3. QED
    BY <2>1, <2>2 DEF Max
<1>4. ASSUME ~forward PROVE at = Min(down)
  <2>1. at \in down /\ \A e \in down : at <= e
    BY <1>1, <1>4 DEF StepTarget, Cursors
  <2>2. \A e, f \in down : e <= f /\ f <= e => e = f
    BY <1>1 DEF Cursors
  <2>3. QED
    BY <2>1, <2>2 DEF Min
<1>5. Distance(Indexed(event), Indexed(at)) \in 0..End-1
  BY <1>1, <1>2 DEF Distance, Indexed, Least, Cursors
<1>6. StepFits(forward, count, at, Distance(Indexed(event), Indexed(at)), at \in Checkpoints)
  BY DEF StepFits, ControlFits, SnapshotFits
<1>7. QED
  BY <1>2, <1>3, <1>4, <1>5, <1>6

\* A refusal of a cursor beyond the end, or of memory not yet captured, is accepted.
LEMMA HonestRefusalFits ==
  ASSUME NEW q \in Queries, q.current
  PROVE  /\ q.operation = "seek" /\ q.fault = "beyond" => ErrorFits(q, "invalid_cursor")
         /\ q.operation = "read_memory" /\ event < FirstCaptured =>
              UnavailableFits(q, "outside_capture_scope")
  BY DEF ErrorFits, UnavailableFits

\* Nothing that a recorder says truly of a recording that still explains the transcript
\* is refused, for every recording and every size of its pages and windows.
THEOREM HonestLines == Spec => []HonestLinesFit
<1>1. IInv => HonestLinesFit
  BY HonestPageFits, HonestWindowFits, HonestStepFits, HonestRefusalFits
     DEF HonestLinesFit, Reading, IInv, AnchorIsHere
<1>2. QED
  BY <1>1, TranscriptInvariant, PTL

-----------------------------------------------------------------------------
\* One recording explains what is read

\* What the maps hold of a checkpoint is part of one table: a position has one row, a
\* value one position, and the rows that a last page counted are all there are.
RowsAgree == \A e \in Checkpoints :
  /\ \A s, r \in slots[e] : s.at = r.at \/ s.row.id = r.row.id => s = r
  /\ \A s \in slots[e] :
       /\ s.at <= extents[e]
       /\ [at |-> s.at, id |-> s.row.id] \in ids[e]
       /\ s.row.id \in Pending[e] => s.row.availability = NotRepresented
  /\ \A n \in counts[e] : n = extents[e]

\* A byte of a checkpoint was shown with one content only.
CellsAgree == \A e \in Checkpoints : \A c, d \in cells[e] : c.at = d.at => c = d

\* Of two finite sets, the larger has room for a copy of the other.
LEMMA Room ==
  ASSUME NEW U, NEW V, IsFiniteSet(U), IsFiniteSet(V), Cardinality(U) <= Cardinality(V)
  PROVE  \E f \in [U -> V] : \A x, y \in U : f[x] = f[y] => x = y
<1>1. Cardinality(U) \in Nat /\ Cardinality(V) \in Nat
  BY FS_CardinalityType
<1>2. PICK g \in [1..Cardinality(U) -> U] : \A x \in U : \E i \in 1..Cardinality(U) : g[i] = x
  BY FS_CardinalityType DEF ExistsBijection, Bijection, Surjection
<1>3. PICK h \in [1..Cardinality(V) -> V] :
        \A i, j \in 1..Cardinality(V) : h[i] = h[j] => i = j
  <2>1. PICK h : h \in Bijection(1..Cardinality(V), V)
    BY FS_CardinalityType DEF ExistsBijection
  <2>2. h \in Injection(1..Cardinality(V), V)
    BY <2>1 DEF Bijection
  <2> QED BY <2>2 DEF Injection, IsInjective
<1> DEFINE index(x) == CHOOSE i \in 1..Cardinality(U) : g[i] = x
           f == [x \in U |-> h[index(x)]]
<1>4. \A x \in U : index(x) \in 1..Cardinality(U) /\ g[index(x)] = x
  BY <1>2
<1>5. \A x \in U : index(x) \in 1..Cardinality(V)
  BY <1>1, <1>4
<1> HIDE DEF index
<1>6. f \in [U -> V]
  BY <1>3, <1>5
<1>7. ASSUME NEW x \in U, NEW y \in U, f[x] = f[y] PROVE x = y
  <2>1. index(x) = index(y)
    BY <1>3, <1>5, <1>7
  <2> QED BY <1>4, <2>1
<1> QED BY <1>6, <1>7

\* Rows that agree are part of a table: there are values enough for the positions
\* that were not shown.
LEMMA RowsExtend ==
  ASSUME TypeOK, RowsAgree, NEW e \in Checkpoints, extents[e] <= Cardinality(SSAValues)
  PROVE  tables[e] # {}
<1> DEFINE n == extents[e]
           K == {s.at : s \in slots[e]}
           W == {s.row.id : s \in slots[e]}
           shownAt(i) == CHOOSE s \in slots[e] : s.at = i
<1>1. /\ n \in Nat /\ n \in 0..Cardinality(SSAValues)
      /\ slots[e] \subseteq [at : 1..LastExtent, row : Rows]
  BY Bounds DEF TypeOK
<1>2. \A i \in K : shownAt(i) \in slots[e] /\ shownAt(i).at = i
  OBVIOUS
<1>3. \A s \in slots[e] : s.at \in K /\ shownAt(s.at) = s /\ s.row.id \in W
  BY <1>2 DEF RowsAgree
<1> HIDE DEF shownAt
<1>4. K \subseteq 1..n /\ W \subseteq SSAValues
  <2>1. \A s \in slots[e] : s.at \in 1..LastExtent /\ s.at <= n /\ s.row.id \in SSAValues
    BY <1>1 DEF RowsAgree, Rows
  <2>2. \A s \in slots[e] : s.at \in 1..n
    BY <1>1, <2>1, Bounds
  <2> QED BY <2>1, <2>2
<1>f. IsFiniteSet(1..n) /\ Cardinality(1..n) = n
  <2>1. 1 \in Int /\ n \in Int /\ (IF 1 > n THEN 0 ELSE n - 1 + 1) = n
    BY <1>1
  <2> HIDE DEF n
  <2> QED BY <2>1, FS_Interval
<1>5. IsFiniteSet(K) /\ IsFiniteSet(W) /\ Cardinality(W) <= Cardinality(K)
  <2> DEFINE b == [i \in K |-> shownAt(i).row.id]
  <2>1. IsFiniteSet(K)
    BY <1>4, <1>f, FS_Subset
  <2>2. b \in [K -> W]
    BY <1>2, <1>3
  <2>3. \A v \in W : \E i \in K : b[i] = v
    BY <1>3
  <2>4. b \in Surjection(K, W)
    BY <2>2, <2>3 DEF Surjection
  <2> HIDE DEF b, K, W
  <2> QED BY <2>1, <2>4, FS_Surjection
<1> DEFINE U == (1..n) \ K
           V == SSAValues \ W
<1>6. IsFiniteSet(U) /\ IsFiniteSet(V) /\ Cardinality(U) <= Cardinality(V)
  <2>1. (1..n) \cap K = K /\ SSAValues \cap W = W
    BY <1>4
  <2>3. IsFiniteSet(U) /\ Cardinality(U) = n - Cardinality(K)
    <3> DEFINE I == 1..n
    <3>1. IsFiniteSet(I) /\ Cardinality(I) = n /\ I \cap K = K
      BY <1>f, <2>1
    <3>2. U = I \ K
      OBVIOUS
    <3> HIDE DEF I, U, K, n
    <3> QED BY <3>1, <3>2, FS_Difference
  <2>4. IsFiniteSet(V) /\ Cardinality(V) = Cardinality(SSAValues) - Cardinality(W)
    BY <2>1, ContentAssumption, FS_Difference
  <2>5. /\ Cardinality(K) \in Nat /\ Cardinality(W) \in Nat /\ Cardinality(SSAValues) \in Nat
        /\ n \in Nat /\ n <= Cardinality(SSAValues)
    BY <1>1, <1>5, Bounds, FS_CardinalityType
  <2> HIDE DEF n, K, W, U, V
  <2> QED BY <1>5, <2>3, <2>4, <2>5
<1>7. PICK f \in [U -> V] : \A x, y \in U : f[x] = f[y] => x = y
  <2> HIDE DEF U, V
  <2> QED BY <1>6, Room
<1> DEFINE t == [i \in 1..n |-> IF i \in K THEN shownAt(i).row
                                ELSE [id |-> f[i], availability |-> NotRepresented]]
<1>8. \A i \in K : shownAt(i).row \in Rows /\ shownAt(i).row.id \in W
  BY <1>1, <1>2, <1>3
<1>9. \A i \in U : f[i] \in SSAValues /\ f[i] \notin W
  BY <1>7
<1>10. t \in [1..n -> Rows]
  BY <1>8, <1>9, RecordingAssumption DEF Rows
<1>11. ASSUME NEW i \in 1..n, NEW j \in 1..n, t[i].id = t[j].id PROVE i = j
  <2>1. CASE i \in K /\ j \in K
    <3>1. shownAt(i).row.id = shownAt(j).row.id
      BY <1>11, <2>1
    <3>2. shownAt(i) = shownAt(j)
      BY <1>2, <2>1, <3>1 DEF RowsAgree
    <3> QED BY <1>2, <2>1, <3>2
  <2>2. CASE i \notin K /\ j \notin K
    BY <1>7, <1>11, <2>2
  <2>3. CASE (i \in K /\ j \notin K) \/ (i \notin K /\ j \in K)
    BY <1>8, <1>9, <1>11, <2>3
  <2> QED BY <2>1, <2>2, <2>3
<1>12. \A i \in 1..n : t[i].id \in Pending[e] => t[i].availability = NotRepresented
  BY <1>2 DEF RowsAgree
<1>13. \A s \in slots[e] : s.at \in 1..n /\ t[s.at] = s.row
  BY <1>3, <1>4
<1> HIDE DEF t, K, W, U, V
<1>14. t \in Tables[e]
  <2>1. DOMAIN t = 1..n
    BY <1>10
  <2>2. t \in RowLists
    BY <1>1, <1>10 DEF RowLists
  <2>3. TableOf(e, t)
    BY <1>11, <1>12, <2>1 DEF TableOf
  <2> QED BY <2>2, <2>3 DEF Tables
<1>15. Known(e, t)
  <2>1. DOMAIN t = 1..n /\ Len(t) = n
    BY <1>1, <1>10
  <2> QED BY <1>1, <1>13, <2>1 DEF Known, RowsAgree
<1> QED BY <1>14, <1>15 DEF tables

\* A table that agrees with the lines is as long as they claim.
LEMMA TableIsLong ==
  ASSUME TypeOK, NEW e \in Checkpoints, tables[e] # {}
  PROVE  extents[e] <= Cardinality(SSAValues)
<1>1. PICK t \in Tables[e] : Known(e, t)
  BY DEF tables
<1>2. Len(t) \in 0..Cardinality(SSAValues) /\ extents[e] <= Len(t)
  BY <1>1, TableShape DEF Known
<1> QED BY <1>2, Bounds DEF TypeOK

\* Bytes that agree are part of an image: those not shown may hold anything.
LEMMA CellsExtend ==
  ASSUME TypeOK, CellsAgree, NEW e \in Checkpoints
  PROVE  images[e] # {}
<1>1. PICK any \in Storage : TRUE
  BY ContentAssumption
<1> DEFINE m == [a \in 0..Size-1 |->
                   IF \E c \in cells[e] : c.at = a
                   THEN (CHOOSE c \in cells[e] : c.at = a).holds ELSE any]
<1>2. cells[e] \subseteq [at : 0..Size-1, holds : Storage]
  BY DEF TypeOK
<1>3. m \in Images
  BY <1>1, <1>2 DEF Images
<1>4. ASSUME NEW c \in cells[e] PROVE m[c.at] = c.holds
  <2>1. (CHOOSE d \in cells[e] : d.at = c.at) = c
    BY DEF CellsAgree
  <2> QED BY <1>2, <2>1
<1> QED BY <1>3, <1>4 DEF images, KnownImage

\* A page that fits agrees with the pages before it.
LEMMA PageKeepsRows ==
  ASSUME IInv, RowsAgree, event \in Checkpoints, NEW p \in Pages[event], PageFits(p),
         slots' = [slots EXCEPT ![event] = @ \cup
           {[at |-> p.start + j, row |-> p.rows[j]] : j \in DOMAIN p.rows}],
         ids' = [ids EXCEPT ![event] = @ \cup
           {[at |-> p.start + j, id |-> p.rows[j].id] : j \in DOMAIN p.rows}],
         counts' = [counts EXCEPT ![event] = IF p.more THEN @ ELSE @ \cup {Extent(p)}],
         extents' = [extents EXCEPT ![event] = ExtentAfter(p)]
  PROVE  RowsAgree'
<1> DEFINE N == {[at |-> p.start + j, row |-> p.rows[j]] : j \in DOMAIN p.rows}
           Same(s, r) == s.at = r.at \/ s.row.id = r.row.id => s = r
           InTable(s) == /\ s.at <= extents'[event]
                         /\ [at |-> s.at, id |-> s.row.id] \in ids'[event]
                         /\ s.row.id \in Pending[event] => s.row.availability = NotRepresented
<1>1. /\ p.start \in Nat /\ p.more \in BOOLEAN /\ Len(p.rows) \in Nat
      /\ Extent(p) \in Nat /\ AtLeast(p) \in Nat
      /\ \A j \in DOMAIN p.rows :
           j \in 1..Len(p.rows) /\ p.start + j \in Nat /\ p.start + j <= Extent(p)
  BY PageShape, RecordingAssumption, SMTT(30) DEF Extent
<1>2. TableOf(event, p.rows) /\ CountFits(p)
      /\ \A j \in DOMAIN p.rows : RowFits(p.start + j, p.rows[j])
  BY DEF Pages, PageFits
<1>3. /\ slots'[event] = slots[event] \cup N
      /\ ids[event] \subseteq ids'[event]
      /\ \A j \in DOMAIN p.rows : [at |-> p.start + j, id |-> p.rows[j].id] \in ids'[event]
      /\ counts'[event] = IF p.more THEN counts[event] ELSE counts[event] \cup {Extent(p)}
      /\ extents'[event] = ExtentAfter(p)
      /\ \A e \in Checkpoints : e # event =>
           slots'[e] = slots[e] /\ ids'[e] = ids[e] /\ counts'[e] = counts[e] /\ extents'[e] = extents[e]
  BY DEF IInv, TypeOK
<1>4. /\ extents[event] \in Nat /\ extents'[event] \in Nat
      /\ extents[event] <= extents'[event] /\ AtLeast(p) <= extents'[event] /\ Extent(p) <= extents'[event]
  BY <1>1, <1>3, RecordingAssumption DEF IInv, TypeOK, ExtentAfter, AtLeast
<1>5. \A s \in slots[event] : s.at \in Nat /\ s = [at |-> s.at, row |-> s.row]
  BY RecordingAssumption DEF IInv, TypeOK
<1>6. ASSUME NEW s \in slots[event], NEW r \in N PROVE Same(s, r)
  <2>1. PICK j \in DOMAIN p.rows : r = [at |-> p.start + j, row |-> p.rows[j]]
    OBVIOUS
  <2>2. s.at = r.at => s.row = r.row
    BY <1>2, <2>1 DEF RowFits
  <2>3. [at |-> s.at, id |-> s.row.id] \in ids[event]
    BY DEF RowsAgree
  <2>4. s.row.id = r.row.id => s.at = r.at
    BY <1>2, <2>1, <2>3 DEF RowFits
  <2> QED BY <1>5, <2>1, <2>2, <2>4
<1>7. ASSUME NEW s \in N, NEW r \in N PROVE Same(s, r)
  <2>1. PICK j \in DOMAIN p.rows : s = [at |-> p.start + j, row |-> p.rows[j]]
    OBVIOUS
  <2>2. PICK k \in DOMAIN p.rows : r = [at |-> p.start + k, row |-> p.rows[k]]
    OBVIOUS
  <2>3. s.at = r.at => j = k
    BY <1>1, <2>1, <2>2
  <2>4. s.row.id = r.row.id => j = k
    BY <1>2, <2>1, <2>2 DEF TableOf
  <2> QED BY <2>1, <2>2, <2>3, <2>4
<1>8. ASSUME NEW s \in slots'[event], NEW r \in slots'[event] PROVE Same(s, r)
  <2>1. CASE s \in slots[event] /\ r \in slots[event]
    BY <2>1 DEF RowsAgree
  <2>2. CASE s \in N /\ r \in slots[event]
    <3>1. Same(r, s)
      BY <1>6, <2>2
    <3> QED BY <3>1
  <2> HIDE DEF N, Same
  <2> QED BY <1>3, <1>6, <1>7, <2>1, <2>2
<1>9. ASSUME NEW s \in slots'[event] PROVE InTable(s)
  <2>1. CASE s \in slots[event]
    <3>1. s.at <= extents[event]
      BY <2>1 DEF RowsAgree
    <3>2. s.at <= extents'[event]
      BY <1>4, <1>5, <2>1, <3>1
    <3> QED BY <1>3, <2>1, <3>2 DEF RowsAgree
  <2>2. CASE s \in N
    <3>1. PICK j \in DOMAIN p.rows : s = [at |-> p.start + j, row |-> p.rows[j]]
      BY <2>2
    <3>2. s.at <= extents'[event]
      BY <1>1, <1>4, <3>1
    <3>3. s.row.id \in Pending[event] => s.row.availability = NotRepresented
      BY <1>2, <3>1 DEF TableOf
    <3> QED BY <1>3, <3>1, <3>2, <3>3
  <2> QED BY <1>3, <2>1, <2>2
<1>10. ASSUME NEW n \in counts'[event] PROVE n = extents'[event]
  <2>1. n \in counts[event] => n = extents[event]
    BY DEF RowsAgree
  <2>2. CASE p.more
    <3>1. n \in counts[event] /\ Extent(p) < n /\ AtLeast(p) = Extent(p) + 1
      BY <1>2, <1>3, <1>10, <2>2 DEF CountFits, AtLeast
    <3> QED BY <1>1, <1>3, <1>4, <2>1, <3>1 DEF ExtentAfter
  <2>3. CASE ~p.more
    <3>1. extents'[event] = Extent(p)
      BY <1>1, <1>2, <1>3, <1>4, <2>3 DEF CountFits, AtLeast, ExtentAfter
    <3>2. n \in counts[event] => n = Extent(p)
      BY <1>2, <2>3 DEF CountFits
    <3> QED BY <1>3, <2>3, <3>1, <3>2
  <2> QED BY <2>2, <2>3
<1>11. ASSUME NEW e \in Checkpoints
       PROVE  /\ \A s, r \in slots'[e] : Same(s, r)
              /\ \A s \in slots'[e] :
                   /\ s.at <= extents'[e]
                   /\ [at |-> s.at, id |-> s.row.id] \in ids'[e]
                   /\ s.row.id \in Pending[e] => s.row.availability = NotRepresented
              /\ \A n \in counts'[e] : n = extents'[e]
  <2>1. CASE e = event
    BY <1>8, <1>9, <1>10, <2>1
  <2>2. CASE e # event
    BY <1>3, <2>2 DEF RowsAgree
  <2> QED BY <2>1, <2>2
<1> QED BY <1>11 DEF RowsAgree

\* A window that fits agrees with the windows before it.
LEMMA WindowKeepsCells ==
  ASSUME IInv, CellsAgree, event \in Checkpoints, NEW w \in Windows, WindowFits(w),
         cells' = [cells EXCEPT ![event] = @ \cup
           {[at |-> w.offset + j - 1, holds |-> w.cells[j]] : j \in DOMAIN w.cells}]
  PROVE  CellsAgree'
<1> DEFINE N == {[at |-> w.offset + j - 1, holds |-> w.cells[j]] : j \in DOMAIN w.cells}
<1>1. /\ cells'[event] = cells[event] \cup N
      /\ \A e \in Checkpoints : e # event => cells'[e] = cells[e]
  BY DEF IInv, TypeOK
<1>2. \A c \in cells[event] : c = [at |-> c.at, holds |-> c.holds]
  BY DEF IInv, TypeOK
<1>3. w.offset \in Nat /\ \A j \in DOMAIN w.cells : j \in Nat
  <2>1. w \in [offset : 0..Size, cells : UNION {[1..n -> Storage] : n \in 1..Size}]
    BY DEF Windows
  <2>2. PICK n \in 1..Size : w.cells \in [1..n -> Storage]
    BY <2>1
  <2> QED BY <2>1, <2>2, RecordingAssumption
<1>4. ASSUME NEW c \in cells[event], NEW d \in N, c.at = d.at PROVE c = d
  <2>1. PICK j \in DOMAIN w.cells : d = [at |-> w.offset + j - 1, holds |-> w.cells[j]]
    OBVIOUS
  <2> QED BY <1>2, <1>4, <2>1 DEF WindowFits
<1>5. ASSUME NEW c \in N, NEW d \in N, c.at = d.at PROVE c = d
  <2>1. PICK j \in DOMAIN w.cells : c = [at |-> w.offset + j - 1, holds |-> w.cells[j]]
    OBVIOUS
  <2>2. PICK k \in DOMAIN w.cells : d = [at |-> w.offset + k - 1, holds |-> w.cells[k]]
    OBVIOUS
  <2>3. j = k
    BY <1>3, <1>5, <2>1, <2>2
  <2> QED BY <2>1, <2>2, <2>3
<1>6. ASSUME NEW e \in Checkpoints, NEW c \in cells'[e], NEW d \in cells'[e], c.at = d.at
      PROVE  c = d
  <2> HIDE DEF N
  <2>1. CASE e # event
    BY <1>1, <1>6, <2>1 DEF CellsAgree
  <2>2. CASE e = event /\ c \in cells[event] /\ d \in cells[event]
    BY <1>6, <2>2 DEF CellsAgree
  <2>3. CASE e = event /\ (c \in N \/ d \in N)
    BY <1>1, <1>4, <1>5, <1>6, <2>3
  <2> QED BY <1>1, <2>1, <2>2, <2>3
<1> QED BY <1>6 DEF CellsAgree

\* Only pages and windows add to the maps.
LEMMA StepKeepsMaps ==
  IInv /\ RowsAgree /\ CellsAgree /\ [Next]_vars => RowsAgree' /\ CellsAgree'
<1> SUFFICES ASSUME IInv, RowsAgree, CellsAgree, [Next]_vars PROVE RowsAgree' /\ CellsAgree'
  OBVIOUS
<1>1. UNCHANGED <<slots, ids, counts, extents>> => RowsAgree'
  BY DEF RowsAgree
<1>2. UNCHANGED cells => CellsAgree'
  BY DEF CellsAgree
<1>3. CASE InspectValues
  <2>1. event \in Checkpoints /\ UNCHANGED cells
    BY <1>3 DEF IInv, InspectValues, AnchorIsHere, Reading
  <2>2. RowsAgree'
    BY <1>3, <2>1, PageKeepsRows DEF InspectValues
  <2> QED BY <1>2, <2>1, <2>2
<1>4. CASE ReadMemory
  <2>1. event \in Checkpoints /\ UNCHANGED <<slots, ids, counts, extents>>
    BY <1>4 DEF IInv, ReadMemory, AnchorIsHere, Reading
  <2>2. CellsAgree'
    BY <1>4, <2>1, WindowKeepsCells DEF ReadMemory
  <2> QED BY <1>1, <2>1, <2>2
<1>5. CASE UNCHANGED shown
  BY <1>1, <1>2, <1>5 DEF shown
<1>6. InspectValues \/ ReadMemory \/ UNCHANGED shown
  BY DEF Next, Step, Seek, Arrive, GetState, Discover, Refusal, Terminate, Finish, Refuse, vars
<1> QED BY <1>3, <1>4, <1>5, <1>6

\* What was accepted at a checkpoint is true of some recording exactly if it claims no
\* more rows than there are values, whatever the lines and the bound on positions: the
\* maps of ldsProtocol are enough to refuse the first page or window that contradicts
\* the earlier ones, at whatever visit of the checkpoint it comes, and not to see that
\* a table is longer than there are values for it.
THEOREM OneRecordingAlwaysExplains == Spec => []OneRecordingExplains
<1>1. Init => RowsAgree /\ CellsAgree
  BY DEF Init, RowsAgree, CellsAgree
<1>2. IInv /\ RowsAgree /\ CellsAgree => OneRecordingExplains
  BY RowsExtend, TableIsLong, CellsExtend DEF IInv, OneRecordingExplains
<1> QED BY <1>1, <1>2, StepKeepsMaps, TranscriptInvariant, PTL DEF Spec

=============================================================================
