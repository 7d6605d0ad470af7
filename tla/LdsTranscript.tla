------------------------------ MODULE LdsTranscript -----------------------------
(***************************************************************************)
(* The reader of a V22 transcript (ldsProtocol,                             *)
(* src/content/physical-lds-debug-v22-protocol.ts): the recorded requests   *)
(* and responses are read in order, each line either fits what the lines    *)
(* before it said or the whole recording is refused.  Whoever wrote the     *)
(* file is not trusted: a line may claim anything.  A revision is kept      *)
(* relative to the previous one, and the header of a line that fits is the  *)
(* one its operation asks for: a fresh request id, echoed; the revision of  *)
(* the previous response expected, and advanced by one exactly by step, seek*)
(* and terminate; the state that goes with the event.  Any other header is  *)
(* a reason to Refuse.  A Map of the code is the set of its entries: same   *)
(* is checked before every set, so setting an entry adds it.                *)
(***************************************************************************)
EXTENDS LdsRecording, FiniteSetsExt

CONSTANTS MaxValueRows, MaxMemoryCells    \* L.valueRows, L.memoryCells

ASSUME LimitsAssumption == MaxValueRows \in Nat /\ MaxMemoryCells \in Nat

VARIABLES
  phase,        \* of the reader: reading, terminated (previous.state), accepted, refused
  event,        \* previous.cursor.event_sequence
  anchored,     \* currentRaw is not null
  completed,    \* the sentinel has been reached
  slots, ids,   \* the rows of a checkpoint by position, and positions by value
  counts,       \* {n} once a last page said that its table has n rows
  extents,      \* the rows it must have at least
  cells,        \* the bytes shown of its allocation
  valueRows, memoryCells

shown == <<slots, ids, counts, extents, cells>>
vars == <<phase, event, anchored, completed, shown, valueRows, memoryCells>>

TypeOK ==
  /\ phase \in {"reading", "terminated", "accepted", "refused"}
  /\ event \in Cursors
  /\ anchored \in BOOLEAN /\ completed \in BOOLEAN
  /\ slots \in [Checkpoints -> SUBSET [at : 1..LastExtent, row : Rows]]
  /\ ids \in [Checkpoints -> SUBSET [at : 1..LastExtent, id : SSAValues]]
  /\ counts \in [Checkpoints -> SUBSET (0..LastExtent)]
  /\ extents \in [Checkpoints -> 0..LastExtent]
  /\ cells \in [Checkpoints -> SUBSET [at : 0..Size-1, holds : Storage]]
  /\ valueRows \in 0..MaxValueRows /\ memoryCells \in 0..MaxMemoryCells

\* The first line is a successful discovery at event 0.
Init ==
  /\ phase = "reading"
  /\ event = 0
  /\ anchored = FALSE /\ completed = FALSE
  /\ slots = [e \in Checkpoints |-> {}] /\ ids = [e \in Checkpoints |-> {}]
  /\ counts = [e \in Checkpoints |-> {}] /\ extents = [e \in Checkpoints |-> 0]
  /\ cells = [e \in Checkpoints |-> {}]
  /\ valueRows = 0 /\ memoryCells = 0

Reading == phase = "reading"
Least(a, b) == IF a < b THEN a ELSE b
Indexed(e) == Least(e, End - 1)
Distance(a, b) == IF a < b THEN b - a ELSE a - b

\* A snapshot is captured where the index has a checkpoint, and only there.
SnapshotFits(at, captured) == captured <=> at \in Checkpoints

ControlFits(at, advanced, captured) ==
  /\ advanced = Distance(Indexed(event), Indexed(at))
  /\ SnapshotFits(at, captured)

\* A step past an end of the recording stops there.
StepTarget(forward, count) ==
  IF forward THEN Least(End, event + count)
  ELSE IF count < event THEN event - count ELSE 0

StepFits(forward, count, at, advanced, captured) ==
  at = StepTarget(forward, count) /\ ControlFits(at, advanced, captured)

SeekFits(own, target, at, advanced, captured) ==
  own /\ at = target /\ ControlFits(at, advanced, captured)

Arrive(at, captured) ==
  /\ event' = at
  /\ anchored' = captured
  /\ completed' = (completed \/ at = End)
  /\ UNCHANGED <<phase, shown, valueRows, memoryCells>>

Step ==
  /\ Reading
  /\ \E forward \in BOOLEAN, count \in 1..End+1, at \in Cursors,
        advanced \in 0..End-1, captured \in BOOLEAN :
       StepFits(forward, count, at, advanced, captured) /\ Arrive(at, captured)

Seek ==
  /\ Reading
  /\ \E own \in BOOLEAN, target, at \in Cursors, advanced \in 0..End-1, captured \in BOOLEAN :
       SeekFits(own, target, at, advanced, captured) /\ Arrive(at, captured)

GetState ==
  /\ Reading
  /\ \E captured \in BOOLEAN : SnapshotFits(event, captured) /\ anchored' = captured
  /\ UNCHANGED <<phase, event, completed, shown, valueRows, memoryCells>>

\* Faulty variant: the last page has to show more rows than were promised.
CountFitsLonger(p) ==
  /\ p.more \/ Extent(p) > extents[event]
  /\ \A n \in counts[event] : IF p.more THEN Extent(p) < n ELSE Extent(p) = n

\* A page extends what the pages of its checkpoint have shown, or repeats it.
CountFits(p) ==
  /\ p.more \/ Extent(p) >= extents[event]
  /\ \A n \in counts[event] : IF p.more THEN Extent(p) < n ELSE Extent(p) = n

\* Faulty variant: a value is not held to the position it was shown at.
RowFitsAnyPosition(at, row) == \A s \in slots[event] : s.at = at => s.row = row

RowFits(at, row) ==
  /\ \A s \in slots[event] : s.at = at => s.row = row
  /\ \A i \in ids[event] : i.id = row.id => i.at = at

PageFits(p) ==
  /\ valueRows + Len(p.rows) <= MaxValueRows
  /\ CountFits(p)
  /\ \A j \in DOMAIN p.rows : RowFits(p.start + j, p.rows[j])

\* Faulty variant: the row that a next cursor promises is not counted.
AtLeastShown(p) == Extent(p)

AtLeast(p) == Extent(p) + (IF p.more THEN 1 ELSE 0)
ExtentAfter(p) == IF extents[event] < AtLeast(p) THEN AtLeast(p) ELSE extents[event]

InspectValues ==
  /\ Reading /\ anchored
  /\ \E p \in Pages[event] :
       /\ PageFits(p)
       /\ slots' = [slots EXCEPT ![event] = @ \cup
            {[at |-> p.start + j, row |-> p.rows[j]] : j \in DOMAIN p.rows}]
       /\ ids' = [ids EXCEPT ![event] = @ \cup
            {[at |-> p.start + j, id |-> p.rows[j].id] : j \in DOMAIN p.rows}]
       /\ counts' = [counts EXCEPT ![event] = IF p.more THEN @ ELSE @ \cup {Extent(p)}]
       /\ extents' = [extents EXCEPT ![event] = ExtentAfter(p)]
       /\ valueRows' = valueRows + Len(p.rows)
  /\ UNCHANGED <<phase, event, anchored, completed, cells, memoryCells>>

WindowFits(w) ==
  /\ event >= FirstCaptured
  /\ memoryCells + Len(w.cells) <= MaxMemoryCells
  /\ \A j \in DOMAIN w.cells : \A c \in cells[event] :
       c.at = w.offset + j - 1 => c.holds = w.cells[j]

ReadMemory ==
  /\ Reading /\ anchored
  /\ \E w \in Windows :
       /\ WindowFits(w)
       /\ cells' = [cells EXCEPT ![event] = @ \cup
            {[at |-> w.offset + j - 1, holds |-> w.cells[j]] : j \in DOMAIN w.cells}]
       /\ memoryCells' = memoryCells + Len(w.cells)
  /\ UNCHANGED <<phase, event, anchored, completed,
                 slots, ids, counts, extents, valueRows>>

\* A recorded refusal leaves the session as it was.  A request may expect a wrong revision, seek to a cursor
\* that is not of this session or that is beyond its end, read outside what was
\* captured, or ask for values of another lane, of another kind, or of a later page.
Operations == {"step", "seek", "get_state", "discover_capabilities", "terminate",
               "resolve_source", "read_memory", "inspect_values"}
Faults == {"none", "foreign", "beyond", "outside", "unsupported", "later"}
Queries == [operation : Operations, current : BOOLEAN, fault : Faults]

ErrorFits(q, code) ==
  /\ code = "stale_revision" <=> ~q.current
  /\ code = "invalid_cursor" => q.operation = "seek" /\ q.fault \in {"foreign", "beyond"}

UnavailableFits(q, reason) ==
  /\ q.current
  /\ \/ q.operation = "resolve_source" /\ reason = "requires_authenticated_map"
     \/ /\ q.operation = "read_memory" /\ reason = "outside_capture_scope"
        /\ ~anchored \/ q.fault = "outside" \/ event < FirstCaptured
     \/ /\ q.operation = "inspect_values" /\ reason = "outside_capture_scope"
        /\ ~anchored \/ q.fault \in {"outside", "later"}
     \/ /\ q.operation = "inspect_values" /\ reason = "not_exposed_by_backend"
        /\ anchored /\ q.fault = "unsupported"

Codes == {"stale_revision", "invalid_cursor", "resource_limit"}
Reasons == {"requires_authenticated_map", "outside_capture_scope", "not_exposed_by_backend"}
Refusable ==
  {q \in Queries : \/ \E code \in Codes : ErrorFits(q, code)
                   \/ \E reason \in Reasons : UnavailableFits(q, reason)}

Refusal == Reading /\ Refusable # {} /\ UNCHANGED vars
Discover == Reading /\ UNCHANGED vars

Terminate ==
  /\ Reading
  /\ phase' = "terminated" /\ anchored' = FALSE
  /\ UNCHANGED <<event, completed, shown, valueRows, memoryCells>>

\* Only the last line terminates.
Finish ==
  /\ phase = "terminated"
  /\ phase' = IF completed THEN "accepted" ELSE "refused"
  /\ UNCHANGED <<event, anchored, completed, shown, valueRows, memoryCells>>

\* Whatever line does not fit, one after the terminating line included.
Refuse ==
  /\ phase \in {"reading", "terminated"}
  /\ phase' = "refused"
  /\ UNCHANGED <<event, anchored, completed, shown, valueRows, memoryCells>>

Next ==
  \/ Step \/ Seek \/ GetState \/ InspectValues \/ ReadMemory
  \/ Discover \/ Refusal \/ Terminate \/ Finish \/ Refuse

Spec == Init /\ [][Next]_vars

-----------------------------------------------------------------------------
\* Properties

\* The tables, and the images, that show every page and window read so far.
Known(e, t) ==
  /\ \A s \in slots[e] : s.at \in DOMAIN t /\ t[s.at] = s.row
  /\ \A n \in counts[e] : Len(t) = n
  /\ extents[e] <= Len(t)

KnownImage(e, m) == \A c \in cells[e] : m[c.at] = c.holds

tables == [e \in Checkpoints |-> {t \in Tables[e] : Known(e, t)}]
images == [e \in Checkpoints |-> {m \in Images : KnownImage(e, m)}]

Recorder == INSTANCE LdsRecorder WITH cursor <- event

\* The reader promises what LdsRecorder says: a page or a window that is accepted
\* leaves exactly the recordings that show it, and what was read at a checkpoint
\* is still held against it after the cursor has gone away and come back.
ImplementsRecorder == Recorder!Spec

\* Pages that arrive in any order, at any visit, never contradict each other unseen, and
\* windows neither: what was accepted at a checkpoint is true of some recording, unless
\* it claims more rows than there are values.  That alone the reader does not see: a
\* position is bounded as a number, and then no table at all is as long as claimed.
OneRecordingExplains ==
  \A e \in Checkpoints :
    /\ tables[e] # {} <=> extents[e] <= Cardinality(SSAValues)
    /\ images[e] # {}

\* What is said truly of a recording that explains the lines so far is never refused:
\* its steps, which stop at both ends, its pages and its windows, repeated or new,
\* and its refusals of a cursor past the sentinel or of memory not yet captured.
HonestLinesFit ==
  Reading =>
    /\ \A forward \in BOOLEAN, count \in 1..End+1 :
         \E at \in Cursors :
           /\ at = (IF forward THEN Max({e \in Cursors : e <= event + count})
                    ELSE Min({e \in Cursors : e + count >= event}))
           /\ \E advanced \in 0..End-1 :
                StepFits(forward, count, at, advanced, at \in Checkpoints)
    /\ event \in Checkpoints =>
         /\ anchored
         /\ \A t \in tables[event] : \A p \in Pages[event] :
              ShowsPage(t, p) /\ valueRows + Len(p.rows) <= MaxValueRows => PageFits(p)
         /\ event >= FirstCaptured =>
              \A m \in images[event] : \A w \in Windows :
                ShowsWindow(m, w) /\ memoryCells + Len(w.cells) <= MaxMemoryCells => WindowFits(w)
    /\ \A q \in Queries :
         /\ q.current /\ q.operation = "seek" /\ q.fault = "beyond" => ErrorFits(q, "invalid_cursor")
         /\ q.current /\ q.operation = "read_memory" /\ event < FirstCaptured =>
              UnavailableFits(q, "outside_capture_scope")

=============================================================================
