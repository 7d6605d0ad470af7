------------------------------ MODULE LdsRecording ------------------------------
(***************************************************************************)
(* What a V22 recording holds (src/content/physical-lds-debug-v22-index.ts, *)
(* physical-lds-debug-v22-views.ts): cursors from 0 to End, the sentinel    *)
(* after the last indexed event; at each event that is a checkpoint a table *)
(* of SSA rows, read page by page, and the bytes of an allocation, read     *)
(* window by window.                                                        *)
(***************************************************************************)
EXTENDS Naturals, Sequences, FiniteSets

CONSTANTS
  End,             \* index.records.length + 1
  Checkpoints,     \* events with a snapshot
  Pending,         \* Pending[e]: values whose read is pending at checkpoint e
  SSAValues,       \* value ordinals: 0..767 in the code
  Availabilities,  \* what a row may say of a value
  NotRepresented,  \* what it says of a pending one
  MaxPosition,     \* a cursor's position is at most this: 65536 in the code
  PageLimit,       \* rows of a page: 64
  Size,            \* bytes of the allocation
  FirstCaptured,   \* its first_checkpoint_sequence
  Storage          \* what a byte may hold, uninitialized ones included

ASSUME RecordingAssumption ==
  /\ End \in Nat \ {0}
  /\ Checkpoints \subseteq 1..End-1
  /\ Pending \in [Checkpoints -> SUBSET SSAValues]
  /\ NotRepresented \in Availabilities
  /\ MaxPosition \in Nat /\ PageLimit \in Nat \ {0}
  /\ Size \in Nat /\ FirstCaptured \in Checkpoints

\* There are finitely many values, and a byte holds something.
ASSUME ContentAssumption == IsFiniteSet(SSAValues) /\ Storage # {}

Cursors == 0..End
Rows == [id : SSAValues, availability : Availabilities]

\* A value has one row in a table, and a pending one is not represented in it.
TableOf(e, t) ==
  /\ \A i, j \in DOMAIN t : t[i].id = t[j].id => i = j
  /\ \A i \in DOMAIN t : t[i].id \in Pending[e] => t[i].availability = NotRepresented

\* Rows of different values are no more than there are values.
RowLists == UNION {[1..n -> Rows] : n \in 0..Cardinality(SSAValues)}

Tables == [e \in Checkpoints |-> {t \in RowLists : TableOf(e, t)}]

Extent(p) == p.start + Len(p.rows)

\* The end of the last page that starts at MaxPosition.
LastExtent == MaxPosition + PageLimit

\* A page starts after start rows; more says that it has a next cursor, which is its
\* extent.  Such a page is full, and no page is larger than its limit allows.
\* Positions are bounded as numbers, not by the values that there are.
Pages ==
  [e \in Checkpoints |->
     {p \in [start : 0..MaxPosition, rows : RowLists, more : BOOLEAN] :
        /\ TableOf(e, p.rows)
        /\ Len(p.rows) <= PageLimit
        /\ p.more => p.rows # <<>> /\ Extent(p) <= MaxPosition}]

Images == [0..Size-1 -> Storage]
Windows ==
  {w \in [offset : 0..Size, cells : UNION {[1..n -> Storage] : n \in 1..Size}] :
     w.offset + Len(w.cells) <= Size}

\* The page, or the window, is one of this table, or image.
ShowsPage(t, p) ==
  /\ p.more <=> Extent(p) < Len(t)
  /\ Extent(p) <= Len(t)
  /\ \A j \in DOMAIN p.rows : t[p.start + j] = p.rows[j]

ShowsWindow(m, w) == \A j \in DOMAIN w.cells : m[w.offset + j - 1] = w.cells[j]

=============================================================================
