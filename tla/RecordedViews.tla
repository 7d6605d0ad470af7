----------------------------- MODULE RecordedViews ------------------------------
(***************************************************************************)
(* What the page of RecordedImport shows of an imported recording:          *)
(* ImportedViews and CheckpointViews of RecordedResourceImport.tsx, and the *)
(* BookmarkControls of ResourceSelectionBookmark.tsx with the checks of     *)
(* resource-selection-bookmark.ts.                                          *)
(*                                                                         *)
(* A request of a recording is named by its id, as a bookmark names it, so  *)
(* two recordings may have the same ids; 0 stands for null.  A handler acts *)
(* on the selection it was drawn with.  A bookmark that was read sets a     *)
(* selection that is drawn later, and an event may come first.              *)
(***************************************************************************)
EXTENDS RecordedImport, FiniteSets

CONSTANTS
  Points,    \* Points[r]: the ids of the checkpoints of recording r
  Pages,     \* Pages[r][c]: the ids of the resource pages retained at c
  Memories,  \* Memories[r][c]: the ids of the memory windows retained at c
  MaxUrls    \* bound: object URLs at a time

Ids(r) == Points[r] \cup UNION {Pages[r][c] \cup Memories[r][c] : c \in Points[r]}

ASSUME ViewAssumption ==
  /\ MaxUrls \in Nat
  /\ \A r \in Importable :
       /\ Points[r] # {} /\ IsFiniteSet(Points[r])
       /\ Ids(r) \subseteq Nat \ {0}
       /\ \A c \in Points[r] : IsFiniteSet(Pages[r][c]) /\ IsFiniteSet(Memories[r][c])
       /\ \A c, d \in Points[r] : c # d => Memories[r][c] \cap Memories[r][d] = {}

VARIABLES
  selection,  \* useState(viewSelection)
  seen,       \* the selection as drawn: what handlers close over
  restored,   \* restoreEpoch has advanced and that is not drawn yet
  pointer,    \* useState(pointerSelection) of the CheckpointViews mounted
  reading,    \* BookmarkControls awaits its FileReader
  urls,       \* object URLs that exist
  timers,     \* timers to revoke one, named by the URL they were set for
  download    \* download.current, 0 for null

views == <<selection, seen, restored, pointer, reading, urls, timers, download>>
viewVars == <<importVars, views>>

NoBaseline == [point |-> 0, memory |-> 0]
NoSelection == [point |-> 0, page |-> 0, memory |-> 0, baseline |-> NoBaseline]
NoPointer == [on |-> FALSE, windows |-> {}, memory |-> 0]

ViewInit ==
  /\ ImportInit
  /\ selection = NoSelection /\ seen = NoSelection /\ restored = FALSE /\ pointer = NoPointer
  /\ reading = FALSE
  /\ urls = {} /\ timers = {} /\ download = 0

Viewing == mounted /\ drawn.result # NoPair
r == drawn.result
Windows == Memories[r][seen.point]

First(ids) == IF ids = {} THEN 0 ELSE CHOOSE i \in ids : \A j \in ids : i <= j

Initial(rec, c) ==
  [point |-> c, page |-> First(Pages[rec][c]), memory |-> First(Memories[rec][c]), baseline |-> NoBaseline]

\* resolve: what serialize and restore of a bookmark demand of a selection.
Resolves(rec, s) ==
  /\ s.point \in Points[rec]
  /\ IF Pages[rec][s.point] = {} THEN s.page = 0 ELSE s.page \in Pages[rec][s.point]
  /\ IF Memories[rec][s.point] = {} THEN s.memory = 0 ELSE s.memory \in Memories[rec][s.point]
  /\ s.baseline # NoBaseline =>
       /\ s.memory # 0 /\ s.baseline.memory # s.memory
       /\ s.baseline.point \in Points[rec]
       /\ s.baseline.memory \in Memories[rec][s.baseline.point]

Selections(rec) ==
  [point : Ids(rec), page : Ids(rec) \cup {0}, memory : Ids(rec) \cup {0},
   baseline : {NoBaseline} \cup [point : Ids(rec), memory : Ids(rec)]]

\* Faulty variant: forgetting the URL that is still there.
KeepUrl == timers' = timers /\ urls' = urls /\ download' = 0

\* revokeDownload.
Revoke == timers' = timers \ {download} /\ urls' = urls \ {download} /\ download' = 0

\* The views are unmounted, with the cleanup of BookmarkControls.
NoViews ==
  /\ selection' = NoSelection /\ seen' = NoSelection /\ restored' = FALSE /\ pointer' = NoPointer
  /\ reading' = FALSE
  /\ Revoke

(***************************************************************************)
(* Drawing the views.                                                       *)
(***************************************************************************)
\* Faulty variant: a key without restoreEpoch.
RemountByPoint(s) == s.point # seen.point

\* The key of CheckpointViews changes: its state starts afresh.
Remount(s) == restored \/ s.point # seen.point

Drawn(s, p) ==
  /\ selection' = s /\ seen' = s /\ restored' = FALSE
  /\ pointer' = IF Remount(s) THEN NoPointer ELSE p

\* An event handler of the views.
Act(s, p) == Viewing /\ Drawn(s, p) /\ UNCHANGED <<importVars, reading, urls, timers, download>>

DrawRestored ==
  /\ Viewing /\ restored
  /\ Drawn(selection, pointer)
  /\ UNCHANGED <<importVars, reading, urls, timers, download>>

(***************************************************************************)
(* ImportedViews and CheckpointViews.                                       *)
(***************************************************************************)
\* The window a pointer leads to, 0 if there is none or no single one.
Target(p) ==
  IF p.memory # 0 THEN p.memory
  ELSE IF Cardinality(p.windows) = 1 THEN CHOOSE m \in p.windows : TRUE ELSE 0

\* The window in the select box; its bytes are on the page unless a pointer
\* leads to no single window.
Listed == IF pointer.on /\ Target(pointer) # 0 THEN Target(pointer) ELSE seen.memory
Displayed == IF pointer.on THEN Target(pointer) ELSE seen.memory

\* Faulty variant: keeping the baseline.
ChosenKeepingBaseline(m) == [seen EXCEPT !.memory = m]

\* chooseMemory.
Chosen(m) == [seen EXCEPT !.memory = m, !.baseline = IF m = seen.memory THEN @ ELSE NoBaseline]

\* A select element reports a change only.
SelectPoint(c) == c \in Points[r] \ {seen.point} /\ Act(Initial(r, c), pointer)

SelectPage(p) == p \in Pages[r][seen.point] /\ Act([seen EXCEPT !.page = p], pointer)

SelectMemory(m) == m \in Windows /\ Act(Chosen(m), NoPointer)

\* selectPointer, with the windows that retain the byte the value points to.
SelectPointer(windows, m) ==
  LET p == [on |-> TRUE, windows |-> windows, memory |-> m] IN
  /\ windows \subseteq Windows
  /\ m # 0 => pointer.on /\ Target(pointer) = 0 /\ windows = pointer.windows /\ m \in windows
  /\ Act(IF Target(p) = 0 THEN seen ELSE Chosen(Target(p)), p)

ClearPointer ==
  /\ pointer.on
  /\ Act(IF Listed = 0 THEN seen ELSE Chosen(Listed), NoPointer)

\* Any window of the recording but the one displayed.
SelectBaseline(b) ==
  /\ Displayed # 0
  /\ b # NoBaseline => b.point \in Points[r] /\ b.memory \in Memories[r][b.point] /\ b.memory # Displayed
  /\ Act([seen EXCEPT !.baseline = b], pointer)

(***************************************************************************)
(* BookmarkControls.                                                        *)
(***************************************************************************)
\* Reading starts, or is given up for another file, a retry or for good: the
\* reader is aborted and only its own activation can have set anything.
ReadBookmark(on) ==
  /\ Viewing
  /\ ~on \/ ~(reading \/ restored)
  /\ reading' = on
  /\ UNCHANGED <<importVars, selection, seen, restored, pointer, urls, timers, download>>

\* A bookmark that resolves against the recording is applied at once; any other
\* is refused, which ReadBookmark(FALSE) is.
Restore ==
  /\ Viewing /\ reading
  /\ reading' = FALSE /\ restored' = TRUE
  /\ \E s \in Selections(r) : Resolves(r, s) /\ selection' = s
  /\ UNCHANGED <<importVars, seen, pointer, urls, timers, download>>

\* link.click may throw: the new URL is revoked, the old one is gone already.
Save(clicked) ==
  /\ Viewing /\ ~reading /\ ~restored
  /\ Resolves(r, seen)
  /\ \E u \in 1..MaxUrls \ urls :
       IF clicked THEN
         /\ urls' = (urls \ {download}) \cup {u}
         /\ timers' = (timers \ {download}) \cup {u}
         /\ download' = u
       ELSE Revoke
  /\ UNCHANGED <<importVars, selection, seen, restored, pointer, reading>>

\* The timer of u: it revokes whatever download.current holds by then.
Expire(u) ==
  /\ u \in timers
  /\ timers' = timers \ {u, download} /\ urls' = urls \ {download} /\ download' = 0
  /\ UNCHANGED <<importVars, selection, seen, restored, pointer, reading>>

(***************************************************************************)
(* The page.                                                                *)
(***************************************************************************)
OpenViews ==
  IF result = NoPair THEN UNCHANGED views
  ELSE /\ selection' = Initial(result, First(Points[result]))
       /\ seen' = selection' /\ restored' = FALSE /\ pointer' = NoPointer
       /\ reading' = FALSE
       /\ UNCHANGED <<urls, timers, download>>

ViewEvent ==
  \/ \E i \in IF Viewing THEN Ids(r) ELSE {} : SelectPoint(i) \/ SelectPage(i) \/ SelectMemory(i)
  \/ \E windows \in IF Viewing THEN SUBSET Windows ELSE {} :
       \E m \in windows \cup {0} : SelectPointer(windows, m)
  \/ ClearPointer
  \/ \E b \in IF Viewing THEN {NoBaseline} \cup [point : Ids(r), memory : Ids(r)] ELSE {} : SelectBaseline(b)
  \/ DrawRestored
  \/ \E on \in BOOLEAN : ReadBookmark(on) \/ Save(on)
  \/ Restore
  \/ \E u \in 1..MaxUrls : Expire(u)

ViewNext ==
  \/ PageEvent /\ NoViews
  \/ (Enter \/ Activity) /\ UNCHANGED views
  \/ Draw /\ OpenViews
  \/ ViewEvent

ViewSpec == ViewInit /\ [][ViewNext]_viewVars

ViewFairness == \A s \in Slots :
  WF_viewVars((Loaded(s) \/ ReadRefused(s) \/ Hashed(s)) /\ UNCHANGED views)

ViewFairSpec == ViewSpec /\ ViewFairness

(***************************************************************************)
(* Properties.                                                              *)
(***************************************************************************)
\* Whatever is selected, by hand, by a pointer, by a bookmark or by the import
\* of another recording with the same ids, is retained in the recording on the
\* page, at the checkpoint shown, with a baseline other than the window it is
\* compared with: so it can be saved, and reopening it is never refused.
SelectionResolves == Viewing => Resolves(r, selection) /\ Resolves(r, seen)

\* The bytes on the page are those of the window selected: the window a pointer
\* leads to is the one a bookmark saves and a baseline is compared with, also
\* when a bookmark is restored over a pointer.
DisplayedIsSelected == Viewing =>
  /\ Displayed # 0 => Displayed = seen.memory /\ Displayed \in Windows
  /\ pointer.windows \subseteq Windows /\ pointer.memory \in pointer.windows \cup {0}
  /\ restored \/ selection = seen

\* One object URL at most, with its timer armed, and it is the one of the last
\* download: none is leaked by a second save, a failed one or an unmount, and
\* none is revoked by the timer of another.
DownloadIsTracked == urls = {download} \ {0} /\ timers = urls

ViewTypeOK ==
  /\ {selection, seen} \subseteq [point : Nat, page : Nat, memory : Nat,
                                 baseline : [point : Nat, memory : Nat]]
  /\ pointer \in [on : BOOLEAN, windows : SUBSET Nat, memory : Nat]
  /\ restored \in BOOLEAN /\ reading \in BOOLEAN
  /\ download \in 0..MaxUrls

\* The inductive invariant behind all of them: the page and its views together.
ViewInv ==
  /\ ImportInv
  /\ ViewTypeOK
  /\ SelectionResolves
  /\ DisplayedIsSelected
  /\ DownloadIsTracked

=============================================================================
