---------------------------- MODULE LearnerProgress -----------------------------
(***************************************************************************)
(* src/hooks/useProgress.ts: the lessons a learner completed, in the state   *)
(* of the page and in one entry of local storage, which replaces an entry of *)
(* version 1.                                                               *)
(*                                                                         *)
(* A page runs alone in its tab, but another tab, a full disk or the end of  *)
(* the process may come between two calls of the storage; each call is a    *)
(* step.  What is prepared for the storage is `next', and `at' is the call  *)
(* that is next.  Whether a page may use the storage is settled when it is   *)
(* opened (a policy of the browser); whether there is room may change.       *)
(***************************************************************************)
EXTENDS FiniteSets

CONSTANTS
  Tabs,
  Lessons,  \* names a stored entry may hold
  Valid     \* lessons of the curriculum

ASSUME ProgressAssumption == Valid \subseteq Lessons

\* An entry holds a list, is no JSON, is JSON of another shape, or is missing.  It is
\* never the empty string, which nothing writes: both entries are JSON.
Entry(s) == [is |-> "list", ids |-> s]
Missing == [is |-> "missing", ids |-> {}]
Broken == [is |-> "broken", ids |-> {}]
Foreign == [is |-> "foreign", ids |-> {}]
Entries == {Entry(s) : s \in SUBSET Lessons} \cup {Missing, Broken, Foreign}

VARIABLES
  current,    \* the entry under STORAGE_KEY
  legacy,     \* the entry under LEGACY_STORAGE_KEY
  room,       \* setItem succeeds
  page,       \* per tab: at, the next call or "idle" or "closed"; allowed; completed
  saved,      \* history: per tab, its last write was not refused
  withdrawn   \* history: lessons the learner took back since they were stored

vars == <<current, legacy, room, page, saved, withdrawn>>

Closed == [at |-> "closed", allowed |-> TRUE, completed |-> {}]

Init ==
  /\ current \in Entries /\ legacy \in Entries
  /\ room \in BOOLEAN
  /\ page = [t \in Tabs |-> Closed]
  /\ saved = [t \in Tabs |-> TRUE]
  /\ withdrawn = {}

\* What loadProgress makes of the two entries; JSON.parse throws on a broken one.
Stored == IF current = Missing THEN legacy.ids ELSE current.ids

Goes(t, at, completed) == page' = [page EXCEPT ![t].at = at, ![t].completed = completed]

(***************************************************************************)
(* loadProgress.                                                            *)
(***************************************************************************)
Open(t) ==
  /\ page[t].at = "closed"
  /\ \E allowed \in BOOLEAN :
       /\ page' = [page EXCEPT ![t] =
            [at |-> IF allowed /\ current = Missing THEN "readLegacy" ELSE "idle",
             allowed |-> allowed,
             completed |-> IF allowed THEN current.ids ELSE {}]]
       /\ saved' = [saved EXCEPT ![t] = allowed]
  /\ UNCHANGED <<current, legacy, room, withdrawn>>

\* Faulty variant: an entry of version 1 is not looked for.
ReadNothing(t) ==
  /\ page[t].at = "readLegacy" /\ Goes(t, "idle", {})
  /\ UNCHANGED <<current, legacy, room, saved, withdrawn>>

\* The second getItem; what can be parsed is persisted as version 2.
ReadLegacy(t) ==
  /\ page[t].at = "readLegacy"
  /\ Goes(t, IF legacy \in {Missing, Broken} THEN "idle" ELSE "setItem", legacy.ids)
  /\ UNCHANGED <<current, legacy, room, saved, withdrawn>>

(***************************************************************************)
(* persist.                                                                 *)
(***************************************************************************)
\* Faulty variant: a write that is refused does not keep the old entry.
SetItemRemovesFirst(t) ==
  /\ page[t].at = "setItem"
  /\ IF page[t].allowed /\ room
     THEN /\ current' = Entry(page[t].completed)
          /\ Goes(t, "removeItem", page[t].completed)
          /\ withdrawn' = withdrawn \ page[t].completed
     ELSE Goes(t, "idle", page[t].completed) /\ UNCHANGED <<current, withdrawn>>
  /\ legacy' = IF page[t].allowed THEN Missing ELSE legacy
  /\ saved' = [saved EXCEPT ![t] = page[t].allowed /\ room]
  /\ UNCHANGED room

SetItem(t) ==
  /\ page[t].at = "setItem"
  /\ IF page[t].allowed /\ room
     THEN /\ current' = Entry(page[t].completed)
          /\ Goes(t, "removeItem", page[t].completed)
          /\ withdrawn' = withdrawn \ page[t].completed
     ELSE Goes(t, "idle", page[t].completed) /\ UNCHANGED <<current, withdrawn>>
  /\ saved' = [saved EXCEPT ![t] = page[t].allowed /\ room]
  /\ UNCHANGED <<legacy, room>>

RemoveItem(t) ==
  /\ page[t].at = "removeItem"
  /\ legacy' = Missing
  /\ Goes(t, "idle", page[t].completed)
  /\ UNCHANGED <<current, room, saved, withdrawn>>

(***************************************************************************)
(* useProgress.                                                             *)
(***************************************************************************)
Toggle(t, l) ==
  /\ page[t].at = "idle" /\ l \in Valid
  /\ LET done == l \in page[t].completed IN
     /\ Goes(t, "setItem", IF done THEN page[t].completed \ {l} ELSE page[t].completed \cup {l})
     /\ withdrawn' = IF done THEN withdrawn \cup {l} ELSE withdrawn
  /\ UNCHANGED <<current, legacy, room, saved>>

\* The effect of a Sidebar that was mounted: in the page, or in the drawer.
Prune(t) ==
  /\ page[t].at = "idle" /\ ~(page[t].completed \subseteq Valid)
  /\ Goes(t, "setItem", page[t].completed \cap Valid)
  /\ UNCHANGED <<current, legacy, room, saved, withdrawn>>

\* The tab is closed, reloaded or killed, at any point.
Close(t) ==
  /\ page[t].at # "closed"
  /\ page' = [page EXCEPT ![t] = Closed]
  /\ saved' = [saved EXCEPT ![t] = TRUE]
  /\ UNCHANGED <<current, legacy, room, withdrawn>>

\* External: the quota.
RoomChanges == room' = ~room /\ UNCHANGED <<current, legacy, page, saved, withdrawn>>

Next ==
  \/ \E t \in Tabs :
       \/ Open(t) \/ ReadLegacy(t) \/ SetItem(t) \/ RemoveItem(t)
       \/ \E l \in Lessons : Toggle(t, l)
       \/ Prune(t) \/ Close(t)
  \/ RoomChanges

Spec == Init /\ [][Next]_vars

(***************************************************************************)
(* Properties.                                                              *)
(***************************************************************************)
\* "persists completed lesson progress" (tests/smoke.test.tsx:383): a lesson that
\* is stored as completed leaves the storage only because the learner took it back
\* or because it left the curriculum; no full disk, crash or migration loses it.
ProgressPersists ==
  [][\A l \in Stored \cap Valid : l \notin Stored' => l \in withdrawn]_vars

\* What an idle page shows is what its reload will show, unless its last write
\* was refused.
ReloadShowsTheSame ==
  \A t \in Tabs :
    page[t].at = "idle" /\ saved[t] => page[t].completed = Stored

=============================================================================
