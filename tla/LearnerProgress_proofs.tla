------------------------- MODULE LearnerProgress_proofs -------------------------
(***************************************************************************)
(* Theorems about LearnerProgress, for any curriculum and any entries found  *)
(* in the storage, while one tab at most is open: with two, the one opened   *)
(* earlier writes its older list over what the other stored.                 *)
(*                                                                         *)
(* A page that may use the storage knows every lesson stored there, but for  *)
(* those its learner took back (PageKnowsStored), from the migration of an   *)
(* entry of version 1 to a write after writes that were refused.             *)
(***************************************************************************)
EXTENDS LearnerProgress, TLAPS

OneTab == \A t, u \in Tabs : t = u

Phases == {"closed", "idle", "readLegacy", "setItem", "removeItem"}

ProgressTypeOK ==
  /\ page \in [Tabs -> [at : Phases, allowed : BOOLEAN, completed : SUBSET Lessons]]
  /\ saved \in [Tabs -> BOOLEAN]
  /\ current \in Entries /\ legacy \in Entries

\* Where a page is between two calls of the storage.
CallsInOrder == \A t \in Tabs :
  /\ page[t].at = "readLegacy" => page[t].allowed /\ current = Missing
  /\ page[t].at = "removeItem" => current = Entry(page[t].completed)

PageKnowsStored == \A t \in Tabs :
  page[t].at \in {"idle", "setItem"} /\ page[t].allowed =>
    Stored \cap Valid \subseteq page[t].completed \cup withdrawn

ProgressInv == ProgressTypeOK /\ CallsInOrder /\ PageKnowsStored /\ ReloadShowsTheSame

\* What is read of an entry, and that a list is an entry that is there.
LEMMA EntryFacts ==
  /\ \A e \in Entries : e.ids \in SUBSET Lessons
  /\ \A s \in SUBSET Lessons : Entry(s) \in Entries /\ Entry(s).ids = s
  /\ \A s : Entry(s) # Missing
  /\ Missing \in Entries /\ Missing.ids = {} /\ Broken.ids = {}
<1>1. \A s : Entry(s).is = "list" /\ Entry(s).ids = s
  BY DEF Entry
<1>2. Missing.is = "missing" /\ Missing.ids = {} /\ Broken.ids = {} /\ Foreign.ids = {}
  BY DEF Missing, Broken, Foreign
<1>3. \A s : Entry(s) # Missing
  BY <1>1, <1>2
<1> QED BY <1>1, <1>2, <1>3 DEF Entries

\* What a call leaves of the only page there is.
LEMMA GoesTo ==
  ASSUME ProgressTypeOK, OneTab, NEW t \in Tabs, NEW at \in Phases, NEW s \in SUBSET Lessons,
         Goes(t, at, s)
  PROVE  /\ page' \in [Tabs -> [at : Phases, allowed : BOOLEAN, completed : SUBSET Lessons]]
         /\ \A u \in Tabs : /\ u = t
                            /\ page'[u].at = at /\ page'[u].completed = s
                            /\ page'[u].allowed = page[u].allowed
BY DEF Goes, ProgressTypeOK, OneTab

\* Each call of the storage, and what comes between two of them.
LEMMA ProgressStep == ASSUME OneTab PROVE ProgressInv /\ [Next]_vars => ProgressInv'
<1> SUFFICES ASSUME OneTab, ProgressInv, [Next]_vars PROVE ProgressInv'
  OBVIOUS
<1>0. /\ ProgressTypeOK /\ CallsInOrder /\ PageKnowsStored /\ ReloadShowsTheSame
      /\ Stored \in SUBSET Lessons /\ Valid \subseteq Lessons
      /\ \A t \in Tabs : page[t].completed \in SUBSET Lessons
  BY EntryFacts, ProgressAssumption DEF ProgressInv, ProgressTypeOK, Stored
<1>1. ASSUME NEW t \in Tabs, Open(t) PROVE ProgressInv'
  <2>1. PICK allowed \in BOOLEAN :
          /\ page' = [page EXCEPT ![t] =
               [at |-> IF allowed /\ current = Missing THEN "readLegacy" ELSE "idle",
                allowed |-> allowed, completed |-> IF allowed THEN current.ids ELSE {}]]
          /\ saved' = [saved EXCEPT ![t] = allowed]
    BY <1>1 DEF Open
  <2>2. current.ids \in SUBSET Lessons
    BY <1>0, EntryFacts DEF ProgressTypeOK
  <2>3. ProgressTypeOK' /\ Stored' = Stored /\ current' = current
    BY <1>0, <1>1, <2>1, <2>2 DEF ProgressTypeOK, Phases, Open, Stored
  <2>4. \A u \in Tabs :
          /\ page'[u].at = IF allowed /\ current = Missing THEN "readLegacy" ELSE "idle"
          /\ page'[u].allowed = allowed /\ saved'[u] = allowed
          /\ page'[u].completed = IF allowed THEN current.ids ELSE {}
    BY <1>0, <2>1 DEF ProgressTypeOK, OneTab
  <2>5. CallsInOrder' /\ PageKnowsStored' /\ ReloadShowsTheSame'
    BY <2>3, <2>4 DEF CallsInOrder, PageKnowsStored, ReloadShowsTheSame, Stored
  <2> QED BY <2>3, <2>5 DEF ProgressInv
<1>2. ASSUME NEW t \in Tabs, ReadLegacy(t) PROVE ProgressInv'
  <2>1. legacy.ids \in SUBSET Lessons /\ current = Missing
    BY <1>0, <1>2, EntryFacts DEF ProgressTypeOK, CallsInOrder, ReadLegacy
  <2>2. UNCHANGED <<current, legacy, saved, withdrawn>> /\ Stored' = Stored /\ Stored = legacy.ids
    BY <1>2, <2>1 DEF ReadLegacy, Stored
  <2>3. PICK at \in {"idle", "setItem"} : Goes(t, at, legacy.ids)
    BY <1>2 DEF ReadLegacy
  <2>4. /\ page' \in [Tabs -> [at : Phases, allowed : BOOLEAN, completed : SUBSET Lessons]]
        /\ \A u \in Tabs : page'[u].at \in {"idle", "setItem"} /\ page'[u].completed = Stored
    BY <1>0, <2>1, <2>2, <2>3, GoesTo DEF Phases
  <2> QED BY <1>0, <2>2, <2>4
        DEF ProgressInv, ProgressTypeOK, CallsInOrder, PageKnowsStored, ReloadShowsTheSame
<1>3. ASSUME NEW t \in Tabs, SetItem(t) PROVE ProgressInv'
  <2>1. CASE page[t].allowed /\ room
    <3>1. /\ current' = Entry(page[t].completed) /\ Goes(t, "removeItem", page[t].completed)
          /\ UNCHANGED legacy /\ saved' \in [Tabs -> BOOLEAN]
      BY <1>0, <1>3, <2>1 DEF SetItem, ProgressTypeOK
    <3>2. /\ page' \in [Tabs -> [at : Phases, allowed : BOOLEAN, completed : SUBSET Lessons]]
          /\ \A u \in Tabs : page'[u].at = "removeItem" /\ page'[u].completed = page[t].completed
      BY <1>0, <3>1, GoesTo DEF Phases
    <3>3. current' \in Entries
      BY <1>0, <3>1, EntryFacts
    <3> QED BY <1>0, <3>1, <3>2, <3>3
          DEF ProgressInv, ProgressTypeOK, CallsInOrder, PageKnowsStored, ReloadShowsTheSame
  <2>2. CASE ~(page[t].allowed /\ room)
    <3>1. /\ Goes(t, "idle", page[t].completed) /\ UNCHANGED <<current, legacy, withdrawn>>
          /\ saved' \in [Tabs -> BOOLEAN] /\ saved'[t] = FALSE
      BY <1>0, <1>3, <2>2 DEF SetItem, ProgressTypeOK
    <3>2. /\ page' \in [Tabs -> [at : Phases, allowed : BOOLEAN, completed : SUBSET Lessons]]
          /\ \A u \in Tabs : /\ u = t /\ page'[u].at = "idle" /\ page'[u].allowed = page[u].allowed
                             /\ page'[u].completed = page[u].completed
      BY <1>0, <3>1, GoesTo DEF Phases
    <3>3. Stored' = Stored /\ page[t].at = "setItem"
      BY <1>3, <3>1 DEF Stored, SetItem
    <3> QED BY <1>0, <3>1, <3>2, <3>3
          DEF ProgressInv, ProgressTypeOK, CallsInOrder, PageKnowsStored, ReloadShowsTheSame
  <2> QED BY <2>1, <2>2
<1>4. ASSUME NEW t \in Tabs, RemoveItem(t) PROVE ProgressInv'
  <2>1. /\ legacy' = Missing /\ Goes(t, "idle", page[t].completed) /\ UNCHANGED <<current, saved, withdrawn>>
        /\ current = Entry(page[t].completed)
    BY <1>0, <1>4 DEF RemoveItem, CallsInOrder
  <2>2. /\ page' \in [Tabs -> [at : Phases, allowed : BOOLEAN, completed : SUBSET Lessons]]
        /\ \A u \in Tabs : page'[u].at = "idle" /\ page'[u].completed = page[t].completed
    BY <1>0, <2>1, GoesTo DEF Phases
  <2>3. Stored' = page[t].completed /\ legacy' \in Entries
    BY <1>0, <2>1, EntryFacts DEF Stored
  <2> QED BY <1>0, <2>1, <2>2, <2>3
        DEF ProgressInv, ProgressTypeOK, CallsInOrder, PageKnowsStored, ReloadShowsTheSame
<1>5. ASSUME NEW t \in Tabs, NEW l \in Lessons, Toggle(t, l) PROVE ProgressInv'
  <2>1. PICK s \in SUBSET Lessons :
          /\ Goes(t, "setItem", s)
          /\ page[t].completed \cup withdrawn \subseteq s \cup withdrawn'
    BY <1>0, <1>5 DEF Toggle
  <2>2. UNCHANGED <<current, legacy, saved>> /\ Stored' = Stored /\ page[t].at = "idle"
    BY <1>5 DEF Toggle, Stored
  <2>3. /\ page' \in [Tabs -> [at : Phases, allowed : BOOLEAN, completed : SUBSET Lessons]]
        /\ \A u \in Tabs : /\ u = t /\ page'[u].at = "setItem" /\ page'[u].completed = s
                           /\ page'[u].allowed = page[u].allowed
    BY <1>0, <2>1, GoesTo DEF Phases
  <2> QED BY <1>0, <2>1, <2>2, <2>3
        DEF ProgressInv, ProgressTypeOK, CallsInOrder, PageKnowsStored, ReloadShowsTheSame
<1>6. ASSUME NEW t \in Tabs, Prune(t) PROVE ProgressInv'
  <2>1. /\ Goes(t, "setItem", page[t].completed \cap Valid) /\ page[t].at = "idle"
        /\ UNCHANGED <<current, legacy, saved, withdrawn>> /\ Stored' = Stored
    BY <1>6 DEF Prune, Stored
  <2>2. page[t].completed \cap Valid \in SUBSET Lessons
    BY <1>0
  <2>3. /\ page' \in [Tabs -> [at : Phases, allowed : BOOLEAN, completed : SUBSET Lessons]]
        /\ \A u \in Tabs : /\ u = t /\ page'[u].at = "setItem" /\ page'[u].allowed = page[u].allowed
                           /\ page'[u].completed = page[u].completed \cap Valid
    BY <1>0, <2>1, <2>2, GoesTo DEF Phases
  <2> QED BY <1>0, <2>1, <2>3
        DEF ProgressInv, ProgressTypeOK, CallsInOrder, PageKnowsStored, ReloadShowsTheSame
<1>7. ASSUME NEW t \in Tabs, Close(t) PROVE ProgressInv'
  <2>1. Closed \in [at : Phases, allowed : BOOLEAN, completed : SUBSET Lessons] /\ Closed.at = "closed"
    BY DEF Closed, Phases
  <2>2. /\ page' = [page EXCEPT ![t] = Closed] /\ saved' = [saved EXCEPT ![t] = TRUE]
        /\ UNCHANGED <<current, legacy>>
    BY <1>7 DEF Close
  <2>3. ProgressTypeOK' /\ \A u \in Tabs : page'[u].at = "closed"
    BY <1>0, <2>1, <2>2 DEF ProgressTypeOK, OneTab
  <2> QED BY <2>3 DEF ProgressInv, CallsInOrder, PageKnowsStored, ReloadShowsTheSame
<1>8. CASE RoomChanges \/ UNCHANGED vars
  <2>1. UNCHANGED <<page, saved, current, legacy, withdrawn>> /\ Stored' = Stored
    BY <1>8 DEF RoomChanges, vars, Stored
  <2> QED BY <1>0, <2>1
        DEF ProgressInv, ProgressTypeOK, CallsInOrder, PageKnowsStored, ReloadShowsTheSame
<1> QED BY <1>1, <1>2, <1>3, <1>4, <1>5, <1>6, <1>7, <1>8 DEF Next

LEMMA ProgressInit == Init => ProgressInv
BY DEF Init, Closed, Phases, ProgressInv, ProgressTypeOK, CallsInOrder, PageKnowsStored, ReloadShowsTheSame

\* What the page and the storage know of each other, with one tab.
THEOREM ProgressInvariant == ASSUME OneTab PROVE Spec => []ProgressInv
BY ProgressInit, ProgressStep, PTL DEF Spec

\* ReloadShowsTheSame: what an idle page shows is what its reload will show,
\* unless its last write was refused.
THEOREM ReloadsShowTheSame == ASSUME OneTab PROVE Spec => []ReloadShowsTheSame
<1>1. ProgressInv => ReloadShowsTheSame
  BY DEF ProgressInv
<1> QED BY <1>1, ProgressInvariant, PTL

\* ProgressPersists: no full disk, crash or migration loses a lesson of the
\* curriculum that its learner did not take back.
THEOREM ProgressAlwaysPersists == ASSUME OneTab PROVE Spec => ProgressPersists
<1>1. ProgressInv /\ [Next]_vars => [\A l \in Stored \cap Valid : l \notin Stored' => l \in withdrawn]_vars
  <2> SUFFICES ASSUME ProgressInv, Next, NEW l \in Stored \cap Valid, l \notin Stored'
               PROVE  l \in withdrawn
    OBVIOUS
  <2>0. ProgressTypeOK /\ CallsInOrder /\ PageKnowsStored
    BY DEF ProgressInv
  <2>1. ~UNCHANGED <<current, legacy>>
    BY DEF Stored
  <2>2. ASSUME NEW t \in Tabs, SetItem(t) PROVE l \in withdrawn
    <3>1. page[t].at = "setItem" /\ page[t].allowed /\ current' = Entry(page[t].completed)
      BY <2>1, <2>2 DEF SetItem
    <3>2. Stored' = page[t].completed
      BY <3>1, EntryFacts, <2>0 DEF Stored, ProgressTypeOK
    <3> QED BY <2>0, <3>1, <3>2 DEF PageKnowsStored
  <2>3. ASSUME NEW t \in Tabs, RemoveItem(t) PROVE FALSE
    <3>1. current # Missing /\ UNCHANGED current
      BY <2>0, <2>3, EntryFacts DEF CallsInOrder, RemoveItem
    <3> QED BY <3>1 DEF Stored
  <2> QED BY <2>1, <2>2, <2>3 DEF Next, Open, ReadLegacy, Toggle, Prune, Close, RoomChanges
<1> QED BY <1>1, ProgressInvariant, PTL DEF Spec, ProgressPersists

=============================================================================
