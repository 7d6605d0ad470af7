------------------------------- MODULE PageShell --------------------------------
(***************************************************************************)
(* The frame of every page: App of src/App.tsx with its drawer, its search  *)
(* dialog and RouteFocus, and src/hooks/useModalDialog.ts, which both       *)
(* dialogs call.  What they share is the focus of the document.             *)
(*                                                                         *)
(* A task of the browser is a step: an event with what React commits for it *)
(* (effects are cleaned up before others are set up), a chunk that arrives, *)
(* a dialog or route that is committed once its chunk is there, a frame.    *)
(* The router updates in a transition, after what the same event changed.   *)
(* The browser is external: which element Tab comes to next, and when an    *)
(* element that became inert loses the focus.                               *)
(***************************************************************************)
EXTENDS FiniteSets

CONSTANTS
  Pages,      \* pages the router can show
  Locations,  \* addresses
  PageOf,     \* PageOf[l]: the page of an address
  GoalOf,     \* GoalOf[l]: the element its hash names, or the main element
  HomePage    \* the address the site was opened at

Dialogs == {"drawer", "search"}
Chunks == {"sidebar", "search"}
Parts == {"topbar", "sidebar", "main"}

\* An element is named by the part or page it is in.
Body == <<"body", "">>
Skip == <<"skip", "link">>
Menu == <<"topbar", "menu">>
Find == <<"topbar", "search">>
Main == <<"main", "">>
Box(d) == <<d, "box">>
Item(d) == <<d, "item">>
Elements ==
  {Body, Skip, Menu, Find, Main, <<"sidebar", "link">>}
  \cup {Box(d) : d \in Dialogs} \cup {Item(d) : d \in Dialogs}
  \cup Pages \X {"control", "anchor"}

ASSUME ShellAssumption ==
  /\ HomePage \in Locations
  /\ PageOf \in [Locations -> Pages]
  /\ \A l \in Locations : GoalOf[l] \in {Main, <<PageOf[l], "anchor">>}
  /\ Pages \cap (Dialogs \cup Parts \cup {"body", "skip"}) = {}

VARIABLES
  open,       \* drawerOpen and searchOpen: those that are true
  loaded,     \* chunks that have arrived
  aside,      \* the Sidebar of the page is mounted
  modal,      \* per dialog, the effect of its useModalDialog
  inert,      \* parts of the page that are inert
  focus,      \* document.activeElement
  target,     \* the address in the router
  location,   \* the address drawn
  visible,    \* the route's content is drawn
  arrival,    \* the frame of RouteFocus, with focusAtCommit
  home,       \* history: the focus when the first dialog was opened
  travelling  \* history: an address was followed, and nothing was chosen since

shell == <<open, loaded, aside, modal, inert>>
route == <<target, location, visible, arrival>>
vars == <<shell, focus, route, home, travelling>>

NoEffect == [on |-> FALSE, previous |-> Body, background |-> {}, frame |-> FALSE]
NoFrame == [on |-> FALSE, from |-> Body]
Mounted == {d \in Dialogs : modal[d].on}

\* The part of the page an element is in; skip link, body and dialogs are in
\* none of those that become inert.
PartOf(e) == IF e[1] \in Pages THEN "main" ELSE e[1]

Init ==
  /\ open = {} /\ loaded = {} /\ aside = FALSE
  /\ modal = [d \in Dialogs |-> NoEffect] /\ inert = {}
  /\ focus = Body
  /\ target = HomePage /\ location = HomePage /\ visible = FALSE /\ arrival = NoFrame
  /\ home = Body /\ travelling = FALSE

Present(e) ==
  /\ e[1] = "sidebar" => aside
  /\ e[1] \in Pages => visible /\ e[1] = PageOf[location]
  /\ e[1] \in Dialogs => e[1] \in Mounted

\* What a call of focus() leaves focused.
Focused(e, locked) == IF Present(e) /\ PartOf(e) \notin locked THEN e ELSE focus

Reachable(e) == Present(e) /\ PartOf(e) \notin inert

(***************************************************************************)
(* useModalDialog.                                                          *)
(***************************************************************************)
\* Faulty variant: forgetting the content.
BackgroundWithoutMain == {p \in {"topbar", "sidebar"} : p = "sidebar" => aside}

\* The querySelectorAll of the effect: what is in the document at that time.
Background == {p \in Parts : p = "sidebar" => aside}

\* The cleanup of the dialogs that are no longer open: the background is
\* released, then the previous element takes the focus.
Unlocked(closing) == inert \ UNION {modal[d].background : d \in closing}

\* Faulty variant: the previous element is focused before the background is
\* released.
ReturnedWhileLocked(closing) ==
  LET rest == IF focus[1] \in closing THEN Body ELSE focus
      live == {e \in {modal[d].previous : d \in closing} : e # Body /\ Reachable(e)}
  IN IF live = {} THEN rest ELSE CHOOSE e \in live : TRUE

Returned(closing) ==
  LET rest == IF focus[1] \in closing THEN Body ELSE focus
      live == {e \in {modal[d].previous : d \in closing} :
                 e # Body /\ Present(e) /\ PartOf(e) \notin Unlocked(closing)}
  IN IF live = {} THEN rest ELSE CHOOSE e \in live : TRUE

\* What React commits when the dialogs in now are to be open: cleanups, then the
\* effects of those it can mount, with at as the focus before them.
Commit(now, at) ==
  LET closing == Mounted \ now
      opening == {d \in now \ Mounted : (IF d = "drawer" THEN "sidebar" ELSE d) \in loaded}
      before == IF closing = {} THEN at ELSE Returned(closing)
  IN
  /\ open' = now
  /\ modal' = [d \in Dialogs |->
       IF d \in opening
       THEN [on |-> TRUE, previous |-> before, background |-> Background, frame |-> TRUE]
       ELSE IF d \in closing THEN NoEffect ELSE modal[d]]
  /\ inert' = Unlocked(closing) \cup (IF opening = {} THEN {} ELSE Background)
  /\ focus' = before
  /\ home' = IF Mounted = {} /\ opening # {} THEN before ELSE home
  /\ UNCHANGED <<loaded, aside>>

\* focusInitial.
InitialFocus(d) ==
  /\ modal[d].frame
  /\ modal' = [modal EXCEPT ![d].frame = FALSE]
  /\ focus' = Item(d)
  /\ UNCHANGED <<open, loaded, aside, inert, route, home, travelling>>

\* The listener of a dialog on Escape, its close button and its backdrop.
Close(d) == d \in Mounted /\ Commit(open \ {d}, focus) /\ travelling' = FALSE /\ UNCHANGED route

(***************************************************************************)
(* App.                                                                     *)
(***************************************************************************)
\* Faulty variant: the handler leaves the drawer open.
SearchOverDrawer == open \cup {"search"}

\* setDrawerOpen(false) and setSearchOpen(true).
ToSearch == (open \ {"drawer"}) \cup {"search"}

ToDrawer == (open \ {"search"}) \cup {"drawer"}

\* A click focuses its button first.
ClickMenu == Reachable(Menu) /\ Mounted = {} /\ Commit(ToDrawer, Menu) /\ travelling' = FALSE /\ UNCHANGED route

ClickSearch == Reachable(Find) /\ Mounted = {} /\ Commit(ToSearch, Find) /\ travelling' = FALSE /\ UNCHANGED route

\* Control and K, wherever the focus is.
KeySearch == "search" \notin open /\ Commit(ToSearch, focus) /\ travelling' = FALSE /\ UNCHANGED route

\* Suspense: a chunk arrives, and what waited for it is committed.
ChunkArrives(c) ==
  /\ c \notin loaded
  /\ loaded' = loaded \cup {c}
  /\ UNCHANGED <<open, aside, modal, inert, focus, route, home, travelling>>

MountSidebar ==
  /\ "sidebar" \in loaded /\ ~aside
  /\ aside' = TRUE
  /\ UNCHANGED <<open, loaded, modal, inert, focus, route, home, travelling>>

MountDialog ==
  /\ Commit(open, focus) /\ modal' # modal
  /\ travelling' = FALSE /\ UNCHANGED route

\* A link of the page, the sidebar, the topbar or the skip link.
Follow(l) ==
  /\ \E e \in Elements \ {Body} : Reachable(e) /\ e[1] \notin Dialogs /\ (Mounted = {} \/ e = focus)
  /\ target' = l /\ travelling' = (l # location /\ Mounted = {})
  /\ UNCHANGED <<shell, focus, location, visible, arrival, home>>

\* A result of the search or a link of the drawer: it navigates and closes.
FollowFrom(d, l) ==
  /\ d \in Mounted
  /\ Commit(open \ {d}, focus)
  /\ target' = l /\ travelling' = (l # location)
  /\ UNCHANGED <<location, visible, arrival>>

(***************************************************************************)
(* RouteFocus and the routes.                                               *)
(***************************************************************************)
\* Elements of the page that is left are gone for good.
Left(e) == e[1] \in Pages /\ e[1] # PageOf[target]
Gone(e) == IF Left(e) THEN Body ELSE e

\* The router's transition is committed, once the chunk of the route is there;
\* before the first content is drawn that is not waited for.
CommitRoute ==
  /\ target # location
  /\ location' = target
  /\ focus' = Gone(focus)
  /\ modal' = [d \in Dialogs |-> [modal[d] EXCEPT !.previous = Gone(@)]]
  /\ home' = Gone(home)
  /\ arrival' = IF visible THEN [on |-> TRUE, from |-> focus'] ELSE NoFrame
  /\ UNCHANGED <<open, loaded, aside, inert, target, visible, travelling>>

\* The first content is drawn; layout effects run only now.
Reveal ==
  /\ ~visible /\ visible' = TRUE
  /\ arrival' = [on |-> TRUE, from |-> focus]
  /\ UNCHANGED <<shell, focus, target, location, home, travelling>>

\* Faulty variant: only a focus that is nowhere is replaced.
ArriveIfNone ==
  /\ arrival.on /\ arrival' = NoFrame
  /\ focus' = IF focus = Body THEN Focused(GoalOf[location], inert) ELSE focus
  /\ UNCHANGED <<shell, target, location, visible, home, travelling>>

\* The frame of RouteFocus.
Arrive ==
  /\ arrival.on /\ arrival' = NoFrame
  /\ focus' = IF focus \in {arrival.from, Body} THEN Focused(GoalOf[location], inert) ELSE focus
  /\ UNCHANGED <<shell, target, location, visible, home, travelling>>

(***************************************************************************)
(* The browser.                                                             *)
(***************************************************************************)
\* A click in the page or, over a dialog's backdrop, in the dialog; Tab, which
\* useModalDialog keeps inside from the first and the last control only.
MoveFocus(e) ==
  /\ e # focus /\ Reachable(e)
  /\ \A d \in Mounted : focus = Item(d) => e[1] = d
  /\ focus' = e /\ travelling' = FALSE
  /\ UNCHANGED <<shell, route, home>>

\* An element that became inert loses the focus when the page is next rendered.
FixFocus ==
  /\ PartOf(focus) \in inert
  /\ focus' = Body
  /\ UNCHANGED <<shell, route, home, travelling>>

Next ==
  \/ ClickMenu \/ ClickSearch \/ KeySearch
  \/ \E d \in Dialogs : Close(d) \/ InitialFocus(d) \/ \E l \in Locations : FollowFrom(d, l)
  \/ \E c \in Chunks : ChunkArrives(c)
  \/ MountSidebar \/ MountDialog
  \/ \E l \in Locations : Follow(l)
  \/ CommitRoute \/ Reveal \/ Arrive
  \/ \E e \in Elements : MoveFocus(e)
  \/ FixFocus

Spec == Init /\ [][Next]_vars

\* Frames are drawn, and the content of a route arrives.
Fairness ==
  /\ \A d \in Dialogs : WF_vars(InitialFocus(d))
  /\ WF_vars(CommitRoute) /\ WF_vars(Reveal) /\ WF_vars(Arrive)

FairSpec == Spec /\ Fairness

(***************************************************************************)
(* Properties.                                                              *)
(***************************************************************************)
\* The page is locked exactly while a dialog is there: changing from one dialog
\* to the other neither leaves it locked for ever nor unlocks it under the
\* second (the background's inert attribute in useModalDialog).
LockedWhileModal ==
  IF Mounted = {} THEN inert = {}
  ELSE {"topbar", "main"} \subseteq inert

\* "search traps focus and restores its trigger" (e2e/curriculum.spec.ts:1009):
\* when the last dialog goes, the focus is where it was before the first came,
\* also when one dialog replaced another and a route changed under them; if
\* that element is gone, it is at least in no dialog.
FocusReturns ==
  [][Mounted # {} /\ Mounted' = {} =>
       IF home = Body THEN focus'[1] \notin Dialogs ELSE focus' = home]_vars

\* While a dialog is there no late frame, and no route that arrives under it,
\* takes the focus into the topbar or the content.
NoStolenFocus ==
  [][Mounted \cap Mounted' # {} /\ focus' # focus =>
       PartOf(focus') \notin {"topbar", "main"}]_vars

\* Following a link ends in the content of its page, also from a result of the
\* search, whose dialog gives the focus back to its trigger before the route is
\* drawn; unless something else was chosen or a dialog opened.
LinkEndsInMain == travelling ~> (~travelling \/ PartOf(focus) = "main")

=============================================================================
