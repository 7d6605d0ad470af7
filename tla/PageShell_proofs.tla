---------------------------- MODULE PageShell_proofs ----------------------------
(***************************************************************************)
(* Theorems about PageShell, for any pages and addresses.                    *)
(*                                                                         *)
(* One dialog at most is there, and what is inert is what its effect took    *)
(* (DialogLocks).  The element it gives the focus back to is in the document *)
(* and in no dialog, and is the one the first dialog took the focus from     *)
(* (FocusIsKnown), also when one dialog replaced another or a route changed. *)
(***************************************************************************)
EXTENDS PageShell, TLAPS

Opens == {{}} \cup {{d} : d \in Dialogs}
Effects == [on : BOOLEAN, previous : Elements, background : SUBSET Parts, frame : BOOLEAN]

ShellTypeOK ==
  /\ open \in Opens /\ loaded \in SUBSET Chunks /\ aside \in BOOLEAN
  /\ modal \in [Dialogs -> Effects] /\ inert \in SUBSET Parts
  /\ focus \in Elements /\ home \in Elements
  /\ target \in Locations /\ location \in Locations /\ visible \in BOOLEAN
  /\ arrival \in [on : BOOLEAN, from : Elements]
  /\ travelling \in BOOLEAN

DialogLocks ==
  /\ Mounted \subseteq open
  /\ \A d \in Dialogs : modal[d].frame => modal[d].on
  /\ Mounted = {} => inert = {}
  /\ \A d \in Mounted : inert = modal[d].background /\ {"topbar", "main"} \subseteq inert

\* Where an effect may give the focus back to.
Recalls(e) == /\ Present(e) /\ e[1] \notin Dialogs
              /\ home # Body => e = home

FocusIsKnown == Present(focus) /\ \A d \in Mounted : Recalls(modal[d].previous)

ShellInv == ShellTypeOK /\ DialogLocks /\ FocusIsKnown

(***************************************************************************)
(* Elements.                                                                *)
(***************************************************************************)
\* No page is named like what is in none.
LEMMA Names ==
  /\ \A x \in Dialogs \cup Parts \cup {"body", "skip"} : x \notin Pages
  /\ Body \in Elements /\ Main \in Elements /\ Menu \in Elements /\ Find \in Elements
  /\ \A d \in Dialogs : Item(d) \in Elements /\ Item(d)[1] = d
  /\ Body[1] = "body" /\ Main[1] = "main" /\ Menu[1] = "topbar" /\ Find[1] = "topbar"
  /\ Present(Body) /\ Present(Main) /\ PartOf(Main) = "main" /\ PartOf(Body) = "body"
<1>1. \A x \in Dialogs \cup Parts \cup {"body", "skip"} : x \notin Pages
  BY ShellAssumption
<1>2. Body[1] = "body" /\ Main[1] = "main" /\ Menu[1] = "topbar" /\ Find[1] = "topbar"
  BY DEF Body, Main, Menu, Find
<1>3. \A d \in Dialogs : Item(d) \in Elements /\ Item(d)[1] = d
  BY DEF Elements, Item
<1>4. "body" \notin Pages /\ "main" \notin Pages
  BY <1>1 DEF Parts
<1>5. Present(Body) /\ Present(Main) /\ PartOf(Main) = "main" /\ PartOf(Body) = "body"
  BY <1>2, <1>4 DEF Present, PartOf, Dialogs
<1> QED BY <1>1, <1>2, <1>3, <1>5 DEF Elements

\* The goal of an address is in the content.
LEMMA GoalIsMain ==
  ASSUME NEW l \in Locations
  PROVE  GoalOf[l] \in Elements /\ PartOf(GoalOf[l]) = "main"
<1>1. GoalOf[l] \in {Main, <<PageOf[l], "anchor">>} /\ PageOf[l] \in Pages
  BY ShellAssumption
<1>2. <<PageOf[l], "anchor">> \in Elements /\ PartOf(<<PageOf[l], "anchor">>) = "main"
  BY <1>1 DEF Elements, PartOf
<1> QED BY <1>1, <1>2, Names

\* One dialog at most is there.
LEMMA OneDialog ==
  ASSUME ShellInv
  PROVE  /\ Mounted = {} \/ \E d \in Dialogs : Mounted = {d} /\ open = {d}
         /\ \A c, d \in Mounted : c = d
<1>1. open = {} \/ \E d \in Dialogs : open = {d}
  BY DEF ShellInv, ShellTypeOK, Opens
<1>2. Mounted \subseteq open
  BY DEF ShellInv, DialogLocks
<1> QED BY <1>1, <1>2

(***************************************************************************)
(* useModalDialog.                                                          *)
(***************************************************************************)
\* The effect of the dialog that goes releases the page, and gives the focus back.
LEMMA ReturnedIs ==
  ASSUME ShellInv, NEW c \in Dialogs, Mounted = {c}
  PROVE  /\ Unlocked({c}) = {}
         /\ Returned({c}) \in Elements /\ Recalls(Returned({c}))
<1> DEFINE e == modal[c].previous
           rest == IF focus[1] \in {c} THEN Body ELSE focus
<1>1. Unlocked({c}) = {}
  BY DEF ShellInv, DialogLocks, Unlocked
<1>2. e \in Elements /\ Recalls(e)
  BY DEF ShellInv, ShellTypeOK, FocusIsKnown, Effects
<1>3. rest \in Elements /\ Present(rest) /\ rest[1] \notin Dialogs
  <2>1. focus \in Elements /\ Present(focus)
    BY DEF ShellInv, ShellTypeOK, FocusIsKnown
  <2>2. focus[1] \in Dialogs => focus[1] = c
    BY <2>1 DEF Present
  <2> QED BY <2>1, <2>2, Names DEF Dialogs
<1>4. {x \in {modal[d].previous : d \in {c}} : x # Body /\ Present(x) /\ PartOf(x) \notin Unlocked({c})}
        = IF e = Body THEN {} ELSE {e}
  BY <1>1, <1>2 DEF Recalls
<1>5. Returned({c}) = IF e = Body THEN rest ELSE CHOOSE x \in {e} : TRUE
  BY <1>4 DEF Returned
<1>6. (CHOOSE x \in {e} : TRUE) = e
  OBVIOUS
<1>7. Returned({c}) = IF e = Body THEN rest ELSE e
  BY <1>5, <1>6
<1>8. e = Body => home = Body
  BY <1>2 DEF Recalls
<1> HIDE DEF e, rest
<1> QED BY <1>1, <1>2, <1>3, <1>7, <1>8 DEF Recalls

\* What a commit leaves: the dialogs in it, and the focus.
LEMMA CommitEffect ==
  ASSUME ShellInv, NEW now \in Opens, NEW at \in Elements, Present(at), Commit(now, at),
         UNCHANGED <<location, visible, arrival>>, target' \in Locations, travelling' \in BOOLEAN
  PROVE  /\ ShellInv'
         /\ Mounted \cap Mounted' # {} => focus' = at
         /\ Mounted # {} /\ Mounted' = {} => Recalls(focus')
<1> DEFINE closing == Mounted \ now
           opening == {d \in now \ Mounted : (IF d = "drawer" THEN "sidebar" ELSE d) \in loaded}
           before == IF closing = {} THEN at ELSE Returned(closing)
           effect == [on |-> TRUE, previous |-> before, background |-> Background, frame |-> TRUE]
<1>0. ShellTypeOK /\ DialogLocks /\ FocusIsKnown
  BY DEF ShellInv
<1>1. /\ open' = now /\ focus' = before /\ UNCHANGED <<loaded, aside>>
      /\ modal' = [d \in Dialogs |-> IF d \in opening THEN effect
                                     ELSE IF d \in closing THEN NoEffect ELSE modal[d]]
      /\ inert' = Unlocked(closing) \cup (IF opening = {} THEN {} ELSE Background)
      /\ home' = IF Mounted = {} /\ opening # {} THEN before ELSE home
  BY DEF Commit
<1>2. /\ now \subseteq Dialogs /\ \A c, d \in now : c = d
      /\ opening \subseteq now \ Mounted /\ Mounted \subseteq Dialogs
  BY DEF Opens, Mounted
<1>3. Background \in SUBSET Parts /\ {"topbar", "main"} \subseteq Background
  BY DEF Background, Parts
<1>4. NoEffect \in Effects /\ NoEffect.on = FALSE /\ NoEffect.frame = FALSE
  BY Names DEF NoEffect, Effects
<1>5. /\ before \in Elements /\ Present(before)
      /\ closing # {} => Recalls(before) /\ Unlocked(closing) = {}
      /\ closing # {} => Mounted = closing
  <2>1. CASE closing = {}
    BY <2>1
  <2>2. CASE closing # {}
    <3>1. PICK c \in Dialogs : Mounted = {c} /\ closing = {c}
      BY <2>2, OneDialog
    <3> QED BY <2>2, <3>1, ReturnedIs DEF Recalls
  <2> QED BY <2>1, <2>2
<1>6. closing = {} => Unlocked(closing) = inert
  BY DEF Unlocked
<1>7. effect \in Effects /\ effect.on /\ effect.previous = before /\ effect.background = Background
  BY <1>3, <1>5 DEF Effects
<1> HIDE DEF before, effect, opening, closing
<1>8. \A d \in Dialogs :
        /\ d \in opening => modal'[d] = effect
        /\ d \in closing /\ d \notin opening => modal'[d] = NoEffect
        /\ d \notin closing /\ d \notin opening => modal'[d] = modal[d]
  BY <1>1
<1>9. Mounted' = (Mounted \ closing) \cup opening
  <2>1. \A d \in Dialogs : modal'[d].on <=> d \in (Mounted \ closing) \cup opening
    BY <1>4, <1>7, <1>8 DEF Mounted, closing, opening
  <2>2. Mounted' = {d \in Dialogs : modal'[d].on}
    BY DEF Mounted
  <2> QED BY <1>2, <2>1, <2>2
<1>10. inert' \in SUBSET Parts /\ modal' \in [Dialogs -> Effects]
  BY <1>0, <1>1, <1>3, <1>4, <1>5, <1>6, <1>7 DEF ShellTypeOK
<1>11. ShellTypeOK'
  BY <1>0, <1>1, <1>5, <1>10 DEF ShellTypeOK
<1>12. \A e : Present(e) /\ e[1] \notin Dialogs => Present(e)'
  BY <1>1 DEF Present
<1>13. CASE opening = {}
  <2>1. \A d \in Mounted' : d \in Mounted /\ modal'[d] = modal[d] /\ closing = {}
    BY <1>2, <1>5, <1>8, <1>9, <1>13
  <2>2. Mounted' = {} => inert' = {}
    BY <1>0, <1>1, <1>5, <1>6, <1>9, <1>13 DEF DialogLocks
  <2>3. \A d \in Mounted' : inert' = inert /\ focus' = at /\ home' = home /\ Mounted' = Mounted
    BY <1>1, <1>6, <1>9, <1>13, <2>1 DEF before
  <2>4. \A d \in Dialogs : modal'[d].frame => modal'[d].on
    BY <1>0, <1>4, <1>8, <1>13 DEF DialogLocks
  <2>5. DialogLocks'
    BY <1>0, <1>1, <1>2, <1>9, <1>13, <2>1, <2>2, <2>3, <2>4 DEF DialogLocks, closing
  <2>6. FocusIsKnown'
    <3>1. CASE Mounted' = {}
      <4>1. closing = {} => Mounted = {}
        BY <1>9, <1>13, <3>1
      <4>2. focus'[1] \notin Dialogs
        BY <1>1, <1>5, <4>1 DEF Recalls, Present
      <4> QED BY <1>1, <1>5, <1>12, <3>1, <4>2 DEF FocusIsKnown
    <3>2. CASE Mounted' # {}
      <4>1. UNCHANGED <<inert, home>> /\ focus' = at /\ Mounted' = Mounted
        BY <2>3, <3>2
      <4>2. \A e : Present(e) => Present(e)'
        BY <1>1, <4>1 DEF Present
      <4>3. \A d \in Mounted : Recalls(modal[d].previous)' /\ modal'[d] = modal[d]
        BY <1>0, <2>1, <4>1, <4>2 DEF FocusIsKnown, Recalls
      <4> QED BY <4>1, <4>2, <4>3 DEF FocusIsKnown, Recalls
    <3> QED BY <3>1, <3>2
  <2>7. Mounted # {} /\ Mounted' = {} => Recalls(focus')
    BY <1>1, <1>5, <1>9, <1>13
  <2> QED BY <1>11, <2>3, <2>5, <2>6, <2>7 DEF ShellInv
<1>14. CASE opening # {}
  <2>1. PICK d \in Dialogs : opening = {d} /\ now = {d} /\ d \notin Mounted /\ Mounted = closing
    BY <1>2, <1>14 DEF closing
  <2>2. Mounted' = {d} /\ modal'[d] = effect
    BY <1>8, <1>9, <2>1
  <2>3. inert' = Background
    BY <1>0, <1>1, <1>5, <1>6, <2>1 DEF DialogLocks
  <2>4. \A c \in Dialogs : modal'[c].frame => modal'[c].on
    BY <1>0, <1>4, <1>7, <1>8 DEF DialogLocks
  <2>5. DialogLocks'
    BY <1>1, <1>3, <1>7, <2>1, <2>2, <2>3, <2>4 DEF DialogLocks
  <2>6. before[1] \notin Dialogs
    BY <1>5, <2>1 DEF Recalls, Present
  <2>7. home' # Body => before = home'
    BY <1>1, <1>5, <2>1 DEF Recalls
  <2>8. Present(focus)' /\ focus' = before
    BY <1>1, <1>5, <2>6 DEF Present
  <2>9. FocusIsKnown'
    <3>1. \A c \in Mounted' : modal'[c].previous = focus'
      BY <1>7, <2>2, <2>8
    <3> QED BY <2>6, <2>7, <2>8, <3>1 DEF FocusIsKnown, Recalls, Present
  <2> QED BY <1>11, <2>1, <2>2, <2>5, <2>9 DEF ShellInv
<1> QED BY <1>13, <1>14

(***************************************************************************)
(* The steps.                                                               *)
(***************************************************************************)
\* The events that commit dialogs.
Commits ==
  \/ ClickMenu \/ ClickSearch \/ KeySearch \/ MountDialog
  \/ \E d \in Dialogs : Close(d) \/ \E l \in Locations : FollowFrom(d, l)

LEMMA CommitsKeep ==
  ASSUME ShellInv, Commits
  PROVE  /\ ShellInv'
         /\ Mounted \cap Mounted' # {} => focus' = focus
         /\ Mounted # {} /\ Mounted' = {} => Recalls(focus')
<1>0. /\ ShellTypeOK /\ Present(focus) /\ focus \in Elements
      /\ travelling \in BOOLEAN /\ target \in Locations /\ open \in Opens
  BY DEF ShellInv, FocusIsKnown, ShellTypeOK
<1>1. PICK now \in Opens, at \in Elements :
        /\ Present(at) /\ Commit(now, at) /\ (Mounted # {} => at = focus)
        /\ UNCHANGED <<location, visible, arrival>> /\ target' \in Locations /\ travelling' \in BOOLEAN
  <2>1. CASE ClickMenu
    <3>1. ToDrawer \in Opens
      BY <1>0 DEF ToDrawer, Opens, Dialogs
    <3> QED BY <1>0, <2>1, <3>1, Names DEF ClickMenu, Reachable, route
  <2>2. CASE ClickSearch
    <3>1. ToSearch \in Opens
      BY <1>0 DEF ToSearch, Opens, Dialogs
    <3> QED BY <1>0, <2>2, <3>1, Names DEF ClickSearch, Reachable, route
  <2>3. CASE KeySearch
    <3>1. ToSearch \in Opens
      BY <1>0 DEF ToSearch, Opens, Dialogs
    <3> QED BY <1>0, <2>3, <3>1 DEF KeySearch, route
  <2>4. CASE MountDialog
    BY <1>0, <2>4 DEF MountDialog, route
  <2>5. ASSUME NEW d \in Dialogs PROVE open \ {d} \in Opens
    BY <1>0 DEF Opens
  <2>6. ASSUME NEW d \in Dialogs, Close(d) PROVE Commit(open \ {d}, focus) /\ travelling' = FALSE /\ UNCHANGED route
    BY <2>6 DEF Close
  <2>7. ASSUME NEW d \in Dialogs, NEW l \in Locations, FollowFrom(d, l)
        PROVE  /\ Commit(open \ {d}, focus) /\ target' \in Locations /\ travelling' \in BOOLEAN
               /\ UNCHANGED <<location, visible, arrival>>
    BY <2>7 DEF FollowFrom
  <2> QED BY <1>0, <2>1, <2>2, <2>3, <2>4, <2>5, <2>6, <2>7 DEF Commits, route
<1>2. /\ ShellInv'
      /\ Mounted \cap Mounted' # {} => focus' = at
      /\ Mounted # {} /\ Mounted' = {} => Recalls(focus')
  BY <1>1, CommitEffect
<1> QED BY <1>1, <1>2

\* A route that is drawn leaves the page before it behind.
LEMMA RouteKeeps ==
  ASSUME ShellInv, CommitRoute
  PROVE  /\ ShellInv' /\ Mounted' = Mounted
         /\ focus' # focus => PartOf(focus') = "body"
<1>0. ShellTypeOK /\ DialogLocks /\ FocusIsKnown
  BY DEF ShellInv
<1>1. /\ location' = target /\ focus' = Gone(focus) /\ home' = Gone(home)
      /\ modal' = [d \in Dialogs |-> [modal[d] EXCEPT !.previous = Gone(@)]]
      /\ UNCHANGED <<open, loaded, aside, inert, target, visible, travelling>>
      /\ arrival' = IF visible THEN [on |-> TRUE, from |-> focus'] ELSE NoFrame
  BY DEF CommitRoute
<1>2. \A e \in Elements : Gone(e) \in {e, Body} /\ Gone(e) \in Elements
  BY Names DEF Gone
<1>3. \A d \in Dialogs : /\ modal'[d] \in Effects /\ modal'[d].on = modal[d].on
                         /\ modal'[d].frame = modal[d].frame
                         /\ modal'[d].background = modal[d].background
                         /\ modal'[d].previous = Gone(modal[d].previous)
  <2> SUFFICES ASSUME NEW d \in Dialogs
               PROVE  /\ modal'[d] \in Effects /\ modal'[d].on = modal[d].on
                      /\ modal'[d].frame = modal[d].frame
                      /\ modal'[d].background = modal[d].background
                      /\ modal'[d].previous = Gone(modal[d].previous)
    OBVIOUS
  <2>1. modal[d] \in Effects /\ modal'[d] = [modal[d] EXCEPT !.previous = Gone(modal[d].previous)]
    BY <1>0, <1>1 DEF ShellTypeOK
  <2>2. Gone(modal[d].previous) \in Elements
    BY <1>2, <2>1 DEF Effects
  <2> QED BY <2>1, <2>2 DEF Effects
<1>4. Mounted' = Mounted
  BY <1>3 DEF Mounted
<1>5. modal' \in [Dialogs -> Effects]
  BY <1>1, <1>3
<1>6. focus' \in Elements /\ home' \in Elements /\ NoFrame \in [on : BOOLEAN, from : Elements]
  BY <1>0, <1>1, <1>2, Names DEF ShellTypeOK, NoFrame
<1>7. ShellTypeOK'
  BY <1>0, <1>1, <1>5, <1>6 DEF ShellTypeOK
<1>8. DialogLocks'
  BY <1>0, <1>1, <1>3, <1>4 DEF DialogLocks, Mounted
<1>9. \A e \in Elements : Present(e) =>
        LET f == Gone(e) IN
        /\ f[1] = "sidebar" => aside'
        /\ f[1] \in Pages => visible' /\ f[1] = PageOf[location']
        /\ f[1] \in Dialogs => f[1] \in Mounted'
  <2>1. Body[1] # "sidebar" /\ Body[1] \notin Pages /\ Body[1] \notin Dialogs
    BY Names DEF Dialogs
  <2> QED BY <1>1, <1>4, <2>1 DEF Present, Gone, Left
<1>10. Present(focus)'
  BY <1>0, <1>1, <1>9 DEF Present, ShellTypeOK, FocusIsKnown
<1>11. ASSUME NEW d \in Mounted' PROVE Recalls(modal[d].previous)'
  <2> DEFINE e == modal[d].previous
  <2>1. Recalls(e) /\ e \in Elements /\ modal'[d].previous = Gone(e) /\ Gone(e) \in {e, Body}
    BY <1>0, <1>2, <1>3, <1>4, <1>11 DEF FocusIsKnown, ShellTypeOK, Effects, Mounted
  <2>2. modal'[d].previous[1] \notin Dialogs
    BY <2>1, Names DEF Recalls, Dialogs
  <2>3. home' # Body => modal'[d].previous = home'
    BY <1>0, <1>1, <1>2, <2>1 DEF Recalls, ShellTypeOK
  <2>4. Present(modal[d].previous)'
    BY <1>9, <2>1 DEF Recalls, Present
  <2> QED BY <2>2, <2>3, <2>4 DEF Recalls
<1>12. focus' # focus => PartOf(focus') = "body"
  BY <1>0, <1>1, <1>2, Names DEF ShellTypeOK
<1> QED BY <1>4, <1>7, <1>8, <1>10, <1>11, <1>12 DEF ShellInv, FocusIsKnown

\* Steps that move the focus at most, to an element that is there.
LEMMA FocusKeeps ==
  ASSUME ShellInv, UNCHANGED <<open, modal, inert, location, home>>, target' \in Locations,
         loaded' \in SUBSET Chunks, aside' \in BOOLEAN, aside => aside',
         visible' \in BOOLEAN, visible => visible',
         arrival' \in [on : BOOLEAN, from : Elements], travelling' \in BOOLEAN,
         focus' \in Elements, Present(focus)'
  PROVE  ShellInv' /\ Mounted' = Mounted
<1>1. Mounted' = Mounted
  BY DEF Mounted
<1>2. ShellTypeOK' /\ DialogLocks'
  BY <1>1 DEF ShellInv, ShellTypeOK, DialogLocks
<1>3. ASSUME NEW d \in Mounted PROVE Recalls(modal[d].previous)'
  BY <1>1, <1>3 DEF ShellInv, FocusIsKnown, Recalls, Present
<1> QED BY <1>1, <1>2, <1>3 DEF ShellInv, FocusIsKnown

\* Every other step leaves the dialogs that are there, and moves the focus
\* neither into the topbar nor into the content while there is one.
LEMMA OtherSteps ==
  ASSUME ShellInv, [Next]_vars, ~Commits
  PROVE  /\ ShellInv' /\ Mounted' = Mounted
         /\ Mounted # {} /\ focus' # focus => PartOf(focus') \notin {"topbar", "main"}
<1>0. /\ ShellTypeOK /\ DialogLocks /\ FocusIsKnown
      /\ Mounted # {} => {"topbar", "main"} \subseteq inert
  BY DEF ShellInv, DialogLocks
<1>1. CASE \E d \in Dialogs : InitialFocus(d)
  <2>1. PICK d \in Dialogs : InitialFocus(d)
    BY <1>1
  <2>2. /\ modal[d].frame /\ modal' = [modal EXCEPT ![d].frame = FALSE] /\ focus' = Item(d)
        /\ UNCHANGED <<open, loaded, aside, inert, route, home, travelling>>
    BY <2>1 DEF InitialFocus
  <2>3. /\ modal' \in [Dialogs -> Effects]
        /\ \A c \in Dialogs : /\ modal'[c].on = modal[c].on /\ (modal'[c].frame => modal[c].frame)
                              /\ modal'[c].previous = modal[c].previous
                              /\ modal'[c].background = modal[c].background
    BY <1>0, <2>2 DEF ShellTypeOK, Effects
  <2>4. Mounted' = Mounted /\ d \in Mounted
    BY <1>0, <2>2, <2>3 DEF Mounted, DialogLocks
  <2>5. ShellTypeOK' /\ DialogLocks'
    BY <1>0, <2>2, <2>3, <2>4, Names DEF ShellTypeOK, DialogLocks, Mounted, route
  <2>6. focus'[1] = d /\ d \notin Pages /\ PartOf(focus') = d
    BY <2>2, Names DEF PartOf
  <2>7. Present(focus)'
    BY <2>4, <2>6 DEF Present, Dialogs
  <2>8. ASSUME NEW c \in Mounted PROVE Recalls(modal[c].previous)'
    <3>1. modal'[c].previous = modal[c].previous /\ Recalls(modal[c].previous)
      BY <1>0, <2>3, <2>8 DEF FocusIsKnown, Mounted
    <3> QED BY <2>2, <2>4, <3>1 DEF Recalls, Present, route
  <2> QED BY <2>4, <2>5, <2>6, <2>7, <2>8 DEF ShellInv, FocusIsKnown, Dialogs
<1>2. CASE CommitRoute
  BY <1>2, RouteKeeps
<1>3. CASE Arrive
  <2>1. focus' \in {focus, Focused(GoalOf[location], inert)} /\ arrival' = NoFrame
        /\ UNCHANGED <<shell, target, location, visible, home, travelling>>
    BY <1>3 DEF Arrive
  <2>2. GoalOf[location] \in Elements /\ PartOf(GoalOf[location]) = "main"
    BY <1>0, GoalIsMain DEF ShellTypeOK
  <2>3. focus' # focus => focus' = GoalOf[location] /\ Present(GoalOf[location]) /\ "main" \notin inert
    BY <2>1, <2>2 DEF Focused
  <2>4. focus' \in Elements /\ NoFrame \in [on : BOOLEAN, from : Elements]
    BY <1>0, <2>2, <2>3, Names DEF ShellTypeOK, NoFrame
  <2>5. Mounted' = Mounted
    BY <2>1 DEF Mounted, shell
  <2>6. Present(focus)'
    BY <1>0, <2>1, <2>3, <2>5 DEF Present, FocusIsKnown, shell
  <2>7. ShellInv'
    BY <1>0, <2>1, <2>4, <2>6, FocusKeeps DEF ShellTypeOK, shell
  <2> QED BY <1>0, <2>3, <2>5, <2>7
<1>4. ASSUME NEW e \in Elements, MoveFocus(e)
      PROVE  ShellInv' /\ Mounted' = Mounted /\ (Mounted # {} => PartOf(focus') \notin {"topbar", "main"})
  <2>1. focus' = e /\ Present(e) /\ PartOf(e) \notin inert /\ travelling' = FALSE /\ UNCHANGED <<shell, route, home>>
    BY <1>4 DEF MoveFocus, Reachable
  <2>2. Mounted' = Mounted
    BY <2>1 DEF Mounted, shell
  <2>3. Present(focus)'
    BY <2>1, <2>2 DEF Present, shell, route
  <2>4. ShellInv'
    BY <1>0, <2>1, <2>3, FocusKeeps DEF ShellTypeOK, shell, route
  <2> QED BY <1>0, <2>1, <2>2, <2>4
<1>5. CASE FixFocus
  <2>1. focus' = Body /\ UNCHANGED <<shell, route, home, travelling>>
    BY <1>5 DEF FixFocus
  <2>2. Present(focus)' /\ PartOf(focus') = "body"
    BY <2>1, Names DEF Present, Dialogs
  <2> QED BY <1>0, <2>1, <2>2, Names, FocusKeeps DEF ShellTypeOK, shell, route
<1>6. CASE (\E c \in Chunks : ChunkArrives(c)) \/ MountSidebar \/ (\E l \in Locations : Follow(l)) \/ Reveal
           \/ UNCHANGED vars
  <2>1. /\ UNCHANGED <<open, modal, inert, focus, location, home>>
        /\ loaded' \in SUBSET Chunks /\ aside' \in BOOLEAN /\ (aside => aside')
        /\ visible' \in BOOLEAN /\ (visible => visible')
        /\ arrival' \in [on : BOOLEAN, from : Elements] /\ travelling' \in BOOLEAN
        /\ target' \in Locations
    <3>1. CASE \E c \in Chunks : ChunkArrives(c)
      BY <1>0, <3>1 DEF ShellTypeOK, ChunkArrives, route
    <3>2. CASE MountSidebar
      BY <1>0, <3>2 DEF ShellTypeOK, MountSidebar, route
    <3>3. CASE \E l \in Locations : Follow(l)
      BY <1>0, <3>3 DEF ShellTypeOK, Follow, shell
    <3>4. CASE Reveal
      BY <1>0, <3>4 DEF ShellTypeOK, Reveal, shell
    <3>5. CASE UNCHANGED vars
      BY <1>0, <3>5 DEF ShellTypeOK, vars, shell, route
    <3> QED BY <1>6, <3>1, <3>2, <3>3, <3>4, <3>5
  <2>2. Mounted' = Mounted
    BY <2>1 DEF Mounted
  <2>3. Present(focus)'
    BY <1>0, <2>1, <2>2 DEF Present, FocusIsKnown
  <2> QED BY <1>0, <2>1, <2>2, <2>3, FocusKeeps DEF ShellTypeOK
<1> QED BY <1>1, <1>2, <1>3, <1>4, <1>5, <1>6 DEF Next, Commits

LEMMA ShellInitial == Init => ShellInv
<1> SUFFICES ASSUME Init PROVE ShellInv
  OBVIOUS
<1>1. \A d \in Dialogs : modal[d] = NoEffect
  BY DEF Init
<1>2. NoEffect \in Effects /\ ~NoEffect.on /\ ~NoEffect.frame
  BY Names DEF NoEffect, Effects
<1>3. NoFrame \in [on : BOOLEAN, from : Elements]
  BY Names DEF NoFrame
<1>4. Mounted = {}
  BY <1>1, <1>2 DEF Mounted
<1>5. ShellTypeOK
  BY <1>2, <1>3, Names, ShellAssumption DEF Init, ShellTypeOK, Opens
<1>6. DialogLocks /\ FocusIsKnown
  BY <1>1, <1>2, <1>4, Names DEF Init, DialogLocks, FocusIsKnown
<1> QED BY <1>5, <1>6 DEF ShellInv

LEMMA ShellStep == ShellInv /\ [Next]_vars => ShellInv'
BY CommitsKeep, OtherSteps

(***************************************************************************)
(* Theorems.                                                                *)
(***************************************************************************)
\* What the dialogs, the inert parts and the focus know of each other.
THEOREM ShellInvariant == Spec => []ShellInv
BY ShellInitial, ShellStep, PTL DEF Spec

\* LockedWhileModal: the topbar and the content are inert while a dialog is
\* there, and nothing is inert otherwise.
THEOREM LockedExactlyWhileModal == Spec => []LockedWhileModal
<1>1. ShellInv => LockedWhileModal
  BY DEF ShellInv, DialogLocks, LockedWhileModal
<1> QED BY <1>1, ShellInvariant, PTL

\* FocusReturns: when the last dialog goes, the focus is where it was before the
\* first came, as long as that element is there.
THEOREM FocusAlwaysReturns == Spec => FocusReturns
<1>1. ShellInv /\ [Next]_vars =>
        [Mounted # {} /\ Mounted' = {} =>
           IF home = Body THEN focus'[1] \notin Dialogs ELSE focus' = home]_vars
  <2> SUFFICES ASSUME ShellInv, Next, Mounted # {}, Mounted' = {}
               PROVE  IF home = Body THEN focus'[1] \notin Dialogs ELSE focus' = home
    OBVIOUS
  <2>1. Recalls(focus')
    BY CommitsKeep, OtherSteps
  <2> QED BY <2>1 DEF Recalls
<1> QED BY <1>1, ShellInvariant, PTL DEF Spec, FocusReturns

\* NoStolenFocus: no late frame, and no route that arrives under a dialog, takes
\* the focus out of it into the topbar or the content.
THEOREM FocusIsNeverStolen == Spec => NoStolenFocus
<1>1. ShellInv /\ [Next]_vars =>
        [Mounted \cap Mounted' # {} /\ focus' # focus => PartOf(focus') \notin {"topbar", "main"}]_vars
  <2> SUFFICES ASSUME ShellInv, Next, Mounted \cap Mounted' # {}, focus' # focus
               PROVE  PartOf(focus') \notin {"topbar", "main"}
    OBVIOUS
  <2> QED BY CommitsKeep, OtherSteps
<1> QED BY <1>1, ShellInvariant, PTL DEF Spec, NoStolenFocus

(***************************************************************************)
(* What a link that was followed still waits for.                           *)
(***************************************************************************)
\* Until the content has the focus the address is still to be drawn, or its first
\* content is, or the frame of RouteFocus is due and will move the focus: the
\* focus is the one that frame compares with, also after a dialog gave it back.
LinkIsServed == travelling =>
  /\ Mounted = {}
  /\ \/ target # location \/ ~visible
     \/ arrival.on /\ focus \in {arrival.from, Body}
     \/ PartOf(focus) = "main"

\* A dialog's link closes the dialog, and no dialog is left.
LEMMA FollowedFrom ==
  ASSUME ShellInv, NEW d \in Dialogs, NEW l \in Locations, FollowFrom(d, l)
  PROVE  LinkIsServed'
<1>1. d \in Mounted /\ Commit(open \ {d}, focus)
  BY DEF FollowFrom
<1>2. open \ {d} = {} /\ Mounted = {d}
  BY <1>1, OneDialog
<1>3. Commit({}, focus)
  BY <1>1, <1>2
<1>4. Mounted' = {}
  <2>1. \A c \in Dialogs : c \notin Mounted => ~modal[c].on
    BY DEF Mounted
  <2>2. modal' = [c \in Dialogs |-> IF c \in Mounted THEN NoEffect ELSE modal[c]]
    BY <1>3 DEF Commit
  <2> QED BY <2>1, <2>2 DEF Mounted, NoEffect
<1>5. travelling' => target' # location'
  BY DEF FollowFrom
<1> QED BY <1>4, <1>5 DEF LinkIsServed

\* The frame of RouteFocus moves the focus into the content, or finds it there.
LEMMA ArriveServes ==
  ASSUME ShellInv, LinkIsServed, Arrive
  PROVE  LinkIsServed'
<1>0. UNCHANGED <<shell, target, location, visible, travelling>> /\ location \in Locations
  BY DEF Arrive, ShellInv, ShellTypeOK
<1>1. Mounted' = Mounted
  BY <1>0 DEF shell, Mounted
<1> SUFFICES ASSUME travelling, target = location, visible PROVE PartOf(focus)' = "main"
  BY <1>0, <1>1 DEF LinkIsServed
<1>2. focus \in {arrival.from, Body} \/ PartOf(focus) = "main"
  BY DEF LinkIsServed
<1>3. CASE focus \in {arrival.from, Body}
  <2>1. focus' = Focused(GoalOf[location], inert)
    BY <1>3 DEF Arrive
  <2>2. inert = {}
    BY DEF LinkIsServed, ShellInv, DialogLocks
  <2>3. PageOf[location] \in Pages /\ GoalOf[location] \in {Main, <<PageOf[location], "anchor">>}
    BY <1>0, ShellAssumption
  <2>4. Present(GoalOf[location])
    <3>1. GoalOf[location] = Main \/ GoalOf[location][1] = PageOf[location]
      BY <2>3
    <3>2. PageOf[location] # "sidebar" /\ PageOf[location] \notin Dialogs
      BY <2>3, Names DEF Parts
    <3> QED BY <3>1, <3>2, Names DEF Present
  <2> QED BY <1>0, <2>1, <2>2, <2>4, GoalIsMain DEF Focused, PartOf
<1>4. CASE focus \notin {arrival.from, Body}
  BY <1>2, <1>4 DEF Arrive, PartOf
<1> QED BY <1>3, <1>4

\* No step takes from a link that was followed what it waits for.
LEMMA LinkStep == ShellInv /\ LinkIsServed /\ [Next]_vars => LinkIsServed'
<1> SUFFICES ASSUME ShellInv, LinkIsServed, [Next]_vars PROVE LinkIsServed'
  OBVIOUS
<1>1. CASE ~travelling'
  BY <1>1 DEF LinkIsServed
<1>2. ASSUME NEW d \in Dialogs, InitialFocus(d) PROVE LinkIsServed'
  BY <1>2 DEF InitialFocus, ShellInv, DialogLocks, Mounted, LinkIsServed
<1>3. ASSUME NEW l \in Locations, Follow(l) PROVE LinkIsServed'
  BY <1>3 DEF Follow, LinkIsServed, shell, Mounted
<1>4. CASE CommitRoute
  <2>1. UNCHANGED <<visible, travelling>> /\ arrival' = IF visible THEN [on |-> TRUE, from |-> focus'] ELSE NoFrame
    BY <1>4 DEF CommitRoute
  <2> QED BY <1>4, <2>1, RouteKeeps DEF LinkIsServed
<1>5. CASE Reveal
  BY <1>5 DEF Reveal, LinkIsServed, shell, Mounted
<1>6. CASE FixFocus
  BY <1>6 DEF FixFocus, ShellInv, DialogLocks, LinkIsServed
<1>7. CASE (\E c \in Chunks : ChunkArrives(c)) \/ MountSidebar
  BY <1>7 DEF ChunkArrives, MountSidebar, LinkIsServed, route, Mounted, PartOf
<1>8. CASE UNCHANGED vars
  BY <1>8 DEF vars, shell, route, LinkIsServed, Mounted, PartOf
<1>9. ClickMenu \/ ClickSearch \/ KeySearch \/ MountDialog \/ (\E d \in Dialogs : Close(d))
        \/ (\E e \in Elements : MoveFocus(e)) => ~travelling'
  BY DEF ClickMenu, ClickSearch, KeySearch, MountDialog, Close, MoveFocus
<1> QED BY <1>1, <1>2, <1>3, <1>4, <1>5, <1>6, <1>7, <1>8, <1>9, FollowedFrom, ArriveServes DEF Next

\* The safety half of LinkEndsInMain: a link that was followed, also from a result
\* of the search whose dialog took the focus back, always has a step due that
\* brings the focus into the content.
THEOREM LinkIsAlwaysServed == Spec => []LinkIsServed
<1>1. Init => LinkIsServed
  BY DEF Init, LinkIsServed
<1> QED BY <1>1, LinkStep, ShellInvariant, PTL DEF Spec

=============================================================================
