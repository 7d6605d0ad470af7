------------------------------- MODULE FileImport -------------------------------
(***************************************************************************)
(* What a page that imports a pair of local files promises: a recording is  *)
(* shown only after an explicit start, only of the files now in its two     *)
(* boxes, and any change of mind (another file, cancel, reset, leaving the  *)
(* page) takes it away at once.  An import that was given up never comes    *)
(* back (docs/recorded-resource-import-v1.md, "Cancel stops the active      *)
(* browser FileReader").                                                    *)
(***************************************************************************)
CONSTANTS Files, NoFile, NoPair

VARIABLES choice, phase, shown

vars == <<choice, phase, shown>>

Boxes == {1, 2}
NoChoice == [b \in Boxes |-> NoFile]
Chosen(c) == \A b \in Boxes : c[b] # NoFile

Init == choice = NoChoice /\ phase = "empty" /\ shown = NoPair

\* Another file in a box, cancel, reset, or leaving the page.
GiveUp ==
  /\ phase' = "empty" /\ shown' = NoPair
  /\ \/ UNCHANGED choice
     \/ choice' = NoChoice
     \/ \E b \in Boxes, f \in Files \cup {NoFile} : choice' = [choice EXCEPT ![b] = f]

Start ==
  /\ phase # "working" /\ Chosen(choice)
  /\ phase' = "working" /\ shown' = NoPair
  /\ UNCHANGED choice

Succeed ==
  /\ phase = "working"
  /\ phase' = "shown" /\ shown' = choice
  /\ UNCHANGED choice

Refuse ==
  /\ phase = "working"
  /\ phase' = "refused"
  /\ UNCHANGED <<choice, shown>>

Next == GiveUp \/ Start \/ Succeed \/ Refuse

Spec == Init /\ [][Next]_vars

=============================================================================
