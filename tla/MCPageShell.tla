------------------------------ MODULE MCPageShell -------------------------------
(***************************************************************************)
(* Two pages; the second has two addresses, one of them with an anchor.     *)
(***************************************************************************)
EXTENDS PageShell

CONSTANTS p1, p2, l1, l2, l3

MCPages == {p1, p2}
MCLocations == {l1, l2, l3}
MCPageOf == [l \in MCLocations |-> IF l = l1 THEN p1 ELSE p2]
MCGoalOf == [l \in MCLocations |-> IF l = l3 THEN <<p2, "anchor">> ELSE Main]

=============================================================================
