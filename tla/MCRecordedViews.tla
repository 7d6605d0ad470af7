---------------------------- MODULE MCRecordedViews -----------------------------
(***************************************************************************)
(* Two recordings whose request ids overlap: one with two checkpoints, two  *)
(* windows at the first and no page at the second, one with a single        *)
(* checkpoint without a window.                                             *)
(***************************************************************************)
EXTENDS RecordedViews

CONSTANTS f1, f2

MCFiles == {f1, f2}
Both(f) == [b \in Boxes |-> f]
MCImportable == {Both(f1), Both(f2)}

MCPoints == [p \in MCImportable |-> IF p = Both(f1) THEN {1, 5} ELSE {1}]
MCPages == [p \in MCImportable |->
  IF p = Both(f1) THEN [c \in {1, 5} |-> IF c = 1 THEN {2} ELSE {}] ELSE [c \in {1} |-> {2, 3}]]
MCMemories == [p \in MCImportable |->
  IF p = Both(f1) THEN [c \in {1, 5} |-> IF c = 1 THEN {3, 4} ELSE {6}] ELSE [c \in {1} |-> {}]]

=============================================================================
