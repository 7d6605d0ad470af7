------------------------------- MODULE LdsRecorder ------------------------------
(***************************************************************************)
(* What the reader of a V22 transcript promises: everything it accepts is   *)
(* said of one recording that does not change.  The recordings that explain *)
(* what has been read so far are kept: for each checkpoint its possible     *)
(* tables and images.  A page or a window leaves exactly those that show it,*)
(* moving about leaves all of them, also when the cursor comes back.        *)
(***************************************************************************)
EXTENDS Naturals

CONSTANTS
  Cursors, Checkpoints, FirstCaptured,
  Tables, Pages, ShowsPage(_, _),
  Images, Windows, ShowsWindow(_, _)

VARIABLES cursor, tables, images

vars == <<cursor, tables, images>>

Init ==
  /\ cursor = 0
  /\ tables = Tables
  /\ images = [e \in Checkpoints |-> Images]

Move == cursor' \in Cursors /\ UNCHANGED <<tables, images>>

ReadValues ==
  /\ cursor \in Checkpoints
  /\ \E p \in Pages[cursor] :
       tables' = [tables EXCEPT ![cursor] = {t \in @ : ShowsPage(t, p)}]
  /\ UNCHANGED <<cursor, images>>

ReadMemory ==
  /\ cursor \in Checkpoints /\ cursor >= FirstCaptured
  /\ \E w \in Windows :
       images' = [images EXCEPT ![cursor] = {m \in @ : ShowsWindow(m, w)}]
  /\ UNCHANGED <<cursor, tables>>

Next == Move \/ ReadValues \/ ReadMemory

Spec == Init /\ [][Next]_vars

=============================================================================
