---------------------------- MODULE MCLdsTranscript -----------------------------
(***************************************************************************)
(* Two events, both checkpoints, and the sentinel after them.               *)
(* The read of one value is pending at the first checkpoint and both are at *)
(* the second, where alone the allocation of two bytes exists.              *)
(***************************************************************************)
EXTENDS LdsTranscript

CONSTANTS v1, v2, captured, notRepresented, zero, one

MCPending == [e \in Checkpoints |-> IF e = 1 THEN {v2} ELSE {v1, v2}]

=============================================================================
