---------------------------- MODULE DebugSession ----------------------------
(***************************************************************************)
(* What a caller of CpuDebugSession (src/lib/cpu-debug-session.ts) is        *)
(* promised, without its requests, timers, leases and caches.               *)
(*                                                                         *)
(* A session is opened under a fresh connection id and may be used only     *)
(* after its connect was answered.  It then alternates between live, where  *)
(* exactly one next command may be issued, and busy, where its outcome is   *)
(* open.  A command is answered or the session falls into doubt, and from   *)
(* doubt the only way on is to close: nothing is retried, and no second     *)
(* session is opened before the first is closed.  A live session never      *)
(* closes by itself.                                                        *)
(***************************************************************************)
EXTENDS Naturals

CONSTANTS
  MaxSequence,    \* CPU_BRIDGE_LIMITS.maxSequence
  MaxConnections  \* bound: connections the user opens

VARIABLES
  phase,     \* closed, opening, live, busy or doubt
  session,   \* the connection ids drawn so far; the last one names the session
  sequence   \* of the accepted view when live, of the command when busy

vars == <<phase, session, sequence>>

Init == phase = "closed" /\ session = 0 /\ sequence = 0

\* connect: only when no cleanup is owed.
Open ==
  /\ phase = "closed" /\ phase' = "opening"
  /\ session < MaxConnections /\ session' = session + 1
  /\ sequence' = 0

Opened ==
  /\ phase = "opening" /\ phase' = "live"
  /\ sequence' = 0
  /\ UNCHANGED session

\* One command, with the next sequence, and none past the limit.
Issue ==
  /\ phase = "live" /\ phase' = "busy"
  /\ sequence < MaxSequence /\ sequence' = sequence + 1
  /\ UNCHANGED session

Answer ==
  /\ phase = "busy" /\ phase' = "live"
  /\ UNCHANGED <<session, sequence>>

\* An error, a timeout, an answer that does not fit, invalidate or disconnect.
Doubt ==
  /\ phase \in {"opening", "live", "busy"} /\ phase' = "doubt"
  /\ sequence' = 0
  /\ UNCHANGED session

\* A confirmed disconnect, or an error that says the backend is closed.
Close ==
  /\ phase \in {"opening", "busy", "doubt"} /\ phase' = "closed"
  /\ sequence' = 0
  /\ UNCHANGED session

Next == Open \/ Opened \/ Issue \/ Answer \/ Doubt \/ Close

Spec == Init /\ [][Next]_vars

=============================================================================
