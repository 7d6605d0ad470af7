----------------------------- MODULE PhysicalPanel -----------------------------
(***************************************************************************)
(* The panel src/components/LivePhysicalCpuDebugV20.tsx on top of the V20   *)
(* client it creates: what its controls may do, and what it shows.          *)
(*                                                                         *)
(* perform starts with clear(), calls one method of the client and awaits   *)
(* it; it shows the result, and ends the wait, only if epoch.current is     *)
(* still what it read after clear().  The epoch is compared with nothing    *)
(* else, so a handler keeps a flag, reset wherever the epoch advances.      *)
(* A method of the client awaits one exchange, which names the handler.     *)
(* The profile box is taken to be checked: unchecking it is one of the      *)
(* edits of ReplaceInput and disables only the connect control.             *)
(***************************************************************************)
EXTENDS PhysicalCpuSession

VARIABLES
  mounted,  \* the panel is in the page
  busy,     \* useState(busy)
  reply,    \* useState(reply), NoAnswer for null
  handlers  \* activations of perform awaiting the client

panel == <<mounted, busy, reply, handlers>>
panelVars == <<vars, panel>>

NoHandler == [state |-> "none", current |-> FALSE, value |-> NoAnswer]

PanelInit ==
  /\ Init
  /\ mounted = TRUE /\ busy = FALSE /\ reply = NoAnswer
  /\ handlers = [g \in Gens |-> NoHandler]

PanelQuiet == Quiet /\ \A g \in Gens : handlers[g].state \notin {"resolved", "rejected"}

Superseded == [g \in Gens |-> [handlers[g] EXCEPT !.current = FALSE]]

\* Faulty variant: clear() leaves the reply on the page.
ClearEpochOnly(waiting) ==
  /\ busy' = waiting
  /\ UNCHANGED <<mounted, reply>>

\* clear(), and what perform makes of busy before any other task runs.
ClearShown(waiting) ==
  /\ reply' = NoAnswer
  /\ busy' = waiting
  /\ UNCHANGED mounted

\* The client has begun an exchange under its new generation.
Await ==
  /\ ClearShown(TRUE)
  /\ handlers' = [Superseded EXCEPT ![generation + 1] =
                    [state |-> "waiting", current |-> TRUE, value |-> NoAnswer]]

\* The client refuses without sending: perform ends before any other task.
Refused ==
  /\ ClearShown(FALSE)
  /\ handlers' = Superseded
  /\ UNCHANGED vars

(***************************************************************************)
(* The controls, each with the condition under which it is not disabled.    *)
(***************************************************************************)
enabled == ready /\ ~busy

PressConnect ==
  /\ ~busy /\ conn = 0
  /\ (Connect /\ Await) \/ Refused

\* Typed text that is no command is refused; so is any once the budget is spent.
PressCommand(op, n) ==
  /\ enabled
  /\ op \in Queries => protocols[conn].selected # NoStamp
  /\ op = "next" => protocols[conn].next # NoStamp
  /\ (Command(op, n) /\ Await) \/ Refused

\* Also offered while the panel is busy.
PressDisconnect ==
  /\ conn # 0
  /\ Disconnect /\ Await

\* replace(): typing an address or a token, or toggling the profile box.
ReplaceInput ==
  /\ Invalidate
  /\ ClearShown(FALSE)
  /\ handlers' = Superseded

\* Typing a count, a cursor, a page size, an offset or a length.
EditField ==
  /\ enabled
  /\ reply' = NoAnswer
  /\ UNCHANGED <<vars, mounted, busy, handlers>>

\* The effect's cleanup: epoch.current++ and client.dispose().
Unmount ==
  /\ (conn # 0 /\ Disconnect) \/ (conn = 0 /\ Invalidate)
  /\ mounted' = FALSE
  /\ handlers' = Superseded
  /\ UNCHANGED <<busy, reply>>

Panel ==
  \/ PressConnect
  \/ \E op \in {"step", "reverse"}, n \in Counts : PressCommand(op, n)
  \/ \E n \in 0..End + 1 : PressCommand("seek", n)
  \/ \E op \in Queries \cup {"state"} : PressCommand(op, 0)
  \/ PressDisconnect \/ ReplaceInput \/ EditField \/ Unmount

(***************************************************************************)
(* Steps of the client, and what they mean for the handler that awaits it.  *)
(***************************************************************************)
Settle(g, state, value) ==
  handlers' = [handlers EXCEPT ![g] =
    IF @.state = "waiting" THEN [@ EXCEPT !.state = state, !.value = value] ELSE @]

\* connect and command resolve to an observation, disconnect to undefined.
Observation(g) == IF calls[g].req.kind = "disconnect" THEN NoAnswer ELSE calls[g].answer

ClientStep(g) ==
  /\ UNCHANGED <<mounted, busy, reply>>
  /\ \/ Finish(g) /\ Settle(g, "resolved", Observation(g))
     \/ (Unwind(g) \/ FinishLate(g)) /\ Settle(g, "rejected", NoAnswer)

ClientTask(g) ==
  /\ UNCHANGED <<mounted, busy, reply>>
  /\ \/ DeliverFailure(g) /\ Settle(g, "rejected", NoAnswer)
     \/ (Timeout(g) \/ Deliver(g) \/ Hashed(g)) /\ UNCHANGED handlers

(***************************************************************************)
(* The rest of perform, after its await.                                    *)
(***************************************************************************)
\* Faulty variant: the finally block without the epoch check.
PerformEndsAnyWait(g) ==
  LET h == handlers[g] IN
  /\ h.state \in {"resolved", "rejected"}
  /\ reply' = IF h.current /\ h.state = "resolved" THEN h.value ELSE reply
  /\ busy' = FALSE
  /\ handlers' = [handlers EXCEPT ![g] = NoHandler]
  /\ UNCHANGED <<vars, mounted>>

\* Faulty variant: setBusy in the try block instead of the finally block.
PerformEndsOnSuccess(g) ==
  LET h == handlers[g] IN
  /\ h.state \in {"resolved", "rejected"}
  /\ reply' = IF h.current /\ h.state = "resolved" THEN h.value ELSE reply
  /\ busy' = IF h.current /\ h.state = "resolved" THEN FALSE ELSE busy
  /\ handlers' = [handlers EXCEPT ![g] = NoHandler]
  /\ UNCHANGED <<vars, mounted>>

PerformEnds(g) ==
  LET h == handlers[g] IN
  /\ h.state \in {"resolved", "rejected"}
  /\ reply' = IF h.current /\ h.state = "resolved" THEN h.value ELSE reply
  /\ busy' = IF h.current THEN FALSE ELSE busy
  /\ handlers' = [handlers EXCEPT ![g] = NoHandler]
  /\ UNCHANGED <<vars, mounted>>

PanelMicrotask == \E g \in Gens : ClientStep(g) \/ PerformEnds(g)

BridgeStep == \E g \in Gens : ServeConnect(g) \/ ServeCommand(g) \/ ServeDisconnect(g)

PanelNext ==
  \/ mounted /\ PanelQuiet /\ Panel
  \/ PanelMicrotask
  \/ PanelQuiet /\ \E g \in Gens : ClientTask(g)
  \/ BridgeStep /\ UNCHANGED panel

PanelSpec == PanelInit /\ [][PanelNext]_panelVars

\* Due continuations run, timers fire and digests are computed.
PanelFairness ==
  /\ WF_panelVars(PanelMicrotask)
  /\ \A g \in Gens : WF_panelVars(PanelQuiet /\ (Timeout(g) \/ Hashed(g)) /\ UNCHANGED panel)

PanelFairSpec == PanelSpec /\ PanelFairness

(***************************************************************************)
(* Properties.                                                              *)
(***************************************************************************)
\* The observation on the page is the answer to the last request of the present
\* connection, at the event and revision the next command will be anchored to
\* and, while the bridge keeps the session, where the bridge is; and the panel
\* offers a next page exactly if the page of values it shows has one.
ShownIsCurrent ==
  mounted /\ reply # NoAnswer =>
    LET p == protocols[conn] IN
    /\ ready /\ ~busy
    /\ reply.conn = conn /\ reply.id = p.sent /\ reply.at = p.at
    /\ bridge.conn = conn => bridge.at = reply.at /\ bridge.served = reply.id
    /\ p.next # NoStamp <=> reply.more

CurrentHandlers == {g \in Gens : handlers[g].state # "none" /\ handlers[g].current}

\* The panel is busy exactly while one activation of perform that was not
\* superseded awaits the client, also when disconnect is pressed over a command
\* or a second disconnect over the first; whatever exchange of its client can
\* still succeed, the panel waits for it.
BusyIsAwaiting == mounted =>
  /\ busy <=> CurrentHandlers # {}
  /\ \A g, h \in CurrentHandlers : g = h
  /\ pending # 0 => busy /\ pending \in CurrentHandlers

\* The panel never stays busy for ever: every activation of perform ends in its
\* finally block, or its successor's does.
BusyEnds == busy ~> (~busy \/ ~mounted)

=============================================================================
