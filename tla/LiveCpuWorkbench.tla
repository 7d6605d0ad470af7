--------------------------- MODULE LiveCpuWorkbench ---------------------------
(***************************************************************************)
(* The panel src/components/LiveCpuDebuggerWorkbench.tsx on top of the      *)
(* CpuDebugSession it creates: what its buttons may do, and what it shows.  *)
(*                                                                         *)
(* A handler of the panel calls one method of the client, awaits it, and    *)
(* shows the result only if generation.current is still the value it read   *)
(* at the start.  The counter is compared with nothing else, so a handler   *)
(* keeps a flag instead: current is reset wherever the counter advances.    *)
(* Handlers run as tasks: none starts while a continuation is due.          *)
(***************************************************************************)
EXTENDS CpuDebugSession

VARIABLES
  mounted,            \* the panel is in the page
  busy,               \* useState(busy)
  reply,              \* the reply shown, as the view it came with
  queryCollection,    \* the checkpoint of the collection shown
  observedCollection, \* the anchor of the observations shown
  targetReply,        \* the anchor of the declared target shown
  handlers            \* handlers awaiting the client, named like its calls

panel == <<mounted, busy, reply, queryCollection, observedCollection, targetReply, handlers>>
panelVars == <<vars, panel>>

\* state is none, waiting, resolved or rejected; kind is connect, send, queries,
\* observed, target or disconnect.
NoHandler == [state |-> "none", kind |-> "none", current |-> FALSE, value |-> NoView]

PanelInit ==
  /\ Init
  /\ mounted = TRUE /\ busy = FALSE
  /\ reply = NoView
  /\ queryCollection = Nothing /\ observedCollection = Nothing /\ targetReply = Nothing
  /\ handlers = [g \in Gens |-> NoHandler]

PanelQuiet == Quiet /\ \A g \in Gens : handlers[g].state \notin {"resolved", "rejected"}

\* clearVisible: generation.current++ and everything shown is dropped.
Superseded == [g \in Gens |-> [handlers[g] EXCEPT !.current = FALSE]]

ClearReplies ==
  /\ reply' = NoView
  /\ queryCollection' = Nothing /\ observedCollection' = Nothing

\* Faulty variant: leaving the target on the page.
KeepTarget == ClearReplies /\ UNCHANGED targetReply

ClearVisible == ClearReplies /\ targetReply' = Nothing

\* The client was called and its promise is pending under its new generation.
Await(kind) ==
  /\ ClearVisible
  /\ busy' = TRUE
  /\ handlers' = [Superseded EXCEPT ![generation + 1] =
       [state |-> "waiting", kind |-> kind, current |-> TRUE, value |-> NoView]]
  /\ UNCHANGED mounted

\* The client refused without sending: the handler fails before any other task.
Rebuff ==
  /\ ClearVisible
  /\ busy' = FALSE
  /\ handlers' = Superseded
  /\ UNCHANGED mounted

Refused == Rebuff /\ UNCHANGED vars

enabled == ready /\ ~busy

(***************************************************************************)
(* The controls, each with the condition under which it is not disabled.    *)
(***************************************************************************)
\* An address or a secret that is not acceptable is refused before any request.
PressConnect ==
  /\ ~busy /\ conn = 0
  /\ (Connect /\ Await("connect")) \/ Refused

\* Text that is no command is refused whatever the client could send.
PressSend(op) ==
  /\ enabled
  /\ (Command(op) /\ Await("send")) \/ Refused

PressCollectQueries(sel) ==
  /\ ~busy /\ cache["checkpoint"] # Nothing
  /\ sel => queryCollection = cache["checkpoint"]
  /\ remainingCommands >= Reserve("query", sel)
  /\ IF CanCollect("query", sel)
     THEN (CollectQueries(sel) /\ Await("queries")) \/ (sel /\ CollectBadSelection("query") /\ Rebuff)
     ELSE Refused

\* The panel passes the collection on only while the client still holds it.
ShownObserved == IF observedCollection = cache["observed"] THEN observedCollection ELSE Nothing

PressCollectObserved(sel) ==
  /\ enabled
  /\ sel => ShownObserved # Nothing
  /\ remainingCommands >= Reserve("observed", sel)
  /\ IF CanCollect("observed", sel)
     THEN (CollectObserved(sel) /\ Await("observed")) \/ (sel /\ CollectBadSelection("observed") /\ Rebuff)
     ELSE Refused

PressInspectTarget ==
  /\ enabled /\ ShownObserved # Nothing /\ remainingCommands >= 1
  /\ IF CanSend("target", cache, 0) THEN InspectDeclaredTarget /\ Await("target") ELSE Refused

PressDisconnect ==
  /\ conn # 0
  /\ Disconnect /\ Await("disconnect")

\* Typing an address or a secret.
ReplaceConnection ==
  /\ Invalidate
  /\ ClearVisible
  /\ busy' = FALSE
  /\ handlers' = Superseded
  /\ UNCHANGED mounted

\* Typing in a field of the enabled controls: the shown target stays.
EditField ==
  /\ enabled
  /\ ClearReplies
  /\ UNCHANGED <<vars, mounted, busy, targetReply, handlers>>

\* The effect's cleanup: generation.current++ and client.dispose().
Unmount ==
  /\ (conn # 0 /\ Disconnect) \/ (conn = 0 /\ Invalidate)
  /\ mounted' = FALSE
  /\ handlers' = Superseded
  /\ UNCHANGED <<busy, reply, queryCollection, observedCollection, targetReply>>

Panel ==
  \/ PressConnect
  \/ \E op \in UserOps : PressSend(op)
  \/ \E sel \in BOOLEAN : PressCollectQueries(sel) \/ PressCollectObserved(sel)
  \/ PressInspectTarget \/ PressDisconnect
  \/ ReplaceConnection \/ EditField \/ Unmount

(***************************************************************************)
(* Steps of the client, and what they mean for the handler that awaits it.  *)
(***************************************************************************)
Shown == <<mounted, busy, reply, queryCollection, observedCollection, targetReply>>

\* The method awaiting exchange g resolves; a collector goes on and keeps the
\* reply as the last of its replies.
Resolve(g) ==
  handlers' = [h \in Gens |->
    IF handlers[h].state # "waiting" THEN handlers[h]
    ELSE IF h \in Awaiting(g) THEN [handlers[h] EXCEPT !.value = view']
    ELSE IF h = g /\ Awaiting(g) = {} THEN [handlers[h] EXCEPT !.state = "resolved", !.value = view']
    ELSE handlers[h]]

\* It rejects: a collector has a catch of its own, inspectDeclaredTarget none here.
Reject(g) ==
  handlers' = [h \in Gens |->
    IF /\ handlers[h].state = "waiting"
       /\ (h = g /\ Awaiting(g) = {}) \/ (h \in Awaiting(g) /\ jobs[h].kind = "target")
    THEN [handlers[h] EXCEPT !.state = "rejected"]
    ELSE handlers[h]]

Finish(l, state) ==
  handlers' = [handlers EXCEPT ![l].state = IF @ = "waiting" THEN state ELSE @]

ClientStep(g) ==
  /\ UNCHANGED Shown
  /\ \/ (AcceptConnect(g) \/ AcceptReply(g) \/ AcceptDisconnect(g)) /\ Resolve(g)
     \/ (Unwind(g) \/ RejectConnect(g) \/ RejectReply(g) \/ RejectDisconnect(g)) /\ Reject(g)
     \/ JobReturn(g) /\ Finish(g, "resolved")
     \/ JobFail(g) /\ Finish(g, "rejected")
     \/ JobSend(g) /\ UNCHANGED handlers

ClientTask(g) ==
  /\ UNCHANGED Shown
  /\ \/ DeliverFailure(g) /\ Reject(g)
     \/ (Timeout(g) \/ Deliver(g)) /\ UNCHANGED handlers

(***************************************************************************)
(* The rest of a handler, after its await.                                  *)
(***************************************************************************)
ShowAnyResult(g) ==
  LET h == handlers[g] IN
  /\ reply' = IF h.kind = "disconnect" THEN reply ELSE h.value
  /\ queryCollection' = IF h.kind = "queries" THEN cache["collection"] ELSE queryCollection
  /\ observedCollection' = IF h.kind \in {"observed", "target"} THEN cache["observed"]
                           ELSE observedCollection
  /\ targetReply' = IF h.kind = "target" THEN cache["observed"] ELSE targetReply

\* Only under current === generation.current.
Show(g) == IF handlers[g].current THEN ShowAnyResult(g)
           ELSE UNCHANGED <<reply, queryCollection, observedCollection, targetReply>>

\* Faulty variant: without the generation check.
FreeAlways(g) ==
  LET h == handlers[g] IN
  /\ h.state \in {"resolved", "rejected"}
  /\ IF h.state = "resolved" THEN Show(g)
     ELSE UNCHANGED <<reply, queryCollection, observedCollection, targetReply>>
  /\ busy' = FALSE
  /\ handlers' = [handlers EXCEPT ![g] = NoHandler]
  /\ UNCHANGED <<vars, mounted>>

\* Faulty variant: without the finally block.
FreeOnSuccess(g) ==
  LET h == handlers[g] IN
  /\ h.state \in {"resolved", "rejected"}
  /\ IF h.state = "resolved" THEN Show(g)
     ELSE UNCHANGED <<reply, queryCollection, observedCollection, targetReply>>
  /\ busy' = IF h.current /\ h.state = "resolved" THEN FALSE ELSE busy
  /\ handlers' = [handlers EXCEPT ![g] = NoHandler]
  /\ UNCHANGED <<vars, mounted>>

Continue(g) ==
  LET h == handlers[g] IN
  /\ h.state \in {"resolved", "rejected"}
  /\ IF h.state = "resolved" THEN Show(g)
     ELSE UNCHANGED <<reply, queryCollection, observedCollection, targetReply>>
  /\ busy' = IF h.current THEN FALSE ELSE busy
  /\ handlers' = [handlers EXCEPT ![g] = NoHandler]
  /\ UNCHANGED <<vars, mounted>>

PanelMicrotask == \E g \in Gens : ClientStep(g) \/ Continue(g)

PanelNext ==
  \/ mounted /\ PanelQuiet /\ Panel
  \/ PanelMicrotask
  \/ PanelQuiet /\ \E g \in Gens : ClientTask(g)
  \/ Environment /\ UNCHANGED panel

PanelSpec == PanelInit /\ [][PanelNext]_panelVars

\* The event loop runs every due continuation, and every timer fires.
PanelFairness == WF_panelVars(PanelMicrotask)
  /\ \A g \in Gens : WF_panelVars(PanelQuiet /\ Timeout(g) /\ UNCHANGED panel)

PanelFairSpec == PanelSpec /\ PanelFairness

(***************************************************************************)
(* Properties.                                                              *)
(***************************************************************************)
Fresh(s) == s # Nothing => s.conn = conn /\ (bridge.conn = conn => s.rev = bridge.rev)

\* Nothing shown outlives what it shows: a reply on the page is the view the
\* client would anchor its next command to, a collection, an observation or a
\* target is the one the client still holds, and while the bridge keeps the
\* session all of them are of the revision the debugged program is at.
ShownIsCurrent == mounted =>
  /\ reply.live => view = reply /\ Fresh([conn |-> conn, rev |-> reply.rev])
  /\ queryCollection # Nothing => queryCollection = cache["collection"]
  /\ observedCollection # Nothing => observedCollection = cache["observed"]
  /\ targetReply # Nothing => targetReply = cache["observed"]
  /\ Fresh(queryCollection) /\ Fresh(observedCollection) /\ Fresh(targetReply)

CurrentHandlers == {g \in Gens : handlers[g].state # "none" /\ handlers[g].current}

\* The panel is busy exactly while one handler it has not superseded awaits the
\* client: it never offers the controls during an exchange or a collection of
\* its own, never stays busy with nothing to wait for, and never lets a handler
\* that was superseded end the wait of the one that superseded it.
BusyIsAwaiting == mounted =>
  /\ busy <=> CurrentHandlers # {}
  /\ \A g, h \in CurrentHandlers : g = h
  /\ pending # 0 \/ lease # 0 => busy

\* The panel never stays busy for ever (up to the bound that keeps a collector
\* from sending its next command): every handler ends in its finally block.
BusyEnds == busy ~> (~busy \/ ~mounted \/ generation = MaxGeneration)

=============================================================================
