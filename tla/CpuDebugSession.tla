--------------------------- MODULE CpuDebugSession ---------------------------
(***************************************************************************)
(* The live CPU debugger client of src/lib/cpu-debug-session.ts: one        *)
(* CpuDebugSession object, the HTTP exchanges it starts and the collectors  *)
(* of cpu-live-query-collection.ts and cpu-observed-collection.ts that      *)
(* drive it, against the local bridge it talks to.                          *)
(*                                                                         *)
(* JavaScript runs one task at a time but every await gives control back.   *)
(* An activation of an async method is therefore a record whose stage says  *)
(* which await it is suspended at.  Continuations that are due are          *)
(* microtasks: any caller may run between two of them, but no response and  *)
(* no timer is handled before all of them have run (Quiet).                 *)
(*                                                                         *)
(* Every exchange increments this.generation, so the generation an exchange *)
(* captured also names it: calls, wire and the AbortController in pending   *)
(* are indexed by generation.  A collector is named by the generation of    *)
(* its first command, which also stands for its lease object.               *)
(***************************************************************************)
EXTENDS Naturals

CONSTANTS
  MaxSequence,     \* CPU_BRIDGE_LIMITS.maxSequence: 254 in the code
  MaxConnections,  \* bound: connections the user opens
  MaxGeneration,   \* bound: increments of this.generation
  UserOps,         \* the operations a caller sends through command()
  InOrder,         \* the bridge never serves a request after a later one
  Replay           \* the bridge may answer with an earlier reply

ASSUME BoundsAssumption ==
  /\ MaxSequence \in Nat
  /\ MaxConnections \in Nat
  /\ MaxGeneration \in Nat
  /\ InOrder \in BOOLEAN
  /\ Replay \in BOOLEAN

(***************************************************************************)
(* Operations.  "step" is also reverse, "state" every other read without    *)
(* context (source and the lists), "edit" the four breakpoint and           *)
(* watchpoint changes of MUTATIONS.                                         *)
(***************************************************************************)
Moves    == {"step", "continue"}
Edits    == {"edit"}
Reads    == {"state", "stack", "memory"}
Queries  == {"variables", "allocations", "accesses"}
Observed == {"runtime", "lifecycle", "storage", "storageaccess",
             "storagememory", "target"}
Ops      == Moves \cup Edits \cup Reads \cup Queries \cup Observed

ASSUME UserOpsAssumption == UserOps \subseteq Ops

Gens  == 1..MaxGeneration
Conns == 1..MaxConnections

Requests == [kind : {"connect", "command", "disconnect", "none"},
             conn : 0..MaxConnections, seq : 0..MaxSequence, rev : Nat,
             op : Ops \cup {"discover", "none"}]
NoRequest == [kind |-> "none", conn |-> 0, seq |-> 0, rev |-> 0, op |-> "none"]

\* A reply by what the client can tell apart: a session reply, a cleanup
\* confirmation, a 200 response whose body does not decode, a decoded error by
\* its closed flag, or no usable response at all.
Tags == {"none", "view", "disconnected", "malformed", "error", "error_closed", "lost"}
Answers == [tag : Tags, conn : 0..MaxConnections, seq : 0..MaxSequence, rev : Nat,
            op : Ops \cup {"discover", "none"}, ok : BOOLEAN]
Note(t, c) == [tag |-> t, conn |-> c, seq |-> 0, rev |-> 0, op |-> "none", ok |-> FALSE]
NoAnswer == Note("none", 0)

Stages == {"idle", "wire", "aborted", "answered"}
Calls  == [stage : Stages, req : Requests, answer : Answers]
NoCall == [stage |-> "idle", req |-> NoRequest, answer |-> NoAnswer]

\* What a retained observation is an observation of.
Stamps == [conn : 0..MaxConnections, rev : Nat]
Nothing == [conn |-> 0, rev |-> 0]
Slots == {"checkpoint", "stack", "inventory", "collection",
          "runtime", "storage", "observed"}
NoCache == [s \in Slots |-> Nothing]

Views == [live : BOOLEAN, seq : 0..MaxSequence, rev : Nat]
NoView == [live |-> FALSE, seq |-> 0, rev |-> 0]

JobKinds == {"none", "query", "observed", "target"}
Jobs == [kind : JobKinds, conn : 0..MaxConnections, anchor : Stamps, sel : BOOLEAN,
         seq : 0..MaxSequence, wait : 0..MaxGeneration, next : Ops \cup {"done", "skip", "fail", "none"}]
NoJob == [kind |-> "none", conn |-> 0, anchor |-> Nothing, sel |-> FALSE,
          seq |-> 0, wait |-> 0, next |-> "none"]

VARIABLES
  conn,        \* this.connection: its connectionId, 0 for null
  view,        \* this.connection.view
  generation,  \* this.generation
  pending,     \* this.pending, 0 for null
  cache,       \* the seven retained observations of the session
  lease,       \* this.collectionLease, 0 for null
  owner,       \* this.observedOwner: the connection it came from, 0 for null
  calls,       \* activations of exchange and of the method awaiting it
  jobs,        \* activations of collectQueries, collectObserved, inspectDeclaredTarget
  opened,      \* connection ids drawn so far
  wire,        \* requests the bridge has not served yet
  bridge       \* the bridge: its session, and the reply it may repeat

client == <<conn, view, generation, pending, cache, lease, owner>>
vars   == <<conn, view, generation, pending, cache, lease, owner,
            calls, jobs, opened, wire, bridge>>

\* Every variable keeps its type: in particular no request is sent past the
\* sequence limit of sendCommand.
TypeOK ==
  /\ conn \in 0..MaxConnections
  /\ view \in Views
  /\ generation \in 0..MaxGeneration
  /\ pending \in 0..MaxGeneration
  /\ cache \in [Slots -> Stamps]
  /\ lease \in 0..MaxGeneration
  /\ owner \in 0..MaxConnections
  /\ calls \in [Gens -> Calls]
  /\ jobs \in [Gens -> Jobs]
  /\ opened \in 0..MaxConnections
  /\ wire \in [Gens -> Requests]
  /\ bridge \in [conn : 0..MaxConnections, seq : 0..MaxSequence, rev : Nat, echo : Answers]

Init ==
  /\ conn = 0 /\ view = NoView /\ generation = 0 /\ pending = 0
  /\ cache = NoCache /\ lease = 0 /\ owner = 0
  /\ calls = [g \in Gens |-> NoCall]
  /\ jobs = [g \in Gens |-> NoJob]
  /\ opened = 0
  /\ wire = [g \in Gens |-> NoRequest]
  /\ bridge = [conn |-> 0, seq |-> 0, rev |-> 0, echo |-> NoAnswer]

(***************************************************************************)
(* Derived state of the session.                                            *)
(***************************************************************************)
\* Faulty variant: forgetting the view.
ReadyWithoutView == conn # 0 /\ pending = 0
ready == conn # 0 /\ view.live /\ pending = 0
remainingCommands == IF view.live /\ view.seq < MaxSequence THEN MaxSequence - view.seq ELSE 0

Running(l) == jobs[l].kind # "none" /\ jobs[l].wait = 0

\* No continuation is due: the task queue may hand over a response or a timer.
Quiet ==
  /\ \A g \in Gens : calls[g].stage \notin {"aborted", "answered"}
  /\ \A l \in Gens : ~Running(l)

ClearObserved(q) == [s \in Slots |->
                      IF s \in {"runtime", "storage", "observed"} THEN Nothing ELSE q[s]]

(***************************************************************************)
(* exchange: a new AbortController, and the request goes out.               *)
(***************************************************************************)
Exchange(req) ==
  LET g == generation + 1 IN
  /\ generation < MaxGeneration
  /\ generation' = g
  /\ pending' = g
  /\ calls' = [calls EXCEPT ![g] = [stage |-> "wire", req |-> req, answer |-> NoAnswer]]
  /\ wire' = [wire EXCEPT ![g] = req]

Connect ==
  /\ conn = 0
  /\ opened < MaxConnections
  /\ opened' = opened + 1
  /\ conn' = opened + 1
  /\ view' = NoView
  /\ cache' = NoCache
  /\ owner' = 0
  /\ Exchange([kind |-> "connect", conn |-> opened + 1, seq |-> 0, rev |-> 0, op |-> "discover"])
  /\ UNCHANGED <<lease, jobs, bridge>>

(***************************************************************************)
(* sendCommand.  CanSend is what it refuses locally without sending,        *)
(* CacheOnSend the observations it drops before the request goes out.       *)
(***************************************************************************)
Admitted(op, q) ==
  /\ op \in Queries => q["checkpoint"] # Nothing
  /\ op = "variables" => q["stack"] # Nothing
  /\ op = "accesses" => q["inventory"] # Nothing
  /\ op \in Observed \ {"runtime"} => q["runtime"] # Nothing
  /\ op = "target" => owner # 0
  /\ op \in {"storageaccess", "storagememory"} => q["storage"] # Nothing

CanSend(op, q, token) ==
  /\ lease = token
  /\ ready
  /\ view.seq + 1 <= MaxSequence
  /\ Admitted(op, q)

\* Faulty variant: a move keeps the checkpoint, stack and inventory.
KeepOnSend(op, q) == IF op \in Observed THEN q ELSE ClearObserved(q)

CacheOnSend(op, q) ==
  LET kept == IF op \in Moves \cup Edits THEN NoCache
              ELSE [q EXCEPT !["collection"] = Nothing, !["observed"] = Nothing]
  IN IF op \in Observed THEN kept ELSE ClearObserved(kept)

\* Faulty variant: offering the old view while the command runs.
SendKeepingView(op, q) ==
  /\ cache' = CacheOnSend(op, q)
  /\ UNCHANGED view
  /\ Exchange([kind |-> "command", conn |-> conn, seq |-> view.seq + 1,
               rev |-> view.rev, op |-> op])

Send(op, q) ==
  /\ cache' = CacheOnSend(op, q)
  /\ view' = NoView
  /\ Exchange([kind |-> "command", conn |-> conn, seq |-> view.seq + 1,
               rev |-> view.rev, op |-> op])

Command(op) ==
  /\ CanSend(op, cache, 0)
  /\ Send(op, cache)
  /\ UNCHANGED <<conn, lease, owner, jobs, opened, bridge>>

(***************************************************************************)
(* The collectors.  Each takes the lease, reserves its largest number of    *)
(* commands and sends its first one before the first await.                 *)
(***************************************************************************)
\* Faulty variant: one command short.
ReserveShort(kind, sel) == IF sel THEN 4 ELSE 3

Reserve(kind, sel) ==
  IF kind = "query" THEN (IF sel THEN 5 ELSE 3) ELSE (IF sel THEN 6 ELSE 4)

StartJob(kind, sel, q, op, anchor) ==
  /\ Send(op, q)
  /\ jobs' = [jobs EXCEPT ![generation + 1] =
       [kind |-> kind, conn |-> conn, anchor |-> anchor, sel |-> sel,
        seq |-> view.seq + 1, wait |-> generation + 1, next |-> "none"]]
  /\ UNCHANGED <<conn, owner, opened, bridge>>

CanCollect(kind, sel) ==
  /\ lease = 0
  /\ ready
  /\ remainingCommands >= Reserve(kind, sel)
  /\ kind = "query" => cache["checkpoint"] # Nothing

CollectQueries(sel) ==
  /\ CanCollect("query", sel)
  /\ lease' = generation + 1
  /\ StartJob("query", sel,
       [cache EXCEPT !["collection"] = Nothing, !["stack"] = Nothing, !["inventory"] = Nothing],
       "stack", cache["checkpoint"])

CollectObserved(sel) ==
  /\ CanCollect("observed", sel)
  /\ lease' = generation + 1
  /\ StartJob("observed", sel, ClearObserved([cache EXCEPT !["collection"] = Nothing]),
       "state", Nothing)

\* A selection that fails validation: the collector throws before it sends.
CollectBadSelection(kind) ==
  /\ CanCollect(kind, TRUE)
  /\ cache' = NoCache
  /\ UNCHANGED <<conn, view, generation, pending, lease, owner, calls, jobs, opened, wire, bridge>>

InspectDeclaredTarget ==
  /\ cache["observed"] # Nothing
  /\ CanSend("target", cache, 0)
  /\ UNCHANGED lease
  /\ StartJob("target", FALSE, cache, "target", cache["observed"])

(***************************************************************************)
(* invalidate and disconnect.  The aborted exchange rejects in a microtask  *)
(* of its own (Unwind).                                                     *)
(***************************************************************************)
Aborted(cs) == [g \in Gens |->
  IF g = pending /\ cs[g].stage = "wire" THEN [cs[g] EXCEPT !.stage = "aborted"] ELSE cs[g]]

Invalidate ==
  /\ generation < MaxGeneration
  /\ generation' = generation + 1
  /\ pending' = 0
  /\ calls' = Aborted(calls)
  /\ lease' = 0 /\ cache' = NoCache /\ owner' = 0 /\ view' = NoView
  /\ UNCHANGED <<conn, jobs, opened, wire, bridge>>

Disconnect ==
  LET g == generation + 1
      req == [kind |-> "disconnect", conn |-> conn, seq |-> 0, rev |-> 0, op |-> "none"]
  IN
  /\ conn # 0
  /\ generation < MaxGeneration
  /\ generation' = g
  /\ pending' = g
  /\ calls' = [Aborted(calls) EXCEPT ![g] = [stage |-> "wire", req |-> req, answer |-> NoAnswer]]
  /\ wire' = [wire EXCEPT ![g] = req]
  /\ lease' = 0 /\ cache' = NoCache /\ owner' = 0 /\ view' = NoView
  /\ UNCHANGED <<conn, jobs, opened, bridge>>

(***************************************************************************)
(* The ends of an exchange.                                                 *)
(***************************************************************************)

Resumed(js, g, next) == [l \in Gens |->
  IF js[l].kind = "none" \/ js[l].wait # g THEN js[l]
  ELSE [js[l] EXCEPT !.wait = 0, !.next = next]]

\* sendCommand rejects: a collector's catch is due, inspectDeclaredTarget has none.
Rejected(js, g) == [l \in Gens |->
  IF js[l].kind = "target" /\ js[l].wait = g THEN NoJob ELSE Resumed(js, g, "fail")[l]]

\* Faulty variant: forgetting the connection after every error.
FailAlwaysCloses(g, closed) ==
  LET current == g = generation IN
  /\ view' = IF current THEN NoView ELSE view
  /\ cache' = IF current THEN NoCache ELSE cache
  /\ owner' = IF current THEN 0 ELSE owner
  /\ conn' = IF current /\ conn = calls[g].req.conn THEN 0 ELSE conn
  /\ pending' = IF pending = g THEN 0 ELSE pending
  /\ calls' = [calls EXCEPT ![g] = NoCall]
  /\ jobs' = Rejected(jobs, g)
  /\ UNCHANGED <<generation, lease, opened, wire, bridge>>

\* Faulty variant: clearing whatever is pending.
FailClearsPending(g, closed) ==
  LET current == g = generation IN
  /\ view' = IF current THEN NoView ELSE view
  /\ cache' = IF current THEN NoCache ELSE cache
  /\ owner' = IF current THEN 0 ELSE owner
  /\ conn' = IF current /\ closed /\ conn = calls[g].req.conn THEN 0 ELSE conn
  /\ pending' = 0
  /\ calls' = [calls EXCEPT ![g] = NoCall]
  /\ jobs' = Rejected(jobs, g)
  /\ UNCHANGED <<generation, lease, opened, wire, bridge>>

\* catch and finally of exchange, and the rejection of the method awaiting it.
Fail(g, closed) ==
  LET current == g = generation IN
  /\ view' = IF current THEN NoView ELSE view
  /\ cache' = IF current THEN NoCache ELSE cache
  /\ owner' = IF current THEN 0 ELSE owner
  /\ conn' = IF current /\ closed /\ conn = calls[g].req.conn THEN 0 ELSE conn
  /\ pending' = IF pending = g THEN 0 ELSE pending
  /\ calls' = [calls EXCEPT ![g] = NoCall]
  /\ jobs' = Rejected(jobs, g)
  /\ UNCHANGED <<generation, lease, opened, wire, bridge>>

Unwind(g) ==
  /\ calls[g].stage = "aborted"
  /\ Fail(g, FALSE)

\* setTimeout(() => aborter.abort(), CPU_BRIDGE_LIMITS.timeoutMs)
Timeout(g) ==
  /\ Quiet
  /\ calls[g].stage = "wire"
  /\ calls' = [calls EXCEPT ![g].stage = "aborted"]
  /\ UNCHANGED <<client, jobs, opened, wire, bridge>>

\* What can come back on the wire: the bridge's answer, nothing usable, bytes
\* that do not decode and, if Replay, an answer the bridge gave before.
Deliverable(g) ==
  {calls[g].answer, Note("lost", 0), Note("malformed", 0)}
    \cup (IF Replay THEN {bridge.echo} ELSE {})

\* An HTTP error, a refused body, a broken connection or a request that is no
\* longer the current one: exchange throws.
DeliverFailure(g) ==
  /\ Quiet
  /\ calls[g].stage = "wire"
  /\ \E a \in Deliverable(g) :
       /\ a.tag \in {"error", "error_closed", "lost"} \/ generation # g
       /\ Fail(g, a.tag = "error_closed")

\* A 200 response: exchange returns its text and the awaiting method is due.
Deliver(g) ==
  /\ Quiet
  /\ calls[g].stage = "wire"
  /\ generation = g
  /\ \E a \in Deliverable(g) :
       /\ a.tag \in {"view", "disconnected", "malformed"}
       /\ calls' = [calls EXCEPT ![g].stage = "answered", ![g].answer = a]
  /\ pending' = IF pending = g THEN 0 ELSE pending
  /\ UNCHANGED <<conn, view, generation, cache, lease, owner, jobs, opened, wire, bridge>>

(***************************************************************************)
(* decodeCpuBridgeReply: what ties a reply to the request it answers.       *)
(***************************************************************************)
RevisionAfter(op, ok, rev) ==
  IF ok /\ op \in Edits THEN {rev + 1}
  ELSE IF ok /\ op \in Moves THEN {rev, rev + 1}
  ELSE {rev}

\* Faulty variant: without the sequence.
DecodesAnyOrder(req, a) ==
  /\ a.tag = "view"
  /\ a.conn = req.conn
  /\ a.op = req.op
  /\ req.kind = "connect" => a.ok /\ a.rev = 0
  /\ req.kind = "command" => a.rev \in RevisionAfter(req.op, a.ok, req.rev)

Decodes(req, a) ==
  /\ a.tag = "view"
  /\ a.conn = req.conn
  /\ a.seq = req.seq
  /\ a.op = req.op
  /\ req.kind = "connect" => a.ok /\ a.rev = 0
  /\ req.kind = "command" => a.rev \in RevisionAfter(req.op, a.ok, req.rev)

Live(a) == [live |-> TRUE, seq |-> a.seq, rev |-> a.rev]

\* generation === this.generation && this.connection === connection
Current(g) == g = generation /\ conn = calls[g].req.conn

Answered(g, kind) == calls[g].stage = "answered" /\ calls[g].req.kind = kind

AcceptConnect(g) ==
  /\ Answered(g, "connect")
  /\ Decodes(calls[g].req, calls[g].answer) /\ Current(g)
  /\ view' = Live(calls[g].answer)
  /\ calls' = [calls EXCEPT ![g] = NoCall]
  /\ UNCHANGED <<conn, generation, pending, cache, lease, owner, jobs, opened, wire, bridge>>

RejectConnect(g) ==
  /\ Answered(g, "connect")
  /\ ~(Decodes(calls[g].req, calls[g].answer) /\ Current(g))
  /\ view' = IF conn = calls[g].req.conn THEN NoView ELSE view
  /\ calls' = [calls EXCEPT ![g] = NoCall]
  /\ UNCHANGED <<conn, generation, pending, cache, lease, owner, jobs, opened, wire, bridge>>

AcceptDisconnect(g) ==
  /\ Answered(g, "disconnect")
  /\ calls[g].answer.tag = "disconnected"
  /\ calls[g].answer.conn = calls[g].req.conn
  /\ g = generation
  /\ conn' = IF conn = calls[g].req.conn THEN 0 ELSE conn
  /\ calls' = [calls EXCEPT ![g] = NoCall]
  /\ UNCHANGED <<view, generation, pending, cache, lease, owner, jobs, opened, wire, bridge>>

RejectDisconnect(g) ==
  /\ Answered(g, "disconnect")
  /\ ~(/\ calls[g].answer.tag = "disconnected"
       /\ calls[g].answer.conn = calls[g].req.conn
       /\ g = generation)
  /\ view' = IF conn = calls[g].req.conn THEN NoView ELSE view
  /\ calls' = [calls EXCEPT ![g] = NoCall]
  /\ UNCHANGED <<conn, generation, pending, cache, lease, owner, jobs, opened, wire, bridge>>

(***************************************************************************)
(* The rest of sendCommand.  good says that the payload is one the client   *)
(* can use: a captured checkpoint, a complete one-frame stack, a ready      *)
(* inventory, an available allocation watermark.                            *)
(***************************************************************************)
CacheOnReply(op, q, s, ok, good) ==
  LET usable == IF ok /\ good THEN s ELSE Nothing IN
  CASE op = "runtime" ->
         [q EXCEPT !["runtime"] = IF ok THEN s ELSE Nothing, !["storage"] = Nothing]
    [] op \in Observed \ {"runtime"} /\ ~ok -> ClearObserved(q)
    [] op = "storage" /\ ok -> [q EXCEPT !["storage"] = s]
    [] op = "step" -> [q EXCEPT !["checkpoint"] = usable]
    [] op = "stack" /\ q["checkpoint"] # Nothing -> [q EXCEPT !["stack"] = usable]
    [] op = "allocations" -> [q EXCEPT !["inventory"] = usable]
    [] OTHER -> q

\* The owner a runtime reply names: always when it is ok, else it may be absent.
OwnersOnReply(op, ok) ==
  IF op # "runtime" THEN {owner} ELSE IF ok THEN {conn} ELSE {owner, conn}

\* A query reply repeats the session of the checkpoint, an observed reply the
\* binding of the runtime reply.
Bound(op, a, q) ==
  /\ op \in Queries => q["checkpoint"] = [conn |-> a.conn, rev |-> a.rev]
  /\ op \in Observed \ {"runtime"} => q["runtime"] = [conn |-> a.conn, rev |-> a.rev]

\* What a collector does after the reply to op: the next command, "done" with
\* a result, "skip" without one, or "fail".
NextOps(kind, sel, op, ok, good) ==
  IF kind = "target" THEN IF ok THEN {"done", "fail"} ELSE {"skip"}
  ELSE CASE op = "stack"         -> IF ok /\ good THEN {"variables"}
                                     ELSE IF ok THEN {"allocations", "fail"} ELSE {"allocations"}
         [] op = "variables"     -> {"allocations"}
         [] op = "allocations"   -> IF sel /\ ok /\ good THEN {"accesses", "fail"} ELSE {"done"}
         [] op = "accesses"      -> {"memory"}
         [] op = "memory"        -> {"done", "fail"}
         [] op = "state"         -> IF ok THEN {"runtime"} ELSE {"fail"}
         [] op = "runtime"       -> IF ok /\ good THEN {"lifecycle"} ELSE {"done"}
         [] op = "lifecycle"     -> IF ok THEN {"storage"} ELSE {"done"}
         [] op = "storage"       -> IF sel /\ ok THEN {"storageaccess", "fail"} ELSE {"done"}
         [] op = "storageaccess" -> IF ok THEN {"storagememory", "fail"} ELSE {"done"}
         [] OTHER                -> {"done"}

Awaiting(g) == {l \in Gens : jobs[l].kind # "none" /\ jobs[l].wait = g}

AcceptReply(g) ==
  LET c == calls[g]
      a == c.answer
      op == c.req.op
  IN
  /\ Answered(g, "command")
  /\ Decodes(c.req, a) /\ Bound(op, a, cache) /\ Current(g)
  /\ view' = Live(a)
  /\ owner' \in OwnersOnReply(op, a.ok)
  /\ \E good \in BOOLEAN :
       /\ cache' = CacheOnReply(op, cache, [conn |-> conn, rev |-> a.rev], a.ok, good)
       /\ \/ Awaiting(g) = {} /\ UNCHANGED jobs
          \/ \E l \in Awaiting(g) : \E next \in NextOps(jobs[l].kind, jobs[l].sel, op, a.ok, good) :
               jobs' = Resumed(jobs, g, next)
  /\ calls' = [calls EXCEPT ![g] = NoCall]
  /\ UNCHANGED <<conn, generation, pending, lease, opened, wire, bridge>>

RejectReply(g) ==
  LET c == calls[g] IN
  /\ Answered(g, "command")
  /\ ~(Decodes(c.req, c.answer) /\ Bound(c.req.op, c.answer, cache) /\ Current(g))
  /\ view' = IF conn = c.req.conn THEN NoView ELSE view
  /\ cache' = NoCache
  /\ owner' = 0
  /\ calls' = [calls EXCEPT ![g] = NoCall]
  /\ jobs' = Rejected(jobs, g)
  /\ UNCHANGED <<conn, generation, pending, lease, opened, wire, bridge>>

(***************************************************************************)
(* A collector that is due, after the await of one command.                 *)
(***************************************************************************)
JobCurrent(l) ==
  LET j == jobs[l] IN
  CASE j.kind = "query"    -> lease = l /\ cache["checkpoint"] = j.anchor
    [] j.kind = "observed" -> lease = l /\ conn = j.conn
    [] j.kind = "target"   -> conn = j.conn /\ ready /\ view.seq = j.seq
    [] OTHER               -> FALSE

\* Faulty variant: forgetting the lease.
ReleaseJobOnly(l) ==
  /\ UNCHANGED lease
  /\ jobs' = [jobs EXCEPT ![l] = NoJob]

Release(l) ==
  /\ lease' = IF lease = l THEN 0 ELSE lease
  /\ jobs' = [jobs EXCEPT ![l] = NoJob]

MaySend(l) == JobCurrent(l) /\ jobs[l].next \in Ops /\ CanSend(jobs[l].next, cache, l)
MayReturn(l) == JobCurrent(l) /\ jobs[l].next \in {"done", "skip"}

JobSend(l) ==
  /\ Running(l) /\ MaySend(l)
  /\ Send(jobs[l].next, cache)
  /\ jobs' = [jobs EXCEPT ![l].wait = generation + 1, ![l].next = "none"]
  /\ UNCHANGED <<conn, lease, owner, opened, bridge>>

JobReturn(l) ==
  LET j == jobs[l]
      here == [conn |-> conn, rev |-> view.rev]
  IN
  /\ Running(l) /\ MayReturn(l)
  /\ cache' = IF j.next = "skip" THEN cache
              ELSE IF j.kind = "query" THEN [cache EXCEPT !["collection"] = j.anchor]
              ELSE IF j.kind = "observed" THEN [cache EXCEPT !["observed"] = here]
              ELSE [cache EXCEPT !["observed"] = j.anchor]
  /\ Release(l)
  /\ UNCHANGED <<conn, view, generation, pending, owner, calls, opened, wire, bridge>>

JobFail(l) ==
  /\ Running(l) /\ ~MaySend(l) /\ ~MayReturn(l)
  /\ cache' = NoCache
  /\ Release(l)
  /\ UNCHANGED <<conn, view, generation, pending, owner, calls, opened, wire, bridge>>

(***************************************************************************)
(* The bridge, a program outside this repository, as its error codes, the   *)
(* synthetic bridge of the tests and the client's checks describe it: one   *)
(* session at a time, commands anchored to its sequence and revision.       *)
(***************************************************************************)
Answer(g, a) ==
  /\ calls' = IF calls[g].stage = "wire" THEN [calls EXCEPT ![g].answer = a] ELSE calls
  /\ wire' = [h \in Gens |-> IF h = g \/ (InOrder /\ h < g) THEN NoRequest ELSE wire[h]]

Echo(a) == IF Replay /\ a.tag \in {"view", "disconnected"} THEN a ELSE bridge.echo

Opened(c, seq, rev, a) == [conn |-> c, seq |-> seq, rev |-> rev, echo |-> Echo(a)]
Closed(a) == [conn |-> 0, seq |-> 0, rev |-> 0, echo |-> Echo(a)]

ServeConnect(g) ==
  LET r == wire[g]
      hello == [tag |-> "view", conn |-> r.conn, seq |-> 0, rev |-> 0, op |-> "discover", ok |-> TRUE]
  IN
  /\ r.kind = "connect"
  /\ \/ /\ bridge.conn = 0
        /\ bridge' = Opened(r.conn, 0, 0, hello)
        /\ Answer(g, hello)
     \/ /\ bridge.conn = 0
        /\ UNCHANGED bridge
        /\ Answer(g, Note("error_closed", r.conn))
     \/ /\ bridge.conn # 0
        /\ UNCHANGED bridge
        /\ Answer(g, Note("error", r.conn))
  /\ UNCHANGED <<client, jobs, opened>>

Expected(r) == bridge.conn = r.conn /\ r.seq = bridge.seq + 1 /\ r.rev = bridge.rev

Reply(r, rev, ok) ==
  [tag |-> "view", conn |-> r.conn, seq |-> r.seq, rev |-> rev, op |-> r.op, ok |-> ok]

ServeCommand(g) ==
  LET r == wire[g] IN
  /\ r.kind = "command"
  /\ \/ \E ok \in BOOLEAN : \E rev \in RevisionAfter(r.op, ok, r.rev) :
          /\ Expected(r)
          /\ bridge' = Opened(r.conn, r.seq, rev, Reply(r, rev, ok))
          /\ Answer(g, Reply(r, rev, ok))
     \/ /\ bridge.conn = r.conn
        /\ bridge' = Closed(NoAnswer)
        /\ Answer(g, Note("error_closed", r.conn))
     \/ /\ UNCHANGED bridge
        /\ Answer(g, Note("error", r.conn))
  /\ UNCHANGED <<client, jobs, opened>>

ServeDisconnect(g) ==
  LET r == wire[g]
      done == Note("disconnected", r.conn)
  IN
  /\ r.kind = "disconnect"
  /\ \/ /\ bridge' = IF bridge.conn = r.conn THEN Closed(done) ELSE [bridge EXCEPT !.echo = Echo(done)]
        /\ Answer(g, done)
     \/ /\ UNCHANGED bridge
        /\ Answer(g, Note("error", r.conn))
  /\ UNCHANGED <<client, jobs, opened>>

\* The bridge or its debugger process goes away.
BridgeStops ==
  /\ bridge.conn # 0
  /\ bridge' = [conn |-> 0, seq |-> 0, rev |-> 0, echo |-> bridge.echo]
  /\ UNCHANGED <<client, calls, jobs, opened, wire>>

(***************************************************************************)
(* The system.                                                              *)
(***************************************************************************)
User ==
  \/ Connect
  \/ \E op \in UserOps : Command(op)
  \/ \E sel \in BOOLEAN : CollectQueries(sel) \/ CollectObserved(sel)
  \/ \E kind \in {"query", "observed"} : CollectBadSelection(kind)
  \/ InspectDeclaredTarget
  \/ Invalidate
  \/ Disconnect

Settle(g) ==
  \/ AcceptConnect(g)    \/ RejectConnect(g)
  \/ AcceptReply(g)      \/ RejectReply(g)
  \/ AcceptDisconnect(g) \/ RejectDisconnect(g)

JobStep(l) == JobSend(l) \/ JobReturn(l) \/ JobFail(l)

Microtask == \E g \in Gens : Unwind(g) \/ Settle(g) \/ JobStep(g)
Task == \E g \in Gens : Timeout(g) \/ DeliverFailure(g) \/ Deliver(g)

Environment ==
  \/ \E g \in Gens : ServeConnect(g) \/ ServeCommand(g) \/ ServeDisconnect(g)
  \/ BridgeStops

Next == User \/ Microtask \/ Task \/ Environment

Spec == Init /\ [][Next]_vars

(***************************************************************************)
(* Properties.                                                              *)
(***************************************************************************)
\* The view offered for the next command is the bridge's own state: as long as
\* the bridge still holds the session, its sequence and revision are the ones
\* the client will anchor to.  Covers the correlation checks of
\* decodeCpuBridgeReply and every place that resets connection.view.
ViewMirrorsBridge ==
  view.live /\ bridge.conn = conn => view.seq = bridge.seq /\ view.rev = bridge.rev

\* A checkpoint, stack, inventory, runtime or published collection that the
\* session still holds was observed on this connection at the revision the
\* bridge is at now: no observation outlives a change of the debugged state.
NoStaleObservation ==
  \A s \in Slots : cache[s] # Nothing =>
    /\ cache[s].conn = conn
    /\ bridge.conn = conn => cache[s].rev = bridge.rev

\* A command that reaches the session it was meant for is never stale there:
\* it is the next sequence at the current revision, so nothing is sent twice
\* and nothing is sent after a command whose outcome is unknown.
CommandsAreNext ==
  \A g \in Gens : wire[g].kind = "command" /\ wire[g].conn = bridge.conn => Expected(wire[g])

\* pending and the activations agree: only the exchange pending names can take
\* a response, and pending never names an exchange that is gone (ready would
\* stay false for ever).
OneRequestAtATime ==
  /\ \A g \in Gens : calls[g].stage = "wire" => g = pending /\ g = generation
  /\ pending # 0 => pending = generation /\ calls[pending].stage \in {"wire", "aborted"}

\* A closed session awaits nothing.
ClosedIsQuiet == conn = 0 => pending = 0

\* A live session has no exchange of its own under way.
LiveIsQuiet == view.live =>
  /\ conn # 0 /\ pending = 0
  /\ \A g \in Gens : g = generation => calls[g].stage = "idle"

\* Every activation of exchange knows its connection, and is not of the future.
CallsAreAddressed == \A g \in Gens : calls[g].stage # "idle" =>
  /\ calls[g].req.conn # 0
  /\ g <= generation
  /\ calls[g].req.kind = "connect" => calls[g].req.seq = 0

\* The inductive invariant behind OneRequestAtATime and ImplementsDebugSession:
\* pending, view, connection and generation of the session agree with the
\* activations of exchange, however they overlap.
SessionInv ==
  /\ TypeOK
  /\ OneRequestAtATime
  /\ ClosedIsQuiet
  /\ LiveIsQuiet
  /\ CallsAreAddressed

\* A lease belongs to a collector that is still running, and two collectors
\* never hold one at once: a lease nobody releases would refuse every command.
LeaseIsHeld ==
  lease # 0 => jobs[lease].kind \in {"query", "observed"}

\* A collector holding the lease has the commands it may still send reserved:
\* it never stops half way at the sequence limit.
ReservationSuffices ==
  \A l \in Gens : Running(l) /\ JobCurrent(l) /\ jobs[l].next \in Ops
                    => CanSend(jobs[l].next, cache, l)

\* When the bridge serves requests in order, a session it holds is one the
\* client still has the handle of, so Disconnect can close it.
NoOrphanSession == InOrder /\ bridge.conn # 0 => conn = bridge.conn

\* A collection always ends and gives the session back, whatever the bridge does
\* (up to the bound that keeps a collector from sending its next command).
LeaseIsReleased == lease # 0 ~> lease = 0 \/ generation = MaxGeneration

(***************************************************************************)
(* What the session promises its caller: module DebugSession.               *)
(***************************************************************************)
InFlight(kind) ==
  /\ generation \in Gens
  /\ calls[generation].stage \in {"wire", "answered"}
  /\ calls[generation].req.kind = kind

AbstractPhase ==
  IF conn = 0 THEN "closed"
  ELSE IF view.live THEN "live"
  ELSE IF InFlight("connect") THEN "opening"
  ELSE IF InFlight("command") THEN "busy"
  ELSE "doubt"

AbstractSequence ==
  IF AbstractPhase = "live" THEN view.seq
  ELSE IF AbstractPhase = "busy" THEN calls[generation].req.seq
  ELSE 0

Promise == INSTANCE DebugSession
  WITH phase <- AbstractPhase, session <- opened, sequence <- AbstractSequence

\* The client keeps the promise of DebugSession: one command at a time with the
\* next sequence, no retry, and after an unknown outcome nothing but a disconnect.
ImplementsDebugSession == Promise!Spec

=============================================================================
