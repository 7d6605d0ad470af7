------------------------ MODULE CpuDebugSession_proofs ------------------------
(***************************************************************************)
(* Proofs about CpuDebugSession and about LiveCpuWorkbench, the panel that   *)
(* uses it, for every value of their constants.                             *)
(***************************************************************************)
EXTENDS LiveCpuWorkbench, TLAPS

\* The values that stand for null are of their types.
LEMMA ConstantTypes ==
  /\ NoRequest \in Requests
  /\ NoAnswer \in Answers
  /\ NoCall \in Calls
  /\ Nothing \in Stamps
  /\ NoCache \in [Slots -> Stamps]
  /\ NoView \in Views
  /\ NoJob \in Jobs
<1>1. NoRequest \in Requests
  BY BoundsAssumption DEF NoRequest, Requests
<1>2. NoAnswer \in Answers
  BY BoundsAssumption DEF NoAnswer, Note, Answers, Tags
<1>3. NoCall \in Calls
  BY <1>1, <1>2 DEF NoCall, Calls, Stages
<1>4. Nothing \in Stamps
  BY BoundsAssumption DEF Nothing, Stamps
<1>5. NoCache \in [Slots -> Stamps]
  BY <1>4 DEF NoCache
<1>6. NoView \in Views
  BY BoundsAssumption DEF NoView, Views
<1>7. NoJob \in Jobs
  BY <1>4, BoundsAssumption DEF NoJob, Jobs, JobKinds
<1> QED BY <1>1, <1>2, <1>3, <1>4, <1>5, <1>6, <1>7

\* exchange keeps the types of what it assigns.
LEMMA ExchangeType ==
  ASSUME TypeOK, NEW req \in Requests, Exchange(req)
  PROVE  /\ generation' \in 0..MaxGeneration
         /\ pending' \in 0..MaxGeneration
         /\ calls' \in [Gens -> Calls]
         /\ wire' \in [Gens -> Requests]
<1>1. generation + 1 \in Gens
  BY BoundsAssumption DEF TypeOK, Exchange, Gens
<1>2. [stage |-> "wire", req |-> req, answer |-> NoAnswer] \in Calls
  BY ConstantTypes DEF Calls, Stages
<1> QED BY <1>1, <1>2, BoundsAssumption DEF TypeOK, Exchange, Gens

\* clearObserved leaves retained observations.
LEMMA ClearObservedType ==
  ASSUME NEW q \in [Slots -> Stamps]
  PROVE  ClearObserved(q) \in [Slots -> Stamps]
BY ConstantTypes DEF ClearObserved

\* sendCommand leaves retained observations when it sends.
LEMMA CacheOnSendType ==
  ASSUME NEW op, NEW q \in [Slots -> Stamps]
  PROVE  CacheOnSend(op, q) \in [Slots -> Stamps]
<1> DEFINE kept == IF op \in Moves \cup Edits THEN NoCache
                   ELSE [q EXCEPT !["collection"] = Nothing, !["observed"] = Nothing]
<1>1. kept \in [Slots -> Stamps]
  BY ConstantTypes
<1>2. ClearObserved(kept) \in [Slots -> Stamps]
  BY <1>1, ClearObservedType
<1> QED BY <1>1, <1>2 DEF CacheOnSend

\* sendCommand keeps types: CanSend bounds the sequence of the request.
LEMMA SendType ==
  ASSUME TypeOK, NEW op \in Ops, NEW q \in [Slots -> Stamps], NEW p \in [Slots -> Stamps],
         NEW token, CanSend(op, p, token), Send(op, q)
  PROVE  /\ cache' \in [Slots -> Stamps]
         /\ view' \in Views
         /\ generation' \in 0..MaxGeneration
         /\ pending' \in 0..MaxGeneration
         /\ calls' \in [Gens -> Calls]
         /\ wire' \in [Gens -> Requests]
<1> DEFINE req == [kind |-> "command", conn |-> conn, seq |-> view.seq + 1,
                   rev |-> view.rev, op |-> op]
<1>1. req \in Requests
  BY BoundsAssumption DEF TypeOK, CanSend, Requests, Views
<1>2. Exchange(req)
  BY DEF Send
<1>3. CacheOnSend(op, q) \in [Slots -> Stamps]
  BY CacheOnSendType
<1> QED BY <1>1, <1>2, <1>3, ExchangeType, ConstantTypes DEF Send

\* The start of a collector keeps types.
LEMMA StartJobType ==
  ASSUME TypeOK, NEW op \in Ops, NEW q \in [Slots -> Stamps], NEW token,
         NEW kind \in JobKinds, NEW sel \in BOOLEAN, NEW anchor \in Stamps,
         ready, view.seq + 1 <= MaxSequence, StartJob(kind, sel, q, op, anchor)
  PROVE  /\ cache' \in [Slots -> Stamps]
         /\ view' \in Views
         /\ generation' \in 0..MaxGeneration
         /\ pending' \in 0..MaxGeneration
         /\ calls' \in [Gens -> Calls]
         /\ wire' \in [Gens -> Requests]
         /\ jobs' \in [Gens -> Jobs]
<1> DEFINE req == [kind |-> "command", conn |-> conn, seq |-> view.seq + 1,
                   rev |-> view.rev, op |-> op]
           job == [kind |-> kind, conn |-> conn, anchor |-> anchor, sel |-> sel,
                   seq |-> view.seq + 1, wait |-> generation + 1, next |-> "none"]
<1>1. req \in Requests
  BY BoundsAssumption DEF TypeOK, Requests, Views
<1>2. Exchange(req)
  BY DEF Send, StartJob
<1>3. CacheOnSend(op, q) \in [Slots -> Stamps]
  BY CacheOnSendType
<1>4. job \in Jobs
  <2>1. generation + 1 \in 0..MaxGeneration
    BY <1>2, BoundsAssumption DEF TypeOK, Exchange
  <2>2. view.seq + 1 \in 0..MaxSequence /\ conn \in 0..MaxConnections
    BY BoundsAssumption DEF TypeOK, Views
  <2> QED BY <2>1, <2>2 DEF Jobs
<1>5. jobs' = [jobs EXCEPT ![generation + 1] = job]
  BY DEF StartJob
<1>6. generation + 1 \in Gens
  BY <1>2, BoundsAssumption DEF Exchange, TypeOK, Gens
<1>7. jobs' \in [Gens -> Jobs]
  BY <1>4, <1>5, <1>6 DEF TypeOK
<1> QED BY <1>1, <1>2, <1>3, <1>7, ExchangeType, ConstantTypes DEF Send, StartJob

\* Collectors stay collectors when the exchange they await resolves or rejects.
LEMMA JobsType ==
  ASSUME TypeOK, NEW g \in Gens, NEW next \in Ops \cup {"done", "skip", "fail", "none"}
  PROVE  /\ Resumed(jobs, g, next) \in [Gens -> Jobs]
         /\ Rejected(jobs, g) \in [Gens -> Jobs]
<1>1. \A n \in Ops \cup {"done", "skip", "fail", "none"} : Resumed(jobs, g, n) \in [Gens -> Jobs]
  <2> SUFFICES ASSUME NEW n \in Ops \cup {"done", "skip", "fail", "none"}, NEW l \in Gens
               PROVE  Resumed(jobs, g, n)[l] \in Jobs
    BY DEF Resumed
  <2>1. jobs[l] \in Jobs
    BY DEF TypeOK
  <2> DEFINE j == [jobs[l] EXCEPT !.wait = 0]
  <2>2. j \in Jobs
    BY <2>1, BoundsAssumption DEF Jobs
  <2> HIDE DEF j
  <2>3. [j EXCEPT !.next = n] \in Jobs
    BY <2>2 DEF Jobs
  <2> USE DEF j
  <2>4. [jobs[l] EXCEPT !.wait = 0, !.next = n] \in Jobs
    BY <2>3, Zenon
  <2> QED BY <2>1, <2>4, Zenon DEF Resumed
<1>2. Resumed(jobs, g, "fail") \in [Gens -> Jobs]
  BY <1>1
<1>3. Rejected(jobs, g) \in [Gens -> Jobs]
  <2> SUFFICES ASSUME NEW l \in Gens PROVE Rejected(jobs, g)[l] \in Jobs
    BY DEF Rejected
  <2>1. Resumed(jobs, g, "fail")[l] \in Jobs
    BY <1>2
  <2> QED BY <2>1, ConstantTypes DEF Rejected
<1> QED BY <1>1, <1>3

\* The catch and finally blocks of exchange keep types.
LEMMA FailType ==
  ASSUME TypeOK, NEW g \in Gens, NEW closed \in BOOLEAN, Fail(g, closed)
  PROVE  TypeOK'
<1>1. Rejected(jobs, g) \in [Gens -> Jobs]
  BY JobsType
<1>2. view' \in Views /\ cache' \in [Slots -> Stamps] /\ owner' \in 0..MaxConnections
  BY ConstantTypes, BoundsAssumption DEF Fail, TypeOK
<1>3. conn' \in 0..MaxConnections /\ pending' \in 0..MaxGeneration
  BY BoundsAssumption DEF Fail, TypeOK
<1>4. calls' \in [Gens -> Calls]
  BY ConstantTypes DEF Fail, TypeOK
<1> QED BY <1>1, <1>2, <1>3, <1>4 DEF Fail, TypeOK

\* The finally block of a collector keeps types.
LEMMA ReleaseType ==
  ASSUME TypeOK, NEW l \in Gens, Release(l)
  PROVE  lease' \in 0..MaxGeneration /\ jobs' \in [Gens -> Jobs]
BY ConstantTypes, BoundsAssumption DEF Release, TypeOK

\* sendCommand leaves retained observations when it accepts a reply.
LEMMA CacheOnReplyType ==
  ASSUME NEW q \in [Slots -> Stamps], NEW s \in Stamps, NEW op, NEW ok, NEW good
  PROVE  CacheOnReply(op, q, s, ok, good) \in [Slots -> Stamps]
<1>1. (IF ok /\ good THEN s ELSE Nothing) \in Stamps /\ (IF ok THEN s ELSE Nothing) \in Stamps
  BY ConstantTypes
<1>2. ClearObserved(q) \in [Slots -> Stamps]
  BY ClearObservedType
<1> QED BY <1>1, <1>2, ConstantTypes DEF CacheOnReply

\* A collector goes on with an operation or ends.
LEMMA NextOpsType ==
  ASSUME NEW kind, NEW sel, NEW op, NEW ok, NEW good
  PROVE  NextOps(kind, sel, op, ok, good) \subseteq Ops \cup {"done", "skip", "fail", "none"}
BY DEF NextOps, Ops, Reads, Queries, Observed

(***************************************************************************)
(* Type correctness.                                                        *)
(***************************************************************************)
\* The calls of the client keep types.
LEMMA UserType == TypeOK /\ User => TypeOK'
<1> SUFFICES ASSUME TypeOK, User PROVE TypeOK'
  OBVIOUS
<1> USE ConstantTypes, BoundsAssumption
<1>1. CASE Connect
  <2> DEFINE req == [kind |-> "connect", conn |-> opened + 1, seq |-> 0, rev |-> 0, op |-> "discover"]
  <2>1. req \in Requests /\ Exchange(req) /\ opened + 1 \in 0..MaxConnections
    BY <1>1 DEF Connect, TypeOK, Requests
  <2> QED BY <1>1, <2>1, ExchangeType DEF Connect, TypeOK
<1>2. ASSUME NEW op \in UserOps, Command(op) PROVE TypeOK'
  <2>1. op \in Ops /\ CanSend(op, cache, 0) /\ Send(op, cache) /\ cache \in [Slots -> Stamps]
    BY <1>2, UserOpsAssumption DEF Command, TypeOK
  <2> QED BY <1>2, <2>1, SendType DEF Command, TypeOK
<1>3. ASSUME NEW sel \in BOOLEAN, CollectQueries(sel) PROVE TypeOK'
  <2> DEFINE q == [cache EXCEPT !["collection"] = Nothing, !["stack"] = Nothing, !["inventory"] = Nothing]
  <2>1. q \in [Slots -> Stamps] /\ cache["checkpoint"] \in Stamps
    BY DEF TypeOK, Slots
  <2>2. ready /\ view.seq + 1 <= MaxSequence
    BY <1>3 DEF CollectQueries, CanCollect, Reserve, remainingCommands, TypeOK, Views
  <2>3. StartJob("query", sel, q, "stack", cache["checkpoint"])
    BY <1>3 DEF CollectQueries
  <2>4. "stack" \in Ops /\ "query" \in JobKinds
    BY DEF Ops, Reads, JobKinds
  <2> HIDE DEF q
  <2>5. /\ cache' \in [Slots -> Stamps] /\ view' \in Views /\ generation' \in 0..MaxGeneration
        /\ pending' \in 0..MaxGeneration /\ calls' \in [Gens -> Calls]
        /\ wire' \in [Gens -> Requests] /\ jobs' \in [Gens -> Jobs]
    BY <2>1, <2>2, <2>3, <2>4, StartJobType
  <2> QED BY <1>3, <2>3, <2>5 DEF CollectQueries, StartJob, Send, Exchange, TypeOK
<1>4. ASSUME NEW sel \in BOOLEAN, CollectObserved(sel) PROVE TypeOK'
  <2> DEFINE q == ClearObserved([cache EXCEPT !["collection"] = Nothing])
  <2>1. [cache EXCEPT !["collection"] = Nothing] \in [Slots -> Stamps]
    BY DEF TypeOK
  <2>2. q \in [Slots -> Stamps]
    BY <2>1, ClearObservedType
  <2>3. ready /\ view.seq + 1 <= MaxSequence
    BY <1>4 DEF CollectObserved, CanCollect, Reserve, remainingCommands, TypeOK, Views
  <2>4. StartJob("observed", sel, q, "state", Nothing)
    BY <1>4 DEF CollectObserved
  <2>5. "state" \in Ops /\ "observed" \in JobKinds
    BY DEF Ops, Reads, JobKinds
  <2> HIDE DEF q
  <2>6. /\ cache' \in [Slots -> Stamps] /\ view' \in Views /\ generation' \in 0..MaxGeneration
        /\ pending' \in 0..MaxGeneration /\ calls' \in [Gens -> Calls]
        /\ wire' \in [Gens -> Requests] /\ jobs' \in [Gens -> Jobs]
    BY <2>2, <2>3, <2>4, <2>5, StartJobType
  <2> QED BY <1>4, <2>4, <2>6 DEF CollectObserved, StartJob, Send, Exchange, TypeOK
<1>5. ASSUME NEW kind \in {"query", "observed"}, CollectBadSelection(kind) PROVE TypeOK'
  BY <1>5 DEF CollectBadSelection, TypeOK
<1>6. CASE InspectDeclaredTarget
  <2>1. ready /\ view.seq + 1 <= MaxSequence /\ cache["observed"] \in Stamps
    BY <1>6 DEF InspectDeclaredTarget, CanSend, TypeOK, Slots
  <2>2. StartJob("target", FALSE, cache, "target", cache["observed"])
    BY <1>6 DEF InspectDeclaredTarget
  <2>3. "target" \in Ops /\ "target" \in JobKinds /\ cache \in [Slots -> Stamps]
    BY DEF Ops, Observed, JobKinds, TypeOK
  <2>4. /\ cache' \in [Slots -> Stamps] /\ view' \in Views /\ generation' \in 0..MaxGeneration
        /\ pending' \in 0..MaxGeneration /\ calls' \in [Gens -> Calls]
        /\ wire' \in [Gens -> Requests] /\ jobs' \in [Gens -> Jobs]
    BY <2>1, <2>2, <2>3, StartJobType
  <2> QED BY <1>6, <2>2, <2>4 DEF InspectDeclaredTarget, StartJob, TypeOK
<1>7. CASE Invalidate
  <2>1. Aborted(calls) \in [Gens -> Calls]
    BY DEF Aborted, TypeOK, Calls, Stages
  <2> QED BY <1>7, <2>1 DEF Invalidate, TypeOK
<1>8. CASE Disconnect
  <2> DEFINE req == [kind |-> "disconnect", conn |-> conn, seq |-> 0, rev |-> 0, op |-> "none"]
  <2>1. req \in Requests /\ generation + 1 \in Gens
    BY <1>8 DEF Disconnect, TypeOK, Requests, Gens
  <2>2. [stage |-> "wire", req |-> req, answer |-> NoAnswer] \in Calls
    BY <2>1 DEF Calls, Stages
  <2>3. Aborted(calls) \in [Gens -> Calls]
    BY DEF Aborted, TypeOK, Calls, Stages
  <2> QED BY <1>8, <2>1, <2>2, <2>3 DEF Disconnect, TypeOK, Gens
<1> QED BY <1>1, <1>2, <1>3, <1>4, <1>5, <1>6, <1>7, <1>8 DEF User

\* Continuations that are due keep types.
LEMMA MicrotaskType == TypeOK /\ Microtask => TypeOK'
<1> SUFFICES ASSUME TypeOK, NEW g \in Gens, Unwind(g) \/ Settle(g) \/ JobStep(g) PROVE TypeOK'
  BY DEF Microtask
<1> USE ConstantTypes, BoundsAssumption
<1>0. calls[g].answer \in Answers /\ calls[g].req \in Requests
  BY DEF TypeOK, Calls
<1>1. CASE Unwind(g)
  BY <1>1, FailType DEF Unwind
<1>2. CASE AcceptConnect(g) \/ RejectConnect(g)
  <2>1. view' \in Views
    <3>1. Live(calls[g].answer) \in Views
      BY <1>0 DEF Live, Views, Answers
    <3> QED BY <1>2, <3>1 DEF AcceptConnect, RejectConnect, TypeOK
  <2>2. calls' \in [Gens -> Calls]
    BY <1>2 DEF AcceptConnect, RejectConnect, TypeOK
  <2> QED BY <1>2, <2>1, <2>2 DEF AcceptConnect, RejectConnect, TypeOK
<1>3. CASE AcceptDisconnect(g) \/ RejectDisconnect(g)
  BY <1>3 DEF AcceptDisconnect, RejectDisconnect, TypeOK
<1>4. CASE AcceptReply(g)
  <2> DEFINE c == calls[g]  a == c.answer  op == c.req.op
             s == [conn |-> conn, rev |-> a.rev]
  <2>1. s \in Stamps /\ cache \in [Slots -> Stamps]
    BY <1>0 DEF Stamps, Answers, TypeOK
  <2>2. PICK good \in BOOLEAN :
          /\ cache' = CacheOnReply(op, cache, s, a.ok, good)
          /\ \/ UNCHANGED jobs
             \/ \E l \in Awaiting(g) : \E next \in NextOps(jobs[l].kind, jobs[l].sel, op, a.ok, good) :
                  jobs' = Resumed(jobs, g, next)
    BY <1>4 DEF AcceptReply
  <2>3. cache' \in [Slots -> Stamps]
    BY <2>1, <2>2, CacheOnReplyType
  <2>4. jobs' \in [Gens -> Jobs]
    <3>1. CASE UNCHANGED jobs
      BY <3>1 DEF TypeOK
    <3>2. ASSUME NEW l \in Awaiting(g), NEW next \in NextOps(jobs[l].kind, jobs[l].sel, op, a.ok, good),
                 jobs' = Resumed(jobs, g, next)
          PROVE  jobs' \in [Gens -> Jobs]
      <4>1. next \in Ops \cup {"done", "skip", "fail", "none"}
        BY NextOpsType
      <4> QED BY <3>2, <4>1, JobsType
    <3> QED BY <2>2, <3>1, <3>2
  <2>5. owner' \in 0..MaxConnections
    BY <1>4 DEF AcceptReply, OwnersOnReply, TypeOK
  <2>6. view' \in Views
    BY <1>0, <1>4 DEF AcceptReply, Live, Views, Answers
  <2>7. calls' \in [Gens -> Calls]
    BY <1>4 DEF AcceptReply, TypeOK
  <2> QED BY <1>4, <2>3, <2>4, <2>5, <2>6, <2>7 DEF AcceptReply, TypeOK
<1>5. CASE RejectReply(g)
  <2>1. Rejected(jobs, g) \in [Gens -> Jobs]
    BY JobsType
  <2>2. view' \in Views /\ cache' \in [Slots -> Stamps] /\ owner' \in 0..MaxConnections
    BY <1>5 DEF RejectReply, TypeOK
  <2>3. calls' \in [Gens -> Calls]
    BY <1>5 DEF RejectReply, TypeOK
  <2> QED BY <1>5, <2>1, <2>2, <2>3 DEF RejectReply, TypeOK
<1>6. CASE JobSend(g)
  <2>1. /\ jobs[g].next \in Ops /\ CanSend(jobs[g].next, cache, g)
        /\ Send(jobs[g].next, cache) /\ cache \in [Slots -> Stamps]
    BY <1>6 DEF JobSend, MaySend, TypeOK
  <2>2. /\ cache' \in [Slots -> Stamps] /\ view' \in Views /\ generation' \in 0..MaxGeneration
        /\ pending' \in 0..MaxGeneration /\ calls' \in [Gens -> Calls] /\ wire' \in [Gens -> Requests]
    BY <2>1, SendType
  <2>3. generation + 1 \in 0..MaxGeneration
    BY <2>1 DEF Send, Exchange, TypeOK
  <2>4. jobs' \in [Gens -> Jobs]
    BY <1>6, <2>3, ZenonT(30) DEF JobSend, TypeOK, Jobs
  <2> QED BY <1>6, <2>2, <2>4 DEF JobSend, TypeOK
<1>7. CASE JobReturn(g)
  <2>1. [conn |-> conn, rev |-> view.rev] \in Stamps /\ jobs[g].anchor \in Stamps
    BY DEF TypeOK, Stamps, Views, Jobs
  <2>2. cache' \in [Slots -> Stamps]
    BY <1>7, <2>1 DEF JobReturn, TypeOK
  <2> QED BY <1>7, <2>2, ReleaseType DEF JobReturn, TypeOK
<1>8. CASE JobFail(g)
  BY <1>8, ReleaseType DEF JobFail, TypeOK
<1> QED BY <1>1, <1>2, <1>3, <1>4, <1>5, <1>6, <1>7, <1>8 DEF Settle, JobStep

\* Timers and responses keep types.
LEMMA TaskType == TypeOK /\ Task => TypeOK'
<1> SUFFICES ASSUME TypeOK, NEW g \in Gens, Timeout(g) \/ DeliverFailure(g) \/ Deliver(g)
             PROVE  TypeOK'
  BY DEF Task
<1>1. CASE Timeout(g)
  <2>1. calls' \in [Gens -> Calls]
    BY <1>1 DEF Timeout, TypeOK, Calls, Stages
  <2> QED BY <1>1, <2>1 DEF Timeout, TypeOK, client
<1>2. CASE DeliverFailure(g)
  <2>1. PICK a : Fail(g, a.tag = "error_closed")
    BY <1>2 DEF DeliverFailure
  <2> QED BY <2>1, FailType
<1>3. CASE Deliver(g)
  <2>1. calls[g] \in Calls /\ bridge.echo \in Answers
    BY DEF TypeOK
  <2>2. Note("lost", 0) \in Answers /\ Note("malformed", 0) \in Answers
    BY BoundsAssumption DEF Note, Answers, Tags
  <2>3. Deliverable(g) \subseteq Answers
    BY <2>1, <2>2 DEF Deliverable, Calls
  <2>4. PICK a \in Answers : calls' = [calls EXCEPT ![g].stage = "answered", ![g].answer = a]
    BY <1>3, <2>3 DEF Deliver
  <2>5. calls' \in [Gens -> Calls]
    BY <2>1, <2>4 DEF TypeOK, Calls, Stages
  <2>6. pending' \in 0..MaxGeneration
    <3>1. pending' = IF pending = g THEN 0 ELSE pending
      BY <1>3 DEF Deliver
    <3> QED BY <3>1, BoundsAssumption DEF TypeOK
  <2> QED BY <1>3, <2>5, <2>6 DEF Deliver, TypeOK
<1> QED BY <1>1, <1>2, <1>3

\* An answer of the bridge is attached to a call without harm to its type.
LEMMA AnswerType ==
  ASSUME TypeOK, NEW g \in Gens, NEW a \in Answers, Answer(g, a)
  PROVE  calls' \in [Gens -> Calls] /\ wire' \in [Gens -> Requests]
<1>1. calls' \in [Gens -> Calls]
  BY DEF Answer, TypeOK, Calls
<1>2. wire' \in [Gens -> Requests]
  BY ConstantTypes DEF Answer, TypeOK
<1> QED BY <1>1, <1>2

BridgeStates == [conn : 0..MaxConnections, seq : 0..MaxSequence, rev : Nat, echo : Answers]

\* The two ways the bridge changes its session keep its type.
LEMMA BridgeType ==
  ASSUME TypeOK, NEW c \in 0..MaxConnections, NEW seq \in 0..MaxSequence, NEW rev \in Nat,
         NEW a \in Answers
  PROVE  /\ Opened(c, seq, rev, a) \in BridgeStates
         /\ Closed(a) \in BridgeStates
<1>1. Echo(a) \in Answers
  BY DEF Echo, TypeOK
<1> QED BY <1>1, BoundsAssumption DEF Opened, Closed, BridgeStates

\* The bridge keeps types.
LEMMA EnvironmentType == TypeOK /\ Environment => TypeOK'
<1> SUFFICES ASSUME TypeOK, Environment PROVE TypeOK'
  OBVIOUS
<1> USE BoundsAssumption
<1>1. ASSUME NEW g \in Gens, ServeConnect(g) PROVE TypeOK'
  <2> DEFINE r == wire[g]
             hello == [tag |-> "view", conn |-> r.conn, seq |-> 0, rev |-> 0, op |-> "discover", ok |-> TRUE]
  <2>1. r.conn \in 0..MaxConnections
    BY DEF TypeOK, Requests
  <2>2. /\ hello \in Answers
        /\ Note("error_closed", r.conn) \in Answers
        /\ Note("error", r.conn) \in Answers
    BY <2>1 DEF Answers, Note, Tags
  <2>3. calls' \in [Gens -> Calls] /\ wire' \in [Gens -> Requests]
    BY <1>1, <2>2, AnswerType DEF ServeConnect
  <2>4. bridge' \in BridgeStates
    <3>1. Opened(r.conn, 0, 0, hello) \in BridgeStates
      BY <2>1, <2>2, BridgeType
    <3>2. bridge \in BridgeStates
      BY DEF TypeOK, BridgeStates
    <3> QED BY <1>1, <3>1, <3>2 DEF ServeConnect
  <2> QED BY <1>1, <2>3, <2>4 DEF ServeConnect, TypeOK, BridgeStates, client
<1>2. ASSUME NEW g \in Gens, ServeCommand(g) PROVE TypeOK'
  <2> DEFINE r == wire[g]
  <2>1. /\ r.conn \in 0..MaxConnections /\ r.seq \in 0..MaxSequence /\ r.rev \in Nat
        /\ r.op \in Ops \cup {"discover", "none"}
    BY DEF TypeOK, Requests
  <2>2. \A ok \in BOOLEAN : \A rev \in RevisionAfter(r.op, ok, r.rev) :
          rev \in Nat /\ Reply(r, rev, ok) \in Answers
    BY <2>1 DEF RevisionAfter, Reply, Answers, Tags
  <2>3. Note("error_closed", r.conn) \in Answers /\ Note("error", r.conn) \in Answers
    BY <2>1 DEF Answers, Note, Tags
  <2>4. bridge \in BridgeStates
    BY DEF TypeOK, BridgeStates
  <2>5. calls' \in [Gens -> Calls] /\ wire' \in [Gens -> Requests] /\ bridge' \in BridgeStates
    <3>1. ASSUME NEW ok \in BOOLEAN, NEW rev \in RevisionAfter(r.op, ok, r.rev),
                 bridge' = Opened(r.conn, r.seq, rev, Reply(r, rev, ok)),
                 Answer(g, Reply(r, rev, ok))
          PROVE  calls' \in [Gens -> Calls] /\ wire' \in [Gens -> Requests] /\ bridge' \in BridgeStates
      BY <2>1, <2>2, <3>1, AnswerType, BridgeType
    <3>2. CASE bridge' = Closed(NoAnswer) /\ Answer(g, Note("error_closed", r.conn))
      <4>1. Closed(NoAnswer) \in BridgeStates
        BY <2>1, ConstantTypes, BridgeType
      <4> QED BY <2>3, <3>2, <4>1, AnswerType
    <3>3. CASE UNCHANGED bridge /\ Answer(g, Note("error", r.conn))
      BY <2>3, <2>4, <3>3, AnswerType
    <3> QED BY <1>2, <3>1, <3>2, <3>3 DEF ServeCommand
  <2> QED BY <1>2, <2>5 DEF ServeCommand, TypeOK, BridgeStates, client
<1>3. ASSUME NEW g \in Gens, ServeDisconnect(g) PROVE TypeOK'
  <2> DEFINE r == wire[g]
             done == Note("disconnected", r.conn)
  <2>1. r.conn \in 0..MaxConnections
    BY DEF TypeOK, Requests
  <2>2. done \in Answers /\ Note("error", r.conn) \in Answers
    BY <2>1 DEF Answers, Note, Tags
  <2>3. calls' \in [Gens -> Calls] /\ wire' \in [Gens -> Requests]
    BY <1>3, <2>2, AnswerType DEF ServeDisconnect
  <2>4. bridge' \in BridgeStates
    <3>1. Closed(done) \in BridgeStates
      BY <2>1, <2>2, BridgeType
    <3>2. bridge \in BridgeStates /\ Echo(done) \in Answers
      BY <2>2 DEF TypeOK, BridgeStates, Echo
    <3>3. [bridge EXCEPT !.echo = Echo(done)] \in BridgeStates
      BY <3>2 DEF BridgeStates
    <3> QED BY <1>3, <3>1, <3>2, <3>3 DEF ServeDisconnect
  <2> QED BY <1>3, <2>3, <2>4 DEF ServeDisconnect, TypeOK, BridgeStates, client
<1>4. CASE BridgeStops
  <2>1. bridge.echo \in Answers
    BY DEF TypeOK
  <2>2. bridge' \in BridgeStates
    BY <1>4, <2>1 DEF BridgeStops, BridgeStates
  <2> QED BY <1>4, <2>2 DEF BridgeStops, TypeOK, BridgeStates, client
<1> QED BY <1>1, <1>2, <1>3, <1>4 DEF Environment

\* A step that changes nothing keeps types.
LEMMA StutterType == TypeOK /\ UNCHANGED vars => TypeOK'
BY DEF TypeOK, vars

\* Every reachable state of the session, the bridge and the requests between
\* them is well typed; in particular no request ever carries a sequence past
\* CPU_BRIDGE_LIMITS.maxSequence.
THEOREM TypeCorrect == Spec => []TypeOK
<1>1. Init => TypeOK
  BY ConstantTypes, BoundsAssumption DEF Init, TypeOK, Answers
<1>2. TypeOK /\ [Next]_vars => TypeOK'
  BY UserType, MicrotaskType, TaskType, EnvironmentType, StutterType DEF Next
<1> QED BY <1>1, <1>2, PTL DEF Spec

(***************************************************************************)
(* The inductive invariant SessionInv.                                      *)
(***************************************************************************)
Shape == OneRequestAtATime /\ ClosedIsQuiet /\ LiveIsQuiet /\ CallsAreAddressed

\* SessionInv is type correctness and Shape.
LEMMA InvIsShape == SessionInv <=> TypeOK /\ Shape
BY DEF SessionInv, Shape

\* A new exchange replaces none: nothing was pending, so no call is on the wire.
LEMMA ExchangeShape ==
  ASSUME TypeOK, Shape, NEW req \in Requests, Exchange(req), pending = 0,
         req.conn # 0, req.kind = "connect" => req.seq = 0,
         ~view'.live, conn' # 0
  PROVE  Shape'
<1>1. generation + 1 \in Gens /\ generation' = generation + 1 /\ pending' = generation + 1
  BY BoundsAssumption DEF TypeOK, Exchange, Gens
<1>2. \A g \in Gens : calls[g].stage # "wire"
  BY BoundsAssumption DEF Shape, OneRequestAtATime, Gens
<1>3. calls' = [calls EXCEPT ![generation + 1] = [stage |-> "wire", req |-> req, answer |-> NoAnswer]]
  BY DEF Exchange
<1>4. \A g \in Gens : calls'[g] = IF g = generation + 1
                                  THEN [stage |-> "wire", req |-> req, answer |-> NoAnswer]
                                  ELSE calls[g]
  BY <1>1, <1>3 DEF TypeOK
<1>5. OneRequestAtATime'
  BY <1>1, <1>2, <1>4 DEF OneRequestAtATime
<1>6. ClosedIsQuiet' /\ LiveIsQuiet'
  BY DEF ClosedIsQuiet, LiveIsQuiet
<1>7. CallsAreAddressed'
  BY <1>1, <1>4, BoundsAssumption DEF Shape, CallsAreAddressed, TypeOK, Gens
<1> QED BY <1>5, <1>6, <1>7 DEF Shape

\* A new exchange takes the place of the one that was pending.
LEMMA SendShape ==
  ASSUME TypeOK, Shape, NEW op \in Ops, NEW q, ready, view.seq + 1 <= MaxSequence,
         Send(op, q), UNCHANGED conn
  PROVE  Shape'
<1> DEFINE req == [kind |-> "command", conn |-> conn, seq |-> view.seq + 1,
                   rev |-> view.rev, op |-> op]
<1>1. req \in Requests
  BY BoundsAssumption DEF TypeOK, Requests, Views
<1>2. Exchange(req) /\ ~view'.live
  BY DEF Send, NoView
<1>3. pending = 0 /\ conn # 0 /\ conn' # 0
  BY DEF ready
<1> QED BY <1>1, <1>2, <1>3, ExchangeShape

\* No call changes but g, which ends or leaves the wire; nothing becomes live.
LEMMA EndShape ==
  ASSUME TypeOK, Shape, NEW g \in Gens,
         calls' = [calls EXCEPT ![g] = NoCall],
         UNCHANGED generation,
         pending' = IF pending = g THEN 0 ELSE pending,
         view'.live => view.live,
         conn' = conn \/ (conn' = 0 /\ pending' = 0 /\ ~view'.live)
  PROVE  Shape'
<1>1. \A h \in Gens : calls'[h] = IF h = g THEN NoCall ELSE calls[h]
  BY DEF TypeOK
<1>2. NoCall.stage = "idle"
  BY DEF NoCall
<1>3. pending # 0 => pending \in Gens
  BY BoundsAssumption DEF TypeOK, Gens
<1>4. ASSUME NEW h \in Gens, calls'[h].stage = "wire" PROVE h = pending' /\ h = generation'
  <2>1. h # g /\ calls[h].stage = "wire"
    BY <1>1, <1>2, <1>4
  <2>2. h = pending /\ h = generation
    BY <2>1 DEF Shape, OneRequestAtATime
  <2> QED BY <2>1, <2>2
<1>5. pending' # 0 => pending' = generation' /\ calls'[pending'].stage \in {"wire", "aborted"}
  BY <1>1, <1>3 DEF Shape, OneRequestAtATime
<1>6. OneRequestAtATime'
  BY <1>4, <1>5 DEF OneRequestAtATime
<1>7. ClosedIsQuiet' /\ LiveIsQuiet' /\ CallsAreAddressed'
  BY <1>1, <1>2 DEF Shape, ClosedIsQuiet, LiveIsQuiet, CallsAreAddressed
<1> QED BY <1>6, <1>7 DEF Shape

\* An exchange that fails clears pending only if pending is its own.
LEMMA FailShape ==
  ASSUME TypeOK, Shape, NEW g \in Gens, NEW closed \in BOOLEAN, Fail(g, closed)
  PROVE  Shape'
<1>1. calls' = [calls EXCEPT ![g] = NoCall] /\ UNCHANGED generation
  BY DEF Fail
<1>2. pending' = IF pending = g THEN 0 ELSE pending
  BY DEF Fail
<1>3. view'.live => view.live
  BY DEF Fail, NoView
<1>4. CASE conn' = conn
  BY <1>1, <1>2, <1>3, <1>4, EndShape
<1>5. CASE conn' # conn
  <2>1. conn' = 0 /\ g = generation /\ ~view'.live
    BY <1>5 DEF Fail, NoView
  <2>2. pending' = 0
    BY <1>2, <2>1, BoundsAssumption DEF Shape, OneRequestAtATime, Gens, TypeOK
  <2> QED BY <1>1, <1>2, <1>3, <2>1, <2>2, EndShape
<1> QED BY <1>4, <1>5

\* The calls of the client preserve Shape.
LEMMA UserShape == TypeOK /\ Shape /\ User => Shape'
<1> SUFFICES ASSUME TypeOK, Shape, User PROVE Shape'
  OBVIOUS
<1> USE BoundsAssumption
<1>1. CASE Connect
  <2> DEFINE req == [kind |-> "connect", conn |-> opened + 1, seq |-> 0, rev |-> 0, op |-> "discover"]
  <2>1. req \in Requests /\ Exchange(req) /\ req.conn # 0 /\ conn' # 0
    BY <1>1 DEF Connect, TypeOK, Requests
  <2>2. pending = 0 /\ ~view'.live
    BY <1>1 DEF Connect, Shape, ClosedIsQuiet, NoView
  <2> QED BY <2>1, <2>2, ExchangeShape
<1>2. ASSUME NEW op \in UserOps, Command(op) PROVE Shape'
  <2>1. op \in Ops /\ ready /\ view.seq + 1 <= MaxSequence /\ Send(op, cache) /\ UNCHANGED conn
    BY <1>2, UserOpsAssumption DEF Command, CanSend
  <2> QED BY <2>1, SendShape
<1>3. ASSUME NEW kind \in JobKinds, NEW sel \in BOOLEAN, NEW q, NEW op \in Ops, NEW anchor,
             ready, view.seq + 1 <= MaxSequence, StartJob(kind, sel, q, op, anchor)
      PROVE  Shape'
  BY <1>3, SendShape DEF StartJob
<1>4. ASSUME NEW sel \in BOOLEAN, CollectQueries(sel) PROVE Shape'
  <2>1. ready /\ view.seq + 1 <= MaxSequence
    BY <1>4 DEF CollectQueries, CanCollect, Reserve, remainingCommands, TypeOK, Views
  <2>2. "stack" \in Ops /\ "query" \in JobKinds
    BY DEF Ops, Reads, JobKinds
  <2> QED BY <1>3, <1>4, <2>1, <2>2 DEF CollectQueries
<1>5. ASSUME NEW sel \in BOOLEAN, CollectObserved(sel) PROVE Shape'
  <2>1. ready /\ view.seq + 1 <= MaxSequence
    BY <1>5 DEF CollectObserved, CanCollect, Reserve, remainingCommands, TypeOK, Views
  <2>2. "state" \in Ops /\ "observed" \in JobKinds
    BY DEF Ops, Reads, JobKinds
  <2> QED BY <1>3, <1>5, <2>1, <2>2 DEF CollectObserved
<1>6. ASSUME NEW kind \in {"query", "observed"}, CollectBadSelection(kind) PROVE Shape'
  BY <1>6 DEF CollectBadSelection, Shape, OneRequestAtATime, ClosedIsQuiet, LiveIsQuiet, CallsAreAddressed
<1>7. CASE InspectDeclaredTarget
  <2>1. ready /\ view.seq + 1 <= MaxSequence
    BY <1>7 DEF InspectDeclaredTarget, CanSend
  <2>2. "target" \in Ops /\ "target" \in JobKinds
    BY DEF Ops, Observed, JobKinds
  <2> QED BY <1>3, <1>7, <2>1, <2>2 DEF InspectDeclaredTarget
<1>8. \A g \in Gens : /\ Aborted(calls)[g].stage # "wire"
                      /\ Aborted(calls)[g].stage # "idle" => calls[g].stage # "idle"
                      /\ Aborted(calls)[g].req = calls[g].req
  BY DEF Aborted, TypeOK, Calls, Shape, OneRequestAtATime
<1>9. CASE Invalidate
  <2>1. OneRequestAtATime' /\ ClosedIsQuiet' /\ LiveIsQuiet'
    BY <1>8, <1>9 DEF Invalidate, NoView, OneRequestAtATime, ClosedIsQuiet, LiveIsQuiet
  <2>2. calls' = Aborted(calls) /\ generation' = generation + 1
    BY <1>9 DEF Invalidate
  <2>3. CallsAreAddressed'
    BY <1>8, <2>2 DEF Shape, CallsAreAddressed, TypeOK, Gens
  <2> QED BY <2>1, <2>3 DEF Shape
<1>10. CASE Disconnect
  <2> DEFINE req == [kind |-> "disconnect", conn |-> conn, seq |-> 0, rev |-> 0, op |-> "none"]
             new == [stage |-> "wire", req |-> req, answer |-> NoAnswer]
  <2>1. generation + 1 \in Gens /\ generation' = generation + 1 /\ pending' = generation + 1
    BY <1>10 DEF Disconnect, TypeOK, Gens
  <2>2. \A g \in Gens : calls'[g] = IF g = generation + 1 THEN new ELSE Aborted(calls)[g]
    BY <1>10 DEF Disconnect, Aborted
  <2>3. OneRequestAtATime'
    BY <1>8, <2>1, <2>2 DEF OneRequestAtATime
  <2>4. ClosedIsQuiet' /\ LiveIsQuiet'
    BY <1>10 DEF Disconnect, NoView, ClosedIsQuiet, LiveIsQuiet
  <2>5. CallsAreAddressed'
    <3>1. conn # 0
      BY <1>10 DEF Disconnect
    <3>2. ASSUME NEW g \in Gens, g = generation + 1
          PROVE  calls'[g].req.conn # 0 /\ g <= generation' /\ calls'[g].req.kind # "connect"
      BY <2>1, <2>2, <3>1, <3>2 DEF TypeOK, Gens
    <3>3. ASSUME NEW g \in Gens, g # generation + 1, calls'[g].stage # "idle"
          PROVE  /\ calls'[g].req.conn # 0 /\ g <= generation'
                 /\ calls'[g].req.kind = "connect" => calls'[g].req.seq = 0
      <4>1. calls[g].stage # "idle" /\ calls'[g].req = calls[g].req
        BY <1>8, <2>2, <3>3
      <4> QED BY <2>1, <4>1 DEF Shape, CallsAreAddressed, TypeOK, Gens
    <3> QED BY <3>2, <3>3 DEF CallsAreAddressed
  <2> QED BY <2>3, <2>4, <2>5 DEF Shape
<1> QED BY <1>1, <1>2, <1>4, <1>5, <1>6, <1>7, <1>9, <1>10 DEF User

\* An accepted reply makes the session live and ends the only current call.
LEMMA AcceptShape ==
  ASSUME TypeOK, Shape, NEW g \in Gens, calls[g].stage = "answered", Current(g),
         calls' = [calls EXCEPT ![g] = NoCall], UNCHANGED <<conn, generation, pending>>
  PROVE  Shape'
<1>1. \A h \in Gens : calls'[h] = IF h = g THEN NoCall ELSE calls[h]
  BY DEF TypeOK
<1>2. NoCall.stage = "idle"
  BY DEF NoCall
<1>3. g = generation /\ conn # 0
  BY DEF Current, Shape, CallsAreAddressed
<1>4. pending = 0
  BY <1>3 DEF Shape, OneRequestAtATime
<1>5. OneRequestAtATime'
  BY <1>1, <1>2, <1>4 DEF Shape, OneRequestAtATime
<1>6. ClosedIsQuiet' /\ LiveIsQuiet' /\ CallsAreAddressed'
  BY <1>1, <1>2, <1>3, <1>4 DEF Shape, ClosedIsQuiet, LiveIsQuiet, CallsAreAddressed
<1> QED BY <1>5, <1>6 DEF Shape

\* Continuations preserve Shape: one that was superseded changes nothing of the session.
LEMMA MicrotaskShape == TypeOK /\ Shape /\ Microtask => Shape'
<1> SUFFICES ASSUME TypeOK, Shape, NEW g \in Gens, Unwind(g) \/ Settle(g) \/ JobStep(g) PROVE Shape'
  BY DEF Microtask
<1>1. CASE Unwind(g)
  BY <1>1, FailShape DEF Unwind
<1>2. CASE AcceptConnect(g)
  BY <1>2, AcceptShape DEF AcceptConnect, Answered
<1>3. CASE AcceptReply(g)
  BY <1>3, AcceptShape DEF AcceptReply, Answered
<1>4. ASSUME calls[g].stage = "answered" PROVE pending # g
  BY <1>4, BoundsAssumption DEF Shape, OneRequestAtATime, Gens
<1>5. CASE RejectConnect(g)
  BY <1>4, <1>5, EndShape DEF RejectConnect, Answered, NoView
<1>6. CASE RejectReply(g)
  BY <1>4, <1>6, EndShape DEF RejectReply, Answered, NoView
<1>7. CASE RejectDisconnect(g)
  BY <1>4, <1>7, EndShape DEF RejectDisconnect, Answered, NoView
<1>8. CASE AcceptDisconnect(g)
  <2>1. calls[g].stage = "answered" /\ g = generation
    BY <1>8 DEF AcceptDisconnect, Answered
  <2>2. pending = 0 /\ ~view.live
    BY <2>1 DEF Shape, OneRequestAtATime, LiveIsQuiet
  <2>3. /\ calls' = [calls EXCEPT ![g] = NoCall] /\ UNCHANGED <<generation, pending, view>>
        /\ conn' = conn \/ conn' = 0
    BY <1>8 DEF AcceptDisconnect
  <2> QED BY <1>4, <2>1, <2>2, <2>3, EndShape
<1>9. CASE JobSend(g)
  <2>1. /\ jobs[g].next \in Ops /\ ready /\ view.seq + 1 <= MaxSequence
        /\ Send(jobs[g].next, cache) /\ UNCHANGED conn
    BY <1>9 DEF JobSend, MaySend, CanSend
  <2> QED BY <2>1, SendShape
<1>10. CASE JobReturn(g) \/ JobFail(g)
  BY <1>10 DEF JobReturn, JobFail, Shape, OneRequestAtATime, ClosedIsQuiet, LiveIsQuiet, CallsAreAddressed
<1> QED BY <1>1, <1>2, <1>3, <1>5, <1>6, <1>7, <1>8, <1>9, <1>10 DEF Settle, JobStep

\* Timers and responses preserve Shape.
LEMMA TaskShape == TypeOK /\ Shape /\ Task => Shape'
<1> SUFFICES ASSUME TypeOK, Shape, NEW g \in Gens, Timeout(g) \/ DeliverFailure(g) \/ Deliver(g)
             PROVE  Shape'
  BY DEF Task
<1>1. CASE Timeout(g)
  <2>1. \A h \in Gens : /\ calls'[h].stage = IF h = g THEN "aborted" ELSE calls[h].stage
                        /\ calls'[h].req = calls[h].req
    BY <1>1 DEF Timeout, TypeOK, Calls
  <2>2. calls[g].stage = "wire" /\ UNCHANGED <<conn, view, generation, pending>>
    BY <1>1 DEF Timeout, client
  <2> QED BY <2>1, <2>2, BoundsAssumption, ZenonT(30) DEF TypeOK, Gens, Shape, OneRequestAtATime, ClosedIsQuiet,
             LiveIsQuiet, CallsAreAddressed
<1>2. CASE DeliverFailure(g)
  BY <1>2, FailShape DEF DeliverFailure
<1>3. CASE Deliver(g)
  <2>1. \A h \in Gens : /\ calls'[h].stage = IF h = g THEN "answered" ELSE calls[h].stage
                        /\ calls'[h].req = calls[h].req
    <3>1. PICK a : calls' = [calls EXCEPT ![g].stage = "answered", ![g].answer = a]
      BY <1>3 DEF Deliver
    <3> QED BY <3>1 DEF TypeOK, Calls
  <2>2. /\ calls[g].stage = "wire" /\ UNCHANGED <<conn, view, generation>>
        /\ pending' = IF pending = g THEN 0 ELSE pending
    BY <1>3 DEF Deliver
  <2>3. pending' = 0 /\ ~view.live
    BY <2>2 DEF Shape, OneRequestAtATime, LiveIsQuiet
  <2> QED BY <2>1, <2>2, <2>3 DEF Shape, OneRequestAtATime, ClosedIsQuiet, LiveIsQuiet, CallsAreAddressed
<1> QED BY <1>1, <1>2, <1>3

\* The bridge only attaches an answer to a call.
LEMMA AnswerKeepsCalls ==
  ASSUME TypeOK, Environment
  PROVE  \A h \in Gens : calls'[h].stage = calls[h].stage /\ calls'[h].req = calls[h].req
<1>1. ASSUME NEW g \in Gens, NEW a, Answer(g, a)
      PROVE  \A h \in Gens : calls'[h].stage = calls[h].stage /\ calls'[h].req = calls[h].req
  BY <1>1 DEF Answer, TypeOK, Calls
<1>2. (\E g \in Gens : \E a : Answer(g, a)) \/ UNCHANGED calls
  BY DEF Environment, ServeConnect, ServeCommand, ServeDisconnect, BridgeStops
<1> QED BY <1>1, <1>2

\* The bridge cannot disturb Shape.
LEMMA EnvironmentShape == TypeOK /\ Shape /\ Environment => Shape'
<1> SUFFICES ASSUME TypeOK, Shape, Environment PROVE Shape'
  OBVIOUS
<1>1. UNCHANGED <<conn, view, generation, pending>>
  BY DEF Environment, ServeConnect, ServeCommand, ServeDisconnect, BridgeStops, client
<1>2. \A h \in Gens : calls'[h].stage = calls[h].stage /\ calls'[h].req = calls[h].req
  BY AnswerKeepsCalls
<1>3. pending # 0 => pending \in Gens
  BY BoundsAssumption DEF TypeOK, Gens
<1>4. OneRequestAtATime'
  BY <1>1, <1>2, <1>3 DEF Shape, OneRequestAtATime
<1>5. ClosedIsQuiet' /\ LiveIsQuiet' /\ CallsAreAddressed'
  BY <1>1, <1>2 DEF Shape, ClosedIsQuiet, LiveIsQuiet, CallsAreAddressed
<1> QED BY <1>4, <1>5 DEF Shape

\* Every step preserves SessionInv.
LEMMA InvInductive == SessionInv /\ [Next]_vars => SessionInv'
<1>1. TypeOK /\ Shape /\ UNCHANGED vars => Shape'
  BY DEF vars, Shape, OneRequestAtATime, ClosedIsQuiet, LiveIsQuiet, CallsAreAddressed
<1>2. TypeOK /\ Shape /\ [Next]_vars => Shape'
  BY <1>1, UserShape, MicrotaskShape, TaskShape, EnvironmentShape DEF Next
<1>3. TypeOK /\ [Next]_vars => TypeOK'
  BY UserType, MicrotaskType, TaskType, EnvironmentType, StutterType DEF Next
<1>4. SessionInv' <=> TypeOK' /\ Shape'
  BY DEF SessionInv, Shape
<1> QED BY <1>2, <1>3, <1>4, InvIsShape

\* SessionInv holds at the start.
LEMMA InvInitial == Init => SessionInv
<1>1. Init => TypeOK
  BY ConstantTypes, BoundsAssumption DEF Init, TypeOK, Answers
<1>2. Init => Shape
  BY DEF Init, NoCall, NoView, Shape, OneRequestAtATime, ClosedIsQuiet, LiveIsQuiet, CallsAreAddressed
<1> QED BY <1>1, <1>2, InvIsShape

\* SessionInv is inductive: whatever the bridge, the timers and the callers do,
\* the session's flags and the activations of its methods agree.
THEOREM SessionInvariant == Spec => []SessionInv
BY InvInitial, InvInductive, PTL DEF Spec

\* The doc's "one request at a time": only the exchange this.pending names is
\* still open to a response, and this.pending never outlives its exchange.
THEOREM RequestsAreSerial == Spec => []OneRequestAtATime
<1>1. SessionInv => OneRequestAtATime
  BY DEF SessionInv
<1> QED BY <1>1, SessionInvariant, PTL

(***************************************************************************)
(* CpuDebugSession implements DebugSession.                                 *)
(***************************************************************************)
\* The phase of a state, before and after a step.
LEMMA Phases ==
  /\ AbstractPhase = "closed" <=> conn = 0
  /\ AbstractPhase = "live" <=> conn # 0 /\ view.live
  /\ AbstractPhase = "opening" <=> conn # 0 /\ ~view.live /\ InFlight("connect")
  /\ AbstractPhase = "busy" <=> conn # 0 /\ ~view.live /\ InFlight("command")
  /\ AbstractPhase \in {"closed", "live", "opening", "busy", "doubt"}
BY DEF AbstractPhase, InFlight

\* The phase after a step, in terms of connection, view and exchange.
LEMMA PhasesNext ==
  /\ AbstractPhase' = "closed" <=> conn' = 0
  /\ AbstractPhase' = "live" <=> conn' # 0 /\ view'.live
  /\ AbstractPhase' = "opening" <=> conn' # 0 /\ ~view'.live /\ InFlight("connect")'
  /\ AbstractPhase' = "busy" <=> conn' # 0 /\ ~view'.live /\ InFlight("command")'
  /\ AbstractPhase' \in {"closed", "live", "opening", "busy", "doubt"}
BY DEF AbstractPhase, InFlight

\* sendCommand issues the next command of a live session.
LEMMA SendRefines ==
  ASSUME TypeOK, ready, view.seq + 1 <= MaxSequence, NEW op, NEW q,
         Send(op, q), UNCHANGED <<conn, opened>>
  PROVE  Promise!Issue
<1> DEFINE req == [kind |-> "command", conn |-> conn, seq |-> view.seq + 1,
                   rev |-> view.rev, op |-> op]
<1>1. AbstractPhase = "live" /\ AbstractSequence = view.seq
  BY Phases DEF ready, AbstractSequence
<1>2. generation' \in Gens /\ calls'[generation'] = [stage |-> "wire", req |-> req, answer |-> NoAnswer]
  BY BoundsAssumption DEF Send, Exchange, TypeOK, Gens
<1>3. conn' # 0 /\ ~view'.live
  BY DEF ready, Send, NoView
<1>4. InFlight("command")' /\ calls'[generation'].req.seq = view.seq + 1
  BY <1>2 DEF InFlight
<1>5. AbstractPhase' = "busy" /\ AbstractSequence' = view.seq + 1
  BY <1>3, <1>4, PhasesNext DEF AbstractSequence
<1>6. view.seq < MaxSequence
  BY BoundsAssumption DEF TypeOK, Views
<1> QED BY <1>1, <1>5, <1>6 DEF Promise!Issue

\* A step after which the session is in doubt (or closed as before).
LEMMA DoubtRefines ==
  ASSUME TypeOK, UNCHANGED <<conn, opened>>, ~view'.live, ~InFlight("connect")', ~InFlight("command")'
  PROVE  [Promise!Next]_(Promise!vars)
<1>1. AbstractPhase' = IF conn = 0 THEN "closed" ELSE "doubt"
  BY PhasesNext
<1>2. AbstractSequence' = 0
  BY <1>1 DEF AbstractSequence
<1>3. AbstractPhase \in {"closed", "doubt"} => AbstractSequence = 0
  BY DEF AbstractSequence
<1> QED BY <1>1, <1>2, <1>3, Phases DEF Promise!Next, Promise!Doubt, Promise!vars

\* A step that leaves the abstract state alone.
LEMMA SameRefines ==
  ASSUME UNCHANGED <<conn, opened, generation, view>>,
         \A g \in Gens : g = generation =>
            /\ calls'[g].stage \in {"wire", "answered"} <=> calls[g].stage \in {"wire", "answered"}
            /\ calls'[g].req = calls[g].req
  PROVE  [Promise!Next]_(Promise!vars)
<1>1. InFlight("connect")' <=> InFlight("connect")
  BY DEF InFlight
<1>2. InFlight("command")' <=> InFlight("command")
  BY DEF InFlight
<1>3. AbstractPhase' = AbstractPhase
  BY <1>1, <1>2 DEF AbstractPhase
<1>4. AbstractSequence' = AbstractSequence
  BY <1>2, <1>3, Phases DEF AbstractSequence, InFlight
<1> QED BY <1>3, <1>4 DEF Promise!vars

\* A failing exchange leaves the session in doubt, or closed, or alone if it was superseded.
LEMMA FailRefines ==
  ASSUME SessionInv, NEW g \in Gens, calls[g].stage # "idle", NEW closed \in BOOLEAN, Fail(g, closed)
  PROVE  [Promise!Next]_(Promise!vars)
<1> USE DEF SessionInv
<1>1. \A h \in Gens : calls'[h] = IF h = g THEN NoCall ELSE calls[h]
  BY DEF Fail, TypeOK
<1>2. UNCHANGED <<opened, generation>>
  BY DEF Fail
<1>3. CASE g # generation
  BY <1>1, <1>2, <1>3, SameRefines DEF Fail
<1>4. CASE g = generation
  <2>1. ~view.live /\ ~view'.live
    BY <1>4 DEF LiveIsQuiet, Fail, NoView
  <2>2. ~InFlight("connect")' /\ ~InFlight("command")'
    BY <1>1, <1>2, <1>4 DEF InFlight, NoCall
  <2>3. CASE conn' = conn
    BY <1>2, <2>1, <2>2, <2>3, DoubtRefines
  <2>4. CASE conn' # conn
    <3>1. conn # 0 /\ conn' = 0
      BY <1>4, <2>4 DEF Fail
    <3>2. AbstractPhase \in {"opening", "busy", "doubt"} /\ AbstractPhase' = "closed"
      BY <2>1, <3>1, Phases, PhasesNext
    <3>3. AbstractSequence' = 0
      BY <3>2 DEF AbstractSequence
    <3> QED BY <1>2, <3>2, <3>3 DEF Promise!Next, Promise!Close
  <2> QED BY <2>3, <2>4
<1> QED BY <1>3, <1>4

\* A reply that is refused leaves the session in doubt, or alone if it was superseded.
LEMMA RejectRefines ==
  ASSUME SessionInv, NEW g \in Gens, calls[g].stage = "answered",
         view' = IF conn = calls[g].req.conn THEN NoView ELSE view,
         calls' = [calls EXCEPT ![g] = NoCall], UNCHANGED <<conn, generation, opened>>
  PROVE  [Promise!Next]_(Promise!vars)
<1> USE DEF SessionInv
<1>1. \A h \in Gens : calls'[h] = IF h = g THEN NoCall ELSE calls[h]
  BY DEF TypeOK
<1>2. CASE g = generation
  <2>1. ~view'.live
    BY <1>2 DEF LiveIsQuiet, NoView
  <2>2. ~InFlight("connect")' /\ ~InFlight("command")'
    BY <1>1, <1>2 DEF InFlight, NoCall
  <2> QED BY <2>1, <2>2, DoubtRefines
<1>3. CASE g # generation /\ view' = view
  BY <1>1, <1>3, SameRefines
<1>4. CASE g # generation /\ view' = NoView
  <2>1. (InFlight("connect")' <=> InFlight("connect")) /\ (InFlight("command")' <=> InFlight("command"))
    BY <1>1, <1>4 DEF InFlight
  <2>2. CASE ~view.live
    <3>1. AbstractPhase' = AbstractPhase
      BY <1>4, <2>1, <2>2 DEF AbstractPhase, NoView
    <3>2. AbstractPhase # "live"
      BY <2>2, Phases
    <3>3. AbstractPhase = "busy" => calls'[generation] = calls[generation]
      BY <1>1, <1>4, Phases DEF InFlight
    <3>4. AbstractSequence' = AbstractSequence
      BY <3>1, <3>2, <3>3 DEF AbstractSequence
    <3> QED BY <3>1, <3>4 DEF Promise!vars
  <2>3. CASE view.live
    <3>1. ~InFlight("connect")' /\ ~InFlight("command")'
      BY <2>1, <2>3 DEF InFlight, LiveIsQuiet
    <3> QED BY <1>4, <3>1, DoubtRefines DEF NoView
  <2> QED BY <2>2, <2>3
<1> QED BY <1>2, <1>3, <1>4

\* A reply that is accepted makes the session live with the sequence of its request.
LEMMA AcceptRefines ==
  ASSUME SessionInv, NEW g \in Gens, NEW kind \in {"connect", "command"}, Answered(g, kind),
         Decodes(calls[g].req, calls[g].answer), Current(g),
         view' = Live(calls[g].answer), calls' = [calls EXCEPT ![g] = NoCall],
         UNCHANGED <<conn, generation, opened>>
  PROVE  Promise!Next
<1> USE DEF SessionInv
<1>1. g = generation /\ conn # 0 /\ ~view.live
  BY DEF Current, Answered, LiveIsQuiet, CallsAreAddressed
<1>2. InFlight(kind)
  BY <1>1 DEF Answered, InFlight
<1>3. AbstractPhase' = "live" /\ AbstractSequence' = calls[g].req.seq
  <2>1. view'.live /\ view'.seq = calls[g].req.seq
    BY DEF Live, Decodes
  <2> QED BY <1>1, <2>1, PhasesNext DEF AbstractSequence
<1>4. CASE kind = "connect"
  <2>1. AbstractPhase = "opening"
    BY <1>1, <1>2, <1>4, Phases
  <2>2. calls[g].req.seq = 0
    BY <1>4 DEF Answered, CallsAreAddressed
  <2> QED BY <1>3, <2>1, <2>2 DEF Promise!Next, Promise!Opened
<1>5. CASE kind = "command"
  <2>1. AbstractPhase = "busy"
    BY <1>1, <1>2, <1>5, Phases
  <2>2. AbstractSequence = calls[g].req.seq
    BY <1>1, <2>1 DEF AbstractSequence
  <2> QED BY <1>3, <2>1, <2>2 DEF Promise!Next, Promise!Answer
<1> QED BY <1>4, <1>5

\* The calls of the client are steps of DebugSession.
LEMMA UserRefines == SessionInv /\ User => [Promise!Next]_(Promise!vars)
<1> SUFFICES ASSUME SessionInv, User PROVE [Promise!Next]_(Promise!vars)
  OBVIOUS
<1>0. TypeOK
  BY DEF SessionInv
<1> USE BoundsAssumption
<1>1. CASE Connect
  <2>1. generation' \in Gens /\ calls'[generation'].stage = "wire" /\ calls'[generation'].req.kind = "connect"
    BY <1>0, <1>1 DEF Connect, Exchange, TypeOK, Gens
  <2>2. AbstractPhase = "closed" /\ AbstractPhase' = "opening"
    BY <1>0, <1>1, <2>1, Phases, PhasesNext DEF Connect, InFlight, NoView, TypeOK
  <2>3. AbstractSequence' = 0
    BY <2>2 DEF AbstractSequence
  <2> QED BY <1>1, <2>2, <2>3 DEF Connect, Promise!Next, Promise!Open
<1>2. ASSUME ready, view.seq + 1 <= MaxSequence, NEW op, NEW q, Send(op, q), UNCHANGED <<conn, opened>>
      PROVE  Promise!Next
  BY <1>0, <1>2, SendRefines DEF Promise!Next
<1>3. ASSUME NEW op \in UserOps, Command(op) PROVE Promise!Next
  BY <1>2, <1>3 DEF Command, CanSend
<1>4. ASSUME NEW sel \in BOOLEAN, CollectQueries(sel) \/ CollectObserved(sel) PROVE Promise!Next
  <2>1. ready /\ view.seq + 1 <= MaxSequence
    BY <1>0, <1>4 DEF CollectQueries, CollectObserved, CanCollect, Reserve, remainingCommands, TypeOK, Views
  <2> QED BY <1>2, <1>4, <2>1 DEF CollectQueries, CollectObserved, StartJob
<1>5. ASSUME NEW kind \in {"query", "observed"}, CollectBadSelection(kind)
      PROVE  [Promise!Next]_(Promise!vars)
  BY <1>5, SameRefines DEF CollectBadSelection
<1>6. CASE InspectDeclaredTarget
  BY <1>2, <1>6 DEF InspectDeclaredTarget, CanSend, StartJob
<1>7. CASE Invalidate
  <2>1. ~InFlight("connect")' /\ ~InFlight("command")'
    <3>1. generation' = generation + 1 /\ calls' = Aborted(calls)
      BY <1>7 DEF Invalidate
    <3>2. \A g \in Gens : g = generation + 1 => calls[g].stage = "idle"
      BY <1>0 DEF SessionInv, CallsAreAddressed, TypeOK
    <3> QED BY <1>0, <3>1, <3>2 DEF InFlight, Aborted
  <2> QED BY <1>0, <1>7, <2>1, DoubtRefines DEF Invalidate, NoView
<1>8. CASE Disconnect
  <2>1. generation' \in Gens /\ calls'[generation'].req.kind = "disconnect"
    BY <1>0, <1>8 DEF Disconnect, Aborted, TypeOK, Gens
  <2>2. ~InFlight("connect")' /\ ~InFlight("command")'
    BY <2>1 DEF InFlight
  <2> QED BY <1>0, <1>8, <2>2, DoubtRefines DEF Disconnect, NoView
<1> QED BY <1>1, <1>3, <1>4, <1>5, <1>6, <1>7, <1>8 DEF User

\* Continuations are steps of DebugSession.
LEMMA MicrotaskRefines == SessionInv /\ Microtask => [Promise!Next]_(Promise!vars)
<1> SUFFICES ASSUME SessionInv, NEW g \in Gens, Unwind(g) \/ Settle(g) \/ JobStep(g)
             PROVE  [Promise!Next]_(Promise!vars)
  BY DEF Microtask
<1>0. TypeOK
  BY DEF SessionInv
<1>1. CASE Unwind(g)
  BY <1>1, FailRefines DEF Unwind
<1>2. CASE AcceptConnect(g)
  BY <1>2, AcceptRefines DEF AcceptConnect
<1>3. CASE AcceptReply(g)
  BY <1>3, AcceptRefines DEF AcceptReply
<1>4. CASE RejectConnect(g)
  BY <1>4, RejectRefines DEF RejectConnect, Answered
<1>5. CASE RejectReply(g)
  BY <1>5, RejectRefines DEF RejectReply, Answered
<1>6. CASE RejectDisconnect(g)
  BY <1>6, RejectRefines DEF RejectDisconnect, Answered
<1>7. CASE AcceptDisconnect(g)
  <2>1. g = generation /\ calls[g].stage = "answered" /\ calls[g].req.kind = "disconnect"
    BY <1>7 DEF AcceptDisconnect, Answered
  <2>2. calls'[g] = NoCall /\ UNCHANGED <<view, generation, opened>> /\ (conn' = conn \/ conn' = 0)
    BY <1>0, <1>7 DEF AcceptDisconnect, TypeOK
  <2>3. ~view.live /\ ~view'.live
    BY <2>1, <2>2 DEF SessionInv, LiveIsQuiet
  <2>4. ~InFlight("connect")' /\ ~InFlight("command")'
    BY <2>1, <2>2 DEF InFlight, NoCall
  <2>5. CASE conn' = conn
    BY <1>0, <2>2, <2>3, <2>4, <2>5, DoubtRefines
  <2>6. CASE conn' = 0 /\ conn # 0
    <3>1. AbstractPhase = "doubt" /\ AbstractPhase' = "closed"
      BY <2>1, <2>3, <2>6, Phases, PhasesNext DEF InFlight
    <3>2. AbstractSequence' = 0
      BY <3>1 DEF AbstractSequence
    <3> QED BY <2>2, <3>1, <3>2 DEF Promise!Next, Promise!Close
  <2> QED BY <2>2, <2>5, <2>6
<1>8. CASE JobSend(g)
  <2>1. /\ ready /\ view.seq + 1 <= MaxSequence /\ Send(jobs[g].next, cache) /\ UNCHANGED <<conn, opened>>
    BY <1>8 DEF JobSend, MaySend, CanSend
  <2> QED BY <1>0, <2>1, SendRefines DEF Promise!Next
<1>9. CASE JobReturn(g) \/ JobFail(g)
  BY <1>9, SameRefines DEF JobReturn, JobFail
<1> QED BY <1>1, <1>2, <1>3, <1>4, <1>5, <1>6, <1>7, <1>8, <1>9 DEF Settle, JobStep

\* Timers and responses are steps of DebugSession.
LEMMA TaskRefines == SessionInv /\ Task => [Promise!Next]_(Promise!vars)
<1> SUFFICES ASSUME SessionInv, NEW g \in Gens, Timeout(g) \/ DeliverFailure(g) \/ Deliver(g)
             PROVE  [Promise!Next]_(Promise!vars)
  BY DEF Task
<1>0. TypeOK
  BY DEF SessionInv
<1>1. CASE Timeout(g)
  <2>1. calls[g].stage = "wire" /\ UNCHANGED <<conn, view, generation, opened>>
    BY <1>1 DEF Timeout, client
  <2>2. g = generation /\ ~view.live
    BY <2>1 DEF SessionInv, OneRequestAtATime, LiveIsQuiet
  <2>3. calls'[g].stage = "aborted"
    BY <1>0, <1>1 DEF Timeout, TypeOK, Calls
  <2>4. ~InFlight("connect")' /\ ~InFlight("command")'
    BY <2>1, <2>2, <2>3 DEF InFlight
  <2> QED BY <1>0, <2>1, <2>2, <2>4, DoubtRefines
<1>2. CASE DeliverFailure(g)
  BY <1>2, FailRefines DEF DeliverFailure
<1>3. CASE Deliver(g)
  <2>1. \A h \in Gens : /\ calls'[h].stage = IF h = g THEN "answered" ELSE calls[h].stage
                        /\ calls'[h].req = calls[h].req
    <3>1. PICK a : calls' = [calls EXCEPT ![g].stage = "answered", ![g].answer = a]
      BY <1>3 DEF Deliver
    <3> QED BY <1>0, <3>1 DEF TypeOK, Calls
  <2>2. calls[g].stage = "wire" /\ UNCHANGED <<conn, view, generation, opened>>
    BY <1>3 DEF Deliver
  <2> QED BY <2>1, <2>2, SameRefines
<1> QED BY <1>1, <1>2, <1>3

\* The bridge is invisible to a caller until its answer is handled.
LEMMA EnvironmentRefines == SessionInv /\ Environment => [Promise!Next]_(Promise!vars)
<1> SUFFICES ASSUME SessionInv, Environment PROVE [Promise!Next]_(Promise!vars)
  OBVIOUS
<1>1. UNCHANGED <<conn, view, generation, opened>>
  BY DEF Environment, ServeConnect, ServeCommand, ServeDisconnect, BridgeStops, client
<1>2. \A h \in Gens : calls'[h].stage = calls[h].stage /\ calls'[h].req = calls[h].req
  BY AnswerKeepsCalls DEF SessionInv
<1> QED BY <1>1, <1>2, SameRefines

\* CpuDebugSession keeps the promise of DebugSession for every bridge, every
\* order of answers and every number of connections, commands and generations:
\* one command at a time, each with the next sequence, none after a doubt, and
\* no second session before the first is closed.
THEOREM Refinement == Spec => ImplementsDebugSession
<1>1. Init => Promise!Init
  BY DEF Init, AbstractPhase, AbstractSequence, Promise!Init
<1>2. SessionInv /\ [Next]_vars => [Promise!Next]_(Promise!vars)
  <2>1. ASSUME UNCHANGED vars PROVE UNCHANGED Promise!vars
    BY <2>1 DEF vars, Promise!vars, AbstractPhase, AbstractSequence, InFlight
  <2> QED BY <2>1, UserRefines, MicrotaskRefines, TaskRefines, EnvironmentRefines DEF Next
<1> QED BY <1>1, <1>2, SessionInvariant, PTL DEF Spec, ImplementsDebugSession, Promise!Spec

(***************************************************************************)
(* What is due is alone, and what a collector awaits.                       *)
(***************************************************************************)
Alone(g) == \A h \in Gens : h # g => calls[h].stage = "idle"

\* A live session has no activation of exchange left, the exchange of a command
\* is the only one, and no collector is due while a response is.
DueIsAlone ==
  /\ view.live => \A h \in Gens : calls[h].stage = "idle"
  /\ \A g \in Gens : g = generation =>
       /\ calls[g].stage = "wire" /\ calls[g].req.kind = "command" => Alone(g)
       /\ calls[g].stage = "answered" => Alone(g) /\ \A l \in Gens : ~Running(l)

\* A collector that awaits a command is alone in that, and the exchange is under way.
JobsAwait == \A l, g \in Gens : jobs[l].kind # "none" =>
  /\ l <= generation
  /\ jobs[l].wait = g =>
       /\ calls[g].stage # "idle" /\ calls[g].req.kind = "command"
       /\ \A k \in Gens : jobs[k].kind # "none" /\ jobs[k].wait = g => k = l

DueInv == DueIsAlone /\ JobsAwait

\* A new exchange takes the next generation and leaves the others alone.
LEMMA StartEffect ==
  ASSUME TypeOK, NEW req, Exchange(req)
  PROVE  /\ generation + 1 \in Gens /\ generation' = generation + 1 /\ pending' = generation + 1
         /\ \A h \in Gens : calls'[h] = IF h = generation + 1
                                        THEN [stage |-> "wire", req |-> req, answer |-> NoAnswer]
                                        ELSE calls[h]
         /\ \A h \in Gens : wire'[h] = IF h = generation + 1 THEN req ELSE wire[h]
<1>1. generation + 1 \in Gens /\ generation' = generation + 1 /\ pending' = generation + 1
  BY BoundsAssumption DEF TypeOK, Exchange, Gens
<1> QED BY <1>1 DEF Exchange, TypeOK

\* A collector whose exchange does not resolve is left alone.
LEMMA ResumedSame ==
  ASSUME NEW g, NEW n, NEW l \in Gens, ~(jobs[l].kind # "none" /\ jobs[l].wait = g)
  PROVE  Resumed(jobs, g, n)[l] = jobs[l]
BY DEF Resumed

\* A collector whose exchange resolves, or rejects, awaits no longer.
LEMMA ResumedJob ==
  ASSUME TypeOK, NEW g, NEW n, NEW l \in Gens, jobs[l].kind # "none" /\ jobs[l].wait = g
  PROVE  /\ Resumed(jobs, g, n)[l].kind = jobs[l].kind
         /\ Resumed(jobs, g, n)[l].conn = jobs[l].conn
         /\ Resumed(jobs, g, n)[l].anchor = jobs[l].anchor
         /\ Resumed(jobs, g, n)[l].sel = jobs[l].sel
         /\ Resumed(jobs, g, n)[l].seq = jobs[l].seq
         /\ Resumed(jobs, g, n)[l].wait = 0
         /\ Resumed(jobs, g, n)[l].next = n
<1>1. Resumed(jobs, g, n)[l] = [jobs[l] EXCEPT !.wait = 0, !.next = n]
  BY Zenon DEF Resumed
<1>2. jobs[l] \in Jobs
  BY DEF TypeOK
<1> QED BY <1>1, <1>2 DEF Jobs

\* A rejected collector is due to fail, a rejected inspectDeclaredTarget is gone.
LEMMA RejectedJobs ==
  ASSUME TypeOK, NEW g \in Gens, NEW l \in Gens
  PROVE  /\ ~(jobs[l].kind # "none" /\ jobs[l].wait = g) => Rejected(jobs, g)[l] = jobs[l]
         /\ jobs[l].kind # "none" /\ jobs[l].wait = g =>
              \/ Rejected(jobs, g)[l].kind = "none" /\ jobs[l].kind = "target"
              \/ /\ jobs[l].kind # "target"
                 /\ Rejected(jobs, g)[l].kind = jobs[l].kind
                 /\ Rejected(jobs, g)[l].conn = jobs[l].conn
                 /\ Rejected(jobs, g)[l].anchor = jobs[l].anchor
                 /\ Rejected(jobs, g)[l].wait = 0
                 /\ Rejected(jobs, g)[l].next = "fail"
<1>1. Rejected(jobs, g)[l] = IF jobs[l].kind = "target" /\ jobs[l].wait = g THEN NoJob
                             ELSE Resumed(jobs, g, "fail")[l]
  BY Zenon DEF Rejected
<1>2. NoJob.kind = "none"
  BY DEF NoJob
<1>4. CASE ~(jobs[l].kind # "none" /\ jobs[l].wait = g)
  <2>1. Resumed(jobs, g, "fail")[l] = jobs[l]
    BY <1>4, ResumedSame
  <2> QED BY <1>1, <1>4, <2>1
<1>5. CASE jobs[l].kind # "none" /\ jobs[l].wait = g
  <2> DEFINE r == Resumed(jobs, g, "fail")[l]
  <2>1. /\ r.kind = jobs[l].kind /\ r.conn = jobs[l].conn /\ r.anchor = jobs[l].anchor
        /\ r.wait = 0 /\ r.next = "fail"
    BY <1>5, ResumedJob
  <2> HIDE DEF r
  <2>2. Rejected(jobs, g)[l] = IF jobs[l].kind = "target" THEN NoJob ELSE r
    BY <1>1, <1>5 DEF r
  <2> QED BY <1>2, <1>5, <2>1, <2>2
<1> QED BY <1>4, <1>5

\* The end of an exchange leaves its calls and jobs in order.
LEMMA EndDue ==
  ASSUME SessionInv, DueInv, NEW g \in Gens, calls[g].stage # "idle",
         calls' = [calls EXCEPT ![g] = NoCall], UNCHANGED generation,
         view'.live => view.live \/ (g = generation /\ calls[g].stage = "answered"),
         \/ jobs' = Rejected(jobs, g)
         \/ \E n : jobs' = Resumed(jobs, g, n)
         \/ UNCHANGED jobs /\ Awaiting(g) = {}
  PROVE  DueInv'
<1>0. TypeOK
  BY DEF SessionInv
<1>1. \A h \in Gens : calls'[h] = IF h = g THEN NoCall ELSE calls[h]
  BY <1>0 DEF TypeOK
<1>2. NoCall.stage = "idle"
  BY DEF NoCall
<1>3. \A h \in Gens : h = generation /\ (calls[h].stage = "answered"
                         \/ (calls[h].stage = "wire" /\ calls[h].req.kind = "command")) => h = g
  BY DEF DueInv, DueIsAlone, Alone
<1>4. DueIsAlone'
  BY <1>1, <1>2, <1>3 DEF DueInv, DueIsAlone, Alone
<1>5. \A l \in Gens : \/ jobs'[l].kind = "none"
                      \/ jobs'[l] = jobs[l] /\ jobs[l].wait # g
                      \/ jobs'[l].kind = jobs[l].kind /\ jobs'[l].wait = 0
  <2> SUFFICES ASSUME NEW l \in Gens
               PROVE  \/ jobs'[l].kind = "none"
                      \/ jobs'[l] = jobs[l] /\ jobs[l].wait # g
                      \/ jobs'[l].kind = jobs[l].kind /\ jobs'[l].wait = 0
    OBVIOUS
  <2>1. CASE jobs' = Rejected(jobs, g)
    <3>1. jobs'[l] = Rejected(jobs, g)[l]
      BY <2>1
    <3> QED BY <1>0, <3>1, RejectedJobs
  <2>2. ASSUME NEW n, jobs' = Resumed(jobs, g, n)
        PROVE  \/ jobs'[l].kind = "none"
               \/ jobs'[l] = jobs[l] /\ jobs[l].wait # g
               \/ jobs'[l].kind = jobs[l].kind /\ jobs'[l].wait = 0
    <3>1. jobs'[l] = Resumed(jobs, g, n)[l]
      BY <2>2
    <3>2. CASE jobs[l].kind # "none" /\ jobs[l].wait = g
      BY <1>0, <3>1, <3>2, ResumedJob
    <3>3. CASE ~(jobs[l].kind # "none" /\ jobs[l].wait = g)
      <4>1. jobs'[l] = jobs[l]
        BY <3>1, <3>3, ResumedSame
      <4> QED BY <3>3, <4>1
    <3> QED BY <3>2, <3>3
  <2>3. CASE UNCHANGED jobs /\ Awaiting(g) = {}
    BY <2>3 DEF Awaiting
  <2> QED BY <2>1, <2>2, <2>3
<1>6. \A h \in Gens : h # 0
  BY BoundsAssumption DEF Gens
<1>7. JobsAwait'
  BY <1>1, <1>5, <1>6 DEF DueInv, JobsAwait
<1> QED BY <1>4, <1>7 DEF DueInv

\* A new exchange is the only one if it is a command's.
LEMMA StartDue ==
  ASSUME SessionInv, DueInv, NEW req, Exchange(req), ~view'.live,
         req.kind = "command" => view.live,
         \/ UNCHANGED jobs
         \/ /\ req.kind = "command"
            /\ \E l \in Gens : \E j :
                 /\ jobs' = [jobs EXCEPT ![l] = j]
                 /\ l <= generation + 1 /\ j.wait = generation + 1
  PROVE  DueInv'
<1>0. TypeOK
  BY DEF SessionInv
<1>1. /\ generation + 1 \in Gens /\ generation' = generation + 1
      /\ \A h \in Gens : calls'[h] = IF h = generation + 1
                                     THEN [stage |-> "wire", req |-> req, answer |-> NoAnswer]
                                     ELSE calls[h]
  BY <1>0, StartEffect
<1>2. calls[generation + 1].stage = "idle"
  BY <1>0, <1>1, BoundsAssumption DEF SessionInv, CallsAreAddressed, TypeOK, Gens
<1>3. DueIsAlone'
  BY <1>1 DEF DueInv, DueIsAlone, Alone
<1>4. \A l \in Gens : jobs[l].kind # "none" => jobs[l].wait # generation + 1
  BY <1>1, <1>2 DEF DueInv, JobsAwait
<1>5. \A l \in Gens : jobs[l].kind # "none" => l <= generation'
  BY <1>0, <1>1, BoundsAssumption DEF DueInv, JobsAwait, TypeOK, Gens
<1>6. JobsAwait'
  <2>1. CASE UNCHANGED jobs
    BY <1>1, <1>4, <1>5, <2>1 DEF DueInv, JobsAwait
  <2>2. ASSUME NEW l \in Gens, NEW j, jobs' = [jobs EXCEPT ![l] = j], req.kind = "command",
               l <= generation + 1, j.wait = generation + 1
        PROVE  JobsAwait'
    <3>1. \A k \in Gens : jobs'[k] = IF k = l THEN j ELSE jobs[k]
      BY <1>0, <2>2 DEF TypeOK
    <3> QED BY <1>1, <1>4, <1>5, <2>2, <3>1 DEF DueInv, JobsAwait
  <2> QED BY <2>1, <2>2
<1> QED BY <1>3, <1>6 DEF DueInv

\* Activations that change their stage only, and collectors that end.
LEMMA SameDue ==
  ASSUME SessionInv, DueInv, view'.live => view.live, generation' >= generation,
         generation' \in Nat,
         \A h \in Gens : /\ calls'[h].req = calls[h].req
                         /\ calls'[h].stage = "idle" <=> calls[h].stage = "idle"
                         /\ calls'[h].stage \in {"wire", "answered"} /\ h = generation' =>
                              generation' = generation /\ calls'[h].stage = calls[h].stage,
         \A l \in Gens : jobs'[l].kind = "none" \/ jobs'[l] = jobs[l]
  PROVE  DueInv'
<1>0. TypeOK
  BY DEF SessionInv
<1>1. DueIsAlone'
  BY DEF DueInv, DueIsAlone, Alone, Running
<1>2. \A l \in Gens : jobs[l].kind # "none" => l <= generation'
  BY <1>0, BoundsAssumption DEF DueInv, JobsAwait, TypeOK, Gens
<1>3. JobsAwait'
  BY <1>2 DEF DueInv, JobsAwait
<1> QED BY <1>1, <1>3 DEF DueInv

\* abort marks the exchange it aborts and leaves the others alone.
LEMMA AbortedCalls ==
  ASSUME TypeOK, NEW h \in Gens
  PROVE  /\ Aborted(calls)[h].req = calls[h].req
         /\ Aborted(calls)[h].stage = IF h = pending /\ calls[h].stage = "wire" THEN "aborted"
                                      ELSE calls[h].stage
         /\ Aborted(calls) \in [Gens -> Calls]
<1>1. calls[h] \in Calls /\ calls \in [Gens -> Calls]
  BY DEF TypeOK
<1>2. Aborted(calls)[h] = IF h = pending /\ calls[h].stage = "wire"
                          THEN [calls[h] EXCEPT !.stage = "aborted"] ELSE calls[h]
  BY Zenon DEF Aborted
<1>3. Aborted(calls) \in [Gens -> Calls]
  BY <1>1 DEF Aborted, Calls, Stages
<1> QED BY <1>1, <1>2, <1>3 DEF Calls

\* A call of the client starts an exchange when none is due, or leaves what is due alone.
LEMMA UserDue == SessionInv /\ DueInv /\ User => DueInv'
<1> SUFFICES ASSUME SessionInv, DueInv, User PROVE DueInv'
  OBVIOUS
<1>0. TypeOK
  BY DEF SessionInv
<1>1. CASE Connect
  BY <1>1, StartDue DEF Connect, NoView
<1>2. ASSUME NEW op \in UserOps, Command(op) PROVE DueInv'
  BY <1>2, StartDue DEF Command, CanSend, Send, ready, NoView
<1>3. ASSUME NEW kind, NEW sel, NEW q, NEW op, NEW anchor, ready, StartJob(kind, sel, q, op, anchor)
      PROVE  DueInv'
  <2> DEFINE req == [kind |-> "command", conn |-> conn, seq |-> view.seq + 1,
                     rev |-> view.rev, op |-> op]
             job == [kind |-> kind, conn |-> conn, anchor |-> anchor, sel |-> sel,
                     seq |-> view.seq + 1, wait |-> generation + 1, next |-> "none"]
  <2>1. Exchange(req) /\ ~view'.live /\ view.live
    BY <1>3 DEF StartJob, Send, ready, NoView
  <2>2. generation + 1 \in Gens /\ generation + 1 <= generation + 1
    BY <1>0, <2>1, BoundsAssumption DEF Exchange, TypeOK, Gens
  <2>3. jobs' = [jobs EXCEPT ![generation + 1] = job]
    BY <1>3 DEF StartJob
  <2>4. job.wait = generation + 1 /\ req.kind = "command"
    OBVIOUS
  <2> HIDE DEF req, job
  <2> QED BY <2>1, <2>2, <2>3, <2>4, StartDue
<1>4. ASSUME NEW sel \in BOOLEAN, CollectQueries(sel) \/ CollectObserved(sel) PROVE DueInv'
  BY <1>3, <1>4 DEF CollectQueries, CollectObserved, CanCollect
<1>5. ASSUME NEW kind \in {"query", "observed"}, CollectBadSelection(kind) PROVE DueInv'
  <2>1. generation' \in Nat /\ generation' >= generation
    BY <1>0, <1>5, BoundsAssumption DEF CollectBadSelection, TypeOK
  <2> QED BY <1>5, <2>1, SameDue DEF CollectBadSelection
<1>6. CASE InspectDeclaredTarget
  BY <1>3, <1>6 DEF InspectDeclaredTarget, CanSend
<1>7. CASE Invalidate
  <2>1. generation' \in Nat /\ generation' = generation + 1 /\ generation' >= generation
    BY <1>0, <1>7, BoundsAssumption DEF Invalidate, TypeOK
  <2>2. \A h \in Gens : h = generation' => calls[h].stage = "idle"
    BY <1>0, <2>1, BoundsAssumption DEF SessionInv, CallsAreAddressed, TypeOK
  <2>3. calls' = Aborted(calls) /\ ~view'.live /\ UNCHANGED jobs
    BY <1>7 DEF Invalidate, NoView
  <2> QED BY <1>0, <2>1, <2>2, <2>3, AbortedCalls, SameDue
<1>8. CASE Disconnect
  <2> DEFINE call == [stage |-> "wire", answer |-> NoAnswer,
                      req |-> [kind |-> "disconnect", conn |-> conn, seq |-> 0, rev |-> 0, op |-> "none"]]
  <2>1. generation' \in Gens /\ generation' = generation + 1 /\ ~view'.live /\ UNCHANGED jobs
    BY <1>0, <1>8, BoundsAssumption DEF Disconnect, TypeOK, Gens, NoView
  <2>2. calls[generation'].stage = "idle"
    BY <1>0, <2>1, BoundsAssumption DEF SessionInv, CallsAreAddressed, TypeOK, Gens
  <2>3. \A h \in Gens : calls'[h] = IF h = generation' THEN call ELSE Aborted(calls)[h]
    BY <1>0, <1>8, <2>1, AbortedCalls DEF Disconnect
  <2>4. call.req.kind = "disconnect" /\ call.stage = "wire"
    OBVIOUS
  <2> HIDE DEF call
  <2>5. DueIsAlone'
    BY <2>1, <2>3, <2>4 DEF DueIsAlone
  <2>6. \A l \in Gens : jobs[l].kind # "none" => l <= generation' /\ jobs[l].wait # generation'
    BY <1>0, <2>1, <2>2, BoundsAssumption DEF DueInv, JobsAwait, TypeOK, Gens
  <2>7. \A h \in Gens : h # generation' =>
          calls'[h].req = calls[h].req /\ (calls[h].stage # "idle" => calls'[h].stage # "idle")
    BY <1>0, <2>3, AbortedCalls
  <2>8. JobsAwait'
    BY <2>1, <2>6, <2>7 DEF DueInv, JobsAwait
  <2> QED BY <2>5, <2>8 DEF DueInv
<1> QED BY <1>1, <1>2, <1>4, <1>5, <1>6, <1>7, <1>8 DEF User

\* Continuations end what is due, and a collector that sends is alone.
LEMMA MicrotaskDue == SessionInv /\ DueInv /\ Microtask => DueInv'
<1> SUFFICES ASSUME SessionInv, DueInv, NEW g \in Gens, Unwind(g) \/ Settle(g) \/ JobStep(g)
             PROVE  DueInv'
  BY DEF Microtask
<1>0. TypeOK
  BY DEF SessionInv
<1>1. CASE Unwind(g)
  BY <1>1, EndDue DEF Unwind, Fail, NoView
<1>2. ASSUME Answered(g, "connect") \/ Answered(g, "disconnect") PROVE Awaiting(g) = {}
  BY <1>2 DEF DueInv, JobsAwait, Answered, Awaiting
<1>3. CASE AcceptConnect(g)
  BY <1>2, <1>3, EndDue DEF AcceptConnect, Answered, Current
<1>4. CASE RejectConnect(g)
  BY <1>2, <1>4, EndDue DEF RejectConnect, Answered, NoView
<1>5. CASE AcceptDisconnect(g)
  BY <1>2, <1>5, EndDue DEF AcceptDisconnect, Answered
<1>6. CASE RejectDisconnect(g)
  BY <1>2, <1>6, EndDue DEF RejectDisconnect, Answered, NoView
<1>7. CASE AcceptReply(g)
  <2>1. \/ UNCHANGED jobs /\ Awaiting(g) = {}
        \/ \E n : jobs' = Resumed(jobs, g, n)
    BY <1>7 DEF AcceptReply
  <2> QED BY <1>7, <2>1, EndDue DEF AcceptReply, Answered, Current
<1>8. CASE RejectReply(g)
  BY <1>8, EndDue DEF RejectReply, Answered, NoView
<1>9. CASE JobSend(g)
  <2> DEFINE req == [kind |-> "command", conn |-> conn, seq |-> view.seq + 1,
                     rev |-> view.rev, op |-> jobs[g].next]
             job == [jobs[g] EXCEPT !.wait = generation + 1, !.next = "none"]
  <2>1. Exchange(req) /\ ~view'.live /\ view.live
    BY <1>9 DEF JobSend, MaySend, CanSend, Send, ready, NoView
  <2>2. jobs[g].kind # "none" /\ jobs' = [jobs EXCEPT ![g].wait = generation + 1, ![g].next = "none"]
    BY <1>9 DEF JobSend, Running
  <2>3. jobs' = [jobs EXCEPT ![g] = job]
    BY <1>0, <2>2 DEF TypeOK
  <2>4. g <= generation + 1
    BY <1>0, <2>2, BoundsAssumption DEF DueInv, JobsAwait, TypeOK, Gens
  <2>5. job.wait = generation + 1 /\ req.kind = "command"
    BY <1>0 DEF TypeOK, Jobs
  <2> HIDE DEF req, job
  <2> QED BY <2>1, <2>3, <2>4, <2>5, StartDue
<1>10. CASE JobReturn(g) \/ JobFail(g)
  <2>1. generation' \in Nat /\ generation' >= generation /\ UNCHANGED <<calls, view, generation>>
    BY <1>0, <1>10, BoundsAssumption DEF JobReturn, JobFail, TypeOK
  <2>2. \A l \in Gens : jobs'[l].kind = "none" \/ jobs'[l] = jobs[l]
    BY <1>0, <1>10 DEF JobReturn, JobFail, Release, NoJob, TypeOK
  <2> QED BY <2>1, <2>2, SameDue
<1> QED BY <1>1, <1>3, <1>4, <1>5, <1>6, <1>7, <1>8, <1>9, <1>10 DEF Settle, JobStep

\* A response makes its exchange due when nothing else is.
LEMMA TaskDue == SessionInv /\ DueInv /\ Task => DueInv'
<1> SUFFICES ASSUME SessionInv, DueInv, NEW g \in Gens, Timeout(g) \/ DeliverFailure(g) \/ Deliver(g)
             PROVE  DueInv'
  BY DEF Task
<1>0. TypeOK
  BY DEF SessionInv
<1>1. CASE Timeout(g)
  <2>1. \A h \in Gens : /\ calls'[h].stage = IF h = g THEN "aborted" ELSE calls[h].stage
                        /\ calls'[h].req = calls[h].req
    BY <1>0, <1>1 DEF Timeout, TypeOK, Calls
  <2>2. generation' \in Nat /\ generation' >= generation /\ UNCHANGED <<view, generation, jobs>>
    BY <1>0, <1>1, BoundsAssumption DEF Timeout, TypeOK, client
  <2> QED BY <1>1, <2>1, <2>2, SameDue DEF Timeout
<1>2. CASE DeliverFailure(g)
  <2>1. PICK closed \in BOOLEAN : Fail(g, closed)
    BY <1>2 DEF DeliverFailure
  <2> QED BY <1>2, <2>1, EndDue DEF DeliverFailure, Fail, NoView
<1>3. CASE Deliver(g)
  <2>1. \A h \in Gens : /\ calls'[h].stage = IF h = g THEN "answered" ELSE calls[h].stage
                        /\ calls'[h].req = calls[h].req
    <3>1. PICK a : calls' = [calls EXCEPT ![g].stage = "answered", ![g].answer = a]
      BY <1>3 DEF Deliver
    <3> QED BY <1>0, <3>1 DEF TypeOK, Calls
  <2>2. Quiet /\ calls[g].stage = "wire" /\ g = generation /\ UNCHANGED <<view, generation, jobs>>
    BY <1>3 DEF Deliver
  <2>3. Alone(g)
    BY <1>0, <2>2 DEF Alone, Quiet, SessionInv, OneRequestAtATime, TypeOK, Calls, Stages
  <2>4. DueIsAlone'
    BY <2>1, <2>2, <2>3 DEF DueInv, DueIsAlone, Alone, Quiet, Running
  <2>5. JobsAwait'
    BY <2>1, <2>2 DEF DueInv, JobsAwait
  <2> QED BY <2>4, <2>5 DEF DueInv
<1> QED BY <1>1, <1>2, <1>3

\* What is due is in order whatever the order of events.
LEMMA DueInductive == SessionInv /\ DueInv /\ [Next]_vars => DueInv'
<1> SUFFICES ASSUME SessionInv, DueInv, [Next]_vars PROVE DueInv'
  OBVIOUS
<1>0. TypeOK
  BY DEF SessionInv
<1>1. CASE Environment
  <2>1. \A h \in Gens : calls'[h].stage = calls[h].stage /\ calls'[h].req = calls[h].req
    BY <1>0, <1>1, AnswerKeepsCalls
  <2>2. UNCHANGED <<view, generation, jobs>>
    BY <1>1 DEF Environment, ServeConnect, ServeCommand, ServeDisconnect, BridgeStops, client
  <2>3. generation' \in Nat /\ generation' >= generation
    BY <1>0, <2>2, BoundsAssumption DEF TypeOK
  <2> QED BY <2>1, <2>2, <2>3, SameDue
<1>2. CASE UNCHANGED vars
  BY <1>2 DEF vars, DueInv, DueIsAlone, JobsAwait, Alone, Running
<1> QED BY <1>1, <1>2, UserDue, MicrotaskDue, TaskDue DEF Next

\* Nothing is due at first.
LEMMA DueInitial == Init => DueInv
BY DEF Init, DueInv, DueIsAlone, JobsAwait, Alone, NoCall, NoJob, NoView

\* In whatever order calls, responses and timers come, one exchange is due at most
\* and each collector awaits one of its own.
THEOREM DueInvariant == Spec => []DueInv
BY DueInitial, DueInductive, SessionInvariant, PTL DEF Spec

(***************************************************************************)
(* What is on the way, and what the bridge already said.                    *)
(***************************************************************************)
Sessional == {"connect", "command"}

\* The exchange the session waits for: its reply may make the session live.
Awaited(g) ==
  /\ g = generation
  /\ calls[g].stage \in {"wire", "answered"}
  /\ calls[g].req.kind \in Sessional
  /\ calls[g].req.conn = conn

\* Nothing names a connection that was not opened, or an exchange not started.
Known ==
  /\ conn <= opened /\ bridge.conn <= opened /\ bridge.echo.conn <= opened
  /\ ~Replay => bridge.echo.tag # "view"
  /\ \A g \in Gens :
       /\ wire[g].conn <= opened
       /\ wire[g].kind = "none" <=> wire[g].conn = 0
       /\ wire[g].kind # "none" => g <= generation
       /\ wire[g].kind = "connect" => wire[g].seq = 0

\* A connection has one request on the way besides disconnects.
OneOfEach == \A g, h \in Gens :
  wire[g].kind \in Sessional /\ wire[h].kind \in Sessional /\ wire[g].conn = wire[h].conn => g = h

\* Nothing is on the way for a live session, and for one that waits only what it waits for.
OneOnTheWay ==
  /\ view.live => \A h \in Gens : wire[h].conn # conn
  /\ \A g \in Gens : Awaited(g) =>
       \A h \in Gens : wire[h].conn = conn => h = g /\ wire[h] = calls[h].req

\* A reply the bridge may repeat is its last one, or of a session it no longer holds.
EchoIsPresent ==
  bridge.conn # 0 /\ bridge.echo.tag = "view" /\ bridge.echo.conn = bridge.conn =>
    bridge.echo.seq = bridge.seq /\ bridge.echo.rev = bridge.rev

\* It is not ahead of the session, and does not pass for the reply to a request not yet served.
EchoIsPast ==
  bridge.echo.tag = "view" /\ bridge.echo.conn = conn =>
    /\ view.live => bridge.echo.seq <= view.seq
    /\ \A g \in Gens : Awaited(g) =>
         /\ bridge.echo.seq <= calls[g].req.seq
         /\ wire[g].kind # "none" => bridge.echo.seq < calls[g].req.seq

\* An answer that fits what the session waits for is the bridge's answer to it.
AnswerIsOwn == \A g \in Gens :
  /\ Awaited(g)
  /\ calls[g].answer.tag = "view"
  /\ calls[g].answer.conn = conn
  /\ calls[g].answer.seq = calls[g].req.seq
  => /\ wire[g].kind = "none"
     /\ bridge.conn = conn => bridge.seq = calls[g].answer.seq /\ bridge.rev = calls[g].answer.rev

WireInv ==
  /\ Known /\ OneOfEach /\ OneOnTheWay /\ EchoIsPresent /\ EchoIsPast /\ AnswerIsOwn
  /\ CommandsAreNext /\ ViewMirrorsBridge

\* The session gives up what it waited for, or is left alone.
LEMMA WithdrawWire ==
  ASSUME WireInv, UNCHANGED <<opened, wire, bridge>>, conn' \in {0, conn},
         generation \in Nat, generation' \in Nat, generation' >= generation, opened \in Nat,
         view'.live => view' = view /\ conn' = conn,
         \A g \in Gens : Awaited(g)' => conn' = conn /\ generation' = generation /\ calls'[g] = calls[g]
  PROVE  WireInv'
<1> USE DEF WireInv
<1>1. \A g \in Gens : Awaited(g)' => Awaited(g) /\ conn' = conn /\ calls'[g] = calls[g]
  BY DEF Awaited
<1>2. Known'
  BY BoundsAssumption DEF Known, Gens
<1>3. OneOfEach' /\ EchoIsPresent' /\ CommandsAreNext'
  BY DEF OneOfEach, EchoIsPresent, CommandsAreNext, Expected
<1>4. OneOnTheWay'
  BY <1>1 DEF OneOnTheWay
<1>5. EchoIsPast'
  BY <1>1 DEF EchoIsPast
<1>6. AnswerIsOwn'
  BY <1>1 DEF AnswerIsOwn
<1>7. ViewMirrorsBridge'
  BY DEF ViewMirrorsBridge
<1> QED BY <1>2, <1>3, <1>4, <1>5, <1>6, <1>7

\* A session that accepts the answer it waited for is where the bridge is.
LEMMA AcceptWire ==
  ASSUME SessionInv, WireInv, NEW g \in Gens, calls[g].stage = "answered",
         calls[g].req.kind \in Sessional, Decodes(calls[g].req, calls[g].answer), Current(g),
         view' = Live(calls[g].answer), calls' = [calls EXCEPT ![g] = NoCall],
         UNCHANGED <<conn, generation, opened, wire, bridge>>
  PROVE  WireInv'
<1> USE DEF WireInv
<1>0. TypeOK
  BY DEF SessionInv
<1>1. Awaited(g) /\ conn # 0
  BY DEF Awaited, Current, SessionInv, CallsAreAddressed
<1>2. \A h \in Gens : ~Awaited(h)'
  BY <1>0 DEF Awaited, Current, NoCall, TypeOK
<1> DEFINE a == calls[g].answer
<1>3. a.tag = "view" /\ a.conn = conn /\ a.seq = calls[g].req.seq
  BY <1>1 DEF Decodes, Awaited
<1>4. wire[g].kind = "none" /\ (bridge.conn = conn => bridge.seq = a.seq /\ bridge.rev = a.rev)
  BY <1>1, <1>3 DEF AnswerIsOwn
<1>5. view'.live /\ view'.seq = a.seq /\ view'.rev = a.rev
  BY DEF Live
<1> HIDE DEF a
<1>6. \A h \in Gens : wire[h].conn # conn
  BY <1>1, <1>4 DEF OneOnTheWay, Sessional, Known
<1>7. Known' /\ OneOfEach' /\ EchoIsPresent' /\ CommandsAreNext'
  BY DEF Known, OneOfEach, EchoIsPresent, CommandsAreNext, Expected
<1>8. OneOnTheWay' /\ AnswerIsOwn'
  BY <1>2, <1>6 DEF OneOnTheWay, AnswerIsOwn
<1>9. EchoIsPast'
  BY <1>1, <1>2, <1>3, <1>5 DEF EchoIsPast
<1>10. ViewMirrorsBridge'
  BY <1>4, <1>5 DEF ViewMirrorsBridge
<1> QED BY <1>7, <1>8, <1>9, <1>10

\* connect takes a new connection, which nothing knows yet.
LEMMA ConnectWire == SessionInv /\ WireInv /\ Connect => WireInv'
<1> SUFFICES ASSUME SessionInv, WireInv, Connect PROVE WireInv'
  OBVIOUS
<1> USE DEF WireInv
<1>0. TypeOK
  BY DEF SessionInv
<1> DEFINE req == [kind |-> "connect", conn |-> opened + 1, seq |-> 0, rev |-> 0, op |-> "discover"]
<1>1. Exchange(req) /\ conn' = opened + 1 /\ opened' = opened + 1 /\ ~view'.live /\ UNCHANGED bridge
  BY DEF Connect, NoView
<1>2. req.kind = "connect" /\ req.conn = opened + 1 /\ req.seq = 0
  OBVIOUS
<1> HIDE DEF req
<1>3. /\ generation + 1 \in Gens /\ generation' = generation + 1
      /\ \A h \in Gens : calls'[h] = IF h = generation + 1
                                     THEN [stage |-> "wire", req |-> req, answer |-> NoAnswer]
                                     ELSE calls[h]
      /\ \A h \in Gens : wire'[h] = IF h = generation + 1 THEN req ELSE wire[h]
  BY <1>0, <1>1, StartEffect
<1>4. opened \in Nat /\ generation \in Nat
  BY <1>0, BoundsAssumption DEF TypeOK
<1>5. /\ \A h \in Gens : wire[h].conn <= opened /\ wire[h].conn \in Nat
      /\ bridge.conn <= opened /\ bridge.echo.conn <= opened
      /\ bridge.conn \in Nat /\ bridge.echo.conn \in Nat
  BY <1>0, BoundsAssumption DEF Known, TypeOK, Requests, Answers
<1>6. Known'
  BY <1>1, <1>2, <1>3, <1>4, <1>5, BoundsAssumption DEF Known, Gens
<1>7. OneOfEach'
  BY <1>2, <1>3, <1>4, <1>5 DEF OneOfEach
<1>8. OneOnTheWay'
  BY <1>1, <1>2, <1>3, <1>4, <1>5 DEF OneOnTheWay, Awaited
<1>9. EchoIsPresent' /\ EchoIsPast'
  BY <1>1, <1>4, <1>5 DEF EchoIsPresent, EchoIsPast
<1>10. AnswerIsOwn'
  BY <1>1, <1>3 DEF AnswerIsOwn, Awaited, NoAnswer, Note
<1>11. CommandsAreNext' /\ ViewMirrorsBridge'
  BY <1>1, <1>2, <1>3 DEF CommandsAreNext, ViewMirrorsBridge, Expected
<1> QED BY <1>6, <1>7, <1>8, <1>9, <1>10, <1>11

\* sendCommand sends the next command of a live session, which has nothing else on the way.
LEMMA SendWire ==
  ASSUME SessionInv, WireInv, NEW op, NEW q, ready, Send(op, q), UNCHANGED <<conn, opened, bridge>>
  PROVE  WireInv'
<1> USE DEF WireInv
<1>0. TypeOK
  BY DEF SessionInv
<1> DEFINE req == [kind |-> "command", conn |-> conn, seq |-> view.seq + 1,
                   rev |-> view.rev, op |-> op]
<1>1. Exchange(req) /\ ~view'.live /\ view.live /\ conn # 0
  BY DEF Send, ready, NoView
<1>2. req.kind = "command" /\ req.conn = conn /\ req.seq = view.seq + 1 /\ req.rev = view.rev
  OBVIOUS
<1> HIDE DEF req
<1>3. /\ generation + 1 \in Gens /\ generation' = generation + 1
      /\ \A h \in Gens : calls'[h] = IF h = generation + 1
                                     THEN [stage |-> "wire", req |-> req, answer |-> NoAnswer]
                                     ELSE calls[h]
      /\ \A h \in Gens : wire'[h] = IF h = generation + 1 THEN req ELSE wire[h]
  BY <1>0, <1>1, StartEffect
<1>4. generation \in Nat /\ view.seq \in Nat /\ bridge.echo.seq \in Nat
  BY <1>0, BoundsAssumption DEF TypeOK, Views, Answers
<1>5. \A h \in Gens : wire[h].conn # conn
  BY <1>1 DEF OneOnTheWay
<1>6. Known'
  BY <1>1, <1>2, <1>3, <1>4, BoundsAssumption DEF Known, Gens
<1>7. OneOfEach'
  BY <1>2, <1>3, <1>5 DEF OneOfEach
<1>8. OneOnTheWay'
  BY <1>1, <1>2, <1>3, <1>5 DEF OneOnTheWay, Awaited
<1>9. EchoIsPresent'
  BY DEF EchoIsPresent
<1>10. EchoIsPast'
  BY <1>1, <1>2, <1>3, <1>4 DEF EchoIsPast, Awaited
<1>11. AnswerIsOwn'
  BY <1>1, <1>3 DEF AnswerIsOwn, Awaited, NoAnswer, Note
<1>12. CommandsAreNext'
  BY <1>1, <1>2, <1>3 DEF CommandsAreNext, ViewMirrorsBridge, Expected
<1>13. ViewMirrorsBridge'
  BY <1>1 DEF ViewMirrorsBridge
<1> QED BY <1>6, <1>7, <1>8, <1>9, <1>10, <1>11, <1>12, <1>13

\* disconnect gives up what the session waited for.
LEMMA DisconnectWire == SessionInv /\ WireInv /\ Disconnect => WireInv'
<1> SUFFICES ASSUME SessionInv, WireInv, Disconnect PROVE WireInv'
  OBVIOUS
<1> USE DEF WireInv
<1>0. TypeOK
  BY DEF SessionInv
<1> DEFINE req == [kind |-> "disconnect", conn |-> conn, seq |-> 0, rev |-> 0, op |-> "none"]
<1>1. /\ conn # 0 /\ ~view'.live /\ UNCHANGED <<conn, opened, bridge>>
      /\ generation + 1 \in Gens /\ generation' = generation + 1 /\ generation \in Nat
  BY <1>0, BoundsAssumption DEF Disconnect, NoView, TypeOK, Gens
<1>2. req.kind = "disconnect" /\ req.conn = conn
  OBVIOUS
<1>3. calls'[generation + 1].req = req
  <2>1. DOMAIN Aborted(calls) = Gens
    BY DEF Aborted
  <2>2. calls' = [Aborted(calls) EXCEPT ![generation + 1] =
                   [stage |-> "wire", req |-> req, answer |-> NoAnswer]]
    BY DEF Disconnect
  <2> QED BY <1>1, <2>1, <2>2
<1>4. \A h \in Gens : wire'[h] = IF h = generation + 1 THEN req ELSE wire[h]
  BY <1>0, <1>1 DEF Disconnect, TypeOK
<1> HIDE DEF req
<1>5. \A h \in Gens : ~Awaited(h)'
  BY <1>1, <1>2, <1>3 DEF Awaited, Sessional
<1>6. Known'
  <2>1. \A g \in Gens : g <= generation => g <= generation'
    BY <1>1, BoundsAssumption DEF Gens
  <2>2. ASSUME NEW g \in Gens
        PROVE  /\ wire'[g].conn <= opened /\ (wire'[g].kind = "none" <=> wire'[g].conn = 0)
               /\ wire'[g].kind # "none" => g <= generation'
               /\ wire'[g].kind = "connect" => wire'[g].seq = 0
    <3>1. CASE g = generation + 1
      BY <1>1, <1>2, <1>4, <3>1 DEF Known
    <3>2. CASE g # generation + 1
      BY <1>4, <2>1, <3>2 DEF Known
    <3> QED BY <3>1, <3>2
  <2> QED BY <1>1, <2>2 DEF Known
<1>7. OneOfEach'
  BY <1>2, <1>4 DEF OneOfEach, Sessional
<1>8. OneOnTheWay' /\ EchoIsPresent' /\ EchoIsPast' /\ AnswerIsOwn' /\ ViewMirrorsBridge'
  BY <1>1, <1>5 DEF OneOnTheWay, EchoIsPresent, EchoIsPast, AnswerIsOwn, ViewMirrorsBridge
<1>9. CommandsAreNext'
  BY <1>1, <1>2, <1>4 DEF CommandsAreNext, Expected
<1> QED BY <1>6, <1>7, <1>8, <1>9

\* The bridge serves a request: the session it opens or moves on is the one its reply tells.
LEMMA ServedWire ==
  ASSUME SessionInv, WireInv, NEW g \in Gens, wire[g].kind \in Sessional, NEW rev \in Nat, NEW a \in Answers,
         a.tag = "view", a.conn = wire[g].conn, a.seq = wire[g].seq, a.rev = rev,
         bridge' = Opened(wire[g].conn, wire[g].seq, rev, a), Answer(g, a),
         UNCHANGED <<conn, view, generation, opened>>
  PROVE  WireInv'
<1> USE DEF WireInv
<1>0. TypeOK /\ conn \in Nat
  BY DEF SessionInv, TypeOK
<1> DEFINE r == wire[g]
<1>1. /\ bridge'.conn = r.conn /\ bridge'.seq = r.seq /\ bridge'.rev = rev
      /\ bridge'.echo = IF Replay THEN a ELSE bridge.echo
  BY DEF Opened, Echo
<1>2. /\ \A h \in Gens : calls'[h].stage = calls[h].stage /\ calls'[h].req = calls[h].req
      /\ \A h \in Gens : calls'[h].answer = IF h = g /\ calls[g].stage = "wire" THEN a ELSE calls[h].answer
  BY <1>0 DEF Answer, TypeOK, Calls
<1>3. /\ \A h \in Gens : wire'[h] = wire[h] \/ wire'[h] = NoRequest
      /\ wire'[g] = NoRequest
  BY DEF Answer
<1>4. NoRequest.kind = "none" /\ NoRequest.conn = 0
  BY DEF NoRequest
<1>5. r.conn # 0 /\ r.conn <= opened /\ r.kind # "none"
  BY DEF Known, Sessional
<1>6. \A h \in Gens : Awaited(h)' <=> Awaited(h)
  BY <1>2 DEF Awaited
<1>7. \A h \in Gens : wire'[h].conn = conn /\ conn # 0 => wire'[h] = wire[h]
  BY <1>3, <1>4
<1>8. \A h \in Gens : Awaited(h) => conn # 0
  BY DEF Awaited, SessionInv, CallsAreAddressed
<1>9. r.conn = conn => ~view.live /\ \A h \in Gens : Awaited(h) => h = g /\ r = calls[g].req
  BY DEF OneOnTheWay
<1>10. \A h \in Gens : wire'[h].kind # "none" => wire'[h] = wire[h] /\ h # g
  BY <1>3, <1>4
<1> HIDE DEF r
<1>11. Known'
  <2>1. bridge'.conn <= opened /\ bridge'.echo.conn <= opened /\ (~Replay => bridge'.echo.tag # "view")
    BY <1>1, <1>5 DEF Known, r
  <2>2. \A h \in Gens : wire'[h].conn <= opened /\ (wire'[h].kind = "none" <=> wire'[h].conn = 0)
                        /\ (wire'[h].kind # "none" => h <= generation)
                        /\ (wire'[h].kind = "connect" => wire'[h].seq = 0)
    BY <1>0, <1>3, <1>4, BoundsAssumption DEF Known, TypeOK
  <2> QED BY <2>1, <2>2 DEF Known
<1>12. OneOfEach'
  BY <1>10 DEF OneOfEach, Sessional
<1>13. OneOnTheWay'
  BY <1>2, <1>6, <1>7, <1>8 DEF OneOnTheWay, SessionInv, LiveIsQuiet
<1>14. EchoIsPresent'
  BY <1>1 DEF EchoIsPresent, Known, r
<1>15. EchoIsPast'
  <2>1. CASE ~Replay
    BY <1>1, <2>1 DEF EchoIsPast, Known
  <2>2. CASE Replay /\ r.conn = conn
    <3>1. \A h \in Gens : Awaited(h)' => h = g /\ r = calls[g].req /\ wire'[g].kind = "none"
      BY <1>3, <1>4, <1>6, <1>9, <2>2
    <3>2. bridge'.echo.seq = r.seq /\ r.seq \in Nat /\ ~view'.live
      BY <1>0, <1>1, <1>9, <2>2 DEF TypeOK, Requests, r
    <3> QED BY <1>2, <3>1, <3>2 DEF EchoIsPast
  <2>3. CASE Replay /\ r.conn # conn
    BY <1>1, <2>3 DEF EchoIsPast, r
  <2> QED BY <2>1, <2>2, <2>3
<1>16. AnswerIsOwn'
  <2> SUFFICES ASSUME NEW h \in Gens, Awaited(h), calls'[h].answer.tag = "view",
                      calls'[h].answer.conn = conn, calls'[h].answer.seq = calls[h].req.seq
               PROVE  /\ wire'[h].kind = "none"
                      /\ bridge'.conn = conn => /\ bridge'.seq = calls'[h].answer.seq
                                                /\ bridge'.rev = calls'[h].answer.rev
    BY <1>2, <1>6 DEF AnswerIsOwn
  <2>1. CASE h = g /\ calls[g].stage = "wire"
    <3>1. calls'[h].answer = a /\ wire'[h].kind = "none"
      BY <1>2, <1>3, <1>4, <2>1
    <3> QED BY <1>1, <3>1 DEF r
  <2>2. CASE ~(h = g /\ calls[g].stage = "wire")
    <3>1. calls'[h].answer = calls[h].answer
      BY <1>2, <2>2
    <3>2. wire[h].kind = "none"
      BY <3>1 DEF AnswerIsOwn
    <3>3. r.conn # conn
      BY <1>5, <1>9, <3>2 DEF r
    <3> QED BY <1>1, <1>3, <1>4, <3>2, <3>3
  <2> QED BY <2>1, <2>2
<1>17. CommandsAreNext'
  BY <1>1, <1>5, <1>10 DEF CommandsAreNext, OneOfEach, Sessional, r
<1>18. ViewMirrorsBridge'
  BY <1>1, <1>9 DEF ViewMirrorsBridge
<1> QED BY <1>11, <1>12, <1>13, <1>14, <1>15, <1>16, <1>17, <1>18

\* The bridge refuses, closes, stops or repeats itself: its session ends or is left alone.
LEMMA RefusedWire ==
  ASSUME SessionInv, WireInv, UNCHANGED <<conn, view, generation, opened>>,
         \/ bridge'.conn = 0
         \/ bridge'.conn = bridge.conn /\ bridge'.seq = bridge.seq /\ bridge'.rev = bridge.rev,
         \/ bridge'.echo = bridge.echo
         \/ bridge'.echo.tag # "view" /\ bridge'.echo.conn <= opened,
         \A h \in Gens : wire'[h] = wire[h] \/ wire'[h] = NoRequest,
         \A h \in Gens : /\ calls'[h].stage = calls[h].stage /\ calls'[h].req = calls[h].req
                         /\ calls'[h].answer = calls[h].answer \/ calls'[h].answer.tag # "view"
  PROVE  WireInv'
<1> USE DEF WireInv
<1>0. TypeOK /\ opened \in Nat
  BY DEF SessionInv, TypeOK
<1>1. NoRequest.kind = "none" /\ NoRequest.conn = 0
  BY DEF NoRequest
<1>2. \A h \in Gens : wire'[h].kind # "none" => wire'[h] = wire[h]
  BY <1>1
<1>3. \A h \in Gens : Awaited(h)' <=> Awaited(h)
  BY DEF Awaited
<1>4. \A h \in Gens : Awaited(h) => conn # 0
  BY DEF Awaited, SessionInv, CallsAreAddressed
<1>5. \A h \in Gens : wire'[h].conn = conn /\ conn # 0 => wire'[h] = wire[h]
  BY <1>1
<1>6. Known'
  BY <1>0, <1>1, BoundsAssumption DEF Known, TypeOK
<1>7. OneOfEach'
  BY <1>2 DEF OneOfEach, Sessional
<1>8. OneOnTheWay'
  BY <1>3, <1>4, <1>5 DEF OneOnTheWay, SessionInv, LiveIsQuiet
<1>9. EchoIsPresent'
  BY DEF EchoIsPresent
<1>10. EchoIsPast'
  BY <1>2, <1>3 DEF EchoIsPast
<1>11. AnswerIsOwn'
  BY <1>1, <1>3, <1>4 DEF AnswerIsOwn
<1>12. CommandsAreNext'
  <2>1. \A h \in Gens : wire'[h].kind = "command" => wire'[h].conn # 0 /\ wire'[h] = wire[h]
    BY <1>2 DEF Known
  <2> QED BY <2>1 DEF CommandsAreNext, Expected
<1>13. ViewMirrorsBridge'
  BY DEF ViewMirrorsBridge, SessionInv, LiveIsQuiet
<1> QED BY <1>6, <1>7, <1>8, <1>9, <1>10, <1>11, <1>12, <1>13

\* The bridge keeps what is on the way in order.
LEMMA EnvironmentWire == SessionInv /\ WireInv /\ Environment => WireInv'
<1> SUFFICES ASSUME SessionInv, WireInv, Environment PROVE WireInv'
  OBVIOUS
<1>0. TypeOK
  BY DEF SessionInv
<1>1. UNCHANGED <<conn, view, generation, opened>>
  BY DEF Environment, ServeConnect, ServeCommand, ServeDisconnect, BridgeStops, client
<1>2. \A g \in Gens : wire[g] \in Requests /\ wire[g].conn <= opened
  BY DEF TypeOK, SessionInv, WireInv, Known
<1>3. ASSUME NEW g \in Gens, NEW a, a.tag # "view", a.conn = wire[g].conn, Answer(g, a),
             \/ bridge' = bridge
             \/ bridge' = [bridge EXCEPT !.echo = Echo(a)]
             \/ bridge' = Closed(a) \/ bridge' = Closed(NoAnswer)
      PROVE  WireInv'
  <2>1. \A h \in Gens : /\ calls'[h].stage = calls[h].stage /\ calls'[h].req = calls[h].req
                        /\ calls'[h].answer = calls[h].answer \/ calls'[h].answer.tag # "view"
    BY <1>0, <1>3 DEF Answer, TypeOK, Calls
  <2>2. \A h \in Gens : wire'[h] = wire[h] \/ wire'[h] = NoRequest
    BY <1>3 DEF Answer
  <2>3. Echo(NoAnswer) = bridge.echo /\ (Echo(a) = bridge.echo \/ Echo(a) = a)
    BY DEF Echo, NoAnswer, Note
  <2>4. /\ \/ bridge'.conn = 0
           \/ bridge'.conn = bridge.conn /\ bridge'.seq = bridge.seq /\ bridge'.rev = bridge.rev
        /\ bridge'.echo \in {bridge.echo, Echo(a), Echo(NoAnswer)}
    BY <1>0, <1>3 DEF Closed, TypeOK
  <2>5. a.tag # "view" /\ a.conn <= opened
    BY <1>2, <1>3
  <2>6. bridge'.echo = bridge.echo \/ bridge'.echo = a
    BY <2>3, <2>4, Zenon
  <2> QED BY <1>1, <2>1, <2>2, <2>4, <2>5, <2>6, RefusedWire
<1>4. \A t \in Tags : \A c : Note(t, c).tag = t /\ Note(t, c).conn = c
  BY DEF Note
<1>5. ASSUME NEW g \in Gens, ServeConnect(g) PROVE WireInv'
  <2> DEFINE r == wire[g]
             hello == [tag |-> "view", conn |-> r.conn, seq |-> 0, rev |-> 0, op |-> "discover", ok |-> TRUE]
  <2>1. r.kind = "connect" /\ r.seq = 0
    BY <1>5 DEF ServeConnect, WireInv, Known
  <2>2. CASE bridge' = Opened(r.conn, 0, 0, hello) /\ Answer(g, hello)
    <3>1. hello \in Answers
      BY <1>2, BoundsAssumption DEF Answers, Tags, Requests
    <3>2. hello.tag = "view" /\ hello.conn = r.conn /\ hello.seq = r.seq /\ hello.rev = 0
      BY <2>1
    <3>3. bridge' = Opened(wire[g].conn, wire[g].seq, 0, hello)
      BY <2>1, <2>2
    <3>4. Answer(g, hello)
      BY <2>2
    <3> HIDE DEF hello
    <3> QED BY <1>1, <2>1, <3>1, <3>2, <3>3, <3>4, ServedWire DEF Sessional
  <2>3. CASE bridge' = bridge /\ (Answer(g, Note("error_closed", r.conn)) \/ Answer(g, Note("error", r.conn)))
    BY <1>3, <1>4, <2>3 DEF Tags
  <2> QED BY <1>5, <2>2, <2>3 DEF ServeConnect
<1>6. ASSUME NEW g \in Gens, ServeCommand(g) PROVE WireInv'
  <2> DEFINE r == wire[g]
  <2>1. r.kind = "command"
    BY <1>6 DEF ServeCommand
  <2>2. ASSUME NEW ok \in BOOLEAN, NEW rev \in RevisionAfter(r.op, ok, r.rev),
               bridge' = Opened(r.conn, r.seq, rev, Reply(r, rev, ok)), Answer(g, Reply(r, rev, ok))
        PROVE  WireInv'
    <3>1. rev \in Nat
      BY <1>2 DEF RevisionAfter, Requests
    <3>2. Reply(r, rev, ok) \in Answers
      BY <1>2, <3>1 DEF Reply, Answers, Tags, Requests
    <3>3. /\ Reply(r, rev, ok).tag = "view" /\ Reply(r, rev, ok).conn = r.conn
          /\ Reply(r, rev, ok).seq = r.seq /\ Reply(r, rev, ok).rev = rev
      BY DEF Reply
    <3> QED BY <1>1, <2>1, <2>2, <3>1, <3>2, <3>3, ServedWire DEF Sessional
  <2>3. CASE bridge' = Closed(NoAnswer) /\ Answer(g, Note("error_closed", r.conn))
    BY <1>3, <1>4, <2>3 DEF Tags
  <2>4. CASE bridge' = bridge /\ Answer(g, Note("error", r.conn))
    BY <1>3, <1>4, <2>4 DEF Tags
  <2> QED BY <1>6, <2>2, <2>3, <2>4 DEF ServeCommand
<1>7. ASSUME NEW g \in Gens, ServeDisconnect(g) PROVE WireInv'
  <2> DEFINE r == wire[g]
             done == Note("disconnected", r.conn)
  <2>1. done.tag # "view" /\ done.conn = r.conn
    BY <1>4 DEF Tags
  <2>2. CASE (bridge' = Closed(done) \/ bridge' = [bridge EXCEPT !.echo = Echo(done)]) /\ Answer(g, done)
    <3> HIDE DEF done
    <3> QED BY <1>3, <2>1, <2>2
  <2>3. CASE bridge' = bridge /\ Answer(g, Note("error", r.conn))
    BY <1>3, <1>4, <2>3 DEF Tags
  <2> QED BY <1>7, <2>2, <2>3 DEF ServeDisconnect
<1>8. CASE BridgeStops
  <2>1. bridge'.conn = 0 /\ bridge'.echo = bridge.echo /\ UNCHANGED <<calls, wire>>
    BY <1>8 DEF BridgeStops
  <2> QED BY <1>1, <2>1, RefusedWire
<1> QED BY <1>5, <1>6, <1>7, <1>8 DEF Environment

\* The calls of the client keep what is on the way in order.
LEMMA UserWire == SessionInv /\ WireInv /\ User => WireInv'
<1> SUFFICES ASSUME SessionInv, WireInv, User PROVE WireInv'
  OBVIOUS
<1>0. TypeOK /\ generation \in Nat /\ opened \in Nat
  BY DEF SessionInv, TypeOK
<1>1. ASSUME NEW op \in UserOps, Command(op) PROVE WireInv'
  BY <1>1, SendWire DEF Command, CanSend
<1>2. ASSUME NEW kind, NEW sel, NEW q, NEW op, NEW anchor, ready, StartJob(kind, sel, q, op, anchor)
      PROVE  WireInv'
  BY <1>2, SendWire DEF StartJob
<1>3. ASSUME NEW sel \in BOOLEAN, CollectQueries(sel) \/ CollectObserved(sel) PROVE WireInv'
  BY <1>2, <1>3 DEF CollectQueries, CollectObserved, CanCollect
<1>4. ASSUME NEW kind \in {"query", "observed"}, CollectBadSelection(kind) PROVE WireInv'
  BY <1>0, <1>4, WithdrawWire DEF CollectBadSelection, Awaited
<1>5. CASE InspectDeclaredTarget
  BY <1>2, <1>5 DEF InspectDeclaredTarget, CanSend
<1>6. CASE Invalidate
  <2>1. generation' = generation + 1 /\ ~view'.live /\ UNCHANGED <<conn, opened, wire, bridge>>
    BY <1>6 DEF Invalidate, NoView
  <2>2. \A g \in Gens : g = generation + 1 => calls'[g].stage = "idle"
    BY <1>0, <1>6, AbortedCalls DEF Invalidate, SessionInv, CallsAreAddressed
  <2>3. \A g \in Gens : ~Awaited(g)'
    BY <2>1, <2>2 DEF Awaited
  <2> QED BY <1>0, <2>1, <2>3, WithdrawWire
<1> QED BY <1>1, <1>3, <1>4, <1>5, <1>6, ConnectWire, DisconnectWire DEF User

\* A failing exchange makes the session give up, or was superseded.
LEMMA FailWire ==
  ASSUME SessionInv, WireInv, NEW g \in Gens, calls[g].stage # "idle", NEW closed, Fail(g, closed)
  PROVE  WireInv'
<1>0. TypeOK /\ generation \in Nat /\ opened \in Nat
  BY DEF SessionInv, TypeOK
<1>1. \A h \in Gens : calls'[h] = IF h = g THEN NoCall ELSE calls[h]
  BY <1>0 DEF Fail, TypeOK
<1>2. UNCHANGED <<generation, opened, wire, bridge>> /\ conn' \in {0, conn}
  BY DEF Fail
<1>3. view'.live => view' = view /\ conn' = conn
  BY DEF Fail, NoView
<1>4. \A h \in Gens : Awaited(h)' => h # g
  BY <1>1 DEF Awaited, NoCall
<1>5. \A h \in Gens : Awaited(h)' => conn' = conn /\ calls'[h] = calls[h]
  BY <1>1, <1>4 DEF Awaited, Fail
<1> QED BY <1>0, <1>2, <1>3, <1>5, WithdrawWire

\* A refused reply makes the session give up, or was superseded.
LEMMA RejectWire ==
  ASSUME SessionInv, WireInv, NEW g \in Gens, calls' = [calls EXCEPT ![g] = NoCall],
         view' \in {view, NoView}, UNCHANGED <<conn, generation, opened, wire, bridge>>
  PROVE  WireInv'
<1>0. TypeOK /\ generation \in Nat /\ opened \in Nat
  BY DEF SessionInv, TypeOK
<1>1. \A h \in Gens : calls'[h] = IF h = g THEN NoCall ELSE calls[h]
  BY <1>0 DEF TypeOK
<1>2. \A h \in Gens : Awaited(h)' => calls'[h] = calls[h]
  BY <1>1 DEF Awaited, NoCall
<1>3. view'.live => view' = view
  BY DEF NoView
<1> QED BY <1>0, <1>2, <1>3, WithdrawWire

\* Continuations that are due keep what is on the way in order.
LEMMA MicrotaskWire == SessionInv /\ WireInv /\ Microtask => WireInv'
<1> SUFFICES ASSUME SessionInv, WireInv, NEW g \in Gens, Unwind(g) \/ Settle(g) \/ JobStep(g)
             PROVE  WireInv'
  BY DEF Microtask
<1>0. TypeOK /\ generation \in Nat /\ opened \in Nat
  BY DEF SessionInv, TypeOK
<1>1. CASE Unwind(g)
  BY <1>1, FailWire DEF Unwind
<1>2. CASE AcceptConnect(g)
  BY <1>2, AcceptWire DEF AcceptConnect, Answered, Sessional
<1>3. CASE AcceptReply(g)
  BY <1>3, AcceptWire DEF AcceptReply, Answered, Sessional
<1>4. CASE RejectConnect(g) \/ RejectReply(g) \/ RejectDisconnect(g)
  BY <1>4, RejectWire DEF RejectConnect, RejectReply, RejectDisconnect
<1>5. CASE AcceptDisconnect(g)
  <2>1. \A h \in Gens : calls'[h] = IF h = g THEN NoCall ELSE calls[h]
    BY <1>0, <1>5 DEF AcceptDisconnect, TypeOK
  <2>2. g = generation /\ ~view.live
    BY <1>5 DEF AcceptDisconnect, Answered, SessionInv, LiveIsQuiet
  <2>3. \A h \in Gens : ~Awaited(h)'
    BY <1>5, <2>1, <2>2 DEF AcceptDisconnect, Awaited, NoCall
  <2> QED BY <1>0, <1>5, <2>2, <2>3, WithdrawWire DEF AcceptDisconnect
<1>6. CASE JobSend(g)
  BY <1>6, SendWire DEF JobSend, MaySend, CanSend
<1>7. CASE JobReturn(g) \/ JobFail(g)
  <2>1. UNCHANGED <<conn, view, generation, calls, opened, wire, bridge>>
    BY <1>7 DEF JobReturn, JobFail
  <2> QED BY <1>0, <2>1, WithdrawWire
<1> QED BY <1>1, <1>2, <1>3, <1>4, <1>5, <1>6, <1>7 DEF Settle, JobStep

\* What can be delivered and could pass for an answer is one.
LEMMA DeliverWire == 
  ASSUME SessionInv, WireInv, NEW g \in Gens, Deliver(g)
  PROVE  WireInv'
<1> USE DEF WireInv
<1>0. TypeOK /\ generation \in Nat /\ opened \in Nat
  BY DEF SessionInv, TypeOK
<1>1. PICK a \in Deliverable(g) : /\ a.tag \in {"view", "disconnected", "malformed"}
                                  /\ calls' = [calls EXCEPT ![g].stage = "answered", ![g].answer = a]
  BY DEF Deliver
<1>2. /\ \A h \in Gens : /\ calls'[h].stage = IF h = g THEN "answered" ELSE calls[h].stage
                         /\ calls'[h].req = calls[h].req
                         /\ calls'[h].answer = IF h = g THEN a ELSE calls[h].answer
  BY <1>0, <1>1 DEF TypeOK, Calls
<1>3. calls[g].stage = "wire" /\ g = generation /\ UNCHANGED <<conn, view, generation, opened, wire, bridge>>
  BY DEF Deliver
<1>4. \A h \in Gens : Awaited(h)' <=> Awaited(h)
  BY <1>2, <1>3 DEF Awaited
<1>5. Known' /\ OneOfEach' /\ EchoIsPresent' /\ CommandsAreNext' /\ ViewMirrorsBridge'
  BY <1>3 DEF Known, OneOfEach, EchoIsPresent, CommandsAreNext, Expected, ViewMirrorsBridge
<1>6. OneOnTheWay' /\ EchoIsPast'
  BY <1>2, <1>3, <1>4 DEF OneOnTheWay, EchoIsPast
<1>7. AnswerIsOwn'
  <2> SUFFICES ASSUME Awaited(g), a.tag = "view", a.conn = conn, a.seq = calls[g].req.seq
               PROVE  wire[g].kind = "none" /\ (bridge.conn = conn => bridge.seq = a.seq /\ bridge.rev = a.rev)
    BY <1>2, <1>3, <1>4 DEF AnswerIsOwn, Awaited
  <2>1. CASE a = calls[g].answer
    BY <2>1 DEF AnswerIsOwn
  <2>2. CASE a = bridge.echo
    <3>1. conn # 0
      BY DEF Awaited, SessionInv, CallsAreAddressed
    <3>2. bridge.echo.seq \in Nat /\ calls[g].req.seq \in Nat
      BY <1>0 DEF TypeOK, Answers, Calls, Requests
    <3>3. wire[g].kind = "none"
      BY <2>2, <3>2 DEF EchoIsPast
    <3> QED BY <2>2, <3>1, <3>3 DEF EchoIsPresent
  <2>3. CASE a = Note("lost", 0) \/ a = Note("malformed", 0)
    BY <2>3 DEF Note
  <2> QED BY <2>1, <2>2, <2>3 DEF Deliverable
<1> QED BY <1>5, <1>6, <1>7

\* Timers and responses keep what is on the way in order.
LEMMA TaskWire == SessionInv /\ WireInv /\ Task => WireInv'
<1> SUFFICES ASSUME SessionInv, WireInv, NEW g \in Gens, Timeout(g) \/ DeliverFailure(g) \/ Deliver(g)
             PROVE  WireInv'
  BY DEF Task
<1>0. TypeOK /\ generation \in Nat /\ opened \in Nat
  BY DEF SessionInv, TypeOK
<1>1. CASE Timeout(g)
  <2>1. UNCHANGED <<conn, view, generation, opened, wire, bridge>>
    BY <1>1 DEF Timeout, client
  <2>2. \A h \in Gens : calls'[h].stage = "aborted" \/ calls'[h] = calls[h]
    BY <1>0, <1>1 DEF Timeout, TypeOK, Calls
  <2> QED BY <1>0, <2>1, <2>2, WithdrawWire DEF Awaited
<1>2. CASE DeliverFailure(g)
  BY <1>2, FailWire DEF DeliverFailure
<1> QED BY <1>1, <1>2, DeliverWire

\* What is on the way is in order after every step.
LEMMA WireInductive == SessionInv /\ WireInv /\ [Next]_vars => WireInv'
<1> SUFFICES ASSUME SessionInv, WireInv, UNCHANGED vars PROVE WireInv'
  BY UserWire, MicrotaskWire, TaskWire, EnvironmentWire DEF Next
<1> QED BY WithdrawWire DEF vars, Awaited, SessionInv, TypeOK

\* Nothing is on the way at first.
LEMMA WireInitial == Init => WireInv
<1> SUFFICES ASSUME Init PROVE WireInv
  OBVIOUS
<1>1. \A g \in Gens : ~Awaited(g)
  BY DEF Init, Awaited, NoCall
<1> QED BY <1>1 DEF Init, NoView, NoRequest, NoAnswer, Note, WireInv, Known, OneOfEach, OneOnTheWay,
          EchoIsPresent, EchoIsPast, AnswerIsOwn, CommandsAreNext, ViewMirrorsBridge, Sessional

\* Requests, answers and the replies a bridge may repeat fit the session they
\* concern, for any bridge that is delayed, repeats itself or stops.
THEOREM WireInvariant == Spec => []WireInv
BY WireInitial, WireInductive, SessionInvariant, PTL DEF Spec

(***************************************************************************)
(* What a collector may still do.                                           *)
(***************************************************************************)
\* The commands a collector sends, and how many it sends at most from one on.
OpsOf(kind) ==
  IF kind = "query" THEN {"stack", "variables", "allocations", "accesses", "memory"}
  ELSE {"state", "runtime", "lifecycle", "storage", "storageaccess", "storagememory"}

Rest(kind, sel, op) ==
  LET either(n, m) == IF sel THEN n ELSE m IN
  CASE op = "stack" -> either(5, 3)
    [] op = "variables" -> either(4, 2)
    [] op = "allocations" -> either(3, 1)
    [] op = "state" -> either(6, 4)
    [] op = "runtime" -> either(5, 3)
    [] op = "lifecycle" -> either(4, 2)
    [] op = "storage" -> either(3, 1)
    [] op \in {"accesses", "storageaccess"} -> 2
    [] OTHER -> 1

\* A query collector was anchored to a checkpoint, and inspectDeclaredTarget sends once.
JobShapes == \A l \in Gens :
  /\ jobs[l].kind = "query" => jobs[l].anchor # Nothing
  /\ jobs[l].kind = "target" /\ jobs[l].wait = 0 => jobs[l].next \in {"done", "skip", "fail"}

\* The collector l that holds the lease goes on: the session is ready, no other
\* collector is due, and what it may still send is reserved and admitted.
Going(l) ==
  /\ ready /\ conn = jobs[l].conn
  /\ \A k \in Gens : k # l => ~Running(k)
  /\ jobs[l].next \in OpsOf(jobs[l].kind) \cup {"done"}
  /\ jobs[l].next # "done" =>
       /\ view.seq + 1 + Rest(jobs[l].kind, jobs[l].sel, jobs[l].next) <= MaxSequence + 1
       /\ JobCurrent(l) => Admitted(jobs[l].next, cache)

\* It waits for the reply to its command in g.
Waiting(l, g) ==
  /\ g = generation /\ conn = jobs[l].conn /\ conn # 0
  /\ calls[g].req.op \in OpsOf(jobs[l].kind)
  /\ calls[g].req.seq + Rest(jobs[l].kind, jobs[l].sel, calls[g].req.op) <= MaxSequence + 1
  /\ calls[g].req.op = "storageaccess" => cache["storage"] # Nothing
  /\ calls[g].req.op \notin {"stack", "state"} => \A k \in Gens : ~Running(k)

\* A lease belongs to a collector that goes on, waits, or is about to fail.
Leased(l) ==
  /\ jobs[l].kind \in {"query", "observed"}
  /\ jobs[l].wait = 0 => jobs[l].next = "fail" \/ Going(l)
  /\ \A g \in Gens : jobs[l].wait = g => calls[g].stage = "aborted" \/ Waiting(l, g)

LeaseInv == JobShapes /\ \A l \in Gens : lease = l => Leased(l)

\* Each command of a collector leaves it one less to send.
LEMMA NextFits ==
  ASSUME NEW kind \in {"query", "observed"}, NEW sel \in BOOLEAN, NEW op \in OpsOf(kind),
         NEW ok \in BOOLEAN, NEW good \in BOOLEAN, NEW next \in NextOps(kind, sel, op, ok, good)
  PROVE  /\ next \in OpsOf(kind) \cup {"done", "fail"}
         /\ next \in OpsOf(kind) => Rest(kind, sel, next) + 1 <= Rest(kind, sel, op)
<1>1. CASE kind = "query"
  BY <1>1 DEF OpsOf, NextOps, Rest
<1>2. CASE kind = "observed"
  BY <1>2 DEF OpsOf, NextOps, Rest
<1> QED BY <1>1, <1>2

\* What a collector sends next is admitted by what it just received.
LEMMA NextAdmitted ==
  ASSUME NEW kind \in {"query", "observed"}, NEW sel \in BOOLEAN, NEW op \in OpsOf(kind),
         NEW ok \in BOOLEAN, NEW good \in BOOLEAN, NEW next \in NextOps(kind, sel, op, ok, good),
         next \in OpsOf(kind), NEW q \in [Slots -> Stamps], NEW s \in Stamps, s # Nothing,
         op \in Observed \ {"runtime"} => q["runtime"] # Nothing,
         op = "storageaccess" => q["storage"] # Nothing,
         kind = "query" => CacheOnReply(op, q, s, ok, good)["checkpoint"] # Nothing
  PROVE  Admitted(next, CacheOnReply(op, q, s, ok, good))
<1> DEFINE r == CacheOnReply(op, q, s, ok, good)
<1>1. CASE kind = "query"
  <2>1. CASE next \in {"allocations", "memory", "stack"}
    BY <1>1, <2>1 DEF Admitted, Queries, Observed
  <2>2. CASE next = "variables"
    <3>1. op = "stack" /\ ok /\ good
      BY <1>1, <2>2 DEF NextOps, OpsOf
    <3>2. r = IF q["checkpoint"] # Nothing THEN [q EXCEPT !["stack"] = s] ELSE q
      BY <3>1 DEF CacheOnReply, Observed
    <3>3. r["checkpoint"] # Nothing /\ r["stack"] # Nothing
      BY <1>1, <3>2 DEF Slots
    <3> HIDE DEF r
    <3> QED BY <2>2, <3>3 DEF Admitted, Queries, Observed, r
  <2>3. CASE next = "accesses"
    <3>1. op = "allocations" /\ ok /\ good
      BY <1>1, <2>3 DEF NextOps, OpsOf
    <3>2. r = [q EXCEPT !["inventory"] = s]
      BY <3>1 DEF CacheOnReply, Observed
    <3>3. r["checkpoint"] # Nothing /\ r["inventory"] # Nothing
      BY <1>1, <3>2 DEF Slots
    <3> HIDE DEF r
    <3> QED BY <2>3, <3>3 DEF Admitted, Queries, Observed, r
  <2> QED BY <1>1, <2>1, <2>2, <2>3 DEF OpsOf
<1>2. CASE kind = "observed"
  <2>1. CASE next \in {"state", "runtime"}
    BY <2>1 DEF Admitted, Queries, Observed
  <2>2. CASE next \notin {"state", "runtime"}
    <3>1. op \in {"runtime", "lifecycle", "storage", "storageaccess"} /\ ok
      BY <1>2, <2>2 DEF NextOps, OpsOf
    <3>2. r["runtime"] # Nothing
      <4>1. CASE op = "runtime"
        BY <3>1, <4>1 DEF CacheOnReply, Slots
      <4>2. CASE op # "runtime"
        BY <3>1, <4>2 DEF CacheOnReply, Slots, Observed
      <4> QED BY <4>1, <4>2
    <3>3. next \in {"storageaccess", "storagememory"} => r["storage"] # Nothing
      <4>1. CASE op = "storage"
        BY <3>1, <4>1 DEF CacheOnReply, Slots, Observed
      <4>2. CASE op = "storageaccess"
        BY <3>1, <4>2 DEF CacheOnReply, Slots, Observed
      <4>3. CASE op \in {"runtime", "lifecycle"}
        BY <1>2, <4>3 DEF NextOps
      <4> QED BY <3>1, <4>1, <4>2, <4>3
    <3> HIDE DEF r
    <3>4. next \notin Queries /\ next # "target" /\ next # "variables" /\ next # "accesses"
      BY <1>2 DEF OpsOf, Queries
    <3> QED BY <3>2, <3>3, <3>4 DEF Admitted, r
  <2> QED BY <2>1, <2>2
<1> QED BY <1>1, <1>2

\* A job that is rejected, left alone or over keeps its shape.
LEMMA EndShapes ==
  ASSUME TypeOK, JobShapes, NEW g \in Gens,
         jobs' = Rejected(jobs, g) \/ \A l \in Gens : jobs'[l] = jobs[l] \/ jobs'[l].kind = "none"
  PROVE  JobShapes'
<1> SUFFICES ASSUME NEW l \in Gens
             PROVE  /\ jobs'[l].kind = "query" => jobs'[l].anchor # Nothing
                    /\ jobs'[l].kind = "target" /\ jobs'[l].wait = 0 => jobs'[l].next \in {"done", "skip", "fail"}
  BY DEF JobShapes
<1>1. CASE jobs'[l] = jobs[l] \/ jobs'[l].kind = "none"
  BY <1>1 DEF JobShapes
<1>2. CASE jobs' = Rejected(jobs, g) /\ jobs[l].kind # "none" /\ jobs[l].wait = g
  BY <1>2, RejectedJobs DEF JobShapes
<1>3. CASE jobs' = Rejected(jobs, g) /\ ~(jobs[l].kind # "none" /\ jobs[l].wait = g)
  BY <1>1, <1>3, RejectedJobs
<1> QED BY <1>1, <1>2, <1>3

\* A job that starts, or sends, waits, and a query collector has its anchor.
LEMMA SendShapes ==
  ASSUME TypeOK, JobShapes, generation + 1 \in Gens, NEW l \in Gens, NEW j,
         jobs' = [jobs EXCEPT ![l] = j], j.wait = generation + 1, j.kind = "query" => j.anchor # Nothing
  PROVE  JobShapes'
BY BoundsAssumption DEF TypeOK, JobShapes, Gens

\* The reply to the command of inspectDeclaredTarget ends it.
LEMMA ReplyShapes ==
  ASSUME TypeOK, DueInv, JobShapes, NEW g \in Gens, NEW l \in Awaiting(g), NEW n,
         jobs[l].kind = "target" => n \in {"done", "skip", "fail"}, jobs' = Resumed(jobs, g, n)
  PROVE  JobShapes'
<1> SUFFICES ASSUME NEW k \in Gens
             PROVE  /\ jobs'[k].kind = "query" => jobs'[k].anchor # Nothing
                    /\ jobs'[k].kind = "target" /\ jobs'[k].wait = 0 => jobs'[k].next \in {"done", "skip", "fail"}
  BY DEF JobShapes
<1>1. CASE k = l
  <2>1. jobs[l].kind # "none" /\ jobs[l].wait = g /\ l \in Gens
    BY DEF Awaiting
  <2> QED BY <1>1, <2>1, ResumedJob DEF JobShapes
<1>2. CASE k # l
  <2>1. ~(jobs[k].kind # "none" /\ jobs[k].wait = g)
    BY <1>2 DEF DueInv, JobsAwait, Awaiting
  <2>2. jobs'[k] = jobs[k]
    BY <2>1, ResumedSame
  <2> QED BY <2>2 DEF JobShapes
<1> QED BY <1>1, <1>2

\* inspectDeclaredTarget ends after its reply.
LEMMA TargetOps ==
  ASSUME NEW kind, kind = "target", NEW sel, NEW op, NEW ok, NEW good
  PROVE  NextOps(kind, sel, op, ok, good) \subseteq {"done", "skip", "fail"}
BY DEF NextOps

\* Jobs keep their shape.
LEMMA ShapesInductive == SessionInv /\ DueInv /\ JobShapes /\ [Next]_vars => JobShapes'
<1> SUFFICES ASSUME SessionInv, DueInv, JobShapes, [Next]_vars PROVE JobShapes'
  OBVIOUS
<1>0. TypeOK
  BY DEF SessionInv
<1>1. CASE UNCHANGED jobs
  BY <1>1 DEF JobShapes
<1>2. ASSUME NEW kind, NEW sel, NEW q, NEW op, NEW anchor, kind = "query" => anchor # Nothing,
             StartJob(kind, sel, q, op, anchor)
      PROVE  JobShapes'
  <2>1. generation + 1 \in Gens
    BY <1>0, <1>2, BoundsAssumption DEF StartJob, Send, Exchange, TypeOK, Gens
  <2> DEFINE job == [kind |-> kind, conn |-> conn, anchor |-> anchor, sel |-> sel,
                     seq |-> view.seq + 1, wait |-> generation + 1, next |-> "none"]
  <2>2. jobs' = [jobs EXCEPT ![generation + 1] = job]
    BY <1>2 DEF StartJob
  <2>3. job.wait = generation + 1 /\ (job.kind = "query" => job.anchor # Nothing)
    BY <1>2
  <2> HIDE DEF job
  <2> QED BY <1>0, <2>1, <2>2, <2>3, SendShapes
<1>3. CASE User
  <2>1. ASSUME NEW sel, CollectQueries(sel) PROVE JobShapes'
    BY <1>2, <2>1 DEF CollectQueries, CanCollect
  <2>2. ASSUME NEW sel, CollectObserved(sel) PROVE JobShapes'
    BY <1>2, <2>2 DEF CollectObserved
  <2>3. CASE InspectDeclaredTarget
    BY <1>2, <2>3 DEF InspectDeclaredTarget
  <2> QED BY <1>1, <1>3, <2>1, <2>2, <2>3
       DEF User, Connect, Command, CollectBadSelection, Invalidate, Disconnect
<1>4. ASSUME NEW g \in Gens, JobStep(g) PROVE JobShapes'
  <2>1. CASE JobSend(g)
    <3>1. generation + 1 \in Gens
      BY <1>0, <2>1, BoundsAssumption DEF JobSend, Send, Exchange, TypeOK, Gens
    <3>2. jobs' = [jobs EXCEPT ![g].wait = generation + 1, ![g].next = "none"]
      BY <2>1 DEF JobSend
    <3> DEFINE j == [jobs[g] EXCEPT !.wait = generation + 1, !.next = "none"]
    <3>3. jobs' = [jobs EXCEPT ![g] = j]
      BY <1>0, <3>2 DEF TypeOK
    <3>4. j.wait = generation + 1 /\ j.kind = jobs[g].kind /\ j.anchor = jobs[g].anchor
      BY <1>0 DEF TypeOK, Jobs
    <3>5. j.kind = "query" => j.anchor # Nothing
      BY <3>4 DEF JobShapes
    <3> HIDE DEF j
    <3> QED BY <1>0, <3>1, <3>3, <3>4, <3>5, SendShapes
  <2>2. CASE JobReturn(g) \/ JobFail(g)
    <3>1. \A l \in Gens : jobs'[l] = jobs[l] \/ jobs'[l].kind = "none"
      BY <1>0, <2>2 DEF JobReturn, JobFail, Release, NoJob, TypeOK
    <3> QED BY <1>0, <3>1, EndShapes
  <2> QED BY <1>4, <2>1, <2>2 DEF JobStep
<1>5. ASSUME NEW g \in Gens, Settle(g) PROVE JobShapes'
  <2>1. CASE AcceptReply(g)
    <3>1. PICK good \in BOOLEAN :
            \/ UNCHANGED jobs
            \/ \E l \in Awaiting(g) :
                 \E n \in NextOps(jobs[l].kind, jobs[l].sel, calls[g].req.op, calls[g].answer.ok, good) :
                   jobs' = Resumed(jobs, g, n)
      BY <2>1 DEF AcceptReply
    <3>2. ASSUME NEW l \in Awaiting(g),
                 NEW n \in NextOps(jobs[l].kind, jobs[l].sel, calls[g].req.op, calls[g].answer.ok, good),
                 jobs' = Resumed(jobs, g, n)
          PROVE  JobShapes'
      <4>1. jobs[l].kind = "target" => n \in {"done", "skip", "fail"}
        BY <3>2, TargetOps
      <4> QED BY <1>0, <3>2, <4>1, ReplyShapes
    <3> QED BY <1>1, <3>1, <3>2
  <2>2. CASE RejectReply(g)
    BY <1>0, <2>2, EndShapes DEF RejectReply
  <2> QED BY <1>1, <1>5, <2>1, <2>2
       DEF Settle, AcceptConnect, RejectConnect, AcceptDisconnect, RejectDisconnect
<1>6. ASSUME NEW g \in Gens, NEW closed, Fail(g, closed) PROVE JobShapes'
  BY <1>0, <1>6, EndShapes DEF Fail
<1>7. CASE Microtask
  BY <1>4, <1>5, <1>6, <1>7 DEF Microtask, Unwind
<1>8. CASE Task
  BY <1>1, <1>6, <1>8 DEF Task, Timeout, DeliverFailure, Deliver
<1>9. CASE Environment
  BY <1>1, <1>9 DEF Environment, ServeConnect, ServeCommand, ServeDisconnect, BridgeStops
<1> QED BY <1>1, <1>3, <1>7, <1>8, <1>9 DEF Next, vars

\* Where the collector that holds the lease can be.
LEMMA LeaseCases ==
  ASSUME SessionInv, DueInv, LeaseInv, NEW l \in Gens, lease = l
  PROVE  /\ jobs[l].kind \in {"query", "observed"}
         /\ \/ jobs[l].wait = 0 /\ jobs[l].next = "fail"
            \/ jobs[l].wait \in Gens /\ calls[jobs[l].wait].stage = "aborted"
            \/ jobs[l].wait = 0 /\ Going(l) /\ \A h \in Gens : calls[h].stage = "idle"
            \/ /\ jobs[l].wait = generation /\ generation \in Gens /\ Waiting(l, generation)
               /\ calls[generation].stage \in {"wire", "answered"}
               /\ calls[generation].req.kind = "command" /\ Alone(generation)
<1>0. TypeOK
  BY DEF SessionInv
<1>1. Leased(l) /\ jobs[l].kind \in {"query", "observed"}
  BY DEF LeaseInv, Leased
<1>2. jobs[l].wait = 0 \/ jobs[l].wait \in Gens
  BY <1>0, BoundsAssumption DEF TypeOK, Jobs, Gens
<1>3. CASE jobs[l].wait = 0
  BY <1>1, <1>3 DEF Leased, Going, ready, DueInv, DueIsAlone
<1>4. ASSUME jobs[l].wait \in Gens, calls[jobs[l].wait].stage # "aborted"
      PROVE  /\ jobs[l].wait = generation /\ generation \in Gens /\ Waiting(l, generation)
             /\ calls[generation].stage \in {"wire", "answered"}
             /\ calls[generation].req.kind = "command" /\ Alone(generation)
  <2>1. Waiting(l, jobs[l].wait) /\ jobs[l].wait = generation
    BY <1>1, <1>4 DEF Leased, Waiting
  <2>2. calls[generation].stage # "idle" /\ calls[generation].req.kind = "command"
    BY <1>1, <1>4, <2>1 DEF DueInv, JobsAwait
  <2>3. calls[generation].stage \in {"wire", "answered"}
    BY <1>0, <1>4, <2>1, <2>2 DEF TypeOK, Calls, Stages
  <2> QED BY <1>4, <2>1, <2>2, <2>3 DEF DueInv, DueIsAlone
<1> QED BY <1>1, <1>2, <1>3, <1>4

\* A collector that is to fail, or whose exchange is aborted, still is.
LEMMA StuckLease ==
  ASSUME NEW l \in Gens, jobs'[l].kind \in {"query", "observed"},
         \/ jobs'[l].wait = 0 /\ jobs'[l].next = "fail"
         \/ jobs'[l].wait \in Gens /\ calls'[jobs'[l].wait].stage = "aborted"
  PROVE  Leased(l)'
BY BoundsAssumption DEF Leased, Gens

\* Nothing the lease is about changed.
LEMMA SameLease ==
  ASSUME LeaseInv, UNCHANGED <<conn, view, generation, pending, cache, lease, owner, jobs>>,
         \A h \in Gens : calls'[h].stage = calls[h].stage /\ calls'[h].req = calls[h].req,
         NEW l \in Gens, lease' = l
  PROVE  Leased(l)'
<1>1. Leased(l)
  BY DEF LeaseInv
<1>2. JobCurrent(l)' = JobCurrent(l) /\ ready' = ready /\ Admitted(jobs[l].next, cache)' = Admitted(jobs[l].next, cache)
  BY DEF JobCurrent, ready, Admitted
<1>3. Going(l) => Going(l)'
  BY <1>2 DEF Going, Running
<1>4. \A g \in Gens : Waiting(l, g) => Waiting(l, g)'
  BY DEF Waiting, Running
<1> QED BY <1>1, <1>3, <1>4 DEF Leased

\* The end of an exchange that is not a reply for it leaves the collector no way to go on.
LEMMA EndLease ==
  ASSUME SessionInv, DueInv, LeaseInv, NEW g \in Gens, calls[g].stage # "idle",
         calls' = [calls EXCEPT ![g] = NoCall],
         jobs' = Rejected(jobs, g) \/ (UNCHANGED jobs /\ Awaiting(g) = {}),
         UNCHANGED lease, NEW l \in Gens, lease' = l
  PROVE  Leased(l)'
<1>0. TypeOK
  BY DEF SessionInv
<1>1. \A h \in Gens : calls'[h] = IF h = g THEN NoCall ELSE calls[h]
  BY <1>0 DEF TypeOK
<1>2. jobs[l].kind \in {"query", "observed"}
  BY LeaseCases
<1>3. CASE jobs[l].wait = g
  <2>1. jobs' = Rejected(jobs, g)
    BY <1>2, <1>3 DEF Awaiting
  <2>2. jobs'[l].kind = jobs[l].kind /\ jobs'[l].wait = 0 /\ jobs'[l].next = "fail"
    BY <1>0, <1>2, <1>3, <2>1, RejectedJobs
  <2> QED BY <1>2, <2>2, StuckLease
<1>4. CASE jobs[l].wait # g
  <2>1. jobs'[l] = jobs[l]
    BY <1>0, <1>4, RejectedJobs
  <2>2. \/ jobs[l].wait = 0 /\ jobs[l].next = "fail"
        \/ jobs[l].wait \in Gens /\ calls[jobs[l].wait].stage = "aborted"
    BY <1>4, LeaseCases DEF Alone
  <2> QED BY <1>1, <1>2, <1>4, <2>1, <2>2, StuckLease
<1> QED BY <1>3, <1>4

\* The reply a collector waited for tells it how to go on.
LEMMA ReplyLease ==
  ASSUME SessionInv, DueInv, LeaseInv, NEW g \in Gens, AcceptReply(g), NEW l \in Gens, lease' = l
  PROVE  Leased(l)'
<1> DEFINE op == calls[g].req.op
           a == calls[g].answer
           s == [conn |-> conn, rev |-> a.rev]
           kind == jobs[l].kind
           sel == jobs[l].sel
<1>0. TypeOK /\ lease = l
  BY DEF SessionInv, AcceptReply
<1>1. calls[g].stage = "answered" /\ g = generation /\ conn = calls[g].req.conn /\ conn # 0
  BY DEF AcceptReply, Answered, Current, SessionInv, CallsAreAddressed
<1>2. kind \in {"query", "observed"}
  BY <1>0, LeaseCases
<1>3. CASE jobs[l].wait # g
  <2>1. jobs[l].wait # 0 \/ jobs[l].kind = "none"
    BY <1>1 DEF DueInv, DueIsAlone, Running
  <2>2. FALSE
    BY <1>0, <1>1, <1>2, <1>3, <2>1, LeaseCases DEF DueInv, DueIsAlone, Alone
  <2> QED BY <2>2
<1>4. CASE jobs[l].wait = g
  <2>1. Waiting(l, g)
    BY <1>0, <1>1, <1>4, LeaseCases, BoundsAssumption DEF Gens
  <2>2. Awaiting(g) = {l}
    BY <1>2, <1>4 DEF DueInv, JobsAwait, Awaiting
  <2>a. PICK good \in BOOLEAN :
          /\ cache' = CacheOnReply(op, cache, s, a.ok, good)
          /\ \/ Awaiting(g) = {} /\ UNCHANGED jobs
             \/ \E k \in Awaiting(g) : \E next \in NextOps(jobs[k].kind, jobs[k].sel, op, a.ok, good) :
                  jobs' = Resumed(jobs, g, next)
    BY DEF AcceptReply
  <2>3. PICK next \in NextOps(kind, sel, op, a.ok, good) : jobs' = Resumed(jobs, g, next)
    BY <2>2, <2>a
  <2>4. /\ sel \in BOOLEAN /\ a.ok \in BOOLEAN /\ s \in Stamps /\ s # Nothing
        /\ cache \in [Slots -> Stamps] /\ op \in OpsOf(kind)
    BY <1>0, <1>1, <2>1 DEF TypeOK, Calls, Answers, Jobs, Stamps, Nothing, Waiting
  <2>5. /\ next \in OpsOf(kind) \cup {"done", "fail"}
        /\ next \in OpsOf(kind) => Rest(kind, sel, next) + 1 <= Rest(kind, sel, op)
    BY <1>2, <2>3, <2>4, NextFits
  <2>6. /\ jobs'[l].kind = kind /\ jobs'[l].sel = sel /\ jobs'[l].conn = jobs[l].conn
        /\ jobs'[l].anchor = jobs[l].anchor /\ jobs'[l].wait = 0 /\ jobs'[l].next = next
    BY <1>0, <1>2, <1>4, <2>3, ResumedJob
  <2>7. ready'
    <3>1. pending = 0
      BY <1>0, <1>1 DEF SessionInv, OneRequestAtATime, TypeOK
    <3> QED BY <1>1, <3>1 DEF ready, AcceptReply, Live
  <2>8. conn' = jobs'[l].conn
    BY <2>1, <2>6 DEF AcceptReply, Waiting
  <2>9. \A k \in Gens : k # l => ~Running(k)'
    <3> SUFFICES ASSUME NEW k \in Gens, k # l PROVE ~Running(k)'
      OBVIOUS
    <3>1. ~(jobs[k].kind # "none" /\ jobs[k].wait = g)
      BY <2>2 DEF Awaiting
    <3>2. jobs'[k] = jobs[k]
      BY <2>3, <3>1, ResumedSame
    <3> QED BY <1>1, <3>2 DEF DueInv, DueIsAlone, Running
  <2>10. next \in OpsOf(kind) => view'.seq + 1 + Rest(kind, sel, next) <= MaxSequence + 1
    <3>1. view'.seq = calls[g].req.seq
      BY DEF AcceptReply, Decodes, Live
    <3>2. calls[g].req.seq + Rest(kind, sel, op) <= MaxSequence + 1
      BY <2>1 DEF Waiting
    <3>3. calls[g].req.seq \in Nat
      BY <1>0 DEF TypeOK, Calls, Requests
    <3>4. \A o : Rest(kind, sel, o) \in Nat
      BY <2>4 DEF Rest
    <3> QED BY <2>5, <3>1, <3>2, <3>3, <3>4, BoundsAssumption
  <2>11. next \in OpsOf(kind) /\ JobCurrent(l)' => Admitted(next, cache)'
    <3> SUFFICES ASSUME next \in OpsOf(kind), JobCurrent(l)' PROVE Admitted(next, cache)'
      OBVIOUS
    <3>1. op \in Observed \ {"runtime"} => cache["runtime"] # Nothing
      <4>1. op \in Observed \ {"runtime"} => cache["runtime"] = [conn |-> a.conn, rev |-> a.rev]
        BY DEF AcceptReply, Bound
      <4>2. a.conn = conn
        BY <1>1 DEF AcceptReply, Decodes
      <4> QED BY <1>1, <4>1, <4>2 DEF Nothing
    <3>2. op = "storageaccess" => cache["storage"] # Nothing
      BY <2>1 DEF Waiting
    <3>3. kind = "query" => cache'["checkpoint"] # Nothing
      <4>1. kind = "query" => jobs[l].anchor # Nothing
        BY DEF LeaseInv, JobShapes
      <4> QED BY <2>6, <4>1 DEF JobCurrent
    <3>4. Admitted(next, CacheOnReply(op, cache, s, a.ok, good))
      <4> HIDE DEF op, a, s, kind, sel
      <4> QED BY <1>2, <2>a, <2>3, <2>4, <3>1, <3>2, <3>3, NextAdmitted
    <3>5. next # "target"
      BY <1>2 DEF OpsOf
    <3> QED BY <2>a, <3>4, <3>5 DEF Admitted
  <2> HIDE DEF kind, sel, op, a, s
  <2>12. next # "fail" => Going(l)'
    BY <2>5, <2>6, <2>7, <2>8, <2>9, <2>10, <2>11 DEF Going
  <2>13. \A h \in Gens : jobs'[l].wait # h
    BY <2>6, BoundsAssumption DEF Gens
  <2> QED BY <1>2, <2>6, <2>12, <2>13 DEF Leased
<1> QED BY <1>3, <1>4

\* A collector takes the lease with its commands reserved.
LEMMA StartLease ==
  ASSUME SessionInv, NEW kind \in {"query", "observed"}, NEW sel \in BOOLEAN, NEW op, NEW q, NEW anchor,
         op = (IF kind = "query" THEN "stack" ELSE "state"),
         CanCollect(kind, sel), lease' = generation + 1, StartJob(kind, sel, q, op, anchor),
         NEW l \in Gens, lease' = l
  PROVE  Leased(l)'
<1>0. TypeOK
  BY DEF SessionInv
<1> DEFINE req == [kind |-> "command", conn |-> conn, seq |-> view.seq + 1,
                   rev |-> view.rev, op |-> op]
           job == [kind |-> kind, conn |-> conn, anchor |-> anchor, sel |-> sel,
                   seq |-> view.seq + 1, wait |-> generation + 1, next |-> "none"]
<1>1. Exchange(req) /\ jobs' = [jobs EXCEPT ![generation + 1] = job] /\ UNCHANGED conn
  BY DEF StartJob, Send
<1>2. l = generation + 1 /\ generation' = l /\ l # 0
  BY <1>0, BoundsAssumption DEF StartJob, Send, Exchange, TypeOK
<1>3. calls'[l].req = req
  BY <1>0, <1>1, <1>2 DEF Exchange, TypeOK
<1>4. jobs'[l] = job
  BY <1>0, <1>1, <1>2 DEF TypeOK
<1>5. /\ job.kind = kind /\ job.conn = conn /\ job.sel = sel /\ job.wait = l
      /\ req.op = op /\ req.seq = view.seq + 1
  BY <1>2
<1>6. conn # 0 /\ view.seq \in Nat /\ view.seq + Reserve(kind, sel) <= MaxSequence
  BY <1>0, BoundsAssumption DEF CanCollect, ready, remainingCommands, Reserve, TypeOK, Views
<1>7. Rest(kind, sel, op) = Reserve(kind, sel) /\ op \in OpsOf(kind) /\ Reserve(kind, sel) \in Nat
  BY DEF Rest, Reserve, OpsOf
<1> HIDE DEF req, job
<1>8. Waiting(l, l)'
  BY <1>1, <1>2, <1>3, <1>4, <1>5, <1>6, <1>7, BoundsAssumption DEF Waiting
<1> QED BY <1>2, <1>4, <1>5, <1>8 DEF Leased

\* A collector that goes on sends a command it has reserved.
LEMMA SendLease ==
  ASSUME SessionInv, DueInv, LeaseInv, NEW k \in Gens, JobSend(k), NEW l \in Gens, lease' = l
  PROVE  Leased(l)'
<1>0. TypeOK /\ lease = l /\ k = l
  BY DEF SessionInv, JobSend, MaySend, CanSend
<1> DEFINE req == [kind |-> "command", conn |-> conn, seq |-> view.seq + 1,
                   rev |-> view.rev, op |-> jobs[l].next]
<1>1. /\ Exchange(req) /\ UNCHANGED <<conn, lease>> /\ cache' = CacheOnSend(jobs[l].next, cache)
      /\ jobs' = [jobs EXCEPT ![l].wait = generation + 1, ![l].next = "none"]
      /\ jobs[l].next \in Ops /\ jobs[l].wait = 0 /\ Admitted(jobs[l].next, cache) /\ conn # 0
  BY <1>0 DEF JobSend, MaySend, CanSend, Send, Running, ready
<1>2. jobs[l].next # "fail" /\ jobs[l].next # "done" /\ jobs[l].next # "none"
  BY <1>1 DEF Ops, Moves, Edits, Reads, Queries, Observed
<1>3. Going(l) /\ jobs[l].kind \in {"query", "observed"}
  BY <1>0, <1>1, <1>2, LeaseCases, BoundsAssumption DEF Gens
<1>4. generation + 1 \in Gens /\ generation' = generation + 1 /\ generation + 1 # 0
  BY <1>0, <1>1, BoundsAssumption DEF Exchange, TypeOK, Gens
<1>5. calls'[generation + 1].req = req
  BY <1>0, <1>1, <1>4 DEF Exchange, TypeOK
<1>6. /\ jobs'[l].kind = jobs[l].kind /\ jobs'[l].sel = jobs[l].sel /\ jobs'[l].conn = jobs[l].conn
      /\ jobs'[l].wait = generation + 1
      /\ \A m \in Gens : m # l => jobs'[m] = jobs[m]
  BY <1>0, <1>1 DEF TypeOK, Jobs
<1>7. req.op = jobs[l].next /\ req.seq = view.seq + 1
  OBVIOUS
<1>8. jobs[l].next \in OpsOf(jobs[l].kind)
      /\ view.seq + 1 + Rest(jobs[l].kind, jobs[l].sel, jobs[l].next) <= MaxSequence + 1
  BY <1>2, <1>3 DEF Going
<1>9. jobs[l].next = "storageaccess" => cache'["storage"] # Nothing
  BY <1>0, <1>1 DEF Admitted, CacheOnSend, Moves, Edits, Observed, TypeOK, Slots
<1> HIDE DEF req
<1>10. \A m \in Gens : ~Running(m)'
  BY <1>3, <1>4, <1>6 DEF Going, Running
<1>11. Waiting(l, generation)'
  BY <1>1, <1>3, <1>4, <1>5, <1>6, <1>7, <1>8, <1>9, <1>10 DEF Waiting, Going
<1> QED BY <1>3, <1>4, <1>6, <1>11 DEF Leased

\* The lease is kept while others run.
LEMMA LeaseInductive == SessionInv /\ DueInv /\ LeaseInv /\ [Next]_vars => LeaseInv'
<1> SUFFICES ASSUME SessionInv, DueInv, LeaseInv, [Next]_vars PROVE LeaseInv'
  OBVIOUS
<1>0. TypeOK
  BY DEF SessionInv
<1> SUFFICES ASSUME NEW l \in Gens, lease' = l PROVE Leased(l)'
  BY ShapesInductive DEF LeaseInv
<1>a. l # 0
  BY BoundsAssumption DEF Gens
<1>1. CASE User
  <2>1. CASE Connect
    <3>1. lease = l /\ conn = 0 /\ jobs' = jobs
      BY <2>1 DEF Connect
    <3>2. /\ jobs[l].kind \in {"query", "observed"}
          /\ \/ jobs[l].wait = 0 /\ jobs[l].next = "fail"
             \/ jobs[l].wait \in Gens /\ calls[jobs[l].wait].stage = "aborted"
      BY <3>1, LeaseCases DEF Going, ready, Waiting
    <3>3. \A h \in Gens : calls[h].stage = "aborted" => calls'[h] = calls[h]
      BY <1>0, <2>1, BoundsAssumption
         DEF Connect, Exchange, SessionInv, CallsAreAddressed, TypeOK, Gens
    <3> QED BY <3>1, <3>2, <3>3, StuckLease
  <2>2. CASE \/ \E op \in UserOps : Command(op)
             \/ \E kind \in {"query", "observed"} : CollectBadSelection(kind)
             \/ InspectDeclaredTarget \/ Invalidate \/ Disconnect
    <3>1. lease' = 0
      BY <2>2 DEF Command, CollectBadSelection, CanCollect, InspectDeclaredTarget, CanSend,
                  Invalidate, Disconnect
    <3> QED BY <1>a, <3>1
  <2>3. ASSUME NEW sel \in BOOLEAN, CollectQueries(sel) PROVE Leased(l)'
    BY <2>3, StartLease DEF CollectQueries
  <2>4. ASSUME NEW sel \in BOOLEAN, CollectObserved(sel) PROVE Leased(l)'
    BY <2>4, StartLease DEF CollectObserved
  <2> QED BY <1>1, <2>1, <2>2, <2>3, <2>4 DEF User
<1>2. ASSUME NEW g \in Gens, NEW closed, calls[g].stage # "idle", Fail(g, closed) PROVE Leased(l)'
  BY <1>2, EndLease DEF Fail
<1>3. ASSUME NEW g \in Gens, Settle(g) PROVE Leased(l)'
  <2>1. ASSUME Answered(g, "connect") \/ Answered(g, "disconnect") PROVE Awaiting(g) = {}
    BY <2>1 DEF DueInv, JobsAwait, Answered, Awaiting
  <2>2. CASE AcceptConnect(g) \/ RejectConnect(g) \/ AcceptDisconnect(g) \/ RejectDisconnect(g)
    BY <2>1, <2>2, EndLease DEF AcceptConnect, RejectConnect, AcceptDisconnect, RejectDisconnect, Answered
  <2>3. CASE RejectReply(g)
    BY <2>3, EndLease DEF RejectReply, Answered
  <2> QED BY <1>3, <2>2, <2>3, ReplyLease DEF Settle
<1>4. ASSUME NEW k \in Gens, JobReturn(k) \/ JobFail(k) PROVE Leased(l)'
  <2>1. Running(k) /\ Release(k) /\ UNCHANGED <<conn, view, generation, pending, calls>>
    BY <1>4 DEF JobReturn, JobFail
  <2>2. lease = l /\ k # l
    BY <1>a, <2>1 DEF Release
  <2>3. jobs'[l] = jobs[l] /\ \A m \in Gens : Running(m)' => Running(m)
    BY <1>0, <2>1, <2>2 DEF Release, Running, NoJob, TypeOK
  <2>4. /\ jobs[l].kind \in {"query", "observed"}
        /\ \/ jobs[l].wait = 0 /\ jobs[l].next = "fail"
           \/ jobs[l].wait \in Gens /\ calls[jobs[l].wait].stage = "aborted"
           \/ jobs[l].wait = generation /\ generation \in Gens /\ Waiting(l, generation)
    BY <2>1, <2>2, LeaseCases DEF Going
  <2>5. CASE jobs[l].wait = generation /\ generation \in Gens /\ Waiting(l, generation)
    <3>1. calls[generation].req.op \in {"stack", "state"}
      BY <2>1, <2>5 DEF Waiting
    <3>2. Waiting(l, generation)'
      BY <2>1, <2>3, <2>5, <3>1 DEF Waiting
    <3>3. generation # 0
      BY <2>5, BoundsAssumption DEF Gens
    <3> QED BY <2>1, <2>3, <2>4, <2>5, <3>2, <3>3 DEF Leased
  <2> QED BY <2>1, <2>3, <2>4, <2>5, StuckLease
<1>5. CASE Microtask
  BY <1>2, <1>3, <1>4, <1>5, SendLease DEF Microtask, Unwind, JobStep
<1>6. CASE Task
  <2>1. ASSUME NEW g \in Gens, Timeout(g) PROVE Leased(l)'
    <3>1. UNCHANGED <<lease, jobs>> /\ calls[g].stage = "wire"
      BY <2>1 DEF Timeout, client
    <3>2. \A h \in Gens : calls[h].stage = "aborted" \/ h = g => calls'[h].stage = "aborted"
      BY <1>0, <2>1 DEF Timeout, TypeOK, Calls
    <3>3. /\ jobs[l].kind \in {"query", "observed"}
          /\ \/ jobs[l].wait = 0 /\ jobs[l].next = "fail"
             \/ jobs[l].wait \in Gens /\ (calls[jobs[l].wait].stage = "aborted" \/ jobs[l].wait = g)
      BY <3>1, LeaseCases DEF Alone
    <3> QED BY <3>1, <3>2, <3>3, StuckLease
  <2>2. ASSUME NEW g \in Gens, DeliverFailure(g) PROVE Leased(l)'
    BY <1>2, <2>2 DEF DeliverFailure
  <2>3. ASSUME NEW g \in Gens, Deliver(g) PROVE Leased(l)'
    <3>1. /\ Quiet /\ calls[g].stage = "wire" /\ g = generation
          /\ UNCHANGED <<conn, view, generation, cache, lease, owner, jobs>>
      BY <2>3 DEF Deliver
    <3>2. \A h \in Gens : /\ calls'[h].stage = IF h = g THEN "answered" ELSE calls[h].stage
                          /\ calls'[h].req = calls[h].req
      <4>1. PICK a : calls' = [calls EXCEPT ![g].stage = "answered", ![g].answer = a]
        BY <2>3 DEF Deliver
      <4> QED BY <1>0, <4>1 DEF TypeOK, Calls
    <3>3. jobs[l].wait = generation /\ Waiting(l, generation) /\ jobs[l].kind \in {"query", "observed"}
      BY <3>1, LeaseCases DEF Quiet, Running
    <3>4. Waiting(l, generation)'
      BY <3>1, <3>2, <3>3 DEF Waiting, Running
    <3>5. generation # 0
      BY <3>1, BoundsAssumption DEF Gens
    <3> QED BY <3>1, <3>3, <3>4, <3>5 DEF Leased
  <2> QED BY <1>6, <2>1, <2>2, <2>3 DEF Task
<1>7. CASE Environment
  <2>1. \A h \in Gens : calls'[h].stage = calls[h].stage /\ calls'[h].req = calls[h].req
    BY <1>0, <1>7, AnswerKeepsCalls
  <2>2. UNCHANGED <<conn, view, generation, pending, cache, lease, owner, jobs>>
    BY <1>7 DEF Environment, ServeConnect, ServeCommand, ServeDisconnect, BridgeStops, client
  <2> QED BY <2>1, <2>2, SameLease
<1>8. CASE UNCHANGED vars
  BY <1>8, SameLease DEF vars
<1> QED BY <1>1, <1>5, <1>6, <1>7, <1>8 DEF Next

\* No lease is held at first.
LEMMA LeaseInitial == Init => LeaseInv
BY BoundsAssumption DEF Init, LeaseInv, JobShapes, NoJob, Gens

\* No command is left to send when a lease was taken that a collector cannot use up.
LEMMA LeaseSuffices == SessionInv /\ DueInv /\ LeaseInv => LeaseIsHeld /\ ReservationSuffices
<1> SUFFICES ASSUME SessionInv, DueInv, LeaseInv PROVE LeaseIsHeld /\ ReservationSuffices
  OBVIOUS
<1>0. TypeOK
  BY DEF SessionInv
<1>1. LeaseIsHeld
  BY <1>0, BoundsAssumption, LeaseCases DEF LeaseIsHeld, TypeOK, Gens
<1>2. ASSUME NEW l \in Gens, Running(l), JobCurrent(l), jobs[l].next \in Ops
      PROVE  CanSend(jobs[l].next, cache, l)
  <2>1. jobs[l].next \notin {"done", "skip", "fail"}
    BY <1>2 DEF Ops, Moves, Edits, Reads, Queries, Observed
  <2>2. lease = l
    BY <1>0, <1>2, <2>1 DEF JobCurrent, LeaseInv, JobShapes, Running, TypeOK, Jobs, JobKinds
  <2>3. Going(l)
    BY <1>2, <2>1, <2>2, LeaseCases, BoundsAssumption DEF Running, Gens
  <2>4. /\ ready /\ Admitted(jobs[l].next, cache)
        /\ view.seq + 1 + Rest(jobs[l].kind, jobs[l].sel, jobs[l].next) <= MaxSequence + 1
    BY <1>2, <2>1, <2>3 DEF Going
  <2>5. Rest(jobs[l].kind, jobs[l].sel, jobs[l].next) \in Nat \ {0}
    BY <1>0 DEF Rest, TypeOK, Jobs
  <2>6. view.seq \in Nat
    BY <1>0 DEF TypeOK, Views
  <2>7. view.seq + 1 <= MaxSequence
    BY <2>4, <2>5, <2>6, BoundsAssumption
  <2> QED BY <2>2, <2>4, <2>7 DEF CanSend
<1> QED BY <1>1, <1>2 DEF ReservationSuffices

\* The holder of the lease runs, and has what it needs to end.
THEOREM LeaseInvariant == Spec => []LeaseInv
BY LeaseInitial, LeaseInductive, SessionInvariant, DueInvariant, PTL DEF Spec

(***************************************************************************)
(* What is retained is what the bridge would show.                          *)
(***************************************************************************)
Changing == Moves \cup Edits

\* A retained observation is of the view, or of the view the command under way
\* was sent from, and nothing under way can change what was observed.
CacheIsView == \A s \in Slots : cache[s] # Nothing =>
  /\ conn # 0 /\ cache[s].conn = conn
  /\ view.live => cache[s].rev = view.rev
  /\ \A g \in Gens : g = generation /\ calls[g].stage # "idle" =>
       /\ calls[g].req.kind = "command" /\ calls[g].req.op \notin Changing
       /\ cache[s].rev = calls[g].req.rev
  /\ \A h \in Gens : wire[h].conn = conn => wire[h].kind = "command" /\ wire[h].op \notin Changing

\* What inspectDeclaredTarget restores is of the view it was called on.
TargetAnchored == \A l \in Gens : jobs[l].kind = "target" =>
  /\ \A g \in Gens : jobs[l].wait = g =>
       /\ calls[g].req.op = "target" /\ calls[g].req.seq = jobs[l].seq /\ calls[g].req.conn = jobs[l].conn
       /\ jobs[l].anchor = [conn |-> jobs[l].conn, rev |-> calls[g].req.rev]
  /\ jobs[l].wait = 0 /\ conn = jobs[l].conn /\ view.live /\ view.seq = jobs[l].seq =>
       jobs[l].anchor = [conn |-> conn, rev |-> view.rev]

ObservationInv == CacheIsView /\ TargetAnchored /\ NoStaleObservation

\* Every invariant of the session so far.
AllInv == SessionInv /\ DueInv /\ WireInv /\ LeaseInv /\ ObservationInv

\* sendCommand only drops observations, and every one before a move or an edit.
LEMMA CacheOnSendKeeps ==
  ASSUME NEW op, NEW q \in [Slots -> Stamps], NEW s \in Slots
  PROVE  /\ CacheOnSend(op, q)[s] \in {q[s], Nothing}
         /\ op \in Changing => CacheOnSend(op, q)[s] = Nothing
<1> DEFINE kept == IF op \in Moves \cup Edits THEN NoCache
                   ELSE [q EXCEPT !["collection"] = Nothing, !["observed"] = Nothing]
<1>1. kept[s] \in {q[s], Nothing} /\ (op \in Changing => kept[s] = Nothing)
  BY DEF NoCache, Changing
<1>2. ClearObserved(kept)[s] \in {kept[s], Nothing}
  BY DEF ClearObserved
<1> HIDE DEF kept
<1>3. CacheOnSend(op, q) = IF op \in Observed THEN kept ELSE ClearObserved(kept)
  BY DEF CacheOnSend, kept
<1> QED BY <1>1, <1>2, <1>3

\* A reply replaces observations by one of its own or drops them.
LEMMA CacheOnReplyKeeps ==
  ASSUME NEW op, NEW q \in [Slots -> Stamps], NEW s, NEW ok, NEW good, NEW x \in Slots
  PROVE  CacheOnReply(op, q, s, ok, good)[x] \in {q[x], s, Nothing}
<1>1. ClearObserved(q)[x] \in {q[x], Nothing}
  BY DEF ClearObserved
<1> QED BY <1>1 DEF CacheOnReply, Observed, Slots

\* The observations a step drops do no harm.
LEMMA EmptyCache ==
  ASSUME \A s \in Slots : cache'[s] = Nothing
  PROVE  CacheIsView' /\ NoStaleObservation'
BY DEF CacheIsView, NoStaleObservation

\* The session gives up or goes on as it was; what is retained is at most what was.
LEMMA KeptCache ==
  ASSUME CacheIsView, NoStaleObservation, UNCHANGED <<conn, generation, wire, bridge>>,
         \A s \in Slots : cache'[s] \in {cache[s], Nothing},
         view'.live => view' = view,
         \A h \in Gens : calls'[h].stage = "idle" \/ (calls[h].stage # "idle" /\ calls'[h].req = calls[h].req)
  PROVE  CacheIsView' /\ NoStaleObservation'
<1>1. \A s \in Slots : cache'[s] # Nothing => cache[s] # Nothing /\ cache'[s] = cache[s]
  OBVIOUS
<1>2. NoStaleObservation'
  BY <1>1 DEF NoStaleObservation
<1>3. CacheIsView'
  BY <1>1 DEF CacheIsView
<1> QED BY <1>2, <1>3

\* A command that changes nothing may pass under what is retained.
LEMMA SendCache ==
  ASSUME SessionInv, CacheIsView, NoStaleObservation, NEW op, NEW q \in [Slots -> Stamps],
         \A s \in Slots : q[s] \in {cache[s], Nothing}, ready, Send(op, q), UNCHANGED <<conn, bridge>>
  PROVE  CacheIsView' /\ NoStaleObservation'
<1>0. TypeOK
  BY DEF SessionInv
<1> DEFINE req == [kind |-> "command", conn |-> conn, seq |-> view.seq + 1,
                   rev |-> view.rev, op |-> op]
<1>1. Exchange(req) /\ ~view'.live /\ view.live /\ cache' = CacheOnSend(op, q)
  BY DEF Send, ready, NoView
<1>2. req.kind = "command" /\ req.rev = view.rev /\ req.op = op /\ req.conn = conn
  OBVIOUS
<1> HIDE DEF req
<1>3. /\ generation + 1 \in Gens /\ generation' = generation + 1
      /\ \A h \in Gens : calls'[h] = IF h = generation + 1
                                     THEN [stage |-> "wire", req |-> req, answer |-> NoAnswer]
                                     ELSE calls[h]
      /\ \A h \in Gens : wire'[h] = IF h = generation + 1 THEN req ELSE wire[h]
  BY <1>0, <1>1, StartEffect
<1>4. \A s \in Slots : cache'[s] # Nothing => cache[s] # Nothing /\ cache'[s] = cache[s] /\ op \notin Changing
  <2> SUFFICES ASSUME NEW s \in Slots, cache'[s] # Nothing
               PROVE  cache[s] # Nothing /\ cache'[s] = cache[s] /\ op \notin Changing
    OBVIOUS
  <2>1. cache'[s] \in {q[s], Nothing} /\ op \notin Changing
    BY <1>1, CacheOnSendKeeps
  <2> QED BY <2>1
<1>5. NoStaleObservation'
  BY <1>4 DEF NoStaleObservation
<1>6. CacheIsView'
  <2> SUFFICES ASSUME NEW s \in Slots, cache'[s] # Nothing
               PROVE  /\ conn' # 0 /\ cache'[s].conn = conn'
                      /\ view'.live => cache'[s].rev = view'.rev
                      /\ \A g \in Gens : g = generation' /\ calls'[g].stage # "idle" =>
                           /\ calls'[g].req.kind = "command" /\ calls'[g].req.op \notin Changing
                           /\ cache'[s].rev = calls'[g].req.rev
                      /\ \A h \in Gens : wire'[h].conn = conn' =>
                           wire'[h].kind = "command" /\ wire'[h].op \notin Changing
    BY DEF CacheIsView
  <2>1. cache[s] # Nothing /\ cache'[s] = cache[s] /\ op \notin Changing /\ conn' = conn
    BY <1>4
  <2>2. cache[s].rev = view.rev /\ conn # 0 /\ cache[s].conn = conn
    BY <1>1, <2>1 DEF CacheIsView
  <2>3. \A g \in Gens : g = generation' => calls'[g].req = req
    BY <1>3
  <2>4. \A h \in Gens : wire'[h].conn = conn => wire'[h].kind = "command" /\ wire'[h].op \notin Changing
    BY <1>2, <1>3, <2>1 DEF CacheIsView
  <2> QED BY <1>1, <1>2, <2>1, <2>2, <2>3, <2>4
<1> QED BY <1>5, <1>6

\* The replies that are accepted show the view, and what they do not replace is still of it.
LEMMA ReplyCache ==
  ASSUME AllInv, WireInv', NEW g \in Gens, AcceptReply(g)
  PROVE  CacheIsView' /\ NoStaleObservation'
<1> USE DEF AllInv
<1>0. TypeOK
  BY DEF SessionInv
<1> DEFINE op == calls[g].req.op
           a == calls[g].answer
           s == [conn |-> conn, rev |-> a.rev]
<1>1. /\ calls[g].stage = "answered" /\ calls[g].req.kind = "command" /\ g = generation
      /\ conn # 0 /\ UNCHANGED <<conn, generation, wire, bridge>>
      /\ view'.live /\ view'.rev = a.rev
      /\ calls' = [calls EXCEPT ![g] = NoCall]
      /\ a.rev \in RevisionAfter(op, a.ok, calls[g].req.rev)
  BY DEF AcceptReply, Answered, Current, SessionInv, CallsAreAddressed, Live, Decodes
<1>2. PICK good \in BOOLEAN : cache' = CacheOnReply(op, cache, s, a.ok, good)
  BY DEF AcceptReply
<1>3. \A x \in Slots : cache'[x] # Nothing => cache'[x].conn = conn /\ cache'[x].rev = a.rev
  <2> SUFFICES ASSUME NEW x \in Slots, cache'[x] # Nothing
               PROVE  cache'[x].conn = conn /\ cache'[x].rev = a.rev
    OBVIOUS
  <2>1. cache'[x] \in {cache[x], s, Nothing}
    BY <1>0, <1>2, CacheOnReplyKeeps DEF TypeOK
  <2>2. CASE cache'[x] = cache[x]
    <3>1. cache[x].conn = conn /\ op \notin Changing /\ cache[x].rev = calls[g].req.rev
      BY <1>1, <2>2 DEF ObservationInv, CacheIsView
    <3>2. a.rev = calls[g].req.rev
      BY <1>1, <3>1 DEF RevisionAfter, Changing
    <3> QED BY <2>2, <3>1, <3>2
  <2>3. CASE cache'[x] = s
    BY <2>3
  <2> QED BY <2>1, <2>2, <2>3
<1>4. \A h \in Gens : h = generation' => calls'[h].stage = "idle"
  BY <1>0, <1>1 DEF TypeOK, NoCall
<1>5. \A h \in Gens : wire'[h].conn # conn'
  BY <1>1 DEF WireInv, OneOnTheWay
<1> HIDE DEF a
<1>6. CacheIsView'
  BY <1>1, <1>3, <1>4, <1>5 DEF CacheIsView
<1>7. NoStaleObservation'
  BY <1>1, <1>3 DEF NoStaleObservation, WireInv, ViewMirrorsBridge
<1> QED BY <1>6, <1>7

\* What a collector publishes is of the view.
LEMMA ReturnCache ==
  ASSUME AllInv, NEW l \in Gens, JobReturn(l)
  PROVE  CacheIsView' /\ NoStaleObservation'
<1> USE DEF AllInv
<1>0. TypeOK
  BY DEF SessionInv
<1>1. /\ jobs[l].kind # "none" /\ jobs[l].wait = 0 /\ JobCurrent(l) /\ jobs[l].next \in {"done", "skip"}
      /\ UNCHANGED <<conn, view, generation, calls, wire, bridge>>
  BY DEF JobReturn, MayReturn, Running
<1>2. CASE cache' = cache \/ \E s, t \in Slots : cache' = [cache EXCEPT ![s] = cache[t]]
  <2>1. \A s \in Slots : \E t \in Slots : cache'[s] = cache[t]
    BY <1>0, <1>2 DEF TypeOK
  <2> QED BY <1>1, <2>1 DEF ObservationInv, CacheIsView, NoStaleObservation
<1>3. ASSUME NEW t \in Slots, cache' = [cache EXCEPT ![t] = [conn |-> conn, rev |-> view.rev]], ready
      PROVE  CacheIsView' /\ NoStaleObservation'
  <2>1. \A s \in Slots : cache'[s] = cache[s] \/ (cache'[s].conn = conn /\ cache'[s].rev = view.rev)
    BY <1>0, <1>3 DEF TypeOK
  <2>2. conn # 0 /\ view.live
    BY <1>3 DEF ready
  <2>3. (\A h \in Gens : calls[h].stage = "idle") /\ \A h \in Gens : wire[h].conn # conn
    BY <2>2 DEF DueInv, DueIsAlone, WireInv, OneOnTheWay
  <2>4. CacheIsView'
    BY <1>1, <2>1, <2>2, <2>3 DEF ObservationInv, CacheIsView
  <2>5. NoStaleObservation'
    BY <1>1, <2>1, <2>2 DEF ObservationInv, NoStaleObservation, WireInv, ViewMirrorsBridge
  <2> QED BY <2>4, <2>5
<1>4. CASE jobs[l].next = "skip"
  BY <1>2, <1>4 DEF JobReturn
<1>5. CASE jobs[l].next # "skip" /\ jobs[l].kind = "query"
  <2>1. cache' = [cache EXCEPT !["collection"] = cache["checkpoint"]]
    BY <1>1, <1>5 DEF JobReturn, JobCurrent
  <2> QED BY <1>2, <2>1 DEF Slots
<1>6. CASE jobs[l].next # "skip" /\ jobs[l].kind = "observed"
  <2>1. cache' = [cache EXCEPT !["observed"] = [conn |-> conn, rev |-> view.rev]]
    BY <1>6 DEF JobReturn
  <2>2. lease = l
    BY <1>1, <1>6 DEF JobCurrent
  <2>3. ready
    BY <1>1, <2>2, LeaseCases, BoundsAssumption DEF Going, Gens
  <2> QED BY <1>3, <2>1, <2>3 DEF Slots
<1>7. CASE jobs[l].next # "skip" /\ jobs[l].kind = "target"
  <2>1. cache' = [cache EXCEPT !["observed"] = jobs[l].anchor]
    BY <1>7 DEF JobReturn
  <2>2. ready /\ jobs[l].anchor = [conn |-> conn, rev |-> view.rev]
    BY <1>1, <1>7 DEF JobCurrent, ready, ObservationInv, TargetAnchored
  <2> QED BY <1>3, <2>1, <2>2 DEF Slots
<1> QED BY <1>0, <1>1, <1>4, <1>5, <1>6, <1>7 DEF TypeOK, Jobs, JobKinds

\* The bridge serves no request that changes what was observed.
LEMMA EnvironmentCache ==
  ASSUME AllInv, Environment
  PROVE  CacheIsView' /\ NoStaleObservation'
<1> USE DEF AllInv
<1>0. TypeOK
  BY DEF SessionInv
<1>1. UNCHANGED <<conn, view, generation, cache>>
  BY DEF Environment, ServeConnect, ServeCommand, ServeDisconnect, BridgeStops, client
<1>2. \A h \in Gens : calls'[h].stage = calls[h].stage /\ calls'[h].req = calls[h].req
  BY <1>0, AnswerKeepsCalls
<1>3. \A h \in Gens : wire'[h] = wire[h] \/ wire'[h].conn = 0
  <2>1. ASSUME NEW g \in Gens, NEW a, Answer(g, a)
        PROVE  \A h \in Gens : wire'[h] = wire[h] \/ wire'[h].conn = 0
    BY <2>1 DEF Answer, NoRequest
  <2>2. ASSUME NEW g \in Gens, ServeConnect(g) PROVE \E a : Answer(g, a)
    BY <2>2 DEF ServeConnect
  <2>3. ASSUME NEW g \in Gens, ServeCommand(g) PROVE \E a : Answer(g, a)
    BY <2>3 DEF ServeCommand
  <2>4. ASSUME NEW g \in Gens, ServeDisconnect(g) PROVE \E a : Answer(g, a)
    BY <2>4 DEF ServeDisconnect
  <2>5. CASE BridgeStops
    BY <2>5 DEF BridgeStops
  <2> QED BY <2>1, <2>2, <2>3, <2>4, <2>5 DEF Environment
<1>4. CacheIsView'
  BY <1>1, <1>2, <1>3 DEF ObservationInv, CacheIsView
<1>5. ASSUME NEW s \in Slots, cache[s] # Nothing, bridge'.conn = conn PROVE cache[s].rev = bridge'.rev
  <2>1. conn # 0
    BY <1>5 DEF ObservationInv, CacheIsView
  <2>2. bridge.conn = conn => cache[s].rev = bridge.rev
    BY <1>5 DEF ObservationInv, NoStaleObservation
  <2>3. ASSUME NEW g \in Gens, ServeConnect(g) PROVE cache[s].rev = bridge'.rev
    <3>1. wire[g].conn # conn
      BY <1>5, <2>3 DEF ServeConnect, ObservationInv, CacheIsView
    <3>2. bridge'.conn = wire[g].conn \/ bridge' = bridge
      BY <2>3 DEF ServeConnect, Opened
    <3> QED BY <1>5, <2>2, <3>1, <3>2
  <2>4. ASSUME NEW g \in Gens, ServeCommand(g) PROVE cache[s].rev = bridge'.rev
    <3>1. CASE bridge' = Closed(NoAnswer) \/ bridge' = bridge
      BY <1>5, <2>1, <2>2, <3>1 DEF Closed
    <3>2. ASSUME NEW ok \in BOOLEAN, NEW rev \in RevisionAfter(wire[g].op, ok, wire[g].rev), Expected(wire[g]),
                 bridge' = Opened(wire[g].conn, wire[g].seq, rev, Reply(wire[g], rev, ok))
          PROVE  cache[s].rev = bridge'.rev
      <4>1. wire[g].conn = conn /\ bridge'.rev = rev
        BY <1>5, <3>2 DEF Opened
      <4>2. wire[g].op \notin Changing
        BY <1>5, <4>1 DEF ObservationInv, CacheIsView
      <4>3. rev = wire[g].rev
        BY <4>2 DEF RevisionAfter, Changing
      <4> QED BY <2>2, <3>2, <4>1, <4>3 DEF Expected
    <3> QED BY <2>4, <3>1, <3>2 DEF ServeCommand
  <2>5. ASSUME NEW g \in Gens, ServeDisconnect(g) PROVE cache[s].rev = bridge'.rev
    <3>1. bridge'.conn = 0 \/ (bridge'.conn = bridge.conn /\ bridge'.rev = bridge.rev)
      BY <1>0, <2>5 DEF ServeDisconnect, Closed, TypeOK
    <3> QED BY <1>5, <2>1, <2>2, <3>1
  <2>6. CASE BridgeStops
    BY <1>5, <2>1, <2>6 DEF BridgeStops
  <2> QED BY <2>3, <2>4, <2>5, <2>6 DEF Environment
<1>6. NoStaleObservation'
  BY <1>1, <1>5 DEF ObservationInv, NoStaleObservation
<1> QED BY <1>4, <1>6

\* What is retained is what the bridge would show, after every step.
LEMMA CacheInductive == AllInv /\ WireInv' /\ [Next]_vars => CacheIsView' /\ NoStaleObservation'
<1> SUFFICES ASSUME AllInv, WireInv', [Next]_vars PROVE CacheIsView' /\ NoStaleObservation'
  OBVIOUS
<1> USE DEF AllInv
<1>0. TypeOK /\ CacheIsView /\ NoStaleObservation /\ cache \in [Slots -> Stamps]
  BY DEF SessionInv, ObservationInv, TypeOK
<1>a. \A s \in Slots : NoCache[s] = Nothing
  BY DEF NoCache
<1>1. CASE User
  <2>1. CASE Connect \/ Invalidate \/ Disconnect
             \/ \E kind \in {"query", "observed"} : CollectBadSelection(kind)
    <3>1. cache' = NoCache
      BY <2>1 DEF Connect, Invalidate, Disconnect, CollectBadSelection
    <3> QED BY <1>a, <3>1, EmptyCache
  <2>2. ASSUME NEW op \in UserOps, Command(op) PROVE CacheIsView' /\ NoStaleObservation'
    BY <1>0, <2>2, SendCache DEF Command, CanSend
  <2>3. ASSUME NEW sel, CollectQueries(sel) PROVE CacheIsView' /\ NoStaleObservation'
    <3> DEFINE q == [cache EXCEPT !["collection"] = Nothing, !["stack"] = Nothing, !["inventory"] = Nothing]
    <3>1. q \in [Slots -> Stamps] /\ \A s \in Slots : q[s] \in {cache[s], Nothing}
      BY <1>0, ConstantTypes
    <3>2. Send("stack", q) /\ ready /\ UNCHANGED <<conn, bridge>>
      BY <2>3 DEF CollectQueries, CanCollect, StartJob
    <3> HIDE DEF q
    <3> QED BY <1>0, <3>1, <3>2, SendCache
  <2>4. ASSUME NEW sel, CollectObserved(sel) PROVE CacheIsView' /\ NoStaleObservation'
    <3> DEFINE q == ClearObserved([cache EXCEPT !["collection"] = Nothing])
    <3>1. q \in [Slots -> Stamps] /\ \A s \in Slots : q[s] \in {cache[s], Nothing}
      BY <1>0, ConstantTypes DEF ClearObserved
    <3>2. Send("state", q) /\ ready /\ UNCHANGED <<conn, bridge>>
      BY <2>4 DEF CollectObserved, CanCollect, StartJob
    <3> HIDE DEF q
    <3> QED BY <1>0, <3>1, <3>2, SendCache
  <2>5. CASE InspectDeclaredTarget
    BY <1>0, <2>5, SendCache DEF InspectDeclaredTarget, CanSend, StartJob
  <2> QED BY <1>1, <2>1, <2>2, <2>3, <2>4, <2>5 DEF User
<1>2. ASSUME NEW g \in Gens, calls[g].stage # "idle", NEW closed, Fail(g, closed)
      PROVE  CacheIsView' /\ NoStaleObservation'
  <2>1. CASE g = generation
    BY <1>a, <1>2, <2>1, EmptyCache DEF Fail
  <2>2. CASE g # generation
    <3>1. UNCHANGED <<conn, view, generation, cache, wire, bridge>>
      BY <1>2, <2>2 DEF Fail
    <3>2. \A h \in Gens : calls'[h].stage = "idle" \/ calls'[h] = calls[h]
      BY <1>0, <1>2 DEF Fail, NoCall, TypeOK
    <3> QED BY <1>0, <3>1, <3>2, KeptCache
  <2> QED BY <2>1, <2>2
<1>3. ASSUME NEW g \in Gens, Settle(g) PROVE CacheIsView' /\ NoStaleObservation'
  <2>1. CASE AcceptReply(g)
    BY <2>1, ReplyCache
  <2>2. CASE RejectReply(g)
    BY <1>a, <2>2, EmptyCache DEF RejectReply
  <2>3. CASE RejectConnect(g) \/ RejectDisconnect(g)
    <3>1. UNCHANGED <<conn, generation, cache, wire, bridge>> /\ view' \in {view, NoView}
      BY <2>3 DEF RejectConnect, RejectDisconnect
    <3>2. \A h \in Gens : calls'[h].stage = "idle" \/ calls'[h] = calls[h]
      BY <1>0, <2>3 DEF RejectConnect, RejectDisconnect, NoCall, TypeOK
    <3>3. view'.live => view' = view
      BY <3>1 DEF NoView
    <3> QED BY <1>0, <3>1, <3>2, <3>3, KeptCache
  <2>4. CASE AcceptConnect(g) \/ AcceptDisconnect(g)
    <3>1. g = generation /\ calls[g].stage # "idle" /\ calls[g].req.kind # "command" /\ cache' = cache
      BY <2>4 DEF AcceptConnect, AcceptDisconnect, Answered, Current
    <3> QED BY <1>0, <3>1, EmptyCache DEF CacheIsView
  <2> QED BY <1>3, <2>1, <2>2, <2>3, <2>4 DEF Settle
<1>4. ASSUME NEW l \in Gens, JobStep(l) PROVE CacheIsView' /\ NoStaleObservation'
  <2>1. CASE JobSend(l)
    BY <1>0, <2>1, SendCache DEF JobSend, MaySend, CanSend
  <2>2. CASE JobFail(l)
    BY <1>a, <2>2, EmptyCache DEF JobFail
  <2> QED BY <1>4, <2>1, <2>2, ReturnCache DEF JobStep
<1>5. CASE Microtask
  BY <1>2, <1>3, <1>4, <1>5 DEF Microtask, Unwind
<1>6. CASE Task
  <2>1. ASSUME NEW g \in Gens, Timeout(g) \/ Deliver(g) PROVE CacheIsView' /\ NoStaleObservation'
    <3>1. UNCHANGED <<conn, view, generation, cache, wire, bridge>> /\ calls[g].stage = "wire"
      BY <2>1 DEF Timeout, Deliver, client
    <3>2. \A h \in Gens : calls'[h].req = calls[h].req /\ (h # g => calls'[h].stage = calls[h].stage)
      <4>1. CASE Timeout(g)
        BY <1>0, <4>1 DEF Timeout, TypeOK, Calls
      <4>2. CASE Deliver(g)
        <5>1. PICK a : calls' = [calls EXCEPT ![g].stage = "answered", ![g].answer = a]
          BY <4>2 DEF Deliver
        <5> QED BY <1>0, <5>1 DEF TypeOK, Calls
      <4> QED BY <2>1, <4>1, <4>2
    <3> QED BY <1>0, <3>1, <3>2, KeptCache
  <2>2. ASSUME NEW g \in Gens, DeliverFailure(g) PROVE CacheIsView' /\ NoStaleObservation'
    BY <1>2, <2>2 DEF DeliverFailure
  <2> QED BY <1>6, <2>1, <2>2 DEF Task
<1>7. CASE UNCHANGED vars
  BY <1>0, <1>7, KeptCache DEF vars
<1> QED BY <1>1, <1>5, <1>6, <1>7, EnvironmentCache DEF Next

\* A call of inspectDeclaredTarget that the step does not concern stays anchored.
LEMMA KeptTarget ==
  ASSUME TargetAnchored,
         \A l \in Gens : jobs'[l].kind = "target" => jobs'[l] = jobs[l],
         \A h \in Gens : \/ calls'[h].req = calls[h].req
                         \/ \A l \in Gens : jobs'[l].kind = "target" => jobs'[l].wait # h,
         \/ view'.live => view' = view /\ conn' = conn
         \/ \A l \in Gens : jobs'[l].kind = "target" => jobs'[l].wait # 0
  PROVE  TargetAnchored'
<1> SUFFICES ASSUME NEW l \in Gens, jobs'[l].kind = "target"
             PROVE  /\ \A g \in Gens : jobs'[l].wait = g =>
                         /\ calls'[g].req.op = "target" /\ calls'[g].req.seq = jobs'[l].seq
                         /\ calls'[g].req.conn = jobs'[l].conn
                         /\ jobs'[l].anchor = [conn |-> jobs'[l].conn, rev |-> calls'[g].req.rev]
                    /\ jobs'[l].wait = 0 /\ conn' = jobs'[l].conn /\ view'.live /\ view'.seq = jobs'[l].seq =>
                         jobs'[l].anchor = [conn |-> conn', rev |-> view'.rev]
  BY DEF TargetAnchored
<1>1. jobs'[l] = jobs[l]
  OBVIOUS
<1>2. \A g \in Gens : jobs[l].wait = g => calls'[g].req = calls[g].req
  BY <1>1
<1> QED BY <1>1, <1>2 DEF TargetAnchored

\* A command or a collector that starts leaves inspectDeclaredTarget alone, or is a call of it.
LEMMA StartTarget ==
  ASSUME AllInv, NEW req, Exchange(req), ~view'.live, 
         \/ UNCHANGED jobs
         \/ \E l \in Gens : \E j :
              /\ jobs' = [jobs EXCEPT ![l] = j]
              /\ j.kind = "target" =>
                   /\ j.wait = generation + 1
                   /\ req.op = "target" /\ req.seq = j.seq /\ req.conn = j.conn
                   /\ j.anchor = [conn |-> j.conn, rev |-> req.rev]
  PROVE  TargetAnchored'
<1> USE DEF AllInv
<1>0. TypeOK
  BY DEF SessionInv
<1>1. /\ generation + 1 \in Gens /\ generation' = generation + 1
      /\ \A h \in Gens : calls'[h] = IF h = generation + 1
                                     THEN [stage |-> "wire", req |-> req, answer |-> NoAnswer]
                                     ELSE calls[h]
  BY <1>0, StartEffect
<1>2. calls[generation + 1].stage = "idle" /\ generation + 1 # 0
  BY <1>0, <1>1, BoundsAssumption DEF SessionInv, CallsAreAddressed, TypeOK, Gens
<1>3. \A l \in Gens : jobs[l].kind # "none" => jobs[l].wait # generation + 1
  BY <1>1, <1>2 DEF DueInv, JobsAwait
<1>4. \A l \in Gens, h \in Gens : jobs[l].kind = "target" /\ jobs[l].wait = h => calls'[h].req = calls[h].req
  BY <1>1, <1>3
<1>5. calls'[generation + 1].req = req
  BY <1>1
<1>6. CASE UNCHANGED jobs
  BY <1>4, <1>6 DEF ObservationInv, TargetAnchored
<1>7. ASSUME NEW l \in Gens, NEW j, jobs' = [jobs EXCEPT ![l] = j],
             j.kind = "target" =>
               /\ j.wait = generation + 1
               /\ req.op = "target" /\ req.seq = j.seq /\ req.conn = j.conn
               /\ j.anchor = [conn |-> j.conn, rev |-> req.rev]
      PROVE  TargetAnchored'
  <2>1. \A k \in Gens : jobs'[k] = IF k = l THEN j ELSE jobs[k]
    BY <1>0, <1>7 DEF TypeOK
  <2>2. ASSUME NEW k \in Gens, NEW g \in Gens, jobs'[k].kind = "target", jobs'[k].wait = g
        PROVE  /\ calls'[g].req.op = "target" /\ calls'[g].req.seq = jobs'[k].seq
               /\ calls'[g].req.conn = jobs'[k].conn
               /\ jobs'[k].anchor = [conn |-> jobs'[k].conn, rev |-> calls'[g].req.rev]
    <3>1. CASE k = l
      BY <1>5, <1>7, <2>1, <2>2, <3>1
    <3>2. CASE k # l
      <4>1. jobs'[k] = jobs[k]
        BY <2>1, <3>2
      <4>2. calls'[g].req = calls[g].req
        BY <1>4, <2>2, <4>1
      <4> QED BY <2>2, <4>1, <4>2 DEF ObservationInv, TargetAnchored
    <3> QED BY <3>1, <3>2
  <2> QED BY <2>2 DEF TargetAnchored
<1> QED BY <1>6, <1>7

\* The end of an exchange with no reply ends the call of inspectDeclaredTarget that awaits it.
LEMMA EndTarget ==
  ASSUME AllInv, NEW g \in Gens, calls[g].stage # "idle", calls' = [calls EXCEPT ![g] = NoCall],
         jobs' = Rejected(jobs, g) \/ (UNCHANGED jobs /\ Awaiting(g) = {}),
         \/ view'.live => view' = view /\ conn' = conn
         \/ \A l \in Gens : ~Running(l)
  PROVE  TargetAnchored'
<1> USE DEF AllInv
<1>0. TypeOK
  BY DEF SessionInv
<1>1. \A h \in Gens : h # g => calls'[h] = calls[h]
  BY <1>0 DEF TypeOK
<1>2. \A l \in Gens : jobs'[l].kind = "target" => jobs'[l] = jobs[l] /\ jobs[l].wait # g
  <2> SUFFICES ASSUME NEW l \in Gens, jobs'[l].kind = "target"
               PROVE  jobs'[l] = jobs[l] /\ jobs[l].wait # g
    OBVIOUS
  <2>1. CASE UNCHANGED jobs /\ Awaiting(g) = {}
    BY <2>1 DEF Awaiting
  <2>2. CASE jobs' = Rejected(jobs, g)
    <3>1. jobs'[l] = Rejected(jobs, g)[l]
      BY <2>2
    <3>2. CASE jobs[l].kind # "none" /\ jobs[l].wait = g
      BY <1>0, <3>1, <3>2, RejectedJobs
    <3>3. CASE ~(jobs[l].kind # "none" /\ jobs[l].wait = g)
      <4>1. jobs'[l] = jobs[l]
        BY <1>0, <3>1, <3>3, RejectedJobs
      <4> QED BY <3>3, <4>1
    <3> QED BY <3>2, <3>3
  <2> QED BY <2>1, <2>2
<1>3. \/ view'.live => view' = view /\ conn' = conn
      \/ \A l \in Gens : jobs'[l].kind = "target" => jobs'[l].wait # 0
  BY <1>2 DEF Running
<1> QED BY <1>1, <1>2, <1>3, KeptTarget DEF ObservationInv

\* The reply to inspectDeclaredTarget shows the view it was called on.
LEMMA ReplyTarget ==
  ASSUME AllInv, NEW g \in Gens, AcceptReply(g)
  PROVE  TargetAnchored'
<1> USE DEF AllInv
<1>0. TypeOK /\ TargetAnchored
  BY DEF SessionInv, ObservationInv
<1>1. /\ calls[g].stage = "answered" /\ g = generation
      /\ calls' = [calls EXCEPT ![g] = NoCall] /\ UNCHANGED <<conn, generation>>
      /\ view'.rev = calls[g].answer.rev /\ conn = calls[g].req.conn
      /\ calls[g].answer.rev \in RevisionAfter(calls[g].req.op, calls[g].answer.ok, calls[g].req.rev)
  BY DEF AcceptReply, Answered, Current, Live, Decodes
<1>2. \A h \in Gens : h # g => calls'[h] = calls[h]
  BY <1>0, <1>1 DEF TypeOK
<1>3. \A l \in Gens : ~Running(l)
  BY <1>1 DEF DueInv, DueIsAlone
<1>4. CASE UNCHANGED jobs /\ Awaiting(g) = {}
  BY <1>1, <1>3, <1>4, EndTarget
<1>5. ASSUME NEW l \in Awaiting(g), NEW n, jobs' = Resumed(jobs, g, n)
      PROVE  TargetAnchored'
  <2>0. l \in Gens /\ jobs[l].kind # "none" /\ jobs[l].wait = g
    BY DEF Awaiting
  <2>1. /\ jobs'[l].kind = jobs[l].kind /\ jobs'[l].conn = jobs[l].conn /\ jobs'[l].seq = jobs[l].seq
        /\ jobs'[l].anchor = jobs[l].anchor /\ jobs'[l].wait = 0
    BY <1>0, <1>5, <2>0, ResumedJob
  <2>2. ASSUME NEW k \in Gens, k # l PROVE jobs'[k] = jobs[k] /\ (jobs[k].kind = "none" \/ jobs[k].wait \notin {0, g})
    <3>1. ~(jobs[k].kind # "none" /\ jobs[k].wait = g)
      BY <2>0, <2>2 DEF DueInv, JobsAwait
    <3> QED BY <1>3, <1>5, <3>1, ResumedSame DEF Running
  <2>3. jobs[l].kind = "target" => jobs[l].anchor = [conn |-> conn, rev |-> view'.rev]
    <3> SUFFICES ASSUME jobs[l].kind = "target" PROVE jobs[l].anchor = [conn |-> conn, rev |-> view'.rev]
      OBVIOUS
    <3>1. /\ calls[g].req.op = "target" /\ calls[g].req.conn = jobs[l].conn
          /\ jobs[l].anchor = [conn |-> jobs[l].conn, rev |-> calls[g].req.rev]
      BY <1>0, <2>0 DEF TargetAnchored
    <3>2. calls[g].answer.rev = calls[g].req.rev
      BY <1>1, <3>1 DEF RevisionAfter, Moves, Edits
    <3> QED BY <1>1, <3>1, <3>2
  <2>4. ASSUME NEW k \in Gens, jobs'[k].kind = "target"
        PROVE  /\ \A h \in Gens : jobs'[k].wait = h =>
                    /\ calls'[h].req.op = "target" /\ calls'[h].req.seq = jobs'[k].seq
                    /\ calls'[h].req.conn = jobs'[k].conn
                    /\ jobs'[k].anchor = [conn |-> jobs'[k].conn, rev |-> calls'[h].req.rev]
               /\ jobs'[k].wait = 0 => jobs'[k].anchor = [conn |-> conn, rev |-> view'.rev]
    <3>1. CASE k = l
      BY <2>1, <2>3, <2>4, <3>1, BoundsAssumption DEF Gens
    <3>2. CASE k # l
      <4>1. jobs'[k] = jobs[k] /\ jobs[k].wait \notin {0, g}
        BY <2>2, <2>4, <3>2
      <4>2. \A h \in Gens : jobs[k].wait = h => calls'[h] = calls[h]
        BY <1>2, <4>1
      <4> QED BY <1>0, <2>4, <4>1, <4>2 DEF TargetAnchored
    <3> QED BY <3>1, <3>2
  <2> QED BY <1>1, <2>4 DEF TargetAnchored
<1>6. \/ UNCHANGED jobs /\ Awaiting(g) = {}
      \/ \E l \in Awaiting(g) : \E n : jobs' = Resumed(jobs, g, n)
  BY DEF AcceptReply
<1> QED BY <1>4, <1>5, <1>6

\* Calls of inspectDeclaredTarget stay anchored, whatever happens around them.
LEMMA TargetInductive == AllInv /\ [Next]_vars => TargetAnchored'
<1> SUFFICES ASSUME AllInv, [Next]_vars PROVE TargetAnchored'
  OBVIOUS
<1> USE DEF AllInv
<1>0. TypeOK /\ TargetAnchored /\ CacheIsView
  BY DEF SessionInv, ObservationInv
<1>1. CASE Connect
  BY <1>1, StartTarget DEF Connect, NoView
<1>2. ASSUME NEW op \in UserOps, Command(op) PROVE TargetAnchored'
  BY <1>2, StartTarget DEF Command, Send, NoView
<1>3. ASSUME NEW kind, NEW sel, NEW q, NEW op, NEW anchor, StartJob(kind, sel, q, op, anchor),
             kind = "target" => op = "target" /\ anchor = [conn |-> conn, rev |-> view.rev]
      PROVE  TargetAnchored'
  <2> DEFINE req == [kind |-> "command", conn |-> conn, seq |-> view.seq + 1,
                     rev |-> view.rev, op |-> op]
             job == [kind |-> kind, conn |-> conn, anchor |-> anchor, sel |-> sel,
                     seq |-> view.seq + 1, wait |-> generation + 1, next |-> "none"]
  <2>1. Exchange(req) /\ ~view'.live /\ jobs' = [jobs EXCEPT ![generation + 1] = job]
    BY <1>3 DEF StartJob, Send, NoView
  <2>2. generation + 1 \in Gens
    BY <1>0, <2>1, StartEffect
  <2>3. job.kind = "target" =>
          /\ job.wait = generation + 1
          /\ req.op = "target" /\ req.seq = job.seq /\ req.conn = job.conn
          /\ job.anchor = [conn |-> job.conn, rev |-> req.rev]
    BY <1>3
  <2> HIDE DEF req, job
  <2> QED BY <2>1, <2>2, <2>3, StartTarget
<1>4. ASSUME NEW sel \in BOOLEAN, CollectQueries(sel) \/ CollectObserved(sel) PROVE TargetAnchored'
  BY <1>3, <1>4 DEF CollectQueries, CollectObserved
<1>5. CASE InspectDeclaredTarget
  <2>1. cache["observed"] = [conn |-> conn, rev |-> view.rev]
    <3>1. cache["observed"] # Nothing /\ view.live
      BY <1>5 DEF InspectDeclaredTarget, CanSend, ready
    <3>2. cache["observed"].conn = conn /\ cache["observed"].rev = view.rev /\ cache["observed"] \in Stamps
      BY <1>0, <3>1 DEF CacheIsView, TypeOK, Slots
    <3> QED BY <3>2 DEF Stamps
  <2> QED BY <1>3, <1>5, <2>1 DEF InspectDeclaredTarget
<1>6. CASE Invalidate
  <2>1. calls' = Aborted(calls) /\ ~view'.live /\ UNCHANGED jobs
    BY <1>6 DEF Invalidate, NoView
  <2>2. \A h \in Gens : calls'[h].req = calls[h].req
    BY <1>0, <2>1, AbortedCalls
  <2> QED BY <1>0, <2>1, <2>2, KeptTarget
<1>7. CASE Disconnect
  <2>1. /\ generation' \in Gens /\ generation' = generation + 1 /\ ~view'.live /\ UNCHANGED jobs
        /\ \A h \in Gens : h # generation' => calls'[h] = Aborted(calls)[h]
    BY <1>0, <1>7, AbortedCalls, BoundsAssumption DEF Disconnect, TypeOK, Gens, NoView
  <2>2. calls[generation'].stage = "idle"
    BY <1>0, <2>1, BoundsAssumption DEF SessionInv, CallsAreAddressed, TypeOK, Gens
  <2>3. \A l \in Gens : jobs'[l].kind = "target" => jobs'[l].wait # generation'
    BY <2>1, <2>2 DEF DueInv, JobsAwait
  <2>4. \A h \in Gens : h # generation' => calls'[h].req = calls[h].req
    BY <1>0, <2>1, AbortedCalls
  <2> QED BY <1>0, <2>1, <2>3, <2>4, KeptTarget
<1>8. ASSUME NEW g \in Gens, NEW closed, calls[g].stage # "idle", Fail(g, closed) PROVE TargetAnchored'
  <2>1. view'.live => view' = view /\ conn' = conn
    BY <1>8 DEF Fail, NoView
  <2> QED BY <1>8, <2>1, EndTarget DEF Fail
<1>9. ASSUME NEW g \in Gens, Settle(g) PROVE TargetAnchored'
  <2>1. ASSUME Answered(g, "connect") \/ Answered(g, "disconnect") PROVE Awaiting(g) = {}
    BY <2>1 DEF DueInv, JobsAwait, Answered, Awaiting
  <2>2. CASE AcceptConnect(g)
    <3>1. \A l \in Gens : ~Running(l)
      BY <2>2 DEF AcceptConnect, Answered, Current, DueInv, DueIsAlone
    <3> QED BY <2>1, <2>2, <3>1, EndTarget DEF AcceptConnect, Answered
  <2>3. CASE RejectConnect(g)
    BY <2>1, <2>3, EndTarget DEF RejectConnect, Answered, NoView
  <2>4. CASE AcceptDisconnect(g)
    <3>1. ~view'.live
      BY <2>4 DEF AcceptDisconnect, Answered, DueInv, DueIsAlone
    <3> QED BY <2>1, <2>4, <3>1, EndTarget DEF AcceptDisconnect, Answered
  <2>5. CASE RejectDisconnect(g)
    BY <2>1, <2>5, EndTarget DEF RejectDisconnect, Answered, NoView
  <2>6. CASE RejectReply(g)
    BY <2>6, EndTarget DEF RejectReply, Answered, NoView
  <2> QED BY <1>9, <2>2, <2>3, <2>4, <2>5, <2>6, ReplyTarget DEF Settle
<1>10. ASSUME NEW l \in Gens, JobSend(l) PROVE TargetAnchored'
  <2> DEFINE req == [kind |-> "command", conn |-> conn, seq |-> view.seq + 1,
                     rev |-> view.rev, op |-> jobs[l].next]
             job == [jobs[l] EXCEPT !.wait = generation + 1, !.next = "none"]
  <2>1. Exchange(req) /\ ~view'.live /\ Running(l) /\ jobs[l].next \in Ops
    BY <1>10 DEF JobSend, MaySend, Send, NoView
  <2>2. jobs' = [jobs EXCEPT ![l].wait = generation + 1, ![l].next = "none"]
    BY <1>10 DEF JobSend
  <2>3. jobs' = [jobs EXCEPT ![l] = job]
    BY <1>0, <2>2 DEF TypeOK
  <2>4. jobs[l].kind # "target"
    BY <2>1 DEF LeaseInv, JobShapes, Running, Ops, Moves, Edits, Reads, Queries, Observed
  <2>5. job.kind = jobs[l].kind
    BY <1>0 DEF TypeOK, Jobs
  <2> HIDE DEF req, job
  <2> QED BY <2>1, <2>3, <2>4, <2>5, StartTarget
<1>11. ASSUME UNCHANGED <<conn, view>>, \A h \in Gens : calls'[h].req = calls[h].req,
              \A l \in Gens : jobs'[l].kind = "none" \/ jobs'[l] = jobs[l]
       PROVE  TargetAnchored'
  BY <1>0, <1>11, KeptTarget
<1>12. ASSUME NEW l \in Gens, JobReturn(l) \/ JobFail(l) PROVE TargetAnchored'
  <2>1. UNCHANGED <<conn, view, calls>>
    BY <1>12 DEF JobReturn, JobFail
  <2>2. \A k \in Gens : jobs'[k].kind = "none" \/ jobs'[k] = jobs[k]
    BY <1>0, <1>12 DEF JobReturn, JobFail, Release, NoJob, TypeOK
  <2> QED BY <1>11, <2>1, <2>2
<1>13. CASE \E kind \in {"query", "observed"} : CollectBadSelection(kind)
  BY <1>11, <1>13 DEF CollectBadSelection
<1>14. CASE Environment
  <2>1. UNCHANGED <<conn, view, jobs>>
    BY <1>14 DEF Environment, ServeConnect, ServeCommand, ServeDisconnect, BridgeStops, client
  <2> QED BY <1>0, <1>11, <1>14, <2>1, AnswerKeepsCalls
<1>15. CASE Task
  <2>1. ASSUME NEW g \in Gens, Timeout(g) PROVE TargetAnchored'
    <3>1. UNCHANGED <<conn, view, jobs>> /\ \A h \in Gens : calls'[h].req = calls[h].req
      BY <1>0, <2>1 DEF Timeout, TypeOK, Calls, client
    <3> QED BY <1>11, <3>1
  <2>2. ASSUME NEW g \in Gens, Deliver(g) PROVE TargetAnchored'
    <3>1. PICK a : calls' = [calls EXCEPT ![g].stage = "answered", ![g].answer = a]
      BY <2>2 DEF Deliver
    <3>2. UNCHANGED <<conn, view, jobs>> /\ \A h \in Gens : calls'[h].req = calls[h].req
      BY <1>0, <2>2, <3>1 DEF Deliver, TypeOK, Calls
    <3> QED BY <1>11, <3>2
  <2>3. ASSUME NEW g \in Gens, DeliverFailure(g) PROVE TargetAnchored'
    BY <1>8, <2>3 DEF DeliverFailure
  <2> QED BY <1>15, <2>1, <2>2, <2>3 DEF Task
<1>16. CASE UNCHANGED vars
  BY <1>11, <1>16 DEF vars
<1>17. CASE User
  BY <1>1, <1>2, <1>4, <1>5, <1>6, <1>7, <1>13, <1>17 DEF User
<1>18. CASE Microtask
  BY <1>8, <1>9, <1>10, <1>12, <1>18 DEF Microtask, Unwind, JobStep
<1> QED BY <1>14, <1>15, <1>16, <1>17, <1>18 DEF Next

\* What is retained, and what inspectDeclaredTarget will restore, is of the view.
LEMMA ObservationInductive == AllInv /\ WireInv' /\ [Next]_vars => ObservationInv'
BY CacheInductive, TargetInductive DEF ObservationInv

\* Nothing is retained at first.
LEMMA ObservationInitial == Init => ObservationInv
BY DEF Init, ObservationInv, CacheIsView, TargetAnchored, NoStaleObservation, NoCache, NoJob

\* Every retained observation is one the bridge would show.
THEOREM ObservationInvariant == Spec => []ObservationInv
<1>1. SessionInv /\ DueInv /\ WireInv /\ LeaseInv /\ ObservationInv /\ WireInv' /\ [Next]_vars => ObservationInv'
  BY ObservationInductive DEF AllInv
<1> QED
  BY <1>1, ObservationInitial, SessionInvariant, DueInvariant, WireInvariant, LeaseInvariant, PTL DEF Spec

(***************************************************************************)
(* A bridge that serves in order holds no session the client forgot.        *)
(***************************************************************************)
\* The client can learn that the bridge holds its session no more.
ToldClosed ==
  \/ bridge.echo.tag = "disconnected" /\ bridge.echo.conn = conn
  \/ \E g \in Gens :
       /\ g = generation /\ calls[g].stage \in {"wire", "answered"}
       /\ \/ calls[g].answer.tag = "error_closed"
          \/ calls[g].answer.tag = "disconnected" /\ calls[g].answer.conn = conn

\* What the client is told is so, and stays so: nothing on the way opens the session again.
ToldIsTrue == conn # 0 /\ ToldClosed =>
  bridge.conn = 0 /\ \A g \in Gens : wire[g].kind \notin Sessional

\* A session that was disconnected is neither offered nor waited for.
DisconnectedIsOver == conn # 0 /\ bridge.echo.tag = "disconnected" /\ bridge.echo.conn = conn =>
  ~view.live /\ \A g \in Gens : ~Awaited(g)

\* A disconnect follows every other request of its connection.
DisconnectIsLast == \A g, h \in Gens :
  wire[g].kind = "disconnect" /\ wire[h].kind \in Sessional /\ wire[g].conn = wire[h].conn => h < g

OrderInv ==
  /\ bridge.echo.tag \in {"none", "view", "disconnected"}
  /\ NoOrphanSession
  /\ InOrder =>
       /\ \A g \in Gens : wire[g].kind \in Sessional => wire[g].conn = conn
       /\ ToldIsTrue /\ DisconnectedIsOver /\ DisconnectIsLast

\* The session gives up what it waited for, learns nothing, or forgets a session that is closed.
LEMMA KeptOrder ==
  ASSUME OrderInv, UNCHANGED <<wire, bridge>>,
         conn' = conn \/ (conn' = 0 /\ conn # 0 /\ (InOrder => ToldClosed)),
         conn' # 0 /\ ToldClosed' => ToldClosed,
         view'.live => view' = view \/ \E g \in Gens : Awaited(g),
         \A g \in Gens : conn' # 0 /\ Awaited(g)' => Awaited(g)
  PROVE  OrderInv'
<1>1. NoOrphanSession'
  BY DEF OrderInv, NoOrphanSession, ToldIsTrue
<1>2. ASSUME InOrder
      PROVE  /\ \A g \in Gens : wire'[g].kind \in Sessional => wire'[g].conn = conn'
             /\ ToldIsTrue' /\ DisconnectedIsOver' /\ DisconnectIsLast'
  <2>1. \A g \in Gens : wire'[g].kind \in Sessional => wire'[g].conn = conn'
    BY <1>2 DEF OrderInv, ToldIsTrue
  <2>2. ToldIsTrue'
    BY <1>2 DEF OrderInv, ToldIsTrue
  <2>3. DisconnectedIsOver'
    BY <1>2 DEF OrderInv, DisconnectedIsOver
  <2>4. DisconnectIsLast'
    BY <1>2 DEF OrderInv, DisconnectIsLast
  <2> QED BY <2>1, <2>2, <2>3, <2>4
<1> QED BY <1>1, <1>2 DEF OrderInv

\* connect follows nothing: the connection is new to the bridge, which holds none.
LEMMA ConnectOrder == SessionInv /\ WireInv /\ OrderInv /\ Connect => OrderInv'
<1> SUFFICES ASSUME SessionInv, WireInv, OrderInv, Connect PROVE OrderInv'
  OBVIOUS
<1> USE DEF WireInv
<1>0. TypeOK
  BY DEF SessionInv
<1> DEFINE req == [kind |-> "connect", conn |-> opened + 1, seq |-> 0, rev |-> 0, op |-> "discover"]
<1>1. Exchange(req) /\ conn = 0 /\ conn' = opened + 1 /\ ~view'.live /\ UNCHANGED bridge
  BY DEF Connect, NoView
<1>2. req.kind = "connect" /\ req.conn = opened + 1
  OBVIOUS
<1> HIDE DEF req
<1>3. /\ generation + 1 \in Gens /\ generation' = generation + 1
      /\ \A h \in Gens : calls'[h] = IF h = generation + 1
                                     THEN [stage |-> "wire", req |-> req, answer |-> NoAnswer]
                                     ELSE calls[h]
      /\ \A h \in Gens : wire'[h] = IF h = generation + 1 THEN req ELSE wire[h]
  BY <1>0, <1>1, StartEffect
<1>4. /\ \A h \in Gens : wire[h].conn <= opened /\ wire[h].conn \in Nat
      /\ bridge.echo.conn <= opened /\ bridge.echo.conn \in Nat /\ opened \in Nat
  BY <1>0, BoundsAssumption DEF Known, TypeOK, Requests, Answers
<1>5. InOrder => bridge.conn = 0 /\ \A h \in Gens : wire[h].kind \notin Sessional
  BY <1>1 DEF OrderInv, NoOrphanSession, Known, Sessional
<1>6. calls'[generation'].answer.tag = "none" /\ bridge.echo.conn # conn'
  BY <1>1, <1>3, <1>4 DEF NoAnswer, Note
<1>7. ~ToldClosed'
  BY <1>1, <1>6 DEF ToldClosed
<1>8. DisconnectedIsOver' /\ ToldIsTrue'
  BY <1>1, <1>6, <1>7 DEF DisconnectedIsOver, ToldIsTrue
<1>9. InOrder => DisconnectIsLast'
  BY <1>2, <1>3, <1>4, <1>5 DEF DisconnectIsLast, Sessional
<1>10. InOrder => \A g \in Gens : wire'[g].kind \in Sessional => wire'[g].conn = conn'
  BY <1>1, <1>2, <1>3, <1>5
<1> QED BY <1>1, <1>5, <1>8, <1>9, <1>10 DEF OrderInv, NoOrphanSession

\* A command is sent on a live session, which was not disconnected.
LEMMA SendOrder ==
  ASSUME SessionInv, WireInv, OrderInv, NEW op, NEW q, ready, Send(op, q), UNCHANGED <<conn, bridge>>
  PROVE  OrderInv'
<1> USE DEF WireInv
<1>0. TypeOK
  BY DEF SessionInv
<1> DEFINE req == [kind |-> "command", conn |-> conn, seq |-> view.seq + 1,
                   rev |-> view.rev, op |-> op]
<1>1. Exchange(req) /\ ~view'.live /\ view.live /\ conn # 0
  BY DEF Send, ready, NoView
<1>2. req.kind = "command" /\ req.conn = conn
  OBVIOUS
<1> HIDE DEF req
<1>3. /\ generation + 1 \in Gens /\ generation' = generation + 1
      /\ \A h \in Gens : calls'[h] = IF h = generation + 1
                                     THEN [stage |-> "wire", req |-> req, answer |-> NoAnswer]
                                     ELSE calls[h]
      /\ \A h \in Gens : wire'[h] = IF h = generation + 1 THEN req ELSE wire[h]
  BY <1>0, <1>1, StartEffect
<1>4. calls'[generation'].answer.tag = "none"
  BY <1>3 DEF NoAnswer, Note
<1>5. InOrder => ~(bridge.echo.tag = "disconnected" /\ bridge.echo.conn = conn)
  BY <1>1 DEF OrderInv, DisconnectedIsOver
<1>6. InOrder => ToldIsTrue' /\ DisconnectedIsOver'
  BY <1>4, <1>5 DEF ToldIsTrue, ToldClosed, DisconnectedIsOver
<1>7. InOrder => DisconnectIsLast'
  BY <1>1, <1>2, <1>3 DEF OrderInv, DisconnectIsLast, OneOnTheWay, Sessional
<1>8. InOrder => \A g \in Gens : wire'[g].kind \in Sessional => wire'[g].conn = conn'
  BY <1>2, <1>3 DEF OrderInv
<1> QED BY <1>6, <1>7, <1>8 DEF OrderInv, NoOrphanSession

\* disconnect comes last.
LEMMA DisconnectOrder == SessionInv /\ WireInv /\ OrderInv /\ Disconnect => OrderInv'
<1> SUFFICES ASSUME SessionInv, WireInv, OrderInv, Disconnect PROVE OrderInv'
  OBVIOUS
<1> USE DEF WireInv
<1>0. TypeOK
  BY DEF SessionInv
<1> DEFINE req == [kind |-> "disconnect", conn |-> conn, seq |-> 0, rev |-> 0, op |-> "none"]
           call == [stage |-> "wire", req |-> req, answer |-> NoAnswer]
<1>1. /\ conn # 0 /\ ~view'.live /\ UNCHANGED <<conn, bridge>>
      /\ generation + 1 \in Gens /\ generation' = generation + 1 /\ generation \in Nat
  BY <1>0, BoundsAssumption DEF Disconnect, NoView, TypeOK, Gens
<1>2. req.kind = "disconnect" /\ call.req = req /\ call.answer.tag = "none"
  BY DEF NoAnswer, Note
<1>3. calls'[generation + 1] = call
  <2>1. DOMAIN Aborted(calls) = Gens
    BY DEF Aborted
  <2> QED BY <1>1, <2>1 DEF Disconnect
<1>4. \A h \in Gens : wire'[h] = IF h = generation + 1 THEN req ELSE wire[h]
  BY <1>0, <1>1 DEF Disconnect, TypeOK
<1> HIDE DEF req, call
<1>5. \A g \in Gens : ~Awaited(g)'
  BY <1>1, <1>2, <1>3 DEF Awaited, Sessional
<1>6. ToldClosed' => ToldClosed
  BY <1>1, <1>2, <1>3 DEF ToldClosed
<1>7. InOrder => \A g \in Gens : wire'[g].kind \in Sessional => wire'[g].conn = conn'
  BY <1>1, <1>2, <1>4 DEF OrderInv, Sessional
<1>8. InOrder => ToldIsTrue'
  BY <1>1, <1>2, <1>4, <1>6 DEF OrderInv, ToldIsTrue, Sessional
<1>9. DisconnectedIsOver'
  BY <1>1, <1>5 DEF DisconnectedIsOver
<1>10. \A h \in Gens : wire[h].kind \in Sessional => h < generation + 1
  BY <1>1, BoundsAssumption DEF Known, Sessional, Gens
<1>11. InOrder => DisconnectIsLast'
  BY <1>2, <1>4, <1>10 DEF OrderInv, DisconnectIsLast, Sessional
<1> QED BY <1>1, <1>7, <1>8, <1>9, <1>11 DEF OrderInv, NoOrphanSession

\* What an answer of the bridge leaves as it was.
LEMMA AnswerEffect ==
  ASSUME TypeOK, NEW g \in Gens, NEW a, Answer(g, a), UNCHANGED <<conn, generation>>
  PROVE  /\ \A h \in Gens : calls'[h].stage = calls[h].stage /\ calls'[h].req = calls[h].req
         /\ \A h \in Gens : h # g => calls'[h].answer = calls[h].answer
         /\ calls'[g].answer \in {calls[g].answer, a}
         /\ \A h \in Gens : wire'[h].kind # "none" =>
              wire'[h] = wire[h] /\ h # g /\ (InOrder => ~(h < g))
         /\ \A h \in Gens : Awaited(h)' <=> Awaited(h)
<1>1. /\ \A h \in Gens : calls'[h].stage = calls[h].stage /\ calls'[h].req = calls[h].req
      /\ \A h \in Gens : h # g => calls'[h].answer = calls[h].answer
      /\ calls'[g].answer \in {calls[g].answer, a}
  BY DEF Answer, TypeOK, Calls
<1>2. \A h \in Gens : wire'[h] = IF h = g \/ (InOrder /\ h < g) THEN NoRequest ELSE wire[h]
  BY DEF Answer
<1>3. NoRequest.kind = "none"
  BY DEF NoRequest
<1> QED BY <1>1, <1>2, <1>3 DEF Awaited

\* A request the bridge serves is of a session it did not tell to be closed.
LEMMA ServedOrder ==
  ASSUME SessionInv, WireInv, OrderInv, NEW g \in Gens, wire[g].kind \in Sessional, NEW a,
         Answer(g, a), a.tag = "view", bridge'.conn = wire[g].conn, bridge'.echo \in {bridge.echo, a},
         UNCHANGED <<conn, view, generation>>
  PROVE  OrderInv'
<1>0. TypeOK
  BY DEF SessionInv
<1>1. \A h \in Gens : /\ calls'[h].stage = calls[h].stage
                      /\ calls'[h].answer = calls[h].answer \/ calls'[h].answer.tag = "view"
  BY <1>0, AnswerEffect
<1>2. \A h \in Gens : wire'[h].kind # "none" => wire'[h] = wire[h]
  BY <1>0, AnswerEffect
<1>3. \A h \in Gens : Awaited(h)' <=> Awaited(h)
  BY <1>0, AnswerEffect
<1>4. ToldClosed' => ToldClosed
  BY <1>1 DEF ToldClosed
<1>5. InOrder => conn = wire[g].conn /\ conn # 0 /\ ~ToldClosed
  BY DEF OrderInv, ToldIsTrue, WireInv, Known, Sessional
<1>6. InOrder => ToldIsTrue' /\ DisconnectedIsOver'
  BY <1>3, <1>4, <1>5 DEF ToldIsTrue, DisconnectedIsOver, OrderInv
<1>7. InOrder => DisconnectIsLast' /\ \A h \in Gens : wire'[h].kind \in Sessional => wire'[h].conn = conn'
  BY <1>2 DEF OrderInv, DisconnectIsLast, Sessional
<1> QED BY <1>5, <1>6, <1>7 DEF OrderInv, NoOrphanSession

\* A request the bridge refuses changes nothing, or was the last of a session now closed.
LEMMA RefusedOrder ==
  ASSUME SessionInv, WireInv, OrderInv, NEW g \in Gens, NEW a,
         Answer(g, a), a.tag \in {"error", "error_closed"}, bridge'.echo = bridge.echo,
         bridge'.conn \in {0, bridge.conn},
         a.tag = "error_closed" => wire[g].kind \in Sessional /\ bridge'.conn = 0,
         UNCHANGED <<conn, view, generation>>
  PROVE  OrderInv'
<1>0. TypeOK
  BY DEF SessionInv
<1>1. \A h \in Gens : /\ calls'[h].stage = calls[h].stage
                      /\ calls'[h].answer = calls[h].answer \/ calls'[h].answer.tag = a.tag
  BY <1>0, AnswerEffect
<1>2. \A h \in Gens : wire'[h].kind # "none" => wire'[h] = wire[h] /\ h # g
  BY <1>0, AnswerEffect
<1>3. \A h \in Gens : Awaited(h)' <=> Awaited(h)
  BY <1>0, AnswerEffect
<1>4. ToldClosed' => ToldClosed \/ a.tag = "error_closed"
  BY <1>1 DEF ToldClosed
<1>5. InOrder /\ a.tag = "error_closed" => \A h \in Gens : wire'[h].kind \notin Sessional
  BY <1>2 DEF OrderInv, WireInv, OneOfEach, Sessional
<1>6. InOrder => ToldIsTrue' /\ DisconnectedIsOver'
  BY <1>2, <1>3, <1>4, <1>5 DEF ToldIsTrue, DisconnectedIsOver, OrderInv, Sessional
<1>7. InOrder => DisconnectIsLast' /\ \A h \in Gens : wire'[h].kind \in Sessional => wire'[h].conn = conn'
  BY <1>2 DEF OrderInv, DisconnectIsLast, Sessional
<1>8. NoOrphanSession'
  BY DEF OrderInv, NoOrphanSession
<1> QED BY <1>6, <1>7, <1>8 DEF OrderInv

\* A disconnect that is served leaves nothing of its connection on the way.
LEMMA CleanedOrder ==
  ASSUME SessionInv, WireInv, OrderInv, NEW g \in Gens, wire[g].kind = "disconnect", NEW a,
         Answer(g, a), a.tag = "disconnected", a.conn = wire[g].conn,
         bridge'.conn = (IF bridge.conn = wire[g].conn THEN 0 ELSE bridge.conn),
         bridge'.echo \in {bridge.echo, a}, UNCHANGED <<conn, view, generation>>
  PROVE  OrderInv'
<1>0. TypeOK
  BY DEF SessionInv
<1>1. \A h \in Gens : /\ calls'[h].stage = calls[h].stage
                      /\ calls'[h].answer = calls[h].answer \/ calls'[h].answer = a
  BY <1>0, AnswerEffect
<1>2. \A h \in Gens : wire'[h].kind # "none" =>
        wire'[h] = wire[h] /\ h # g /\ (InOrder => ~(h < g))
  BY <1>0, AnswerEffect
<1>3. \A h \in Gens : Awaited(h)' <=> Awaited(h)
  BY <1>0, AnswerEffect
<1>4. ToldClosed' => ToldClosed \/ wire[g].conn = conn
  BY <1>1 DEF ToldClosed
<1>5. InOrder => \A h \in Gens : wire'[h].kind \in Sessional => wire[h].kind \in Sessional /\ wire'[h].conn = conn
  BY <1>2 DEF OrderInv, Sessional
<1>6. InOrder /\ wire[g].conn = conn /\ conn # 0 =>
        bridge'.conn = 0 /\ \A h \in Gens : wire'[h].kind \notin Sessional
  BY <1>2, <1>5 DEF OrderInv, NoOrphanSession, DisconnectIsLast, Sessional
<1>7. InOrder => ToldIsTrue'
  BY <1>4, <1>5, <1>6 DEF OrderInv, ToldIsTrue
<1>8. wire[g].conn = conn => ~view.live /\ \A h \in Gens : ~Awaited(h)
  BY DEF WireInv, OneOnTheWay, Awaited, Sessional
<1>9. InOrder => DisconnectedIsOver'
  BY <1>3, <1>8 DEF OrderInv, DisconnectedIsOver
<1>10. InOrder => DisconnectIsLast'
  BY <1>2 DEF OrderInv, DisconnectIsLast, Sessional
<1>11. NoOrphanSession'
  BY DEF OrderInv, NoOrphanSession
<1> QED BY <1>5, <1>7, <1>9, <1>10, <1>11 DEF OrderInv

\* The bridge serves in order.
LEMMA EnvironmentOrder == SessionInv /\ WireInv /\ OrderInv /\ Environment => OrderInv'
<1> SUFFICES ASSUME SessionInv, WireInv, OrderInv, Environment PROVE OrderInv'
  OBVIOUS
<1>0. TypeOK
  BY DEF SessionInv
<1>1. UNCHANGED <<conn, view, generation>>
  BY DEF Environment, ServeConnect, ServeCommand, ServeDisconnect, BridgeStops, client
<1>2. \A t, c : Note(t, c).tag = t /\ Note(t, c).conn = c
  BY DEF Note
<1>3. Echo(NoAnswer) = bridge.echo /\ \A a : Echo(a) \in {bridge.echo, a}
  BY DEF Echo, NoAnswer, Note
<1>4. ASSUME NEW g \in Gens, ServeConnect(g) PROVE OrderInv'
  <2> DEFINE r == wire[g]
             hello == [tag |-> "view", conn |-> r.conn, seq |-> 0, rev |-> 0, op |-> "discover", ok |-> TRUE]
  <2>1. r.kind \in Sessional
    BY <1>4 DEF ServeConnect, Sessional
  <2>2. CASE bridge' = Opened(r.conn, 0, 0, hello) /\ Answer(g, hello)
    <3>1. hello.tag = "view" /\ Answer(g, hello) /\ bridge'.conn = r.conn /\ bridge'.echo = Echo(hello)
      BY <2>2 DEF Opened
    <3> HIDE DEF hello
    <3> QED BY <1>1, <1>3, <2>1, <3>1, ServedOrder
  <2>3. CASE bridge.conn = 0 /\ bridge' = bridge /\ Answer(g, Note("error_closed", r.conn))
    BY <1>1, <1>2, <2>1, <2>3, RefusedOrder
  <2>4. CASE bridge' = bridge /\ Answer(g, Note("error", r.conn))
    BY <1>1, <1>2, <2>4, RefusedOrder
  <2> QED BY <1>4, <2>2, <2>3, <2>4 DEF ServeConnect
<1>5. ASSUME NEW g \in Gens, ServeCommand(g) PROVE OrderInv'
  <2> DEFINE r == wire[g]
  <2>1. r.kind \in Sessional
    BY <1>5 DEF ServeCommand, Sessional
  <2>2. ASSUME NEW ok, NEW rev, bridge' = Opened(r.conn, r.seq, rev, Reply(r, rev, ok)), Answer(g, Reply(r, rev, ok))
        PROVE  OrderInv'
    <3>1. Reply(r, rev, ok).tag = "view"
      BY DEF Reply
    <3>2. bridge'.conn = r.conn /\ bridge'.echo = Echo(Reply(r, rev, ok))
      BY <2>2 DEF Opened
    <3> QED BY <1>1, <1>3, <2>1, <2>2, <3>1, <3>2, ServedOrder
  <2>3. CASE bridge' = Closed(NoAnswer) /\ Answer(g, Note("error_closed", r.conn))
    <3>1. bridge'.conn = 0 /\ bridge'.echo = bridge.echo
      BY <1>3, <2>3 DEF Closed
    <3> QED BY <1>1, <1>2, <2>1, <2>3, <3>1, RefusedOrder
  <2>4. CASE bridge' = bridge /\ Answer(g, Note("error", r.conn))
    BY <1>1, <1>2, <2>4, RefusedOrder
  <2> QED BY <1>5, <2>2, <2>3, <2>4 DEF ServeCommand
<1>6. ASSUME NEW g \in Gens, ServeDisconnect(g) PROVE OrderInv'
  <2> DEFINE r == wire[g]
             done == Note("disconnected", r.conn)
  <2>1. r.kind = "disconnect" /\ done.tag = "disconnected" /\ done.conn = r.conn
    BY <1>2, <1>6 DEF ServeDisconnect
  <2>2. CASE /\ bridge' = IF bridge.conn = r.conn THEN Closed(done) ELSE [bridge EXCEPT !.echo = Echo(done)]
             /\ Answer(g, done)
    <3>1. bridge'.conn = (IF bridge.conn = r.conn THEN 0 ELSE bridge.conn) /\ bridge'.echo = Echo(done)
      BY <1>0, <2>2 DEF Closed, TypeOK
    <3> HIDE DEF done
    <3> QED BY <1>1, <1>3, <2>1, <2>2, <3>1, CleanedOrder
  <2>3. CASE bridge' = bridge /\ Answer(g, Note("error", r.conn))
    BY <1>1, <1>2, <2>3, RefusedOrder
  <2> QED BY <1>6, <2>2, <2>3 DEF ServeDisconnect
<1>7. CASE BridgeStops
  <2>1. bridge'.conn = 0 /\ bridge'.echo = bridge.echo /\ UNCHANGED <<calls, wire>>
    BY <1>7 DEF BridgeStops
  <2>2. NoOrphanSession' /\ (InOrder => ToldIsTrue' /\ DisconnectedIsOver' /\ DisconnectIsLast')
    BY <1>1, <2>1 DEF OrderInv, NoOrphanSession, ToldIsTrue, ToldClosed, DisconnectedIsOver, DisconnectIsLast, Awaited
  <2> QED BY <1>1, <2>1, <2>2 DEF OrderInv
<1> QED BY <1>4, <1>5, <1>6, <1>7 DEF Environment

\* The calls of the client keep the order.
LEMMA UserOrder == SessionInv /\ WireInv /\ OrderInv /\ User => OrderInv'
<1> SUFFICES ASSUME SessionInv, WireInv, OrderInv, User PROVE OrderInv'
  OBVIOUS
<1>0. TypeOK
  BY DEF SessionInv
<1>1. ASSUME NEW op, NEW q, ready, Send(op, q), UNCHANGED <<conn, bridge>> PROVE OrderInv'
  BY <1>1, SendOrder
<1>2. ASSUME NEW op, Command(op) PROVE OrderInv'
  BY <1>1, <1>2 DEF Command, CanSend
<1>3. ASSUME NEW sel, CollectQueries(sel) \/ CollectObserved(sel) PROVE OrderInv'
  BY <1>1, <1>3 DEF CollectQueries, CollectObserved, CanCollect, StartJob
<1>4. CASE InspectDeclaredTarget
  BY <1>1, <1>4 DEF InspectDeclaredTarget, CanSend, StartJob
<1>5. ASSUME NEW kind, CollectBadSelection(kind) PROVE OrderInv'
  <2>1. UNCHANGED <<conn, view, generation, calls, wire, bridge>>
    BY <1>5 DEF CollectBadSelection
  <2> QED BY <2>1, KeptOrder DEF ToldClosed, Awaited
<1>6. CASE Invalidate
  <2>1. UNCHANGED <<conn, wire, bridge>> /\ ~view'.live /\ generation' = generation + 1
    BY <1>6 DEF Invalidate, NoView
  <2>2. \A g \in Gens : g = generation' => calls[g].stage = "idle"
    BY <1>0, <2>1, BoundsAssumption DEF SessionInv, CallsAreAddressed, TypeOK
  <2>3. \A g \in Gens : g = generation' => calls'[g].stage = "idle"
    BY <1>0, <1>6, <2>2, AbortedCalls DEF Invalidate
  <2>4. (ToldClosed' => ToldClosed) /\ \A g \in Gens : ~Awaited(g)'
    BY <2>1, <2>3 DEF ToldClosed, Awaited
  <2> QED BY <2>1, <2>4, KeptOrder
<1> QED BY <1>2, <1>3, <1>4, <1>5, <1>6, ConnectOrder, DisconnectOrder DEF User

\* A failed exchange forgets the connection only when the bridge said it was closed.
LEMMA FailOrder ==
  ASSUME SessionInv, OrderInv, NEW g \in Gens, NEW closed, Fail(g, closed),
         closed => ToldClosed \/ g # generation
  PROVE  OrderInv'
<1>0. TypeOK
  BY DEF SessionInv
<1>1. /\ UNCHANGED <<generation, wire, bridge>> /\ (view'.live => view' = view)
      /\ \A h \in Gens : h # g => calls'[h] = calls[h]
      /\ calls'[g].stage = "idle"
  BY <1>0 DEF Fail, NoView, NoCall, TypeOK
<1>2. conn' = conn \/ (conn' = 0 /\ ToldClosed /\ g = generation /\ conn = calls[g].req.conn)
  BY DEF Fail
<1>3. conn' = conn \/ (conn' = 0 /\ conn # 0 /\ ToldClosed)
  BY <1>2
<1>4. /\ conn' # 0 /\ ToldClosed' => ToldClosed
      /\ \A h \in Gens : conn' # 0 /\ Awaited(h)' => Awaited(h)
  BY <1>1, <1>3 DEF ToldClosed, Awaited
<1> QED BY <1>1, <1>3, <1>4, KeptOrder

\* Continuations forget a session only when it is closed.
LEMMA MicrotaskOrder == SessionInv /\ WireInv /\ OrderInv /\ Microtask => OrderInv'
<1> SUFFICES ASSUME SessionInv, WireInv, OrderInv, NEW g \in Gens, Unwind(g) \/ Settle(g) \/ JobStep(g)
             PROVE  OrderInv'
  BY DEF Microtask
<1>0. TypeOK
  BY DEF SessionInv
<1>1. CASE Unwind(g)
  BY <1>1, FailOrder DEF Unwind
<1>2. ASSUME calls' = [calls EXCEPT ![g] = NoCall], UNCHANGED <<generation, wire, bridge>>,
             conn' = conn \/ (conn' = 0 /\ conn # 0 /\ ToldClosed),
             view'.live => view' = view \/ Awaited(g)
      PROVE  OrderInv'
  <2>1. /\ \A h \in Gens : h # g => calls'[h] = calls[h]
        /\ calls'[g].stage = "idle"
    BY <1>0, <1>2 DEF NoCall, TypeOK
  <2>2. /\ conn' # 0 /\ ToldClosed' => ToldClosed
        /\ \A h \in Gens : conn' # 0 /\ Awaited(h)' => Awaited(h)
    BY <1>2, <2>1 DEF ToldClosed, Awaited
  <2> QED BY <1>2, <2>2, KeptOrder
<1>3. CASE AcceptConnect(g) \/ AcceptReply(g)
  <2>1. Awaited(g)
    BY <1>3 DEF AcceptConnect, AcceptReply, Answered, Current, Awaited, Sessional
  <2> QED BY <1>2, <1>3, <2>1 DEF AcceptConnect, AcceptReply
<1>4. CASE AcceptDisconnect(g)
  <2>1. conn = calls[g].req.conn => ToldClosed /\ conn # 0
    BY <1>4 DEF AcceptDisconnect, Answered, ToldClosed, SessionInv, CallsAreAddressed
  <2> QED BY <1>2, <1>4, <2>1 DEF AcceptDisconnect
<1>5. CASE RejectConnect(g) \/ RejectReply(g) \/ RejectDisconnect(g)
  BY <1>2, <1>5 DEF RejectConnect, RejectReply, RejectDisconnect, NoView
<1>6. CASE JobSend(g)
  BY <1>6, SendOrder DEF JobSend, MaySend, CanSend
<1>7. CASE JobReturn(g) \/ JobFail(g)
  <2>1. UNCHANGED <<conn, view, generation, calls, wire, bridge>>
    BY <1>7 DEF JobReturn, JobFail
  <2> QED BY <2>1, KeptOrder DEF ToldClosed, Awaited
<1> QED BY <1>1, <1>3, <1>4, <1>5, <1>6, <1>7 DEF Settle, JobStep

\* What is delivered tells the client nothing the bridge has not said.
LEMMA TaskOrder == SessionInv /\ WireInv /\ OrderInv /\ Task => OrderInv'
<1> SUFFICES ASSUME SessionInv, WireInv, OrderInv, NEW g \in Gens, Timeout(g) \/ DeliverFailure(g) \/ Deliver(g)
             PROVE  OrderInv'
  BY DEF Task
<1>0. TypeOK
  BY DEF SessionInv
<1>1. CASE Timeout(g)
  <2>1. \A h \in Gens : h # g => calls'[h] = calls[h]
    BY <1>0, <1>1 DEF Timeout, TypeOK
  <2>2. calls'[g].stage = "aborted" /\ UNCHANGED <<conn, view, generation, wire, bridge>>
    BY <1>0, <1>1 DEF Timeout, TypeOK, Calls, client
  <2>3. (ToldClosed' => ToldClosed) /\ \A h \in Gens : Awaited(h)' => Awaited(h)
    BY <2>1, <2>2 DEF ToldClosed, Awaited
  <2> QED BY <2>2, <2>3, KeptOrder
<1>2. ASSUME NEW a \in Deliverable(g) PROVE a \in {calls[g].answer, bridge.echo} \/ a.tag \in {"lost", "malformed"}
  BY DEF Deliverable, Note
<1>3. CASE DeliverFailure(g)
  <2>1. PICK a \in Deliverable(g) : Fail(g, a.tag = "error_closed")
    BY <1>3 DEF DeliverFailure
  <2>2. a.tag = "error_closed" => ToldClosed \/ g # generation
    BY <1>2, <1>3 DEF DeliverFailure, ToldClosed, OrderInv
  <2> QED BY <2>1, <2>2, FailOrder
<1>4. CASE Deliver(g)
  <2>1. PICK a \in Deliverable(g) : /\ a.tag \in {"view", "disconnected", "malformed"}
                                    /\ calls' = [calls EXCEPT ![g].stage = "answered", ![g].answer = a]
    BY <1>4 DEF Deliver
  <2>2. /\ \A h \in Gens : h # g => calls'[h] = calls[h]
        /\ calls'[g].stage = "answered" /\ calls'[g].answer = a /\ calls'[g].req = calls[g].req
    BY <1>0, <2>1 DEF TypeOK, Calls
  <2>3. UNCHANGED <<conn, view, generation, wire, bridge>> /\ calls[g].stage = "wire"
    BY <1>4 DEF Deliver
  <2>4. ToldClosed' => ToldClosed
    BY <1>2, <2>1, <2>2, <2>3, ZenonT(30) DEF ToldClosed
  <2>5. \A h \in Gens : Awaited(h)' => Awaited(h)
    BY <2>2, <2>3 DEF Awaited
  <2> QED BY <2>3, <2>4, <2>5, KeptOrder
<1> QED BY <1>1, <1>3, <1>4

\* The order is kept by every step.
LEMMA OrderInductive == SessionInv /\ WireInv /\ OrderInv /\ [Next]_vars => OrderInv'
<1>1. OrderInv /\ UNCHANGED vars => OrderInv'
  BY KeptOrder DEF vars, ToldClosed, Awaited
<1> QED BY <1>1, UserOrder, MicrotaskOrder, TaskOrder, EnvironmentOrder DEF Next

\* Nothing is on the way at first.
LEMMA OrderInitial == Init => OrderInv
BY DEF Init, OrderInv, NoOrphanSession, ToldIsTrue, DisconnectedIsOver, DisconnectIsLast, NoAnswer, Note, NoRequest, Sessional

\* A bridge that serves in order and the client agree on what is closed.
THEOREM OrderInvariant == Spec => []OrderInv
BY OrderInitial, OrderInductive, SessionInvariant, WireInvariant, PTL DEF Spec

(***************************************************************************)
(* The promises of the session, each for every value of the constants.      *)
(***************************************************************************)
\* The view offered for the next command is the bridge's own state as long as it
\* holds the session, whatever was lost, late, repeated or aborted.
THEOREM ViewAlwaysMirrors == Spec => []ViewMirrorsBridge
<1>1. WireInv => ViewMirrorsBridge
  BY DEF WireInv
<1> QED BY <1>1, WireInvariant, PTL

\* A command that reaches its session is the next one there: nothing is sent
\* twice, and nothing after a command whose outcome is unknown.
THEOREM CommandsAlwaysNext == Spec => []CommandsAreNext
<1>1. WireInv => CommandsAreNext
  BY DEF WireInv
<1> QED BY <1>1, WireInvariant, PTL

\* The lease is held by a collector that is still running: no command is refused
\* for a collection that is gone.
THEOREM LeaseIsAlwaysHeld == Spec => []LeaseIsHeld
BY LeaseSuffices, SessionInvariant, DueInvariant, LeaseInvariant, PTL

\* The commands reserved when a collector starts are those it sends at most, and
\* sendCommand admits each of them: for any limit, no collection ends half way.
THEOREM ReservationAlwaysSuffices == Spec => []ReservationSuffices
BY LeaseSuffices, SessionInvariant, DueInvariant, LeaseInvariant, PTL

\* What the session retains was observed on its connection at the revision the
\* bridge is at: no observation outlives a change of the debugged program.
THEOREM ObservationsAreFresh == Spec => []NoStaleObservation
<1>1. ObservationInv => NoStaleObservation
  BY DEF ObservationInv
<1> QED BY <1>1, ObservationInvariant, PTL

\* A bridge that serves in order never holds a session the client forgot.
THEOREM NoOrphanIsLeft == Spec => []NoOrphanSession
<1>1. OrderInv => NoOrphanSession
  BY DEF OrderInv
<1> QED BY <1>1, OrderInvariant, PTL

(***************************************************************************)
(* LiveCpuWorkbench: a handler of the panel and what it waits for.          *)
(***************************************************************************)
HandlerStates == {"none", "waiting", "resolved", "rejected"}
HandlerKinds == {"none", "connect", "send", "queries", "observed", "target", "disconnect"}
Handlers == [state : HandlerStates, kind : HandlerKinds, current : BOOLEAN, value : Views]

PanelTypeOK ==
  /\ mounted \in BOOLEAN /\ busy \in BOOLEAN
  /\ reply \in Views /\ queryCollection \in Stamps
  /\ observedCollection \in Stamps /\ targetReply \in Stamps
  /\ handlers \in [Gens -> Handlers]

\* A collector goes on to its second command after the exchange of the first.
FirstAwaited == \A l \in Gens :
  jobs[l].kind # "none" /\ calls[l].stage # "idle" => jobs[l].wait = l

\* The exchange that is pending was started for handler h.
Serves(h) == pending = h \/ (jobs[h].kind # "none" /\ jobs[h].wait = pending)

\* What BusyIsAwaiting says, and that pending and lease are of the handler that waits.
OneWait == mounted =>
  /\ busy <=> CurrentHandlers # {}
  /\ \A g, h \in CurrentHandlers : g = h
  /\ pending # 0 => \E h \in CurrentHandlers : handlers[h].state = "waiting" /\ Serves(h)
  /\ lease # 0 => lease \in CurrentHandlers /\ handlers[lease].state = "waiting"

AllIdle == \A h \in Gens : calls[h].stage = "idle"
Settled == AllIdle /\ \A l \in Gens : ~Running(l)
Blank == ~reply.live /\ queryCollection = Nothing /\ observedCollection = Nothing /\ targetReply = Nothing

\* What is on the page is what the client has, and the client has come to rest;
\* what a handler is about to show is what the client has then.
ShownInv == mounted =>
  /\ busy => Blank
  /\ Blank \/ Settled
  /\ reply.live => view = reply
  /\ queryCollection # Nothing => queryCollection = cache["collection"]
  /\ observedCollection # Nothing => observedCollection = cache["observed"]
  /\ targetReply # Nothing => targetReply = cache["observed"]
  /\ \A h \in CurrentHandlers :
       /\ handlers[h].state = "resolved" => Settled /\ handlers[h].value = view
       /\ handlers[h].state = "waiting" /\ Running(h) /\ jobs[h].next # "fail" =>
            AllIdle /\ (\A k \in Gens : k # h => ~Running(k)) /\ handlers[h].value = view

PanelInv == PanelTypeOK /\ FirstAwaited /\ OneWait /\ ShownInv

\* Every step of the panel is one of its client, or leaves the client alone.
LEMMA PanelSteps == [PanelNext]_panelVars => [Next]_vars
<1> SUFFICES ASSUME [PanelNext]_panelVars PROVE [Next]_vars
  OBVIOUS
<1>1. ASSUME Panel PROVE [Next]_vars
  <2>1. CASE PressConnect
    BY <2>1 DEF PressConnect, Refused, Next, User
  <2>2. ASSUME NEW op \in UserOps, PressSend(op) PROVE [Next]_vars
    BY <2>2 DEF PressSend, Refused, Next, User
  <2>3. ASSUME NEW sel \in BOOLEAN, PressCollectQueries(sel) PROVE [Next]_vars
    BY <2>3 DEF PressCollectQueries, Refused, Next, User
  <2>4. ASSUME NEW sel \in BOOLEAN, PressCollectObserved(sel) PROVE [Next]_vars
    BY <2>4 DEF PressCollectObserved, Refused, Next, User
  <2>5. CASE PressInspectTarget
    BY <2>5 DEF PressInspectTarget, Refused, Next, User
  <2>6. CASE PressDisconnect \/ ReplaceConnection \/ EditField \/ Unmount
    BY <2>6 DEF PressDisconnect, ReplaceConnection, EditField, Unmount, Next, User
  <2> QED BY <1>1, <2>1, <2>2, <2>3, <2>4, <2>5, <2>6 DEF Panel
<1>2. ASSUME NEW g \in Gens, ClientStep(g) PROVE Next
  BY <1>2 DEF ClientStep, Next, Microtask, Settle, JobStep
<1>3. ASSUME NEW g \in Gens, Continue(g) PROVE UNCHANGED vars
  BY <1>3 DEF Continue
<1>4. ASSUME NEW g \in Gens, ClientTask(g) PROVE Next
  BY <1>4 DEF ClientTask, Next, Task
<1>5. CASE UNCHANGED panelVars
  BY <1>5 DEF panelVars
<1> QED BY <1>1, <1>2, <1>3, <1>4, <1>5 DEF PanelNext, PanelMicrotask, Next

\* A panel uses its client as CpuDebugSession says, so all of its promises hold.
THEOREM PanelUsesClient == PanelSpec => Spec
<1>1. PanelInit => Init
  BY DEF PanelInit
<1> QED BY <1>1, PanelSteps, PTL DEF PanelSpec, Spec

\* An exchange is started for what awaits it.
LEMMA FirstInductive == SessionInv /\ DueInv /\ FirstAwaited /\ [Next]_vars => FirstAwaited'
<1> SUFFICES ASSUME SessionInv, DueInv, FirstAwaited, [Next]_vars PROVE FirstAwaited'
  OBVIOUS
<1>0. TypeOK /\ generation \in Nat
  BY BoundsAssumption DEF SessionInv, TypeOK
<1>a. \A l \in Gens : jobs[l].kind # "none" => l <= generation /\ l # generation + 1
  BY <1>0, BoundsAssumption DEF DueInv, JobsAwait, Gens
<1>1. ASSUME NEW req, Exchange(req),
             \/ UNCHANGED jobs
             \/ \E l \in Gens : \E j : /\ jobs' = [jobs EXCEPT ![l] = j] /\ j.wait = generation + 1
                                       /\ l = generation + 1 \/ calls[l].stage = "idle"
      PROVE  FirstAwaited'
  <2>1. /\ generation + 1 \in Gens
        /\ \A h \in Gens : calls'[h] = IF h = generation + 1
                                       THEN [stage |-> "wire", req |-> req, answer |-> NoAnswer]
                                       ELSE calls[h]
    BY <1>0, <1>1, StartEffect
  <2>2. CASE UNCHANGED jobs
    BY <1>a, <2>1, <2>2 DEF FirstAwaited
  <2>3. ASSUME NEW l \in Gens, NEW j, jobs' = [jobs EXCEPT ![l] = j], j.wait = generation + 1,
               l = generation + 1 \/ calls[l].stage = "idle"
        PROVE  FirstAwaited'
    <3>1. \A k \in Gens : jobs'[k] = IF k = l THEN j ELSE jobs[k]
      BY <1>0, <2>3 DEF TypeOK
    <3> QED BY <1>a, <2>1, <2>3, <3>1 DEF FirstAwaited
  <2> QED BY <1>1, <2>2, <2>3
<1>2. ASSUME NEW g \in Gens, calls' = [calls EXCEPT ![g] = NoCall],
             \A l \in Gens : jobs'[l].kind # "none" => jobs[l].kind # "none",
             \A l \in Gens : jobs[l].wait # g => jobs'[l] = jobs[l]
      PROVE  FirstAwaited'
  <2>1. \A h \in Gens : IF h = g THEN calls'[h].stage = "idle" ELSE calls'[h] = calls[h]
    BY <1>0, <1>2 DEF TypeOK, NoCall
  <2> SUFFICES ASSUME NEW l \in Gens, jobs'[l].kind # "none", calls'[l].stage # "idle" PROVE jobs'[l].wait = l
    BY DEF FirstAwaited
  <2>2. l # g /\ calls[l].stage # "idle"
    BY <2>1
  <2>3. CASE jobs[l].wait = g
    <3>1. jobs[l].kind = "none"
      BY <2>2, <2>3 DEF FirstAwaited
    <3> QED BY <1>2, <2>2, <2>3, <3>1
  <2>4. CASE jobs[l].wait # g
    BY <1>2, <2>2, <2>4 DEF FirstAwaited
  <2> QED BY <2>3, <2>4
<1>3. ASSUME UNCHANGED jobs, \A h \in Gens : calls'[h].stage # "idle" => calls[h].stage # "idle"
      PROVE  FirstAwaited'
  BY <1>3 DEF FirstAwaited
<1>4. ASSUME Connect \/ (\E op \in UserOps : Command(op)) PROVE FirstAwaited'
  BY <1>4, <1>1 DEF Connect, Command, Send
<1>5. ASSUME NEW kind, NEW sel, NEW q, NEW op, NEW anchor, StartJob(kind, sel, q, op, anchor)
      PROVE  FirstAwaited'
  <2> DEFINE j == [kind |-> kind, conn |-> conn, anchor |-> anchor, sel |-> sel,
                   seq |-> view.seq + 1, wait |-> generation + 1, next |-> "none"]
  <2>1. j.wait = generation + 1 /\ jobs' = [jobs EXCEPT ![generation + 1] = j]
    BY <1>5 DEF StartJob
  <2> HIDE DEF j
  <2>2. PICK req : Exchange(req)
    BY <1>5 DEF StartJob, Send
  <2>3. generation + 1 \in Gens
    BY <1>0, <2>2, StartEffect
  <2> QED BY <1>1, <2>1, <2>2, <2>3
<1>6. ASSUME NEW l \in Gens, JobSend(l) PROVE FirstAwaited'
  <2> DEFINE j == [jobs[l] EXCEPT !.wait = generation + 1, !.next = "none"]
  <2>1. jobs[l] \in Jobs /\ jobs' = [jobs EXCEPT ![l] = j]
    BY <1>0, <1>6 DEF JobSend, TypeOK
  <2>2. j.wait = generation + 1
    BY <2>1 DEF Jobs
  <2> HIDE DEF j
  <2>3. PICK req : Exchange(req)
    BY <1>6 DEF JobSend, Send
  <2>4. calls[l].stage = "idle"
    BY <1>6, BoundsAssumption DEF JobSend, Running, FirstAwaited, Gens
  <2> QED BY <1>1, <2>1, <2>2, <2>3, <2>4
<1>7. ASSUME Invalidate PROVE FirstAwaited'
  <2>1. \A h \in Gens : calls'[h].stage # "idle" => calls[h].stage # "idle"
    BY <1>0, <1>7, AbortedCalls DEF Invalidate
  <2> QED BY <1>3, <1>7, <2>1 DEF Invalidate
<1>8. ASSUME Disconnect PROVE FirstAwaited'
  <2>1. /\ UNCHANGED jobs
        /\ \A h \in Gens : h # generation + 1 => calls'[h] = Aborted(calls)[h]
    BY <1>0, <1>8, AbortedCalls, BoundsAssumption DEF Disconnect
  <2>2. \A h \in Gens : h # generation + 1 /\ calls'[h].stage # "idle" => calls[h].stage # "idle"
    BY <1>0, <2>1, AbortedCalls
  <2> QED BY <1>a, <2>1, <2>2 DEF FirstAwaited
<1>9. CASE User
  BY <1>3, <1>4, <1>5, <1>7, <1>8, <1>9
     DEF User, CollectQueries, CollectObserved, InspectDeclaredTarget, CollectBadSelection
<1>10. ASSUME NEW g \in Gens, calls' = [calls EXCEPT ![g] = NoCall],
              UNCHANGED jobs \/ jobs' = Rejected(jobs, g) \/ \E n : jobs' = Resumed(jobs, g, n)
       PROVE  FirstAwaited'
  <2>1. \A l \in Gens : jobs[l].wait # g => jobs'[l] = jobs[l]
    BY <1>0, <1>10, ResumedSame, RejectedJobs
  <2>2. \A l \in Gens : jobs'[l].kind # "none" => jobs[l].kind # "none"
    BY <1>0, <1>10, ResumedSame, RejectedJobs
  <2> QED BY <1>2, <1>10, <2>1, <2>2
<1>11. ASSUME NEW g \in Gens, Unwind(g) \/ Settle(g) PROVE FirstAwaited'
  <2>1. calls' = [calls EXCEPT ![g] = NoCall]
    BY <1>11 DEF Unwind, Settle, Fail, AcceptConnect, RejectConnect, AcceptReply, RejectReply,
                 AcceptDisconnect, RejectDisconnect
  <2>2. UNCHANGED jobs \/ jobs' = Rejected(jobs, g) \/ \E n : jobs' = Resumed(jobs, g, n)
    <3>1. CASE AcceptReply(g)
      BY <3>1 DEF AcceptReply
    <3> QED BY <1>11, <3>1 DEF Unwind, Settle, Fail, AcceptConnect, RejectConnect, RejectReply,
                               AcceptDisconnect, RejectDisconnect
  <2> QED BY <1>10, <2>1, <2>2
<1>12. ASSUME NEW l \in Gens, JobReturn(l) \/ JobFail(l) PROVE FirstAwaited'
  <2>1. UNCHANGED calls /\ jobs' = [jobs EXCEPT ![l] = NoJob] /\ NoJob.kind = "none"
    BY <1>12 DEF JobReturn, JobFail, Release, NoJob
  <2> QED BY <1>0, <2>1 DEF FirstAwaited, TypeOK
<1>13. ASSUME NEW g \in Gens, Timeout(g) \/ DeliverFailure(g) \/ Deliver(g) PROVE FirstAwaited'
  <2>1. CASE DeliverFailure(g)
    BY <1>10, <2>1 DEF DeliverFailure, Fail
  <2>2. CASE Timeout(g) \/ Deliver(g)
    <3>1. UNCHANGED jobs /\ calls[g].stage = "wire"
      BY <2>2 DEF Timeout, Deliver
    <3>2. \A h \in Gens : h # g => calls'[h] = calls[h]
      BY <1>0, <2>2 DEF Timeout, Deliver, TypeOK
    <3> QED BY <1>3, <3>1, <3>2
  <2> QED BY <1>13, <2>1, <2>2
<1>14. CASE Environment
  <2>1. UNCHANGED jobs
    BY <1>14 DEF Environment, ServeConnect, ServeCommand, ServeDisconnect, BridgeStops
  <2> QED BY <1>0, <1>3, <1>14, <2>1, AnswerKeepsCalls
<1>15. CASE UNCHANGED vars
  BY <1>3, <1>15 DEF vars
<1> QED BY <1>6, <1>9, <1>11, <1>12, <1>13, <1>14, <1>15 DEF Next, Microtask, JobStep, Task

\* generation.current++ in the panel leaves no handler current.
LEMMA SupersededEffect ==
  ASSUME handlers \in [Gens -> Handlers]
  PROVE  /\ Superseded \in [Gens -> Handlers]
         /\ \A h \in Gens : ~Superseded[h].current
<1>1. \A h \in Gens : Superseded[h] = [handlers[h] EXCEPT !.current = FALSE]
  BY DEF Superseded
<1>2. \A h \in Gens : Superseded[h] \in Handlers /\ ~Superseded[h].current
  BY <1>1 DEF Handlers
<1> QED BY <1>2 DEF Superseded

\* The handler that calls the client is the only one the panel still waits for.
LEMMA AwaitEffect ==
  ASSUME handlers \in [Gens -> Handlers], NEW kind \in HandlerKinds,
         generation + 1 \in Gens, Await(kind)
  PROVE  /\ handlers' \in [Gens -> Handlers]
         /\ handlers'[generation + 1].state = "waiting" /\ handlers'[generation + 1].current
         /\ \A h \in Gens : h # generation + 1 => ~handlers'[h].current
         /\ Blank' /\ busy' /\ UNCHANGED mounted
<1> DEFINE new == [state |-> "waiting", kind |-> kind, current |-> TRUE, value |-> NoView]
<1>1. new \in Handlers /\ new.state = "waiting" /\ new.current
  BY ConstantTypes DEF Handlers, HandlerStates
<1>2. handlers' = [Superseded EXCEPT ![generation + 1] = new]
  BY DEF Await
<1> HIDE DEF new
<1>3. Blank' /\ busy' /\ UNCHANGED mounted
  BY DEF Await, ClearVisible, ClearReplies, Blank, NoView
<1> QED BY <1>1, <1>2, <1>3, SupersededEffect

\* The method that awaits an exchange resolves: what the handlers become.
LEMMA ResolveEffect ==
  ASSUME handlers \in [Gens -> Handlers], NEW g, Resolve(g), view' \in Views
  PROVE  /\ handlers' \in [Gens -> Handlers]
         /\ \A h \in Gens :
              /\ handlers'[h].current = handlers[h].current
              /\ handlers[h].state # "waiting" => handlers'[h] = handlers[h]
              /\ handlers[h].state = "waiting" /\ ~(h = g /\ Awaiting(g) = {}) =>
                   handlers'[h].state = "waiting"
              /\ handlers[h].state = "waiting" /\ h = g /\ Awaiting(g) = {} =>
                   handlers'[h].state = "resolved" /\ handlers'[h].value = view'
              /\ handlers[h].state = "waiting" /\ h \in Awaiting(g) => handlers'[h].value = view'
<1>1. \A h \in Gens : handlers'[h] =
        IF handlers[h].state # "waiting" THEN handlers[h]
        ELSE IF h \in Awaiting(g) THEN [handlers[h] EXCEPT !.value = view']
        ELSE IF h = g /\ Awaiting(g) = {} THEN [handlers[h] EXCEPT !.state = "resolved", !.value = view']
        ELSE handlers[h]
  BY DEF Resolve
<1> SUFFICES ASSUME NEW h \in Gens
             PROVE  /\ handlers'[h] \in Handlers
                    /\ handlers'[h].current = handlers[h].current
                    /\ handlers[h].state # "waiting" => handlers'[h] = handlers[h]
                    /\ handlers[h].state = "waiting" /\ ~(h = g /\ Awaiting(g) = {}) =>
                         handlers'[h].state = "waiting"
                    /\ handlers[h].state = "waiting" /\ h = g /\ Awaiting(g) = {} =>
                         handlers'[h].state = "resolved" /\ handlers'[h].value = view'
                    /\ handlers[h].state = "waiting" /\ h \in Awaiting(g) => handlers'[h].value = view'
  BY DEF Resolve
<1>2. handlers[h] \in Handlers
  OBVIOUS
<1>3. CASE handlers[h].state # "waiting"
  BY <1>1, <1>2, <1>3
<1>4. CASE handlers[h].state = "waiting" /\ h \in Awaiting(g)
  <2>1. handlers'[h] = [handlers[h] EXCEPT !.value = view'] /\ Awaiting(g) # {}
    BY <1>1, <1>4
  <2> QED BY <1>2, <1>4, <2>1 DEF Handlers
<1>5. CASE handlers[h].state = "waiting" /\ h \notin Awaiting(g) /\ h = g /\ Awaiting(g) = {}
  <2>1. handlers'[h] = [handlers[h] EXCEPT !.state = "resolved", !.value = view']
    BY <1>1, <1>5
  <2> QED BY <1>2, <1>5, <2>1 DEF Handlers, HandlerStates
<1>6. CASE handlers[h].state = "waiting" /\ h \notin Awaiting(g) /\ ~(h = g /\ Awaiting(g) = {})
  BY <1>1, <1>2, <1>6
<1> QED BY <1>3, <1>4, <1>5, <1>6

\* It rejects.
LEMMA RejectEffect ==
  ASSUME handlers \in [Gens -> Handlers], NEW g, Reject(g)
  PROVE  /\ handlers' \in [Gens -> Handlers]
         /\ \A h \in Gens :
              /\ handlers'[h].current = handlers[h].current /\ handlers'[h].value = handlers[h].value
              /\ handlers'[h].state = handlers[h].state
                 \/ (handlers[h].state = "waiting" /\ handlers'[h].state = "rejected")
              /\ ~(h = g /\ Awaiting(g) = {}) /\ ~(h \in Awaiting(g) /\ jobs[h].kind = "target") =>
                   handlers'[h].state = handlers[h].state
<1> DEFINE hit(h) == /\ handlers[h].state = "waiting"
                     /\ (h = g /\ Awaiting(g) = {}) \/ (h \in Awaiting(g) /\ jobs[h].kind = "target")
<1>1. \A h \in Gens : handlers'[h] = IF hit(h) THEN [handlers[h] EXCEPT !.state = "rejected"] ELSE handlers[h]
  BY DEF Reject
<1>2. \A h \in Gens : [handlers[h] EXCEPT !.state = "rejected"] \in Handlers
  BY DEF Handlers, HandlerStates
<1>3. \A h \in Gens : handlers'[h] \in Handlers
  BY <1>1, <1>2
<1> SUFFICES ASSUME NEW h \in Gens
             PROVE  /\ handlers'[h].current = handlers[h].current /\ handlers'[h].value = handlers[h].value
                    /\ handlers'[h].state = handlers[h].state
                       \/ (handlers[h].state = "waiting" /\ handlers'[h].state = "rejected")
                    /\ ~(h = g /\ Awaiting(g) = {}) /\ ~(h \in Awaiting(g) /\ jobs[h].kind = "target") =>
                         handlers'[h].state = handlers[h].state
  BY <1>3 DEF Reject
<1>4. handlers[h] \in Handlers
  OBVIOUS
<1> QED BY <1>1, <1>4 DEF Handlers

\* A collector ends, and with it the method that runs it.
LEMMA FinishEffect ==
  ASSUME handlers \in [Gens -> Handlers], NEW l \in Gens, NEW state \in HandlerStates, Finish(l, state)
  PROVE  /\ handlers' \in [Gens -> Handlers]
         /\ \A h \in Gens :
              /\ handlers'[h].current = handlers[h].current /\ handlers'[h].value = handlers[h].value
              /\ h # l \/ handlers[h].state # "waiting" => handlers'[h].state = handlers[h].state
         /\ handlers[l].state = "waiting" => handlers'[l].state = state
<1>1. \A h \in Gens : handlers[h] \in Handlers
  OBVIOUS
<1>2. handlers' = [handlers EXCEPT ![l] = [handlers[l] EXCEPT !.state =
                     IF handlers[l].state = "waiting" THEN state ELSE handlers[l].state]]
  BY DEF Finish
<1>3. [handlers[l] EXCEPT !.state = IF handlers[l].state = "waiting" THEN state ELSE handlers[l].state] \in Handlers
  BY <1>1 DEF Handlers
<1> QED BY <1>1, <1>2, <1>3 DEF Handlers

\* The panel's own variables keep their types.
LEMMA PanelTypeInductive == TypeOK /\ TypeOK' /\ PanelTypeOK /\ [PanelNext]_panelVars => PanelTypeOK'
<1> SUFFICES ASSUME TypeOK, TypeOK', PanelTypeOK, [PanelNext]_panelVars PROVE PanelTypeOK'
  OBVIOUS
<1>0. view' \in Views /\ handlers \in [Gens -> Handlers] /\ NoView \in Views /\ Nothing \in Stamps
  BY ConstantTypes DEF TypeOK, PanelTypeOK
<1>1. ASSUME NEW kind \in HandlerKinds, generation' = generation + 1, Await(kind) PROVE PanelTypeOK'
  <2>1. generation + 1 \in Gens
    BY <1>1, BoundsAssumption DEF TypeOK, Gens
  <2> QED BY <1>0, <1>1, <2>1, AwaitEffect DEF Await, ClearVisible, ClearReplies, PanelTypeOK
<1>2. ASSUME Rebuff PROVE PanelTypeOK'
  BY <1>0, <1>2, SupersededEffect DEF Rebuff, ClearVisible, ClearReplies, PanelTypeOK
<1>3. CASE Panel
  <2>1. CASE PressConnect
    BY <1>1, <1>2, <2>1 DEF PressConnect, Refused, HandlerKinds, Connect, Exchange
  <2>2. ASSUME NEW op \in UserOps, PressSend(op) PROVE PanelTypeOK'
    BY <1>1, <1>2, <2>2 DEF PressSend, Refused, HandlerKinds, Command, Send, Exchange
  <2>3. ASSUME NEW sel \in BOOLEAN, PressCollectQueries(sel) PROVE PanelTypeOK'
    BY <1>1, <1>2, <2>3 DEF PressCollectQueries, Refused, HandlerKinds, CollectQueries, StartJob, Send, Exchange
  <2>4. ASSUME NEW sel \in BOOLEAN, PressCollectObserved(sel) PROVE PanelTypeOK'
    BY <1>1, <1>2, <2>4 DEF PressCollectObserved, Refused, HandlerKinds, CollectObserved, StartJob, Send, Exchange
  <2>5. CASE PressInspectTarget
    BY <1>1, <1>2, <2>5 DEF PressInspectTarget, Refused, HandlerKinds, InspectDeclaredTarget, StartJob, Send, Exchange
  <2>6. CASE PressDisconnect
    BY <1>1, <2>6 DEF PressDisconnect, HandlerKinds, Disconnect
  <2>7. CASE ReplaceConnection
    BY <1>0, <2>7, SupersededEffect DEF ReplaceConnection, ClearVisible, ClearReplies, PanelTypeOK
  <2>8. CASE EditField
    BY <1>0, <2>8 DEF EditField, ClearReplies, PanelTypeOK
  <2>9. CASE Unmount
    BY <1>0, <2>9, SupersededEffect DEF Unmount, PanelTypeOK
  <2> QED BY <1>3, <2>1, <2>2, <2>3, <2>4, <2>5, <2>6, <2>7, <2>8, <2>9 DEF Panel
<1>4. ASSUME NEW g \in Gens, ClientStep(g) \/ ClientTask(g) PROVE PanelTypeOK'
  <2>1. UNCHANGED Shown
    BY <1>4 DEF ClientStep, ClientTask
  <2>2. "resolved" \in HandlerStates /\ "rejected" \in HandlerStates
    BY DEF HandlerStates
  <2>3. handlers' \in [Gens -> Handlers]
    BY <1>0, <1>4, <2>2, ResolveEffect, RejectEffect, FinishEffect DEF ClientStep, ClientTask
  <2> QED BY <2>1, <2>3 DEF Shown, PanelTypeOK
<1>5. ASSUME NEW g \in Gens, Continue(g) PROVE PanelTypeOK'
  <2>1. handlers[g] \in Handlers /\ NoHandler \in Handlers
    BY <1>0 DEF Handlers, HandlerStates, HandlerKinds, NoHandler
  <2>2. handlers' \in [Gens -> Handlers] /\ busy' \in BOOLEAN /\ mounted' \in BOOLEAN
    BY <1>0, <1>5, <2>1 DEF Continue, PanelTypeOK
  <2>3. cache["collection"] \in Stamps /\ cache["observed"] \in Stamps
    BY DEF TypeOK, Slots
  <2>4. ASSUME Show(g) PROVE PanelTypeOK'
    BY <2>1, <2>2, <2>3, <2>4 DEF Show, ShowAnyResult, PanelTypeOK, Handlers
  <2> QED BY <1>5, <2>2, <2>4 DEF Continue, PanelTypeOK
<1>6. CASE UNCHANGED panel
  BY <1>6 DEF panel, PanelTypeOK
<1> QED BY <1>3, <1>4, <1>5, <1>6 DEF PanelNext, PanelMicrotask, panelVars

\* What the steps of the panel start from.
PanelBase == SessionInv /\ DueInv /\ LeaseInv /\ PanelInv

\* A handler that called the client is alone in waiting, and the page is empty.
LEMMA AwaitKeeps ==
  ASSUME PanelBase, NEW kind \in HandlerKinds, generation + 1 \in Gens, Await(kind),
         pending' = generation + 1, lease' \in {0, generation + 1},
         UNCHANGED jobs \/ jobs'[generation + 1].wait = generation + 1
  PROVE  OneWait' /\ ShownInv'
<1>1. /\ handlers' \in [Gens -> Handlers]
      /\ handlers'[generation + 1].state = "waiting" /\ handlers'[generation + 1].current
      /\ \A h \in Gens : h # generation + 1 => ~handlers'[h].current
      /\ Blank' /\ busy' /\ UNCHANGED mounted
  BY AwaitEffect DEF PanelBase, PanelInv, PanelTypeOK
<1>2. CurrentHandlers' = {generation + 1}
  BY <1>1 DEF CurrentHandlers
<1>3. OneWait'
  BY <1>1, <1>2 DEF OneWait, Serves
<1>4. generation \in Nat
  BY BoundsAssumption DEF PanelBase, SessionInv, TypeOK
<1>5. \A h \in Gens : h = generation + 1 => ~Running(h)'
  <2>1. jobs[generation + 1].kind = "none"
    BY <1>4 DEF PanelBase, DueInv, JobsAwait
  <2>2. generation + 1 # 0
    BY <1>4
  <2> QED BY <2>1, <2>2 DEF Running
<1>6. ShownInv'
  BY <1>1, <1>2, <1>5 DEF ShownInv, Blank
<1> QED BY <1>3, <1>6

\* Nobody waits, and the page is empty.
LEMMA RestKeeps ==
  ASSUME PanelBase, handlers' = Superseded, Blank', busy' = FALSE, pending' = 0, lease' = 0
  PROVE  OneWait' /\ ShownInv'
<1>1. CurrentHandlers' = {}
  BY SupersededEffect DEF CurrentHandlers, PanelBase, PanelInv, PanelTypeOK
<1>2. OneWait'
  BY <1>1 DEF OneWait
<1>3. ShownInv'
  BY <1>1 DEF ShownInv, Blank
<1> QED BY <1>2, <1>3

\* The controls.
LEMMA PanelKeeps == PanelBase /\ mounted /\ Panel => OneWait' /\ ShownInv'
<1> SUFFICES ASSUME PanelBase, mounted, Panel PROVE OneWait' /\ ShownInv'
  OBVIOUS
<1>0. TypeOK /\ generation \in Nat
  BY BoundsAssumption DEF PanelBase, SessionInv, TypeOK
<1>a. ~busy => pending = 0 /\ lease = 0
  BY DEF PanelBase, PanelInv, OneWait
<1>1. ASSUME Rebuff, UNCHANGED <<pending, lease>>, ~busy PROVE OneWait' /\ ShownInv'
  <2>1. handlers' = Superseded /\ Blank' /\ busy' = FALSE
    BY <1>1 DEF Rebuff, ClearVisible, ClearReplies, Blank, NoView
  <2> QED BY <1>a, <1>1, <2>1, RestKeeps
<1>2. ASSUME NEW kind \in HandlerKinds, NEW req, Exchange(req), Await(kind),
             lease' \in {0, generation + 1}, UNCHANGED jobs \/ jobs'[generation + 1].wait = generation + 1
      PROVE  OneWait' /\ ShownInv'
  BY <1>0, <1>2, StartEffect, AwaitKeeps
<1>3. ASSUME NEW k, NEW sel, NEW q, NEW op, NEW anchor, StartJob(k, sel, q, op, anchor)
      PROVE  (\E req : Exchange(req)) /\ jobs'[generation + 1].wait = generation + 1
  <2> DEFINE j == [kind |-> k, conn |-> conn, anchor |-> anchor, sel |-> sel,
                   seq |-> view.seq + 1, wait |-> generation + 1, next |-> "none"]
  <2>1. j.wait = generation + 1 /\ jobs' = [jobs EXCEPT ![generation + 1] = j]
    BY <1>3 DEF StartJob
  <2> HIDE DEF j
  <2>2. PICK req : Exchange(req)
    BY <1>3 DEF StartJob, Send
  <2>3. generation + 1 \in Gens
    BY <1>0, <2>2, StartEffect
  <2> QED BY <1>0, <2>1, <2>2, <2>3 DEF TypeOK
<1>4. CASE PressConnect
  <2>1. CASE Connect /\ Await("connect")
    BY <1>a, <1>2, <1>4, <2>1 DEF Connect, PressConnect, HandlerKinds
  <2> QED BY <1>1, <1>4, <2>1 DEF PressConnect, Refused, vars
<1>5. ASSUME NEW op \in UserOps, PressSend(op) PROVE OneWait' /\ ShownInv'
  <2>1. CASE Command(op) /\ Await("send")
    BY <1>2, <2>1 DEF Command, CanSend, Send, HandlerKinds
  <2> QED BY <1>1, <1>5, <2>1 DEF PressSend, Refused, vars, enabled
<1>6. ASSUME NEW sel \in BOOLEAN, PressCollectQueries(sel) PROVE OneWait' /\ ShownInv'
  <2>1. CASE CollectQueries(sel) /\ Await("queries")
    <3>1. (\E req : Exchange(req)) /\ jobs'[generation + 1].wait = generation + 1
      BY <1>3, <2>1 DEF CollectQueries
    <3> QED BY <1>2, <2>1, <3>1 DEF CollectQueries, HandlerKinds
  <2> QED BY <1>1, <1>6, <2>1 DEF PressCollectQueries, Refused, vars, CollectBadSelection
<1>7. ASSUME NEW sel \in BOOLEAN, PressCollectObserved(sel) PROVE OneWait' /\ ShownInv'
  <2>1. CASE CollectObserved(sel) /\ Await("observed")
    <3>1. (\E req : Exchange(req)) /\ jobs'[generation + 1].wait = generation + 1
      BY <1>3, <2>1 DEF CollectObserved
    <3> QED BY <1>2, <2>1, <3>1 DEF CollectObserved, HandlerKinds
  <2> QED BY <1>1, <1>7, <2>1 DEF PressCollectObserved, Refused, vars, CollectBadSelection, enabled
<1>8. CASE PressInspectTarget
  <2>1. CASE InspectDeclaredTarget /\ Await("target")
    <3>1. (\E req : Exchange(req)) /\ jobs'[generation + 1].wait = generation + 1
      BY <1>3, <2>1 DEF InspectDeclaredTarget
    <3> QED BY <1>2, <2>1, <3>1 DEF InspectDeclaredTarget, CanSend, HandlerKinds
  <2> QED BY <1>1, <1>8, <2>1 DEF PressInspectTarget, Refused, vars, enabled
<1>9. CASE PressDisconnect
  <2>1. generation + 1 \in Gens
    BY <1>0, <1>9, BoundsAssumption DEF PressDisconnect, Disconnect, TypeOK, Gens
  <2> QED BY <1>9, <2>1, AwaitKeeps DEF PressDisconnect, Disconnect, HandlerKinds
<1>10. CASE ReplaceConnection
  <2>1. handlers' = Superseded /\ Blank' /\ busy' = FALSE /\ pending' = 0 /\ lease' = 0
    BY <1>10 DEF ReplaceConnection, Invalidate, ClearVisible, ClearReplies, Blank, NoView
  <2> QED BY <2>1, RestKeeps
<1>11. CASE EditField
  <2>1. /\ ~busy /\ UNCHANGED <<vars, mounted, busy, targetReply, handlers>>
        /\ ~reply'.live /\ queryCollection' = Nothing /\ observedCollection' = Nothing
    BY <1>11 DEF EditField, enabled, ClearReplies, NoView
  <2>2. OneWait'
    BY <2>1 DEF PanelBase, PanelInv, OneWait, CurrentHandlers, Serves, vars
  <2>3. CurrentHandlers' = {} /\ (Blank' \/ Settled')
    <3>1. CurrentHandlers = {} /\ (Blank \/ Settled)
      BY <2>1 DEF PanelBase, PanelInv, OneWait, ShownInv
    <3> QED BY <2>1, <3>1 DEF CurrentHandlers, Blank, Settled, AllIdle, Running, vars
  <2>4. ShownInv'
    BY <2>1, <2>3 DEF PanelBase, PanelInv, ShownInv, vars
  <2> QED BY <2>2, <2>4
<1>12. CASE Unmount
  BY <1>12 DEF Unmount, OneWait, ShownInv
<1> QED BY <1>4, <1>5, <1>6, <1>7, <1>8, <1>9, <1>10, <1>11, <1>12 DEF Panel

\* A reply is accepted: the exchange was the only one, and nothing was shown.
LEMMA AcceptKeeps ==
  ASSUME PanelBase, NEW g \in Gens, AcceptConnect(g) \/ AcceptReply(g) \/ AcceptDisconnect(g),
         Resolve(g), view' \in Views, UNCHANGED Shown
  PROVE  OneWait' /\ ShownInv'
<1>0. TypeOK /\ handlers \in [Gens -> Handlers]
  BY DEF PanelBase, SessionInv, PanelInv, PanelTypeOK
<1>1. /\ calls[g].stage = "answered" /\ g = generation
      /\ UNCHANGED <<pending, lease>>
      /\ calls' = [calls EXCEPT ![g] = NoCall]
  BY DEF AcceptConnect, AcceptReply, AcceptDisconnect, Answered, Current
<1>2. pending = 0 /\ Alone(g) /\ \A l \in Gens : ~Running(l)
  BY <1>1 DEF PanelBase, SessionInv, OneRequestAtATime, DueInv, DueIsAlone
<1>3. AllIdle'
  BY <1>0, <1>1, <1>2 DEF AllIdle, Alone, TypeOK, NoCall
<1>4. \/ UNCHANGED jobs
      \/ Awaiting(g) # {} /\ \E n : jobs' = Resumed(jobs, g, n)
  BY DEF AcceptConnect, AcceptReply, AcceptDisconnect
<1>5. \A l \in Gens : Running(l)' => l \in Awaiting(g)
  BY <1>0, <1>2, <1>4, ResumedSame DEF Running, Awaiting
<1>6. \A k, l \in Awaiting(g) : k = l
  BY DEF Awaiting, PanelBase, DueInv, JobsAwait
<1>7. g \notin Awaiting(g) => lease # g
  <2> SUFFICES ASSUME lease = g PROVE g \in Awaiting(g)
    OBVIOUS
  <2>1. jobs[g].kind \in {"query", "observed"}
    BY LeaseCases DEF PanelBase
  <2> QED BY <1>1, <2>1 DEF Awaiting, PanelBase, PanelInv, FirstAwaited
<1> DEFINE same(h) == handlers'[h].current = handlers[h].current
           ended(h) == h = g /\ Awaiting(g) = {}
<1>8. \A h \in Gens :
        /\ same(h) /\ (handlers[h].state # "waiting" => handlers'[h] = handlers[h])
        /\ handlers[h].state = "waiting" /\ ~ended(h) => handlers'[h].state = "waiting"
        /\ handlers[h].state = "waiting" /\ ended(h) =>
             handlers'[h].state = "resolved" /\ handlers'[h].value = view'
        /\ handlers[h].state = "waiting" /\ h \in Awaiting(g) => handlers'[h].value = view'
  BY <1>0, ResolveEffect
<1>9. CurrentHandlers' = CurrentHandlers
  BY <1>8 DEF CurrentHandlers
<1>10. mounted' = mounted /\ busy' = busy
  BY DEF Shown
<1>11. OneWait'
  <2> SUFFICES ASSUME mounted, lease # 0
               PROVE  lease \in CurrentHandlers /\ handlers'[lease].state = "waiting"
    BY <1>1, <1>2, <1>9, <1>10 DEF PanelBase, PanelInv, OneWait
  <2>1. lease \in CurrentHandlers /\ handlers[lease].state = "waiting"
    BY DEF PanelBase, PanelInv, OneWait
  <2>2. lease \in Gens
    BY <2>1 DEF CurrentHandlers
  <2> QED BY <1>7, <1>8, <2>1, <2>2
<1>12. ShownInv'
  <2> SUFFICES ASSUME mounted PROVE ShownInv'
    BY <1>10 DEF ShownInv
  <2>1. ~AllIdle
    BY <1>1 DEF AllIdle
  <2>2. Blank
    BY <2>1 DEF PanelBase, PanelInv, ShownInv, Settled
  <2>3. Blank'
    BY <2>2 DEF Shown, Blank
  <2>4. ASSUME NEW h \in CurrentHandlers, handlers'[h].state = "resolved"
        PROVE  Settled' /\ handlers'[h].value = view'
    <3>1. h \in Gens /\ handlers[h].state # "resolved"
      BY <2>1 DEF CurrentHandlers, PanelBase, PanelInv, ShownInv, Settled
    <3>2. Awaiting(g) = {} /\ handlers'[h].value = view'
      BY <1>8, <2>4, <3>1
    <3> QED BY <1>3, <1>5, <3>2 DEF Settled
  <2>5. ASSUME NEW h \in CurrentHandlers, handlers'[h].state = "waiting", Running(h)'
        PROVE  AllIdle' /\ (\A k \in Gens : k # h => ~Running(k)') /\ handlers'[h].value = view'
    <3>1. h \in Gens /\ h \in Awaiting(g)
      BY <1>5, <2>5 DEF CurrentHandlers
    <3>2. handlers[h].state = "waiting"
      BY <1>8, <2>5, <3>1
    <3> QED BY <1>3, <1>5, <1>6, <1>8, <3>1, <3>2
  <2> QED BY <1>9, <2>3, <2>4, <2>5 DEF ShownInv, Blank
<1> QED BY <1>11, <1>12

\* An exchange rejects, and with it what awaited it.
LEMMA RejectKeeps ==
  ASSUME PanelBase, NEW g \in Gens, calls[g].stage # "idle", Reject(g), UNCHANGED <<lease, Shown>>,
         pending' \in {0, pending}, pending' # g,
         UNCHANGED jobs \/ jobs' = Rejected(jobs, g)
  PROVE  OneWait' /\ ShownInv'
<1>0. TypeOK /\ handlers \in [Gens -> Handlers]
  BY DEF PanelBase, SessionInv, PanelInv, PanelTypeOK
<1>1. \A h \in Gens :
        /\ handlers'[h].current = handlers[h].current /\ handlers'[h].value = handlers[h].value
        /\ handlers'[h].state = handlers[h].state
           \/ (handlers[h].state = "waiting" /\ handlers'[h].state = "rejected")
        /\ ~(h = g /\ Awaiting(g) = {}) /\ ~(h \in Awaiting(g) /\ jobs[h].kind = "target") =>
             handlers'[h].state = handlers[h].state
  BY <1>0, RejectEffect
<1>2. CurrentHandlers' = CurrentHandlers
  BY <1>1 DEF CurrentHandlers
<1>3. mounted' = mounted /\ busy' = busy
  BY DEF Shown
<1>4. \A h \in Gens : h \notin Awaiting(g) => jobs'[h] = jobs[h]
  BY <1>0, RejectedJobs DEF Awaiting
<1>5. \A h \in Gens : h \in Awaiting(g) =>
        jobs'[h] = jobs[h] \/ jobs'[h].kind = "none" \/ jobs'[h].next = "fail"
  BY <1>0, RejectedJobs DEF Awaiting
<1>6. jobs[g].kind # "none" => g \in Awaiting(g)
  BY DEF Awaiting, PanelBase, PanelInv, FirstAwaited
<1>7. ASSUME NEW h \in Gens, pending' # 0, Serves(h)
      PROVE  h \notin Awaiting(g) /\ ~(h = g /\ Awaiting(g) = {})
  <2>1. pending' = pending /\ calls[pending].stage # "idle"
    BY <1>7 DEF PanelBase, SessionInv, OneRequestAtATime
  <2>2. h \notin Awaiting(g)
    <3> SUFFICES ASSUME h \in Awaiting(g) PROVE FALSE
      OBVIOUS
    <3>1. jobs[h].kind # "none" /\ jobs[h].wait = g
      BY DEF Awaiting
    <3>2. pending = h
      BY <1>7, <2>1, <3>1 DEF Serves
    <3> QED BY <1>7, <2>1, <3>1, <3>2 DEF PanelBase, PanelInv, FirstAwaited
  <2>3. h = g => Awaiting(g) # {}
    BY <1>6, <1>7, <2>1, <2>2 DEF Serves
  <2> QED BY <2>2, <2>3
<1>8. ASSUME lease \in Gens
      PROVE  ~(lease = g /\ Awaiting(g) = {}) /\ ~(lease \in Awaiting(g) /\ jobs[lease].kind = "target")
  <2>1. jobs[lease].kind \in {"query", "observed"}
    BY <1>8, LeaseCases DEF PanelBase
  <2> QED BY <1>6, <2>1
<1>9. OneWait'
  <2>1. ASSUME mounted, pending' # 0
        PROVE  \E h \in CurrentHandlers : handlers'[h].state = "waiting" /\ Serves(h)'
    <3>1. pending' = pending
      BY <2>1
    <3>2. PICK h \in CurrentHandlers : handlers[h].state = "waiting" /\ Serves(h)
      BY <2>1, <3>1 DEF PanelBase, PanelInv, OneWait
    <3>3. h \in Gens
      BY DEF CurrentHandlers
    <3>4. handlers'[h].state = "waiting" /\ jobs'[h] = jobs[h]
      BY <1>1, <1>4, <1>7, <2>1, <3>2, <3>3
    <3>5. Serves(h)'
      BY <3>1, <3>2, <3>4 DEF Serves
    <3> QED BY <3>4, <3>5
  <2>2. ASSUME mounted, lease # 0
        PROVE  lease \in CurrentHandlers /\ handlers'[lease].state = "waiting"
    <3>1. lease \in CurrentHandlers /\ handlers[lease].state = "waiting"
      BY <2>2 DEF PanelBase, PanelInv, OneWait
    <3>2. lease \in Gens
      BY <3>1 DEF CurrentHandlers
    <3> QED BY <1>1, <1>8, <3>1, <3>2
  <2> QED BY <1>2, <1>3, <2>1, <2>2 DEF PanelBase, PanelInv, OneWait
<1>10. ShownInv'
  <2> SUFFICES ASSUME mounted PROVE ShownInv'
    BY <1>3 DEF ShownInv
  <2>1. ~AllIdle
    BY DEF AllIdle
  <2>2. Blank
    BY <2>1 DEF PanelBase, PanelInv, ShownInv, Settled
  <2>3. Blank'
    BY <2>2 DEF Shown, Blank
  <2>4. \A h \in CurrentHandlers : handlers'[h].state # "resolved"
    BY <1>1, <2>1 DEF CurrentHandlers, PanelBase, PanelInv, ShownInv, Settled
  <2>5. ASSUME NEW h \in CurrentHandlers, handlers'[h].state = "waiting", Running(h)', jobs'[h].next # "fail"
        PROVE  FALSE
    <3>1. h \in Gens /\ handlers[h].state = "waiting"
      BY <1>1, <2>5 DEF CurrentHandlers
    <3>2. jobs'[h] = jobs[h]
      BY <1>4, <1>5, <2>5, <3>1 DEF Running
    <3>3. Running(h) /\ jobs[h].next # "fail"
      BY <2>5, <3>2 DEF Running
    <3> QED BY <2>1, <3>1, <3>3 DEF PanelBase, PanelInv, ShownInv
  <2> QED BY <1>2, <2>3, <2>4, <2>5 DEF ShownInv, Blank
<1> QED BY <1>9, <1>10

\* A response or a timer: nothing was shown, and no handler goes on yet.
LEMMA TaskKeeps ==
  ASSUME PanelBase, NEW g \in Gens, Timeout(g) \/ Deliver(g), UNCHANGED handlers, UNCHANGED Shown
  PROVE  OneWait' /\ ShownInv'
<1>1. calls[g].stage = "wire" /\ UNCHANGED <<jobs, lease, view, cache>> /\ pending' \in {0, pending}
  BY DEF Timeout, Deliver, client
<1>2. UNCHANGED <<mounted, busy, reply, queryCollection, observedCollection, targetReply, handlers>>
  BY DEF Shown
<1>3. CurrentHandlers' = CurrentHandlers
  BY <1>2 DEF CurrentHandlers
<1>4. pending' # 0 => \A h \in Gens : Serves(h) => Serves(h)'
  BY <1>1 DEF Serves
<1>5. OneWait'
  <2>1. mounted' /\ pending' # 0 => \E h \in CurrentHandlers : handlers'[h].state = "waiting" /\ Serves(h)'
    BY <1>1, <1>2, <1>4 DEF PanelBase, PanelInv, OneWait, CurrentHandlers
  <2> QED BY <1>1, <1>2, <1>3, <2>1 DEF PanelBase, PanelInv, OneWait
<1>6. ShownInv'
  <2>1. ~AllIdle
    BY <1>1 DEF AllIdle
  <2>2. mounted => Blank /\ \A h \in CurrentHandlers :
          handlers[h].state # "resolved" /\ (handlers[h].state = "waiting" /\ Running(h) => jobs[h].next = "fail")
    BY <2>1 DEF PanelBase, PanelInv, ShownInv, Settled
  <2> QED BY <1>1, <1>2, <1>3, <2>2 DEF ShownInv, Blank, Running
<1> QED BY <1>5, <1>6

\* A collector goes on: its handler is the one that waits.
LEMMA JobSendKeeps ==
  ASSUME PanelBase, NEW l \in Gens, JobSend(l), UNCHANGED handlers, UNCHANGED Shown
  PROVE  OneWait' /\ ShownInv'
<1>0. TypeOK /\ generation \in Nat
  BY BoundsAssumption DEF PanelBase, SessionInv, TypeOK
<1>1. /\ Running(l) /\ lease = l /\ UNCHANGED lease
      /\ pending' = generation + 1 /\ generation + 1 # 0
  BY <1>0 DEF JobSend, MaySend, CanSend, Send, Exchange
<1>2. /\ jobs'[l].kind # "none" /\ jobs'[l].wait = generation + 1
      /\ \A h \in Gens : h # l => jobs'[h] = jobs[h]
  BY <1>0, <1>1 DEF JobSend, Running, TypeOK, Jobs
<1>3. UNCHANGED <<mounted, busy, reply, queryCollection, observedCollection, targetReply, handlers>>
  BY DEF Shown
<1>4. CurrentHandlers' = CurrentHandlers
  BY <1>3 DEF CurrentHandlers
<1>5. Serves(l)'
  BY <1>1, <1>2 DEF Serves
<1>6. OneWait'
  <2>1. mounted => l \in CurrentHandlers /\ handlers[l].state = "waiting"
    BY <1>0, <1>1, BoundsAssumption DEF PanelBase, PanelInv, OneWait, Gens
  <2> QED BY <1>1, <1>3, <1>4, <1>5, <2>1 DEF PanelBase, PanelInv, OneWait
<1>7. ShownInv'
  <2>1. mounted => Blank /\ \A h \in CurrentHandlers :
          /\ handlers[h].state # "resolved"
          /\ handlers[h].state = "waiting" /\ Running(h) /\ jobs[h].next # "fail" => h = l
    BY <1>1 DEF PanelBase, PanelInv, ShownInv, Settled
  <2>2. \A h \in CurrentHandlers : Running(h)' => Running(h) /\ jobs'[h] = jobs[h] /\ h # l
    BY <1>1, <1>2 DEF Running, CurrentHandlers
  <2> QED BY <1>3, <1>4, <2>1, <2>2 DEF ShownInv, Blank
<1> QED BY <1>6, <1>7

\* A collector ends.
LEMMA JobEndKeeps ==
  ASSUME PanelBase, NEW l \in Gens, UNCHANGED Shown,
         (JobReturn(l) /\ Finish(l, "resolved")) \/ (JobFail(l) /\ Finish(l, "rejected"))
  PROVE  OneWait' /\ ShownInv'
<1>0. TypeOK /\ handlers \in [Gens -> Handlers]
  BY DEF PanelBase, SessionInv, PanelInv, PanelTypeOK
<1>1. /\ Running(l) /\ UNCHANGED <<pending, view, calls>>
      /\ lease' = IF lease = l THEN 0 ELSE lease
      /\ jobs' = [jobs EXCEPT ![l] = NoJob]
  BY DEF JobReturn, JobFail, Release
<1>2. ~Running(l)' /\ \A h \in Gens : h # l => jobs'[h] = jobs[h]
  BY <1>0, <1>1 DEF TypeOK, NoJob, Running
<1>3. UNCHANGED <<mounted, busy, reply, queryCollection, observedCollection, targetReply>>
  BY DEF Shown
<1>4. \A h \in Gens :
        /\ handlers'[h].current = handlers[h].current /\ handlers'[h].value = handlers[h].value
        /\ h # l \/ handlers[h].state # "waiting" => handlers'[h].state = handlers[h].state
  BY <1>0, FinishEffect DEF HandlerStates
<1>5. handlers[l].state = "waiting" =>
        \/ handlers'[l].state = "resolved" /\ jobs[l].next # "fail"
        \/ handlers'[l].state = "rejected"
  BY <1>0, FinishEffect DEF HandlerStates, JobReturn, MayReturn
<1>6. CurrentHandlers' = CurrentHandlers
  BY <1>4, <1>5 DEF CurrentHandlers
<1>7. pending # 0 => ~Serves(l)
  <2> SUFFICES ASSUME pending # 0, Serves(l) PROVE FALSE
    OBVIOUS
  <2>1. pending = l /\ calls[l].stage # "idle"
    BY <1>1 DEF Serves, Running, PanelBase, SessionInv, OneRequestAtATime
  <2> QED BY <1>1, <2>1 DEF Running, PanelBase, PanelInv, FirstAwaited
<1>8. OneWait'
  <2>1. ASSUME mounted, pending # 0
        PROVE  \E h \in CurrentHandlers : handlers'[h].state = "waiting" /\ Serves(h)'
    <3>1. PICK h \in CurrentHandlers : handlers[h].state = "waiting" /\ Serves(h)
      BY <2>1 DEF PanelBase, PanelInv, OneWait
    <3>2. h \in Gens /\ h # l
      BY <1>7, <2>1, <3>1 DEF CurrentHandlers
    <3>3. handlers'[h].state = "waiting" /\ jobs'[h] = jobs[h]
      BY <1>2, <1>4, <3>1, <3>2
    <3>4. Serves(h)'
      BY <1>1, <3>1, <3>3 DEF Serves
    <3> QED BY <3>3, <3>4
  <2>2. ASSUME mounted, lease' # 0
        PROVE  lease' \in CurrentHandlers /\ handlers'[lease'].state = "waiting"
    <3>1. lease' = lease /\ lease # l
      BY <1>1, <2>2
    <3>2. lease \in CurrentHandlers /\ handlers[lease].state = "waiting"
      BY <2>2, <3>1 DEF PanelBase, PanelInv, OneWait
    <3>3. lease \in Gens
      BY <3>2 DEF CurrentHandlers
    <3> QED BY <1>4, <3>1, <3>2, <3>3
  <2> QED BY <1>1, <1>3, <1>6, <2>1, <2>2 DEF PanelBase, PanelInv, OneWait
<1>9. ShownInv'
  <2> SUFFICES ASSUME mounted PROVE ShownInv'
    BY <1>3 DEF ShownInv
  <2>1. Blank /\ \A h \in CurrentHandlers : handlers[h].state # "resolved"
    BY <1>1 DEF PanelBase, PanelInv, ShownInv, Settled
  <2>2. Blank'
    BY <1>3, <2>1 DEF Blank
  <2>3. ASSUME NEW h \in CurrentHandlers, handlers'[h].state = "resolved"
        PROVE  Settled' /\ handlers'[h].value = view'
    <3>1. h \in Gens /\ h = l /\ handlers[l].state = "waiting" /\ jobs[l].next # "fail"
      BY <1>4, <1>5, <2>1, <2>3 DEF CurrentHandlers
    <3>2. AllIdle /\ (\A k \in Gens : k # l => ~Running(k)) /\ handlers[l].value = view
      BY <1>1, <2>3, <3>1 DEF PanelBase, PanelInv, ShownInv
    <3>3. AllIdle'
      BY <1>1, <3>2 DEF AllIdle
    <3>4. \A k \in Gens : ~Running(k)'
      BY <1>2, <3>2 DEF Running
    <3> QED BY <1>1, <1>4, <3>1, <3>2, <3>3, <3>4 DEF Settled
  <2>4. ASSUME NEW h \in CurrentHandlers, handlers'[h].state = "waiting", Running(h)', jobs'[h].next # "fail"
        PROVE  FALSE
    <3>1. h \in Gens /\ h # l /\ handlers[h].state = "waiting"
      BY <1>2, <1>4, <2>4 DEF CurrentHandlers
    <3>2. Running(h) /\ jobs[h].next # "fail"
      BY <1>2, <2>4, <3>1 DEF Running
    <3> QED BY <1>1, <2>4, <3>1, <3>2 DEF PanelBase, PanelInv, ShownInv
  <2> QED BY <1>6, <2>2, <2>3, <2>4 DEF ShownInv, Blank
<1> QED BY <1>8, <1>9

\* The rest of a handler: only the current one shows what it has.
LEMMA ContinueKeeps ==
  ASSUME PanelBase, NEW g \in Gens, Continue(g)
  PROVE  OneWait' /\ ShownInv'
<1>0. handlers \in [Gens -> Handlers] /\ busy \in BOOLEAN
  BY DEF PanelBase, PanelInv, PanelTypeOK
<1>1. /\ handlers[g].state \in {"resolved", "rejected"}
      /\ UNCHANGED <<pending, lease, jobs, calls, view, cache, mounted>>
      /\ handlers'[g].state = "none" /\ \A h \in Gens : h # g => handlers'[h] = handlers[h]
      /\ busy' = IF handlers[g].current THEN FALSE ELSE busy
  BY <1>0 DEF Continue, vars, NoHandler
<1> SUFFICES ASSUME mounted PROVE OneWait' /\ ShownInv'
  BY <1>1 DEF OneWait, ShownInv
<1>2. CASE handlers[g].current
  <2>1. g \in CurrentHandlers /\ \A h \in CurrentHandlers : h = g
    BY <1>1, <1>2 DEF CurrentHandlers, PanelBase, PanelInv, OneWait
  <2>2. CurrentHandlers' = {} /\ busy' = FALSE
    BY <1>1, <1>2, <2>1 DEF CurrentHandlers
  <2>3. pending = 0 /\ lease = 0
    BY <1>1, <2>1 DEF PanelBase, PanelInv, OneWait
  <2>4. OneWait'
    BY <1>1, <2>2, <2>3 DEF OneWait
  <2>5. Blank
    BY <2>1 DEF PanelBase, PanelInv, OneWait, ShownInv
  <2>6. CASE handlers[g].state = "rejected"
    <3>1. Blank'
      BY <2>5, <2>6 DEF Continue, Blank
    <3> QED BY <2>2, <2>4, <3>1 DEF ShownInv, Blank
  <2>7. CASE handlers[g].state = "resolved"
    <3>1. Settled /\ handlers[g].value = view
      BY <2>1, <2>7 DEF PanelBase, PanelInv, ShownInv
    <3>2. Settled'
      BY <1>1, <3>1 DEF Settled, AllIdle, Running
    <3>3. ShowAnyResult(g)
      BY <1>2, <2>7 DEF Continue, Show
    <3>4. /\ reply'.live => view = reply'
          /\ queryCollection' # Nothing => queryCollection' = cache["collection"]
          /\ observedCollection' # Nothing => observedCollection' = cache["observed"]
          /\ targetReply' # Nothing => targetReply' = cache["observed"]
      BY <2>5, <3>1, <3>3 DEF ShowAnyResult, Blank
    <3> QED BY <1>1, <2>2, <2>4, <3>2, <3>4 DEF ShownInv
  <2> QED BY <1>1, <2>6, <2>7
<1>3. CASE ~handlers[g].current
  <2>1. UNCHANGED <<reply, queryCollection, observedCollection, targetReply, busy>>
    BY <1>1, <1>3 DEF Continue, Show
  <2>2. CurrentHandlers' = CurrentHandlers /\ g \notin CurrentHandlers
    BY <1>1, <1>3 DEF CurrentHandlers
  <2>3. \A h \in CurrentHandlers : handlers'[h] = handlers[h]
    BY <1>1, <2>2 DEF CurrentHandlers
  <2>4. OneWait'
    <3>1. \A h : Serves(h)' <=> Serves(h)
      BY <1>1 DEF Serves
    <3>2. /\ busy <=> CurrentHandlers # {}
          /\ \A h, k \in CurrentHandlers : h = k
          /\ pending # 0 => \E h \in CurrentHandlers : handlers[h].state = "waiting" /\ Serves(h)
          /\ lease # 0 => lease \in CurrentHandlers /\ handlers[lease].state = "waiting"
      BY DEF PanelBase, PanelInv, OneWait
    <3>3. pending' # 0 => \E h \in CurrentHandlers : handlers'[h].state = "waiting" /\ Serves(h)'
      BY <1>1, <2>3, <3>1, <3>2
    <3>4. lease' # 0 => lease' \in CurrentHandlers /\ handlers'[lease'].state = "waiting"
      BY <1>1, <2>3, <3>2
    <3>5. pending' # 0 => \E h \in CurrentHandlers' : handlers'[h].state = "waiting" /\ Serves(h)'
      BY <2>2, <3>3
    <3>6. lease' # 0 => lease' \in CurrentHandlers' /\ handlers'[lease'].state = "waiting"
      BY <2>2, <3>4
    <3>7. (busy' <=> CurrentHandlers' # {}) /\ \A h, k \in CurrentHandlers' : h = k
      BY <2>1, <2>2, <3>2
    <3> QED BY <3>5, <3>6, <3>7 DEF OneWait
  <2>5. ShownInv'
    <3>1. /\ Settled' <=> Settled
          /\ AllIdle' <=> AllIdle
          /\ \A h : Running(h)' <=> Running(h)
          /\ Blank' <=> Blank
      BY <1>1, <2>1 DEF Settled, AllIdle, Running, Blank
    <3> QED BY <1>1, <2>1, <2>2, <2>3, <3>1 DEF PanelBase, PanelInv, ShownInv
  <2> QED BY <2>4, <2>5
<1> QED BY <1>2, <1>3

\* The bridge, which the panel cannot see.
LEMMA BridgeKeeps ==
  ASSUME PanelBase, UNCHANGED <<pending, lease, jobs, view, cache, panel>>,
         \A h \in Gens : calls'[h].stage = calls[h].stage
  PROVE  OneWait' /\ ShownInv'
<1>1. UNCHANGED <<mounted, busy, reply, queryCollection, observedCollection, targetReply, handlers>>
  BY DEF panel
<1>2. CurrentHandlers' = CurrentHandlers
  BY <1>1 DEF CurrentHandlers
<1>3. OneWait'
  <2>1. \A h : Serves(h)' <=> Serves(h)
    BY DEF Serves
  <2> QED BY <1>1, <1>2, <2>1 DEF PanelBase, PanelInv, OneWait
<1>4. ShownInv'
  <2>1. /\ Settled' <=> Settled
        /\ AllIdle' <=> AllIdle
        /\ \A h : Running(h)' <=> Running(h)
        /\ Blank' <=> Blank
    BY <1>1 DEF Settled, AllIdle, Running, Blank
  <2> QED BY <1>1, <1>2, <2>1 DEF PanelBase, PanelInv, ShownInv
<1> QED BY <1>3, <1>4

\* No step of the panel or of its client breaks what the panel knows of it.
LEMMA PanelInductive == PanelBase /\ TypeOK' /\ [PanelNext]_panelVars => PanelInv'
<1> SUFFICES ASSUME PanelBase, TypeOK', [PanelNext]_panelVars PROVE PanelInv'
  OBVIOUS
<1>1. PanelTypeOK'
  BY PanelTypeInductive DEF PanelBase, SessionInv, PanelInv
<1>2. FirstAwaited'
  BY PanelSteps, FirstInductive DEF PanelBase, PanelInv
<1>3. view' \in Views
  BY DEF TypeOK
<1>4. ASSUME NEW g \in Gens, ClientStep(g) PROVE OneWait' /\ ShownInv'
  <2>1. UNCHANGED Shown
    BY <1>4 DEF ClientStep
  <2>2. CASE (AcceptConnect(g) \/ AcceptReply(g) \/ AcceptDisconnect(g)) /\ Resolve(g)
    BY <1>3, <2>1, <2>2, AcceptKeeps
  <2>3. CASE (Unwind(g) \/ RejectConnect(g) \/ RejectReply(g) \/ RejectDisconnect(g)) /\ Reject(g)
    <3>1. CASE Unwind(g)
      <4>1. /\ calls[g].stage # "idle" /\ jobs' = Rejected(jobs, g) /\ UNCHANGED lease
            /\ pending' = IF pending = g THEN 0 ELSE pending
        BY <3>1 DEF Unwind, Fail
      <4>2. pending' # g
        BY <4>1, BoundsAssumption DEF Gens
      <4> QED BY <2>1, <2>3, <4>1, <4>2, RejectKeeps
    <3>2. CASE RejectConnect(g) \/ RejectReply(g) \/ RejectDisconnect(g)
      <4>1. /\ calls[g].stage = "answered" /\ UNCHANGED <<lease, pending>>
            /\ UNCHANGED jobs \/ jobs' = Rejected(jobs, g)
        BY <3>2 DEF RejectConnect, RejectReply, RejectDisconnect, Answered
      <4>2. pending' # g
        BY <4>1, BoundsAssumption DEF PanelBase, SessionInv, OneRequestAtATime, Gens
      <4> QED BY <2>1, <2>3, <4>1, <4>2, RejectKeeps
    <3> QED BY <2>3, <3>1, <3>2
  <2>4. CASE JobSend(g) /\ UNCHANGED handlers
    BY <2>1, <2>4, JobSendKeeps
  <2> QED BY <1>4, <2>1, <2>2, <2>3, <2>4, JobEndKeeps DEF ClientStep
<1>5. ASSUME NEW g \in Gens, ClientTask(g) PROVE OneWait' /\ ShownInv'
  <2>1. UNCHANGED Shown
    BY <1>5 DEF ClientTask
  <2>2. CASE DeliverFailure(g) /\ Reject(g)
    <3>1. /\ calls[g].stage = "wire" /\ jobs' = Rejected(jobs, g) /\ UNCHANGED lease
          /\ pending' = IF pending = g THEN 0 ELSE pending
      BY <2>2 DEF DeliverFailure, Fail
    <3>2. pending' # g
      BY <3>1, BoundsAssumption DEF Gens
    <3> QED BY <2>1, <2>2, <3>1, <3>2, RejectKeeps
  <2> QED BY <1>5, <2>1, <2>2, TaskKeeps DEF ClientTask
<1>6. ASSUME Environment, UNCHANGED panel PROVE OneWait' /\ ShownInv'
  <2>1. \A h \in Gens : calls'[h].stage = calls[h].stage
    BY <1>6, AnswerKeepsCalls DEF PanelBase, SessionInv
  <2>2. UNCHANGED <<pending, lease, jobs, view, cache>>
    BY <1>6 DEF Environment, ServeConnect, ServeCommand, ServeDisconnect, BridgeStops, client
  <2> QED BY <1>6, <2>1, <2>2, BridgeKeeps
<1>7. ASSUME UNCHANGED panelVars PROVE OneWait' /\ ShownInv'
  BY <1>7, BridgeKeeps DEF panelVars, vars
<1>8. OneWait' /\ ShownInv'
  BY <1>4, <1>5, <1>6, <1>7, PanelKeeps, ContinueKeeps DEF PanelNext, PanelMicrotask
<1> QED BY <1>1, <1>2, <1>8 DEF PanelInv

\* Nothing waits and nothing is shown when the page opens.
LEMMA PanelInitial == PanelInit => PanelInv
<1> SUFFICES ASSUME PanelInit PROVE PanelInv
  OBVIOUS
<1>1. NoHandler \in Handlers
  BY ConstantTypes DEF NoHandler, Handlers, HandlerStates, HandlerKinds
<1>2. PanelTypeOK
  BY <1>1, ConstantTypes DEF PanelInit, PanelTypeOK
<1>3. FirstAwaited
  BY DEF PanelInit, Init, FirstAwaited, NoJob
<1>4. CurrentHandlers = {}
  BY DEF PanelInit, CurrentHandlers, NoHandler
<1>5. OneWait /\ ShownInv
  BY <1>4 DEF PanelInit, Init, OneWait, ShownInv, Blank, NoView
<1> QED BY <1>2, <1>3, <1>5 DEF PanelInv

\* The inductive invariant of the panel: pending and lease belong to the one
\* handler it has not superseded, the page is empty while that handler waits, and
\* what is shown later is the view and the observations of a client come to rest.
THEOREM PanelInvariant == PanelSpec => []PanelInv
<1>1. SessionInv => TypeOK
  BY DEF SessionInv
<1>2. SessionInv /\ DueInv /\ LeaseInv /\ TypeOK' /\ PanelInv /\ [PanelNext]_panelVars => PanelInv'
  BY PanelInductive DEF PanelBase
<1>3. PanelSpec => [](SessionInv /\ DueInv /\ LeaseInv)
  BY PanelUsesClient, SessionInvariant, DueInvariant, LeaseInvariant, PTL
<1> QED BY <1>1, <1>2, <1>3, PanelInitial, PTL DEF PanelSpec

\* The panel is busy exactly while the one handler it has not superseded awaits
\* the client, and never idle while an exchange or a collection is under way.
THEOREM BusyAlwaysAwaits == PanelSpec => []BusyIsAwaiting
<1>1. PanelInv => BusyIsAwaiting
  BY DEF PanelInv, OneWait, BusyIsAwaiting
<1> QED BY <1>1, PanelInvariant, PTL

\* Nothing shown outlives what it shows, for any number of handlers superseded
\* while they waited: page, client and debugged program are at one revision.
THEOREM ShownIsAlwaysCurrent == PanelSpec => []ShownIsCurrent
<1>1. PanelInv /\ ViewMirrorsBridge /\ NoStaleObservation => ShownIsCurrent
  <2> SUFFICES ASSUME PanelInv, ViewMirrorsBridge, NoStaleObservation, mounted PROVE ShownIsCurrent
    BY DEF ShownIsCurrent
  <2>1. /\ reply.live => view = reply
        /\ queryCollection # Nothing => queryCollection = cache["collection"]
        /\ observedCollection # Nothing => observedCollection = cache["observed"]
        /\ targetReply # Nothing => targetReply = cache["observed"]
    BY DEF PanelInv, ShownInv
  <2>2. \A s \in Slots : Fresh(cache[s])
    BY DEF NoStaleObservation, Fresh
  <2>3. Fresh(queryCollection) /\ Fresh(observedCollection) /\ Fresh(targetReply)
    BY <2>1, <2>2 DEF Slots, Fresh
  <2>4. reply.live => Fresh([conn |-> conn, rev |-> reply.rev])
    BY <2>1 DEF ViewMirrorsBridge, Fresh
  <2> QED BY <2>1, <2>3, <2>4 DEF ShownIsCurrent
<1> QED BY <1>1, PanelInvariant, PanelUsesClient, ViewAlwaysMirrors, ObservationsAreFresh, PTL

(***************************************************************************)
(* What a handler of the panel, and a lease, wait for is under way or due.   *)
(***************************************************************************)
\* An exchange under way has its timer armed, or its end is due.
UnderWay(g) == calls[g].stage # "idle"

\* The handler's own exchange is under way, or its collector is due, or is at an
\* exchange that is under way.
IsServed(h) == \/ UnderWay(h) \/ Running(h)
              \/ \E g \in Gens : jobs[h].kind # "none" /\ jobs[h].wait = g /\ UnderWay(g)

\* No handler, superseded or not, waits for a promise that nothing is left to settle.
WaitIsServed == \A h \in Gens : handlers[h].state = "waiting" => IsServed(h)

\* No generation is ahead of the client's, what a handler waits for is an exchange
\* or a collector of its own generation, and no collector awaits the exchange that
\* another handler waits for.
WaitInv == \A h \in Gens :
  /\ handlers[h].state # "none" => h <= generation
  /\ handlers[h].state = "waiting" => calls[h].stage # "idle" \/ jobs[h].kind # "none"
  /\ \A l \in Gens : jobs[l].kind # "none" /\ jobs[l].wait = h /\ h # l => handlers[h].state = "none"

\* clearVisible supersedes handlers and ends none.
LEMMA SupersededWaits ==
  ASSUME handlers \in [Gens -> Handlers], NEW h \in Gens
  PROVE  Superseded[h].state = handlers[h].state
<1>1. Superseded[h] = [handlers[h] EXCEPT !.current = FALSE]
  BY DEF Superseded
<1> QED BY <1>1 DEF Handlers

\* A step that ends no exchange and no collector leaves what is waited for.
LEMMA WaitStays ==
  ASSUME WaitInv, generation \in Nat, generation' \in {generation, generation + 1}, UNCHANGED jobs,
         \A h \in Gens : handlers'[h].state \in {"none", handlers[h].state},
         \A h \in Gens : calls[h].stage # "idle" => calls'[h].stage # "idle"
  PROVE  WaitInv'
<1>1. \A h \in Gens : h <= generation => h <= generation'
  BY BoundsAssumption DEF Gens
<1> QED BY <1>1 DEF WaitInv

\* The control that calls the client waits for the exchange it starts.
LEMMA WaitStarts ==
  ASSUME PanelBase, WaitInv, NEW kind \in HandlerKinds, Await(kind), generation + 1 \in Gens,
         generation' = generation + 1,
         calls'[generation + 1].stage # "idle",
         \A h \in Gens : calls[h].stage # "idle" => calls'[h].stage # "idle",
         \A l \in Gens : l # generation + 1 => jobs'[l] = jobs[l],
         jobs'[generation + 1].kind = "none" \/ jobs'[generation + 1].wait = generation + 1
  PROVE  WaitInv'
<1>0. handlers \in [Gens -> Handlers] /\ generation \in Nat
  BY BoundsAssumption DEF PanelBase, PanelInv, PanelTypeOK, SessionInv, TypeOK
<1>1. \A h \in Gens : h # generation + 1 => handlers'[h].state = handlers[h].state
  <2>1. \A h \in Gens : h # generation + 1 => handlers'[h] = Superseded[h]
    BY <1>0, SupersededEffect DEF Await
  <2> QED BY <1>0, <2>1, SupersededWaits
<1>2. calls[generation + 1].stage = "idle" /\ jobs[generation + 1].kind = "none"
  BY <1>0 DEF PanelBase, SessionInv, CallsAreAddressed, DueInv, JobsAwait
<1>3. \A l \in Gens : jobs[l].kind # "none" => jobs[l].wait # generation + 1
  BY <1>2 DEF PanelBase, DueInv, JobsAwait
<1> SUFFICES ASSUME NEW h \in Gens
             PROVE  /\ handlers'[h].state # "none" => h <= generation + 1
                    /\ handlers'[h].state = "waiting" => calls'[h].stage # "idle" \/ jobs'[h].kind # "none"
                    /\ \A l \in Gens : jobs'[l].kind # "none" /\ jobs'[l].wait = h /\ h # l =>
                         handlers'[h].state = "none"
  BY DEF WaitInv
<1>4. h \in Nat
  BY BoundsAssumption DEF Gens
<1>5. CASE h = generation + 1
  BY <1>0, <1>3, <1>5
<1>6. CASE h # generation + 1
  <2>1. /\ handlers[h].state # "none" => h <= generation
        /\ handlers[h].state = "waiting" => calls[h].stage # "idle" \/ jobs[h].kind # "none"
        /\ \A l \in Gens : jobs[l].kind # "none" /\ jobs[l].wait = h /\ h # l => handlers[h].state = "none"
    BY DEF WaitInv
  <2> QED BY <1>0, <1>1, <1>4, <1>6, <2>1
<1> QED BY <1>5, <1>6

\* When an exchange ends, so does the wait of whom it was for, unless a collector goes on.
LEMMA WaitEnds ==
  ASSUME WaitInv, NEW g \in Gens, UNCHANGED generation,
         \A h \in Gens : h # g => calls'[h] = calls[h],
         \A h \in Gens : handlers[h].state = "none" => handlers'[h].state = "none",
         \A h \in Gens : handlers'[h].state = "waiting" =>
           /\ handlers[h].state = "waiting"
           /\ ~(h = g /\ Awaiting(g) = {})
           /\ jobs[h].kind # "none" => jobs'[h].kind # "none",
         \A l \in Gens : jobs'[l].kind # "none" /\ jobs'[l].wait \in Gens => jobs'[l] = jobs[l]
  PROVE  WaitInv'
<1> SUFFICES ASSUME NEW h \in Gens
             PROVE  /\ handlers'[h].state # "none" => h <= generation
                    /\ handlers'[h].state = "waiting" => calls'[h].stage # "idle" \/ jobs'[h].kind # "none"
                    /\ \A l \in Gens : jobs'[l].kind # "none" /\ jobs'[l].wait = h /\ h # l =>
                         handlers'[h].state = "none"
  BY DEF WaitInv
<1>1. handlers'[h].state # "none" => h <= generation
  BY DEF WaitInv
<1>2. ASSUME handlers'[h].state = "waiting" PROVE calls'[h].stage # "idle" \/ jobs'[h].kind # "none"
  <2>1. CASE jobs[h].kind # "none"
    BY <1>2, <2>1
  <2>2. CASE jobs[h].kind = "none"
    <3>1. handlers[h].state = "waiting" /\ calls[h].stage # "idle"
      BY <1>2, <2>2 DEF WaitInv
    <3>2. h # g
      <4> SUFFICES ASSUME h = g PROVE FALSE
        OBVIOUS
      <4>1. PICK l \in Gens : jobs[l].kind # "none" /\ jobs[l].wait = g
        BY <1>2 DEF Awaiting
      <4>2. l # h
        BY <2>2, <4>1
      <4> QED BY <3>1, <4>1, <4>2 DEF WaitInv
    <3> QED BY <3>1, <3>2
  <2> QED BY <2>1, <2>2
<1>3. ASSUME NEW l \in Gens, jobs'[l].kind # "none", jobs'[l].wait = h, h # l
      PROVE  handlers'[h].state = "none"
  <2>1. jobs'[l] = jobs[l]
    BY <1>3
  <2>2. handlers[h].state = "none"
    BY <1>3, <2>1 DEF WaitInv
  <2> QED BY <2>2
<1> QED BY <1>1, <1>2, <1>3

\* A rejection reaches the handler of the exchange, or of inspectDeclaredTarget.
LEMMA RejectReaches ==
  ASSUME handlers \in [Gens -> Handlers], NEW g, Reject(g), NEW h \in Gens
  PROVE  /\ handlers[h].state = "none" => handlers'[h].state = "none"
         /\ handlers'[h].state = "waiting" =>
              /\ handlers[h].state = "waiting"
              /\ ~(h = g /\ Awaiting(g) = {})
              /\ ~(h \in Awaiting(g) /\ jobs[h].kind = "target")
<1>1. handlers'[h] = IF /\ handlers[h].state = "waiting"
                        /\ (h = g /\ Awaiting(g) = {}) \/ (h \in Awaiting(g) /\ jobs[h].kind = "target")
                     THEN [handlers[h] EXCEPT !.state = "rejected"] ELSE handlers[h]
  BY DEF Reject
<1>2. handlers[h] \in Handlers
  OBVIOUS
<1> QED BY <1>1, <1>2 DEF Handlers

\* An exchange rejects.
LEMMA RejectWaits ==
  ASSUME PanelBase, WaitInv, NEW g \in Gens, Reject(g), UNCHANGED generation,
         calls' = [calls EXCEPT ![g] = NoCall],
         UNCHANGED jobs \/ jobs' = Rejected(jobs, g)
  PROVE  WaitInv'
<1>0. TypeOK /\ handlers \in [Gens -> Handlers] /\ 0 \notin Gens
  BY BoundsAssumption DEF PanelBase, SessionInv, PanelInv, PanelTypeOK, Gens
<1>1. \A h \in Gens : h # g => calls'[h] = calls[h]
  BY <1>0 DEF TypeOK
<1>2. ASSUME NEW h \in Gens, handlers'[h].state = "waiting", jobs[h].kind # "none" PROVE jobs'[h].kind # "none"
  <2>1. ~(h \in Awaiting(g) /\ jobs[h].kind = "target")
    BY <1>0, <1>2, RejectReaches
  <2> QED BY <1>0, <1>2, <2>1, RejectedJobs DEF Awaiting
<1>3. ASSUME NEW l \in Gens, jobs'[l].kind # "none", jobs'[l].wait \in Gens PROVE jobs'[l] = jobs[l]
  BY <1>0, <1>3, RejectedJobs
<1>4. \A h \in Gens : handlers[h].state = "none" => handlers'[h].state = "none"
  BY <1>0, RejectReaches
<1>5. \A h \in Gens : handlers'[h].state = "waiting" => handlers[h].state = "waiting" /\ ~(h = g /\ Awaiting(g) = {})
  BY <1>0, RejectReaches
<1> QED BY <1>1, <1>2, <1>3, <1>4, <1>5, WaitEnds

\* An exchange resolves.
LEMMA AcceptWaits ==
  ASSUME PanelBase, WaitInv, NEW g \in Gens, AcceptConnect(g) \/ AcceptReply(g) \/ AcceptDisconnect(g),
         Resolve(g), view' \in Views
  PROVE  WaitInv'
<1>0. TypeOK /\ handlers \in [Gens -> Handlers] /\ 0 \notin Gens
  BY BoundsAssumption DEF PanelBase, SessionInv, PanelInv, PanelTypeOK, Gens
<1>1. UNCHANGED generation /\ calls' = [calls EXCEPT ![g] = NoCall]
  BY DEF AcceptConnect, AcceptReply, AcceptDisconnect
<1>2. UNCHANGED jobs \/ \E n : jobs' = Resumed(jobs, g, n)
  BY DEF AcceptConnect, AcceptReply, AcceptDisconnect
<1>3. \A h \in Gens : h # g => calls'[h] = calls[h]
  BY <1>0, <1>1 DEF TypeOK
<1>4. \A h \in Gens : jobs[h].kind # "none" => jobs'[h].kind # "none"
  BY <1>0, <1>2, ResumedSame, ResumedJob
<1>5. ASSUME NEW l \in Gens, jobs'[l].kind # "none", jobs'[l].wait \in Gens PROVE jobs'[l] = jobs[l]
  BY <1>0, <1>2, <1>5, ResumedSame, ResumedJob
<1>6. \A h \in Gens : handlers[h].state # "waiting" => handlers'[h] = handlers[h]
  BY <1>0, ResolveEffect
<1>7. \A h \in Gens : handlers[h].state = "waiting" /\ h = g /\ Awaiting(g) = {} => handlers'[h].state = "resolved"
  BY <1>0, ResolveEffect
<1>8. \A h \in Gens : handlers'[h].state = "waiting" => handlers[h].state = "waiting" /\ ~(h = g /\ Awaiting(g) = {})
  BY <1>6, <1>7
<1> QED BY <1>1, <1>3, <1>4, <1>5, <1>6, <1>8, WaitEnds

\* A new exchange is under way, and takes from none that is.
LEMMA StartsUnderWay ==
  ASSUME TypeOK, NEW req, Exchange(req)
  PROVE  /\ generation + 1 \in Gens /\ generation' = generation + 1
         /\ calls'[generation + 1].stage # "idle"
         /\ \A h \in Gens : calls[h].stage # "idle" => calls'[h].stage # "idle"
<1> DEFINE new == [stage |-> "wire", req |-> req, answer |-> NoAnswer]
<1>1. /\ generation + 1 \in Gens /\ generation' = generation + 1
      /\ \A h \in Gens : calls'[h] = IF h = generation + 1 THEN new ELSE calls[h]
  BY StartEffect
<1>2. new.stage = "wire"
  OBVIOUS
<1> HIDE DEF new
<1> QED BY <1>1, <1>2

\* A collector goes on: its handler now waits for the new exchange.
LEMMA JobSendWaits ==
  ASSUME PanelBase, WaitInv, NEW l \in Gens, JobSend(l), UNCHANGED handlers
  PROVE  WaitInv'
<1>0. TypeOK /\ generation \in Nat /\ \A h \in Gens : h \in Nat
  BY BoundsAssumption DEF PanelBase, SessionInv, TypeOK, Gens
<1>1. PICK req : Exchange(req)
  BY DEF JobSend, Send
<1>2. /\ generation + 1 \in Gens /\ generation' = generation + 1
      /\ \A h \in Gens : calls[h].stage # "idle" => calls'[h].stage # "idle"
  BY <1>0, <1>1, StartsUnderWay
<1>3. /\ jobs'[l].kind = jobs[l].kind /\ jobs'[l].wait = generation + 1
      /\ \A h \in Gens : h # l => jobs'[h] = jobs[h]
  BY <1>0 DEF JobSend, TypeOK, Jobs
<1>4. handlers[generation + 1].state = "none"
  BY <1>0, <1>2 DEF WaitInv
<1> SUFFICES ASSUME NEW h \in Gens
             PROVE  /\ handlers[h].state # "none" => h <= generation + 1
                    /\ handlers[h].state = "waiting" => calls'[h].stage # "idle" \/ jobs'[h].kind # "none"
                    /\ \A k \in Gens : jobs'[k].kind # "none" /\ jobs'[k].wait = h /\ h # k =>
                         handlers[h].state = "none"
  BY <1>2 DEF WaitInv
<1>5. /\ handlers[h].state # "none" => h <= generation
      /\ handlers[h].state = "waiting" => calls[h].stage # "idle" \/ jobs[h].kind # "none"
      /\ \A k \in Gens : jobs[k].kind # "none" /\ jobs[k].wait = h /\ h # k => handlers[h].state = "none"
  BY DEF WaitInv
<1> QED BY <1>0, <1>2, <1>3, <1>4, <1>5

\* A collector ends, and its handler waits no longer.
LEMMA JobEndWaits ==
  ASSUME PanelBase, WaitInv, NEW l \in Gens,
         (JobReturn(l) /\ Finish(l, "resolved")) \/ (JobFail(l) /\ Finish(l, "rejected"))
  PROVE  WaitInv'
<1>0. TypeOK /\ handlers \in [Gens -> Handlers]
  BY DEF PanelBase, SessionInv, PanelInv, PanelTypeOK
<1>1. UNCHANGED <<generation, calls>> /\ jobs' = [jobs EXCEPT ![l] = NoJob] /\ NoJob.kind = "none"
  BY DEF JobReturn, JobFail, Release, NoJob
<1>2. jobs'[l].kind = "none" /\ \A h \in Gens : h # l => jobs'[h] = jobs[h]
  BY <1>0, <1>1 DEF TypeOK
<1>3. \A h \in Gens : h # l \/ handlers[h].state # "waiting" => handlers'[h].state = handlers[h].state
  BY <1>0, FinishEffect DEF HandlerStates
<1>4. handlers'[l].state # "waiting"
  BY <1>0, <1>3, FinishEffect DEF HandlerStates
<1> QED BY <1>1, <1>2, <1>3, <1>4 DEF WaitInv

\* The controls.
LEMMA ControlWaits == PanelBase /\ TypeOK' /\ WaitInv /\ Panel => WaitInv'
<1> SUFFICES ASSUME PanelBase, TypeOK', WaitInv, Panel PROVE WaitInv'
  OBVIOUS
<1>0. TypeOK /\ generation \in Nat /\ handlers \in [Gens -> Handlers]
  BY BoundsAssumption DEF PanelBase, SessionInv, TypeOK, PanelInv, PanelTypeOK
<1>a. \A h \in Gens : Superseded[h].state = handlers[h].state
  BY <1>0, SupersededWaits
<1>1. ASSUME handlers' = Superseded \/ UNCHANGED handlers, UNCHANGED <<generation, calls, jobs>> PROVE WaitInv'
  BY <1>0, <1>1, <1>a, WaitStays
<1>2. ASSUME NEW kind \in HandlerKinds, NEW req, Exchange(req), Await(kind),
             \A l \in Gens : l # generation + 1 => jobs'[l] = jobs[l],
             jobs'[generation + 1].kind = "none" \/ jobs'[generation + 1].wait = generation + 1
      PROVE  WaitInv'
  <2>1. /\ generation + 1 \in Gens /\ generation' = generation + 1
        /\ calls'[generation + 1].stage # "idle"
        /\ \A h \in Gens : calls[h].stage # "idle" => calls'[h].stage # "idle"
    BY <1>0, <1>2, StartsUnderWay
  <2> QED BY <1>2, <2>1, WaitStarts
<1>b. generation + 1 \in Gens => jobs[generation + 1].kind = "none"
  BY <1>0 DEF PanelBase, DueInv, JobsAwait
<1>3. ASSUME NEW kind \in HandlerKinds, NEW req, Exchange(req), Await(kind), UNCHANGED jobs PROVE WaitInv'
  BY <1>0, <1>2, <1>3, <1>b, StartEffect
<1>4. ASSUME NEW kind \in HandlerKinds, Await(kind),
             NEW k, NEW sel, NEW q, NEW op, NEW anchor, StartJob(k, sel, q, op, anchor)
      PROVE  WaitInv'
  <2> DEFINE j == [kind |-> k, conn |-> conn, anchor |-> anchor, sel |-> sel,
                   seq |-> view.seq + 1, wait |-> generation + 1, next |-> "none"]
  <2>1. j.wait = generation + 1 /\ jobs' = [jobs EXCEPT ![generation + 1] = j]
    BY <1>4 DEF StartJob
  <2> HIDE DEF j
  <2>2. PICK req : Exchange(req)
    BY <1>4 DEF StartJob, Send
  <2>3. generation + 1 \in Gens
    BY <1>0, <2>2, StartEffect
  <2>4. jobs'[generation + 1] = j /\ \A l \in Gens : l # generation + 1 => jobs'[l] = jobs[l]
    BY <1>0, <2>1, <2>3 DEF TypeOK
  <2> QED BY <1>2, <1>4, <2>1, <2>2, <2>4
<1>5. CASE PressConnect
  <2>1. CASE Connect /\ Await("connect")
    BY <1>3, <2>1 DEF Connect, HandlerKinds
  <2> QED BY <1>1, <1>5, <2>1 DEF PressConnect, Refused, Rebuff, vars, client
<1>6. ASSUME NEW op \in UserOps, PressSend(op) PROVE WaitInv'
  <2>1. CASE Command(op) /\ Await("send")
    BY <1>3, <2>1 DEF Command, Send, HandlerKinds
  <2> QED BY <1>1, <1>6, <2>1 DEF PressSend, Refused, Rebuff, vars, client
<1>7. ASSUME NEW sel \in BOOLEAN, PressCollectQueries(sel) PROVE WaitInv'
  <2>1. CASE CollectQueries(sel) /\ Await("queries")
    BY <1>4, <2>1 DEF CollectQueries, HandlerKinds
  <2> QED BY <1>1, <1>7, <2>1 DEF PressCollectQueries, Refused, Rebuff, CollectBadSelection, vars, client
<1>8. ASSUME NEW sel \in BOOLEAN, PressCollectObserved(sel) PROVE WaitInv'
  <2>1. CASE CollectObserved(sel) /\ Await("observed")
    BY <1>4, <2>1 DEF CollectObserved, HandlerKinds
  <2> QED BY <1>1, <1>8, <2>1 DEF PressCollectObserved, Refused, Rebuff, CollectBadSelection, vars, client
<1>9. CASE PressInspectTarget
  <2>1. CASE InspectDeclaredTarget /\ Await("target")
    BY <1>4, <2>1 DEF InspectDeclaredTarget, HandlerKinds
  <2> QED BY <1>1, <1>9, <2>1 DEF PressInspectTarget, Refused, Rebuff, vars, client
<1>c. \A h \in Gens : calls[h].stage # "idle" => Aborted(calls)[h].stage # "idle"
  BY <1>0, AbortedCalls
<1>10. ASSUME Disconnect
       PROVE  /\ generation + 1 \in Gens /\ generation' = generation + 1 /\ UNCHANGED jobs
              /\ calls'[generation + 1].stage # "idle"
              /\ \A h \in Gens : calls[h].stage # "idle" => calls'[h].stage # "idle"
  <2> DEFINE req == [kind |-> "disconnect", conn |-> conn, seq |-> 0, rev |-> 0, op |-> "none"]
             new == [stage |-> "wire", req |-> req, answer |-> NoAnswer]
  <2>1. generation + 1 \in Gens /\ generation' = generation + 1 /\ UNCHANGED jobs
    BY <1>0, <1>10, BoundsAssumption DEF Disconnect, TypeOK, Gens
  <2>2. calls' = [Aborted(calls) EXCEPT ![generation + 1] = new] /\ new.stage = "wire"
    BY <1>10 DEF Disconnect
  <2> HIDE DEF new
  <2>3. Aborted(calls) \in [Gens -> Calls]
    BY <1>0, <2>1, AbortedCalls
  <2> QED BY <1>c, <2>1, <2>2, <2>3
<1>11. CASE PressDisconnect
  BY <1>10, <1>11, <1>b, WaitStarts DEF PressDisconnect, HandlerKinds
<1>12. ASSUME handlers' = Superseded, Invalidate \/ Disconnect PROVE WaitInv'
  <2>1. /\ generation' \in {generation, generation + 1} /\ UNCHANGED jobs
        /\ \A h \in Gens : calls[h].stage # "idle" => calls'[h].stage # "idle"
    BY <1>10, <1>12, <1>c DEF Invalidate
  <2> QED BY <1>0, <1>12, <1>a, <2>1, WaitStays
<1>13. CASE ReplaceConnection \/ EditField \/ Unmount
  BY <1>1, <1>12, <1>13 DEF ReplaceConnection, EditField, Unmount, vars, client
<1> QED BY <1>5, <1>6, <1>7, <1>8, <1>9, <1>11, <1>13 DEF Panel

\* No step of the panel or of its client takes from a waiting handler what it waits for.
LEMMA WaitInductive == PanelBase /\ TypeOK' /\ WaitInv /\ [PanelNext]_panelVars => WaitInv'
<1> SUFFICES ASSUME PanelBase, TypeOK', WaitInv, [PanelNext]_panelVars PROVE WaitInv'
  OBVIOUS
<1>0. TypeOK /\ generation \in Nat /\ handlers \in [Gens -> Handlers] /\ view' \in Views
  BY BoundsAssumption DEF PanelBase, SessionInv, TypeOK, PanelInv, PanelTypeOK
<1>1. ASSUME NEW g \in Gens, Fail(g, FALSE) \/ Fail(g, TRUE), Reject(g) PROVE WaitInv'
  BY <1>1, RejectWaits DEF Fail
<1>2. ASSUME NEW g \in Gens, ClientStep(g) PROVE WaitInv'
  <2>1. CASE (AcceptConnect(g) \/ AcceptReply(g) \/ AcceptDisconnect(g)) /\ Resolve(g)
    BY <1>0, <2>1, AcceptWaits
  <2>2. CASE Unwind(g) /\ Reject(g)
    BY <1>1, <2>2 DEF Unwind
  <2>3. CASE (RejectConnect(g) \/ RejectReply(g) \/ RejectDisconnect(g)) /\ Reject(g)
    <3>1. /\ UNCHANGED generation /\ calls' = [calls EXCEPT ![g] = NoCall]
          /\ UNCHANGED jobs \/ jobs' = Rejected(jobs, g)
      BY <2>3 DEF RejectConnect, RejectReply, RejectDisconnect
    <3> QED BY <2>3, <3>1, RejectWaits
  <2> QED BY <1>2, <2>1, <2>2, <2>3, JobSendWaits, JobEndWaits DEF ClientStep
<1>3. ASSUME NEW g \in Gens, Continue(g) PROVE WaitInv'
  <2>1. UNCHANGED <<generation, jobs, calls>>
    BY <1>3 DEF Continue, vars
  <2>2. \A h \in Gens : handlers'[h].state \in {"none", handlers[h].state}
    BY <1>0, <1>3 DEF Continue, NoHandler
  <2> QED BY <1>0, <2>1, <2>2, WaitStays
<1>4. ASSUME NEW g \in Gens, ClientTask(g) PROVE WaitInv'
  <2>1. CASE DeliverFailure(g) /\ Reject(g)
    <3>1. \E closed \in BOOLEAN : Fail(g, closed)
      BY <2>1 DEF DeliverFailure
    <3> QED BY <1>1, <2>1, <3>1
  <2>2. CASE (Timeout(g) \/ Deliver(g)) /\ UNCHANGED handlers
    <3>1. UNCHANGED <<generation, jobs>>
      BY <2>2 DEF Timeout, Deliver, client
    <3>2. \A h \in Gens : calls[h].stage # "idle" => calls'[h].stage # "idle"
      BY <1>0, <2>2 DEF Timeout, Deliver, TypeOK, Calls
    <3> QED BY <1>0, <2>2, <3>1, <3>2, WaitStays
  <2> QED BY <1>4, <2>1, <2>2 DEF ClientTask
<1>5. ASSUME Environment, UNCHANGED panel PROVE WaitInv'
  <2>1. \A h \in Gens : calls'[h].stage = calls[h].stage
    BY <1>0, <1>5, AnswerKeepsCalls
  <2>2. UNCHANGED <<generation, jobs, handlers>>
    BY <1>5 DEF Environment, ServeConnect, ServeCommand, ServeDisconnect, BridgeStops, client, panel
  <2> QED BY <1>0, <2>1, <2>2, WaitStays
<1>6. ASSUME UNCHANGED panelVars PROVE WaitInv'
  BY <1>0, <1>6, WaitStays DEF panelVars, vars, panel
<1> QED BY <1>2, <1>3, <1>4, <1>5, <1>6, ControlWaits DEF PanelNext, PanelMicrotask

\* The inductive invariant behind WaitIsServed, over the panel's own.
THEOREM WaitInvariant == PanelSpec => []WaitInv
<1>1. PanelInit => WaitInv
  BY DEF PanelInit, Init, WaitInv, NoHandler, NoJob
<1>2. SessionInv => TypeOK
  BY DEF SessionInv
<1>3. PanelSpec => [](SessionInv /\ DueInv /\ LeaseInv)
  BY PanelUsesClient, SessionInvariant, DueInvariant, LeaseInvariant, PTL
<1>4. SessionInv /\ DueInv /\ LeaseInv /\ PanelInv /\ TypeOK' /\ WaitInv /\ [PanelNext]_panelVars => WaitInv'
  BY WaitInductive DEF PanelBase
<1> QED BY <1>1, <1>2, <1>3, <1>4, PanelInvariant, PTL DEF PanelSpec

\* What the panel's finally blocks rest on: whatever a handler waits for, however
\* often it was superseded, has a timer armed, an end due or a collector that goes
\* on.  That the timer fires is the fairness TLC assumes for BusyEnds.
THEOREM WaitIsAlwaysServed == PanelSpec => []WaitIsServed
<1>1. TypeOK /\ JobsAwait /\ WaitInv => WaitIsServed
  <2> SUFFICES ASSUME TypeOK, JobsAwait, WaitInv, NEW h \in Gens, handlers[h].state = "waiting"
               PROVE  IsServed(h)
    BY DEF WaitIsServed
  <2>1. CASE calls[h].stage # "idle"
    BY <2>1 DEF IsServed, UnderWay
  <2>2. CASE jobs[h].kind # "none" /\ jobs[h].wait = 0
    BY <2>2 DEF IsServed, Running
  <2>3. CASE jobs[h].kind # "none" /\ jobs[h].wait # 0
    <3>1. jobs[h].wait \in Gens
      BY <2>3, BoundsAssumption DEF TypeOK, Jobs, Gens
    <3> QED BY <2>3, <3>1 DEF JobsAwait, IsServed, UnderWay
  <2> QED BY <2>1, <2>2, <2>3 DEF WaitInv
<1>2. SessionInv /\ DueInv => TypeOK /\ JobsAwait
  BY DEF SessionInv, DueInv
<1> QED BY <1>1, <1>2, WaitInvariant, PanelUsesClient, SessionInvariant, DueInvariant, PTL

\* What the release of a lease rests on: its collector is due, or awaits an
\* exchange that has its timer armed or its end due.
LeaseIsServed == lease # 0 =>
  \/ Running(lease)
  \/ \E g \in Gens : jobs[lease].kind # "none" /\ jobs[lease].wait = g /\ UnderWay(g)

\* No lease is left with a collector that nothing brings on.
THEOREM LeaseIsAlwaysServed == Spec => []LeaseIsServed
<1>1. TypeOK /\ JobsAwait /\ LeaseIsHeld => LeaseIsServed
  <2> SUFFICES ASSUME TypeOK, JobsAwait, LeaseIsHeld, lease # 0, ~Running(lease)
               PROVE  \E g \in Gens : jobs[lease].kind # "none" /\ jobs[lease].wait = g /\ UnderWay(g)
    BY DEF LeaseIsServed
  <2>1. lease \in Gens /\ jobs[lease].kind # "none"
    BY BoundsAssumption DEF TypeOK, Gens, LeaseIsHeld
  <2>2. jobs[lease].wait \in Gens
    BY <2>1, BoundsAssumption DEF TypeOK, Jobs, Gens, Running
  <2> QED BY <2>1, <2>2 DEF JobsAwait, UnderWay
<1>2. SessionInv /\ DueInv => TypeOK /\ JobsAwait
  BY DEF SessionInv, DueInv
<1> QED BY <1>1, <1>2, LeaseIsAlwaysHeld, SessionInvariant, DueInvariant, PTL

===============================================================================
