----------------------- MODULE PhysicalCpuSession_proofs -----------------------
(***************************************************************************)
(* Proofs about PhysicalCpuSession and about PhysicalPanel on top of it, for *)
(* every value of their constants.                                          *)
(***************************************************************************)
EXTENDS PhysicalPanel, TLAPS

(***************************************************************************)
(* The inductive invariant.                                                 *)
(***************************************************************************)
Talk == {"connect", "command"}

\* The exchange that may still succeed.
Alive(g) == g = generation /\ calls[g].stage # "idle" /\ ~calls[g].aborted
Busy == \E g \in Gens : Alive(g) /\ calls[g].req.kind \in Talk

\* The connection has not seen a doubtful end.
Trusted == live \/ Busy

\* Every exchange and every request on its way is of an opened connection, and
\* the latest exchange of the present one; a live client awaits nothing.
CallsAreAddressed ==
  /\ conn <= opened /\ bridge.conn <= opened
  /\ live => conn # 0 /\ pending = 0
  /\ \A g \in Gens : calls[g].stage # "idle" =>
       /\ g <= generation
       /\ calls[g].req.kind # "none" /\ calls[g].req.conn \in 1..opened
       /\ g = generation => calls[g].req.conn = conn
       /\ calls[g].stage = "wire" => ~calls[g].aborted
  /\ \A g \in Gens : wire[g].kind # "none" => g <= generation /\ wire[g].conn \in 1..opened

\* What the bridge said last is where it is.
EchoIsLast ==
  /\ bridge.at.rev <= bridge.served
  /\ bridge.echo.tag = "view" =>
       /\ bridge.echo.conn = bridge.conn /\ bridge.echo.id = bridge.served
       /\ bridge.echo.at = bridge.at

\* Of one connection at most one request is on its way, the first is connect, and
\* once the client has seen a doubtful end it sends no other.
OneOnTheWay ==
  /\ \A g, h \in Gens : wire[g].kind \in Talk /\ wire[h].kind \in Talk /\ wire[g].conn = wire[h].conn => g = h
  /\ \A g \in Gens : wire[g].kind = "connect" => bridge.conn # wire[g].conn
  /\ \A g \in Gens : wire[g].kind # "none" /\ calls[g].stage = "wire" => calls[g].answer.tag = "none"
  /\ Trusted => \A g \in Gens :
       /\ wire[g].kind \in Talk /\ wire[g].conn = conn =>
            Alive(g) /\ calls[g].stage = "wire" /\ wire[g] = calls[g].req
       /\ calls[g].stage = "reading" /\ calls[g].req.conn = conn => Alive(g)

\* How the protocol object of a trusted connection agrees with the bridge.
Agreed(p) == /\ bridge.conn = conn => p.at = bridge.at /\ p.sent = bridge.served
             /\ p.selected \in {NoStamp, p.at} /\ p.next \in {NoStamp, p.at}
             /\ p.next # NoStamp => p.selected # NoStamp

ProtocolAgrees ==
  /\ live => Agreed(protocols[conn])
  /\ \A g \in Gens : Alive(g) /\ calls[g].req.kind \in Talk =>
       LET p == protocols[conn]
           req == calls[g].req
           a == calls[g].answer
       IN
       /\ p.sent = req.id
       /\ calls[g].stage = "wire" =>
            /\ p.next = NoStamp /\ p.at = req.at
            /\ p.selected \in (IF req.op \in Queries THEN {NoStamp, p.at} ELSE {NoStamp})
            /\ wire[g].kind = "none" /\ a.tag = "view" /\ bridge.conn = conn =>
                 a.id = bridge.served /\ a.at = bridge.at
       /\ calls[g].stage = "reading" =>
            /\ Agreed(p) /\ p.selected # NoStamp /\ p.known
            /\ a.at = p.at /\ a.ok /\ a.op \in Pages
       /\ calls[g].stage = "accepted" => Agreed(p)

\* The protocol object, the exchanges and the bridge.
ClientInv ==
  /\ TypeOK
  /\ OneRequestAtATime
  /\ CallsAreAddressed
  /\ EchoIsLast
  /\ OneOnTheWay
  /\ CommandsAreNext
  /\ ProtocolAgrees

\* The values that stand for null are of their types.
LEMMA ConstantTypes ==
  /\ NoStamp \in Stamps
  /\ NoRequest \in Requests
  /\ NoAnswer \in Answers
  /\ NoCall \in Calls
  /\ NewProtocol \in Protocols
<1>1. NoStamp \in Stamps
  BY PhysicalAssumption DEF NoStamp, Stamps
<1>2. NoRequest \in Requests
  BY <1>1, PhysicalAssumption DEF NoRequest, Requests
<1>3. NoAnswer \in Answers
  BY <1>1, PhysicalAssumption DEF NoAnswer, Note, Answers, Tags
<1>4. NoCall \in Calls
  BY <1>2, <1>3 DEF NoCall, Calls
<1>5. NewProtocol \in Protocols
  BY <1>1, PhysicalAssumption DEF NewProtocol, Protocols
<1> QED BY <1>1, <1>2, <1>3, <1>4, <1>5

\* A reply without content is a reply.
LEMMA NoteType ==
  ASSUME NEW t \in Tags, NEW c \in 0..MaxConnections
  PROVE  Note(t, c) \in Answers /\ Note(t, c).tag = t
BY ConstantTypes, PhysicalAssumption DEF Note, Answers

\* prepare keeps a protocol object within the budget that it checks.
LEMMA PreparedType ==
  ASSUME NEW p \in Protocols, NEW op, p.sent < MaxCommands
  PROVE  /\ Prepared(p, op) \in Protocols
         /\ Prepared(p, op).sent = p.sent + 1 /\ Prepared(p, op).at = p.at
         /\ Prepared(p, op).next = NoStamp
         /\ Prepared(p, op).selected = IF op \in Moves \cup {"state"} THEN NoStamp ELSE p.selected
<1>1. p.sent + 1 \in 0..MaxCommands
  BY PhysicalAssumption DEF Protocols
<1> QED BY <1>1, ConstantTypes DEF Prepared, Protocols

\* clear keeps a protocol object.
LEMMA ClearType ==
  ASSUME NEW p \in Protocols
  PROVE  Clear(p) \in Protocols
<1>1. 0 \in 0..MaxCommands /\ NoStamp \in Stamps
  BY ConstantTypes, PhysicalAssumption
<1> QED BY <1>1 DEF Clear, Protocols

\* Clearing the protocol object of the connection keeps the objects.
LEMMA ClearedType == TypeOK => Cleared \in [Conns -> Protocols]
BY ClearType DEF TypeOK, Cleared, Conns

\* accept keeps a protocol object.
LEMMA AcceptedType ==
  ASSUME NEW p \in Protocols, NEW a \in Answers
  PROVE  Accepted(p, a) \in Protocols
<1> DEFINE q == Answered(p, a)
           end == EndAfter(p, a)
           event == IF a.at.event = end THEN 0 ELSE a.at.event
<1>1. q \in Protocols
  <2>1. 0 \in 0..MaxCommands /\ a.at \in Stamps
    BY PhysicalAssumption DEF Answers
  <2> QED BY <2>1 DEF Answered, Protocols
<1>2. end \in 0..End /\ event \in 0..End /\ Greater(p.highest, event) \in 0..End
  BY PhysicalAssumption DEF EndAfter, Greater, Protocols, Answers, Stamps
<1>3. a.at \in Stamps /\ NoStamp \in Stamps
  BY ConstantTypes DEF Answers
<1>4. q.highest = p.highest
  BY DEF Answered, Protocols
<1> HIDE DEF q
<1>5. [q EXCEPT !.selected = IF a.captured THEN a.at ELSE NoStamp, !.end = end,
                !.highest = Greater(q.highest, event)] \in Protocols
  BY <1>1, <1>2, <1>3, <1>4 DEF Protocols
<1>6. [q EXCEPT !.selected = IF a.captured THEN a.at ELSE NoStamp] \in Protocols
  BY <1>1, <1>3 DEF Protocols
<1>7. [q EXCEPT !.next = IF a.more THEN a.at ELSE NoStamp] \in Protocols
  BY <1>1, <1>3 DEF Protocols
<1>8. Clear(q) \in Protocols
  BY <1>1, ClearType
<1> QED BY <1>1, <1>5, <1>6, <1>7, <1>8 DEF Accepted, q

\* An exchange that starts keeps the types of what it assigns.
LEMMA ExchangeType ==
  ASSUME TypeOK, NEW req \in Requests, Exchange(req), NEW cs \in [Gens -> Calls]
  PROVE  /\ generation + 1 \in Gens
         /\ generation' = generation + 1 /\ pending' = generation + 1
         /\ generation' \in 0..MaxGeneration /\ pending' \in 0..MaxGeneration
         /\ Starting(cs, req) \in [Gens -> Calls]
         /\ wire' \in [Gens -> Requests]
<1>1. generation + 1 \in Gens
  BY PhysicalAssumption DEF TypeOK, Exchange, Gens
<1>2. [stage |-> "wire", req |-> req, answer |-> NoAnswer, aborted |-> FALSE] \in Calls
  BY ConstantTypes DEF Calls
<1> QED BY <1>1, <1>2, PhysicalAssumption DEF TypeOK, Exchange, Starting, Gens

\* Aborting keeps the activations.
LEMMA AbortedType ==
  ASSUME NEW cs \in [Gens -> Calls], NEW g
  PROVE  /\ Aborted(cs, g) \in [Gens -> Calls]
         /\ \A h \in Gens :
              /\ h # g => Aborted(cs, g)[h] = cs[h]
              /\ Aborted(cs, g)[h].req = cs[h].req /\ Aborted(cs, g)[h].answer = cs[h].answer
              /\ cs[h].stage = "idle" <=> Aborted(cs, g)[h].stage = "idle"
              /\ h = g /\ cs[h].stage # "idle" => Aborted(cs, g)[h].aborted
              /\ Aborted(cs, g)[h].stage = "wire" => h # g
              /\ Aborted(cs, g)[h].stage = "reading" <=> cs[h].stage = "reading"
              /\ Aborted(cs, g)[h].stage = "accepted" <=> cs[h].stage = "accepted"
<1>1. ASSUME NEW h \in Gens
      PROVE  /\ [cs[h] EXCEPT !.aborted = TRUE, !.stage = IF @ = "wire" THEN "aborted" ELSE @] \in Calls
             /\ cs[h] \in Calls
  BY DEF Calls
<1> QED BY <1>1, ZenonT(30) DEF Aborted, Calls

\* What a command asks for is a request.
LEMMA RequestType ==
  ASSUME NEW k \in {"connect", "command", "disconnect"}, NEW c \in 0..MaxConnections,
         NEW id \in 0..MaxCommands, NEW at \in Stamps, NEW op \in Ops \cup {"discover", "none"},
         NEW n \in Nat, NEW page \in Stamps
  PROVE  [kind |-> k, conn |-> c, id |-> id, at |-> at, op |-> op, n |-> n, page |-> page] \in Requests
BY DEF Requests

(***************************************************************************)
(* Types.                                                                   *)
(***************************************************************************)
\* The calls of the client keep the types.
LEMMA UserType == TypeOK /\ User => TypeOK'
<1> SUFFICES ASSUME TypeOK, User PROVE TypeOK'
  OBVIOUS
<1>1. CASE Connect
  <2> DEFINE req == [NoRequest EXCEPT !.kind = "connect", !.conn = opened + 1, !.id = 1, !.op = "discover"]
  <2>1. opened + 1 \in 0..MaxConnections /\ 1 \in 0..MaxCommands
    BY <1>1, PhysicalAssumption DEF Connect, TypeOK
  <2>2. req \in Requests
    BY <2>1, ConstantTypes DEF Requests
  <2>3. Prepared(NewProtocol, "discover") \in Protocols
    BY ConstantTypes, PreparedType, PhysicalAssumption DEF NewProtocol
  <2>4. protocols' \in [Conns -> Protocols]
    BY <1>1, <2>3 DEF Connect, TypeOK
  <2>5. calls' \in [Gens -> Calls] /\ wire' \in [Gens -> Requests]
        /\ generation' \in 0..MaxGeneration /\ pending' \in 0..MaxGeneration
    BY <1>1, <2>2, ExchangeType DEF Connect, TypeOK
  <2> QED BY <1>1, <2>1, <2>4, <2>5 DEF Connect, TypeOK
<1>2. ASSUME NEW op \in Ops, NEW n \in Nat, Command(op, n) PROVE TypeOK'
  <2> DEFINE p == protocols[conn]
             req == [kind |-> "command", conn |-> conn, id |-> p.sent + 1, at |-> p.at, op |-> op,
                     n |-> n, page |-> IF op = "next" THEN p.next ELSE NoStamp]
  <2>1. p \in Protocols /\ p.sent < MaxCommands
    BY <1>2, PhysicalAssumption DEF Command, ready, Preparable, TypeOK, Conns
  <2>2. p.sent + 1 \in 0..MaxCommands /\ p.at \in Stamps /\ p.next \in Stamps
    BY <2>1, PhysicalAssumption DEF Protocols
  <2>3. req \in Requests
    BY <2>2, ConstantTypes DEF Requests, TypeOK
  <2>4. calls' \in [Gens -> Calls] /\ wire' \in [Gens -> Requests]
        /\ generation' \in 0..MaxGeneration /\ pending' \in 0..MaxGeneration
    BY <1>2, <2>3, ExchangeType DEF Command, TypeOK
  <2>5. protocols' \in [Conns -> Protocols]
    BY <1>2, <2>1, PreparedType DEF Command, TypeOK
  <2> QED BY <1>2, <2>4, <2>5 DEF Command, TypeOK
<1>3. CASE Invalidate
  <2>1. Aborted(calls, pending) \in [Gens -> Calls]
    BY AbortedType DEF TypeOK
  <2>2. generation' \in 0..MaxGeneration /\ 0 \in 0..MaxGeneration
    BY <1>3, PhysicalAssumption DEF Invalidate, TypeOK
  <2> QED BY <1>3, <2>1, <2>2, ClearedType DEF Invalidate, TypeOK
<1>4. CASE Disconnect
  <2> DEFINE req == [NoRequest EXCEPT !.kind = "disconnect", !.conn = conn]
  <2>1. req \in Requests
    BY ConstantTypes DEF Requests, TypeOK
  <2>2. Aborted(calls, pending) \in [Gens -> Calls]
    BY AbortedType DEF TypeOK
  <2>3. calls' \in [Gens -> Calls] /\ wire' \in [Gens -> Requests]
        /\ generation' \in 0..MaxGeneration /\ pending' \in 0..MaxGeneration
    BY <1>4, <2>1, <2>2, ExchangeType DEF Disconnect, TypeOK
  <2> QED BY <1>4, <2>3, ClearedType DEF Disconnect, TypeOK
<1>5. /\ Counts \subseteq Nat /\ 0..End + 1 \subseteq Nat /\ 0 \in Nat
      /\ {"step", "reverse", "seek"} \cup Queries \cup {"state"} = Ops
  BY PhysicalAssumption DEF Ops, Moves
<1> QED BY <1>1, <1>2, <1>3, <1>4, <1>5 DEF User

\* So does an exchange that fails,
LEMMA FailType ==
  ASSUME TypeOK, NEW g \in Gens, NEW closed, Fail(g, closed)
  PROVE  TypeOK'
<1>1. protocols' \in [Conns -> Protocols]
  BY ClearedType DEF Fail, TypeOK
<1>2. calls' \in [Gens -> Calls]
  BY ConstantTypes DEF Fail, TypeOK
<1>3. conn' \in 0..MaxConnections /\ pending' \in 0..MaxGeneration
  BY PhysicalAssumption DEF Fail, TypeOK
<1>4. live' \in BOOLEAN
  BY Zenon DEF Fail, TypeOK
<1> QED BY <1>1, <1>2, <1>3, <1>4 DEF Fail, TypeOK

\* and one that succeeds.
LEMMA FinishType ==
  ASSUME TypeOK, NEW g \in Gens, Finish(g)
  PROVE  TypeOK'
BY ConstantTypes, PhysicalAssumption DEF Finish, TypeOK

\* A reply that is delivered is a reply.
LEMMA DeliverableType ==
  ASSUME TypeOK, NEW g \in Gens, NEW a \in Deliverable(g)
  PROVE  a \in Answers
<1>1. calls[g].answer \in Answers /\ bridge.echo \in Answers
  BY DEF TypeOK, Calls
<1>2. Note("unusable", 0) \in Answers
  BY NoteType, PhysicalAssumption DEF Tags
<1> QED BY <1>1, <1>2 DEF Deliverable

\* Timers, replies and digests keep the types.
LEMMA TaskType ==
  ASSUME TypeOK, NEW g \in Gens, Timeout(g) \/ DeliverFailure(g) \/ Deliver(g) \/ Hashed(g)
  PROVE  TypeOK'
<1>0. calls[g] \in Calls
  BY DEF TypeOK
<1>1. CASE Timeout(g)
  BY <1>1, AbortedType DEF Timeout, TypeOK
<1>2. CASE DeliverFailure(g)
  BY <1>2, FailType DEF DeliverFailure
<1>3. CASE Deliver(g)
  <2> PICK a \in Deliverable(g) :
        \/ /\ calls' = [calls EXCEPT ![g].stage = "accepted"]
           /\ UNCHANGED protocols
        \/ /\ calls' = [calls EXCEPT ![g].stage = "reading", ![g].answer = a]
           /\ UNCHANGED protocols
        \/ /\ calls' = [calls EXCEPT ![g].stage = "accepted", ![g].answer = a]
           /\ protocols' = [protocols EXCEPT ![calls[g].req.conn] = Accepted(@, a)]
    BY <1>3 DEF Deliver
  <2>1. a \in Answers
    BY DeliverableType
  <2>2. [protocols EXCEPT ![calls[g].req.conn] = Accepted(@, a)] \in [Conns -> Protocols]
    BY <2>1, AcceptedType DEF TypeOK
  <2>3. protocols' \in [Conns -> Protocols]
    BY <2>2 DEF TypeOK
  <2>4. /\ [calls[g] EXCEPT !.stage = "accepted"] \in Calls
        /\ [calls[g] EXCEPT !.stage = "reading", !.answer = a] \in Calls
        /\ [calls[g] EXCEPT !.stage = "accepted", !.answer = a] \in Calls
    BY <1>0, <2>1 DEF Calls
  <2>5. calls' \in [Gens -> Calls]
    BY <2>4 DEF TypeOK
  <2> QED BY <1>3, <2>3, <2>5 DEF Deliver, TypeOK
<1>4. CASE Hashed(g)
  <2>1. calls[g].answer \in Answers /\ [calls[g] EXCEPT !.stage = "accepted"] \in Calls
    BY <1>0 DEF Calls
  <2>2. protocols' \in [Conns -> Protocols]
    BY <1>4, <2>1, AcceptedType DEF Hashed, TypeOK
  <2>3. calls' \in [Gens -> Calls]
    BY <1>4, <2>1 DEF Hashed, TypeOK
  <2> QED BY <1>4, <2>2, <2>3 DEF Hashed, TypeOK
<1> QED BY <1>1, <1>2, <1>3, <1>4

\* The states of the bridge.
BridgeStates == [conn : 0..MaxConnections, served : 0..MaxCommands, at : Stamps, echo : Answers]

\* A reply of the bridge reaches the exchange that still waits for it.
LEMMA AnswerType ==
  ASSUME TypeOK, NEW g \in Gens, NEW a \in Answers, Answer(g, a), bridge' \in BridgeStates
  PROVE  TypeOK'
<1>1. [calls[g] EXCEPT !.answer = a] \in Calls
  BY DEF TypeOK, Calls
<1>2. calls' \in [Gens -> Calls]
  BY <1>1 DEF Answer, TypeOK
<1>3. wire' \in [Gens -> Requests]
  BY ConstantTypes DEF Answer, TypeOK
<1> QED BY <1>2, <1>3 DEF Answer, TypeOK, BridgeStates

\* A bridge does not advance past the events of its recording.
LEMMA AdvancedType ==
  ASSUME TypeOK, NEW at \in Stamps
  PROVE  Advanced(bridge.at.event, at.event, End - 1) \in 0..End
<1>1. bridge.at.event \in 0..End /\ at.event \in 0..End
  BY DEF TypeOK, Stamps
<1> QED BY <1>1, PhysicalAssumption DEF Advanced, Distance, Greater, Lesser

\* The reply to a command is a reply, and the revision does not pass the requests.
LEMMA ServeType ==
  ASSUME TypeOK, NEW g \in Gens, NEW ok \in BOOLEAN, NEW at \in Stamps, NEW captured \in BOOLEAN,
         NEW more \in BOOLEAN, Serve(g, ok, at, captured, more)
  PROVE  /\ TypeOK' /\ bridge'.conn = wire[g].conn /\ bridge'.served = wire[g].id /\ bridge'.at = at
         /\ bridge'.echo.conn = wire[g].conn /\ bridge'.echo.id = wire[g].id /\ bridge'.echo.at = at
         /\ Answer(g, bridge'.echo)
<1> DEFINE r == wire[g]
           a == [tag |-> "view", conn |-> r.conn, id |-> r.id, op |-> r.op, ok |-> ok, at |-> at,
                 captured |-> captured, completed |-> ok /\ r.op \in Moves /\ at.event = End, more |-> more,
                 advanced |-> Advanced(bridge.at.event, at.event, End - 1)]
<1>1. r \in Requests
  BY DEF TypeOK
<1>2. (ok /\ r.op \in Moves /\ at.event = End) \in BOOLEAN
  OBVIOUS
<1>3. "view" \in Tags /\ r.conn \in 0..MaxConnections /\ r.id \in 0..MaxCommands /\ r.op \in Ops \cup {"discover", "none"}
  BY <1>1 DEF Requests, Tags
<1> HIDE DEF r
<1>4. a \in Answers
  BY <1>2, <1>3, AdvancedType DEF Answers
<1>5. bridge' = [conn |-> r.conn, served |-> r.id, at |-> at, echo |-> a] /\ Answer(g, a)
  BY DEF Serve, r
<1>6. bridge' \in BridgeStates
  BY <1>3, <1>4, <1>5 DEF BridgeStates
<1>7. TypeOK'
  BY <1>4, <1>5, <1>6, AnswerType
<1> QED BY <1>5, <1>7 DEF r

\* A move ends up at an event of the recording, one revision on.
LEMMA TargetType ==
  ASSUME TypeOK, bridge.at.rev <= bridge.served, NEW g \in Gens, Expected(wire[g]),
         wire[g].op = "seek" => wire[g].n <= End
  PROVE  Target(wire[g]) \in Stamps /\ Target(wire[g]).rev = bridge.at.rev + 1
<1> DEFINE r == wire[g]
<1>1. r.id \in 0..MaxCommands /\ r.n \in Nat /\ r.id = bridge.served + 1
  BY DEF TypeOK, Requests, Expected
<1>2. bridge.served \in 0..MaxCommands /\ bridge.at.rev \in 0..MaxCommands /\ bridge.at.event \in 0..End
  BY DEF TypeOK, Stamps
<1>3. bridge.at.rev + 1 \in 0..MaxCommands
  BY <1>1, <1>2, PhysicalAssumption
<1>4. /\ Minus(bridge.at.event, r.n) \in 0..End
      /\ Lesser(bridge.at.event + r.n, End) \in 0..End
      /\ r.op = "seek" => r.n \in 0..End
  BY <1>1, <1>2, PhysicalAssumption DEF Minus, Lesser
<1> QED BY <1>3, <1>4 DEF Target, Stamps

\* The bridge keeps its types: each move answers one request, so there are no
\* more revisions than requests.
LEMMA BridgeType ==
  ASSUME TypeOK, bridge.at.rev <= bridge.served, NEW g \in Gens,
         ServeConnect(g) \/ ServeCommand(g) \/ ServeDisconnect(g)
  PROVE  TypeOK' /\ bridge'.at.rev <= bridge'.served
<1> DEFINE r == wire[g]
<1>0. /\ r.conn \in 0..MaxConnections /\ r.id \in 0..MaxCommands /\ r.n \in Nat
      /\ bridge \in BridgeStates
  BY DEF TypeOK, Requests, BridgeStates
<1>1. /\ bridge.conn \in 0..MaxConnections /\ bridge.served \in 0..MaxCommands
      /\ bridge.at \in Stamps /\ bridge.at.rev \in 0..MaxCommands /\ bridge.at.event \in 0..End
  BY <1>0 DEF BridgeStates, Stamps
<1>2. \A t \in {"error", "error_closed", "disconnected"} : Note(t, r.conn) \in Answers
  BY <1>0, NoteType DEF Tags
<1>3. ASSUME NEW a \in Answers, Answer(g, a), UNCHANGED bridge
      PROVE  TypeOK' /\ bridge'.at.rev <= bridge'.served
  BY <1>0, <1>3, AnswerType
<1>4. /\ [conn |-> 0, served |-> 0, at |-> NoStamp, echo |-> NoAnswer] \in BridgeStates
      /\ NoStamp.rev = 0
  BY ConstantTypes, PhysicalAssumption DEF BridgeStates, NoStamp
<1>5. ASSUME NEW a \in Answers, Answer(g, a),
             bridge' = [conn |-> 0, served |-> 0, at |-> NoStamp, echo |-> NoAnswer]
      PROVE  TypeOK' /\ bridge'.at.rev <= bridge'.served
  BY <1>4, <1>5, AnswerType
<1>6. CASE ServeConnect(g)
  <2> DEFINE hello == [Note("view", r.conn) EXCEPT !.id = 1, !.op = "discover", !.ok = TRUE]
             b == [conn |-> r.conn, served |-> 1, at |-> NoStamp, echo |-> hello]
  <2>1. Note("view", r.conn) \in Answers /\ 1 \in 0..MaxCommands
    BY <1>0, NoteType, PhysicalAssumption DEF Tags
  <2>2. hello \in Answers
    BY <2>1 DEF Answers
  <2>3. b \in BridgeStates
    BY <1>0, <2>1, <2>2, ConstantTypes DEF BridgeStates
  <2>4. CASE bridge' = b /\ Answer(g, hello)
    BY <1>4, <2>2, <2>3, <2>4, AnswerType
  <2> QED BY <1>2, <1>3, <1>6, <2>4 DEF ServeConnect
<1>7. CASE ServeCommand(g)
  <2>1. ASSUME NEW ok \in BOOLEAN, NEW at \in Stamps, NEW captured \in BOOLEAN, NEW more \in BOOLEAN,
               Expected(r), at.rev <= bridge.at.rev + 1, Serve(g, ok, at, captured, more)
        PROVE  TypeOK' /\ bridge'.at.rev <= bridge'.served
    <3>1. r.id = bridge.served + 1
      BY <2>1 DEF Expected
    <3>2. at.rev \in 0..MaxCommands
      BY DEF Stamps
    <3> QED BY <1>0, <1>1, <2>1, <3>1, <3>2, ServeType, PhysicalAssumption
  <2>2. Expected(r) /\ (r.op = "seek" => r.n <= End) => Target(r) \in Stamps /\ Target(r).rev = bridge.at.rev + 1
    BY TargetType
  <2>3. bridge.at.rev <= bridge.at.rev + 1
    BY <1>1, PhysicalAssumption
  <2>4. CASE Expected(r) /\ Serve(g, FALSE, bridge.at, FALSE, FALSE)
    BY <1>1, <2>1, <2>3, <2>4
  <2>5. CASE /\ Expected(r)
             /\ r.op = "seek" => r.n <= End
             /\ \E captured \in BOOLEAN : Serve(g, TRUE, Target(r), captured, FALSE)
    <3>1. Target(r).rev <= bridge.at.rev + 1
      BY <1>1, <2>2, <2>5, PhysicalAssumption
    <3> QED BY <2>1, <2>2, <2>5, <3>1
  <2>6. CASE Expected(r) /\ \E captured \in BOOLEAN : Serve(g, TRUE, bridge.at, captured, FALSE)
    BY <1>1, <2>1, <2>3, <2>6
  <2>7. CASE Expected(r) /\ \E more \in BOOLEAN : Serve(g, TRUE, bridge.at, FALSE, more)
    BY <1>1, <2>1, <2>3, <2>7
  <2>8. CASE Answer(g, Note("error_closed", r.conn))
             /\ bridge' = [conn |-> 0, served |-> 0, at |-> NoStamp, echo |-> NoAnswer]
    BY <1>2, <1>5, <2>8
  <2>9. CASE Answer(g, Note("error", r.conn)) /\ UNCHANGED bridge
    BY <1>2, <1>3, <2>9
  <2> QED BY <1>7, <2>4, <2>5, <2>6, <2>7, <2>8, <2>9 DEF ServeCommand
<1>8. CASE ServeDisconnect(g)
  BY <1>2, <1>3, <1>5, <1>8 DEF ServeDisconnect
<1> QED BY <1>6, <1>7, <1>8

(***************************************************************************)
(* The activations of exchange.                                             *)
(***************************************************************************)
Shape == OneRequestAtATime /\ CallsAreAddressed

\* While no exchange is pending, none that has not been aborted is left.
LEMMA PendingIsGeneration ==
  ASSUME TypeOK, Shape
  PROVE  /\ pending # 0 => pending \in Gens /\ pending = generation
         /\ \A g \in Gens : Alive(g) => g = pending /\ pending # 0 /\ ~live
         /\ \A g \in Gens : calls[g].stage = "wire" => Alive(g)
         /\ Trusted => conn \in Conns
<1>1. pending # 0 => pending \in Gens /\ pending = generation
  BY PhysicalAssumption DEF TypeOK, Shape, OneRequestAtATime, Gens
<1>2. \A g \in Gens : Alive(g) => g = pending /\ pending # 0 /\ ~live
  BY PhysicalAssumption DEF Shape, OneRequestAtATime, CallsAreAddressed, Alive, Gens
<1>3. \A g \in Gens : calls[g].stage = "wire" => Alive(g)
  BY DEF Shape, OneRequestAtATime, CallsAreAddressed, Alive
<1>4. ASSUME Trusted PROVE conn # 0
  <2>1. CASE live
    BY <2>1 DEF Shape, CallsAreAddressed
  <2>2. CASE Busy
    <3>1. PICK g \in Gens : Alive(g)
      BY <2>2 DEF Busy
    <3>2. calls[g].req.conn = conn /\ calls[g].req.conn \in 1..opened
      BY <3>1 DEF Alive, Shape, CallsAreAddressed
    <3> QED BY <3>2 DEF TypeOK
  <2> QED BY <1>4, <2>1, <2>2 DEF Trusted
<1> QED BY <1>1, <1>2, <1>3, <1>4, PhysicalAssumption DEF TypeOK, Conns

\* What a new exchange leaves of the others: nothing that may still succeed.
LEMMA StartShape ==
  ASSUME TypeOK, Shape, NEW req \in Requests, req.kind # "none", req.conn = conn',
         Exchange(req), calls' = Starting(Aborted(calls, pending), req),
         ~live', conn' \in 1..opened', opened <= opened', opened' \in Nat, UNCHANGED bridge
  PROVE  /\ Shape'
         /\ generation + 1 \in Gens /\ generation' = generation + 1
         /\ calls'[generation + 1] = [stage |-> "wire", req |-> req, answer |-> NoAnswer, aborted |-> FALSE]
         /\ \A h \in Gens : h # generation + 1 =>
              /\ calls'[h].stage # "wire" /\ calls'[h].req = calls[h].req
              /\ calls'[h].stage = "reading" => calls[h].stage = "reading"
         /\ wire[generation + 1].kind = "none"
         /\ \A h \in Gens : wire'[h] = IF h = generation + 1 THEN req ELSE wire[h]
         /\ \A h \in Gens : Alive(h)' <=> h = generation + 1
<1> DEFINE cs == Aborted(calls, pending)
           g == generation + 1
<1>1. /\ g \in Gens /\ generation' = g /\ pending' = g
      /\ cs \in [Gens -> Calls]
      /\ wire' = [wire EXCEPT ![g] = req]
  BY AbortedType, ExchangeType DEF TypeOK, Exchange
<1>2. \A h \in Gens : calls'[h] = IF h = g THEN [stage |-> "wire", req |-> req, answer |-> NoAnswer, aborted |-> FALSE]
                                 ELSE cs[h]
  BY <1>1 DEF Starting
<1>3. ASSUME NEW h \in Gens
      PROVE  /\ cs[h].stage # "idle" => calls[h].stage # "idle" /\ cs[h].aborted
             /\ cs[h].stage # "wire" /\ cs[h].req = calls[h].req
             /\ cs[h].stage = "reading" => calls[h].stage = "reading"
  BY PendingIsGeneration, AbortedType DEF TypeOK, Shape, OneRequestAtATime, Alive
<1>4. \A h \in Gens : h <= generation => h # g
  BY <1>1, PhysicalAssumption DEF TypeOK, Gens
<1>5. wire[g].kind = "none"
  BY <1>1, <1>4 DEF Shape, CallsAreAddressed
<1>6. \A h \in Gens : wire'[h] = IF h = g THEN req ELSE wire[h]
  BY <1>1 DEF TypeOK
<1>7. OneRequestAtATime'
  <2>1. \A h \in Gens : calls'[h].stage # "idle" /\ ~calls'[h].aborted => h = g
    BY <1>2, <1>3
  <2>2. conn' # 0 /\ calls'[g].stage # "idle"
    BY <1>1, <1>2
  <2> QED BY <1>1, <2>1, <2>2 DEF OneRequestAtATime
<1>8. CallsAreAddressed'
  <2>1. opened \in Nat /\ opened' \in Nat /\ conn' <= opened' /\ bridge'.conn <= opened'
    BY PhysicalAssumption DEF Shape, CallsAreAddressed, TypeOK
  <2>2. ASSUME NEW h \in Gens, calls'[h].stage # "idle"
        PROVE  /\ h <= g /\ calls'[h].req.kind # "none" /\ calls'[h].req.conn \in 1..opened'
               /\ h = g => calls'[h].req.conn = conn'
               /\ calls'[h].stage = "wire" => ~calls'[h].aborted
    <3>1. CASE h = g
      <4>1. h \in Nat
        BY PhysicalAssumption DEF Gens
      <4>2. conn' \in 1..opened' /\ calls'[h].req = req /\ calls'[h].stage = "wire" /\ ~calls'[h].aborted
        BY <1>2, <3>1
      <4> QED BY <3>1, <4>1, <4>2
    <3>2. CASE h # g
      <4>1. /\ calls[h].stage # "idle" /\ calls'[h].req = calls[h].req /\ calls'[h].stage # "wire"
        BY <1>2, <1>3, <2>2, <3>2
      <4>2. h <= generation /\ calls[h].req.kind # "none" /\ calls[h].req.conn \in 1..opened
        BY <4>1 DEF Shape, CallsAreAddressed
      <4> QED BY <2>1, <3>2, <4>1, <4>2, PhysicalAssumption, SMTT(30) DEF Gens, TypeOK
    <3> QED BY <3>1, <3>2
  <2>3. ASSUME NEW h \in Gens, wire'[h].kind # "none"
        PROVE  h <= g /\ wire'[h].conn \in 1..opened'
    <3>1. CASE h = g
      BY <1>1, <1>6, <3>1, PhysicalAssumption DEF Gens
    <3>2. CASE h # g
      <4>1. h <= generation /\ wire[h].conn \in 1..opened
        BY <1>6, <2>3, <3>2 DEF Shape, CallsAreAddressed
      <4> QED BY <1>6, <2>1, <3>2, <4>1, PhysicalAssumption, SMTT(30) DEF Gens, TypeOK
    <3> QED BY <3>1, <3>2
  <2> QED BY <1>1, <2>1, <2>2, <2>3 DEF CallsAreAddressed
<1>9. \A h \in Gens : Alive(h)' <=> h = g
  BY <1>1, <1>2, <1>3 DEF Alive
<1> QED BY <1>1, <1>2, <1>3, <1>5, <1>6, <1>7, <1>8, <1>9 DEF Shape

\* An activation that ends leaves the others alone.
LEMMA EndShape ==
  ASSUME TypeOK, Shape, NEW g \in Gens,
         calls' = [calls EXCEPT ![g] = NoCall],
         pending' = IF pending = g THEN 0 ELSE pending,
         UNCHANGED <<generation, opened, wire, bridge>>,
         conn' = conn \/ (conn' = 0 /\ g = generation),
         live' => conn' = conn /\ conn # 0 /\ (live \/ g = generation)
  PROVE  /\ Shape'
         /\ \A h \in Gens : calls'[h] = IF h = g THEN NoCall ELSE calls[h]
         /\ \A h \in Gens : Alive(h)' <=> Alive(h) /\ h # g
<1>1. \A h \in Gens : calls'[h] = IF h = g THEN NoCall ELSE calls[h]
  BY DEF TypeOK
<1>2. NoCall.stage = "idle"
  BY DEF NoCall
<1>3. \A h \in Gens : Alive(h)' <=> Alive(h) /\ h # g
  BY <1>1, <1>2 DEF Alive
<1>4. OneRequestAtATime'
  <2>1. \A h \in Gens : calls'[h].stage # "idle" /\ ~calls'[h].aborted => h = pending' /\ h = generation'
    BY <1>1, <1>2 DEF Shape, OneRequestAtATime
  <2>2. pending' # 0 => pending' = generation' /\ calls'[pending'].stage # "idle"
    BY <1>1, PendingIsGeneration DEF Shape, OneRequestAtATime
  <2>3. conn' = 0 => pending' = 0
    BY PendingIsGeneration DEF Shape, OneRequestAtATime
  <2> QED BY <2>1, <2>2, <2>3 DEF OneRequestAtATime
<1>5. CallsAreAddressed'
  <2>1. conn' <= opened' /\ bridge'.conn <= opened' /\ (live' => conn' # 0 /\ pending' = 0)
    BY PendingIsGeneration, PhysicalAssumption DEF Shape, CallsAreAddressed, TypeOK
  <2>2. \A h \in Gens : calls'[h].stage # "idle" => h # g /\ calls'[h] = calls[h]
    BY <1>1, <1>2
  <2> QED BY <2>1, <2>2 DEF Shape, CallsAreAddressed
<1> QED BY <1>1, <1>3, <1>4, <1>5 DEF Shape

\* An activation that goes on: nothing is aborted, started or ended.
LEMMA GoesOnShape ==
  ASSUME TypeOK, Shape, UNCHANGED <<conn, live, generation, pending, opened>>,
         NEW g \in Gens,
         \A h \in Gens : /\ calls'[h].req = calls[h].req /\ calls'[h].aborted = calls[h].aborted
                         /\ \/ calls'[h].stage = calls[h].stage
                            \/ calls[h].stage # "idle" /\ calls'[h].stage \notin {"idle", "wire"},
         bridge'.conn <= opened,
         \A h \in Gens : wire'[h] = wire[h] \/ wire'[h].kind = "none"
  PROVE  Shape' /\ (Trusted' <=> Trusted) /\ \A h \in Gens : Alive(h)' <=> Alive(h)
<1>1. \A h \in Gens : Alive(h)' <=> Alive(h)
  BY DEF Alive
<1>2. Busy' <=> Busy
  BY <1>1 DEF Busy
<1>3. OneRequestAtATime'
  BY PendingIsGeneration DEF Shape, OneRequestAtATime
<1>4. CallsAreAddressed'
  BY DEF Shape, CallsAreAddressed
<1> QED BY <1>1, <1>2, <1>3, <1>4 DEF Shape, Trusted

\* An activation that is aborted may not succeed any more, and nothing else may.
LEMMA AbortShape ==
  ASSUME TypeOK, Shape, NEW g, calls' = Aborted(calls, g),
         generation' \in {generation, generation + 1},
         pending # 0 => g = pending,
         pending' = 0 \/ (UNCHANGED <<generation, pending>> /\ g \in Gens /\ pending = g),
         UNCHANGED <<conn, opened, wire, bridge>>, ~live'
  PROVE  /\ Shape' /\ ~Trusted'
         /\ \A h \in Gens : calls'[h].stage = "wire" => calls[h].stage = "wire" /\ calls'[h].answer = calls[h].answer
<1>1. ASSUME NEW h \in Gens
      PROVE  /\ calls'[h].req = calls[h].req /\ calls'[h].answer = calls[h].answer
             /\ calls[h].stage = "idle" <=> calls'[h].stage = "idle"
             /\ calls'[h].stage = "wire" => h # g /\ calls[h].stage = "wire"
             /\ calls'[h].stage # "idle" => calls'[h].aborted
  BY AbortedType, PendingIsGeneration DEF TypeOK, Shape, OneRequestAtATime, Alive
<1>2. \A h \in Gens : ~Alive(h)'
  BY <1>1 DEF Alive
<1>3. OneRequestAtATime'
  BY <1>1, PendingIsGeneration DEF Shape, OneRequestAtATime
<1>4. CallsAreAddressed'
  <2>1. \A h \in Gens : calls'[h].stage # "wire"
    BY <1>1, PendingIsGeneration DEF Alive
  <2>2. \A h \in Gens : h <= generation => h <= generation' /\ (h = generation' => h = generation)
    BY PhysicalAssumption DEF TypeOK, Gens
  <2> QED BY <1>1, <2>1, <2>2 DEF Shape, CallsAreAddressed
<1> QED BY <1>1, <1>2, <1>3, <1>4 DEF Shape, Trusted, Busy

(***************************************************************************)
(* The requests, the protocol object and the bridge.                        *)
(***************************************************************************)
Order == EchoIsLast /\ OneOnTheWay /\ CommandsAreNext /\ ProtocolAgrees

\* Once an end was doubtful, only the requests on their way matter.
LEMMA DoubtOrder ==
  ASSUME Order, ~Trusted', UNCHANGED <<wire, bridge>>,
         \A h \in Gens : calls'[h].stage = "wire" => calls[h].stage = "wire" /\ calls'[h].answer = calls[h].answer
  PROVE  Order'
<1>1. EchoIsLast' /\ CommandsAreNext'
  BY DEF Order, EchoIsLast, CommandsAreNext, Expected
<1>2. OneOnTheWay'
  BY DEF Order, OneOnTheWay
<1>3. ProtocolAgrees'
  BY DEF ProtocolAgrees, Trusted, Busy
<1> QED BY <1>1, <1>2, <1>3 DEF Order

\* catch and finally: the session is in doubt, or the exchange was not the present one.
LEMMA FailKeeps ==
  ASSUME TypeOK, Shape, Order, NEW g \in Gens, NEW closed, calls[g].stage # "idle", Fail(g, closed)
  PROVE  Shape' /\ Order'
<1>1. /\ calls' = [calls EXCEPT ![g] = NoCall] /\ pending' = IF pending = g THEN 0 ELSE pending
      /\ UNCHANGED <<generation, opened, wire, bridge>>
      /\ conn' = conn \/ (conn' = 0 /\ g = generation)
  BY DEF Fail
<1>2. g = generation => calls[g].req.conn = conn
  BY DEF Shape, CallsAreAddressed
<1>3. live' => g # generation /\ live /\ conn' = conn /\ conn # 0
  BY <1>2 DEF Fail, Shape, CallsAreAddressed
<1>4. /\ Shape'
      /\ \A h \in Gens : calls'[h] = IF h = g THEN NoCall ELSE calls[h]
      /\ \A h \in Gens : Alive(h)' <=> Alive(h) /\ h # g
  BY <1>1, <1>3, EndShape
<1>5. NoCall.stage = "idle"
  BY DEF NoCall
<1>6. CASE g = generation
  <2>1. ~Trusted'
    BY <1>3, <1>4, <1>6 DEF Trusted, Busy, Alive
  <2> QED BY <1>1, <1>4, <1>5, <2>1, DoubtOrder
<1>7. CASE g # generation
  <2>1. UNCHANGED <<conn, live, protocols>>
    BY <1>7 DEF Fail
  <2>2. \A h \in Gens : Alive(h)' => Alive(h) /\ calls'[h] = calls[h]
    BY <1>4
  <2>3. Trusted' => Trusted
    BY <2>1, <2>2 DEF Trusted, Busy
  <2>4. EchoIsLast' /\ CommandsAreNext'
    BY <1>1 DEF Order, EchoIsLast, CommandsAreNext, Expected
  <2>5. \A h \in Gens : calls'[h].stage \in {"wire", "reading"} => calls'[h] = calls[h] /\ h # g
    BY <1>4, <1>5
  <2>6. \A h \in Gens : Alive(h) => Alive(h)'
    BY <1>4, <1>7 DEF Alive
  <2>7. ASSUME Trusted', NEW h \in Gens
        PROVE  /\ wire'[h].kind \in Talk /\ wire'[h].conn = conn' =>
                    Alive(h)' /\ calls'[h].stage = "wire" /\ wire'[h] = calls'[h].req
               /\ calls'[h].stage = "reading" /\ calls'[h].req.conn = conn' => Alive(h)'
    BY <1>1, <2>1, <2>2, <2>3, <2>5, <2>6, <2>7 DEF Order, OneOnTheWay
  <2>8. OneOnTheWay'
    BY <1>1, <2>5, <2>7 DEF Order, OneOnTheWay
  <2>9. ProtocolAgrees'
    BY <1>1, <2>1, <2>2 DEF Order, ProtocolAgrees, Agreed
  <2> QED BY <1>4, <2>4, <2>8, <2>9 DEF Order
<1> QED BY <1>6, <1>7

\* A command succeeds: its connection is trusted and nothing is on its way.
LEMMA FinishKeeps ==
  ASSUME TypeOK, Shape, Order, NEW g \in Gens, Finish(g)
  PROVE  Shape' /\ Order'
<1>1. /\ calls' = [calls EXCEPT ![g] = NoCall] /\ pending' = IF pending = g THEN 0 ELSE pending
      /\ UNCHANGED <<generation, opened, wire, bridge, protocols>>
      /\ calls[g].stage = "accepted" /\ Alive(g) /\ g = generation
  BY DEF Finish, Current, Alive
<1>2. conn = calls[g].req.conn /\ conn # 0
  BY <1>1 DEF Shape, CallsAreAddressed, TypeOK
<1>3. (conn' = conn /\ live') \/ (conn' = 0 /\ ~live')
  BY DEF Finish
<1>4. /\ Shape'
      /\ \A h \in Gens : calls'[h] = IF h = g THEN NoCall ELSE calls[h]
      /\ \A h \in Gens : Alive(h)' <=> Alive(h) /\ h # g
  BY <1>1, <1>2, <1>3, EndShape
<1>5. \A h \in Gens : ~Alive(h)'
  BY <1>1, <1>4 DEF Alive
<1>6. NoCall.stage = "idle"
  BY DEF NoCall
<1>7. \A h \in Gens : calls'[h].stage \in {"wire", "reading"} => calls'[h] = calls[h] /\ h # g
  BY <1>4, <1>6
<1>8. CASE calls[g].req.kind = "disconnect"
  <2>1. ~Trusted'
    BY <1>5, <1>8 DEF Finish, Trusted, Busy
  <2> QED BY <1>1, <1>4, <1>7, <2>1, DoubtOrder
<1>9. CASE calls[g].req.kind # "disconnect"
  <2>1. calls[g].req.kind \in Talk
    BY <1>1, <1>9 DEF Shape, CallsAreAddressed, TypeOK, Calls, Requests, Talk
  <2>2. Trusted /\ live' /\ conn' = conn
    BY <1>1, <1>9, <2>1 DEF Finish, Trusted, Busy
  <2>3. Agreed(protocols[conn])
    BY <1>1, <2>1 DEF Order, ProtocolAgrees
  <2>4. \A h \in Gens : Alive(h) => h = g
    BY <1>1 DEF Alive
  <2>5. \A h \in Gens : /\ ~(wire[h].kind \in Talk /\ wire[h].conn = conn)
                        /\ ~(calls[h].stage = "reading" /\ calls[h].req.conn = conn)
    BY <1>1, <2>2, <2>4 DEF Order, OneOnTheWay
  <2>6. EchoIsLast' /\ CommandsAreNext'
    BY <1>1 DEF Order, EchoIsLast, CommandsAreNext, Expected
  <2>7. OneOnTheWay'
    BY <1>1, <1>7, <2>2, <2>5 DEF Order, OneOnTheWay
  <2>8. ProtocolAgrees'
    BY <1>1, <1>5, <2>2, <2>3 DEF ProtocolAgrees, Agreed
  <2> QED BY <1>4, <2>6, <2>7, <2>8 DEF Order
<1> QED BY <1>8, <1>9

\* Nothing that a timer, a disconnect or a change of address interrupts is trusted.
LEMMA TimeoutKeeps ==
  ASSUME TypeOK, Shape, Order, NEW g \in Gens, Timeout(g)
  PROVE  Shape' /\ Order'
<1>1. /\ calls[g].stage # "idle" /\ ~calls[g].aborted /\ calls' = Aborted(calls, g)
      /\ UNCHANGED <<conn, live, generation, pending, protocols, opened, wire, bridge>>
  BY DEF Timeout
<1>2. g = pending /\ pending # 0 /\ ~live
  BY <1>1, PendingIsGeneration DEF Shape, OneRequestAtATime, Alive
<1>3. Shape' /\ ~Trusted' /\ \A h \in Gens : calls'[h].stage = "wire" => calls[h].stage = "wire" /\ calls'[h].answer = calls[h].answer
  BY <1>1, <1>2, AbortShape
<1> QED BY <1>1, <1>3, DoubtOrder

\* invalidate aborts what is pending.
LEMMA InvalidateKeeps ==
  ASSUME TypeOK, Shape, Order, Invalidate
  PROVE  Shape' /\ Order'
<1>1. Shape' /\ ~Trusted' /\ \A h \in Gens : calls'[h].stage = "wire" => calls[h].stage = "wire" /\ calls'[h].answer = calls[h].answer
  BY AbortShape DEF Invalidate
<1> QED BY <1>1, DoubtOrder DEF Invalidate

\* A call of the client that aborts nothing is one that aborts what is pending.
LEMMA NothingToAbort ==
  ASSUME TypeOK, pending = 0
  PROVE  Aborted(calls, pending) = calls
<1>1. \A h \in Gens : Aborted(calls, pending)[h] = calls[h]
  BY PhysicalAssumption DEF Aborted, Gens
<1>2. Aborted(calls, pending) = [h \in Gens |-> Aborted(calls, pending)[h]]
  BY DEF Aborted
<1> QED BY <1>1, <1>2 DEF TypeOK

\* connect: nothing of a new nonce is on its way, here or at the bridge.
LEMMA ConnectKeeps ==
  ASSUME TypeOK, Shape, Order, Connect
  PROVE  Shape' /\ Order'
<1> DEFINE req == [NoRequest EXCEPT !.kind = "connect", !.conn = opened + 1, !.id = 1, !.op = "discover"]
           g == generation + 1
           p == Prepared(NewProtocol, "discover")
<1>1. opened + 1 \in 0..MaxConnections /\ 1 \in 0..MaxCommands /\ opened + 1 \in Conns
      /\ opened \in Nat /\ opened + 1 \in Nat
  BY PhysicalAssumption DEF Connect, TypeOK, Conns
<1>2. /\ req \in Requests /\ req.kind = "connect" /\ req.conn = opened + 1 /\ req.id = 1
      /\ req.op = "discover" /\ req.at = NoStamp
  BY <1>1, ConstantTypes DEF Requests, NoRequest
<1>3. /\ p.sent = 1 /\ p.at = NoStamp /\ p.next = NoStamp /\ p.selected = NoStamp
  BY ConstantTypes, PreparedType, PhysicalAssumption DEF NewProtocol
<1>4. /\ Exchange(req) /\ calls' = Starting(Aborted(calls, pending), req) /\ UNCHANGED bridge
      /\ conn' = opened + 1 /\ opened' = opened + 1 /\ ~live'
      /\ protocols' = [protocols EXCEPT ![opened + 1] = p]
  BY NothingToAbort DEF Connect
<1>5. conn' \in 1..opened' /\ opened <= opened' /\ req.kind # "none" /\ req.conn = conn' /\ opened' \in Nat
  BY <1>1, <1>2, <1>4, PhysicalAssumption
<1> HIDE DEF req, p
<1>6. /\ Shape'
      /\ g \in Gens /\ generation' = g
      /\ calls'[g] = [stage |-> "wire", req |-> req, answer |-> NoAnswer, aborted |-> FALSE]
      /\ \A h \in Gens : h # g =>
           /\ calls'[h].stage # "wire" /\ calls'[h].req = calls[h].req
           /\ calls'[h].stage = "reading" => calls[h].stage = "reading"
      /\ wire[g].kind = "none"
      /\ \A h \in Gens : wire'[h] = IF h = g THEN req ELSE wire[h]
      /\ \A h \in Gens : Alive(h)' <=> h = g
  BY <1>2, <1>4, <1>5, StartShape
<1>7. \A h \in Gens : /\ wire[h].kind # "none" => wire[h].conn # conn'
                      /\ calls[h].stage # "idle" => calls[h].req.conn # conn'
  BY <1>1, <1>4, PhysicalAssumption DEF Shape, CallsAreAddressed
<1>8. bridge.conn # conn'
  BY <1>1, <1>4, PhysicalAssumption DEF Shape, CallsAreAddressed, TypeOK
<1>9. EchoIsLast'
  BY <1>4 DEF Order, EchoIsLast
<1>10. CommandsAreNext'
  BY <1>2, <1>4, <1>6 DEF Order, CommandsAreNext, Expected
<1>11. OneOnTheWay'
  <2>1. \A h, k \in Gens : wire'[h].kind \in Talk /\ wire'[k].kind \in Talk /\ wire'[h].conn = wire'[k].conn => h = k
    BY <1>2, <1>4, <1>6, <1>7 DEF Order, OneOnTheWay, Talk
  <2>2. \A h \in Gens : wire'[h].kind = "connect" => bridge'.conn # wire'[h].conn
    BY <1>2, <1>4, <1>6, <1>8 DEF Order, OneOnTheWay
  <2>3. \A h \in Gens : wire'[h].kind # "none" /\ calls'[h].stage = "wire" => calls'[h].answer.tag = "none"
    BY <1>6 DEF NoAnswer, Note
  <2>4. \A h \in Gens : wire'[h].kind \in Talk /\ wire'[h].conn = conn' => h = g
    BY <1>6, <1>7 DEF Talk
  <2>5. \A h \in Gens : calls'[h].stage = "reading" /\ calls'[h].req.conn = conn' => Alive(h)'
    BY <1>6, <1>7
  <2>6. \A h \in Gens : h = g => Alive(h)' /\ calls'[h].stage = "wire" /\ wire'[h] = calls'[h].req
    BY <1>6
  <2> QED BY <2>1, <2>2, <2>3, <2>4, <2>5, <2>6 DEF OneOnTheWay
<1>12. ProtocolAgrees'
  <2>1. protocols'[conn'] = p
    BY <1>1, <1>4 DEF TypeOK
  <2>2. calls'[g].stage = "wire" /\ calls'[g].req = req /\ wire'[g].kind # "none"
    BY <1>2, <1>6
  <2>3. req.op \notin Queries
    BY <1>2 DEF Queries
  <2>4. p.sent = req.id /\ p.next = NoStamp /\ p.at = req.at /\ p.selected = NoStamp
    BY <1>2, <1>3 DEF p
  <2> QED BY <1>4, <1>6, <2>1, <2>2, <2>3, <2>4 DEF ProtocolAgrees
<1> QED BY <1>6, <1>9, <1>10, <1>11, <1>12 DEF Order

\* A command: the connection is trusted, so the bridge is where the client is.
LEMMA CommandKeeps ==
  ASSUME TypeOK, Shape, Order, NEW op \in Ops, NEW n \in Nat, Command(op, n)
  PROVE  Shape' /\ Order'
<1> DEFINE p == protocols[conn]
           req == [kind |-> "command", conn |-> conn, id |-> p.sent + 1, at |-> p.at, op |-> op,
                   n |-> n, page |-> IF op = "next" THEN p.next ELSE NoStamp]
           g == generation + 1
           q == Prepared(p, op)
<1>1. /\ conn \in Conns /\ conn # 0 /\ live /\ pending = 0 /\ Preparable(p, op)
      /\ p \in Protocols /\ p.sent < MaxCommands
  BY PhysicalAssumption DEF Command, ready, Preparable, TypeOK, Conns
<1>2. /\ p.sent + 1 \in 0..MaxCommands /\ p.at \in Stamps /\ p.next \in Stamps
  BY <1>1, PhysicalAssumption DEF Protocols
<1>3. req \in Requests /\ req.kind = "command" /\ req.conn = conn /\ req.id = p.sent + 1
      /\ req.op = op /\ req.at = p.at
  BY <1>2, ConstantTypes DEF Requests, TypeOK
<1>4. /\ q.sent = p.sent + 1 /\ q.at = p.at /\ q.next = NoStamp
      /\ q.selected = IF op \in Moves \cup {"state"} THEN NoStamp ELSE p.selected
  BY <1>1, PreparedType
<1>5. /\ Exchange(req) /\ calls' = Starting(Aborted(calls, pending), req)
      /\ UNCHANGED <<conn, opened, bridge>> /\ ~live'
      /\ protocols' = [protocols EXCEPT ![conn] = q]
  BY NothingToAbort DEF Command, ready
<1>6. conn' \in 1..opened' /\ opened <= opened' /\ req.kind # "none" /\ req.conn = conn' /\ opened' \in Nat
  BY <1>1, <1>3, <1>5, PhysicalAssumption DEF Shape, CallsAreAddressed, TypeOK
<1>7. Agreed(p) /\ Trusted
  BY <1>1 DEF Order, ProtocolAgrees, Trusted
<1> HIDE DEF req, q
<1>8. /\ Shape'
      /\ g \in Gens /\ generation' = g
      /\ calls'[g] = [stage |-> "wire", req |-> req, answer |-> NoAnswer, aborted |-> FALSE]
      /\ \A h \in Gens : h # g =>
           /\ calls'[h].stage # "wire" /\ calls'[h].req = calls[h].req
           /\ calls'[h].stage = "reading" => calls[h].stage = "reading"
      /\ wire[g].kind = "none"
      /\ \A h \in Gens : wire'[h] = IF h = g THEN req ELSE wire[h]
      /\ \A h \in Gens : Alive(h)' <=> h = g
  BY <1>3, <1>5, <1>6, StartShape
<1>9. \A h \in Gens : ~Alive(h)
  BY <1>1, PendingIsGeneration
<1>10. \A h \in Gens : /\ ~(wire[h].kind \in Talk /\ wire[h].conn = conn)
                       /\ ~(calls[h].stage = "reading" /\ calls[h].req.conn = conn)
  BY <1>7, <1>9 DEF Order, OneOnTheWay
<1>11. EchoIsLast'
  BY <1>5 DEF Order, EchoIsLast
<1>12. CommandsAreNext'
  <2>1. bridge.conn = conn => req.id = bridge.served + 1 /\ req.at = bridge.at
    BY <1>3, <1>7 DEF Agreed
  <2> QED BY <1>3, <1>5, <1>8, <2>1 DEF Order, CommandsAreNext, Expected
<1>13. OneOnTheWay'
  <2>1. \A h, k \in Gens : wire'[h].kind \in Talk /\ wire'[k].kind \in Talk /\ wire'[h].conn = wire'[k].conn => h = k
    BY <1>3, <1>8, <1>10 DEF Order, OneOnTheWay
  <2>2. \A h \in Gens : wire'[h].kind = "connect" => bridge'.conn # wire'[h].conn
    BY <1>3, <1>5, <1>8 DEF Order, OneOnTheWay
  <2>3. \A h \in Gens : wire'[h].kind # "none" /\ calls'[h].stage = "wire" => calls'[h].answer.tag = "none"
    BY <1>8 DEF NoAnswer, Note
  <2>4. \A h \in Gens : wire'[h].kind \in Talk /\ wire'[h].conn = conn' => h = g
    BY <1>5, <1>8, <1>10
  <2>5. \A h \in Gens : calls'[h].stage = "reading" /\ calls'[h].req.conn = conn' => Alive(h)'
    BY <1>5, <1>8, <1>10
  <2>6. \A h \in Gens : h = g => Alive(h)' /\ calls'[h].stage = "wire" /\ wire'[h] = calls'[h].req
    BY <1>8
  <2> QED BY <2>1, <2>2, <2>3, <2>4, <2>5, <2>6 DEF OneOnTheWay
<1>14. ProtocolAgrees'
  <2>1. protocols'[conn'] = q
    BY <1>1, <1>5 DEF TypeOK
  <2>2. calls'[g].stage = "wire" /\ calls'[g].req = req /\ wire'[g].kind # "none"
    BY <1>3, <1>8
  <2>3. q.selected \in (IF req.op \in Queries THEN {NoStamp, q.at} ELSE {NoStamp})
    BY <1>3, <1>4, <1>7 DEF Agreed, Ops
  <2>4. q.sent = req.id /\ q.next = NoStamp /\ q.at = req.at
    BY <1>3, <1>4
  <2> QED BY <1>5, <1>8, <2>1, <2>2, <2>3, <2>4 DEF ProtocolAgrees
<1> QED BY <1>8, <1>11, <1>12, <1>13, <1>14 DEF Order

\* disconnect: whatever was on its way stays there, and nothing follows it.
LEMMA DisconnectKeeps ==
  ASSUME TypeOK, Shape, Order, Disconnect
  PROVE  Shape' /\ Order'
<1> DEFINE req == [NoRequest EXCEPT !.kind = "disconnect", !.conn = conn]
           g == generation + 1
<1>1. /\ req \in Requests /\ req.kind = "disconnect" /\ req.conn = conn
  BY ConstantTypes DEF Requests, TypeOK, NoRequest
<1>2. /\ Exchange(req) /\ calls' = Starting(Aborted(calls, pending), req)
      /\ UNCHANGED <<conn, opened, bridge>> /\ ~live' /\ conn # 0
  BY DEF Disconnect
<1>3. conn' \in 1..opened' /\ opened <= opened' /\ req.kind # "none" /\ req.conn = conn' /\ opened' \in Nat
  BY <1>1, <1>2, PhysicalAssumption DEF Shape, CallsAreAddressed, TypeOK
<1> HIDE DEF req
<1>4. /\ Shape'
      /\ g \in Gens /\ generation' = g
      /\ calls'[g] = [stage |-> "wire", req |-> req, answer |-> NoAnswer, aborted |-> FALSE]
      /\ \A h \in Gens : h # g => calls'[h].stage # "wire"
      /\ \A h \in Gens : wire'[h] = IF h = g THEN req ELSE wire[h]
      /\ \A h \in Gens : Alive(h)' <=> h = g
  BY <1>1, <1>2, <1>3, StartShape
<1>5. ~Trusted'
  BY <1>1, <1>2, <1>4 DEF Trusted, Busy, Talk
<1>6. EchoIsLast' /\ CommandsAreNext'
  BY <1>1, <1>2, <1>4 DEF Order, EchoIsLast, CommandsAreNext, Expected
<1>7. OneOnTheWay'
  BY <1>1, <1>2, <1>4, <1>5 DEF Order, OneOnTheWay, Talk, NoAnswer, Note
<1>8. ProtocolAgrees'
  BY <1>5 DEF ProtocolAgrees, Trusted, Busy
<1> QED BY <1>4, <1>6, <1>7, <1>8 DEF Order

\* What accept leaves of a reply that it admits: the position is the reply's, and
\* what is retained is there.
LEMMA AcceptedAgrees ==
  ASSUME NEW p \in Protocols, NEW a \in Answers, NEW req, Accepts(p, req, a),
         p.next = NoStamp, p.selected \in (IF req.op \in Queries THEN {NoStamp, p.at} ELSE {NoStamp}),
         ~(a.ok /\ a.op \in Pages)
  PROVE  /\ Accepted(p, a).at = a.at /\ Accepted(p, a).sent = p.sent
         /\ Accepted(p, a).selected \in {NoStamp, a.at} /\ Accepted(p, a).next = NoStamp
<1> DEFINE q == Answered(p, a)
           end == EndAfter(p, a)
<1>1. /\ q.at = a.at /\ q.sent = p.sent /\ q.selected = p.selected /\ q.next = NoStamp
      /\ q \in [known : BOOLEAN, at : Stamps, sent : 0..MaxCommands, pending : {0},
                selected : Stamps, next : Stamps, end : 0..End, highest : 0..End]
  BY DEF Answered, Protocols, Answers
<1> HIDE DEF q
<1>2. a.op = req.op
  BY DEF Accepts
<1>3. CASE ~p.known
  <2>1. Accepted(p, a) = q
    BY <1>3 DEF Accepted, q
  <2>2. p.selected = NoStamp
    BY <1>2, <1>3 DEF Accepts, Queries
  <2> QED BY <1>1, <2>1, <2>2
<1>4. CASE p.known /\ ~a.ok
  <2>1. Accepted(p, a) = Clear(q)
    BY <1>4 DEF Accepted, q
  <2> QED BY <1>1, <2>1 DEF Clear
<1>5. CASE p.known /\ a.ok /\ a.op \in Moves
  <2>1. PICK highest : Accepted(p, a) = [q EXCEPT !.selected = IF a.captured THEN a.at ELSE NoStamp,
                                                  !.end = end, !.highest = highest]
    BY <1>5 DEF Accepted, q, Moves, Pages
  <2> QED BY <1>1, <2>1
<1>6. CASE p.known /\ a.ok /\ a.op = "state"
  <2>1. Accepted(p, a) = [q EXCEPT !.selected = IF a.captured THEN a.at ELSE NoStamp]
    BY <1>6 DEF Accepted, q, Moves
  <2> QED BY <1>1, <2>1
<1>7. CASE p.known /\ a.ok /\ a.op \notin Moves \cup {"state"}
  <2>1. Accepted(p, a) = q
    BY <1>7 DEF Accepted, q
  <2>2. a.at = p.at
    BY <1>7 DEF Accepts
  <2> QED BY <1>1, <2>1, <2>2
<1> QED BY <1>3, <1>4, <1>5, <1>6, <1>7

\* The same of a page of values.
LEMMA PageAgrees ==
  ASSUME NEW p \in Protocols, NEW a \in Answers, p.known, a.ok, a.op \in Pages, a.at = p.at
  PROVE  /\ Accepted(p, a).at = p.at /\ Accepted(p, a).sent = p.sent
         /\ Accepted(p, a).selected = p.selected /\ Accepted(p, a).next \in {NoStamp, p.at}
<1> DEFINE q == Answered(p, a)
<1>1. q.at = p.at /\ q.sent = p.sent /\ q.selected = p.selected
  BY DEF Answered, Protocols
<1>2. Accepted(p, a) = [q EXCEPT !.next = IF a.more THEN a.at ELSE NoStamp]
  BY DEF Accepted, Pages, Moves
<1>3. q \in [known : BOOLEAN, at : Stamps, sent : 0..MaxCommands, pending : {0},
             selected : Stamps, next : Stamps, end : 0..End, highest : 0..End]
  BY DEF Answered, Protocols, Answers
<1> HIDE DEF q
<1> QED BY <1>1, <1>2, <1>3

\* A reply that is admitted while it is awaited is the bridge's answer to this
\* request: nothing of the connection is on its way, and the bridge is where it says.
LEMMA AdmittedIsAnswer ==
  ASSUME TypeOK, Shape, Order, NEW g \in Gens, calls[g].stage = "wire", calls[g].req.kind \in Talk,
         NEW a \in Deliverable(g), Satisfies(calls[g].req, a)
  PROVE  /\ Alive(g) /\ Trusted /\ calls[g].req.conn = conn /\ conn \in Conns
         /\ Accepts(protocols[conn], calls[g].req, a) /\ a \in Answers
         /\ \A h \in Gens : ~(wire[h].kind \in Talk /\ wire[h].conn = conn)
         /\ bridge.conn = conn => a.at = bridge.at /\ protocols[conn].sent = bridge.served
<1> DEFINE p == protocols[conn]
           req == calls[g].req
<1>1. Alive(g) /\ Trusted /\ conn \in Conns
  BY PendingIsGeneration DEF Trusted, Busy
<1>2. req.conn = conn
  BY <1>1 DEF Alive, Shape, CallsAreAddressed
<1>3. Accepts(p, req, a)
  BY <1>2 DEF Satisfies, Talk
<1>4. a.tag = "view" /\ a.conn = conn /\ a.id = req.id /\ p.sent = req.id
  BY <1>1, <1>2, <1>3 DEF Accepts, Order, ProtocolAgrees
<1>5. ASSUME NEW h \in Gens, wire[h].kind \in Talk, wire[h].conn = conn
      PROVE  h = g /\ wire[g] = req
  BY <1>1, <1>5 DEF Order, OneOnTheWay, Alive
<1>6. CASE a = calls[g].answer
  <2>1. wire[g].kind = "none"
    BY <1>4, <1>6 DEF Order, OneOnTheWay
  <2>2. \A h \in Gens : ~(wire[h].kind \in Talk /\ wire[h].conn = conn)
    BY <1>5, <2>1 DEF Talk
  <2>3. bridge.conn = conn => a.id = bridge.served /\ a.at = bridge.at
    BY <1>1, <1>4, <1>6, <2>1 DEF Order, ProtocolAgrees
  <2> QED BY <1>1, <1>2, <1>3, <1>4, <2>2, <2>3, DeliverableType
<1>7. CASE a = Note("unusable", 0)
  BY <1>4, <1>7 DEF Note
<1>8. CASE a = bridge.echo
  <2>1. bridge.conn = conn /\ a.id = bridge.served /\ a.at = bridge.at
    BY <1>4, <1>8 DEF Order, EchoIsLast
  <2>2. ASSUME NEW h \in Gens, wire[h].kind \in Talk, wire[h].conn = conn PROVE FALSE
    <3>1. CASE wire[h].kind = "connect"
      BY <2>1, <2>2, <3>1 DEF Order, OneOnTheWay
    <3>2. CASE wire[h].kind = "command"
      <4>1. wire[h].id = bridge.served + 1 /\ wire[h].id = bridge.served
        BY <1>4, <1>5, <2>1, <2>2, <3>2 DEF Order, CommandsAreNext, Expected
      <4> QED BY <4>1, PhysicalAssumption DEF TypeOK
    <3> QED BY <2>2, <3>1, <3>2 DEF Talk
  <2> QED BY <1>1, <1>2, <1>3, <1>4, <2>1, <2>2, DeliverableType
<1> QED BY <1>6, <1>7, <1>8 DEF Deliverable

\* A reply that is admitted.
LEMMA DeliverKeeps ==
  ASSUME TypeOK, Shape, Order, NEW g \in Gens, Deliver(g)
  PROVE  Shape' /\ Order'
<1> DEFINE req == calls[g].req
<1>1. PICK a \in Deliverable(g) :
        /\ Satisfies(req, a)
        /\ IF req.kind = "disconnect" THEN
             calls' = [calls EXCEPT ![g].stage = "accepted"] /\ UNCHANGED protocols
           ELSE IF a.ok /\ a.op \in Pages THEN
             calls' = [calls EXCEPT ![g].stage = "reading", ![g].answer = a] /\ UNCHANGED protocols
           ELSE /\ calls' = [calls EXCEPT ![g].stage = "accepted", ![g].answer = a]
                /\ protocols' = [protocols EXCEPT ![req.conn] = Accepted(@, a)]
  BY DEF Deliver
<1>2. /\ calls[g].stage = "wire" /\ g = generation
      /\ UNCHANGED <<conn, live, generation, pending, opened, wire, bridge>>
  BY DEF Deliver
<1>3. Alive(g) /\ ~live /\ \A h \in Gens : Alive(h) => h = g
  BY <1>2, PendingIsGeneration
<1>4. \A h \in Gens : /\ calls'[h].req = calls[h].req /\ calls'[h].aborted = calls[h].aborted
                      /\ h # g => calls'[h] = calls[h]
                      /\ h = g => calls'[h].stage \in {"reading", "accepted"}
  BY <1>1 DEF TypeOK, Calls
<1>5. Shape' /\ (Trusted' <=> Trusted) /\ \A h \in Gens : Alive(h)' <=> Alive(h)
  <2>1. bridge'.conn <= opened
    BY <1>2 DEF Shape, CallsAreAddressed
  <2>2. \A h \in Gens : /\ calls'[h].req = calls[h].req /\ calls'[h].aborted = calls[h].aborted
                        /\ \/ calls'[h].stage = calls[h].stage
                           \/ calls[h].stage # "idle" /\ calls'[h].stage \notin {"idle", "wire"}
    <3> TAKE h \in Gens
    <3>1. CASE h = g
      BY <1>2, <1>4, <3>1
    <3>2. CASE h # g
      BY <1>4, <3>2
    <3> QED BY <3>1, <3>2
  <2>3. UNCHANGED <<conn, live, generation, pending, opened>> /\ \A h \in Gens : wire'[h] = wire[h]
    BY <1>2
  <2> QED BY <2>1, <2>2, <2>3, GoesOnShape
<1>6. EchoIsLast' /\ CommandsAreNext'
  BY <1>2 DEF Order, EchoIsLast, CommandsAreNext, Expected
<1>7. CASE req.kind = "disconnect"
  <2>1. ~Trusted'
    BY <1>3, <1>5, <1>7 DEF Trusted, Busy, Talk
  <2> QED BY <1>2, <1>4, <1>5, <2>1, DoubtOrder
<1>8. CASE req.kind # "disconnect"
  <2>1. req.kind \in Talk
    BY <1>2, <1>8 DEF Shape, CallsAreAddressed, TypeOK, Calls, Requests, Talk
  <2>2. /\ Trusted /\ req.conn = conn /\ conn \in Conns
        /\ Accepts(protocols[conn], req, a) /\ a \in Answers
        /\ \A h \in Gens : ~(wire[h].kind \in Talk /\ wire[h].conn = conn)
        /\ bridge.conn = conn => a.at = bridge.at /\ protocols[conn].sent = bridge.served
    BY <1>1, <1>2, <2>1, AdmittedIsAnswer
  <2>3. OneOnTheWay'
    <3>1. \A h \in Gens : wire'[h].kind # "none" /\ calls'[h].stage = "wire" => calls'[h].answer.tag = "none"
      BY <1>2, <1>4 DEF Order, OneOnTheWay
    <3>2. \A h \in Gens : calls'[h].stage = "reading" /\ calls'[h].req.conn = conn => Alive(h)'
      BY <1>3, <1>4, <1>5, <2>2 DEF Order, OneOnTheWay
    <3> QED BY <1>2, <2>2, <3>1, <3>2 DEF Order, OneOnTheWay
  <2>4. /\ protocols[conn] \in Protocols /\ protocols[conn].next = NoStamp /\ protocols[conn].sent = req.id
        /\ protocols[conn].selected \in (IF req.op \in Queries THEN {NoStamp, protocols[conn].at} ELSE {NoStamp})
    BY <1>2, <1>3, <2>1, <2>2 DEF Order, ProtocolAgrees, TypeOK
  <2>5. CASE a.ok /\ a.op \in Pages
    <3>1. calls'[g] = [calls[g] EXCEPT !.stage = "reading", !.answer = a] /\ UNCHANGED protocols
      BY <1>1, <1>8, <2>5 DEF TypeOK
    <3>2. calls'[g].stage = "reading" /\ calls'[g].answer = a
      BY <3>1 DEF TypeOK, Calls
    <3>3. protocols[conn].known /\ protocols[conn].selected # NoStamp /\ a.at = protocols[conn].at
      BY <2>2, <2>5 DEF Accepts, Pages, Queries, Moves, Protocols
    <3>4. protocols[conn].selected \in {NoStamp, protocols[conn].at}
      BY <2>4
    <3>5. /\ bridge'.conn = conn' => protocols'[conn'].at = bridge'.at /\ protocols'[conn'].sent = bridge'.served
          /\ protocols'[conn'].selected \in {NoStamp, protocols'[conn'].at} /\ protocols'[conn'].next = NoStamp
      BY <1>2, <2>2, <2>4, <3>1, <3>3, <3>4
    <3>6. calls'[g].req = req /\ protocols'[conn'].sent = req.id /\ Agreed(protocols[conn])'
      BY <1>2, <1>4, <2>4, <3>1, <3>5 DEF Agreed
    <3>7. protocols'[conn'].known /\ protocols'[conn'].selected # NoStamp /\ a.at = protocols'[conn'].at
      <4>1. protocols'[conn'] = protocols[conn]
        BY <1>2, <3>1
      <4> QED BY <3>3, <4>1, Zenon
    <3>8. ~live' /\ \A h \in Gens : Alive(h)' => h = g
      BY <1>2, <1>3, <1>5
    <3>9. ProtocolAgrees'
      BY <2>5, <3>2, <3>6, <3>7, <3>8 DEF ProtocolAgrees
    <3> QED BY <1>5, <1>6, <2>3, <3>9 DEF Order
  <2>6. CASE ~(a.ok /\ a.op \in Pages)
    <3>1. calls'[g] = [calls[g] EXCEPT !.stage = "accepted", !.answer = a]
      BY <1>1, <1>8, <2>6 DEF TypeOK
    <3>2. calls'[g].stage = "accepted"
      BY <3>1 DEF TypeOK, Calls
    <3>3. protocols'[conn] = Accepted(protocols[conn], a)
      BY <1>1, <1>8, <2>2, <2>6 DEF TypeOK
    <3>4. /\ protocols'[conn].at = a.at /\ protocols'[conn].sent = protocols[conn].sent
          /\ protocols'[conn].selected \in {NoStamp, a.at} /\ protocols'[conn].next = NoStamp
      <4> DEFINE p == protocols[conn]
      <4>1. /\ p \in Protocols /\ p.next = NoStamp /\ Accepts(p, req, a) /\ a \in Answers
            /\ p.selected \in (IF req.op \in Queries THEN {NoStamp, p.at} ELSE {NoStamp})
        BY <2>2, <2>4
      <4> HIDE DEF p, req
      <4>2. /\ Accepted(p, a).at = a.at /\ Accepted(p, a).sent = p.sent
            /\ Accepted(p, a).selected \in {NoStamp, a.at} /\ Accepted(p, a).next = NoStamp
        BY <2>6, <4>1, AcceptedAgrees
      <4> QED BY <3>3, <4>2 DEF p
    <3>5. calls'[g].req = req /\ protocols'[conn'].sent = req.id /\ Agreed(protocols[conn])'
      BY <1>2, <1>4, <2>2, <2>4, <3>4 DEF Agreed
    <3>6. ~live' /\ \A h \in Gens : Alive(h)' => h = g
      BY <1>2, <1>3, <1>5
    <3>7. ProtocolAgrees'
      BY <3>2, <3>5, <3>6 DEF ProtocolAgrees
    <3> QED BY <1>5, <1>6, <2>3, <3>7 DEF Order
  <2> QED BY <2>5, <2>6
<1> QED BY <1>7, <1>8

\* A digest that ends after its exchange was interrupted writes to the protocol
\* object of a connection that is not trusted any more.
LEMMA HashedKeeps ==
  ASSUME TypeOK, Shape, Order, NEW g \in Gens, Hashed(g)
  PROVE  Shape' /\ Order'
<1> DEFINE req == calls[g].req
           a == calls[g].answer
           p == protocols[conn]
<1>1. /\ calls[g].stage = "reading"
      /\ protocols' = [protocols EXCEPT ![req.conn] = Accepted(@, a)]
      /\ UNCHANGED <<conn, live, generation, pending, opened, wire, bridge>>
  BY DEF Hashed
<1>2. \A h \in Gens : /\ calls'[h].req = calls[h].req /\ calls'[h].aborted = calls[h].aborted
                      /\ h # g => calls'[h] = calls[h]
                      /\ h = g => calls'[h].stage = "accepted"
  BY DEF Hashed, TypeOK, Calls
<1>3. Shape' /\ (Trusted' <=> Trusted) /\ \A h \in Gens : Alive(h)' <=> Alive(h)
  <2>1. bridge'.conn <= opened
    BY <1>1 DEF Shape, CallsAreAddressed
  <2>2. \A h \in Gens : /\ calls'[h].req = calls[h].req /\ calls'[h].aborted = calls[h].aborted
                        /\ \/ calls'[h].stage = calls[h].stage
                           \/ calls[h].stage # "idle" /\ calls'[h].stage \notin {"idle", "wire"}
    <3> TAKE h \in Gens
    <3>1. CASE h = g
      BY <1>1, <1>2, <3>1
    <3>2. CASE h # g
      BY <1>2, <3>2
    <3> QED BY <3>1, <3>2
  <2>3. UNCHANGED <<conn, live, generation, pending, opened>> /\ \A h \in Gens : wire'[h] = wire[h]
    BY <1>1
  <2> QED BY <2>1, <2>2, <2>3, GoesOnShape
<1>4. \A h \in Gens : calls'[h].stage \in {"wire", "reading"} => h # g /\ calls'[h] = calls[h]
  BY <1>2
<1>5. EchoIsLast' /\ CommandsAreNext'
  BY <1>1 DEF Order, EchoIsLast, CommandsAreNext, Expected
<1>6. CASE ~Trusted
  BY <1>1, <1>3, <1>4, <1>6, DoubtOrder
<1>7. CASE Trusted
  <2>1. conn \in Conns
    BY <1>7, PendingIsGeneration
  <2>2. OneOnTheWay'
    <3>1. \A h \in Gens : wire'[h].kind # "none" /\ calls'[h].stage = "wire" => calls'[h].answer.tag = "none"
      BY <1>1, <1>4 DEF Order, OneOnTheWay
    <3>2. ASSUME NEW h \in Gens
          PROVE  /\ wire'[h].kind \in Talk /\ wire'[h].conn = conn' =>
                      Alive(h)' /\ calls'[h].stage = "wire" /\ wire'[h] = calls'[h].req
                 /\ calls'[h].stage = "reading" /\ calls'[h].req.conn = conn' => Alive(h)'
      <4>1. /\ wire[h].kind \in Talk /\ wire[h].conn = conn =>
                 Alive(h) /\ calls[h].stage = "wire" /\ wire[h] = calls[h].req
            /\ calls[h].stage = "reading" /\ calls[h].req.conn = conn => Alive(h)
        BY <1>7 DEF Order, OneOnTheWay
      <4>2. calls[h].stage = "wire" => calls'[h] = calls[h]
        BY <1>1, <1>2
      <4> QED BY <1>1, <1>3, <1>4, <4>1, <4>2
    <3> QED BY <1>1, <3>1, <3>2 DEF Order, OneOnTheWay
  <2>3. CASE req.conn # conn
    <3>1. protocols'[conn] = p
      BY <1>1, <2>1, <2>3 DEF TypeOK
    <3>2. \A h \in Gens : Alive(h) => calls[h].req.conn = conn
      BY DEF Alive, Shape, CallsAreAddressed
    <3>3. \A h \in Gens : Alive(h)' => Alive(h) /\ h # g /\ calls'[h] = calls[h]
      BY <1>2, <1>3, <2>3, <3>2
    <3>4. UNCHANGED <<conn, live, wire, bridge>> /\ protocols'[conn'] = protocols[conn]
      BY <1>1, <3>1
    <3>5. Agreed(protocols[conn])' <=> Agreed(protocols[conn])
      BY <3>4 DEF Agreed
    <3>6. protocols'[conn'].known <=> protocols[conn].known
      BY <3>4, Zenon
    <3>7. ProtocolAgrees'
      BY <3>3, <3>4, <3>5, <3>6 DEF Order, ProtocolAgrees
    <3> QED BY <1>3, <1>5, <2>2, <3>7 DEF Order
  <2>4. CASE req.conn = conn
    <3>1. Alive(g) /\ ~live /\ \A h \in Gens : Alive(h) => h = g
      BY <1>1, <1>7, <2>4, PendingIsGeneration DEF Order, OneOnTheWay
    <3>2. req.kind \in Talk
      BY <1>7, <3>1 DEF Trusted, Busy
    <3>3. /\ p \in Protocols /\ a \in Answers /\ p.sent = req.id /\ Agreed(p) /\ p.selected # NoStamp
          /\ p.known /\ a.at = p.at /\ a.ok /\ a.op \in Pages
      BY <1>1, <2>1, <3>1, <3>2 DEF Order, ProtocolAgrees, TypeOK, Calls
    <3>4. protocols'[conn] = Accepted(p, a)
      BY <1>1, <2>1, <2>4 DEF TypeOK
    <3>5. /\ protocols'[conn].at = p.at /\ protocols'[conn].sent = p.sent
          /\ protocols'[conn].selected = p.selected /\ protocols'[conn].next \in {NoStamp, p.at}
      <4> HIDE DEF p, a
      <4>1. /\ Accepted(p, a).at = p.at /\ Accepted(p, a).sent = p.sent
            /\ Accepted(p, a).selected = p.selected /\ Accepted(p, a).next \in {NoStamp, p.at}
        BY <3>3, PageAgrees
      <4> QED BY <3>4, <4>1
    <3>6. Agreed(protocols[conn])' /\ protocols'[conn'].sent = calls'[g].req.id
      BY <1>1, <1>2, <3>3, <3>5, SMTT(30) DEF Agreed
    <3>7. ProtocolAgrees'
      BY <1>1, <1>2, <1>3, <3>1, <3>6 DEF ProtocolAgrees
    <3> QED BY <1>3, <1>5, <2>2, <3>7 DEF Order
  <2> QED BY <2>3, <2>4
<1> QED BY <1>6, <1>7

\* The bridge takes a request off the way: what it does is the answer to that
\* request, or it forgets the session, or nothing of the session changes.
LEMMA AnswerKeeps ==
  ASSUME TypeOK, Shape, Order, NEW g \in Gens, wire[g].kind # "none", NEW a, Answer(g, a),
         EchoIsLast',
         \/ UNCHANGED bridge /\ a.tag # "view"
         \/ bridge'.conn = 0 /\ a.tag # "view"
         \/ /\ wire[g].kind \in Talk /\ bridge'.conn = wire[g].conn
            /\ a.id = bridge'.served /\ a.at = bridge'.at
  PROVE  Shape' /\ Order'
<1> DEFINE r == wire[g]
<1>1. UNCHANGED <<conn, live, generation, pending, protocols, opened>>
  BY DEF Answer
<1>2. /\ wire'[g].kind = "none"
      /\ \A h \in Gens : h # g => wire'[h] = wire[h]
  BY DEF Answer, TypeOK, NoRequest
<1>3. \A h \in Gens : wire'[h].kind # "none" => h # g /\ wire'[h] = wire[h]
  BY <1>2
<1>4. \A h \in Gens : /\ calls'[h].req = calls[h].req /\ calls'[h].aborted = calls[h].aborted
                      /\ calls'[h].stage = calls[h].stage
                      /\ h # g \/ calls[h].stage # "wire" => calls'[h] = calls[h]
                      /\ h = g /\ calls[h].stage = "wire" => calls'[h].answer = a
  BY DEF Answer, TypeOK, Calls
<1>5. \A h \in Gens : wire[h].kind # "none" => wire[h].conn \in 1..opened /\ wire[h].conn # 0
  BY DEF Shape, CallsAreAddressed
<1>6. Shape' /\ (Trusted' <=> Trusted) /\ \A h \in Gens : Alive(h)' <=> Alive(h)
  <2>1. bridge'.conn <= opened
    BY <1>5, PhysicalAssumption DEF Shape, CallsAreAddressed, TypeOK
  <2>2. \A h \in Gens : wire'[h] = wire[h] \/ wire'[h].kind = "none"
    BY <1>2
  <2> QED BY <1>1, <1>4, <2>1, <2>2, GoesOnShape
<1>7. CommandsAreNext'
  <2>1. ASSUME NEW h \in Gens, wire'[h].kind = "command", wire'[h].conn = bridge'.conn
        PROVE  wire'[h].id = bridge'.served + 1 /\ wire'[h].at = bridge'.at
    <3>1. h # g /\ wire'[h] = wire[h] /\ wire[h].kind = "command" /\ wire[h].conn = bridge'.conn /\ bridge'.conn # 0
      BY <1>3, <1>5, <2>1
    <3>2. ~(wire[g].kind \in Talk /\ bridge'.conn = wire[g].conn)
      BY <3>1 DEF Order, OneOnTheWay, Talk
    <3>3. UNCHANGED bridge
      BY <3>1, <3>2
    <3> QED BY <3>1, <3>3 DEF Order, CommandsAreNext, Expected
  <2> QED BY <2>1 DEF CommandsAreNext, Expected
<1>8. OneOnTheWay'
  <2>1. \A h, k \in Gens : wire'[h].kind \in Talk /\ wire'[k].kind \in Talk /\ wire'[h].conn = wire'[k].conn => h = k
    BY <1>3 DEF Order, OneOnTheWay, Talk
  <2>2. ASSUME NEW h \in Gens, wire'[h].kind = "connect" PROVE bridge'.conn # wire'[h].conn
    <3>1. h # g /\ wire'[h] = wire[h] /\ wire[h].conn # 0
      BY <1>3, <1>5, <2>2
    <3> QED BY <2>2, <3>1 DEF Order, OneOnTheWay, Talk
  <2>3. \A h \in Gens : wire'[h].kind # "none" /\ calls'[h].stage = "wire" => calls'[h].answer.tag = "none"
    BY <1>3, <1>4 DEF Order, OneOnTheWay
  <2>4. ASSUME Trusted, NEW h \in Gens
        PROVE  /\ wire'[h].kind \in Talk /\ wire'[h].conn = conn =>
                    Alive(h) /\ calls'[h].stage = "wire" /\ wire'[h] = calls'[h].req
               /\ calls'[h].stage = "reading" /\ calls'[h].req.conn = conn => Alive(h)
    <3>1. wire'[h].kind \in Talk => wire'[h] = wire[h]
      BY <1>3 DEF Talk
    <3> QED BY <1>4, <2>4, <3>1 DEF Order, OneOnTheWay
  <2> QED BY <1>1, <1>6, <2>1, <2>2, <2>3, <2>4 DEF OneOnTheWay
<1>9. ProtocolAgrees'
  <2>1. ASSUME Trusted, \A h \in Gens : ~(Alive(h) /\ calls[h].stage = "wire"), Agreed(protocols[conn])
        PROVE  Agreed(protocols[conn])'
    <3>1. conn # 0 /\ ~(wire[g].kind \in Talk /\ wire[g].conn = conn)
      BY <2>1, PendingIsGeneration DEF Conns, Order, OneOnTheWay
    <3>2. bridge'.conn = conn => UNCHANGED bridge
      BY <3>1
    <3> QED BY <1>1, <2>1, <3>2 DEF Agreed
  <2>2. ASSUME live' PROVE Agreed(protocols[conn])'
    BY <1>1, <2>1, <2>2, PendingIsGeneration DEF Order, ProtocolAgrees, Trusted
  <2>3. ASSUME NEW h \in Gens, Alive(h), calls[h].req.kind \in Talk, calls[h].stage # "wire"
        PROVE  Agreed(protocols[conn]) => Agreed(protocols[conn])'
    <3>1. Trusted /\ \A k \in Gens : Alive(k) => k = h
      BY <2>3, PendingIsGeneration DEF Trusted, Busy
    <3> QED BY <2>1, <2>3, <3>1
  <2>4. ASSUME NEW h \in Gens, Alive(h), calls[h].req.kind \in Talk, calls[h].stage = "wire",
               wire'[h].kind = "none", calls'[h].answer.tag = "view", bridge'.conn = conn
        PROVE  calls'[h].answer.id = bridge'.served /\ calls'[h].answer.at = bridge'.at
    <3>1. conn # 0
      BY <2>4, PendingIsGeneration DEF Conns, Trusted, Busy
    <3>2. CASE h = g
      BY <1>4, <2>4, <3>1, <3>2 DEF Order, OneOnTheWay, ProtocolAgrees
    <3>3. CASE h # g
      <4>1. calls'[h] = calls[h] /\ wire[h].kind = "none"
        BY <1>2, <1>4, <2>4, <3>3
      <4>2. ~(wire[g].kind \in Talk /\ wire[g].conn = conn)
        BY <2>4, <3>3, PendingIsGeneration DEF Order, OneOnTheWay, Trusted, Busy
      <4>3. UNCHANGED bridge
        BY <2>4, <3>1, <4>2
      <4> QED BY <2>4, <4>1, <4>3 DEF Order, ProtocolAgrees
    <3> QED BY <3>2, <3>3
  <2>5. protocols'[conn'] = protocols[conn] /\ conn' = conn /\ live' = live
    BY <1>1
  <2>6. protocols'[conn'].known <=> protocols[conn].known
    BY <2>5, Zenon
  <2>7. ASSUME NEW h \in Gens, Alive(h), calls[h].req.kind \in Talk
        PROVE  /\ protocols'[conn'].sent = calls'[h].req.id
               /\ calls'[h].stage = "wire" =>
                    /\ protocols'[conn'].next = NoStamp /\ protocols'[conn'].at = calls'[h].req.at
                    /\ protocols'[conn'].selected \in
                         (IF calls'[h].req.op \in Queries THEN {NoStamp, protocols'[conn'].at} ELSE {NoStamp})
               /\ calls'[h].stage = "reading" =>
                    /\ Agreed(protocols[conn])' /\ protocols'[conn'].selected # NoStamp /\ protocols'[conn'].known
                    /\ calls'[h].answer.at = protocols'[conn'].at /\ calls'[h].answer.ok /\ calls'[h].answer.op \in Pages
               /\ calls'[h].stage = "accepted" => Agreed(protocols[conn])'
    <3>1. /\ protocols[conn].sent = calls[h].req.id
          /\ calls[h].stage = "wire" =>
                /\ protocols[conn].next = NoStamp /\ protocols[conn].at = calls[h].req.at
                /\ protocols[conn].selected \in
                     (IF calls[h].req.op \in Queries THEN {NoStamp, protocols[conn].at} ELSE {NoStamp})
          /\ calls[h].stage = "reading" =>
                /\ Agreed(protocols[conn]) /\ protocols[conn].selected # NoStamp /\ protocols[conn].known
                /\ calls[h].answer.at = protocols[conn].at /\ calls[h].answer.ok /\ calls[h].answer.op \in Pages
          /\ calls[h].stage = "accepted" => Agreed(protocols[conn])
      BY <2>7 DEF Order, ProtocolAgrees
    <3>2. calls[h].stage # "wire" => calls'[h] = calls[h] /\ (Agreed(protocols[conn]) => Agreed(protocols[conn])')
      BY <1>4, <2>3, <2>7
    <3>3. calls'[h].req = calls[h].req /\ calls'[h].stage = calls[h].stage
      BY <1>4
    <3>4. CASE calls[h].stage = "wire"
      BY <2>5, <3>1, <3>3, <3>4
    <3>5. CASE calls[h].stage # "wire"
      BY <2>5, <2>6, <3>1, <3>2, <3>5
    <3> QED BY <3>4, <3>5
  <2>8. \A h \in Gens : Alive(h)' /\ calls'[h].req.kind \in Talk => Alive(h) /\ calls[h].req.kind \in Talk
    BY <1>4, <1>6
  <2>9. \A h \in Gens : calls'[h].stage = calls[h].stage
    BY <1>4
  <2> QED BY <1>1, <2>2, <2>4, <2>7, <2>8, <2>9 DEF ProtocolAgrees
<1> QED BY <1>6, <1>7, <1>8, <1>9 DEF Order

\* Whatever the bridge does with a request is one of the three.
LEMMA BridgeKeeps ==
  ASSUME TypeOK, Shape, Order, NEW g \in Gens, ServeConnect(g) \/ ServeCommand(g) \/ ServeDisconnect(g)
  PROVE  Shape' /\ Order'
<1> DEFINE r == wire[g]
           gone == [conn |-> 0, served |-> 0, at |-> NoStamp, echo |-> NoAnswer]
<1>1. bridge'.at.rev <= bridge'.served /\ bridge \in BridgeStates
  BY BridgeType DEF Order, EchoIsLast, TypeOK, BridgeStates
<1>2. r.kind # "none" /\ r.conn \in 0..MaxConnections
  BY DEF ServeConnect, ServeCommand, ServeDisconnect, TypeOK, Requests
<1>3. \A t \in {"error", "error_closed", "disconnected"} : Note(t, r.conn).tag # "view"
  BY DEF Note
<1>4. NoAnswer.tag # "view"
  BY DEF NoAnswer, Note
<1>5. ASSUME NEW a, Answer(g, a), a.tag # "view", UNCHANGED bridge
      PROVE  Shape' /\ Order'
  <2>1. EchoIsLast'
    BY <1>5 DEF Order, EchoIsLast
  <2> QED BY <1>2, <1>5, <2>1, AnswerKeeps
<1>6. ASSUME NEW a, Answer(g, a), a.tag # "view", bridge' = gone
      PROVE  Shape' /\ Order'
  <2>1. EchoIsLast' /\ bridge'.conn = 0
    BY <1>1, <1>4, <1>6 DEF EchoIsLast
  <2> QED BY <1>2, <1>6, <2>1, AnswerKeeps
<1>7. ASSUME NEW a, Answer(g, a), r.kind \in Talk, bridge'.conn = r.conn, bridge'.echo = a,
             a.conn = bridge'.conn, a.id = bridge'.served, a.at = bridge'.at
      PROVE  Shape' /\ Order'
  <2>1. EchoIsLast'
    BY <1>1, <1>7 DEF EchoIsLast
  <2> QED BY <1>2, <1>7, <2>1, AnswerKeeps
<1>8. CASE ServeConnect(g)
  <2> DEFINE hello == [Note("view", r.conn) EXCEPT !.id = 1, !.op = "discover", !.ok = TRUE]
  <2>1. hello.conn = r.conn /\ hello.id = 1 /\ hello.at = NoStamp
    BY DEF Note
  <2>2. CASE Answer(g, hello) /\ bridge' = [conn |-> r.conn, served |-> 1, at |-> NoStamp, echo |-> hello]
    <3>1. r.kind \in Talk
      BY <1>8 DEF ServeConnect, Talk
    <3> HIDE DEF hello
    <3> QED BY <1>7, <2>1, <2>2, <3>1
  <2> QED BY <1>3, <1>5, <1>8, <2>2 DEF ServeConnect
<1>9. CASE ServeCommand(g)
  <2>1. r.kind \in Talk
    BY <1>9 DEF ServeCommand, Talk
  <2>2. ASSUME NEW ok \in BOOLEAN, NEW at \in Stamps, NEW captured \in BOOLEAN, NEW more \in BOOLEAN,
               Serve(g, ok, at, captured, more)
        PROVE  Shape' /\ Order'
    BY <1>7, <2>1, <2>2, ServeType
  <2>3. Expected(r) /\ (r.op = "seek" => r.n <= End) => Target(r) \in Stamps
    BY TargetType DEF Order, EchoIsLast
  <2>4. bridge.at \in Stamps
    BY <1>1 DEF BridgeStates
  <2> QED BY <1>3, <1>5, <1>6, <1>9, <2>2, <2>3, <2>4 DEF ServeCommand
<1>10. CASE ServeDisconnect(g)
  BY <1>3, <1>5, <1>6, <1>10 DEF ServeDisconnect
<1> QED BY <1>8, <1>9, <1>10

(***************************************************************************)
(* The theorems.                                                            *)
(***************************************************************************)
\* Every step keeps the invariant.
LEMMA ClientInvStep == ClientInv /\ [Next]_vars => ClientInv'
<1> SUFFICES ASSUME TypeOK, Shape, Order, [Next]_vars PROVE TypeOK' /\ Shape' /\ Order'
  BY DEF ClientInv, Shape, Order
<1>1. CASE User
  <2>1. TypeOK'
    BY <1>1, UserType
  <2>2. CASE Connect
    BY <2>1, <2>2, ConnectKeeps
  <2>3. ASSUME NEW op \in Ops, NEW n \in Nat, Command(op, n) PROVE Shape' /\ Order'
    BY <2>1, <2>3, CommandKeeps
  <2>4. CASE Invalidate
    BY <2>1, <2>4, InvalidateKeeps
  <2>5. CASE Disconnect
    BY <2>1, <2>5, DisconnectKeeps
  <2>6. /\ Counts \subseteq Nat /\ 0..End + 1 \subseteq Nat /\ 0 \in Nat
        /\ {"step", "reverse", "seek"} \cup Queries \cup {"state"} = Ops
    BY PhysicalAssumption DEF Ops, Moves
  <2> QED BY <1>1, <2>1, <2>2, <2>3, <2>4, <2>5, <2>6 DEF User
<1>2. CASE Microtask
  <2>1. ASSUME NEW g \in Gens, NEW closed, calls[g].stage # "idle", Fail(g, closed)
        PROVE  TypeOK' /\ Shape' /\ Order'
    BY <2>1, FailType, FailKeeps
  <2>2. ASSUME NEW g \in Gens, Finish(g) PROVE TypeOK' /\ Shape' /\ Order'
    BY <2>2, FinishType, FinishKeeps
  <2> QED BY <1>2, <2>1, <2>2 DEF Microtask, Unwind, FinishLate
<1>3. ASSUME NEW g \in Gens, Timeout(g) \/ DeliverFailure(g) \/ Deliver(g) \/ Hashed(g)
      PROVE  TypeOK' /\ Shape' /\ Order'
  <2>1. TypeOK'
    BY <1>3, TaskType
  <2>2. CASE DeliverFailure(g)
    BY <2>1, <2>2, FailKeeps DEF DeliverFailure
  <2> QED BY <1>3, <2>1, <2>2, TimeoutKeeps, DeliverKeeps, HashedKeeps
<1>4. ASSUME NEW g \in Gens, ServeConnect(g) \/ ServeCommand(g) \/ ServeDisconnect(g)
      PROVE  TypeOK' /\ Shape' /\ Order'
  BY <1>4, BridgeType, BridgeKeeps DEF Order, EchoIsLast
<1>5. CASE UNCHANGED vars
  <2>1. TypeOK'
    BY <1>5 DEF vars, TypeOK
  <2>2. Shape'
    BY <1>5 DEF vars, Shape, OneRequestAtATime, CallsAreAddressed
  <2>3. Order'
    <3>1. UNCHANGED <<conn, live, generation, protocols, calls, wire, bridge>>
      BY <1>5 DEF vars
    <3> QED BY <3>1 DEF Order, EchoIsLast, OneOnTheWay, CommandsAreNext, Expected, ProtocolAgrees,
       Agreed, Trusted, Busy, Alive
  <2> QED BY <2>1, <2>2, <2>3
<1> QED BY <1>1, <1>2, <1>3, <1>4, <1>5 DEF Next

\* It holds at first: nothing was opened.
LEMMA ClientInvInit == Init => ClientInv
<1> SUFFICES ASSUME Init PROVE ClientInv
  OBVIOUS
<1>1. TypeOK
  <2>1. [conn |-> 0, served |-> 0, at |-> NoStamp, echo |-> NoAnswer] \in BridgeStates
    BY ConstantTypes, PhysicalAssumption DEF BridgeStates
  <2>2. protocols \in [Conns -> Protocols] /\ calls \in [Gens -> Calls] /\ wire \in [Gens -> Requests]
    BY ConstantTypes DEF Init
  <2>3. /\ conn \in 0..MaxConnections /\ opened \in 0..MaxConnections
        /\ generation \in 0..MaxGeneration /\ pending \in 0..MaxGeneration
    BY PhysicalAssumption DEF Init
  <2>4. bridge \in BridgeStates
    BY <2>1 DEF Init
  <2>5. live \in BOOLEAN
    BY Zenon DEF Init
  <2> QED BY <2>2, <2>3, <2>4, <2>5 DEF TypeOK, BridgeStates
<1>2. /\ \A g \in Gens : calls[g] = NoCall /\ wire[g] = NoRequest
      /\ NoCall.stage = "idle" /\ NoRequest.kind = "none" /\ NoAnswer.tag = "none" /\ NoStamp.rev = 0
  BY DEF Init, NoCall, NoRequest, NoAnswer, Note, NoStamp
<1>3. ~Trusted /\ \A g \in Gens : ~Alive(g)
  BY <1>2 DEF Init, Trusted, Busy, Alive
<1>4. OneRequestAtATime /\ CallsAreAddressed
  BY <1>2, PhysicalAssumption DEF Init, OneRequestAtATime, CallsAreAddressed
<1>5. EchoIsLast
  BY <1>2 DEF Init, EchoIsLast
<1>6. OneOnTheWay /\ CommandsAreNext
  BY <1>2, <1>3 DEF OneOnTheWay, CommandsAreNext, Talk
<1>7. ProtocolAgrees
  BY <1>3 DEF Init, ProtocolAgrees
<1> QED BY <1>1, <1>4, <1>5, <1>6, <1>7 DEF ClientInv

\* The invariant, in every state: what the others follow from.
THEOREM ClientInvariant == Spec => []ClientInv
BY ClientInvInit, ClientInvStep, PTL DEF Spec

\* No request is prepared past the limit of PhysicalProtocolV20, and every
\* variable keeps its type.
THEOREM TypeCorrect == Spec => []TypeOK
<1>1. ClientInv => TypeOK
  BY DEF ClientInv
<1> QED BY <1>1, ClientInvariant, PTL

\* One exchange at a time may still succeed, however calls, timers, replies and
\* digests are interleaved; and pending is cleared when its exchange is gone, so
\* the client can always be used again.
THEOREM RequestsAreSerial == Spec => []OneRequestAtATime
<1>1. ClientInv => OneRequestAtATime
  BY DEF ClientInv
<1> QED BY <1>1, ClientInvariant, PTL

\* A command that reaches the session it is for is the next one there, also after
\* requests that were aborted, timed out or lost on their way.
THEOREM CommandsAlwaysNext == Spec => []CommandsAreNext
<1>1. ClientInv => CommandsAreNext
  BY DEF ClientInv
<1> QED BY <1>1, ClientInvariant, PTL

\* While the client offers commands, its position, its checkpoint and its page are
\* of the bridge's present event and revision, although the protocol object is
\* changed before the exchange is known to be current.
THEOREM RetainedIsAlwaysCurrent == Spec => []RetainedIsCurrent
<1>1. ClientInv => RetainedIsCurrent
  <2> SUFFICES ASSUME ClientInv, ready PROVE RetainedIsCurrent
    BY DEF RetainedIsCurrent
  <2>1. live /\ Agreed(protocols[conn])
    BY DEF ClientInv, ProtocolAgrees, ready
  <2> QED BY <2>1 DEF Agreed, RetainedIsCurrent, Retained
<1> QED BY <1>1, ClientInvariant, PTL

(***************************************************************************)
(* Honest replies pass the checks.                                          *)
(***************************************************************************)
\* What is true of every reply of a bridge that keeps to the recording.
Honest(a) == a.tag = "view" =>
  /\ a.completed <=> a.ok /\ a.op \in Moves /\ a.at.event = End
  /\ a.captured => a.at.event \in 1..End-1

AllHonest == Honest(bridge.echo) /\ \A g \in Gens : Honest(calls[g].answer)

\* The client knows the end, or has not seen it.
Knows(p) == p.end \in {0, End} /\ (p.end = 0 => p.at.event < End /\ p.highest < End)

EndKnown == Trusted => Knows(protocols[conn]) /\ (live => protocols[conn].known)

\* A request that waits for its reply, and the protocol object that prepared it.
Asked(p, req) ==
  /\ p.pending = req.id
  /\ req.kind = "connect" => ~p.known /\ req.op = "discover" /\ req.id = 1
  /\ req.kind = "command" => p.known /\ req.op \in Ops /\ (req.op \in Queries => p.selected # NoStamp)

Fits(g) ==
  /\ calls[g].stage = "wire" =>
       /\ wire[g].kind # "none" => wire[g] = calls[g].req
       /\ calls[g].answer.tag = "view" => Satisfies(calls[g].req, calls[g].answer)
       /\ calls[g].req.kind \in Talk => Asked(protocols[conn], calls[g].req)
  /\ Alive(g) /\ calls[g].stage = "accepted" /\ calls[g].req.kind \in Talk => protocols[conn].known

FitInv == AllHonest /\ EndKnown /\ \A g \in Gens : Fits(g)

\* A reply to a move that goes where the request says passes the checks of accept.
LEMMA MoveFits ==
  ASSUME NEW p \in Protocols, Knows(p), NEW req \in Requests, req.op \in Moves,
         NEW a \in Answers, a.at.rev = p.at.rev + 1,
         a.at.event = CASE req.op = "seek"    -> req.n
                        [] req.op = "reverse" -> Minus(p.at.event, req.n)
                        [] OTHER              -> Lesser(p.at.event + req.n, End),
         a.completed <=> a.at.event = End, a.captured => a.at.event \in 1..End-1,
         a.advanced = Advanced(p.at.event, a.at.event, End - 1)
  PROVE  Arrives(p, req, a)
<1> DEFINE end == EndAfter(p, a)
<1>1. /\ p.at.event \in 0..End /\ p.highest \in 0..End /\ p.end \in {0, End}
      /\ p.end = 0 => p.at.event < End /\ p.highest < End
      /\ a.at.event \in 0..End /\ req.n \in Nat /\ End \in Nat \ {0}
  BY PhysicalAssumption DEF Knows, Protocols, Stamps, Answers, Requests
<1>2. /\ end \in {0, End} /\ (a.at.event = End => end = End)
  BY <1>1 DEF EndAfter
<1>3. a.completed => a.at.event = end /\ (p.end = 0 => a.at.event > p.highest)
  BY <1>1, <1>2
<1>4. end # 0 /\ a.at.event = end => a.completed
  BY <1>1, <1>2
<1>5. a.captured => a.at.event # 0 /\ a.at.event # end
  BY <1>1, <1>2
<1>6. a.at.event = CASE req.op = "seek"    -> req.n
                     [] req.op = "reverse" -> Minus(p.at.event, req.n)
                     [] req.op = "step"    -> IF end = 0 THEN p.at.event + req.n
                                              ELSE Lesser(p.at.event + req.n, end)
  <2>1. CASE req.op = "seek"
    BY <2>1
  <2>2. CASE req.op = "reverse"
    BY <2>2
  <2>3. CASE req.op = "step"
    <3>1. a.at.event = Lesser(p.at.event + req.n, End)
      BY <2>3
    <3>2. end = 0 => Lesser(p.at.event + req.n, End) = p.at.event + req.n
      BY <1>1, <1>2, <3>1 DEF Lesser
    <3>3. end # 0 => end = End
      BY <1>2
    <3> HIDE DEF end
    <3> QED BY <2>3, <3>1, <3>2, <3>3
  <2> QED BY <2>1, <2>2, <2>3 DEF Moves
<1>7. a.advanced = Advanced(p.at.event, a.at.event, IF end = 0 THEN MaxEvents ELSE end - 1)
  <2>1. CASE end = End
    BY <1>1, <2>1
  <2>2. CASE end = 0
    <3>1. p.at.event < End /\ a.at.event < End
      BY <1>1, <1>2, <2>2 DEF EndAfter
    <3>2. Lesser(p.at.event, MaxEvents) = Lesser(p.at.event, End - 1)
          /\ Lesser(a.at.event, MaxEvents) = Lesser(a.at.event, End - 1)
      BY <1>1, <3>1, PhysicalAssumption DEF Lesser
    <3> QED BY <2>2, <3>2 DEF Advanced
  <2> QED BY <1>2, <2>1, <2>2
<1> QED BY <1>3, <1>4, <1>5, <1>6, <1>7 DEF Arrives

\* accept keeps what the client knows of the end.
LEMMA AcceptedKnows ==
  ASSUME NEW p \in Protocols, NEW a \in Answers, NEW req, Knows(p), Honest(a), Accepts(p, req, a)
  PROVE  Knows(Accepted(p, a)) /\ Accepted(p, a).known
<1> DEFINE q == Answered(p, a)
           end == EndAfter(p, a)
           event == IF a.at.event = end THEN 0 ELSE a.at.event
<1>0. /\ p.at.event \in 0..End /\ p.highest \in 0..End /\ a.at.event \in 0..End /\ End \in Nat \ {0}
  BY PhysicalAssumption DEF Protocols, Stamps, Answers
<1>1. /\ q.end = p.end /\ q.highest = p.highest /\ q.at = a.at /\ q.known
      /\ Clear(q).end = p.end /\ Clear(q).highest = p.highest /\ Clear(q).at = a.at /\ Clear(q).known
      /\ q \in Protocols
  <2>1. 0 \in 0..MaxCommands /\ a.at \in Stamps
    BY PhysicalAssumption DEF Answers
  <2> QED BY <2>1 DEF Answered, Clear, Protocols
<1> HIDE DEF q
<1>2. \A s, e, h : LET r == [q EXCEPT !.selected = s, !.end = e, !.highest = h]
                   IN  r.end = e /\ r.highest = h /\ r.at = a.at /\ r.known
  BY <1>1 DEF Protocols
<1>3. \A s : /\ LET r == [q EXCEPT !.selected = s]
                IN  r.end = p.end /\ r.highest = p.highest /\ r.at = a.at /\ r.known
             /\ LET r == [q EXCEPT !.next = s]
                IN  r.end = p.end /\ r.highest = p.highest /\ r.at = a.at /\ r.known
  BY <1>1 DEF Protocols
<1>4. CASE ~p.known
  <2>1. Accepted(p, a) = q /\ a.at.event = 0
    BY <1>4 DEF Accepted, Accepts, NoStamp, q
  <2> QED BY <1>0, <1>1, <2>1 DEF Knows
<1>5. CASE p.known /\ a.ok /\ a.op \in Moves
  <2>1. Accepted(p, a) = [q EXCEPT !.selected = IF a.captured THEN a.at ELSE NoStamp, !.end = end,
                                   !.highest = Greater(q.highest, event)]
    BY <1>5 DEF Accepted, Moves, Pages, q
  <2>2. a.tag = "view" /\ (a.completed <=> a.at.event = End)
    BY <1>5 DEF Accepts, Honest
  <2>3. end \in {0, End} /\ (end = 0 => p.end = 0 /\ a.at.event < End)
    BY <1>0, <2>2 DEF EndAfter, Knows
  <2>4. end = 0 => Greater(p.highest, event) < End
    BY <1>0, <2>3 DEF Greater, Knows
  <2>5. Accepted(p, a).end = end /\ Accepted(p, a).highest = Greater(p.highest, event) /\ Accepted(p, a).at = a.at
        /\ Accepted(p, a).known
    BY <1>1, <1>2, <2>1
  <2> QED BY <2>3, <2>4, <2>5 DEF Knows
<1>6. CASE p.known /\ ~(a.ok /\ a.op \in Moves)
  <2>1. a.at = p.at
    BY <1>6 DEF Accepts
  <2>2. Accepted(p, a).end = p.end /\ Accepted(p, a).highest = p.highest /\ Accepted(p, a).at = a.at /\ Accepted(p, a).known
    BY <1>1, <1>3, <1>6 DEF Accepted, Moves, Pages, q
  <2> QED BY <2>1, <2>2 DEF Knows
<1> QED BY <1>4, <1>5, <1>6

\* What the bridge answers is honest, and fits the request that still waits for it.
LEMMA AnswerFits ==
  ASSUME TypeOK, Shape, Order, FitInv, NEW g \in Gens, ServeConnect(g) \/ ServeCommand(g) \/ ServeDisconnect(g)
  PROVE  \E a : /\ Answer(g, a)
                /\ Honest(a) /\ Honest(bridge'.echo)
                /\ calls[g].stage = "wire" /\ a.tag = "view" => Satisfies(calls[g].req, a)
<1> DEFINE r == wire[g]
           p == protocols[conn]
<1>1. \A t \in {"error", "error_closed", "disconnected"} : Note(t, r.conn).tag # "view"
  BY DEF Note
<1>2. NoAnswer.tag # "view" /\ Honest(bridge.echo)
  BY DEF NoAnswer, Note, FitInv, AllHonest
<1>3. ASSUME NEW a, Answer(g, a), a.tag # "view",
             \/ UNCHANGED bridge
             \/ bridge' = [conn |-> 0, served |-> 0, at |-> NoStamp, echo |-> NoAnswer]
      PROVE  /\ Answer(g, a) /\ Honest(a) /\ Honest(bridge'.echo) /\ a.tag # "view"
  BY <1>2, <1>3 DEF Honest
<1>4. r \in Requests /\ bridge.at \in Stamps
  BY DEF TypeOK
<1>5. ASSUME calls[g].stage = "wire", r.kind \in Talk
      PROVE  /\ r = calls[g].req /\ r.conn = conn /\ conn \in Conns /\ p \in Protocols
             /\ Asked(p, r) /\ Knows(p) /\ p.at = r.at
  <2>1. r = calls[g].req /\ Asked(p, r)
    BY <1>5 DEF FitInv, Fits, Talk
  <2>2. Alive(g) /\ Trusted
    BY <1>5, <2>1, PendingIsGeneration DEF Trusted, Busy
  <2>3. p.at = r.at
    BY <1>5, <2>1, <2>2 DEF Order, ProtocolAgrees
  <2>4. conn \in Conns /\ p \in Protocols /\ Knows(p)
    BY <2>2, PendingIsGeneration DEF FitInv, EndKnown, TypeOK
  <2>5. r.conn = conn
    BY <2>1, <2>2 DEF Shape, CallsAreAddressed, Alive
  <2> QED BY <2>1, <2>3, <2>4, <2>5
<1>6. CASE ServeConnect(g)
  <2> DEFINE hello == [Note("view", r.conn) EXCEPT !.id = 1, !.op = "discover", !.ok = TRUE]
  <2>1. /\ hello.tag = "view" /\ hello.conn = r.conn /\ hello.id = 1 /\ hello.op = "discover" /\ hello.ok
        /\ hello.at = NoStamp /\ ~hello.completed /\ ~hello.captured
    BY DEF Note
  <2>2. r.kind = "connect"
    BY <1>6 DEF ServeConnect
  <2> HIDE DEF hello
  <2>3. Honest(hello)
    BY <2>1 DEF Honest, Moves
  <2>4. ASSUME calls[g].stage = "wire" PROVE Satisfies(calls[g].req, hello)
    BY <1>5, <2>1, <2>2, <2>4 DEF Satisfies, Accepts, Asked, Talk
  <2>5. CASE Answer(g, hello) /\ bridge' = [conn |-> r.conn, served |-> 1, at |-> NoStamp, echo |-> hello]
    BY <2>3, <2>4, <2>5
  <2> QED BY <1>1, <1>3, <1>6, <2>5 DEF ServeConnect, hello
<1>7. CASE ServeCommand(g)
  <2>1. r.kind = "command"
    BY <1>7 DEF ServeCommand
  <2>2. ASSUME NEW ok \in BOOLEAN, NEW at \in Stamps, NEW captured \in BOOLEAN, NEW more \in BOOLEAN,
               Expected(r), Serve(g, ok, at, captured, more),
               captured => at.event \in 1..End-1,
               \/ /\ ok /\ r.op \in Moves /\ at = Target(r)
               \/ /\ ~ok /\ at = bridge.at
               \/ /\ r.op \notin Moves /\ at = bridge.at
        PROVE  \E a : /\ Answer(g, a)
                      /\ Honest(a) /\ Honest(bridge'.echo)
                      /\ calls[g].stage = "wire" /\ a.tag = "view" => Satisfies(calls[g].req, a)
    <3> DEFINE a == [tag |-> "view", conn |-> r.conn, id |-> r.id, op |-> r.op, ok |-> ok, at |-> at,
                     captured |-> captured, completed |-> ok /\ r.op \in Moves /\ at.event = End, more |-> more,
                     advanced |-> Advanced(bridge.at.event, at.event, End - 1)]
    <3>1. Answer(g, a) /\ bridge'.echo = a
      BY <2>2 DEF Serve
    <3>2. a \in Answers
      <4>1. (ok /\ r.op \in Moves /\ at.event = End) \in BOOLEAN
        OBVIOUS
      <4>2. "view" \in Tags /\ r.conn \in 0..MaxConnections /\ r.id \in 0..MaxCommands /\ r.op \in Ops \cup {"discover", "none"}
        BY <1>4 DEF Requests, Tags
      <4> QED BY <4>1, <4>2, AdvancedType DEF Answers
    <3>3. /\ a.tag = "view" /\ a.conn = r.conn /\ a.id = r.id /\ a.op = r.op /\ (a.ok <=> ok) /\ a.at = at
          /\ (a.captured <=> captured) /\ (a.completed <=> ok /\ r.op \in Moves /\ at.event = End)
          /\ a.advanced = Advanced(bridge.at.event, at.event, End - 1)
      OBVIOUS
    <3> HIDE DEF a
    <3>4. Honest(a)
      BY <2>2, <3>3 DEF Honest
    <3>5. ASSUME calls[g].stage = "wire" PROVE Satisfies(calls[g].req, a)
      <4>1. /\ r = calls[g].req /\ r.conn = conn /\ conn \in Conns /\ p \in Protocols
            /\ Asked(p, r) /\ Knows(p) /\ p.at = r.at
        BY <1>5, <2>1, <3>5 DEF Talk
      <4>2. p.at = bridge.at
        BY <2>2, <4>1 DEF Expected
      <4>3. /\ p.pending = r.id /\ p.known /\ r.op \in Ops /\ (r.op \in Queries => p.selected # NoStamp)
        BY <2>1, <4>1 DEF Asked
      <4>4. CASE ok /\ r.op \in Moves /\ at = Target(r)
        <5>1. /\ a.at.rev = p.at.rev + 1
              /\ a.at.event = CASE r.op = "seek"    -> r.n
                                [] r.op = "reverse" -> Minus(p.at.event, r.n)
                                [] OTHER            -> Lesser(p.at.event + r.n, End)
              /\ a.advanced = Advanced(p.at.event, a.at.event, End - 1)
          BY <3>3, <4>2, <4>4 DEF Target
        <5>2. (a.completed <=> a.at.event = End) /\ (a.captured => a.at.event \in 1..End-1)
          BY <2>2, <3>3, <4>4
        <5>3. Arrives(p, r, a)
          BY <1>4, <3>2, <4>1, <4>4, <5>1, <5>2, MoveFits
        <5> QED BY <2>1, <3>3, <4>1, <4>3, <4>4, <5>3 DEF Satisfies, Accepts
      <4>5. CASE at = bridge.at /\ ~(ok /\ r.op \in Moves)
        BY <2>1, <3>3, <4>1, <4>2, <4>3, <4>5 DEF Satisfies, Accepts
      <4> QED BY <2>2, <4>4, <4>5
    <3> QED BY <3>1, <3>4, <3>5
  <2>3. Expected(r) /\ (r.op = "seek" => r.n <= End) => Target(r) \in Stamps
    BY TargetType DEF Order, EchoIsLast
  <2>4. CASE Expected(r) /\ Serve(g, FALSE, bridge.at, FALSE, FALSE)
    BY <1>4, <2>2, <2>4
  <2>5. CASE /\ Expected(r) /\ r.op \in Moves
             /\ r.op = "seek" => r.n <= End
             /\ \E captured \in BOOLEAN :
                  /\ captured => Target(r).event \in 1..End-1
                  /\ Serve(g, TRUE, Target(r), captured, FALSE)
    BY <2>2, <2>3, <2>5
  <2>6. CASE /\ Expected(r) /\ r.op = "state"
             /\ \E captured \in BOOLEAN :
                  /\ captured => bridge.at.event \in 1..End-1
                  /\ Serve(g, TRUE, bridge.at, captured, FALSE)
    BY <1>4, <2>2, <2>6 DEF Moves
  <2>7. CASE /\ Expected(r) /\ r.op \in Queries
             /\ \E more \in BOOLEAN : Serve(g, TRUE, bridge.at, FALSE, more)
    BY <1>4, <2>2, <2>7 DEF Moves, Queries
  <2> QED BY <1>1, <1>3, <1>7, <2>4, <2>5, <2>6, <2>7 DEF ServeCommand
<1>8. CASE ServeDisconnect(g)
  BY <1>1, <1>3, <1>8 DEF ServeDisconnect
<1> QED BY <1>6, <1>7, <1>8

\* Every reply stays honest wherever it is kept.
LEMMA HonestStays ==
  ASSUME TypeOK, Shape, Order, FitInv, [Next]_vars
  PROVE  AllHonest'
<1>1. ASSUME \A h \in Gens : calls'[h].answer = NoAnswer \/ Honest(calls'[h].answer), UNCHANGED bridge
      PROVE  AllHonest'
  BY <1>1 DEF FitInv, AllHonest, Honest, NoAnswer, Note
<1>2. \A h \in Gens : Honest(calls[h].answer)
  BY DEF FitInv, AllHonest
<1>3. ASSUME NEW req, NEW cs \in [Gens -> Calls], \A h \in Gens : cs[h].answer = calls[h].answer,
             calls' = Starting(cs, req), UNCHANGED bridge
      PROVE  AllHonest'
  BY <1>1, <1>2, <1>3 DEF Starting
<1>4. ASSUME NEW g PROVE /\ Aborted(calls, g) \in [Gens -> Calls]
                         /\ \A h \in Gens : Aborted(calls, g)[h].answer = calls[h].answer
  BY AbortedType DEF TypeOK
<1>5. CASE User
  <2>1. CASE Connect
    BY <1>3, <2>1 DEF Connect, TypeOK
  <2>2. ASSUME NEW op, NEW n, Command(op, n) PROVE AllHonest'
    BY <1>3, <2>2 DEF Command, TypeOK
  <2>3. CASE Invalidate
    BY <1>1, <1>2, <1>4, <2>3 DEF Invalidate
  <2>4. CASE Disconnect
    BY <1>3, <1>4, <2>4 DEF Disconnect
  <2> QED BY <1>5, <2>1, <2>2, <2>3, <2>4 DEF User
<1>6. ASSUME NEW g \in Gens, calls' = [calls EXCEPT ![g] = NoCall], UNCHANGED bridge PROVE AllHonest'
  BY <1>1, <1>2, <1>6 DEF TypeOK, NoCall
<1>7. CASE Microtask
  BY <1>6, <1>7 DEF Microtask, Unwind, Finish, FinishLate, Fail
<1>8. ASSUME NEW g \in Gens, Timeout(g) \/ DeliverFailure(g) \/ Deliver(g) \/ Hashed(g)
      PROVE  AllHonest'
  <2>1. CASE Timeout(g)
    BY <1>1, <1>2, <1>4, <2>1 DEF Timeout
  <2>2. CASE DeliverFailure(g)
    BY <1>6, <2>2 DEF DeliverFailure, Fail
  <2>3. CASE Deliver(g)
    <3>1. PICK a \in Deliverable(g) : \E t : \/ calls' = [calls EXCEPT ![g].stage = t, ![g].answer = a]
                                             \/ calls' = [calls EXCEPT ![g].stage = t]
      BY <2>3, ZenonT(30) DEF Deliver
    <3>2. Honest(a)
      BY <1>2 DEF Deliverable, FitInv, AllHonest, Honest, Note
    <3>3. \A h \in Gens : calls'[h].answer = a \/ calls'[h].answer = calls[h].answer
      BY <3>1 DEF TypeOK, Calls
    <3> QED BY <1>1, <1>2, <2>3, <3>2, <3>3 DEF Deliver
  <2>4. CASE Hashed(g)
    <3>1. \A h \in Gens : calls'[h].answer = calls[h].answer
      BY <2>4 DEF Hashed, TypeOK, Calls
    <3> QED BY <1>1, <1>2, <2>4, <3>1 DEF Hashed
  <2> QED BY <1>8, <2>1, <2>2, <2>3, <2>4
<1>9. ASSUME NEW g \in Gens, ServeConnect(g) \/ ServeCommand(g) \/ ServeDisconnect(g)
      PROVE  AllHonest'
  <2>1. PICK a : Answer(g, a) /\ Honest(a) /\ Honest(bridge'.echo)
    BY <1>9, AnswerFits
  <2>2. \A h \in Gens : calls'[h].answer = a \/ calls'[h].answer = calls[h].answer
    BY <2>1 DEF Answer, TypeOK, Calls
  <2> QED BY <1>2, <2>1, <2>2 DEF AllHonest
<1>10. CASE UNCHANGED vars
  BY <1>1, <1>2, <1>10 DEF vars
<1> QED BY <1>5, <1>7, <1>8, <1>9, <1>10 DEF Next

\* An exchange that a step does not touch fits as before.
LEMMA FitsStays ==
  ASSUME TypeOK, Shape, NEW h \in Gens, Fits(h), calls'[h] = calls[h], UNCHANGED conn,
         wire'[h] = wire[h] \/ wire'[h].kind = "none", Alive(h)' => Alive(h),
         Alive(h) => protocols'[conn] = protocols[conn]
  PROVE  Fits(h)'
<1>1. CASE Alive(h)
  <2>1. protocols'[conn'] = protocols[conn] /\ calls[h].req.conn = conn
    BY <1>1 DEF Alive, Shape, CallsAreAddressed
  <2>2. protocols'[calls'[h].req.conn] = protocols[calls[h].req.conn]
    BY <2>1
  <2>3. Satisfies(calls[h].req, calls[h].answer)' <=> Satisfies(calls[h].req, calls[h].answer)
    BY <2>2 DEF Satisfies
  <2>4. Asked(protocols[conn], calls[h].req)' <=> Asked(protocols[conn], calls[h].req)
    BY <2>1 DEF Asked
  <2>5. protocols'[conn'].known <=> protocols[conn].known
    BY <2>1, Zenon
  <2> QED BY <2>3, <2>4, <2>5 DEF Fits
<1>2. CASE ~Alive(h)
  <2>1. calls[h].stage # "wire"
    BY <1>2, PendingIsGeneration
  <2> QED BY <1>2, <2>1 DEF Fits
<1> QED BY <1>1, <1>2

\* After a step that leaves no exchange on the wire and no trust.
LEMMA DoubtFits ==
  ASSUME TypeOK', Shape', ~Trusted', NEW k,
         \A h \in Gens : calls'[h].stage = "wire" =>
            h = k /\ calls'[h].answer.tag # "view" /\ wire'[h] = calls'[h].req
  PROVE  EndKnown' /\ \A h \in Gens : Fits(h)'
<1>1. EndKnown'
  BY DEF EndKnown
<1>2. ASSUME NEW h \in Gens PROVE Fits(h)'
  <2>1. ~(Alive(h)' /\ calls'[h].req.kind \in Talk)
    BY DEF Trusted, Busy
  <2>2. calls'[h].stage = "wire" => Alive(h)'
    BY DEF Shape, OneRequestAtATime, CallsAreAddressed, Alive
  <2> QED BY <2>1, <2>2 DEF Fits
<1> QED BY <1>1, <1>2

\* The calls of the client: what is prepared is asked, and the rest is aborted.
LEMMA UserFits ==
  ASSUME ClientInv, ClientInv', FitInv, User
  PROVE  EndKnown' /\ \A h \in Gens : Fits(h)'
<1>0. TypeOK /\ Shape /\ Order /\ TypeOK' /\ Shape'
  BY DEF ClientInv, Shape, Order
<1>1. ASSUME NEW g \in Gens, NEW req \in Requests, NEW p \in Protocols, generation' = g, conn' = req.conn,
             calls'[g] = [stage |-> "wire", req |-> req, answer |-> NoAnswer, aborted |-> FALSE],
             wire'[g] = req, ~live', protocols'[conn'] = p, Knows(p), Asked(p, req)
      PROVE  EndKnown' /\ \A h \in Gens : Fits(h)'
  <2>1. EndKnown'
    BY <1>1 DEF EndKnown
  <2>2. ASSUME NEW h \in Gens, h # g PROVE Fits(h)'
    <3>1. ~Alive(h)'
      BY <1>1, <2>2 DEF Alive
    <3>2. calls'[h].stage # "wire"
      BY <1>0, <3>1 DEF Shape, OneRequestAtATime, CallsAreAddressed, Alive
    <3> QED BY <3>1, <3>2 DEF Fits
  <2>3. Fits(g)'
    <3>1. calls'[g].req = req /\ calls'[g].stage = "wire" /\ calls'[g].answer.tag # "view"
      BY <1>1 DEF NoAnswer, Note
    <3>2. Asked(protocols[conn], calls[g].req)'
      BY <1>1, <3>1 DEF Asked
    <3>3. wire'[g] = calls'[g].req
      BY <1>1, <3>1
    <3> QED BY <3>1, <3>2, <3>3 DEF Fits
  <2> QED BY <2>1, <2>2, <2>3
<1>2. CASE Connect
  <2> DEFINE g == generation + 1
             p == Prepared(NewProtocol, "discover")
             req == [NoRequest EXCEPT !.kind = "connect", !.conn = opened + 1, !.id = 1, !.op = "discover"]
  <2>1. g \in Gens /\ generation' = g /\ opened + 1 \in Conns /\ conn' = opened + 1 /\ ~live'
    BY <1>0, <1>2, PhysicalAssumption DEF Connect, Exchange, TypeOK, Gens, Conns
  <2>2. /\ req.kind = "connect" /\ req.conn = opened + 1 /\ req.id = 1 /\ req.op = "discover"
    BY DEF NoRequest
  <2>3. req \in Requests
    <3>1. opened + 1 \in 0..MaxConnections /\ 1 \in 0..MaxCommands
      BY <2>1, PhysicalAssumption DEF Conns
    <3> QED BY <3>1, ConstantTypes DEF Requests
  <2>4. p \in Protocols /\ protocols'[conn'] = p
    <3>1. p \in Protocols
      BY ConstantTypes, PreparedType, PhysicalAssumption DEF NewProtocol
    <3> QED BY <1>0, <1>2, <2>1, <3>1 DEF Connect, TypeOK
  <2>5. p.pending = 1 /\ ~p.known /\ p.end = 0 /\ p.at.event = 0 /\ p.highest = 0
    BY DEF Prepared, NewProtocol, NoStamp
  <2>6. calls'[g] = [stage |-> "wire", req |-> req, answer |-> NoAnswer, aborted |-> FALSE] /\ wire'[g] = req
    BY <1>0, <1>2, <2>1 DEF Connect, Exchange, Starting, TypeOK
  <2> HIDE DEF p, req, g
  <2>7. Knows(p) /\ Asked(p, req)
    BY <2>2, <2>5, PhysicalAssumption DEF Knows, Asked
  <2> QED BY <1>1, <2>1, <2>2, <2>3, <2>4, <2>6, <2>7
<1>3. ASSUME NEW op \in Ops, NEW n \in Nat, Command(op, n) PROVE EndKnown' /\ \A h \in Gens : Fits(h)'
  <2> DEFINE g == generation + 1
             q == protocols[conn]
             p == Prepared(q, op)
             req == [kind |-> "command", conn |-> conn, id |-> q.sent + 1, at |-> q.at, op |-> op,
                     n |-> n, page |-> IF op = "next" THEN q.next ELSE NoStamp]
  <2>1. g \in Gens /\ generation' = g /\ conn \in Conns /\ conn' = conn /\ live /\ ~live'
    BY <1>0, <1>3, PhysicalAssumption DEF Command, Exchange, ready, TypeOK, Gens, Conns
  <2>2. /\ q \in Protocols /\ q.sent < MaxCommands /\ Knows(q) /\ q.known
        /\ op \in Queries => q.selected # NoStamp
    <3>1. Knows(q) /\ q.known
      BY <2>1 DEF FitInv, EndKnown, Trusted
    <3>2. q \in Protocols /\ q.sent < MaxCommands /\ (op \in Queries => q.selected # NoStamp)
      BY <1>0, <1>3, <2>1 DEF Command, Preparable, TypeOK
    <3> QED BY <3>1, <3>2
  <2>3. req \in Requests
    <3>1. q.sent + 1 \in 0..MaxCommands /\ q.at \in Stamps /\ q.next \in Stamps
      BY <2>2, PhysicalAssumption DEF Protocols
    <3> QED BY <1>0, <3>1, ConstantTypes DEF Requests, TypeOK
  <2>4. p \in Protocols /\ protocols'[conn'] = p
    BY <1>0, <1>3, <2>1, <2>2, PreparedType DEF Command, TypeOK
  <2>5. /\ p.pending = q.sent + 1 /\ p.known /\ p.end = q.end /\ p.at = q.at /\ p.highest = q.highest
        /\ op \in Queries => p.selected = q.selected
    BY <2>2 DEF Prepared, Protocols, Queries, Moves
  <2>6. calls'[g] = [stage |-> "wire", req |-> req, answer |-> NoAnswer, aborted |-> FALSE] /\ wire'[g] = req
    BY <1>0, <1>3, <2>1 DEF Command, Exchange, Starting, TypeOK
  <2>7. req.kind = "command" /\ req.id = q.sent + 1 /\ req.op = op /\ req.conn = conn
    OBVIOUS
  <2> HIDE DEF p, req, g
  <2>8. Knows(p) /\ Asked(p, req)
    BY <2>2, <2>5, <2>7 DEF Knows, Asked
  <2> QED BY <1>1, <2>1, <2>3, <2>4, <2>6, <2>7, <2>8
<1>4. CASE Invalidate
  <2>1. \A h \in Gens : calls'[h].stage # "wire"
    BY <1>0, <1>4, AbortedType, PendingIsGeneration DEF Invalidate, TypeOK, Shape, OneRequestAtATime, Alive
  <2>2. ~Trusted'
    BY <1>0, <1>4, AbortShape DEF Invalidate
  <2> QED BY <1>0, <2>1, <2>2, DoubtFits
<1>5. CASE Disconnect
  <2> DEFINE g == generation + 1
             req == [NoRequest EXCEPT !.kind = "disconnect", !.conn = conn]
  <2>1. g \in Gens /\ generation' = g /\ ~live'
    BY <1>0, <1>5, PhysicalAssumption DEF Disconnect, Exchange, TypeOK, Gens
  <2>2. Aborted(calls, pending) \in [Gens -> Calls]
    BY <1>0, AbortedType DEF TypeOK
  <2>3. calls'[g] = [stage |-> "wire", req |-> req, answer |-> NoAnswer, aborted |-> FALSE] /\ wire'[g] = req
    BY <1>0, <1>5, <2>1, <2>2 DEF Disconnect, Exchange, Starting, TypeOK
  <2>4. req.kind = "disconnect"
    BY DEF NoRequest
  <2> HIDE DEF req, g
  <2>5. calls'[g].req = req /\ calls'[g].answer.tag # "view"
    BY <2>3 DEF NoAnswer, Note
  <2>6. \A h \in Gens : Alive(h)' => h = g
    BY <2>1 DEF Alive
  <2>7. ~Trusted'
    BY <2>1, <2>4, <2>5, <2>6 DEF Trusted, Busy, Talk
  <2>8. \A h \in Gens : calls'[h].stage = "wire" => h = g
    BY <1>0, <2>6 DEF Shape, OneRequestAtATime, CallsAreAddressed, Alive
  <2> QED BY <1>0, <2>3, <2>5, <2>7, <2>8, DoubtFits
<1>6. /\ Counts \subseteq Nat /\ 0..End + 1 \subseteq Nat /\ 0 \in Nat
      /\ {"step", "reverse", "seek"} \cup Queries \cup {"state"} = Ops
  BY PhysicalAssumption DEF Ops, Moves
<1> QED BY <1>2, <1>3, <1>4, <1>5, <1>6 DEF User

\* A page of values leaves what is known of the end.
LEMMA PageKnows ==
  ASSUME NEW p \in Protocols, NEW a \in Answers, Knows(p), p.known, a.at = p.at, a.ok, a.op \in Pages
  PROVE  Knows(Accepted(p, a)) /\ Accepted(p, a).known
<1> DEFINE q == Answered(p, a)
<1>1. /\ q.end = p.end /\ q.highest = p.highest /\ q.at = a.at /\ q.known /\ q \in Protocols
  <2>1. 0 \in 0..MaxCommands /\ a.at \in Stamps
    BY PhysicalAssumption DEF Answers
  <2> QED BY <2>1 DEF Answered, Protocols
<1> HIDE DEF q
<1>2. \A s : LET r == [q EXCEPT !.next = s]
             IN  r.end = p.end /\ r.highest = p.highest /\ r.at = a.at /\ r.known
  BY <1>1 DEF Protocols
<1>3. Accepted(p, a) = [q EXCEPT !.next = IF a.more THEN a.at ELSE NoStamp]
  BY DEF Accepted, Moves, Pages, q
<1>4. Accepted(p, a).end = p.end /\ Accepted(p, a).highest = p.highest /\ Accepted(p, a).at = p.at /\ Accepted(p, a).known
  BY <1>2, <1>3
<1> QED BY <1>4 DEF Knows

\* Without trust no protocol object matters to an exchange.
LEMMA HashedElsewhere ==
  ASSUME TypeOK, Shape, NEW h \in Gens, Fits(h), calls'[h] = calls[h], ~Trusted,
         UNCHANGED wire, Alive(h)' => Alive(h)
  PROVE  Fits(h)'
<1>1. Alive(h) => calls[h].req.kind \notin Talk
  BY DEF Trusted, Busy
<1>2. calls[h].stage = "wire" => Alive(h)
  BY PendingIsGeneration
<1>3. calls[h].stage = "wire" => calls[h].req.kind = "disconnect"
  BY <1>1, <1>2 DEF Shape, CallsAreAddressed, TypeOK, Calls, Requests, Talk
<1>4. calls[h].stage = "wire" => calls[h].answer.tag # "view"
  BY <1>3 DEF Fits, Satisfies
<1> QED BY <1>1, <1>2, <1>3, <1>4 DEF Fits

\* Replies and digests: what is admitted keeps what is known of the end.
LEMMA DeliverFits ==
  ASSUME ClientInv, ClientInv', FitInv, NEW g \in Gens, Deliver(g) \/ Hashed(g)
  PROVE  EndKnown' /\ \A h \in Gens : Fits(h)'
<1> DEFINE req == calls[g].req
           p == protocols[conn]
<1>0. TypeOK /\ Shape /\ Order /\ TypeOK' /\ Shape'
  BY DEF ClientInv, Shape, Order
<1>1. /\ UNCHANGED <<conn, live, generation, pending, opened, wire, bridge>>
      /\ calls[g].stage # "idle"
  BY DEF Deliver, Hashed
<1>2. /\ \A h \in Gens : /\ calls'[h].req = calls[h].req /\ calls'[h].aborted = calls[h].aborted
                         /\ h # g => calls'[h] = calls[h]
      /\ calls'[g].stage \in {"reading", "accepted"}
  <2>1. \E a, t : /\ t \in {"reading", "accepted"}
                  /\ calls' = [calls EXCEPT ![g].stage = t, ![g].answer = a] \/ calls' = [calls EXCEPT ![g].stage = t]
    BY DEF Deliver, Hashed
  <2> QED BY <1>0, <2>1 DEF TypeOK, Calls
<1>3. \A h \in Gens : Alive(h)' <=> Alive(h)
  BY <1>1, <1>2 DEF Alive
<1>4. Trusted' <=> Trusted
  BY <1>1, <1>2, <1>3 DEF Trusted, Busy
<1>5. ASSUME protocols'[conn] = p, ~(Alive(g) /\ calls'[g].stage = "accepted" /\ req.kind \in Talk)
      PROVE  EndKnown' /\ \A h \in Gens : Fits(h)'
  <2>1. EndKnown'
    <3>1. protocols'[conn'] = p /\ (protocols'[conn'].known <=> p.known)
      BY <1>1, <1>5
    <3> QED BY <1>1, <1>4, <3>1 DEF FitInv, EndKnown, Knows
  <2>2. ASSUME NEW h \in Gens, h # g PROVE Fits(h)'
    BY <1>0, <1>1, <1>2, <1>3, <1>5, <2>2, FitsStays DEF FitInv
  <2>3. Fits(g)'
    BY <1>2, <1>3, <1>5 DEF Fits
  <2> QED BY <2>1, <2>2, <2>3
<1>6. ASSUME NEW a \in Answers, Alive(g), req.kind \in Talk, Trusted, conn \in Conns, p \in Protocols,
             protocols'[conn] = Accepted(p, a), Knows(Accepted(p, a)), Accepted(p, a).known
      PROVE  EndKnown' /\ \A h \in Gens : Fits(h)'
  <2>1. protocols'[conn'] = Accepted(p, a) /\ Knows(protocols'[conn']) /\ protocols'[conn'].known
    BY <1>1, <1>6
  <2>2. \A h \in Gens : h # g => ~Alive(h)
    BY <1>6 DEF Alive
  <2>3. \A h \in Gens : calls'[h].stage # "wire"
    BY <1>0, <1>2, <1>3, <2>2, PendingIsGeneration
  <2> QED BY <2>1, <2>3 DEF EndKnown, Fits, Knows
<1>7. CASE Deliver(g)
  <2>1. PICK a \in Deliverable(g) :
           /\ Satisfies(req, a)
           /\ \/ req.kind = "disconnect" /\ UNCHANGED protocols
              \/ req.kind # "disconnect" /\ calls' = [calls EXCEPT ![g].stage = "reading", ![g].answer = a] /\ UNCHANGED protocols
              \/ req.kind # "disconnect" /\ protocols' = [protocols EXCEPT ![req.conn] = Accepted(@, a)]
    BY <1>7 DEF Deliver
  <2>2. CASE req.kind = "disconnect" /\ UNCHANGED protocols
    BY <1>5, <2>2 DEF Talk
  <2>3. CASE calls' = [calls EXCEPT ![g].stage = "reading", ![g].answer = a] /\ UNCHANGED protocols
    <3>1. calls'[g].stage = "reading"
      BY <1>0, <2>3 DEF TypeOK, Calls
    <3> QED BY <1>5, <2>3, <3>1
  <2>4. CASE req.kind # "disconnect" /\ protocols' = [protocols EXCEPT ![req.conn] = Accepted(@, a)]
    <3>1. calls[g].stage = "wire" /\ req.kind \in Talk
      BY <1>0, <1>7, <2>4 DEF Deliver, Shape, CallsAreAddressed, TypeOK, Calls, Requests, Talk
    <3>2. /\ Alive(g) /\ Trusted /\ req.conn = conn /\ conn \in Conns
          /\ Accepts(p, req, a) /\ a \in Answers
      BY <1>0, <2>1, <3>1, AdmittedIsAnswer
    <3>3. Honest(a)
      BY DEF Deliverable, FitInv, AllHonest, Honest, Note
    <3>4. p \in Protocols /\ Knows(p) /\ protocols'[conn] = Accepted(p, a)
      BY <1>0, <2>4, <3>2 DEF TypeOK, FitInv, EndKnown
    <3> HIDE DEF p, req
    <3>5. Knows(Accepted(p, a)) /\ Accepted(p, a).known
      BY <3>2, <3>3, <3>4, AcceptedKnows
    <3> QED BY <1>6, <3>1, <3>2, <3>4, <3>5 DEF req, p
  <2> QED BY <2>1, <2>2, <2>3, <2>4
<1>8. CASE Hashed(g)
  <2> DEFINE a == calls[g].answer
  <2>1. calls[g].stage = "reading" /\ protocols' = [protocols EXCEPT ![req.conn] = Accepted(@, a)]
    BY <1>8 DEF Hashed
  <2>2. CASE ~Trusted
    <3>1. ~(Alive(g) /\ req.kind \in Talk)
      BY <2>2 DEF Trusted, Busy
    <3>2. EndKnown'
      BY <1>4, <2>2 DEF EndKnown
    <3>3. ASSUME NEW h \in Gens, h # g PROVE Fits(h)'
      BY <1>0, <1>1, <1>2, <1>3, <2>1, <2>2, <3>3, HashedElsewhere DEF FitInv
    <3>4. Fits(g)'
      BY <1>2, <1>3, <3>1 DEF Fits
    <3> QED BY <3>2, <3>3, <3>4
  <2>3. CASE Trusted /\ req.conn # conn
    <3>1. conn \in Conns /\ ~Alive(g)
      BY <1>0, <2>3, PendingIsGeneration DEF Alive, Shape, CallsAreAddressed
    <3>2. protocols'[conn] = p
      BY <1>0, <2>1, <2>3, <3>1 DEF TypeOK
    <3> QED BY <1>5, <3>1, <3>2
  <2>4. CASE Trusted /\ req.conn = conn
    <3>1. conn \in Conns /\ Alive(g) /\ ~live
      BY <1>0, <2>1, <2>4, PendingIsGeneration DEF Order, OneOnTheWay
    <3>2. req.kind \in Talk
      BY <2>4, <3>1 DEF Trusted, Busy, Alive
    <3>3. p \in Protocols /\ a \in Answers /\ Knows(p) /\ p.known /\ a.at = p.at /\ a.ok /\ a.op \in Pages
      BY <1>0, <2>1, <2>4, <3>1, <3>2 DEF Order, ProtocolAgrees, TypeOK, Calls, FitInv, EndKnown
    <3>4. protocols'[conn] = Accepted(p, a)
      BY <1>0, <2>1, <2>4, <3>1 DEF TypeOK
    <3> HIDE DEF p, a
    <3>5. Knows(Accepted(p, a)) /\ Accepted(p, a).known
      BY <3>3, PageKnows
    <3> QED BY <1>6, <2>4, <3>1, <3>2, <3>3, <3>4, <3>5 DEF p
  <2> QED BY <2>2, <2>3, <2>4
<1> QED BY <1>7, <1>8

\* Endings and timers.
LEMMA EndFits ==
  ASSUME ClientInv, ClientInv', FitInv, NEW g \in Gens,
         Timeout(g) \/ Finish(g) \/ (calls[g].stage # "idle" /\ \E closed : Fail(g, closed))
  PROVE  EndKnown' /\ \A h \in Gens : Fits(h)'
<1>0. TypeOK /\ Shape /\ Order /\ TypeOK' /\ Shape'
  BY DEF ClientInv, Shape, Order
<1>1. \A h \in Gens : calls[h].stage = "wire" => h = generation
  BY <1>0, PendingIsGeneration DEF Alive
<1>2. CASE Timeout(g)
  <2>1. g = pending /\ pending # 0 /\ ~live /\ g = generation
    BY <1>0, <1>2, PendingIsGeneration DEF Timeout, Alive, Shape, OneRequestAtATime
  <2>2. \A h \in Gens : calls'[h].stage # "wire"
    BY <1>0, <1>1, <1>2, <2>1, AbortedType DEF Timeout, TypeOK
  <2>3. ~Trusted'
    BY <1>0, <1>2, <2>1, AbortShape DEF Timeout
  <2> QED BY <1>0, <2>2, <2>3, DoubtFits
<1>3. ASSUME calls[g].stage # "idle", calls' = [calls EXCEPT ![g] = NoCall], UNCHANGED <<generation, wire>>
      PROVE  /\ \A h \in Gens : calls'[h] = IF h = g THEN NoCall ELSE calls[h]
             /\ \A h \in Gens : Alive(h)' <=> Alive(h) /\ h # g
             /\ g = generation => \A h \in Gens : calls'[h].stage # "wire" /\ ~Alive(h)'
             /\ NoCall.stage = "idle"
  <2>1. \A h \in Gens : calls'[h] = IF h = g THEN NoCall ELSE calls[h]
    BY <1>0, <1>3 DEF TypeOK
  <2>2. NoCall.stage = "idle"
    BY DEF NoCall
  <2>3. \A h \in Gens : Alive(h)' <=> Alive(h) /\ h # g
    BY <1>3, <2>1, <2>2 DEF Alive
  <2> QED BY <1>1, <2>1, <2>2, <2>3 DEF Alive
<1>4. ASSUME calls[g].stage # "idle", NEW closed, Fail(g, closed)
      PROVE  EndKnown' /\ \A h \in Gens : Fits(h)'
  <2>1. /\ calls' = [calls EXCEPT ![g] = NoCall] /\ UNCHANGED <<generation, wire>>
        /\ g # generation => UNCHANGED <<conn, live, protocols>>
        /\ g = generation /\ conn = calls[g].req.conn => ~live'
    BY <1>4 DEF Fail
  <2>2. CASE g = generation
    <3>1. ~live' /\ \A h \in Gens : calls'[h].stage # "wire" /\ ~Alive(h)'
      BY <1>0, <1>3, <1>4, <2>1, <2>2 DEF Shape, CallsAreAddressed
    <3>2. ~Trusted'
      BY <3>1 DEF Trusted, Busy
    <3> QED BY <1>0, <3>1, <3>2, DoubtFits
  <2>3. CASE g # generation
    <3>1. /\ \A h \in Gens : calls'[h] = IF h = g THEN NoCall ELSE calls[h]
          /\ \A h \in Gens : Alive(h)' <=> Alive(h) /\ h # g
          /\ NoCall.stage = "idle"
      BY <1>3, <1>4, <2>1
    <3>2. Trusted' => Trusted
      BY <2>1, <2>3, <3>1 DEF Trusted, Busy
    <3>3. EndKnown'
      BY <2>1, <2>3, <3>2 DEF FitInv, EndKnown, Knows
    <3>4. ASSUME NEW h \in Gens, h # g PROVE Fits(h)'
      BY <1>0, <2>1, <2>3, <3>1, <3>4, FitsStays DEF FitInv
    <3>5. Fits(g)'
      BY <3>1 DEF Fits, Alive
    <3> QED BY <3>3, <3>4, <3>5
  <2> QED BY <2>2, <2>3
<1>5. CASE Finish(g)
  <2>1. /\ calls' = [calls EXCEPT ![g] = NoCall] /\ UNCHANGED <<generation, wire, protocols>>
        /\ calls[g].stage = "accepted" /\ g = generation /\ Alive(g)
        /\ calls[g].req.kind = "disconnect" => ~live'
        /\ calls[g].req.kind # "disconnect" => conn' = conn
    BY <1>5 DEF Finish, Current, Alive
  <2>2. \A h \in Gens : calls'[h].stage # "wire" /\ ~Alive(h)'
    BY <1>3, <2>1
  <2>3. CASE calls[g].req.kind = "disconnect"
    <3>1. ~Trusted'
      BY <2>1, <2>2, <2>3 DEF Trusted, Busy
    <3> QED BY <1>0, <2>2, <3>1, DoubtFits
  <2>4. CASE calls[g].req.kind # "disconnect"
    <3>1. calls[g].req.kind \in Talk
      BY <1>0, <2>1, <2>4 DEF Shape, CallsAreAddressed, TypeOK, Calls, Requests, Talk
    <3>2. Knows(protocols[conn]) /\ protocols[conn].known
      BY <2>1, <3>1 DEF FitInv, EndKnown, Fits, Trusted, Busy
    <3>3. protocols'[conn'] = protocols[conn]
      BY <2>1, <2>4
    <3>4. protocols'[conn'].known
      BY <3>2, <3>3, Zenon
    <3> QED BY <2>2, <3>2, <3>3, <3>4 DEF EndKnown, Knows, Fits
  <2> QED BY <2>3, <2>4
<1> QED BY <1>2, <1>4, <1>5

\* The bridge answers one request; the others are as they were.
LEMMA BridgeFits ==
  ASSUME ClientInv, ClientInv', FitInv, NEW g \in Gens, ServeConnect(g) \/ ServeCommand(g) \/ ServeDisconnect(g)
  PROVE  EndKnown' /\ \A h \in Gens : Fits(h)'
<1>0. TypeOK /\ Shape /\ Order /\ TypeOK' /\ Shape'
  BY DEF ClientInv, Shape, Order
<1>1. PICK a : /\ Answer(g, a)
               /\ calls[g].stage = "wire" /\ a.tag = "view" => Satisfies(calls[g].req, a)
  BY <1>0, AnswerFits
<1>2. UNCHANGED <<conn, live, generation, pending, protocols, opened>>
  BY <1>1 DEF Answer
<1>3. \A h \in Gens : /\ calls'[h].req = calls[h].req /\ calls'[h].aborted = calls[h].aborted
                      /\ calls'[h].stage = calls[h].stage
                      /\ h # g \/ calls[h].stage # "wire" => calls'[h] = calls[h]
                      /\ h = g /\ calls[h].stage = "wire" => calls'[h].answer = a
                      /\ wire'[h] = wire[h] \/ wire'[h].kind = "none"
                      /\ h = g => wire'[h].kind = "none"
  BY <1>0, <1>1 DEF Answer, TypeOK, Calls, NoRequest
<1>4. \A h \in Gens : Alive(h)' <=> Alive(h)
  BY <1>2, <1>3 DEF Alive
<1>5. Trusted' <=> Trusted
  BY <1>2, <1>3, <1>4 DEF Trusted, Busy
<1>6. EndKnown'
  BY <1>2, <1>5 DEF FitInv, EndKnown, Knows
<1>7. ASSUME NEW h \in Gens, h # g \/ calls[h].stage # "wire" PROVE Fits(h)'
  BY <1>0, <1>2, <1>3, <1>4, <1>7, FitsStays DEF FitInv
<1>8. CASE calls[g].stage = "wire"
  <2>1. calls'[g].answer = a /\ calls'[g].req = calls[g].req /\ calls'[g].stage = "wire" /\ wire'[g].kind = "none"
    BY <1>3, <1>8
  <2>2. a.tag = "view" => Satisfies(calls[g].req, calls[g].answer)'
    BY <1>1, <1>2, <1>8, <2>1 DEF Satisfies
  <2>3. calls[g].req.kind \in Talk => Asked(protocols[conn], calls[g].req)'
    BY <1>2, <1>8, <2>1 DEF FitInv, Fits, Asked
  <2>4. Fits(g)'
    BY <2>1, <2>2, <2>3 DEF Fits
  <2> QED BY <1>6, <1>7, <2>4
<1> QED BY <1>6, <1>7, <1>8

\* Every step keeps it, given the invariant of the client.
LEMMA FitInvStep == ClientInv /\ ClientInv' /\ FitInv /\ [Next]_vars => FitInv'
<1> SUFFICES ASSUME ClientInv, ClientInv', FitInv, [Next]_vars
             PROVE  EndKnown' /\ \A h \in Gens : Fits(h)'
  BY HonestStays DEF FitInv, ClientInv, Shape, Order
<1>1. CASE User
  BY <1>1, UserFits
<1>2. CASE Microtask
  BY <1>2, EndFits DEF Microtask, Unwind, FinishLate
<1>3. ASSUME NEW g \in Gens, Timeout(g) \/ DeliverFailure(g) \/ Deliver(g) \/ Hashed(g)
      PROVE  EndKnown' /\ \A h \in Gens : Fits(h)'
  <2>1. CASE DeliverFailure(g)
    BY <2>1, EndFits DEF DeliverFailure
  <2> QED BY <1>3, <2>1, EndFits, DeliverFits
<1>4. ASSUME NEW g \in Gens, ServeConnect(g) \/ ServeCommand(g) \/ ServeDisconnect(g)
      PROVE  EndKnown' /\ \A h \in Gens : Fits(h)'
  BY <1>4, BridgeFits
<1>5. CASE UNCHANGED vars
  BY <1>5 DEF vars, FitInv, EndKnown, Knows, Fits, Asked, Satisfies, Trusted, Busy, Alive
<1> QED BY <1>1, <1>2, <1>3, <1>4, <1>5 DEF Next

\* Whatever was recorded, wherever it ends and whether or not the client has seen
\* the end: the checks of PhysicalProtocolV20.accept refuse no reply that a bridge
\* which keeps to the recording gives to the request it is checked against.
THEOREM HonestReplies == Spec => []HonestRepliesFit
<1>1. Init => FitInv
  BY DEF Init, FitInv, AllHonest, Honest, EndKnown, Fits, Trusted, Busy, Alive, NoCall, NoAnswer, Note
<1>2. FitInv => HonestRepliesFit
  BY DEF FitInv, Fits, HonestRepliesFit
<1> QED BY <1>1, <1>2, FitInvStep, ClientInvariant, PTL DEF Spec

(***************************************************************************)
(* The V20 client implements DebugSession.                                  *)
(***************************************************************************)
\* The first request of a connection has the first id.
ConnectIsFirst == \A g \in Gens : calls[g].req.kind = "connect" => calls[g].req.id = 1

\* No step gives a connect another id.
LEMMA ConnectStaysFirst == ClientInv /\ ConnectIsFirst /\ [Next]_vars => ConnectIsFirst'
<1> SUFFICES ASSUME TypeOK, ConnectIsFirst, [Next]_vars PROVE ConnectIsFirst'
  BY DEF ClientInv
<1>1. ASSUME NEW req, req.kind = "connect" => req.id = 1, NEW cs \in [Gens -> Calls],
             \A h \in Gens : cs[h].req = calls[h].req, calls' = Starting(cs, req)
      PROVE  ConnectIsFirst'
  BY <1>1 DEF ConnectIsFirst, Starting
<1>2. ASSUME NEW g, \A h \in Gens : calls'[h] = NoCall \/ calls'[h].req = calls[h].req
      PROVE  ConnectIsFirst'
  BY <1>2 DEF ConnectIsFirst, NoCall, NoRequest
<1>3. ASSUME NEW g PROVE /\ Aborted(calls, g) \in [Gens -> Calls]
                         /\ \A h \in Gens : Aborted(calls, g)[h].req = calls[h].req
  BY AbortedType DEF TypeOK
<1>4. CASE User
  <2>1. CASE Connect
    BY <1>1, <2>1 DEF Connect, NoRequest, TypeOK
  <2>2. ASSUME NEW op, NEW n, Command(op, n) PROVE ConnectIsFirst'
    BY <1>1, <2>2 DEF Command, TypeOK
  <2>3. CASE Invalidate
    BY <1>2, <1>3, <2>3 DEF Invalidate
  <2>4. CASE Disconnect
    BY <1>1, <1>3, <2>4 DEF Disconnect, NoRequest
  <2> QED BY <1>4, <2>1, <2>2, <2>3, <2>4 DEF User
<1>5. CASE Microtask
  <2>1. ASSUME NEW g \in Gens, calls' = [calls EXCEPT ![g] = NoCall] PROVE ConnectIsFirst'
    BY <1>2, <2>1 DEF TypeOK
  <2> QED BY <1>5, <2>1 DEF Microtask, Unwind, Finish, FinishLate, Fail
<1>6. ASSUME NEW g \in Gens, Timeout(g) \/ DeliverFailure(g) \/ Deliver(g) \/ Hashed(g)
      PROVE  ConnectIsFirst'
  <2>1. CASE Timeout(g)
    BY <1>2, <1>3, <2>1 DEF Timeout
  <2>2. CASE DeliverFailure(g)
    BY <1>2, <2>2 DEF DeliverFailure, Fail, TypeOK
  <2>3. CASE Deliver(g) \/ Hashed(g)
    <3>1. \E a, t : calls' = [calls EXCEPT ![g].stage = t, ![g].answer = a] \/ calls' = [calls EXCEPT ![g].stage = t]
      BY <2>3 DEF Deliver, Hashed
    <3>2. \A h \in Gens : calls'[h].req = calls[h].req
      BY <3>1, SMTT(30) DEF TypeOK, Calls
    <3> QED BY <1>2, <3>2
  <2> QED BY <1>6, <2>1, <2>2, <2>3
<1>7. ASSUME NEW g \in Gens, ServeConnect(g) \/ ServeCommand(g) \/ ServeDisconnect(g)
      PROVE  ConnectIsFirst'
  <2>1. \E a : Answer(g, a)
    BY <1>7 DEF ServeConnect, ServeCommand, ServeDisconnect, Serve
  <2>2. \A h \in Gens : calls'[h].req = calls[h].req
    BY <2>1 DEF Answer, TypeOK, Calls
  <2> QED BY <1>2, <2>2
<1>8. CASE UNCHANGED vars
  BY <1>8 DEF vars, ConnectIsFirst
<1> QED BY <1>4, <1>5, <1>6, <1>7, <1>8 DEF Next

\* The phase of a state.
LEMMA Phases ==
  ASSUME Shape
  PROVE  /\ AbstractPhase = "closed" <=> conn = 0
         /\ AbstractPhase = "live" <=> live
         /\ AbstractPhase = "opening" <=> conn # 0 /\ ~live /\ InFlight("connect")
         /\ AbstractPhase = "busy" <=> conn # 0 /\ ~live /\ InFlight("command")
         /\ AbstractPhase \in {"closed", "live", "opening", "busy", "doubt"}
BY DEF AbstractPhase, InFlight, ready, Shape, CallsAreAddressed

\* The phase after a step.
LEMMA PhasesNext ==
  ASSUME Shape'
  PROVE  /\ AbstractPhase' = "closed" <=> conn' = 0
         /\ AbstractPhase' = "live" <=> live'
         /\ AbstractPhase' = "opening" <=> conn' # 0 /\ ~live' /\ InFlight("connect")'
         /\ AbstractPhase' = "busy" <=> conn' # 0 /\ ~live' /\ InFlight("command")'
         /\ AbstractPhase' \in {"closed", "live", "opening", "busy", "doubt"}
BY DEF AbstractPhase, InFlight, ready, Shape, CallsAreAddressed

\* A step after which the session is in doubt, or closed as before.
LEMMA DoubtRefines ==
  ASSUME Shape, Shape', UNCHANGED <<conn, opened>>, ~live', ~InFlight("connect")', ~InFlight("command")'
  PROVE  [Promise!Next]_(Promise!vars)
<1>1. AbstractPhase' = IF conn = 0 THEN "closed" ELSE "doubt"
  BY PhasesNext
<1>2. AbstractSequence' = 0
  BY <1>1 DEF AbstractSequence
<1>3. AbstractPhase \in {"closed", "doubt"} => AbstractSequence = 0
  BY DEF AbstractSequence
<1> QED BY <1>1, <1>2, <1>3, Phases DEF Promise!Next, Promise!Doubt, Promise!vars

\* A step that a caller does not see.
LEMMA SameRefines ==
  ASSUME TypeOK, Shape, Shape', UNCHANGED <<conn, opened, generation, live>>,
         \A c \in Conns : protocols'[c].sent = protocols[c].sent,
         \A g \in Gens : g = generation =>
            /\ calls'[g].stage = "idle" <=> calls[g].stage = "idle"
            /\ calls'[g].aborted <=> calls[g].aborted
            /\ calls'[g].req = calls[g].req
  PROVE  [Promise!Next]_(Promise!vars)
<1>1. (InFlight("connect")' <=> InFlight("connect")) /\ (InFlight("command")' <=> InFlight("command"))
  BY DEF InFlight
<1>2. AbstractPhase' = AbstractPhase
  BY <1>1, Phases, PhasesNext
<1>3. AbstractPhase \in {"live", "busy"} => conn \in Conns
  BY Phases, PhysicalAssumption DEF TypeOK, Conns, Shape, CallsAreAddressed
<1>4. AbstractSequence' = AbstractSequence
  BY <1>2, <1>3 DEF AbstractSequence
<1> QED BY <1>2, <1>4 DEF Promise!vars

\* connect opens a fresh session.
LEMMA ConnectRefines ==
  ASSUME TypeOK, Shape, Shape', Connect
  PROVE  Promise!Open
<1>1. generation' \in Gens /\ conn' # 0 /\ ~live'
  BY PhysicalAssumption DEF Connect, Exchange, TypeOK, Gens
<1>2. /\ calls'[generation'].stage = "wire" /\ ~calls'[generation'].aborted
      /\ calls'[generation'].req.kind = "connect"
  BY <1>1 DEF Connect, Exchange, Starting, TypeOK, NoRequest
<1>3. AbstractPhase = "closed" /\ AbstractPhase' = "opening"
  BY <1>1, <1>2, Phases, PhasesNext DEF Connect, InFlight
<1>4. AbstractSequence' = 0
  BY <1>3 DEF AbstractSequence
<1> QED BY <1>3, <1>4 DEF Connect, Promise!Open

\* command issues the next command of a live session.
LEMMA CommandRefines ==
  ASSUME TypeOK, Shape, Shape', NEW op, NEW n, Command(op, n)
  PROVE  Promise!Issue
<1>1. conn \in Conns /\ conn' = conn /\ ~live' /\ live /\ conn # 0 /\ opened' = opened
  BY PhysicalAssumption DEF Command, ready, TypeOK, Conns
<1>2. protocols[conn] \in Protocols /\ protocols[conn].sent < MaxCommands
  BY <1>1 DEF Command, Preparable, TypeOK
<1>3. protocols'[conn'].sent = protocols[conn].sent + 1
  <2>1. protocols'[conn'] = Prepared(protocols[conn], op)
    BY <1>1 DEF Command, TypeOK
  <2> QED BY <1>2, <2>1, PreparedType
<1>4. generation' \in Gens
  BY PhysicalAssumption DEF Command, Exchange, TypeOK, Gens
<1>5. /\ calls'[generation'].stage = "wire" /\ ~calls'[generation'].aborted
      /\ calls'[generation'].req.kind = "command"
  BY <1>4 DEF Command, Exchange, Starting, TypeOK
<1>6. AbstractPhase = "live" /\ AbstractPhase' = "busy"
  BY <1>1, <1>4, <1>5, Phases, PhasesNext DEF InFlight
<1>7. AbstractSequence = protocols[conn].sent - 1 /\ AbstractSequence' = protocols[conn].sent
  BY <1>2, <1>3, <1>6, PhysicalAssumption DEF AbstractSequence, Protocols
<1> QED BY <1>1, <1>2, <1>6, <1>7, PhysicalAssumption DEF Promise!Issue, Protocols

\* A failing exchange leaves the session in doubt, or closed, or alone if it was superseded.
LEMMA FailRefines ==
  ASSUME TypeOK, Shape, Shape', NEW g \in Gens, NEW closed, calls[g].stage # "idle",
         closed => ~live, Fail(g, closed)
  PROVE  [Promise!Next]_(Promise!vars)
<1>1. \A h \in Gens : calls'[h] = IF h = g THEN NoCall ELSE calls[h]
  BY DEF Fail, TypeOK
<1>2. UNCHANGED <<opened, generation>>
  BY DEF Fail
<1>3. CASE g # generation
  <2>1. UNCHANGED <<conn, live, protocols>>
    BY <1>3 DEF Fail
  <2> QED BY <1>1, <1>2, <1>3, <2>1, SameRefines
<1>4. CASE g = generation
  <2>1. conn = calls[g].req.conn /\ conn # 0
    BY <1>4 DEF Shape, CallsAreAddressed, TypeOK
  <2>2. ~live' /\ ~InFlight("connect")' /\ ~InFlight("command")'
    BY <1>1, <1>2, <1>4, <2>1 DEF Fail, InFlight, NoCall
  <2>3. CASE conn' = conn
    BY <1>2, <2>2, <2>3, DoubtRefines
  <2>4. CASE conn' # conn
    <3>1. conn' = 0 /\ ~live
      BY <1>4, <2>4 DEF Fail
    <3>2. AbstractPhase \in {"opening", "busy", "doubt"} /\ AbstractPhase' = "closed"
      BY <2>1, <3>1, Phases, PhasesNext
    <3>3. AbstractSequence' = 0
      BY <3>2 DEF AbstractSequence
    <3> QED BY <1>2, <3>2, <3>3 DEF Promise!Next, Promise!Close
  <2> QED BY <2>3, <2>4
<1> QED BY <1>3, <1>4

\* An exchange that is still current opens, answers or closes the session.
LEMMA FinishRefines ==
  ASSUME ClientInv, ConnectIsFirst, Shape', NEW g \in Gens, Finish(g)
  PROVE  Promise!Next
<1>0. TypeOK /\ Shape /\ ProtocolAgrees
  BY DEF ClientInv, Shape
<1>1. /\ calls[g].stage = "accepted" /\ g = generation /\ ~calls[g].aborted /\ conn = calls[g].req.conn
      /\ UNCHANGED <<opened, protocols>>
  BY DEF Finish, Current
<1>2. Alive(g) /\ ~live /\ conn # 0 /\ conn \in Conns
  BY <1>0, <1>1, PendingIsGeneration, PhysicalAssumption DEF Alive, Shape, CallsAreAddressed, TypeOK, Conns
<1>3. InFlight(calls[g].req.kind)
  BY <1>1 DEF InFlight
<1>4. CASE calls[g].req.kind = "disconnect"
  <2>1. conn' = 0
    BY <1>4 DEF Finish
  <2>2. AbstractPhase = "doubt" /\ AbstractPhase' = "closed"
    BY <1>0, <1>1, <1>2, <1>4, <2>1, Phases, PhasesNext DEF InFlight
  <2>3. AbstractSequence' = 0
    BY <2>2 DEF AbstractSequence
  <2> QED BY <1>1, <2>2, <2>3 DEF Promise!Next, Promise!Close
<1>5. CASE calls[g].req.kind # "disconnect"
  <2>1. conn' = conn /\ live'
    BY <1>5 DEF Finish
  <2>2. AbstractPhase' = "live" /\ AbstractSequence' = protocols[conn].sent - 1
    BY <1>0, <1>1, <2>1, PhasesNext DEF AbstractSequence
  <2>3. calls[g].req.kind \in Talk
    BY <1>0, <1>1, <1>5 DEF Shape, CallsAreAddressed, TypeOK, Calls, Requests, Talk
  <2>4. protocols[conn].sent = calls[g].req.id
    BY <1>0, <1>2, <2>3 DEF ProtocolAgrees
  <2>5. CASE calls[g].req.kind = "connect"
    <3>1. AbstractPhase = "opening"
      BY <1>0, <1>2, <1>3, <2>5, Phases
    <3>2. protocols[conn].sent = 1
      BY <2>4, <2>5 DEF ConnectIsFirst
    <3> QED BY <1>1, <2>2, <3>1, <3>2 DEF Promise!Next, Promise!Opened
  <2>6. CASE calls[g].req.kind = "command"
    <3>1. AbstractPhase = "busy"
      BY <1>0, <1>2, <1>3, <2>6, Phases
    <3>2. AbstractSequence = protocols[conn].sent - 1
      BY <3>1 DEF AbstractSequence
    <3> QED BY <1>1, <2>2, <3>1, <3>2 DEF Promise!Next, Promise!Answer
  <2> QED BY <2>3, <2>5, <2>6 DEF Talk
<1> QED BY <1>4, <1>5

\* An exchange that is aborted, by a call or by its timer, leaves a doubt.
LEMMA AbortRefines ==
  ASSUME TypeOK, Shape, Shape', NEW g, calls' = Aborted(calls, g), g = pending,
         \/ generation' = generation + 1
         \/ generation' = generation /\ g = generation,
         ~live', UNCHANGED <<conn, opened>>
  PROVE  [Promise!Next]_(Promise!vars)
<1>1. ASSUME NEW h \in Gens
      PROVE  /\ calls'[h].stage = "idle" <=> calls[h].stage = "idle"
             /\ h = g /\ calls[h].stage # "idle" => calls'[h].aborted
  BY AbortedType DEF TypeOK
<1>2. \A h \in Gens : h = generation + 1 => calls[h].stage = "idle"
  BY PhysicalAssumption DEF TypeOK, Gens, Shape, CallsAreAddressed
<1>3. ~InFlight("connect")' /\ ~InFlight("command")'
  BY <1>1, <1>2 DEF InFlight
<1> QED BY <1>3, DoubtRefines

\* accept, clear and prepare only ever count requests upwards.
LEMMA AcceptedKeepsCount ==
  ASSUME NEW p \in Protocols, NEW a
  PROVE  Accepted(p, a).sent = p.sent
<1> DEFINE q == Answered(p, a)
<1>1. q.sent = p.sent /\ Clear(q).sent = p.sent
  BY DEF Answered, Clear, Protocols
<1>2. \A s, n, e, h : /\ [q EXCEPT !.selected = s, !.end = e, !.highest = h].sent = p.sent
                      /\ [q EXCEPT !.selected = s].sent = p.sent
                      /\ [q EXCEPT !.next = n].sent = p.sent
  BY DEF Answered, Protocols
<1> HIDE DEF q
<1> QED BY <1>1, <1>2 DEF Accepted, q

\* What a reply or a digest does to the protocol object is not seen by a caller.
LEMMA DeliverRefines ==
  ASSUME TypeOK, Shape, Shape', NEW g \in Gens, Deliver(g) \/ Hashed(g)
  PROVE  [Promise!Next]_(Promise!vars)
<1>1. \E a, t : /\ t \in {"reading", "accepted"}
                /\ calls' = [calls EXCEPT ![g].stage = t, ![g].answer = a] \/ calls' = [calls EXCEPT ![g].stage = t]
  BY DEF Deliver, Hashed
<1>2. \A h \in Gens : /\ calls'[h].req = calls[h].req /\ calls'[h].aborted = calls[h].aborted
                      /\ calls'[h].stage = "idle" <=> calls[h].stage = "idle" /\ h # g
  BY <1>1 DEF TypeOK, Calls
<1>3. calls[g].stage # "idle" /\ UNCHANGED <<conn, opened, generation, live>>
  BY DEF Deliver, Hashed
<1>4. \E a : UNCHANGED protocols \/ protocols' = [protocols EXCEPT ![calls[g].req.conn] = Accepted(@, a)]
  BY DEF Deliver, Hashed
<1>5. \A c \in Conns : protocols'[c].sent = protocols[c].sent
  BY <1>4, AcceptedKeepsCount DEF TypeOK
<1> QED BY <1>2, <1>3, <1>5, SameRefines

\* The V20 client keeps the promise of DebugSession: one command at a time, each
\* with the next request id, none past the limit or after a doubt, and no second
\* session before the first is closed, although a reply changes the protocol
\* object before its exchange is known to be current.
THEOREM Refinement == Spec => ImplementsDebugSession
<1>1. Init => Promise!Init
  BY DEF Init, AbstractPhase, AbstractSequence, Promise!Init
<1>2. Init => ConnectIsFirst
  BY DEF Init, ConnectIsFirst, NoCall, NoRequest
<1>3. ClientInv /\ ClientInv' /\ ConnectIsFirst /\ [Next]_vars => [Promise!Next]_(Promise!vars)
  <2> SUFFICES ASSUME ClientInv, ClientInv', ConnectIsFirst, [Next]_vars PROVE [Promise!Next]_(Promise!vars)
    OBVIOUS
  <2>0. TypeOK /\ Shape /\ Shape'
    BY DEF ClientInv, Shape
  <2>1. CASE User
    <3>1. CASE Invalidate
      BY <2>0, <3>1, AbortRefines DEF Invalidate
    <3>2. CASE Disconnect
      <4>1. generation' = generation + 1 /\ generation' \in Gens
        BY <2>0, <3>2, PhysicalAssumption DEF Disconnect, Exchange, TypeOK, Gens
      <4>2. Aborted(calls, pending) \in [Gens -> Calls]
        BY <2>0, AbortedType DEF TypeOK
      <4>3. calls'[generation'].req = [NoRequest EXCEPT !.kind = "disconnect", !.conn = conn]
        BY <3>2, <4>1, <4>2 DEF Disconnect, Starting
      <4>4. ~InFlight("connect")' /\ ~InFlight("command")'
        BY <4>3 DEF InFlight, NoRequest
      <4> QED BY <2>0, <3>2, <4>4, DoubtRefines DEF Disconnect
    <3> QED BY <2>0, <2>1, <3>1, <3>2, ConnectRefines, CommandRefines DEF User, Promise!Next
  <2>2. CASE Microtask
    <3>1. ASSUME NEW g \in Gens, calls[g].stage # "idle", Fail(g, FALSE) PROVE [Promise!Next]_(Promise!vars)
      BY <2>0, <3>1, FailRefines
    <3> QED BY <2>0, <2>2, <3>1, FinishRefines DEF Microtask, Unwind, FinishLate
  <2>3. ASSUME NEW g \in Gens, Timeout(g) \/ DeliverFailure(g) \/ Deliver(g) \/ Hashed(g)
        PROVE  [Promise!Next]_(Promise!vars)
    <3>1. CASE Timeout(g)
      <4>1. g = pending /\ g = generation /\ ~live
        BY <2>0, <3>1, PendingIsGeneration DEF Timeout, Alive, Shape, OneRequestAtATime
      <4> QED BY <2>0, <3>1, <4>1, AbortRefines DEF Timeout
    <3>2. CASE DeliverFailure(g)
      <4>1. ~live /\ calls[g].stage # "idle"
        BY <2>0, <3>2, PendingIsGeneration DEF DeliverFailure
      <4> QED BY <2>0, <3>2, <4>1, FailRefines DEF DeliverFailure
    <3> QED BY <2>0, <2>3, <3>1, <3>2, DeliverRefines
  <2>4. ASSUME NEW g \in Gens, ServeConnect(g) \/ ServeCommand(g) \/ ServeDisconnect(g)
        PROVE  [Promise!Next]_(Promise!vars)
    <3>1. \E a : Answer(g, a)
      BY <2>4 DEF ServeConnect, ServeCommand, ServeDisconnect, Serve
    <3>2. \A h \in Gens : /\ calls'[h].req = calls[h].req /\ calls'[h].aborted = calls[h].aborted
                          /\ calls'[h].stage = calls[h].stage
      BY <2>0, <3>1 DEF Answer, TypeOK, Calls
    <3>3. UNCHANGED <<conn, live, generation, pending, protocols, opened>>
      BY <3>1 DEF Answer
    <3> QED BY <2>0, <3>2, <3>3, SameRefines
  <2>5. ASSUME UNCHANGED vars PROVE UNCHANGED Promise!vars
    BY <2>5 DEF vars, Promise!vars, AbstractPhase, AbstractSequence, InFlight, ready
  <2> QED BY <2>1, <2>2, <2>3, <2>4, <2>5 DEF Next
<1> QED BY <1>1, <1>2, <1>3, ConnectStaysFirst, ClientInvariant, PTL
     DEF Spec, ImplementsDebugSession, Promise!Spec

(***************************************************************************)
(* What an accepted exchange answers.                                       *)
(***************************************************************************)
\* The client is live only once its last exchange is over.
LiveIsIdle == live => \A g \in Gens : g = generation => calls[g].stage = "idle"

\* Only a page of values has another after it.
PageSaid(a) == a.tag = "view" /\ a.more => a.ok /\ a.op \in Pages

PagesSaid == PageSaid(bridge.echo) /\ \A g \in Gens : PageSaid(calls[g].answer)

\* A page that awaits its digest answers its request.
ReadIsAnswer == \A g \in Gens : calls[g].stage = "reading" =>
  calls[g].answer.conn = calls[g].req.conn /\ calls[g].answer.id = calls[g].req.id

\* Answer a is where the protocol object is, and its page is the one to go on with.
Told(a) == LET p == protocols[conn] IN
  /\ a.conn = conn /\ a.id = p.sent /\ a.at = p.at
  /\ p.next # NoStamp <=> a.more

AcceptedIsTold == \A g \in Gens :
  Alive(g) /\ calls[g].stage = "accepted" /\ calls[g].req.kind \in Talk => Told(calls[g].answer)

ReplyInv == LiveIsIdle /\ PagesSaid /\ ReadIsAnswer /\ AcceptedIsTold

\* What the steps of the client start from.
ReplyBase == ClientInv /\ ReplyInv

\* NoCall is no page.
LEMMA NoPage == NoCall.stage = "idle" /\ PageSaid(NoCall.answer) /\ PageSaid(NoAnswer)
BY DEF NoCall, NoAnswer, Note, PageSaid

\* Aborting an exchange ends no wait for a digest.
LEMMA AbortedStages ==
  ASSUME TypeOK, NEW g, NEW h \in Gens
  PROVE  Aborted(calls, g)[h].stage \in {calls[h].stage, "aborted"}
BY DEF Aborted, Calls, TypeOK

\* A call starts while no reply is due.
LEMMA StartReply ==
  ASSUME TypeOK, ReplyInv, Quiet, NEW req, generation + 1 \in Gens, NEW cs \in {calls, Aborted(calls, pending)},
         calls' = Starting(cs, req), ~live', UNCHANGED bridge
  PROVE  ReplyInv'
<1>1. cs \in [Gens -> Calls] /\ \A h \in Gens :
        /\ cs[h].answer = calls[h].answer /\ cs[h].req = calls[h].req
        /\ cs[h].stage \in {calls[h].stage, "aborted"}
  BY AbortedType, AbortedStages DEF TypeOK
<1>2. \A h \in Gens : calls'[h] = IF h = generation + 1
        THEN [stage |-> "wire", req |-> req, answer |-> NoAnswer, aborted |-> FALSE] ELSE cs[h]
  BY <1>1 DEF Starting
<1>3. \A h \in Gens :
        /\ calls'[h].stage = "reading" => calls[h].stage = "reading" /\ calls'[h].req = calls[h].req
        /\ calls'[h].answer \in {NoAnswer, calls[h].answer}
        /\ h # generation + 1 => calls'[h].answer = calls[h].answer
        /\ calls'[h].stage # "accepted"
        /\ calls'[h].stage = "reading" => h # generation + 1
  BY <1>1, <1>2 DEF Quiet
<1>4. PagesSaid'
  BY <1>3, NoPage DEF ReplyInv, PagesSaid
<1> QED BY <1>3, <1>4 DEF ReplyInv, LiveIsIdle, ReadIsAnswer, AcceptedIsTold

\* A call of the client.
LEMMA UserReply == ReplyBase /\ User => ReplyInv'
<1> SUFFICES ASSUME ReplyBase, User PROVE ReplyInv'
  OBVIOUS
<1>0. TypeOK /\ ReplyInv /\ Quiet
  BY DEF ReplyBase, ClientInv, User
<1>a. generation < MaxGeneration => generation + 1 \in Gens
  BY <1>0, PhysicalAssumption DEF TypeOK, Gens
<1>1. CASE Invalidate
  <2>1. \A h \in Gens :
          /\ calls'[h].answer = calls[h].answer /\ calls'[h].req = calls[h].req
          /\ calls'[h].stage \in {calls[h].stage, "aborted"}
    BY <1>0, <1>1, AbortedType, AbortedStages DEF TypeOK, Invalidate
  <2>2. /\ ~live' /\ UNCHANGED bridge
        /\ \A h \in Gens : calls'[h].stage # "accepted"
    BY <1>0, <1>1, <2>1 DEF Invalidate, Quiet
  <2> QED BY <1>0, <2>1, <2>2 DEF ReplyInv, LiveIsIdle, PagesSaid, ReadIsAnswer, AcceptedIsTold
<1>2. CASE Disconnect
  BY <1>0, <1>a, <1>2, StartReply DEF Disconnect, Exchange
<1>3. CASE Connect
  BY <1>0, <1>a, <1>3, StartReply DEF Connect, Exchange
<1>4. ASSUME NEW op, NEW n, Command(op, n) PROVE ReplyInv'
  BY <1>0, <1>a, <1>4, StartReply DEF Command, Exchange
<1> QED BY <1>1, <1>2, <1>3, <1>4 DEF User

\* An exchange fails: the client is not live, or it was not its last.
LEMMA FailReply ==
  ASSUME ReplyBase, NEW g \in Gens, calls[g].stage # "idle", NEW closed, Fail(g, closed)
  PROVE  ReplyInv'
<1>0. TypeOK /\ ReplyInv
  BY DEF ReplyBase, ClientInv
<1>1. \A h \in Gens : calls'[h] = IF h = g THEN NoCall ELSE calls[h]
  BY <1>0 DEF Fail, TypeOK
<1>2. UNCHANGED <<generation, bridge>> /\ (live' => live)
  BY DEF Fail
<1>3. LiveIsIdle'
  BY <1>0, <1>1, <1>2, NoPage DEF ReplyInv, LiveIsIdle
<1>4. PagesSaid' /\ ReadIsAnswer'
  BY <1>0, <1>1, <1>2, NoPage DEF ReplyInv, PagesSaid, ReadIsAnswer
<1>5. ASSUME NEW h \in Gens, Alive(h)', calls'[h].stage = "accepted", calls'[h].req.kind \in Talk
      PROVE  Told(calls[h].answer)'
  <2>1. h # g /\ calls'[h] = calls[h] /\ Alive(h)
    BY <1>1, <1>2, <1>5, NoPage DEF Alive
  <2>2. g # generation
    BY <2>1 DEF Alive
  <2>3. UNCHANGED <<conn, protocols>>
    BY <2>2 DEF Fail
  <2>4. Told(calls[h].answer)
    BY <1>0, <1>5, <2>1 DEF ReplyInv, AcceptedIsTold
  <2> QED BY <2>1, <2>3, <2>4 DEF Told
<1> QED BY <1>3, <1>4, <1>5 DEF ReplyInv, AcceptedIsTold

\* A page says where it goes on, if it does.
LEMMA PageIsTold ==
  ASSUME NEW p \in Protocols, NEW a \in Answers, p.known, a.ok, a.op \in Pages, a.at = p.at, p.at # NoStamp
  PROVE  Accepted(p, a).next # NoStamp <=> a.more
<1> DEFINE q == Answered(p, a)
<1>1. Accepted(p, a) = [q EXCEPT !.next = IF a.more THEN a.at ELSE NoStamp]
  BY DEF Accepted, Pages, Moves
<1>2. q \in [known : BOOLEAN, at : Stamps, sent : 0..MaxCommands, pending : {0},
             selected : Stamps, next : Stamps, end : 0..End, highest : 0..End]
  BY DEF Answered, Protocols, Answers
<1> HIDE DEF q
<1>3. Accepted(p, a).next = IF a.more THEN a.at ELSE NoStamp
  BY <1>1, <1>2
<1> QED BY <1>3 DEF Answers

\* A reply is admitted: it is the answer the protocol object now has.
LEMMA DeliverReply ==
  ASSUME ReplyBase, NEW g \in Gens, Deliver(g)
  PROVE  ReplyInv'
<1> DEFINE req == calls[g].req
           p == protocols[conn]
<1>0. TypeOK /\ ReplyInv /\ Quiet /\ Shape /\ Order
  BY DEF ReplyBase, ClientInv, Deliver, Shape, Order
<1>1. calls[g].stage = "wire" /\ g = generation /\ calls[g] \in Calls
  BY <1>0 DEF Deliver, TypeOK
<1>2. UNCHANGED <<conn, live, generation, bridge>> /\ ~live
  BY <1>0, <1>1 DEF Deliver, ReplyInv, LiveIsIdle
<1>3. PICK a \in Deliverable(g) :
        /\ Satisfies(req, a)
        /\ IF req.kind = "disconnect" THEN
             /\ calls' = [calls EXCEPT ![g].stage = "accepted"]
             /\ UNCHANGED protocols
           ELSE IF a.ok /\ a.op \in Pages THEN
             /\ calls' = [calls EXCEPT ![g].stage = "reading", ![g].answer = a]
             /\ UNCHANGED protocols
           ELSE
             /\ calls' = [calls EXCEPT ![g].stage = "accepted", ![g].answer = a]
             /\ protocols' = [protocols EXCEPT ![req.conn] = Accepted(@, a)]
  BY DEF Deliver
<1>4. PageSaid(a)
  BY <1>0 DEF Deliverable, ReplyInv, PagesSaid, PageSaid, Note
<1>5. \A h \in Gens : h # g => calls'[h] = calls[h] /\ calls'[h].stage # "accepted"
  <2>1. \A h \in Gens : h # g => calls'[h] = calls[h]
    BY <1>0, <1>3 DEF TypeOK
  <2> QED BY <1>0, <2>1 DEF Quiet
<1>6. /\ calls'[g].req = req /\ calls'[g].answer \in {calls[g].answer, a}
      /\ req.kind = "disconnect" => calls'[g].stage = "accepted"
      /\ req.kind # "disconnect" => calls'[g].answer = a
      /\ calls'[g].stage = "accepted" /\ req.kind # "disconnect" =>
           /\ ~(a.ok /\ a.op \in Pages)
           /\ protocols' = [protocols EXCEPT ![req.conn] = Accepted(@, a)]
  BY <1>0, <1>1, <1>3 DEF TypeOK, Calls
<1>7. LiveIsIdle' /\ PagesSaid'
  BY <1>0, <1>2, <1>4, <1>5, <1>6 DEF LiveIsIdle, ReplyInv, PagesSaid
<1>8. ReadIsAnswer'
  <2>1. calls'[g].stage = "reading" => calls'[g].answer.conn = calls'[g].req.conn
                                       /\ calls'[g].answer.id = calls'[g].req.id
    BY <1>3, <1>6 DEF Satisfies, Accepts
  <2> QED BY <1>0, <1>5, <2>1 DEF ReplyInv, ReadIsAnswer
<1>9. ASSUME calls'[g].stage = "accepted", calls'[g].req.kind \in Talk
      PROVE  Told(calls[g].answer)'
  <2>1. req.kind \in Talk /\ req.kind # "disconnect" /\ calls'[g].answer = a
    BY <1>6, <1>9 DEF Talk
  <2>2. /\ Alive(g) /\ req.conn = conn /\ conn \in Conns /\ a \in Answers
        /\ Accepts(p, req, a)
    BY <1>0, <1>1, <1>3, <2>1, AdmittedIsAnswer
  <2>3. p.sent = req.id /\ p.next = NoStamp
        /\ p.selected \in (IF req.op \in Queries THEN {NoStamp, p.at} ELSE {NoStamp})
    BY <1>0, <1>1, <2>1, <2>2 DEF Order, ProtocolAgrees
  <2>4. ~(a.ok /\ a.op \in Pages) /\ protocols' = [protocols EXCEPT ![req.conn] = Accepted(@, a)]
    BY <1>6, <1>9, <2>1
  <2>5. p \in Protocols /\ protocols'[conn] = Accepted(p, a)
    BY <1>0, <2>2, <2>4 DEF TypeOK
  <2>6. Accepted(p, a).at = a.at /\ Accepted(p, a).sent = p.sent /\ Accepted(p, a).next = NoStamp
    BY <2>2, <2>3, <2>4, <2>5, AcceptedAgrees
  <2>7. a.conn = conn /\ a.id = req.id /\ ~a.more
    BY <1>4, <2>2, <2>4 DEF Accepts, PageSaid
  <2> QED BY <1>2, <2>1, <2>3, <2>5, <2>6, <2>7 DEF Told
<1>10. AcceptedIsTold'
  BY <1>5, <1>9 DEF AcceptedIsTold
<1> QED BY <1>7, <1>8, <1>10 DEF ReplyInv

\* The digest of a page is there.
LEMMA HashedReply ==
  ASSUME ReplyBase, NEW g \in Gens, Hashed(g)
  PROVE  ReplyInv'
<1> DEFINE req == calls[g].req
           a == calls[g].answer
           p == protocols[conn]
<1>0. TypeOK /\ ReplyInv /\ Quiet /\ Shape /\ Order
  BY DEF ReplyBase, ClientInv, Hashed, Shape, Order
<1>1. calls[g].stage = "reading" /\ calls[g] \in Calls
  BY <1>0 DEF Hashed, TypeOK
<1>2. UNCHANGED <<conn, live, generation, bridge>>
  BY DEF Hashed
<1>3. \A h \in Gens : h # g => calls'[h] = calls[h] /\ calls'[h].stage # "accepted"
  <2>1. \A h \in Gens : h # g => calls'[h] = calls[h]
    BY <1>0 DEF TypeOK, Hashed
  <2> QED BY <1>0, <2>1 DEF Quiet
<1>4. calls'[g].req = req /\ calls'[g].answer = a /\ calls'[g].stage = "accepted"
      /\ calls'[g].aborted = calls[g].aborted
  BY <1>0, <1>1 DEF Hashed, TypeOK, Calls
<1>5. LiveIsIdle' /\ PagesSaid' /\ ReadIsAnswer'
  BY <1>0, <1>1, <1>2, <1>3, <1>4 DEF LiveIsIdle, ReplyInv, PagesSaid, ReadIsAnswer
<1>6. ASSUME Alive(g)', req.kind \in Talk
      PROVE  Told(a)'
  <2>1. Alive(g)
    BY <1>1, <1>2, <1>4, <1>6 DEF Alive
  <2>2. conn \in Conns /\ req.conn = conn
    BY <1>0, <1>6, <2>1, PendingIsGeneration DEF Alive, Shape, CallsAreAddressed, Trusted, Busy
  <2>3. /\ p.sent = req.id /\ Agreed(p) /\ p.selected # NoStamp /\ p.known
        /\ a.at = p.at /\ a.ok /\ a.op \in Pages
    BY <1>0, <1>1, <1>6, <2>1 DEF Order, ProtocolAgrees
  <2>4. p.at # NoStamp
    BY <2>3 DEF Agreed
  <2>5. p \in Protocols /\ a \in Answers /\ protocols'[conn] = Accepted(p, a)
    BY <1>0, <1>1, <2>2 DEF TypeOK, Hashed, Calls
  <2>6. Accepted(p, a).at = p.at /\ Accepted(p, a).sent = p.sent
    BY <2>3, <2>5, PageAgrees
  <2>7. Accepted(p, a).next # NoStamp <=> a.more
    BY <2>3, <2>4, <2>5, PageIsTold
  <2>8. a.conn = conn /\ a.id = req.id
    BY <1>0, <1>1, <2>2 DEF ReplyInv, ReadIsAnswer
  <2> QED BY <1>2, <1>4, <2>3, <2>5, <2>6, <2>7, <2>8 DEF Told
<1>7. AcceptedIsTold'
  BY <1>3, <1>4, <1>6 DEF AcceptedIsTold, Told
<1> QED BY <1>5, <1>7 DEF ReplyInv

\* The bridge answers, and says of more only in a page.
LEMMA AnswerReply ==
  ASSUME ReplyBase, NEW g \in Gens, NEW a, PageSaid(a), Answer(g, a),
         PageSaid(bridge'.echo)
  PROVE  ReplyInv'
<1>0. TypeOK /\ ReplyInv
  BY DEF ReplyBase, ClientInv
<1>1. \A h \in Gens :
        /\ calls'[h].stage = calls[h].stage /\ calls'[h].req = calls[h].req /\ calls'[h].aborted = calls[h].aborted
        /\ calls[h].stage # "wire" => calls'[h] = calls[h]
        /\ calls'[h].answer \in {calls[h].answer, a}
  BY <1>0 DEF Answer, TypeOK, Calls
<1>2. UNCHANGED <<conn, live, generation, protocols>>
  BY DEF Answer
<1>3. LiveIsIdle' /\ PagesSaid'
  BY <1>0, <1>1, <1>2 DEF ReplyInv, LiveIsIdle, PagesSaid
<1>4. ReadIsAnswer'
  BY <1>0, <1>1 DEF ReplyInv, ReadIsAnswer
<1>5. AcceptedIsTold'
  BY <1>0, <1>1, <1>2 DEF ReplyInv, AcceptedIsTold, Alive, Told
<1> QED BY <1>3, <1>4, <1>5 DEF ReplyInv

\* The bridge.
LEMMA BridgeReply ==
  ASSUME ReplyBase, NEW g \in Gens, ServeConnect(g) \/ ServeCommand(g) \/ ServeDisconnect(g)
  PROVE  ReplyInv'
<1> DEFINE r == wire[g]
<1>0. PageSaid(bridge.echo) /\ PageSaid(NoAnswer) /\ \A t, c : PageSaid(Note(t, c))
  BY DEF ReplyBase, ReplyInv, PagesSaid, PageSaid, NoAnswer, Note
<1>1. ASSUME NEW ok, NEW at, NEW captured, NEW more, Serve(g, ok, at, captured, more),
             more => ok /\ r.op \in Pages
      PROVE  ReplyInv'
  <2> DEFINE a == [tag |-> "view", conn |-> r.conn, id |-> r.id, op |-> r.op, ok |-> ok, at |-> at,
                   captured |-> captured, completed |-> ok /\ r.op \in Moves /\ at.event = End, more |-> more,
                   advanced |-> Advanced(bridge.at.event, at.event, End - 1)]
             b == [conn |-> r.conn, served |-> r.id, at |-> at, echo |-> a]
  <2>1. PageSaid(a)
    BY <1>1 DEF PageSaid
  <2>2. Answer(g, a) /\ bridge' = b
    BY <1>1 DEF Serve
  <2>3. b.echo = a
    OBVIOUS
  <2> HIDE DEF a, b
  <2> QED BY <2>1, <2>2, <2>3, AnswerReply
<1>2. CASE ServeConnect(g)
  <2> DEFINE hello == [Note("view", r.conn) EXCEPT !.id = 1, !.op = "discover", !.ok = TRUE]
             b == [conn |-> r.conn, served |-> 1, at |-> NoStamp, echo |-> hello]
  <2>1. PageSaid(hello)
    BY DEF PageSaid, Note
  <2>2. b.echo = hello
    OBVIOUS
  <2>3. \/ bridge' = b /\ Answer(g, hello)
        \/ UNCHANGED bridge /\ \E t \in {"error", "error_closed"} : Answer(g, Note(t, r.conn))
    BY <1>2 DEF ServeConnect
  <2> HIDE DEF hello, b
  <2> QED BY <1>0, <2>1, <2>2, <2>3, AnswerReply
<1>3. ASSUME NEW t, NEW c, Answer(g, Note(t, c)),
             UNCHANGED bridge \/ bridge' = [conn |-> 0, served |-> 0, at |-> NoStamp, echo |-> NoAnswer]
      PROVE  ReplyInv'
  BY <1>0, <1>3, AnswerReply
<1>4. CASE ServeDisconnect(g)
  BY <1>3, <1>4 DEF ServeDisconnect
<1>5. CASE ServeCommand(g)
  <2>1. CASE Answer(g, Note("error_closed", r.conn))
             /\ bridge' = [conn |-> 0, served |-> 0, at |-> NoStamp, echo |-> NoAnswer]
    BY <1>3, <2>1
  <2>2. CASE Answer(g, Note("error", r.conn)) /\ UNCHANGED bridge
    BY <1>3, <2>2
  <2>3. CASE Serve(g, FALSE, bridge.at, FALSE, FALSE)
    BY <1>1, <2>3
  <2>4. CASE \E captured \in BOOLEAN : \/ Serve(g, TRUE, Target(r), captured, FALSE)
                                       \/ Serve(g, TRUE, bridge.at, captured, FALSE)
    BY <1>1, <2>4
  <2>5. CASE \E more \in BOOLEAN : (more => r.op \in Pages) /\ Serve(g, TRUE, bridge.at, FALSE, more)
    BY <1>1, <2>5
  <2> QED BY <1>5, <2>1, <2>2, <2>3, <2>4, <2>5 DEF ServeCommand
<1> QED BY <1>2, <1>4, <1>5

\* Whatever is accepted while it is awaited is what the protocol object was told.
LEMMA ReplyInductive == ClientInv /\ ReplyInv /\ [Next]_vars => ReplyInv'
<1> SUFFICES ASSUME ReplyBase, [Next]_vars PROVE ReplyInv'
  BY DEF ReplyBase
<1>0. TypeOK /\ ReplyInv
  BY DEF ReplyBase, ClientInv
<1>1. ASSUME NEW g \in Gens, Unwind(g) \/ FinishLate(g) \/ DeliverFailure(g) PROVE ReplyInv'
  BY <1>1, FailReply DEF Unwind, FinishLate, DeliverFailure
<1>2. ASSUME NEW g \in Gens, Finish(g) PROVE ReplyInv'
  <2>1. \A h \in Gens : calls'[h] = IF h = g THEN NoCall ELSE calls[h]
    BY <1>0, <1>2 DEF Finish, TypeOK
  <2>2. g = generation /\ UNCHANGED <<generation, bridge>>
    BY <1>2 DEF Finish, Current
  <2>3. LiveIsIdle' /\ AcceptedIsTold'
    BY <2>1, <2>2, NoPage DEF LiveIsIdle, AcceptedIsTold, Alive
  <2>4. PagesSaid' /\ ReadIsAnswer'
    BY <1>0, <2>1, <2>2, NoPage DEF ReplyInv, PagesSaid, ReadIsAnswer
  <2> QED BY <2>3, <2>4 DEF ReplyInv
<1>3. ASSUME NEW g \in Gens, Timeout(g) PROVE ReplyInv'
  <2>1. \A h \in Gens :
          /\ calls'[h].answer = calls[h].answer /\ calls'[h].req = calls[h].req
          /\ calls'[h].stage \in {calls[h].stage, "aborted"}
          /\ calls[h].stage = "idle" => calls'[h].stage = "idle"
    BY <1>0, <1>3, AbortedType, AbortedStages DEF TypeOK, Timeout
  <2>2. /\ UNCHANGED <<bridge, live, generation>>
        /\ \A h \in Gens : calls'[h].stage # "accepted"
    BY <1>3, <2>1 DEF Timeout, Quiet
  <2> QED BY <1>0, <2>1, <2>2 DEF ReplyInv, LiveIsIdle, PagesSaid, ReadIsAnswer, AcceptedIsTold
<1>4. CASE UNCHANGED vars
  BY <1>0, <1>4 DEF vars, ReplyInv, LiveIsIdle, PagesSaid, ReadIsAnswer, AcceptedIsTold, Alive, Told
<1> QED BY <1>1, <1>2, <1>3, <1>4, UserReply, DeliverReply, HashedReply, BridgeReply DEF Next, Microtask

\* Nothing was said at first.
LEMMA ReplyInitial == Init => ReplyInv
BY NoPage DEF Init, ReplyInv, LiveIsIdle, PagesSaid, ReadIsAnswer, AcceptedIsTold, NoCall

\* Until the exchange is checked for being current, the answer it goes on with is
\* the one the protocol object was changed by.
THEOREM ReplyInvariant == Spec => []ReplyInv
BY ClientInvariant, ReplyInductive, ReplyInitial, PTL DEF Spec

(***************************************************************************)
(* PhysicalPanel: an activation of perform and what it waits for.           *)
(***************************************************************************)
Handlers == [state : {"none", "waiting", "resolved", "rejected"}, current : BOOLEAN, value : Answers]

PanelTypeOK ==
  /\ mounted \in BOOLEAN /\ busy \in BOOLEAN /\ reply \in Answers
  /\ handlers \in [Gens -> Handlers]

\* What BusyIsAwaiting says, and that the exchange that is pending is awaited.
OneWait == mounted =>
  /\ busy <=> CurrentHandlers # {}
  /\ \A g, h \in CurrentHandlers : g = h
  /\ pending # 0 => pending \in CurrentHandlers /\ handlers[pending].state = "waiting"

\* What is on the page, and what is about to be shown, is what the client was told.
ShownIsTold ==
  /\ mounted /\ reply # NoAnswer => live /\ ~busy /\ Told(reply)
  /\ \A g \in CurrentHandlers : handlers[g].state = "resolved" /\ handlers[g].value # NoAnswer =>
       live /\ Told(handlers[g].value)

PanelInv == PanelTypeOK /\ OneWait /\ ShownIsTold

\* Every step of the panel is one of its client, or leaves the client alone.
LEMMA PanelSteps == [PanelNext]_panelVars => [Next]_vars
<1> SUFFICES ASSUME [PanelNext]_panelVars PROVE [Next]_vars
  OBVIOUS
<1>1. ASSUME Quiet, Panel PROVE [Next]_vars
  <2>1. CASE PressConnect
    BY <1>1, <2>1 DEF PressConnect, Refused, Next, User
  <2>2. ASSUME NEW op \in {"step", "reverse"}, NEW n \in Counts, PressCommand(op, n) PROVE [Next]_vars
    BY <1>1, <2>2 DEF PressCommand, Refused, Next, User
  <2>3. ASSUME NEW n \in 0..End + 1, PressCommand("seek", n) PROVE [Next]_vars
    BY <1>1, <2>3 DEF PressCommand, Refused, Next, User
  <2>4. ASSUME NEW op \in Queries \cup {"state"}, PressCommand(op, 0) PROVE [Next]_vars
    BY <1>1, <2>4 DEF PressCommand, Refused, Next, User
  <2>5. CASE PressDisconnect \/ ReplaceInput \/ EditField \/ Unmount
    BY <1>1, <2>5 DEF PressDisconnect, ReplaceInput, EditField, Unmount, Next, User
  <2> QED BY <1>1, <2>1, <2>2, <2>3, <2>4, <2>5 DEF Panel
<1>2. ASSUME NEW g \in Gens, ClientStep(g) PROVE Next
  BY <1>2 DEF ClientStep, Next, Microtask
<1>3. ASSUME NEW g \in Gens, PerformEnds(g) PROVE UNCHANGED vars
  BY <1>3 DEF PerformEnds
<1>4. ASSUME NEW g \in Gens, ClientTask(g) PROVE Next
  BY <1>4 DEF ClientTask, Next
<1>5. CASE BridgeStep
  BY <1>5 DEF BridgeStep, Next
<1>6. CASE UNCHANGED panelVars
  BY <1>6 DEF panelVars
<1> QED BY <1>1, <1>2, <1>3, <1>4, <1>5, <1>6 DEF PanelNext, PanelMicrotask, PanelQuiet

\* A panel uses its client as PhysicalCpuSession says, so its promises hold.
THEOREM PanelUsesClient == PanelSpec => Spec
<1>1. PanelInit => Init
  BY DEF PanelInit
<1> QED BY <1>1, PanelSteps, PTL DEF PanelSpec, Spec

\* What the steps of the panel start from.
PanelBase == ReplyBase /\ PanelInv

\* epoch.current++ leaves no activation current.
LEMMA SupersededEffect ==
  ASSUME handlers \in [Gens -> Handlers]
  PROVE  /\ Superseded \in [Gens -> Handlers]
         /\ \A h \in Gens : ~Superseded[h].current
<1>1. \A h \in Gens : Superseded[h] = [handlers[h] EXCEPT !.current = FALSE]
  BY DEF Superseded
<1>2. \A h \in Gens : Superseded[h] \in Handlers /\ ~Superseded[h].current
  BY <1>1 DEF Handlers
<1> QED BY <1>2 DEF Superseded

\* An activation of perform that called the client is the only current one.
LEMMA AwaitKeeps ==
  ASSUME PanelBase, generation + 1 \in Gens, Await, pending' = generation + 1
  PROVE  PanelInv'
<1> DEFINE new == [state |-> "waiting", current |-> TRUE, value |-> NoAnswer]
<1>0. handlers \in [Gens -> Handlers]
  BY DEF PanelBase, PanelInv, PanelTypeOK
<1>1. new \in Handlers /\ new.state = "waiting" /\ new.current
  BY ConstantTypes DEF Handlers
<1>2. handlers' = [Superseded EXCEPT ![generation + 1] = new]
  BY DEF Await
<1> HIDE DEF new
<1>3. /\ handlers' \in [Gens -> Handlers]
      /\ handlers'[generation + 1].state = "waiting" /\ handlers'[generation + 1].current
      /\ \A h \in Gens : h # generation + 1 => ~handlers'[h].current
  BY <1>0, <1>1, <1>2, SupersededEffect
<1>4. CurrentHandlers' = {generation + 1}
  BY <1>3 DEF CurrentHandlers
<1>5. reply' = NoAnswer /\ busy' = TRUE /\ UNCHANGED mounted
  BY DEF Await, ClearShown
<1>6. PanelTypeOK'
  BY <1>3, <1>5, ConstantTypes DEF PanelBase, PanelInv, PanelTypeOK
<1>7. OneWait' /\ ShownIsTold'
  BY <1>3, <1>4, <1>5 DEF OneWait, ShownIsTold
<1> QED BY <1>6, <1>7 DEF PanelInv

\* No activation is current, and nothing is pending.
LEMMA RestKeeps ==
  ASSUME PanelBase, handlers' = Superseded, reply' = NoAnswer, busy' = FALSE, UNCHANGED mounted,
         mounted => pending' = 0
  PROVE  PanelInv'
<1>1. CurrentHandlers' = {} /\ handlers' \in [Gens -> Handlers]
  BY SupersededEffect DEF CurrentHandlers, PanelBase, PanelInv, PanelTypeOK
<1>2. OneWait' /\ ShownIsTold'
  BY <1>1 DEF OneWait, ShownIsTold
<1> QED BY <1>1, <1>2, ConstantTypes DEF PanelInv, PanelBase, PanelTypeOK

\* The controls.
LEMMA PanelKeeps == PanelBase /\ mounted /\ Panel => PanelInv'
<1> SUFFICES ASSUME PanelBase, mounted, Panel PROVE PanelInv'
  OBVIOUS
<1>0. /\ \A k \in Nat : k < MaxGeneration => k + 1 \in Gens
      /\ generation \in Nat /\ (~busy => pending = 0)
      /\ PanelTypeOK
  BY PhysicalAssumption DEF PanelBase, ReplyBase, ClientInv, TypeOK, PanelInv, OneWait, Gens
<1>1. ASSUME NEW req, Exchange(req), Await PROVE PanelInv'
  BY <1>0, <1>1, AwaitKeeps DEF Exchange
<1>2. ASSUME ~busy, Refused PROVE PanelInv'
  BY <1>0, <1>2, RestKeeps DEF Refused, ClearShown, vars
<1>3. CASE PressConnect
  BY <1>1, <1>2, <1>3 DEF PressConnect, Connect
<1>4. ASSUME NEW op, NEW n, PressCommand(op, n) PROVE PanelInv'
  BY <1>1, <1>2, <1>4 DEF PressCommand, Command, enabled
<1>5. CASE PressDisconnect
  BY <1>1, <1>5 DEF PressDisconnect, Disconnect
<1>6. CASE ReplaceInput
  BY <1>6, RestKeeps DEF ReplaceInput, Invalidate, ClearShown
<1>7. CASE EditField
  <2>1. UNCHANGED <<vars, mounted, busy, handlers>> /\ reply' = NoAnswer
    BY <1>7 DEF EditField
  <2>2. CurrentHandlers' = CurrentHandlers
    BY <2>1 DEF CurrentHandlers
  <2>3. PanelTypeOK' /\ OneWait'
    BY <1>0, <2>1, <2>2, ConstantTypes DEF PanelBase, PanelInv, PanelTypeOK, OneWait, vars
  <2>4. ShownIsTold'
    BY <2>1, <2>2 DEF PanelBase, PanelInv, ShownIsTold, Told, vars
  <2> QED BY <2>3, <2>4 DEF PanelInv
<1>8. CASE Unmount
  <2>1. CurrentHandlers' = {} /\ handlers' \in [Gens -> Handlers] /\ ~mounted'
    BY <1>0, <1>8, SupersededEffect DEF Unmount, CurrentHandlers, PanelTypeOK
  <2>2. PanelTypeOK'
    BY <1>0, <1>8, <2>1 DEF Unmount, PanelTypeOK
  <2> QED BY <2>1, <2>2 DEF PanelInv, OneWait, ShownIsTold
<1> QED BY <1>3, <1>4, <1>5, <1>6, <1>7, <1>8 DEF Panel

\* What becomes of the activation that awaits an exchange.
LEMMA SettleEffect ==
  ASSUME handlers \in [Gens -> Handlers], NEW g \in Gens, NEW value \in Answers,
         NEW state \in {"resolved", "rejected"}, Settle(g, state, value)
  PROVE  /\ handlers' \in [Gens -> Handlers]
         /\ \A h \in Gens : h # g \/ handlers[h].state # "waiting" => handlers'[h] = handlers[h]
         /\ handlers'[g].current = handlers[g].current
         /\ handlers[g].state = "waiting" => handlers'[g].state = state /\ handlers'[g].value = value
<1>1. handlers[g] \in Handlers
  OBVIOUS
<1>2. [handlers[g] EXCEPT !.state = state, !.value = value] \in Handlers
  BY <1>1 DEF Handlers
<1>3. handlers' = [handlers EXCEPT ![g] =
        IF handlers[g].state = "waiting" THEN [handlers[g] EXCEPT !.state = state, !.value = value]
        ELSE handlers[g]]
  BY DEF Settle
<1>4. CASE handlers[g].state = "waiting"
  <2> DEFINE r == [handlers[g] EXCEPT !.state = state, !.value = value]
  <2>1. handlers' = [handlers EXCEPT ![g] = r]
    BY <1>3, <1>4
  <2>2. r \in Handlers /\ r.state = state /\ r.value = value /\ r.current = handlers[g].current
    BY <1>1, <1>2 DEF Handlers
  <2> HIDE DEF r
  <2>3. /\ handlers' \in [Gens -> Handlers] /\ handlers'[g] = r
        /\ \A h \in Gens : h # g => handlers'[h] = handlers[h]
    BY <2>1, <2>2
  <2> QED BY <1>4, <2>2, <2>3
<1>5. CASE handlers[g].state # "waiting"
  <2>1. handlers' = [handlers EXCEPT ![g] = handlers[g]]
    BY <1>3, <1>5
  <2>2. handlers' = handlers
    BY <2>1
  <2> QED BY <1>5, <2>2
<1> QED BY <1>4, <1>5

\* An exchange ends, and with it the method that awaits it.
LEMMA EndKeeps ==
  ASSUME PanelBase, NEW g \in Gens, NEW value \in Answers, NEW state \in {"resolved", "rejected"},
         Settle(g, state, value), UNCHANGED <<mounted, busy, reply>>,
         pending' \in {0, pending}, pending' # g,
         UNCHANGED <<conn, protocols, live>> \/ ~live,
         state = "resolved" /\ value # NoAnswer => live' /\ UNCHANGED <<conn, protocols>> /\ Told(value)
  PROVE  PanelInv'
<1>1. /\ handlers' \in [Gens -> Handlers]
      /\ \A h \in Gens : h # g \/ handlers[h].state # "waiting" => handlers'[h] = handlers[h]
      /\ handlers'[g].current = handlers[g].current
      /\ handlers[g].state = "waiting" => handlers'[g].state = state /\ handlers'[g].value = value
  BY SettleEffect DEF PanelBase, PanelInv, PanelTypeOK
<1>2. CurrentHandlers' = CurrentHandlers
  BY <1>1 DEF CurrentHandlers
<1>3. PanelTypeOK'
  BY <1>1 DEF PanelBase, PanelInv, PanelTypeOK
<1>4. OneWait'
  <2>1. mounted /\ pending' # 0 => pending' \in CurrentHandlers /\ handlers'[pending'].state = "waiting"
    BY <1>1 DEF PanelBase, PanelInv, OneWait, CurrentHandlers
  <2> QED BY <1>2, <2>1 DEF PanelBase, PanelInv, OneWait
<1>5. ASSUME NEW h \in CurrentHandlers, handlers'[h].state = "resolved", handlers'[h].value # NoAnswer
      PROVE  live' /\ Told(handlers[h].value)'
  <2>1. CASE handlers[h].state = "resolved"
    <3>1. handlers'[h] = handlers[h] /\ live /\ Told(handlers[h].value)
      BY <1>1, <1>5, <2>1 DEF CurrentHandlers, PanelBase, PanelInv, ShownIsTold
    <3> QED BY <3>1 DEF Told
  <2>2. CASE handlers[h].state # "resolved"
    <3>1. state = "resolved" /\ handlers'[h].value = value
      BY <1>1, <1>5, <2>2 DEF CurrentHandlers
    <3>2. live' /\ UNCHANGED <<conn, protocols>> /\ Told(value)
      BY <1>5, <3>1
    <3> QED BY <3>1, <3>2 DEF Told
  <2> QED BY <2>1, <2>2
<1>6. mounted' /\ reply' # NoAnswer => live' /\ ~busy' /\ Told(reply)'
  BY DEF PanelBase, PanelInv, ShownIsTold, Told
<1>7. ShownIsTold'
  BY <1>2, <1>5, <1>6 DEF ShownIsTold
<1> QED BY <1>3, <1>4, <1>7 DEF PanelInv

\* The rest of perform: only the current activation shows what it has.
LEMMA PerformKeeps ==
  ASSUME PanelBase, NEW g \in Gens, PerformEnds(g)
  PROVE  PanelInv'
<1>0. /\ handlers \in [Gens -> Handlers] /\ handlers[g] \in Handlers /\ PanelTypeOK
      /\ NoHandler \in Handlers /\ NoHandler.state = "none"
  BY ConstantTypes DEF PanelBase, PanelInv, PanelTypeOK, NoHandler, Handlers
<1>1. /\ handlers[g].state \in {"resolved", "rejected"}
      /\ reply' = IF handlers[g].current /\ handlers[g].state = "resolved" THEN handlers[g].value ELSE reply
      /\ busy' = IF handlers[g].current THEN FALSE ELSE busy
      /\ handlers' = [handlers EXCEPT ![g] = NoHandler]
      /\ UNCHANGED vars /\ UNCHANGED mounted
  BY DEF PerformEnds
<1>2. /\ handlers' \in [Gens -> Handlers] /\ handlers'[g].state = "none"
      /\ \A h \in Gens : h # g => handlers'[h] = handlers[h]
  BY <1>0, <1>1
<1>3. PanelTypeOK'
  BY <1>0, <1>1, <1>2 DEF PanelTypeOK, Handlers
<1>4. CurrentHandlers' = CurrentHandlers \ {g}
  BY <1>2 DEF CurrentHandlers
<1>5. CASE handlers[g].current
  <2>1. g \in CurrentHandlers
    BY <1>1, <1>5 DEF CurrentHandlers
  <2>2. mounted => CurrentHandlers = {g} /\ pending = 0
    BY <1>1, <2>1 DEF PanelBase, PanelInv, OneWait
  <2>3. OneWait'
    BY <1>1, <1>4, <1>5, <2>2 DEF OneWait, vars
  <2>4. mounted /\ reply' # NoAnswer => live /\ Told(reply')
    BY <1>1, <1>5, <2>1 DEF PanelBase, PanelInv, ShownIsTold
  <2>5. \A h \in CurrentHandlers \ {g} : handlers'[h] = handlers[h]
    BY <1>2 DEF CurrentHandlers
  <2>6. ShownIsTold'
    BY <1>1, <1>4, <1>5, <2>4, <2>5 DEF PanelBase, PanelInv, ShownIsTold, Told, vars
  <2> QED BY <1>3, <2>3, <2>6 DEF PanelInv
<1>6. CASE ~handlers[g].current
  <2>1. reply' = reply /\ busy' = busy /\ CurrentHandlers' = CurrentHandlers
        /\ \A h \in CurrentHandlers : handlers'[h] = handlers[h]
    BY <1>1, <1>2, <1>4, <1>6 DEF CurrentHandlers
  <2>2. OneWait'
    <3>1. pending' \in CurrentHandlers => handlers'[pending'] = handlers[pending']
      BY <2>1
    <3>2. mounted' = mounted /\ pending' = pending
      BY <1>1 DEF vars
    <3>3. mounted => /\ busy' <=> CurrentHandlers' # {}
                     /\ \A x, y \in CurrentHandlers' : x = y
      BY <2>1 DEF PanelBase, PanelInv, OneWait
    <3>4. mounted /\ pending' # 0 => pending' \in CurrentHandlers' /\ handlers'[pending'].state = "waiting"
      BY <2>1, <3>1, <3>2 DEF PanelBase, PanelInv, OneWait
    <3> QED BY <3>2, <3>3, <3>4 DEF OneWait
  <2>3. ShownIsTold'
    BY <1>1, <2>1 DEF PanelBase, PanelInv, ShownIsTold, Told, vars
  <2> QED BY <1>3, <2>2, <2>3 DEF PanelInv
<1> QED BY <1>5, <1>6

\* The panel is left alone, and so is what it shows.
LEMMA SameKeeps ==
  ASSUME PanelBase, UNCHANGED <<mounted, busy, reply, handlers, conn, live, pending>>,
         live => protocols'[conn] = protocols[conn]
  PROVE  PanelInv'
<1>1. CurrentHandlers' = CurrentHandlers
  BY DEF CurrentHandlers
<1>2. PanelTypeOK' /\ OneWait'
  BY <1>1 DEF PanelBase, PanelInv, PanelTypeOK, OneWait
<1>3. ShownIsTold'
  BY <1>1 DEF PanelBase, PanelInv, ShownIsTold, Told
<1> QED BY <1>2, <1>3 DEF PanelInv

\* No step of the panel or of its client breaks what the panel knows of it.
LEMMA PanelInductive == ClientInv /\ ReplyInv /\ PanelInv /\ [PanelNext]_panelVars => PanelInv'
<1> SUFFICES ASSUME PanelBase, [PanelNext]_panelVars PROVE PanelInv'
  BY DEF PanelBase, ReplyBase
<1>0. TypeOK /\ Shape /\ Order /\ ReplyInv /\ NoAnswer \in Answers
  BY ConstantTypes DEF PanelBase, ReplyBase, ClientInv, Shape, Order
<1>1. ASSUME NEW g \in Gens, calls[g].stage # "idle", NEW closed, Fail(g, closed),
             Settle(g, "rejected", NoAnswer), UNCHANGED <<mounted, busy, reply>>
      PROVE  PanelInv'
  <2>1. pending' \in {0, pending} /\ pending' # g
    BY <1>1, PhysicalAssumption DEF Fail, Gens
  <2>2. UNCHANGED <<conn, protocols, live>> \/ ~live
    BY <1>0, <1>1 DEF Fail, ReplyInv, LiveIsIdle
  <2> QED BY <1>0, <1>1, <2>1, <2>2, EndKeeps
<1>2. ASSUME NEW g \in Gens, Finish(g), Settle(g, "resolved", Observation(g)),
             UNCHANGED <<mounted, busy, reply>>
      PROVE  PanelInv'
  <2>1. /\ Alive(g) /\ calls[g].stage = "accepted" /\ calls[g] \in Calls
        /\ UNCHANGED protocols /\ pending' = IF pending = g THEN 0 ELSE pending
    BY <1>0, <1>2 DEF Finish, Current, Alive, TypeOK
  <2>2. pending = g /\ ~live
    BY <1>0, <2>1, PendingIsGeneration
  <2>3. Observation(g) \in Answers
    BY <1>0, <2>1 DEF Observation, Calls
  <2>4. pending' = 0 /\ pending' # g
    BY <2>1, <2>2, PhysicalAssumption DEF Gens
  <2>5. Observation(g) # NoAnswer => live' /\ UNCHANGED <<conn, protocols>> /\ Told(Observation(g))
    <3>1. calls[g].req.kind # "disconnect" => calls[g].req.kind \in Talk
      BY <1>0, <2>1 DEF Shape, CallsAreAddressed, Calls, Requests, Talk
    <3>2. calls[g].req.kind # "disconnect" => live' /\ UNCHANGED <<conn, protocols>>
      BY <1>2 DEF Finish
    <3>3. calls[g].req.kind # "disconnect" => Told(calls[g].answer)
      BY <1>0, <2>1, <3>1 DEF ReplyInv, AcceptedIsTold
    <3> QED BY <3>2, <3>3 DEF Observation
  <2> QED BY <1>2, <2>2, <2>3, <2>4, <2>5, EndKeeps
<1>3. ASSUME NEW g \in Gens, ClientStep(g) PROVE PanelInv'
  BY <1>1, <1>2, <1>3 DEF ClientStep, Unwind, FinishLate
<1>4. ASSUME NEW g \in Gens, ClientTask(g) PROVE PanelInv'
  <2>1. CASE DeliverFailure(g) /\ Settle(g, "rejected", NoAnswer)
    <3>1. PICK a : Fail(g, a.tag = "error_closed")
      BY <2>1 DEF DeliverFailure
    <3>2. calls[g].stage # "idle"
      BY <2>1 DEF DeliverFailure
    <3> QED BY <1>1, <1>4, <2>1, <3>1, <3>2 DEF ClientTask
  <2>2. CASE (Timeout(g) \/ Deliver(g) \/ Hashed(g)) /\ UNCHANGED handlers
    <3>1. UNCHANGED <<mounted, busy, reply, handlers, conn, live, pending>>
      BY <1>4, <2>2 DEF ClientTask, Timeout, Deliver, Hashed
    <3>2. live => protocols'[conn] = protocols[conn]
      <4>1. CASE Timeout(g)
        BY <4>1 DEF Timeout
      <4>2. CASE Deliver(g)
        BY <1>0, <4>2 DEF Deliver, ReplyInv, LiveIsIdle
      <4>3. CASE Hashed(g)
        <5> SUFFICES ASSUME live PROVE protocols'[conn] = protocols[conn]
          OBVIOUS
        <5>1. Trusted /\ conn \in Conns /\ ~Alive(g)
          BY <1>0, PendingIsGeneration DEF Trusted
        <5>2. calls[g].req.conn # conn
          BY <4>3, <5>1 DEF PanelBase, ReplyBase, ClientInv, OneOnTheWay, Hashed
        <5> QED BY <1>0, <4>3, <5>1, <5>2 DEF Hashed, TypeOK
      <4> QED BY <2>2, <4>1, <4>2, <4>3
    <3> QED BY <3>1, <3>2, SameKeeps
  <2> QED BY <1>4, <2>1, <2>2 DEF ClientTask
<1>5. CASE BridgeStep /\ UNCHANGED panel
  <2>1. UNCHANGED <<conn, live, pending, protocols>>
    <3>1. ASSUME NEW g, NEW b, Answer(g, b) PROVE UNCHANGED <<conn, live, pending, protocols>>
      BY <3>1 DEF Answer
    <3>2. ASSUME NEW g, ServeConnect(g) PROVE \E b : Answer(g, b)
      BY <3>2 DEF ServeConnect
    <3>3. ASSUME NEW g, NEW ok, NEW at, NEW captured, NEW more, Serve(g, ok, at, captured, more)
          PROVE  \E b : Answer(g, b)
      BY <3>3 DEF Serve
    <3>4. ASSUME NEW g, ServeCommand(g) PROVE \E b : Answer(g, b)
      BY <3>3, <3>4, Zenon DEF ServeCommand
    <3>5. ASSUME NEW g, ServeDisconnect(g) PROVE \E b : Answer(g, b)
      BY <3>5 DEF ServeDisconnect
    <3> QED BY <1>5, <3>1, <3>2, <3>4, <3>5, Zenon DEF BridgeStep
  <2> QED BY <1>5, <2>1, SameKeeps DEF panel
<1>6. CASE UNCHANGED panelVars
  BY <1>6, SameKeeps DEF panelVars, panel, vars
<1> QED BY <1>3, <1>4, <1>5, <1>6, PanelKeeps, PerformKeeps DEF PanelNext, PanelMicrotask

LEMMA PanelInitial == PanelInit => PanelInv
<1> SUFFICES ASSUME PanelInit PROVE PanelInv
  OBVIOUS
<1>1. handlers = [g \in Gens |-> NoHandler] /\ mounted /\ ~busy /\ reply = NoAnswer /\ pending = 0
  BY DEF PanelInit, Init
<1>2. NoHandler \in Handlers /\ NoHandler.state = "none"
  BY ConstantTypes DEF NoHandler, Handlers
<1>3. CurrentHandlers = {}
  BY <1>1, <1>2 DEF CurrentHandlers
<1>4. PanelTypeOK
  BY <1>1, <1>2, ConstantTypes DEF PanelInit, PanelTypeOK
<1> QED BY <1>1, <1>3, <1>4 DEF PanelInv, OneWait, ShownIsTold

\* What the panel knows of its client: the types of its state, which activation of
\* perform waits for what, and that what is shown is what the client was told.
THEOREM PanelInvariant == PanelSpec => [](ClientInv /\ ReplyInv /\ PanelInv)
<1>1. PanelSpec => []ClientInv /\ []ReplyInv
  BY ClientInvariant, ReplyInvariant, PanelUsesClient, PTL
<1>2. PanelSpec => PanelInv /\ [][PanelNext]_panelVars
  BY PanelInitial DEF PanelSpec
<1> QED BY <1>1, <1>2, PanelInductive, PTL

\* BusyIsAwaiting: the panel is busy exactly while the one activation of perform
\* that was not superseded awaits the client, and awaits what may still succeed.
THEOREM BusyAlwaysAwaits == PanelSpec => []BusyIsAwaiting
<1>1. PanelInv => BusyIsAwaiting
  <2> SUFFICES ASSUME PanelInv PROVE BusyIsAwaiting
    OBVIOUS
  <2> QED BY DEF PanelInv, OneWait, BusyIsAwaiting
<1> QED BY <1>1, PanelInvariant, PTL

\* ShownIsCurrent: the observation on the page answers the last request of the
\* present connection and is where the client and, while it keeps the session,
\* the bridge are.
THEOREM ShownIsAlwaysCurrent == PanelSpec => []ShownIsCurrent
<1>1. ClientInv /\ PanelInv => ShownIsCurrent
  <2> SUFFICES ASSUME ClientInv, PanelInv, mounted, reply # NoAnswer
               PROVE  LET p == protocols[conn] IN
                      /\ ready /\ ~busy
                      /\ reply.conn = conn /\ reply.id = p.sent /\ reply.at = p.at
                      /\ bridge.conn = conn => bridge.at = reply.at /\ bridge.served = reply.id
                      /\ p.next # NoStamp <=> reply.more
    BY DEF ShownIsCurrent
  <2>1. live /\ ~busy /\ Told(reply)
    BY DEF PanelInv, ShownIsTold
  <2>2. ready
    BY <2>1 DEF ClientInv, CallsAreAddressed, ready
  <2>3. Agreed(protocols[conn])
    BY <2>1 DEF ClientInv, ProtocolAgrees
  <2> QED BY <2>1, <2>2, <2>3 DEF Told, Agreed
<1> QED BY <1>1, PanelInvariant, PTL

(***************************************************************************)
(* What an activation of perform waits for is under way or due.             *)
(***************************************************************************)
\* No activation of perform, superseded or not, waits for an exchange that is
\* over: one on the wire has its timer armed, the others a digest or an end due.
WaitIsServed == \A g \in Gens : handlers[g].state = "waiting" => calls[g].stage # "idle"

\* A step that ends no exchange leaves what is waited for.
LEMMA WaitStays ==
  ASSUME WaitIsServed,
         \A g \in Gens : handlers'[g].state = "waiting" =>
           handlers[g].state = "waiting" \/ calls'[g].stage # "idle",
         \A g \in Gens : calls[g].stage # "idle" => calls'[g].stage # "idle"
  PROVE  WaitIsServed'
BY DEF WaitIsServed

\* The exchange that a control starts is under way, and ends no other.
LEMMA StartsUnderWay ==
  ASSUME TypeOK, NEW req, Exchange(req), NEW cs \in {calls, Aborted(calls, pending)}, calls' = Starting(cs, req)
  PROVE  /\ generation + 1 \in Gens /\ calls'[generation + 1].stage # "idle"
         /\ \A h \in Gens : calls[h].stage # "idle" => calls'[h].stage # "idle"
<1> DEFINE new == [stage |-> "wire", req |-> req, answer |-> NoAnswer, aborted |-> FALSE]
<1>1. generation + 1 \in Gens
  BY PhysicalAssumption DEF TypeOK, Exchange, Gens
<1>2. cs \in [Gens -> Calls] /\ \A h \in Gens : calls[h].stage # "idle" => cs[h].stage # "idle"
  BY AbortedType DEF TypeOK
<1>3. calls' = [cs EXCEPT ![generation + 1] = new]
  BY DEF Starting
<1>4. new.stage = "wire"
  OBVIOUS
<1> HIDE DEF new
<1> QED BY <1>1, <1>2, <1>3, <1>4

\* The controls wait only for what they start.
LEMMA ControlWaits == PanelBase /\ WaitIsServed /\ Panel => WaitIsServed'
<1> SUFFICES ASSUME PanelBase, WaitIsServed, Panel PROVE WaitIsServed'
  OBVIOUS
<1>0. TypeOK /\ handlers \in [Gens -> Handlers]
  BY DEF PanelBase, ReplyBase, ClientInv, PanelInv, PanelTypeOK
<1>1. \A h \in Gens : Superseded[h].state = handlers[h].state
  <2>1. \A h \in Gens : Superseded[h] = [handlers[h] EXCEPT !.current = FALSE]
    BY DEF Superseded
  <2> QED BY <1>0, <2>1 DEF Handlers
<1>2. ASSUME handlers' = Superseded \/ UNCHANGED handlers,
             \A h \in Gens : calls[h].stage # "idle" => calls'[h].stage # "idle"
      PROVE  WaitIsServed'
  BY <1>1, <1>2, WaitStays
<1>3. ASSUME NEW req, Exchange(req), NEW cs \in {calls, Aborted(calls, pending)}, calls' = Starting(cs, req), Await
      PROVE  WaitIsServed'
  <2>1. \A h \in Gens : h # generation + 1 => handlers'[h] = Superseded[h]
    BY <1>0, <1>3, SupersededEffect DEF Await
  <2> QED BY <1>0, <1>1, <1>3, <2>1, StartsUnderWay, WaitStays
<1>4. ASSUME Refused PROVE WaitIsServed'
  BY <1>2, <1>4 DEF Refused, vars
<1>5. CASE PressConnect
  BY <1>3, <1>4, <1>5 DEF PressConnect, Connect
<1>6. ASSUME NEW op, NEW n, PressCommand(op, n) PROVE WaitIsServed'
  BY <1>3, <1>4, <1>6 DEF PressCommand, Command
<1>7. CASE PressDisconnect
  BY <1>3, <1>7 DEF PressDisconnect, Disconnect
<1>8. Invalidate \/ Disconnect => \A h \in Gens : calls[h].stage # "idle" => calls'[h].stage # "idle"
  <2>1. CASE Invalidate
    BY <1>0, <2>1, AbortedType DEF Invalidate, TypeOK
  <2>2. CASE Disconnect
    BY <1>0, <2>2, StartsUnderWay DEF Disconnect
  <2> QED BY <2>1, <2>2
<1>9. CASE ReplaceInput \/ EditField \/ Unmount
  BY <1>2, <1>8, <1>9 DEF ReplaceInput, EditField, Unmount, vars
<1> QED BY <1>5, <1>6, <1>7, <1>9 DEF Panel

\* No step of the panel or of its client takes from an activation what it waits for.
LEMMA WaitInductive == PanelBase /\ WaitIsServed /\ [PanelNext]_panelVars => WaitIsServed'
<1> SUFFICES ASSUME PanelBase, WaitIsServed, [PanelNext]_panelVars PROVE WaitIsServed'
  OBVIOUS
<1>0. TypeOK /\ handlers \in [Gens -> Handlers]
  BY DEF PanelBase, ReplyBase, ClientInv, PanelInv, PanelTypeOK
<1>1. ASSUME NEW g \in Gens, calls' = [calls EXCEPT ![g] = NoCall],
             NEW state \in {"resolved", "rejected"}, NEW value, Settle(g, state, value)
      PROVE  WaitIsServed'
  <2>1. handlers'[g].state # "waiting" /\ \A h \in Gens : h # g => handlers'[h] = handlers[h]
    BY <1>0, <1>1 DEF Settle, Handlers
  <2>2. \A h \in Gens : h # g => calls'[h] = calls[h]
    BY <1>0, <1>1 DEF TypeOK
  <2> QED BY <2>1, <2>2 DEF WaitIsServed
<1>2. ASSUME NEW g \in Gens, ClientStep(g) PROVE WaitIsServed'
  BY <1>1, <1>2 DEF ClientStep, Finish, Unwind, FinishLate, Fail
<1>3. ASSUME NEW g \in Gens, PerformEnds(g) PROVE WaitIsServed'
  <2>1. UNCHANGED calls /\ \A h \in Gens : handlers'[h].state = "waiting" => handlers[h].state = "waiting"
    BY <1>0, <1>3 DEF PerformEnds, NoHandler, vars
  <2> QED BY <2>1, WaitStays
<1>4. ASSUME NEW g \in Gens, ClientTask(g) PROVE WaitIsServed'
  <2>1. CASE DeliverFailure(g) /\ Settle(g, "rejected", NoAnswer)
    BY <1>1, <2>1 DEF DeliverFailure, Fail
  <2>2. CASE (Timeout(g) \/ Deliver(g) \/ Hashed(g)) /\ UNCHANGED handlers
    <3>1. \A h \in Gens : calls[h].stage # "idle" => calls'[h].stage # "idle"
      <4>1. CASE Timeout(g)
        BY <1>0, <4>1, AbortedType DEF Timeout, TypeOK
      <4>2. CASE Deliver(g) \/ Hashed(g)
        <5>1. calls[g].stage # "idle" => calls'[g].stage # "idle"
          BY <1>0, <4>2 DEF Deliver, Hashed, TypeOK, Calls
        <5>2. \A h \in Gens : h # g => calls'[h] = calls[h]
          BY <1>0, <4>2 DEF Deliver, Hashed, TypeOK
        <5> QED BY <5>1, <5>2
      <4> QED BY <2>2, <4>1, <4>2
    <3> QED BY <2>2, <3>1, WaitStays
  <2> QED BY <1>4, <2>1, <2>2 DEF ClientTask
<1>5. ASSUME BridgeStep, UNCHANGED panel PROVE WaitIsServed'
  <2>1. ASSUME NEW g, NEW a, Answer(g, a) PROVE \A h \in Gens : calls'[h].stage = calls[h].stage
    BY <1>0, <2>1 DEF Answer, TypeOK, Calls
  <2>2. \E g, a : Answer(g, a)
    <3>1. ASSUME NEW g, ServeCommand(g) PROVE \E a : Answer(g, a)
      <4>1. (\E ok, at, captured, more : Serve(g, ok, at, captured, more)) \/ \E a : Answer(g, a)
        BY <3>1 DEF ServeCommand
      <4> QED BY <4>1 DEF Serve
    <3>2. ASSUME NEW g, ServeConnect(g) \/ ServeDisconnect(g) PROVE \E a : Answer(g, a)
      BY <3>2 DEF ServeConnect, ServeDisconnect
    <3> QED BY <1>5, <3>1, <3>2 DEF BridgeStep
  <2> QED BY <1>5, <2>1, <2>2, WaitStays DEF panel
<1>6. ASSUME UNCHANGED panelVars PROVE WaitIsServed'
  BY <1>6 DEF panelVars, vars, panel, WaitIsServed
<1> QED BY <1>2, <1>3, <1>4, <1>5, <1>6, ControlWaits DEF PanelNext, PanelMicrotask

\* What the finally block of perform rests on: whatever an activation waits for,
\* however often it was superseded, is an exchange under way or due to end.
THEOREM WaitIsAlwaysServed == PanelSpec => []WaitIsServed
<1>1. PanelInit => WaitIsServed
  BY DEF PanelInit, WaitIsServed, NoHandler
<1>2. ClientInv /\ ReplyInv /\ PanelInv /\ (ClientInv /\ ReplyInv /\ PanelInv)' /\ WaitIsServed /\ [PanelNext]_panelVars
        => WaitIsServed'
  BY WaitInductive DEF PanelBase, ReplyBase
<1> QED BY <1>1, <1>2, PanelInvariant, PTL DEF PanelSpec

=============================================================================
