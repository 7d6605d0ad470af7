--------------------------- MODULE PhysicalCpuSession ---------------------------
(***************************************************************************)
(* The V20 client of src/lib/physical-cpu-v20-session.ts with its protocol  *)
(* object of physical-cpu-v20-protocol.ts, against a bridge that navigates  *)
(* a recording: events 1..End-1 between the sentinels 0 and End.            *)
(*                                                                         *)
(* Unlike CpuDebugSession it admits a reply while the exchange is still     *)
(* pending: accept changes the protocol object first, for a page of values  *)
(* only after a digest was awaited, and the exchange is checked for being   *)
(* current afterwards.  An exchange and its promise are named by            *)
(* this.generation, a protocol object by its connection.  Calls of the      *)
(* client come from event handlers, so none starts while a continuation is  *)
(* due.                                                                     *)
(***************************************************************************)
EXTENDS Naturals

CONSTANTS
  MaxCommands,     \* PHYSICAL_LIVE_LIMITS_V20.commands: 255 in the code
  MaxEvents,       \* events of a recording: 8192 in the code
  End,             \* the event after the last one recorded
  Counts,          \* how far one step goes: 1..64 in the code
  MaxConnections,  \* bound: connections the user opens
  MaxGeneration    \* bound: increments of this.generation

ASSUME PhysicalAssumption ==
  /\ MaxCommands \in Nat \ {0}
  /\ MaxEvents \in Nat /\ End \in 1..MaxEvents + 1
  /\ Counts \subseteq Nat \ {0}
  /\ MaxConnections \in Nat
  /\ MaxGeneration \in Nat

Gens  == 1..MaxGeneration
Conns == 1..MaxConnections

Moves   == {"step", "reverse", "seek"}
Queries == {"values", "next", "memory"}
Ops     == Moves \cup Queries \cup {"state"}

\* What an observation is of: a revision of the session and its event.
Stamps  == [rev : 0..MaxCommands, event : 0..End]
NoStamp == [rev |-> 0, event |-> 0]

\* n is a step's count or a seek's event, page the continuation a page asks for.
Requests == [kind : {"connect", "command", "disconnect", "none"}, conn : 0..MaxConnections,
             id : 0..MaxCommands, at : Stamps, op : Ops \cup {"discover", "none"},
             n : Nat, page : Stamps]
NoRequest == [kind |-> "none", conn |-> 0, id |-> 0, at |-> NoStamp, op |-> "none",
              n |-> 0, page |-> NoStamp]

Tags == {"none", "view", "disconnected", "error", "error_closed", "unusable"}
Answers == [tag : Tags, conn : 0..MaxConnections, id : 0..MaxCommands,
            op : Ops \cup {"discover", "none"}, ok : BOOLEAN, at : Stamps,
            captured : BOOLEAN, completed : BOOLEAN, more : BOOLEAN, advanced : 0..End]
Note(t, c) == [tag |-> t, conn |-> c, id |-> 0, op |-> "none", ok |-> FALSE, at |-> NoStamp,
               captured |-> FALSE, completed |-> FALSE, more |-> FALSE, advanced |-> 0]
NoAnswer == Note("none", 0)

Calls == [stage : {"idle", "wire", "aborted", "reading", "accepted"}, req : Requests,
          answer : Answers, aborted : BOOLEAN]
NoCall == [stage |-> "idle", req |-> NoRequest, answer |-> NoAnswer, aborted |-> FALSE]

Protocols == [known : BOOLEAN, at : Stamps, sent : 0..MaxCommands, pending : 0..MaxCommands,
              selected : Stamps, next : Stamps, end : 0..End, highest : 0..End]
NewProtocol == [known |-> FALSE, at |-> NoStamp, sent |-> 0, pending |-> 0,
                selected |-> NoStamp, next |-> NoStamp, end |-> 0, highest |-> 0]

VARIABLES
  conn,        \* this.connection: its nonce, 0 for null
  live,        \* this.connection.ready
  generation,  \* this.generation
  pending,     \* this.pending, 0 for null
  protocols,   \* the protocol object made for each connection
  calls,       \* activations of exchange
  opened,      \* nonces drawn so far
  wire,        \* requests the bridge has not served yet
  bridge       \* the bridge: its session, requests served, position and last reply

vars == <<conn, live, generation, pending, protocols, calls, opened, wire, bridge>>

\* Every variable keeps its type: in particular no request is prepared past the
\* limit of PhysicalProtocolV20.
TypeOK ==
  /\ conn \in 0..MaxConnections
  /\ live \in BOOLEAN
  /\ generation \in 0..MaxGeneration
  /\ pending \in 0..MaxGeneration
  /\ protocols \in [Conns -> Protocols]
  /\ calls \in [Gens -> Calls]
  /\ opened \in 0..MaxConnections
  /\ wire \in [Gens -> Requests]
  /\ bridge \in [conn : 0..MaxConnections, served : 0..MaxCommands, at : Stamps, echo : Answers]

Init ==
  /\ conn = 0 /\ live = FALSE /\ generation = 0 /\ pending = 0
  /\ protocols = [c \in Conns |-> NewProtocol]
  /\ calls = [g \in Gens |-> NoCall]
  /\ opened = 0
  /\ wire = [g \in Gens |-> NoRequest]
  /\ bridge = [conn |-> 0, served |-> 0, at |-> NoStamp, echo |-> NoAnswer]

Lesser(a, b) == IF a < b THEN a ELSE b
Greater(a, b) == IF a < b THEN b ELSE a
Minus(a, b) == IF a < b THEN 0 ELSE a - b

ready == conn # 0 /\ live /\ pending = 0

\* No continuation is due.
Quiet == \A g \in Gens : calls[g].stage \notin {"aborted", "accepted"}

(***************************************************************************)
(* PhysicalProtocolV20.                                                     *)
(***************************************************************************)
Clear(p) == [p EXCEPT !.pending = 0, !.selected = NoStamp, !.next = NoStamp]

Preparable(p, op) ==
  /\ p.pending = 0 /\ p.sent < MaxCommands
  /\ op \in Queries => p.selected # NoStamp
  /\ op = "next" => p.next # NoStamp

\* Faulty variant: keeping the continuation of a page.
PreparedKeepingPage(p, op) ==
  [p EXCEPT !.pending = p.sent + 1, !.sent = p.sent + 1,
            !.selected = IF op \in Moves \cup {"state"} THEN NoStamp ELSE @]

\* Faulty variant: not counting the request.
PreparedKeepingCount(p, op) ==
  [p EXCEPT !.pending = p.sent + 1, !.next = NoStamp,
            !.selected = IF op \in Moves \cup {"state"} THEN NoStamp ELSE @]

Prepared(p, op) ==
  [p EXCEPT !.pending = p.sent + 1, !.sent = p.sent + 1, !.next = NoStamp,
            !.selected = IF op \in Moves \cup {"state"} THEN NoStamp ELSE @]

\* The end as the reply leaves it: learned from the first completed stop.
EndAfter(p, a) == IF p.end = 0 /\ a.completed THEN a.at.event ELSE p.end

\* The events between two positions, of which a sentinel is none: recorded is the
\* number of the last event there is.
Distance(a, b) == Greater(a, b) - Lesser(a, b)
Advanced(from, to, recorded) == Distance(Lesser(from, recorded), Lesser(to, recorded))

\* Faulty variant: a step that never clamps.
ArrivesUnclamped(p, req, a) ==
  LET end == EndAfter(p, a) IN
  /\ a.at.rev = p.at.rev + 1
  /\ a.completed => a.at.event = end /\ (p.end = 0 => a.at.event > p.highest)
  /\ end # 0 /\ a.at.event = end => a.completed
  /\ a.at.event = CASE req.op = "seek"    -> req.n
                    [] req.op = "reverse" -> Minus(p.at.event, req.n)
                    [] OTHER              -> p.at.event + req.n
  /\ a.advanced = Advanced(p.at.event, a.at.event, IF end = 0 THEN MaxEvents ELSE end - 1)
  /\ a.captured => a.at.event # 0 /\ a.at.event # end

Arrives(p, req, a) ==
  LET end == EndAfter(p, a) IN
  /\ a.at.rev = p.at.rev + 1
  /\ a.completed => a.at.event = end /\ (p.end = 0 => a.at.event > p.highest)
  /\ end # 0 /\ a.at.event = end => a.completed
  /\ a.at.event = CASE req.op = "seek"    -> req.n
                    [] req.op = "reverse" -> Minus(p.at.event, req.n)
                    [] req.op = "step"    -> IF end = 0 THEN p.at.event + req.n
                                             ELSE Lesser(p.at.event + req.n, end)
  /\ a.advanced = Advanced(p.at.event, a.at.event, IF end = 0 THEN MaxEvents ELSE end - 1)
  /\ a.captured => a.at.event # 0 /\ a.at.event # end

\* The checks of observed and of accept on a reply to req.
Accepts(p, req, a) ==
  /\ a.tag = "view" /\ a.conn = req.conn
  /\ a.id = req.id /\ a.op = req.op
  /\ p.pending = req.id
  /\ IF ~p.known THEN a.ok /\ a.op = "discover" /\ a.at = NoStamp
     ELSE IF a.ok /\ a.op \in Moves THEN Arrives(p, req, a)
     ELSE a.at = p.at /\ (a.ok /\ a.op \in Queries => p.selected # NoStamp)

Pages == {"values", "next"}

\* The request is answered, and the position is the reply's.
Answered(p, a) == [p EXCEPT !.known = TRUE, !.at = a.at, !.pending = 0]

\* What accept leaves in the protocol object.
Accepted(p, a) ==
  LET q == Answered(p, a)
      end == EndAfter(p, a)
  IN IF ~p.known THEN q ELSE
     CASE ~a.ok -> Clear(q)
       [] a.ok /\ a.op \in Moves ->
            [q EXCEPT !.selected = IF a.captured THEN a.at ELSE NoStamp, !.end = end,
                      !.highest = Greater(@, IF a.at.event = end THEN 0 ELSE a.at.event)]
       [] a.ok /\ a.op = "state" -> [q EXCEPT !.selected = IF a.captured THEN a.at ELSE NoStamp]
       [] a.ok /\ a.op \in Pages -> [q EXCEPT !.next = IF a.more THEN a.at ELSE NoStamp]
       [] OTHER -> q

(***************************************************************************)
(* Calls of the client.                                                     *)
(***************************************************************************)
Exchange(req) ==
  LET g == generation + 1 IN
  /\ generation < MaxGeneration
  /\ generation' = g
  /\ pending' = g
  /\ wire' = [wire EXCEPT ![g] = req]

Starting(cs, req) ==
  [cs EXCEPT ![generation + 1] = [stage |-> "wire", req |-> req, answer |-> NoAnswer, aborted |-> FALSE]]

Connect ==
  LET c == opened + 1
      req == [NoRequest EXCEPT !.kind = "connect", !.conn = c, !.id = 1, !.op = "discover"]
  IN
  /\ conn = 0 /\ pending = 0
  /\ opened < MaxConnections /\ opened' = c
  /\ conn' = c
  /\ live' = FALSE
  /\ protocols' = [protocols EXCEPT ![c] = Prepared(NewProtocol, "discover")]
  /\ Exchange(req)
  /\ calls' = Starting(calls, req)
  /\ UNCHANGED bridge

Command(op, n) ==
  LET p == protocols[conn]
      req == [kind |-> "command", conn |-> conn, id |-> p.sent + 1, at |-> p.at, op |-> op,
              n |-> n, page |-> IF op = "next" THEN p.next ELSE NoStamp]
  IN
  /\ ready
  /\ Preparable(p, op)
  /\ live' = FALSE
  /\ protocols' = [protocols EXCEPT ![conn] = Prepared(p, op)]
  /\ Exchange(req)
  /\ calls' = Starting(calls, req)
  /\ UNCHANGED <<conn, opened, bridge>>

\* Aborting an exchange ends its wait for the response, not for a digest.
Aborted(cs, g) == [h \in Gens |->
  IF h # g \/ cs[h].stage = "idle" THEN cs[h]
  ELSE [cs[h] EXCEPT !.aborted = TRUE, !.stage = IF @ = "wire" THEN "aborted" ELSE @]]

Cleared == IF conn = 0 THEN protocols ELSE [protocols EXCEPT ![conn] = Clear(@)]

Invalidate ==
  /\ generation < MaxGeneration
  /\ generation' = generation + 1
  /\ pending' = 0
  /\ calls' = Aborted(calls, pending)
  /\ protocols' = Cleared
  /\ live' = FALSE
  /\ UNCHANGED <<conn, opened, wire, bridge>>

Disconnect ==
  LET req == [NoRequest EXCEPT !.kind = "disconnect", !.conn = conn] IN
  /\ conn # 0
  /\ Exchange(req)
  /\ calls' = Starting(Aborted(calls, pending), req)
  /\ protocols' = Cleared
  /\ live' = FALSE
  /\ UNCHANGED <<conn, opened, bridge>>

(***************************************************************************)
(* The rest of an exchange.                                                 *)
(***************************************************************************)
\* catch and finally.
Fail(g, closed) ==
  LET current == g = generation
      own == current /\ conn = calls[g].req.conn
  IN
  /\ live' = IF own THEN FALSE ELSE live
  /\ protocols' = IF current THEN Cleared ELSE protocols
  /\ conn' = IF own /\ closed THEN 0 ELSE conn
  /\ pending' = IF pending = g THEN 0 ELSE pending
  /\ calls' = [calls EXCEPT ![g] = NoCall]
  /\ UNCHANGED <<generation, opened, wire, bridge>>

Unwind(g) ==
  /\ calls[g].stage = "aborted"
  /\ Fail(g, FALSE)

Timeout(g) ==
  /\ Quiet
  /\ calls[g].stage \in {"wire", "reading"} /\ ~calls[g].aborted
  /\ calls' = Aborted(calls, g)
  /\ UNCHANGED <<conn, live, generation, pending, protocols, opened, wire, bridge>>

Deliverable(g) == {calls[g].answer, Note("unusable", 0), bridge.echo}

Satisfies(req, a) ==
  IF req.kind = "disconnect" THEN a.tag = "disconnected" /\ a.conn = req.conn
  ELSE Accepts(protocols[req.conn], req, a)

DeliverFailure(g) ==
  /\ Quiet
  /\ calls[g].stage = "wire"
  /\ \E a \in Deliverable(g) :
       /\ a.tag # "none"
       /\ ~Satisfies(calls[g].req, a) \/ g # generation
       /\ Fail(g, a.tag = "error_closed")

\* receive: a page of values awaits its digest before it changes anything.
Deliver(g) ==
  LET req == calls[g].req IN
  /\ Quiet
  /\ calls[g].stage = "wire" /\ g = generation
  /\ \E a \in Deliverable(g) :
       /\ Satisfies(req, a)
       /\ IF req.kind = "disconnect" THEN
            /\ calls' = [calls EXCEPT ![g].stage = "accepted"]
            /\ UNCHANGED protocols
          ELSE IF a.ok /\ a.op \in Pages THEN
            /\ calls' = [calls EXCEPT ![g].stage = "reading", ![g].answer = a]
            /\ UNCHANGED protocols
          ELSE
            /\ calls' = [calls EXCEPT ![g].stage = "accepted", ![g].answer = a]
            /\ protocols' = [protocols EXCEPT ![req.conn] = Accepted(@, a)]
  /\ UNCHANGED <<conn, live, generation, pending, opened, wire, bridge>>

\* The digest is there: accept goes on, whatever happened in between.
Hashed(g) ==
  /\ Quiet
  /\ calls[g].stage = "reading"
  /\ calls' = [calls EXCEPT ![g].stage = "accepted"]
  /\ protocols' = [protocols EXCEPT ![calls[g].req.conn] = Accepted(@, calls[g].answer)]
  /\ UNCHANGED <<conn, live, generation, pending, opened, wire, bridge>>

\* Faulty variant: comparing the connection only.
CurrentConnection(g) == conn = calls[g].req.conn

\* check() and this.connection === connection.
Current(g) == g = generation /\ ~calls[g].aborted /\ conn = calls[g].req.conn

\* The exchange returns; after it disconnect forgets the connection.
Finish(g) ==
  LET closing == calls[g].req.kind = "disconnect" IN
  /\ calls[g].stage = "accepted" /\ Current(g)
  /\ live' = ~closing
  /\ conn' = IF closing THEN 0 ELSE conn
  /\ pending' = IF pending = g THEN 0 ELSE pending
  /\ calls' = [calls EXCEPT ![g] = NoCall]
  /\ UNCHANGED <<generation, protocols, opened, wire, bridge>>

\* The clock may be past the deadline although the timer has not fired yet.
FinishLate(g) ==
  /\ calls[g].stage = "accepted"
  /\ Fail(g, FALSE)

(***************************************************************************)
(* The bridge, external: one session, requests in sequence.                 *)
(***************************************************************************)
Answer(g, a) ==
  /\ calls' = IF calls[g].stage = "wire" THEN [calls EXCEPT ![g].answer = a] ELSE calls
  /\ wire' = [wire EXCEPT ![g] = NoRequest]
  /\ UNCHANGED <<conn, live, generation, pending, protocols, opened>>

ServeConnect(g) ==
  LET r == wire[g]
      hello == [Note("view", r.conn) EXCEPT !.id = 1, !.op = "discover", !.ok = TRUE]
  IN
  /\ r.kind = "connect"
  /\ \/ /\ bridge.conn = 0
        /\ bridge' = [conn |-> r.conn, served |-> 1, at |-> NoStamp, echo |-> hello]
        /\ Answer(g, hello)
     \/ /\ bridge.conn = 0
        /\ UNCHANGED bridge
        /\ Answer(g, Note("error_closed", r.conn))
     \/ /\ bridge.conn # 0
        /\ UNCHANGED bridge
        /\ Answer(g, Note("error", r.conn))

Expected(r) == bridge.conn = r.conn /\ r.id = bridge.served + 1 /\ r.at = bridge.at

\* Where a move ends up, and the revision it makes.
Target(r) ==
  [rev |-> bridge.at.rev + 1,
   event |-> CASE r.op = "seek"    -> r.n
               [] r.op = "reverse" -> Minus(bridge.at.event, r.n)
               [] OTHER            -> Lesser(bridge.at.event + r.n, End)]

Serve(g, ok, at, captured, more) ==
  LET r == wire[g]
      a == [tag |-> "view", conn |-> r.conn, id |-> r.id, op |-> r.op, ok |-> ok, at |-> at,
            captured |-> captured, completed |-> ok /\ r.op \in Moves /\ at.event = End, more |-> more,
            advanced |-> Advanced(bridge.at.event, at.event, End - 1)]
  IN
  /\ bridge' = [conn |-> r.conn, served |-> r.id, at |-> at, echo |-> a]
  /\ Answer(g, a)

ServeCommand(g) ==
  LET r == wire[g] IN
  /\ r.kind = "command"
  /\ \/ Expected(r) /\ Serve(g, FALSE, bridge.at, FALSE, FALSE)
     \/ /\ Expected(r) /\ r.op \in Moves
        /\ r.op = "seek" => r.n <= End
        /\ \E captured \in BOOLEAN :
             /\ captured => Target(r).event \in 1..End-1
             /\ Serve(g, TRUE, Target(r), captured, FALSE)
     \/ /\ Expected(r) /\ r.op = "state"
        /\ \E captured \in BOOLEAN :
             /\ captured => bridge.at.event \in 1..End-1
             /\ Serve(g, TRUE, bridge.at, captured, FALSE)
     \/ /\ Expected(r) /\ r.op \in Queries
        /\ r.op = "next" => r.page = bridge.at
        /\ \E more \in BOOLEAN :
             /\ more => r.op \in Pages
             /\ Serve(g, TRUE, bridge.at, FALSE, more)
     \/ /\ bridge.conn = r.conn
        /\ bridge' = [conn |-> 0, served |-> 0, at |-> NoStamp, echo |-> NoAnswer]
        /\ Answer(g, Note("error_closed", r.conn))
     \/ /\ UNCHANGED bridge
        /\ Answer(g, Note("error", r.conn))

ServeDisconnect(g) ==
  LET r == wire[g] IN
  /\ r.kind = "disconnect"
  /\ bridge' = IF bridge.conn = r.conn
               THEN [conn |-> 0, served |-> 0, at |-> NoStamp, echo |-> NoAnswer] ELSE bridge
  /\ Answer(g, Note("disconnected", r.conn))

(***************************************************************************)
(* The system.                                                              *)
(***************************************************************************)
User ==
  /\ Quiet
  /\ \/ Connect
     \/ \E op \in {"step", "reverse"}, n \in Counts : Command(op, n)
     \/ \E n \in 0..End + 1 : Command("seek", n)
     \/ \E op \in Queries \cup {"state"} : Command(op, 0)
     \/ Invalidate
     \/ Disconnect

Microtask == \E g \in Gens : Unwind(g) \/ Finish(g) \/ FinishLate(g)

Next ==
  \/ User
  \/ Microtask
  \/ \E g \in Gens : Timeout(g) \/ DeliverFailure(g) \/ Deliver(g) \/ Hashed(g)
  \/ \E g \in Gens : ServeConnect(g) \/ ServeCommand(g) \/ ServeDisconnect(g)

Spec == Init /\ [][Next]_vars

(***************************************************************************)
(* Properties.                                                              *)
(***************************************************************************)
Retained(p) == {s \in {p.selected, p.next} : s # NoStamp}

\* While the client offers commands, what it retains is where the bridge is: the
\* position it will anchor to, the checkpoint selected and the page to go on with
\* are of the bridge's present event and revision, and the next request id is the
\* one the bridge expects.
RetainedIsCurrent ==
  ready => LET p == protocols[conn] IN
    /\ bridge.conn = conn => p.at = bridge.at /\ p.sent = bridge.served
    /\ \A s \in Retained(p) : s = p.at
    /\ p.next # NoStamp => p.selected # NoStamp

\* The client never refuses a bridge that keeps to the recording: clamped steps,
\* jumps over the sentinels, the end before and after it is known, pages and
\* refusals all pass the checks, so every request answered in time succeeds.
HonestRepliesFit ==
  \A g \in Gens : calls[g].stage = "wire" /\ calls[g].answer.tag = "view"
                    => Satisfies(calls[g].req, calls[g].answer)

\* A command that reaches the session it is for is the next one there.
CommandsAreNext ==
  \A g \in Gens : wire[g].kind = "command" /\ wire[g].conn = bridge.conn => Expected(wire[g])

\* One exchange at a time may still succeed, and pending names no exchange that
\* is gone: ready would stay false and connect be refused for ever.
OneRequestAtATime ==
  /\ \A g \in Gens : calls[g].stage # "idle" /\ ~calls[g].aborted => g = pending /\ g = generation
  /\ pending # 0 => pending = generation /\ calls[pending].stage # "idle"
  /\ conn = 0 => pending = 0

(***************************************************************************)
(* The V20 client keeps the promise of CpuDebugSession: module DebugSession.*)
(***************************************************************************)
InFlight(kind) ==
  /\ generation \in Gens
  /\ calls[generation].stage # "idle" /\ ~calls[generation].aborted
  /\ calls[generation].req.kind = kind

AbstractPhase ==
  IF conn = 0 THEN "closed"
  ELSE IF ready THEN "live"
  ELSE IF InFlight("connect") THEN "opening"
  ELSE IF InFlight("command") THEN "busy"
  ELSE "doubt"

AbstractSequence ==
  IF AbstractPhase \in {"live", "busy"} THEN protocols[conn].sent - 1 ELSE 0

Promise == INSTANCE DebugSession
  WITH phase <- AbstractPhase, session <- opened, sequence <- AbstractSequence,
       MaxSequence <- MaxCommands - 1

\* One command at a time with the next request id, no retry, and after an unknown
\* outcome nothing but a disconnect, although replies are admitted before the
\* exchange is known to be current.
ImplementsDebugSession == Promise!Spec

=============================================================================
