-------------------- MODULE ResourceMemoryController_proofs --------------------
(***************************************************************************)
(* The controller's invariant, for any set of contexts, snapshots, windows  *)
(* and request ids and any request budget.  Every operation is either an    *)
(* Invalidate followed by a plain state (Stop), the issue of a ticket, or   *)
(* the acceptance of its answer; each gets a lemma.                         *)
(***************************************************************************)
EXTENDS ResourceMemoryController, TLAPS

USE DEF Tickets, Results

\* What Stop leaves behind, whatever status and selection it is given.
LEMMA StopKeeps ==
  ASSUME ControllerInv,
         NEW status \in Statuses, status \notin Results, status # "pending",
         NEW sel \in Selections \cup {NoSelection},
         Stop(status, sel)
  PROVE  ControllerInv'
<1> USE ControllerAssumption DEF ControllerInv, Stop, Invalidate, Plain
<1>1. TypeOK'
  <2>1. state' \in States /\ selection' \in Selections \cup {NoSelection}
    BY DEF States, TypeOK
  <2>2. pending' \in 0..MaxRequests
    OBVIOUS
  <2>3. tickets' \in [Tickets -> [id : 0..MaxId, selection : Selections \cup {NoSelection},
                                   aborted : BOOLEAN]]
    <3>1. ASSUME NEW t \in Tickets
          PROVE  [tickets[t] EXCEPT !.aborted = @ \/ t = pending]
                   \in [id : 0..MaxId, selection : Selections \cup {NoSelection}, aborted : BOOLEAN]
      BY DEF TypeOK
    <3> QED BY <3>1
  <2> QED BY <2>1, <2>2, <2>3 DEF TypeOK
<1>2. \A t \in 1..issued : tickets'[t].id = tickets[t].id
                           /\ tickets'[t].aborted = (tickets[t].aborted \/ t = pending)
  BY DEF TypeOK
<1>3. PendingIsLive' /\ ResultIsOwn'
  BY DEF PendingIsLive, ResultIsOwn
<1>4. NothingLeftRunning'
  BY <1>2 DEF NothingLeftRunning
<1>5. IdsIncrease'
  BY <1>2 DEF IdsIncrease
<1> QED BY <1>1, <1>3, <1>4, <1>5

\* A new ticket supersedes the live one and carries the largest id so far.
LEMMA BeginKeeps ==
  ASSUME ControllerInv, NEW id \in 0..MaxId, Begin(id)
  PROVE  ControllerInv'
<1> USE ControllerAssumption DEF ControllerInv, Begin, Issuable
<1>1. issued + 1 \in Tickets /\ issued' = issued + 1 /\ pending' = issued + 1
  BY DEF TypeOK
<1>2. TypeOK'
  <2>1. state' \in States
    BY <1>1 DEF States, Statuses, TypeOK
  <2>2. tickets' \in [Tickets -> [id : 0..MaxId, selection : Selections \cup {NoSelection},
                                   aborted : BOOLEAN]]
    <3>1. ASSUME NEW t \in Tickets
          PROVE  [tickets[t] EXCEPT !.aborted = @ \/ t = pending]
                   \in [id : 0..MaxId, selection : Selections \cup {NoSelection}, aborted : BOOLEAN]
      BY DEF TypeOK
    <3>2. [id |-> id, selection |-> selection, aborted |-> FALSE]
             \in [id : 0..MaxId, selection : Selections \cup {NoSelection}, aborted : BOOLEAN]
      BY DEF TypeOK
    <3> QED BY <3>1, <3>2
  <2>3. issued' \in 0..MaxRequests /\ pending' \in 0..MaxRequests /\ lastRequestId' \in 0..MaxId
    BY <1>1 DEF TypeOK
  <2> QED BY <2>1, <2>2, <2>3 DEF TypeOK
<1>3. /\ tickets'[issued + 1] = [id |-> id, selection |-> selection, aborted |-> FALSE]
      /\ \A t \in 1..issued : /\ tickets'[t].id = tickets[t].id
                              /\ tickets'[t].selection = tickets[t].selection
                              /\ tickets'[t].aborted = (tickets[t].aborted \/ t = pending)
  <2>1. tickets'[issued + 1] = [id |-> id, selection |-> selection, aborted |-> FALSE]
    BY <1>1
  <2>2. ASSUME NEW t \in 1..issued
        PROVE  tickets'[t] = [tickets[t] EXCEPT !.aborted = @ \/ t = pending]
    <3>1. t \in Tickets /\ t # issued + 1
      BY <1>1 DEF TypeOK
    <3> QED BY <3>1
  <2>3. ASSUME NEW t \in 1..issued
        PROVE  tickets[t] \in [id : 0..MaxId, selection : Selections \cup {NoSelection},
                               aborted : BOOLEAN]
    BY <1>1 DEF TypeOK
  <2> HIDE DEF Begin, Issuable, ControllerInv
  <2>4. ASSUME NEW t \in 1..issued
        PROVE  /\ tickets'[t].id = tickets[t].id
               /\ tickets'[t].selection = tickets[t].selection
               /\ tickets'[t].aborted = (tickets[t].aborted \/ t = pending)
    BY <2>2, <2>3, Zenon
  <2> QED BY <2>1, <2>4, Zenon
<1>4. PendingIsLive' /\ ResultIsOwn'
  BY <1>1, <1>3 DEF PendingIsLive, ResultIsOwn, TypeOK
<1>5. NothingLeftRunning'
  <2> SUFFICES ASSUME NEW t \in 1..issued', t # pending'
               PROVE  tickets'[t].aborted \/ accepted'[t] # 0
    BY DEF NothingLeftRunning
  <2>1. t \in 1..issued
    BY <1>1 DEF TypeOK
  <2> QED BY <2>1, <1>3 DEF NothingLeftRunning
<1>6. IdsIncrease'
  <2>1. lastRequestId \in Nat /\ lastRequestId' = id /\ id > lastRequestId /\ id \in Nat
    BY DEF TypeOK
  <2>2. \A t \in 1..issued' : tickets'[t].id \in 1..lastRequestId'
    <3> TAKE t \in 1..issued'
    <3>1. CASE t = issued + 1
      BY <3>1, <2>1, <1>3
    <3>2. CASE t \in 1..issued
      <4>1. tickets'[t].id \in 1..lastRequestId
        BY <3>2, <1>3 DEF IdsIncrease
      <4> QED BY <4>1, <2>1
    <3>3. issued \in Nat /\ issued' = issued + 1
      BY <1>1 DEF TypeOK
    <3>4. t = issued + 1 \/ t \in 1..issued
      BY <3>3
    <3> QED BY <3>1, <3>2, <3>4
  <2>3. \A t, u \in 1..issued' : t < u => tickets'[t].id < tickets'[u].id
    <3> SUFFICES ASSUME NEW t \in 1..issued', NEW u \in 1..issued', t < u
                 PROVE  tickets'[t].id < tickets'[u].id
      OBVIOUS
    <3>1. t \in 1..issued /\ tickets'[t].id \in 1..lastRequestId
      BY <1>1, <1>3 DEF TypeOK, IdsIncrease
    <3>2. CASE u = issued + 1
      BY <3>1, <3>2, <2>1, <1>3
    <3>3. CASE u \in 1..issued
      BY <3>1, <3>3, <1>3 DEF IdsIncrease
    <3> QED BY <1>1, <3>2, <3>3 DEF TypeOK
  <2> QED BY <2>2, <2>3 DEF IdsIncrease
<1> QED BY <1>2, <1>4, <1>5, <1>6

\* The ids tell requests apart, so an accepted answer is the ticket's own.
LEMMA OwnAnswer ==
  ASSUME TypeOK, IdsIncrease, NEW t \in 1..issued, NEW u \in 1..issued,
         tickets[u].id = tickets[t].id
  PROVE  u = t
<1>1. tickets[u].id \in Nat /\ tickets[t].id \in Nat
  BY ControllerAssumption DEF TypeOK, IdsIncrease
<1>2. u < t \/ t < u \/ u = t
  BY DEF TypeOK
<1> QED BY <1>1, <1>2 DEF IdsIncrease

\* An accepted answer is the answer to the pending request, since ids tell tickets apart.
LEMMA ReceiveKeeps ==
  ASSUME ControllerInv, NEW t \in 1..issued, NEW u \in 1..issued,
         NEW snapshot \in Snapshots, NEW window \in Windows, NEW kind \in Kinds,
         Receive(t, u, snapshot, window, kind)
  PROVE  ControllerInv'
<1> USE ControllerAssumption DEF ControllerInv, Receive
<1>1. t = pending /\ t = issued /\ t \in Tickets
  BY DEF Current, PendingIsLive, TypeOK
<1>2. u = t
  BY OwnAnswer DEF Answers
<1>3. TypeOK'
  BY <1>1, <1>2 DEF TypeOK, States, Statuses
<1>4. accepted'[t] = t /\ \A v \in Tickets : v # t => accepted'[v] = accepted[v]
  BY <1>1, <1>2 DEF TypeOK
<1>5. PendingIsLive' /\ ResultIsOwn'
  BY <1>1, <1>4 DEF PendingIsLive, ResultIsOwn
<1>6. NothingLeftRunning'
  <2> SUFFICES ASSUME NEW v \in 1..issued
               PROVE  tickets[v].aborted \/ accepted'[v] # 0
    BY DEF NothingLeftRunning
  <2> QED BY <1>1, <1>4 DEF NothingLeftRunning, TypeOK
<1>7. IdsIncrease'
  BY DEF IdsIncrease
<1> QED BY <1>3, <1>5, <1>6, <1>7

\* An error drops the live ticket and nothing else.
LEMMA ErrorKeeps == ControllerInv /\ Error => ControllerInv'
<1> SUFFICES ASSUME ControllerInv, Error PROVE ControllerInv'
  OBVIOUS
<1>1. selection \in Selections \cup {NoSelection}
  BY DEF ControllerInv, TypeOK
<1> QED BY <1>1, StopKeeps DEF Error, Statuses

\* Every step preserves the invariant.
LEMMA NextKeeps == ControllerInv /\ [Next]_vars => ControllerInv'
<1> SUFFICES ASSUME ControllerInv, [Next]_vars PROVE ControllerInv'
  OBVIOUS
<1>0. selection \in Selections \cup {NoSelection}
  BY DEF ControllerInv, TypeOK
<1>1. CASE \E value \in Selections \cup {NoSelection} : Select(value)
  BY <1>1, StopKeeps DEF Select, Statuses
<1>2. CASE SelectInvalid
  BY <1>2, StopKeeps DEF SelectInvalid, Statuses
<1>3. CASE \E id \in 0..MaxId : Begin(id) \/ BeginRefused(id)
  BY <1>3, BeginKeeps, ErrorKeeps DEF BeginRefused
<1>4. CASE \E t, u \in 1..issued, snapshot \in Snapshots, window \in Windows, kind \in Kinds :
             Receive(t, u, snapshot, window, kind) \/ ReceiveWrong(t, u, snapshot, window, kind)
  BY <1>4, ReceiveKeeps, ErrorKeeps DEF ReceiveWrong
<1>5. CASE \E t \in 1..issued : Fail(t)
  BY <1>5, ErrorKeeps DEF Fail
<1>6. CASE Cancel
  BY <1>0, <1>6, StopKeeps DEF Cancel, Statuses
<1>7. CASE Disconnect
  BY <1>7, StopKeeps DEF Disconnect, Statuses
<1>8. CASE UNCHANGED vars
  BY <1>8 DEF vars, ControllerInv, TypeOK, PendingIsLive, ResultIsOwn, NothingLeftRunning, IdsIncrease
<1> QED BY <1>1, <1>2, <1>3, <1>4, <1>5, <1>6, <1>7, <1>8 DEF Next

\* The controller's invariant: the state shown agrees with the live ticket, a
\* result is the answer to its own request, no request is left running, and
\* request ids tell tickets apart (select, begin, receive, fail, cancel,
\* disconnect and invalidate of resource-memory-controller.ts).
THEOREM ControllerInvariant == Spec => []ControllerInv
<1>1. Init => ControllerInv
  BY ControllerAssumption
  DEF Init, ControllerInv, TypeOK, PendingIsLive, ResultIsOwn, NothingLeftRunning, IdsIncrease,
      Plain, States, Statuses, NoTicket
<1> QED BY <1>1, NextKeeps, PTL DEF Spec

\* Bytes are shown only as the answer to the request of the current selection.
THEOREM ResultsAreOwn == Spec => []ResultIsOwn
<1>1. ControllerInv => ResultIsOwn
  BY DEF ControllerInv
<1> QED BY <1>1, ControllerInvariant, PTL

\* The status on the page and the live ticket agree, for any budget.
THEOREM PendingIsAlwaysLive == Spec => []PendingIsLive
<1>1. ControllerInv => PendingIsLive
  BY DEF ControllerInv
<1> QED BY <1>1, ControllerInvariant, PTL

\* Every request issued is live, answered or told to stop.
THEOREM NothingIsLeftRunning == Spec => []NothingLeftRunning
<1>1. ControllerInv => NothingLeftRunning
  BY DEF ControllerInv
<1> QED BY <1>1, ControllerInvariant, PTL

\* Only the pending request turns into a result, in one step and only once.
THEOREM CompletesPendingOnly == Spec => CompletesPending
<1> DEFINE Step == state'.status \in Results /\ state' # state =>
                     /\ state.status = "pending" /\ state.ticket = state'.ticket
                     /\ state'.selection = state.selection
<1>1. ASSUME ControllerInv, Next PROVE Step
  <2>1. CASE \E t, u \in 1..issued, snapshot \in Snapshots, window \in Windows, kind \in Kinds :
               Receive(t, u, snapshot, window, kind)
    BY <1>1, <2>1 DEF Receive, Current, ControllerInv, PendingIsLive
  <2>2. CASE state'.status \notin Results
    BY <2>2
  <2>3. ASSUME \E s \in Statuses \ Results : \E sel : Stop(s, sel) PROVE state'.status \notin Results
    BY <2>3 DEF Stop, Plain
  <2>4. ASSUME NEW id \in 0..MaxId, Begin(id) PROVE state'.status \notin Results
    BY <2>4 DEF Begin
  <2>5. \/ \E t, u \in 1..issued, snapshot \in Snapshots, window \in Windows, kind \in Kinds :
             Receive(t, u, snapshot, window, kind)
        \/ state'.status \notin Results
    BY <1>1, <2>4 DEF Next, Select, SelectInvalid, BeginRefused, ReceiveWrong, Fail, Cancel,
       Disconnect, Error, Stop, Plain
  <2> QED BY <2>1, <2>2, <2>5
<1>2. ControllerInv /\ [Next]_vars => [Step]_vars
  BY <1>1
<1> QED BY <1>2, ControllerInvariant, PTL DEF Spec, CompletesPending

=============================================================================
