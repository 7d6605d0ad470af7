----------------------- MODULE ResourceMemoryController -----------------------
(***************************************************************************)
(* createResourceMemoryController of src/lib/resource-memory-controller.ts: *)
(* one selection, at most one read_memory request under way, one result.    *)
(*                                                                         *)
(* The controller performs no I/O.  Its owner sends the request of a ticket *)
(* and hands back whatever arrives, with any ticket it ever got, as late    *)
(* and as often as it likes.  Every call runs to its end before the next:   *)
(* an abort listener that calls back finds the ticket already obsolete.     *)
(***************************************************************************)
EXTENDS Naturals

CONSTANTS
  Contexts,     \* the caller's connection, capture, target and variant
  Cursors,      \* where the session is stopped: revision and event
  Scopes,       \* what else names a snapshot: scope, source site, frame, occurrence
  Windows,      \* allocation, generation, offset and length
  NoSelection,  \* null
  MaxRequests,  \* RESOURCE_MEMORY_MAX_REQUESTS: 256 in the code
  MaxId         \* bound: the request ids the owner allocates

\* The stopped snapshots a range can be selected in.
Snapshots == [cursor : Cursors, scope : Scopes]
Selections == [context : Contexts, snapshot : Snapshots, window : Windows]

ASSUME ControllerAssumption ==
  /\ MaxRequests \in Nat
  /\ MaxId \in Nat
  /\ NoSelection \notin Selections

\* A ticket is named by its generation, the count of requests when it was issued.
Tickets == 1..MaxRequests
NoTicket == [id |-> 0, selection |-> NoSelection, aborted |-> FALSE]

VARIABLES
  selection,      \* the selection, or NoSelection
  state,          \* what getState returns: its status, selection and ticket
  pending,        \* the live ticket, 0 for null
  issued,
  lastRequestId,
  tickets,        \* the request each ticket carries and its abort signal
  accepted        \* history: the request whose answer completed each ticket

vars == <<selection, state, pending, issued, lastRequestId, tickets, accepted>>

Results == {"ready", "unavailable"}
Statuses == {"idle", "pending", "cancelled", "error", "disconnected"} \cup Results
States == [status : Statuses, selection : Selections \cup {NoSelection}, ticket : 0..MaxRequests]

\* Every variable keeps its type: no ticket is issued past the request budget.
TypeOK ==
  /\ selection \in Selections \cup {NoSelection}
  /\ state \in States
  /\ pending \in 0..MaxRequests
  /\ issued \in 0..MaxRequests
  /\ lastRequestId \in 0..MaxId
  /\ tickets \in [Tickets -> [id : 0..MaxId, selection : Selections \cup {NoSelection},
                               aborted : BOOLEAN]]
  /\ accepted \in [Tickets -> 0..MaxRequests]

Plain(status, sel) == [status |-> status, selection |-> sel, ticket |-> 0]

Init ==
  /\ selection = NoSelection
  /\ state = Plain("idle", NoSelection)
  /\ pending = 0 /\ issued = 0 /\ lastRequestId = 0
  /\ tickets = [t \in Tickets |-> NoTicket]
  /\ accepted = [t \in Tickets |-> 0]

\* invalidate: the live ticket is dropped, then its signal aborts.
Invalidate ==
  /\ pending' = 0
  /\ tickets' = [t \in Tickets |-> [tickets[t] EXCEPT !.aborted = @ \/ t = pending]]

Stop(status, sel) ==
  /\ Invalidate
  /\ selection' = sel
  /\ state' = Plain(status, sel)
  /\ UNCHANGED <<issued, lastRequestId, accepted>>

Error == Stop("error", selection)

(***************************************************************************)
(* The operations.                                                          *)
(***************************************************************************)
Select(value) == Stop("idle", value)

SelectInvalid == Stop("error", NoSelection)

\* Faulty variant: without the increasing id.
IssuableAgain(id) == selection # NoSelection /\ id >= 1 /\ issued < MaxRequests

\* id = 0 stands for a request id that is no positive safe integer.
Issuable(id) == selection # NoSelection /\ id > lastRequestId /\ issued < MaxRequests

Begin(id) ==
  LET t == issued + 1 IN
  /\ Issuable(id)
  /\ issued' = t
  /\ lastRequestId' = id
  /\ pending' = t
  /\ tickets' = [u \in Tickets |->
       IF u = t THEN [id |-> id, selection |-> selection, aborted |-> FALSE]
       ELSE [tickets[u] EXCEPT !.aborted = @ \/ u = pending]]
  /\ state' = [status |-> "pending", selection |-> selection, ticket |-> t]
  /\ UNCHANGED <<selection, accepted>>

BeginRefused(id) == ~Issuable(id) /\ Error

\* Faulty variant: any ticket of this controller.
CurrentEver(t) == t <= issued

Current(t) == pending # 0 /\ t = pending /\ ~tickets[t].aborted

\* An answer to the request of ticket u, handed in with ticket t: it repeats the
\* request's id and the cursor of the selection; one that has bytes to show, or says
\* that they are not captured, also its snapshot and the range that it covers.
Answers(t, u, snapshot, window, kind) ==
  /\ tickets[u].id = tickets[t].id
  /\ kind # "invalid"
  /\ snapshot.cursor = selection.snapshot.cursor
  /\ kind # "unavailable" => snapshot = selection.snapshot /\ window = selection.window

Receive(t, u, snapshot, window, kind) ==
  /\ Current(t) /\ selection # NoSelection
  /\ Answers(t, u, snapshot, window, kind)
  /\ pending' = 0
  /\ state' = [status |-> IF kind = "captured" THEN "ready" ELSE "unavailable",
               selection |-> selection, ticket |-> t]
  /\ accepted' = [accepted EXCEPT ![t] = u]
  /\ UNCHANGED <<selection, issued, lastRequestId, tickets>>

ReceiveWrong(t, u, snapshot, window, kind) ==
  /\ Current(t) /\ selection # NoSelection
  /\ ~Answers(t, u, snapshot, window, kind)
  /\ Error

Fail(t) == Current(t) /\ Error

Cancel == Stop("cancelled", selection)
Disconnect == Stop("disconnected", NoSelection)

Kinds == {"captured", "partial", "unavailable", "invalid"}

Next ==
  \/ \E value \in Selections \cup {NoSelection} : Select(value)
  \/ SelectInvalid
  \/ \E id \in 0..MaxId : Begin(id) \/ BeginRefused(id)
  \/ \E t, u \in 1..issued, snapshot \in Snapshots, window \in Windows, kind \in Kinds :
       Receive(t, u, snapshot, window, kind) \/ ReceiveWrong(t, u, snapshot, window, kind)
  \/ \E t \in 1..issued : Fail(t)
  \/ Cancel
  \/ Disconnect

Spec == Init /\ [][Next]_vars

(***************************************************************************)
(* Properties.                                                              *)
(***************************************************************************)
\* The state shown and the live ticket agree: pending is shown exactly while
\* the newest ticket is live, not aborted, and for the selection of now.
PendingIsLive ==
  /\ state.status = "pending" <=> pending # 0
  /\ state.selection = selection
  /\ pending # 0 =>
       /\ pending = issued /\ state.ticket = pending
       /\ ~tickets[pending].aborted
       /\ selection # NoSelection /\ tickets[pending].selection = selection

\* Bytes are shown only for the selection they were requested under, and come
\* from the answer to that very request, whatever the owner handed in, in which
\* order and with which ticket.
ResultIsOwn == state.status \in Results =>
  /\ selection # NoSelection
  /\ state.ticket \in 1..issued /\ state.ticket = issued
  /\ tickets[state.ticket].selection = selection
  /\ accepted[state.ticket] = state.ticket

\* No request is left behind: one that is no longer live was answered, or its
\* signal has told the transport to stop.
NothingLeftRunning ==
  \A t \in 1..issued : t # pending => tickets[t].aborted \/ accepted[t] # 0

\* A result appears only in the step that ends its own pending request, so a
\* ticket completes at most once and never after it was superseded.
CompletesPending ==
  [][state'.status \in Results /\ state' # state =>
       /\ state.status = "pending" /\ state.ticket = state'.ticket
       /\ state'.selection = state.selection]_vars

\* The request ids of the tickets tell them apart.
IdsIncrease ==
  /\ \A t \in 1..issued : tickets[t].id \in 1..lastRequestId
  /\ \A t, u \in 1..issued : t < u => tickets[t].id < tickets[u].id

\* The inductive invariant behind all of them.
ControllerInv ==
  /\ TypeOK
  /\ PendingIsLive
  /\ ResultIsOwn
  /\ NothingLeftRunning
  /\ IdsIncrease

=============================================================================
