------------------------ MODULE ResourceMemoryReentrant ------------------------
(***************************************************************************)
(* src/lib/resource-memory-controller.ts again, with owners whose abort     *)
(* listeners call back into the controller.                                 *)
(*                                                                         *)
(* An aborted signal runs its listeners at once, in the middle of the call  *)
(* that aborted it.  A call is therefore cut in two where invalidate aborts;*)
(* calls begun in between stand above it on the stack.                      *)
(***************************************************************************)
EXTENDS ResourceMemoryController, Sequences, FiniteSetsExt

CONSTANT MaxDepth   \* bound: calls inside calls

VARIABLE calls      \* the calls that have begun and not returned, innermost first

\* "Use the owning debugger session's shared request-ID allocator": an id is
\* greater than any other when the call it is an argument of begins.
NextId == 1 + Max({lastRequestId} \cup
                {calls[i].call.arg : i \in {j \in DOMAIN calls : calls[j].call.op = "begin"}})

Calls == [op : {"select"}, arg : Selections \cup {NoSelection}]
           \cup [op : {"begin"}, arg : {NextId}]
           \cup [op : {"cancel", "disconnect", "error"}, arg : {0}]

\* A call may begin when none is running, or from a listener of one that aborted.
MayCall == Len(calls) < MaxDepth /\ \A i \in DOMAIN calls : i = 1 => calls[i].listeners

\* Every operation begins with invalidate; listeners run if a signal aborted.
Enter(call, below) ==
  /\ Invalidate
  /\ calls' = <<[call |-> call, listeners |-> pending # 0]>> \o below
  /\ UNCHANGED <<selection, state, issued, lastRequestId, accepted>>

Call(call) ==
  /\ call.op # "error"
  /\ call.op = "begin" => call.arg <= MaxId
  /\ MayCall
  /\ Enter(call, calls)

FailCall(t) == MayCall /\ Current(t) /\ Enter([op |-> "error", arg |-> 0], calls)

ReceiveCall(t, u, snapshot, window, kind) ==
  /\ MayCall /\ Receive(t, u, snapshot, window, kind)
  /\ UNCHANGED calls

ReceiveWrongCall(t, u, snapshot, window, kind) ==
  /\ MayCall
  /\ Current(t) /\ selection # NoSelection /\ ~Answers(t, u, snapshot, window, kind)
  /\ Enter([op |-> "error", arg |-> 0], calls)

\* What select, cancel, disconnect and error do after invalidate.
Settled(call) ==
  /\ selection' = CASE call.op = "select" -> call.arg
                    [] call.op = "disconnect" -> NoSelection
                    [] OTHER -> selection
  /\ state' = Plain(CASE call.op = "select" -> "idle"
                      [] call.op = "cancel" -> "cancelled"
                      [] call.op = "disconnect" -> "disconnected"
                      [] OTHER -> "error", selection')
  /\ calls' = Tail(calls)
  /\ UNCHANGED <<pending, issued, lastRequestId, tickets, accepted>>

\* begin reads the selection, the ids and the budget only now.
Issued(id) ==
  /\ issued' = issued + 1 /\ lastRequestId' = id /\ pending' = issued + 1
  /\ tickets' = [tickets EXCEPT ![issued + 1] =
                   [id |-> id, selection |-> selection, aborted |-> FALSE]]
  /\ state' = [status |-> "pending", selection |-> selection, ticket |-> issued + 1]
  /\ calls' = Tail(calls)
  /\ UNCHANGED <<selection, accepted>>

Return ==
  /\ calls # <<>>
  /\ LET call == Head(calls).call IN
       IF call.op # "begin" THEN Settled(call)
       ELSE IF Issuable(call.arg) THEN Issued(call.arg)
       ELSE Enter([op |-> "error", arg |-> 0], Tail(calls))

ReentrantInit == Init /\ calls = <<>>

ReentrantNext ==
  \/ \E call \in Calls : Call(call)
  \/ \E t \in 1..issued : FailCall(t)
  \/ \E t, u \in 1..issued, snapshot \in Snapshots, window \in Windows, kind \in Kinds :
       ReceiveCall(t, u, snapshot, window, kind) \/ ReceiveWrongCall(t, u, snapshot, window, kind)
  \/ Return

ReentrantSpec == ReentrantInit /\ [][ReentrantNext]_<<vars, calls>>

(***************************************************************************)
(* Properties.                                                              *)
(***************************************************************************)
\* "Explicit selection changes invalidate pending and completed results": bytes
\* are shown for the selection they were requested under only.  A listener that
\* begins a request while select aborts the one before gets a ticket of the
\* selection that is being replaced, and its answer is taken for the new one.
SelectionChangeInvalidates ==
  state.status \in Results => tickets[state.ticket].selection = selection

=============================================================================
