--------------------------- MODULE ResourceRecording ---------------------------
(***************************************************************************)
(* importResourceRecording of src/content/recorded-resource-import.ts: the  *)
(* loop over the paired lines of two recorded files and the checks after it.*)
(*                                                                         *)
(* A line stands for a request and the response on the same line.  What the *)
(* checks compare across lines is kept: ids, revisions, the capture         *)
(* (configuration and source map), queries, page tokens and source cursors. *)
(* What concerns one line alone, or one line and the snapshot it was taken  *)
(* at (pairing, status, shape, bytes in range, rows), is one Boolean, sound.*)
(* A refusal throws: nothing read so far remains.                           *)
(***************************************************************************)
EXTENDS Naturals, Sequences, FiniteSets

CONSTANTS
  Captures,   \* what tells captures apart
  Queries,    \* resource queries without request id and page
  Tokens,     \* page tokens
  None,       \* no capture, query or token
  MaxRev,     \* bound: revisions
  MaxPages,   \* bound: full pages of source variables before one
  MaxLines,   \* RESOURCE_IMPORT_LIMITS.pairs: 128 in the code
  MaxPoints   \* RESOURCE_IMPORT_LIMITS.checkpoints: 32 in the code

ASSUME RecordingAssumption ==
  /\ None \notin Captures /\ None \notin Queries /\ None \notin Tokens
  /\ MaxRev \in Nat /\ MaxPages \in Nat /\ MaxLines \in Nat /\ MaxPoints \in Nat

Operations == {"step", "stack", "variables", "memory", "query", "other"}
Revs == 1..MaxRev

\* All pages of source variables but the last are full, so their cursors are
\* told apart by the pages before: at is the one a page starts at, more says
\* whether it names the next.
Lines == [id : Nat, op : Operations, sound : BOOLEAN, rev : Revs, capture : Captures,
          query : Queries \cup {None}, token : Tokens \cup {None}, next : Tokens \cup {None},
          at : 0..MaxPages, more : BOOLEAN]

VARIABLES
  verdict,   \* reading, refused or imported
  pairs,     \* the lines accepted so far
  previousId,
  capture,   \* configuration and sourceMap, None before the first checkpoint
  points,    \* checkpoints, with the ids of what was retained at each
  tokens,    \* the query key each token was issued for
  consumed   \* tokens already used

vars == <<verdict, pairs, previousId, capture, points, tokens, consumed>>

Keys == [query : Queries, point : 1..MaxPoints]
NoKey == [query |-> None, point |-> 0]
PointRecords == [id : Nat, rev : Revs, stack : Nat, variables : SUBSET Nat,
                 pages : SUBSET Nat, memories : SUBSET Nat]

NothingRead ==
  /\ pairs' = <<>> /\ previousId' = 0 /\ capture' = None
  /\ points' = <<>>
  /\ tokens' = [t \in Tokens |-> NoKey] /\ consumed' = {}

Init ==
  /\ verdict = "reading"
  /\ pairs = <<>> /\ previousId = 0 /\ capture = None
  /\ points = <<>>
  /\ tokens = [t \in Tokens |-> NoKey] /\ consumed = {}

Latest == points[Len(points)]
Key(l) == [query |-> l.query, point |-> Len(points)]

(***************************************************************************)
(* One round of the loop.                                                   *)
(***************************************************************************)
StepFits(l) ==
  /\ capture \in {None, l.capture}
  /\ points # <<>> => l.rev > Latest.rev
  /\ Len(points) < MaxPoints

\* Faulty variant: a token used as often as one likes.
ContinuesEver(l) == l.token # None => tokens[l.token] = Key(l)

Continues(l) == l.token # None => tokens[l.token] = Key(l) /\ l.token \notin consumed

\* A next token equal to the page's own is refused by the projection before.
QueryFits(l) ==
  /\ Continues(l)
  /\ l.next # None => tokens[l.next] = NoKey /\ l.next # l.token

Fits(l) ==
  /\ l.sound /\ l.op # "other"
  /\ l.id > previousId
  /\ IF l.op = "step" THEN StepFits(l)
     ELSE /\ points # <<>>
          /\ l.rev = Latest.rev /\ l.capture = capture
          /\ l.op = "stack" => Latest.stack = 0
          /\ l.op = "query" => QueryFits(l)

\* Faulty variant: a memory window filed under the first checkpoint.
RetainedFirst(l) ==
  CASE l.op = "stack"     -> [points EXCEPT ![Len(points)].stack = l.id]
    [] l.op = "variables" -> [points EXCEPT ![Len(points)].variables = @ \cup {l.id}]
    [] l.op = "memory"    -> [points EXCEPT ![1].memories = @ \cup {l.id}]
    [] OTHER              -> [points EXCEPT ![Len(points)].pages = @ \cup {l.id}]

Retained(l) ==
  CASE l.op = "stack"     -> [points EXCEPT ![Len(points)].stack = l.id]
    [] l.op = "variables" -> [points EXCEPT ![Len(points)].variables = @ \cup {l.id}]
    [] l.op = "memory"    -> [points EXCEPT ![Len(points)].memories = @ \cup {l.id}]
    [] OTHER              -> [points EXCEPT ![Len(points)].pages = @ \cup {l.id}]

NewPoint(l) == [id |-> l.id, rev |-> l.rev, stack |-> 0, variables |-> {}, pages |-> {}, memories |-> {}]

Read(l) ==
  /\ verdict = "reading" /\ Len(pairs) < MaxLines
  /\ Fits(l)
  /\ pairs' = Append(pairs, l)
  /\ previousId' = l.id
  /\ IF l.op = "step"
     THEN /\ capture' = l.capture
          /\ points' = Append(points, NewPoint(l))
     ELSE /\ points' = Retained(l)
          /\ UNCHANGED capture
  /\ tokens' = IF l.op = "query" /\ l.next # None THEN [tokens EXCEPT ![l.next] = Key(l)] ELSE tokens
  /\ consumed' = IF l.op = "query" THEN consumed \cup ({l.token} \ {None}) ELSE consumed
  /\ UNCHANGED verdict

Refuse(l) ==
  /\ verdict = "reading" /\ Len(pairs) < MaxLines
  /\ ~Fits(l)
  /\ verdict' = "refused"
  /\ NothingRead

(***************************************************************************)
(* After the last line.                                                     *)
(***************************************************************************)
\* projectResourceSourceValues: the stack, then the whole chain of pages.
SourceReady(p) ==
  LET pages == {k \in DOMAIN pairs : pairs[k].id \in p.variables} IN
  p.stack # 0 \/ pages # {} =>
    /\ p.stack # 0 /\ pages # {}
    /\ \A k \in pages :
         /\ pairs[k].id > p.stack
         /\ pairs[k].at = Cardinality({i \in pages : i < k})
         /\ pairs[k].more <=> \E i \in pages : k < i

Complete ==
  /\ points # <<>>
  /\ \A i \in DOMAIN points :
       /\ points[i].pages # {} \/ points[i].memories # {}
       /\ SourceReady(points[i])

Finish ==
  /\ verdict = "reading"
  /\ IF Complete
     THEN verdict' = "imported" /\ UNCHANGED <<pairs, previousId, capture, points, tokens, consumed>>
     ELSE verdict' = "refused" /\ NothingRead

\* Lines worth trying after those read: the id repeated or the next one, with
\* the fields its operation has.
Worth(ops, queries, cursors, positions, ends) ==
  [id : {previousId, previousId + 1}, op : ops, sound : BOOLEAN, rev : Revs, capture : Captures,
   query : queries, token : cursors, next : cursors, at : positions, more : ends]

Candidates ==
  Worth({"step", "stack", "memory", "other"}, {None}, {None}, {0}, {FALSE})
    \cup Worth({"variables"}, {None}, {None}, 0..MaxPages, BOOLEAN)
    \cup Worth({"query"}, Queries, Tokens \cup {None}, {0}, {FALSE})

Next == Finish \/ \E l \in Candidates : Read(l) \/ Refuse(l)

Spec == Init /\ [][Next]_vars

(***************************************************************************)
(* Properties.                                                              *)
(***************************************************************************)
Steps(s) == {i \in DOMAIN s : s[i].op = "step"}
IsPage(s, i) == s[i].op = "query"

\* The checkpoint a line of a recording belongs to.
Owns(s, c, i) == c \in Steps(s) /\ c <= i /\ \A d \in Steps(s) : d <= i => d <= c

\* A page goes on where an earlier page of the same query and checkpoint ended.
GoesOn(s, j) == \E i \in 1..j-1 :
  /\ IsPage(s, i) /\ s[i].next = s[j].token /\ s[i].query = s[j].query
  /\ \E c \in Steps(s) : Owns(s, c, i) /\ Owns(s, c, j)

\* What the excerpt of a recording may be, said of its lines alone.
EachSound(s) == \A i \in DOMAIN s : s[i].sound /\ s[i].op # "other" /\ s[i].id > 0
IdsRise(s) == \A i, j \in DOMAIN s : i < j => s[i].id < s[j].id
OneCapture(s) == \A i, j \in DOMAIN s : s[i].capture = s[j].capture
StepsRise(s) ==
  /\ \A i, j \in Steps(s) : i < j => s[i].rev < s[j].rev
  /\ Cardinality(Steps(s)) <= MaxPoints
EachOwned(s) == \A i \in DOMAIN s : \E c \in Steps(s) : Owns(s, c, i) /\ s[c].rev = s[i].rev
OneStack(s) == \A i, j \in DOMAIN s : s[i].op = "stack" /\ s[j].op = "stack" /\ i < j =>
  \E c \in Steps(s) : i < c /\ c < j
TokensOnce(s) == \A i, j \in DOMAIN s : IsPage(s, i) /\ IsPage(s, j) =>
  /\ s[i].next # None => (i # j => s[i].next # s[j].next) /\ s[i].next # s[i].token
  /\ s[i].token # None => (i # j => s[i].token # s[j].token) /\ GoesOn(s, i)

Excerpt(s) ==
  /\ EachSound(s) /\ IdsRise(s) /\ OneCapture(s) /\ StepsRise(s)
  /\ EachOwned(s) /\ OneStack(s) /\ TokensOnce(s)

\* A whole excerpt: resource data at every checkpoint, and source variables with
\* their stack before them, or neither.
Whole(s) ==
  /\ Steps(s) # {}
  /\ \A c \in Steps(s) :
       LET kept == {i \in DOMAIN s : Owns(s, c, i)}
           ofKind(op) == {i \in kept : s[i].op = op}
       IN /\ ofKind("memory") # {} \/ ofKind("query") # {}
          /\ ofKind("stack") # {} <=> ofKind("variables") # {}
          /\ \A i \in ofKind("stack"), j \in ofKind("variables") : i < j
          /\ {s[j].at : j \in ofKind("variables")} = 0..Cardinality(ofKind("variables")) - 1
          /\ \A i, j \in ofKind("variables") : i < j => s[i].at < s[j].at /\ s[i].more
          /\ \A j \in ofKind("variables") : s[j].more => \E i \in ofKind("variables") : j < i

\* The loop, which sees one line at a time, refuses exactly what is no excerpt:
\* no order of checkpoints, ids, pages and tokens slips through, and nothing that
\* a debugger may have recorded is turned away; likewise the checks at the end.
LoopIsExact == verdict = "reading" =>
  /\ Excerpt(pairs)
  /\ Len(pairs) < MaxLines => \A l \in Candidates : Fits(l) <=> Excerpt(Append(pairs, l))
  /\ Complete <=> Whole(pairs)

Retentions(p) == p.variables \cup p.pages \cup p.memories \cup ({p.stack} \ {0})
Named(p) == {p.id} \cup Retentions(p)
ReadIds == {pairs[k].id : k \in DOMAIN pairs}

\* An import files every line under exactly one checkpoint, the one it was
\* recorded at, and no id names two things: what the bookmarks and the views of
\* RecordedViews take for granted.
EveryPairIsFiled == verdict # "refused" =>
  /\ \A i, j \in DOMAIN points : i < j =>
       /\ points[i].id < points[j].id /\ points[i].rev < points[j].rev
       /\ \A a \in Retentions(points[i]) : a < points[j].id
  /\ \A i \in DOMAIN points : \A a \in Retentions(points[i]) : points[i].id < a
  /\ ReadIds = UNION {Named(points[i]) : i \in DOMAIN points}

\* What the theorems add: the types of what the import keeps, and that the ids
\* read so far end at previousId.
RecordingInv ==
  /\ pairs \in Seq(Lines) /\ points \in Seq(PointRecords)
  /\ previousId \in Nat
  /\ \A k \in DOMAIN pairs : pairs[k].id <= previousId
  /\ EveryPairIsFiled

=============================================================================
