--------------------------- MODULE ObservedLifetimes ----------------------------
(***************************************************************************)
(* The lifecycle page of the live CPU debugger: validateLifecycle of        *)
(* src/lib/cpu-observed-protocol.ts, which decides whether the rows of a    *)
(* reply can be the first transitions of a storage, and                     *)
(* projectCpuObservedLifetimes of src/lib/cpu-observed-lifetimes.ts, which  *)
(* derives lifetimes and byte demand from rows so admitted.                 *)
(*                                                                         *)
(* Both are loops over one page, and each prefix of a page is a page: one   *)
(* step here is one row in both loops.  What one row alone decides (shape,  *)
(* sequence number, creation site) is one Boolean, sound; the access and    *)
(* the alignment, compared with those of a predecessor, are one layout.     *)
(* 0 stands for null.                                                       *)
(***************************************************************************)
EXTENDS Naturals, Sequences, FiniteSetsExt

CONSTANTS
  DispatchSpaces,  \* address spaces of dispatch scope: global, constant
  Invocations,     \* scopes of private storage
  Workgroups,      \* scopes of workgroup storage
  Layouts,         \* access and alignment of an allocation
  MaxBytes,        \* OBSERVED_U64: 2^64 - 1 in the code
  MaxRows,         \* rows of a first page: 16 in the code
  MaxAllocation,   \* bound: allocation ids tried
  MaxSlot,         \* bound: storage slots tried
  MaxSize          \* bound: bytes of one allocation

ASSUME LifetimesAssumption ==
  /\ MaxBytes \in Nat /\ MaxRows \in Nat
  /\ MaxAllocation \in Nat /\ MaxSlot \in Nat /\ MaxSize \in 0..MaxBytes

\* groupKey: an address space with the scope that owns the storage.
Groups ==
  [space : DispatchSpaces, scope : {"dispatch"}]
    \cup [space : {"private"}, scope : Invocations]
    \cup [space : {"workgroup"}, scope : Workgroups]

Slots == 1..MaxSlot
Descriptors ==
  [allocation : Nat \ {0}, slot : Slots, generation : Nat \ {0}, group : Groups, layout : Layouts, bytes : 0..MaxBytes]
Rows == [kind : {"preexisting", "create", "release"}, sound : BOOLEAN, of : Descriptors, previous : Nat]
Lifetimes == [of : Descriptors, first : Nat, preexisting : BOOLEAN, released : Nat, previous : Nat]
Demands == [live : 0..MaxBytes, peak : 0..MaxBytes, peakAt : Nat, count : Nat]

VARIABLES
  verdict,       \* reading or refused
  rows,          \* the rows admitted so far
  live, all,     \* validateLifecycle: descriptors
  occupant,      \* slots: the allocation last seen in a slot, 0 for none
  released,      \* allocations released
  lastCreation,
  lifetimes,     \* projectCpuObservedLifetimes
  open,          \* its map live: positions in lifetimes
  demand         \* its groups; one that is missing is one without bytes

vars == <<verdict, rows, live, all, occupant, released, lastCreation, lifetimes, open, demand>>

NoDemand == [live |-> 0, peak |-> 0, peakAt |-> 0, count |-> 0]

Init ==
  /\ verdict = "reading"
  /\ rows = <<>>
  /\ live = {} /\ all = {} /\ released = {} /\ lastCreation = 0
  /\ occupant = [s \in Slots |-> 0]
  /\ lifetimes = <<>> /\ open = {}
  /\ demand = [g \in Groups |-> NoDemand]

(***************************************************************************)
(* One round of validateLifecycle.                                          *)
(***************************************************************************)
Dispatched(d) == d.group.scope = "dispatch"

\* Faulty variant: a predecessor that may still be live.
SucceedsAny(r) ==
  \E p \in all :
    /\ p.allocation = r.previous /\ occupant[r.of.slot] = p.allocation
    /\ p.slot = r.of.slot /\ r.of.generation = p.generation + 1
    /\ p.group.space = r.of.group.space /\ p.layout = r.of.layout /\ p.bytes = r.of.bytes

\* The storage of the slot is that of a predecessor which was released.
Succeeds(r) ==
  \E p \in all :
    /\ p.allocation = r.previous
    /\ p.allocation \in released /\ occupant[r.of.slot] = p.allocation
    /\ p.slot = r.of.slot /\ r.of.generation = p.generation + 1
    /\ p.group.space = r.of.group.space /\ p.layout = r.of.layout /\ p.bytes = r.of.bytes

Fresh(d) == d.generation = 1 /\ occupant[d.slot] = 0

Creates(r) ==
  /\ \A d \in all : d.allocation # r.of.allocation
  /\ r.of.allocation > lastCreation
  /\ r.kind = "preexisting" <=> Dispatched(r.of)
  /\ IF r.previous = 0 THEN Fresh(r.of) ELSE r.kind = "create" /\ Succeeds(r)

Valid(r) ==
  /\ r.sound
  /\ IF r.kind = "release"
     THEN r.of \in live /\ occupant[r.of.slot] = r.of.allocation /\ r.previous = 0
     ELSE Creates(r)

Validated(r) ==
  IF r.kind = "release"
  THEN /\ live' = live \ {r.of}
       /\ released' = released \cup {r.of.allocation}
       /\ UNCHANGED <<all, occupant, lastCreation>>
  ELSE /\ live' = live \cup {r.of} /\ all' = all \cup {r.of}
       /\ occupant' = [occupant EXCEPT ![r.of.slot] = r.of.allocation]
       /\ lastCreation' = r.of.allocation
       /\ UNCHANGED released

(***************************************************************************)
(* One round of projectCpuObservedLifetimes.                                *)
(***************************************************************************)
Opened(a) == {i \in open : lifetimes[i].of.allocation = a}
Grown(r) == demand[r.of.group].live + r.of.bytes

\* What the second loop needs of a row, which the first has admitted.
Projects(r) ==
  LET g == demand[r.of.group] IN
  IF r.kind = "release"
  THEN /\ \E i \in Opened(r.of.allocation) :
            lifetimes[i].of.group = r.of.group /\ lifetimes[i].of.bytes = r.of.bytes /\ lifetimes[i].released = 0
       /\ g.live >= r.of.bytes /\ g.count > 0
  ELSE Opened(r.of.allocation) = {} /\ Grown(r) <= MaxBytes

Shrink(g, d) == [g EXCEPT !.live = @ - d.bytes, !.count = @ - 1]

\* Faulty variant: a peak that follows the bytes down again.
GrowLatest(g, d, at) ==
  LET next == g.live + d.bytes
  IN [g EXCEPT !.live = next, !.count = @ + 1, !.peak = next, !.peakAt = at]

Grow(g, d, at) ==
  LET next == g.live + d.bytes
      higher == next > g.peak
  IN [g EXCEPT !.live = next, !.count = @ + 1,
               !.peak = IF higher THEN next ELSE @, !.peakAt = IF higher THEN at ELSE @]

Lifetime(r, at) ==
  [of |-> r.of, first |-> at, preexisting |-> r.kind = "preexisting", released |-> 0, previous |-> r.previous]

\* Faulty variant: a lifetime that is not closed.
ProjectedOpen(r, at) ==
  /\ demand' = [demand EXCEPT ![r.of.group] = IF r.kind = "release" THEN Shrink(@, r.of) ELSE Grow(@, r.of, at)]
  /\ IF r.kind = "release"
     THEN open' = open \ Opened(r.of.allocation) /\ UNCHANGED lifetimes
     ELSE lifetimes' = Append(lifetimes, Lifetime(r, at)) /\ open' = open \cup {Len(lifetimes) + 1}

Projected(r, at) ==
  /\ demand' = [demand EXCEPT ![r.of.group] = IF r.kind = "release" THEN Shrink(@, r.of) ELSE Grow(@, r.of, at)]
  /\ IF r.kind = "release"
     THEN /\ lifetimes' = [i \in DOMAIN lifetimes |->
               IF i \in Opened(r.of.allocation) THEN [lifetimes[i] EXCEPT !.released = at] ELSE lifetimes[i]]
          /\ open' = open \ Opened(r.of.allocation)
     ELSE /\ lifetimes' = Append(lifetimes, Lifetime(r, at))
          /\ open' = open \cup {Len(lifetimes) + 1}

Read(r) ==
  /\ verdict = "reading" /\ Len(rows) < MaxRows
  /\ Valid(r) /\ Projects(r)
  /\ rows' = Append(rows, r)
  /\ Validated(r) /\ Projected(r, Len(rows) + 1)
  /\ UNCHANGED verdict

\* Either loop throws: no view, not a part of one, is returned.
Refuse(r) ==
  /\ verdict = "reading" /\ Len(rows) < MaxRows
  /\ ~(Valid(r) /\ Projects(r))
  /\ verdict' = "refused"
  /\ rows' = <<>>
  /\ live' = {} /\ all' = {} /\ released' = {} /\ lastCreation' = 0
  /\ occupant' = [s \in Slots |-> 0]
  /\ lifetimes' = <<>> /\ open' = {}
  /\ demand' = [g \in Groups |-> NoDemand]

\* Rows worth trying.
Candidates ==
  [kind : {"preexisting", "create", "release"}, sound : BOOLEAN,
   of : [allocation : 1..MaxAllocation, slot : Slots, generation : 1..MaxAllocation,
         group : Groups, layout : Layouts, bytes : 0..MaxSize],
   previous : 0..MaxAllocation]

Next == \E r \in Candidates : Read(r) \/ Refuse(r)

Spec == Init /\ [][Next]_vars

(***************************************************************************)
(* Properties.                                                              *)
(***************************************************************************)
Creation(s, i) == s[i].kind # "release"

\* Row i of s is a creation that the same allocation's release has not followed by row n.
Holds(s, i, n) ==
  Creation(s, i) /\ \A j \in i..n : s[j].kind = "release" => s[j].of.allocation # s[i].of.allocation

\* The creations in a slot among the first n rows.
InSlot(s, n, slot) == {i \in 1..n : Creation(s, i) /\ s[i].of.slot = slot}

\* What the storage can do next after the first n rows of s.
CanFollow(s, n, r) ==
  LET before == InSlot(s, n, r.of.slot)
      p == Max(before)
  IN IF r.kind = "release"
     THEN \* the release of what is in the slot
          /\ \E i \in before : s[i].of = r.of /\ Holds(s, i, n)
          /\ r.previous = 0
     ELSE /\ r.kind = "preexisting" <=> Dispatched(r.of)
          /\ IF before = {}
             THEN r.of.generation = 1 /\ r.previous = 0
             ELSE \* the storage of the last one there, which is gone, is used again
                  /\ r.kind = "create" /\ ~Holds(s, p, n)
                  /\ r.previous = s[p].of.allocation
                  /\ r.of.generation = s[p].of.generation + 1
                  /\ r.of.group.space = s[p].of.group.space
                  /\ r.of.layout = s[p].of.layout /\ r.of.bytes = s[p].of.bytes

\* What the first transitions of a storage can be, said of the rows alone.
History(s) ==
  /\ \A i \in DOMAIN s : s[i].sound
  /\ \A i, j \in DOMAIN s : i < j /\ Creation(s, i) /\ Creation(s, j) => s[i].of.allocation < s[j].of.allocation
  /\ \A j \in DOMAIN s : CanFollow(s, j - 1, s[j])

\* The allocations of group g that exist after n rows, each by its row, and the number of
\* their bytes.
HeldBy(s, g, n) == {i \in 1..n : s[i].of.group = g /\ Holds(s, i, n)}
BytesOf(s, held) == {c \in held \X (1..MaxBytes) : c[2] <= s[c[1]].of.bytes}
Total(s, g, n) == Cardinality(BytesOf(s, HeldBy(s, g, n)))

\* The validator refuses exactly what no storage can have done, and the second
\* loop refuses a page of the first only where the bytes of a group overflow: its
\* other demands are met by every page that was admitted.
LoopsAreExact == verdict = "reading" =>
  /\ History(rows)
  /\ Len(rows) < MaxRows =>
       \A r \in Candidates :
         /\ Valid(r) <=> History(Append(rows, r))
         /\ Valid(r) => (Projects(r) <=>
              r.kind # "release" => Total(rows, r.of.group, Len(rows)) + r.of.bytes <= MaxBytes)

\* The demand shown is that of the rows: bytes and number of what exists after the
\* last row, and the highest total after any, with the first row that reached it.
DemandIsExact ==
  \A g \in Groups :
    LET totals == {Total(rows, g, n) : n \in 0..Len(rows)} IN
    /\ demand[g].live = Total(rows, g, Len(rows))
    /\ demand[g].count = Cardinality(HeldBy(rows, g, Len(rows)))
    /\ demand[g].peak = Max(totals)
    /\ demand[g].peakAt = Min({n \in 0..Len(rows) : Total(rows, g, n) = demand[g].peak})

\* No two lifetimes share a slot at a time, and one that takes a slot over is shown
\* as the successor of one that ended, in the next generation.
SlotsAreExclusive ==
  \A i, j \in DOMAIN lifetimes : i < j /\ lifetimes[i].of.slot = lifetimes[j].of.slot =>
    /\ lifetimes[i].released # 0 /\ lifetimes[i].released < lifetimes[j].first
    /\ lifetimes[i].of.generation < lifetimes[j].of.generation
    /\ lifetimes[j].previous # 0
    /\ lifetimes[j].previous >= lifetimes[i].of.allocation

\* What the theorems add: both loops agree about what exists.
TypeOK ==
  /\ verdict \in {"reading", "refused"}
  /\ rows \in Seq(Rows)
  /\ live \subseteq Descriptors /\ all \subseteq Descriptors
  /\ occupant \in [Slots -> Nat] /\ released \subseteq Nat /\ lastCreation \in Nat
  /\ lifetimes \in Seq(Lifetimes) /\ open \subseteq DOMAIN lifetimes
  /\ demand \in [Groups -> Demands]

LifetimesAreOrdered ==
  \A i, j \in DOMAIN lifetimes : i < j => lifetimes[i].of.allocation < lifetimes[j].of.allocation

LoopsAgree ==
  /\ \A i \in DOMAIN lifetimes :
       /\ lifetimes[i].of.allocation <= lastCreation
       /\ lifetimes[i].first \in 1..Len(rows) /\ lifetimes[i].released <= Len(rows)
       /\ i \in open <=> lifetimes[i].released = 0
       /\ i \in open <=> lifetimes[i].of.allocation \notin released
  /\ \A a \in released : a <= lastCreation
  /\ all = {lifetimes[i].of : i \in DOMAIN lifetimes}
  /\ live = {lifetimes[i].of : i \in open}

\* The slot remembers the last lifetime in it, which has the highest generation.
OccupantIsLast ==
  /\ \A i \in DOMAIN lifetimes : lifetimes[i].of.allocation <= occupant[lifetimes[i].of.slot]
  /\ \A s \in Slots : occupant[s] # 0 =>
       \E i \in DOMAIN lifetimes :
         /\ lifetimes[i].of.slot = s /\ lifetimes[i].of.allocation = occupant[s]
         /\ \A k \in DOMAIN lifetimes : lifetimes[k].of.slot = s => lifetimes[k].of.generation <= lifetimes[i].of.generation

LifetimesInv == TypeOK /\ LifetimesAreOrdered /\ LoopsAgree /\ OccupantIsLast /\ SlotsAreExclusive

\* The maps of the validator, said of the rows.
MapsAgree ==
  /\ live = {rows[i].of : i \in {k \in DOMAIN rows : Holds(rows, k, Len(rows))}}
  /\ all = {rows[i].of : i \in {k \in DOMAIN rows : Creation(rows, k)}}
  /\ released = {rows[i].of.allocation : i \in {k \in DOMAIN rows : ~Creation(rows, k)}}
  /\ \A i \in DOMAIN rows : Creation(rows, i) => rows[i].of.allocation <= lastCreation
  /\ lastCreation # 0 => \E i \in DOMAIN rows : Creation(rows, i) /\ rows[i].of.allocation = lastCreation
  /\ \A slot \in Slots :
       LET before == InSlot(rows, Len(rows), slot)
       IN occupant[slot] = IF before = {} THEN 0 ELSE rows[Max(before)].of.allocation

\* The demand of a group, said of the rows; peakAt is the first row that reached the peak.
DemandAgrees ==
  \A g \in Groups :
    /\ demand[g].live = Total(rows, g, Len(rows))
    /\ demand[g].count = Cardinality(HeldBy(rows, g, Len(rows)))
    /\ demand[g].peakAt \in 0..Len(rows)
    /\ Total(rows, g, demand[g].peakAt) = demand[g].peak
    /\ \A n \in 0..Len(rows) :
         Total(rows, g, n) <= demand[g].peak /\ (Total(rows, g, n) = demand[g].peak => demand[g].peakAt <= n)

RowsInv == History(rows) /\ MapsAgree /\ DemandAgrees

=============================================================================
