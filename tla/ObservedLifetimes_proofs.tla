------------------------ MODULE ObservedLifetimes_proofs ------------------------
(***************************************************************************)
(* Theorems about ObservedLifetimes, for pages of any length, any scopes,   *)
(* slots and sizes.                                                         *)
(*                                                                         *)
(* Allocations are numbered upwards, so the last lifetime in a slot is the  *)
(* one that the validator's map of slots names; it is the only one there    *)
(* that may still be open.                                                  *)
(*                                                                         *)
(* What both loops have kept is then said of the rows alone: a row is       *)
(* admitted exactly when it continues their history, and the demand of a    *)
(* group counts the bytes of the rows that hold.                            *)
(***************************************************************************)
EXTENDS ObservedLifetimes, FiniteSetTheorems, WellFoundedInduction, TLAPS

USE LifetimesAssumption DEF LifetimesAssumption

\* Rows worth trying are rows.
LEMMA CandidatesAreRows ==
  ASSUME NEW r \in Candidates
  PROVE  /\ r \in Rows /\ r.of \in Descriptors /\ r.previous \in Nat
         /\ r.of.allocation \in Nat \ {0} /\ r.of.slot \in Slots /\ r.of.generation \in Nat
         /\ r.of.group \in Groups /\ r.of.bytes \in 0..MaxBytes
<1>1. r.of \in [allocation : 1..MaxAllocation, slot : Slots, generation : 1..MaxAllocation,
                group : Groups, layout : Layouts, bytes : 0..MaxSize]
      /\ r.kind \in {"preexisting", "create", "release"} /\ r.sound \in BOOLEAN /\ r.previous \in 0..MaxAllocation
      /\ r = [kind |-> r.kind, sound |-> r.sound, of |-> r.of, previous |-> r.previous]
  BY DEF Candidates
<1>2. /\ r.of.allocation \in 1..MaxAllocation /\ r.of.slot \in Slots /\ r.of.generation \in 1..MaxAllocation
      /\ r.of.group \in Groups /\ r.of.layout \in Layouts /\ r.of.bytes \in 0..MaxSize
      /\ r.of = [allocation |-> r.of.allocation, slot |-> r.of.slot, generation |-> r.of.generation,
                 group |-> r.of.group, layout |-> r.of.layout, bytes |-> r.of.bytes]
  BY <1>1
<1>3. \A k \in 1..MaxAllocation : k \in Nat \ {0}
  OBVIOUS
<1>4. \A k \in 0..MaxSize : k \in 0..MaxBytes
  OBVIOUS
<1>5. r.of \in Descriptors
  BY <1>2, <1>3, <1>4 DEF Descriptors
<1>6. r \in Rows
  BY <1>1, <1>5 DEF Rows
<1> QED BY <1>1, <1>2, <1>3, <1>4, <1>5, <1>6

\* Facts about single lifetimes, slots and descriptors.
LEMMA LifetimeFacts ==
  ASSUME TypeOK
  PROVE  /\ Len(lifetimes) \in Nat /\ DOMAIN lifetimes = 1..Len(lifetimes) /\ Len(rows) \in Nat
         /\ \A i \in DOMAIN lifetimes :
              /\ lifetimes[i] \in Lifetimes /\ lifetimes[i].of \in Descriptors
              /\ lifetimes[i].first \in Nat /\ lifetimes[i].released \in Nat /\ lifetimes[i].previous \in Nat
              /\ lifetimes[i].of.allocation \in Nat \ {0} /\ lifetimes[i].of.slot \in Slots
              /\ lifetimes[i].of.generation \in Nat
         /\ \A s \in Slots : occupant[s] \in Nat
<1>1. /\ Len(lifetimes) \in Nat /\ DOMAIN lifetimes = 1..Len(lifetimes) /\ Len(rows) \in Nat
      /\ \A i \in DOMAIN lifetimes : lifetimes[i] \in Lifetimes
  BY DEF TypeOK
<1>2. \A i \in DOMAIN lifetimes :
        /\ lifetimes[i].of \in Descriptors /\ lifetimes[i].first \in Nat
        /\ lifetimes[i].released \in Nat /\ lifetimes[i].previous \in Nat
  BY <1>1 DEF Lifetimes
<1>3. \A d \in Descriptors : d.allocation \in Nat \ {0} /\ d.slot \in Slots /\ d.generation \in Nat
  BY DEF Descriptors
<1> QED BY <1>1, <1>2, <1>3 DEF TypeOK

\* A page starts with nothing in either loop.
LEMMA InitHolds == Init => LifetimesInv
<1> SUFFICES ASSUME Init PROVE LifetimesInv
  OBVIOUS
<1>1. demand \in [Groups -> Demands]
  BY DEF Init, NoDemand, Demands
<1>2. TypeOK
  BY <1>1 DEF Init, TypeOK
<1>3. DOMAIN lifetimes = {} /\ open = {} /\ live = {} /\ all = {} /\ released = {}
  BY DEF Init
<1>4. LoopsAgree
  BY <1>3 DEF LoopsAgree
<1>5. OccupantIsLast
  BY <1>3 DEF OccupantIsLast, Init
<1> QED BY <1>2, <1>3, <1>4, <1>5 DEF LifetimesInv, LifetimesAreOrdered, SlotsAreExclusive

\* A refusal leaves nothing of the page.
LEMMA RefuseKeeps ==
  ASSUME NEW r \in Candidates, Refuse(r)
  PROVE  LifetimesInv'
<1>1. demand' \in [Groups -> Demands]
  BY DEF Refuse, NoDemand, Demands
<1>2. /\ DOMAIN lifetimes' = {} /\ open' = {} /\ live' = {} /\ all' = {} /\ released' = {}
      /\ lifetimes' = <<>> /\ rows' = <<>> /\ lastCreation' = 0 /\ occupant' = [s \in Slots |-> 0]
      /\ verdict' = "refused"
  BY DEF Refuse
<1>3. TypeOK'
  BY <1>1, <1>2 DEF TypeOK
<1>4. LoopsAgree'
  BY <1>2 DEF LoopsAgree
<1>5. OccupantIsLast'
  BY <1>2 DEF OccupantIsLast
<1> QED BY <1>2, <1>3, <1>4, <1>5 DEF LifetimesInv, LifetimesAreOrdered, SlotsAreExclusive

\* The demand after a release.
LEMMA ShrinkIsDemand ==
  ASSUME NEW g \in Demands, NEW d \in Descriptors, g.live >= d.bytes, g.count > 0
  PROVE  Shrink(g, d) \in Demands
<1>1. d.bytes \in 0..MaxBytes
  BY DEF Descriptors
<1>2. g.live - d.bytes \in 0..MaxBytes /\ g.count - 1 \in Nat
  BY <1>1 DEF Demands
<1> QED BY <1>2 DEF Shrink, Demands

\* The demand after a creation.
LEMMA GrowIsDemand ==
  ASSUME NEW g \in Demands, NEW d \in Descriptors, NEW at \in Nat, g.live + d.bytes <= MaxBytes
  PROVE  Grow(g, d, at) \in Demands
<1> DEFINE next == g.live + d.bytes
<1>1. d.bytes \in 0..MaxBytes
  BY DEF Descriptors
<1>2. next \in 0..MaxBytes /\ g.count + 1 \in Nat
  BY <1>1 DEF Demands
<1> HIDE DEF next
<1>3. Grow(g, d, at) =
        [g EXCEPT !.live = next, !.count = @ + 1,
                  !.peak = IF next > g.peak THEN next ELSE @, !.peakAt = IF next > g.peak THEN at ELSE @]
  BY DEF Grow, next
<1> QED BY <1>2, <1>3 DEF Demands

\* The demand stays within 64 bits.
LEMMA DemandKeeps ==
  ASSUME TypeOK, NEW r \in Candidates, Read(r)
  PROVE  demand' \in [Groups -> Demands]
<1> DEFINE g == demand[r.of.group]
<1>1. g \in Demands /\ r.of.group \in Groups /\ r.of \in Descriptors
  BY CandidatesAreRows DEF TypeOK
<1>2. Len(rows) + 1 \in Nat
  BY DEF TypeOK
<1>3. CASE r.kind = "release"
  <2>1. Shrink(g, r.of) \in Demands
    BY <1>1, <1>3, ShrinkIsDemand DEF Read, Projects
  <2> QED BY <1>3, <2>1 DEF TypeOK, Read, Projected
<1>4. CASE r.kind # "release"
  <2>1. Grow(g, r.of, Len(rows) + 1) \in Demands
    BY <1>1, <1>2, <1>4, GrowIsDemand DEF Read, Projects, Grown
  <2> QED BY <1>4, <2>1 DEF TypeOK, Read, Projected
<1> QED BY <1>3, <1>4

\* The end of a lifetime.
LEMMA ReleaseKeeps ==
  ASSUME LifetimesInv, NEW r \in Candidates, Read(r), r.kind = "release"
  PROVE  LifetimesInv'
<1> DEFINE n == Len(lifetimes)
           a == r.of.allocation
           at == Len(rows) + 1
<1>1. /\ n \in Nat /\ DOMAIN lifetimes = 1..n /\ Len(rows) \in Nat /\ open \subseteq 1..n
      /\ \A i \in 1..n :
           /\ lifetimes[i] \in Lifetimes /\ lifetimes[i].of \in Descriptors
           /\ lifetimes[i].first \in Nat /\ lifetimes[i].released \in Nat /\ lifetimes[i].previous \in Nat
           /\ lifetimes[i].of.allocation \in Nat \ {0} /\ lifetimes[i].of.slot \in Slots
           /\ lifetimes[i].of.generation \in Nat
  BY LifetimeFacts DEF LifetimesInv, TypeOK
<1>2. /\ r.of \in live /\ occupant[r.of.slot] = a /\ rows' = Append(rows, r)
      /\ live' = live \ {r.of} /\ released' = released \cup {a}
      /\ UNCHANGED <<all, occupant, lastCreation, verdict>>
      /\ open' = open \ Opened(a)
      /\ lifetimes' = [i \in DOMAIN lifetimes |-> IF i \in Opened(a) THEN [lifetimes[i] EXCEPT !.released = at] ELSE lifetimes[i]]
  BY DEF Read, Valid, Validated, Projected
<1>3. r \in Rows /\ r.of \in Descriptors /\ a \in Nat \ {0} /\ r.of.slot \in Slots
  BY CandidatesAreRows
<1>4. PICK m \in open : lifetimes[m].of = r.of
  BY <1>2 DEF LifetimesInv, LoopsAgree
<1>5. m \in 1..n /\ \A i \in 1..n : lifetimes[i].of.allocation = a => i = m
  <2>1. m \in 1..n /\ lifetimes[m].of.allocation = a
    BY <1>1, <1>4
  <2>2. \A i, j \in 1..n : i < j => lifetimes[i].of.allocation < lifetimes[j].of.allocation
    BY <1>1 DEF LifetimesInv, LifetimesAreOrdered
  <2>3. \A i \in 1..n : i < m \/ i = m \/ m < i
    BY <2>1
  <2>4. \A i \in 1..n : lifetimes[i].of.allocation \in Nat
    BY <1>1
  <2> QED BY <2>1, <2>2, <2>3, <2>4
<1>6. Opened(a) = {m}
  BY <1>1, <1>4, <1>5 DEF Opened
<1>7. /\ DOMAIN lifetimes' = 1..n /\ Len(lifetimes') = n
      /\ lifetimes'[m] = [lifetimes[m] EXCEPT !.released = at]
      /\ \A i \in 1..n : i # m => lifetimes'[i] = lifetimes[i]
      /\ lifetimes' \in Seq(Lifetimes)
  <2>1. at \in Nat
    BY <1>1
  <2>2. [lifetimes[m] EXCEPT !.released = at] \in Lifetimes
    BY <1>1, <1>5, <2>1 DEF Lifetimes
  <2>3. lifetimes' = [i \in 1..n |-> IF i = m THEN [lifetimes[i] EXCEPT !.released = at] ELSE lifetimes[i]]
    BY <1>1, <1>2, <1>6
  <2>4. lifetimes' \in [1..n -> Lifetimes]
    BY <1>1, <2>2, <2>3
  <2>5. lifetimes' \in Seq(Lifetimes) /\ Len(lifetimes') = n
    BY <1>1, <2>4
  <2>6. DOMAIN lifetimes' = 1..n
    BY <2>3
  <2>7. lifetimes'[m] = [lifetimes[m] EXCEPT !.released = at]
    BY <1>5, <2>3
  <2>8. \A i \in 1..n : i # m => lifetimes'[i] = lifetimes[i]
    BY <2>3
  <2> QED BY <2>5, <2>6, <2>7, <2>8
<1>8. /\ \A i \in 1..n : /\ lifetimes'[i].of = lifetimes[i].of /\ lifetimes'[i].first = lifetimes[i].first
                         /\ lifetimes'[i].previous = lifetimes[i].previous
                         /\ i # m => lifetimes'[i].released = lifetimes[i].released
      /\ lifetimes'[m].released = at
  <2>1. lifetimes[m] \in Lifetimes
    BY <1>1, <1>5
  <2>2. /\ lifetimes'[m].of = lifetimes[m].of /\ lifetimes'[m].first = lifetimes[m].first
        /\ lifetimes'[m].previous = lifetimes[m].previous /\ lifetimes'[m].released = at
    BY <1>7, <2>1 DEF Lifetimes
  <2> QED BY <1>7, <2>2
<1>9. rows' \in Seq(Rows) /\ Len(rows') = at
  BY <1>2, <1>3 DEF LifetimesInv, TypeOK
<1>10. open' = open \ {m}
  BY <1>2, <1>6
<1>11. TypeOK'
  BY <1>1, <1>2, <1>3, <1>7, <1>9, <1>10, DemandKeeps DEF LifetimesInv, TypeOK
<1>12. LifetimesAreOrdered'
  BY <1>1, <1>7, <1>8 DEF LifetimesInv, LifetimesAreOrdered
<1>13. LoopsAgree'
  <2>1. \A i \in 1..n :
          /\ lifetimes'[i].of.allocation <= lastCreation'
          /\ lifetimes'[i].first \in 1..Len(rows') /\ lifetimes'[i].released <= Len(rows')
    <3>1. \A i \in 1..n : lifetimes[i].of.allocation <= lastCreation
                          /\ lifetimes[i].first \in 1..Len(rows) /\ lifetimes[i].released <= Len(rows)
      BY <1>1 DEF LifetimesInv, LoopsAgree
    <3> QED BY <1>1, <1>2, <1>5, <1>8, <1>9, <3>1
  <2>2. \A i \in 1..n : i \in open' <=> lifetimes'[i].released = 0
    <3>1. \A i \in 1..n : i \in open <=> lifetimes[i].released = 0
      BY <1>1 DEF LifetimesInv, LoopsAgree
    <3>2. at # 0
      BY <1>1
    <3> QED BY <1>5, <1>8, <1>10, <3>1, <3>2
  <2>3. \A i \in 1..n : i \in open' <=> lifetimes'[i].of.allocation \notin released'
    <3>1. \A i \in 1..n : i \in open <=> lifetimes[i].of.allocation \notin released
      BY <1>1 DEF LifetimesInv, LoopsAgree
    <3>2. lifetimes[m].of.allocation = a
      BY <1>4
    <3> QED BY <1>2, <1>5, <1>8, <1>10, <3>1, <3>2
  <2>4. \A b \in released' : b <= lastCreation'
    <3>1. a <= lastCreation
      BY <1>1, <1>4, <1>5 DEF LifetimesInv, LoopsAgree
    <3>2. \A b \in released : b <= lastCreation
      BY DEF LifetimesInv, LoopsAgree
    <3> QED BY <1>2, <3>1, <3>2
  <2>5. all' = {lifetimes'[i].of : i \in 1..n}
    BY <1>1, <1>2, <1>8 DEF LifetimesInv, LoopsAgree
  <2>6. live' = {lifetimes'[i].of : i \in open'}
    <3>1. live = {lifetimes[i].of : i \in open}
      BY DEF LifetimesInv, LoopsAgree
    <3>2. \A i \in open : i # m => lifetimes[i].of # r.of
      BY <1>1, <1>5
    <3>3. \A i \in open' : i \in 1..n /\ lifetimes'[i].of = lifetimes[i].of
      BY <1>1, <1>8, <1>10
    <3>4. live' = {lifetimes[i].of : i \in open'}
      BY <1>2, <1>4, <1>10, <3>1, <3>2
    <3> QED BY <3>3, <3>4
  <2> QED BY <1>7, <2>1, <2>2, <2>3, <2>4, <2>5, <2>6 DEF LoopsAgree
<1>14. OccupantIsLast'
  <2>1. \A i \in 1..n : lifetimes'[i].of.allocation <= occupant'[lifetimes'[i].of.slot]
    BY <1>1, <1>2, <1>8 DEF LifetimesInv, OccupantIsLast
  <2>2. \A s \in Slots : occupant[s] # 0 =>
          \E i \in 1..n :
            /\ lifetimes[i].of.slot = s /\ lifetimes[i].of.allocation = occupant[s]
            /\ \A k \in 1..n : lifetimes[k].of.slot = s => lifetimes[k].of.generation <= lifetimes[i].of.generation
    BY <1>1 DEF LifetimesInv, OccupantIsLast
  <2>3. \A s \in Slots : occupant'[s] # 0 =>
          \E i \in 1..n :
            /\ lifetimes'[i].of.slot = s /\ lifetimes'[i].of.allocation = occupant'[s]
            /\ \A k \in 1..n : lifetimes'[k].of.slot = s => lifetimes'[k].of.generation <= lifetimes'[i].of.generation
    <3> SUFFICES ASSUME NEW s \in Slots, occupant'[s] # 0
                 PROVE  \E i \in 1..n :
                          /\ lifetimes'[i].of.slot = s /\ lifetimes'[i].of.allocation = occupant'[s]
                          /\ \A k \in 1..n : lifetimes'[k].of.slot = s => lifetimes'[k].of.generation <= lifetimes'[i].of.generation
      OBVIOUS
    <3>1. occupant'[s] = occupant[s]
      BY <1>2
    <3>2. PICK i \in 1..n :
            /\ lifetimes[i].of.slot = s /\ lifetimes[i].of.allocation = occupant[s]
            /\ \A k \in 1..n : lifetimes[k].of.slot = s => lifetimes[k].of.generation <= lifetimes[i].of.generation
      BY <2>2, <3>1
    <3>3. \A k \in 1..n : lifetimes'[k].of = lifetimes[k].of
      BY <1>8
    <3> QED BY <3>1, <3>2, <3>3
  <2> QED BY <1>7, <2>1, <2>3 DEF OccupantIsLast
<1>15. SlotsAreExclusive'
  <2>1. \A i, j \in 1..n : i < j /\ lifetimes[i].of.slot = lifetimes[j].of.slot =>
          /\ lifetimes[i].released # 0 /\ lifetimes[i].released < lifetimes[j].first
          /\ lifetimes[i].of.generation < lifetimes[j].of.generation
          /\ lifetimes[j].previous # 0 /\ lifetimes[j].previous >= lifetimes[i].of.allocation
    BY <1>1 DEF LifetimesInv, SlotsAreExclusive
  <2>2. lifetimes[m].released = 0
    BY <1>1, <1>4 DEF LifetimesInv, LoopsAgree
  <2>3. \A i, j \in 1..n : i < j /\ lifetimes'[i].of.slot = lifetimes'[j].of.slot =>
          /\ lifetimes'[i].released # 0 /\ lifetimes'[i].released < lifetimes'[j].first
          /\ lifetimes'[i].of.generation < lifetimes'[j].of.generation
          /\ lifetimes'[j].previous # 0 /\ lifetimes'[j].previous >= lifetimes'[i].of.allocation
    BY <1>8, <2>1, <2>2
  <2> QED BY <1>7, <2>3 DEF SlotsAreExclusive
<1> QED BY <1>11, <1>12, <1>13, <1>14, <1>15 DEF LifetimesInv

\* The start of a lifetime.
LEMMA CreateKeeps ==
  ASSUME LifetimesInv, NEW r \in Candidates, Read(r), r.kind # "release"
  PROVE  LifetimesInv'
<1> DEFINE n == Len(lifetimes)
           a == r.of.allocation
           s == r.of.slot
           at == Len(rows) + 1
           x == Lifetime(r, at)
<1>1. /\ n \in Nat /\ DOMAIN lifetimes = 1..n /\ Len(rows) \in Nat /\ open \subseteq 1..n
      /\ \A i \in 1..n :
           /\ lifetimes[i] \in Lifetimes /\ lifetimes[i].of \in Descriptors
           /\ lifetimes[i].first \in Nat /\ lifetimes[i].released \in Nat /\ lifetimes[i].previous \in Nat
           /\ lifetimes[i].of.allocation \in Nat \ {0} /\ lifetimes[i].of.slot \in Slots
           /\ lifetimes[i].of.generation \in Nat
      /\ occupant \in [Slots -> Nat] /\ released \subseteq Nat /\ lastCreation \in Nat
  BY LifetimeFacts DEF LifetimesInv, TypeOK
<1>2. /\ Creates(r) /\ a > lastCreation /\ rows' = Append(rows, r)
      /\ live' = live \cup {r.of} /\ all' = all \cup {r.of} /\ occupant' = [occupant EXCEPT ![s] = a]
      /\ lastCreation' = a /\ released' = released /\ verdict' = verdict
      /\ lifetimes' = Append(lifetimes, x) /\ open' = open \cup {n + 1}
  BY DEF Read, Valid, Creates, Validated, Projected
<1>3. /\ r \in Rows /\ r.of \in Descriptors /\ a \in Nat \ {0} /\ s \in Slots
      /\ r.of.generation \in Nat /\ r.previous \in Nat
  BY CandidatesAreRows
<1>4. x \in Lifetimes /\ x.of = r.of /\ x.first = at /\ x.released = 0 /\ x.previous = r.previous
  BY <1>1, <1>3 DEF Lifetime, Lifetimes
<1> HIDE DEF x
<1>5. /\ lifetimes' \in Seq(Lifetimes) /\ DOMAIN lifetimes' = 1..n + 1 /\ Len(lifetimes') = n + 1
      /\ lifetimes'[n + 1] = x /\ \A i \in 1..n : lifetimes'[i] = lifetimes[i]
  BY <1>1, <1>2, <1>4 DEF LifetimesInv, TypeOK
<1>6. n \in Nat /\ (\A i \in 1..n : i \in 1..n + 1) /\ n + 1 \in 1..n + 1 /\ n + 1 \notin 1..n
      /\ \A i \in 1..n + 1 : i \in 1..n \/ i = n + 1
  <2>1. n \in Nat
    BY <1>1
  <2> QED BY <2>1
<1>7. rows' \in Seq(Rows) /\ Len(rows') = at
  BY <1>2, <1>3 DEF LifetimesInv, TypeOK
<1>8. occupant' \in [Slots -> Nat] /\ occupant'[s] = a /\ \A t \in Slots : t # s => occupant'[t] = occupant[t]
  BY <1>1, <1>2, <1>3
<1>9. \A i \in 1..n : lifetimes[i].of.allocation <= lastCreation /\ lifetimes[i].of.allocation < a
  <2>1. \A i \in 1..n : lifetimes[i].of.allocation <= lastCreation
    BY <1>1 DEF LifetimesInv, LoopsAgree
  <2> QED BY <1>1, <1>2, <1>3, <2>1
<1>10. n + 1 \notin open /\ a \notin released
  BY <1>1, <1>2, <1>3 DEF LifetimesInv, LoopsAgree
\* What the slot has seen is over, and in earlier generations.
<1>11. \A i \in 1..n : lifetimes[i].of.slot = s =>
         /\ lifetimes[i].released # 0
         /\ lifetimes[i].of.generation < r.of.generation
         /\ r.previous # 0 /\ r.previous >= lifetimes[i].of.allocation
  <2> SUFFICES ASSUME NEW i \in 1..n, lifetimes[i].of.slot = s
               PROVE  /\ lifetimes[i].released # 0
                      /\ lifetimes[i].of.generation < r.of.generation
                      /\ r.previous # 0 /\ r.previous >= lifetimes[i].of.allocation
    OBVIOUS
  <2>1. lifetimes[i].of.allocation <= occupant[s] /\ occupant[s] # 0 /\ occupant[s] \in Nat
    BY <1>1, <1>3, SMTT(30) DEF LifetimesInv, OccupantIsLast
  <2>2. r.previous # 0 /\ Succeeds(r)
    BY <1>2, <2>1 DEF Creates, Fresh
  <2>3. PICK p \in all : /\ p.allocation = r.previous /\ p.allocation \in released
                         /\ occupant[s] = p.allocation /\ r.of.generation = p.generation + 1
    BY <2>2 DEF Succeeds
  <2>4. PICK k \in 1..n : lifetimes[k].of = p
    BY <1>1 DEF LifetimesInv, LoopsAgree
  <2>5. PICK m \in 1..n :
          /\ lifetimes[m].of.slot = s /\ lifetimes[m].of.allocation = occupant[s]
          /\ \A j \in 1..n : lifetimes[j].of.slot = s => lifetimes[j].of.generation <= lifetimes[m].of.generation
    <3>1. \A t \in Slots : occupant[t] # 0 =>
            \E m \in 1..n :
              /\ lifetimes[m].of.slot = t /\ lifetimes[m].of.allocation = occupant[t]
              /\ \A j \in 1..n : lifetimes[j].of.slot = t => lifetimes[j].of.generation <= lifetimes[m].of.generation
      BY <1>1 DEF LifetimesInv, OccupantIsLast
    <3> QED BY <1>3, <2>1, <3>1
  <2>6. k = m
    <3>1. \A j, l \in 1..n : j < l => lifetimes[j].of.allocation < lifetimes[l].of.allocation
      BY <1>1 DEF LifetimesInv, LifetimesAreOrdered
    <3>2. lifetimes[k].of.allocation = lifetimes[m].of.allocation
      BY <2>3, <2>4, <2>5
    <3>3. lifetimes[k].of.allocation \in Nat /\ k \in Nat /\ m \in Nat /\ k \in 1..n /\ m \in 1..n
      BY <1>1, <2>4, <2>5
    <3>4. k < m => lifetimes[k].of.allocation < lifetimes[m].of.allocation
      BY <3>1, <3>3
    <3>5. m < k => lifetimes[m].of.allocation < lifetimes[k].of.allocation
      BY <3>1, <3>3
    <3> QED BY <3>2, <3>3, <3>4, <3>5
  <2>7. lifetimes[i].of.generation < r.of.generation
    <3>1. lifetimes[i].of.generation <= p.generation
      BY <2>4, <2>5, <2>6
    <3>2. p.generation \in Nat /\ lifetimes[i].of.generation \in Nat
      BY <1>1, <2>4
    <3> QED BY <2>3, <3>1, <3>2
  <2>8. lifetimes[m].released # 0
    BY <1>1, <2>3, <2>4, <2>6 DEF LifetimesInv, LoopsAgree
  <2>9. lifetimes[i].released # 0
    <3>1. CASE i = m
      BY <2>8, <3>1
    <3>2. CASE i # m
      <4>1. \A j, l \in 1..n : j < l => lifetimes[j].of.allocation < lifetimes[l].of.allocation
        BY <1>1 DEF LifetimesInv, LifetimesAreOrdered
      <4>2. lifetimes[i].of.allocation <= lifetimes[m].of.allocation
        BY <2>1, <2>5
      <4>3. lifetimes[i].of.allocation \in Nat /\ lifetimes[m].of.allocation \in Nat
        BY <1>1
      <4>4. i < m
        BY <1>1, <3>2, <4>1, <4>2, <4>3
      <4> QED BY <1>1, <2>5, <4>4 DEF LifetimesInv, SlotsAreExclusive
    <3> QED BY <3>1, <3>2
  <2> QED BY <2>1, <2>2, <2>3, <2>7, <2>9
<1>12. TypeOK'
  <2>1. open' \subseteq 1..n + 1
    <3>1. open \subseteq 1..n
      BY <1>1
    <3> QED BY <1>2, <1>6, <3>1
  <2> QED BY <1>2, <1>3, <1>5, <1>7, <1>8, <2>1, DemandKeeps DEF LifetimesInv, TypeOK
<1>13. LifetimesAreOrdered'
  <2>1. \A i, j \in 1..n : i < j => lifetimes[i].of.allocation < lifetimes[j].of.allocation
    BY <1>1 DEF LifetimesInv, LifetimesAreOrdered
  <2>2. \A i, j \in 1..n + 1 : i < j => lifetimes'[i].of.allocation < lifetimes'[j].of.allocation
    BY <1>1, <1>4, <1>5, <1>6, <1>9, <2>1
  <2> QED BY <1>5, <2>2 DEF LifetimesAreOrdered
<1>14. LoopsAgree'
  <2>1. \A i \in 1..n :
          /\ lifetimes[i].first \in 1..Len(rows) /\ lifetimes[i].released <= Len(rows)
          /\ i \in open <=> lifetimes[i].released = 0
          /\ i \in open <=> lifetimes[i].of.allocation \notin released
    BY <1>1 DEF LifetimesInv, LoopsAgree
  <2>2. \A i \in 1..n : i \in open' <=> i \in open
    BY <1>1, <1>2
  <2>3. \A i \in 1..n :
          /\ lifetimes'[i].of.allocation <= lastCreation'
          /\ lifetimes'[i].first \in 1..Len(rows') /\ lifetimes'[i].released <= Len(rows')
          /\ i \in open' <=> lifetimes'[i].released = 0
          /\ i \in open' <=> lifetimes'[i].of.allocation \notin released'
    <3> SUFFICES ASSUME NEW i \in 1..n
                 PROVE  /\ lifetimes'[i].of.allocation <= lastCreation'
                        /\ lifetimes'[i].first \in 1..Len(rows') /\ lifetimes'[i].released <= Len(rows')
                        /\ i \in open' <=> lifetimes'[i].released = 0
                        /\ i \in open' <=> lifetimes'[i].of.allocation \notin released'
      OBVIOUS
    <3>1. lifetimes'[i] = lifetimes[i] /\ (i \in open' <=> i \in open)
      BY <1>5, <2>2
    <3>2. lifetimes[i].of.allocation <= a
      BY <1>1, <1>3, <1>9
    <3>3. lifetimes[i].first \in 1..at /\ lifetimes[i].released <= at
      BY <1>1, <2>1
    <3> QED BY <1>2, <1>7, <2>1, <3>1, <3>2, <3>3
  <2>4. /\ x.of.allocation <= lastCreation'
        /\ x.first \in 1..Len(rows') /\ x.released <= Len(rows')
        /\ n + 1 \in open' <=> x.released = 0
        /\ n + 1 \in open' <=> x.of.allocation \notin released'
    BY <1>1, <1>2, <1>3, <1>4, <1>7, <1>10
  <2>5. \A b \in released' : b <= lastCreation'
    BY <1>1, <1>2, <1>3 DEF LifetimesInv, LoopsAgree
  <2>6. all' = {lifetimes'[i].of : i \in 1..n + 1}
    <3>1. all = {lifetimes[i].of : i \in 1..n}
      BY <1>1 DEF LifetimesInv, LoopsAgree
    <3>2. n + 1 \in 1..n + 1 /\ \A i \in 1..n : i \in 1..n + 1
      BY <1>1
    <3> QED BY <1>2, <1>4, <1>5, <1>6, <3>1, <3>2
  <2>7. live' = {lifetimes'[i].of : i \in open'}
    <3>1. live = {lifetimes[i].of : i \in open}
      BY DEF LifetimesInv, LoopsAgree
    <3>2. \A i \in open : lifetimes'[i].of = lifetimes[i].of
      BY <1>1, <1>5
    <3>3. lifetimes'[n + 1].of = r.of /\ open' = open \cup {n + 1}
      BY <1>2, <1>4, <1>5
    <3>4. {lifetimes'[i].of : i \in open'} = {lifetimes'[i].of : i \in open} \cup {r.of}
      BY <3>3
    <3>5. {lifetimes'[i].of : i \in open} = live
      BY <3>1, <3>2
    <3> QED BY <1>2, <3>4, <3>5
  <2> QED BY <1>5, <1>6, <2>3, <2>4, <2>5, <2>6, <2>7 DEF LoopsAgree
<1>15. OccupantIsLast'
  <2>1. \A i \in 1..n + 1 : lifetimes'[i].of.allocation <= occupant'[lifetimes'[i].of.slot]
    <3>1. \A i \in 1..n : lifetimes[i].of.allocation <= occupant[lifetimes[i].of.slot]
      BY <1>1 DEF LifetimesInv, OccupantIsLast
    <3>2. ASSUME NEW i \in 1..n
          PROVE  lifetimes'[i].of.allocation <= occupant'[lifetimes'[i].of.slot]
      <4>1. lifetimes[i].of.allocation < a /\ lifetimes[i].of.slot \in Slots
            /\ lifetimes[i].of.allocation \in Nat /\ a \in Nat
        BY <1>1, <1>3, <1>9
      <4> QED BY <1>5, <1>8, <3>1, <4>1
    <3>3. lifetimes'[n + 1].of.allocation <= occupant'[lifetimes'[n + 1].of.slot]
      BY <1>3, <1>4, <1>5, <1>8
    <3> QED BY <1>6, <3>2, <3>3
  <2>2. ASSUME NEW t \in Slots, occupant'[t] # 0
        PROVE  \E i \in 1..n + 1 :
                 /\ lifetimes'[i].of.slot = t /\ lifetimes'[i].of.allocation = occupant'[t]
                 /\ \A k \in 1..n + 1 : lifetimes'[k].of.slot = t => lifetimes'[k].of.generation <= lifetimes'[i].of.generation
    <3>1. CASE t = s
      <4>1. n + 1 \in 1..n + 1 /\ lifetimes'[n + 1].of = r.of
        BY <1>1, <1>4, <1>5
      <4>2. \A k \in 1..n : lifetimes'[k].of.slot = s => lifetimes'[k].of.generation <= r.of.generation
        BY <1>1, <1>3, <1>5, <1>11
      <4>3. r.of.generation <= r.of.generation
        BY <1>3
      <4>4. \A k \in 1..n + 1 : lifetimes'[k].of.slot = s => lifetimes'[k].of.generation <= lifetimes'[n + 1].of.generation
        BY <1>6, <4>1, <4>2, <4>3
      <4> QED BY <1>8, <3>1, <4>1, <4>4
    <3>2. CASE t # s
      <4>1. PICK i \in 1..n :
              /\ lifetimes[i].of.slot = t /\ lifetimes[i].of.allocation = occupant[t]
              /\ \A k \in 1..n : lifetimes[k].of.slot = t => lifetimes[k].of.generation <= lifetimes[i].of.generation
        BY <1>1, <1>8, <2>2, <3>2 DEF LifetimesInv, OccupantIsLast
      <4>2. i \in 1..n + 1 /\ lifetimes'[i] = lifetimes[i]
        BY <1>1, <1>5
      <4>3. \A k \in 1..n + 1 : lifetimes'[k].of.slot = t => lifetimes'[k].of.generation <= lifetimes'[i].of.generation
        BY <1>4, <1>5, <1>6, <3>2, <4>1, <4>2
      <4> QED BY <1>8, <3>2, <4>1, <4>2, <4>3
    <3> QED BY <3>1, <3>2
  <2> QED BY <1>5, <2>1, <2>2 DEF OccupantIsLast
<1>16. SlotsAreExclusive'
  <2>1. \A i, j \in 1..n : i < j /\ lifetimes[i].of.slot = lifetimes[j].of.slot =>
          /\ lifetimes[i].released # 0 /\ lifetimes[i].released < lifetimes[j].first
          /\ lifetimes[i].of.generation < lifetimes[j].of.generation
          /\ lifetimes[j].previous # 0 /\ lifetimes[j].previous >= lifetimes[i].of.allocation
    BY <1>1 DEF LifetimesInv, SlotsAreExclusive
  <2>2. \A i \in 1..n : lifetimes[i].released < at
    BY <1>1 DEF LifetimesInv, LoopsAgree
  <2>3. ASSUME NEW i \in 1..n + 1, NEW j \in 1..n + 1, i < j, lifetimes'[i].of.slot = lifetimes'[j].of.slot
        PROVE  /\ lifetimes'[i].released # 0 /\ lifetimes'[i].released < lifetimes'[j].first
               /\ lifetimes'[i].of.generation < lifetimes'[j].of.generation
               /\ lifetimes'[j].previous # 0 /\ lifetimes'[j].previous >= lifetimes'[i].of.allocation
    <3>1. i \in 1..n
      BY <1>1, <2>3
    <3>2. CASE j \in 1..n
      BY <1>5, <2>1, <2>3, <3>1, <3>2
    <3>3. CASE j = n + 1
      BY <1>4, <1>5, <1>11, <2>2, <2>3, <3>1, <3>3
    <3> QED BY <1>6, <3>2, <3>3
  <2> QED BY <1>5, <2>3 DEF SlotsAreExclusive
<1> QED BY <1>12, <1>13, <1>14, <1>15, <1>16 DEF LifetimesInv

\* The two loops agree about a page of any length: what the validator holds live is
\* what the projection holds open, and a slot names its last lifetime.
THEOREM LifetimesInvariant == Spec => []LifetimesInv
<1>1. Init => LifetimesInv
  BY InitHolds
<1>2. LifetimesInv /\ [Next]_vars => LifetimesInv'
  <2> SUFFICES ASSUME LifetimesInv, [Next]_vars PROVE LifetimesInv'
    OBVIOUS
  <2>1. ASSUME NEW r \in Candidates, Read(r) PROVE LifetimesInv'
    BY <2>1, ReleaseKeeps, CreateKeeps
  <2>2. ASSUME NEW r \in Candidates, Refuse(r) PROVE LifetimesInv'
    BY <2>2, RefuseKeeps
  <2>3. CASE UNCHANGED vars
    BY <2>3 DEF vars, LifetimesInv, TypeOK, LifetimesAreOrdered, LoopsAgree, OccupantIsLast, SlotsAreExclusive
  <2> QED BY <2>1, <2>2, <2>3 DEF Next
<1> QED BY <1>1, <1>2, PTL DEF Spec

\* No two lifetimes of the page shown share a storage slot at a time, whatever rows
\* a bridge sends: validateLifecycle refuses the others.
THEOREM SlotsAreNeverShared == Spec => []SlotsAreExclusive
<1>1. LifetimesInv => SlotsAreExclusive
  BY DEF LifetimesInv
<1> QED BY <1>1, LifetimesInvariant, PTL

(***************************************************************************)
(* Rows, and the histories they are.                                        *)
(***************************************************************************)

\* The greatest of a set.
LEMMA MaxIs ==
  ASSUME NEW S \in SUBSET Nat, NEW m \in S, \A y \in S : y <= m
  PROVE  Max(S) = m
<1>1. \A x \in S : (\A y \in S : x >= y) <=> x = m
  OBVIOUS
<1> QED BY <1>1 DEF Max

\* The least of a set.
LEMMA MinIs ==
  ASSUME NEW S \in SUBSET Nat, NEW m \in S, \A y \in S : m <= y
  PROVE  Min(S) = m
<1>1. \A x \in S : (\A y \in S : x <= y) <=> x = m
  OBVIOUS
<1> QED BY <1>1 DEF Min

\* A set of positions has a greatest.
LEMMA MaxIn ==
  ASSUME NEW n \in Nat, NEW S \in SUBSET (1..n), S # {}
  PROVE  Max(S) \in S /\ \A y \in S : y <= Max(S)
<1> DEFINE T == {n - x : x \in S}
<1>1. \A x \in S : x \in Nat /\ x <= n /\ n - x \in Nat
  OBVIOUS
<1>2. T \subseteq Nat /\ T # {}
  BY <1>1
<1>3. PICK d \in T : \A e \in T : ~(<<e, d>> \in OpToRel(<, Nat))
  BY <1>2, WFMin, NatLessThanWellFounded
<1>4. \A e \in T : ~(e < d)
  BY <1>2, <1>3, Zenon DEF OpToRel
<1>5. PICK m \in S : d = n - m
  OBVIOUS
<1>6. \A y \in S : y <= m
  <2> SUFFICES ASSUME NEW y \in S PROVE y <= m
    OBVIOUS
  <2>1. ~(n - y < n - m)
    BY <1>4, <1>5
  <2> QED BY <1>1, <2>1
<1>7. Max(S) = m
  BY <1>1, <1>6, MaxIs
<1> QED BY <1>6, <1>7

\* One more row.
LEMMA Appended ==
  ASSUME NEW s \in Seq(Rows), NEW r \in Rows
  PROVE  /\ Append(s, r) \in Seq(Rows) /\ Len(s) \in Nat /\ Len(Append(s, r)) = Len(s) + 1
         /\ DOMAIN s = 1..Len(s) /\ DOMAIN Append(s, r) = 1..Len(s) + 1
         /\ Append(s, r)[Len(s) + 1] = r
         /\ \A k \in 1..Len(s) : Append(s, r)[k] = s[k] /\ s[k] \in Rows
         /\ \A k \in 1..Len(s) + 1 : k \in 1..Len(s) \/ k = Len(s) + 1
         /\ \A k \in 1..Len(s) : k \in 1..Len(s) + 1 /\ k < Len(s) + 1 /\ k # Len(s) + 1
         /\ Len(s) + 1 \in 1..Len(s) + 1
OBVIOUS

\* What a row is.
LEMMA RowTypes ==
  ASSUME NEW r \in Rows
  PROVE  /\ r.of \in Descriptors /\ r.previous \in Nat /\ r.sound \in BOOLEAN
         /\ r.of.allocation \in Nat /\ r.of.allocation # 0 /\ r.of.slot \in Slots
         /\ r.of.group \in Groups /\ r.of.bytes \in Nat /\ r.of.bytes <= MaxBytes
<1>1. r.of \in Descriptors /\ r.previous \in Nat /\ r.sound \in BOOLEAN
  BY DEF Rows
<1> QED BY <1>1 DEF Descriptors

\* What exists after one more row.
LEMMA HoldsOfAppend ==
  ASSUME NEW s \in Seq(Rows), NEW r \in Rows
  PROVE  /\ \A k \in 1..Len(s) : Creation(Append(s, r), k) <=> Creation(s, k)
         /\ Creation(Append(s, r), Len(s) + 1) <=> r.kind # "release"
         /\ \A i \in 1..Len(s), m \in 0..Len(s) : Holds(Append(s, r), i, m) <=> Holds(s, i, m)
         /\ \A i \in 1..Len(s) : Holds(Append(s, r), i, Len(s) + 1) <=>
              Holds(s, i, Len(s)) /\ ~(r.kind = "release" /\ r.of.allocation = s[i].of.allocation)
         /\ Holds(Append(s, r), Len(s) + 1, Len(s) + 1) <=> r.kind # "release"
<1> DEFINE n == Len(s)
           t == Append(s, r)
<1>1. /\ n \in Nat /\ t[n + 1] = r /\ \A k \in 1..n : t[k] = s[k]
  BY Appended
<1> HIDE DEF n, t
<1>2. \A k \in 1..n : Creation(t, k) <=> Creation(s, k)
  BY <1>1 DEF Creation
<1>3. Creation(t, n + 1) <=> r.kind # "release"
  BY <1>1 DEF Creation
<1>4. ASSUME NEW i \in 1..n, NEW m \in 0..n PROVE Holds(t, i, m) <=> Holds(s, i, m)
  <2>1. \A j \in i..m : j \in 1..n /\ t[j] = s[j]
    BY <1>1
  <2> QED BY <1>1, <1>2, <2>1 DEF Holds
<1>5. ASSUME NEW i \in 1..n
      PROVE  Holds(t, i, n + 1) <=>
               Holds(s, i, n) /\ ~(r.kind = "release" /\ r.of.allocation = s[i].of.allocation)
  <2>1. \A j \in i..n : j \in i..n + 1 /\ j \in 1..n /\ t[j] = s[j]
    BY <1>1
  <2>2. \A j \in i..n + 1 : j \in i..n \/ j = n + 1
    BY <1>1
  <2>3. n + 1 \in i..n + 1 /\ t[i] = s[i]
    BY <1>1
  <2> QED BY <1>1, <1>2, <2>1, <2>2, <2>3 DEF Holds
<1>6. Holds(t, n + 1, n + 1) <=> r.kind # "release"
  <2>1. \A j \in n + 1..n + 1 : j = n + 1
    BY <1>1
  <2> QED BY <1>1, <1>3, <2>1 DEF Holds
<1> QED BY <1>2, <1>3, <1>4, <1>5, <1>6 DEF n, t

\* What a slot has seen after one more row.
LEMMA InSlotOfAppend ==
  ASSUME NEW s \in Seq(Rows), NEW r \in Rows, NEW slot
  PROVE  /\ \A m \in 0..Len(s) : InSlot(Append(s, r), m, slot) = InSlot(s, m, slot)
         /\ InSlot(Append(s, r), Len(s) + 1, slot) =
              IF r.kind # "release" /\ r.of.slot = slot
              THEN InSlot(s, Len(s), slot) \cup {Len(s) + 1} ELSE InSlot(s, Len(s), slot)
<1> DEFINE n == Len(s)
           t == Append(s, r)
<1>1. /\ n \in Nat /\ t[n + 1] = r /\ \A k \in 1..n : t[k] = s[k]
      /\ \A k \in 1..n + 1 : k \in 1..n \/ k = n + 1
      /\ \A k \in 1..n : k \in 1..n + 1 /\ k # n + 1
      /\ n + 1 \in 1..n + 1
      /\ \A k \in 1..n : Creation(t, k) <=> Creation(s, k)
      /\ Creation(t, n + 1) <=> r.kind # "release"
  BY Appended, HoldsOfAppend
<1> HIDE DEF n, t
<1>2. ASSUME NEW m \in 0..n PROVE InSlot(t, m, slot) = InSlot(s, m, slot)
  <2>1. \A k \in 1..m : k \in 1..n
    BY <1>1
  <2>2. \A k \in 1..m : (Creation(t, k) /\ t[k].of.slot = slot) <=> (Creation(s, k) /\ s[k].of.slot = slot)
    BY <1>1, <2>1
  <2> QED BY <2>2 DEF InSlot
<1>3. \A k \in 1..n : k \in InSlot(t, n + 1, slot) <=> k \in InSlot(s, n, slot)
  BY <1>1 DEF InSlot
<1>4. n + 1 \in InSlot(t, n + 1, slot) <=> r.kind # "release" /\ r.of.slot = slot
  BY <1>1 DEF InSlot
<1>5. InSlot(t, n + 1, slot) \subseteq 1..n + 1 /\ InSlot(s, n, slot) \subseteq 1..n
  BY DEF InSlot
<1>6. CASE r.kind # "release" /\ r.of.slot = slot
  <2>1. \A k \in 1..n + 1 : k \in InSlot(t, n + 1, slot) <=> k \in InSlot(s, n, slot) \cup {n + 1}
    BY <1>1, <1>3, <1>4, <1>6
  <2>2. InSlot(s, n, slot) \cup {n + 1} \subseteq 1..n + 1
    BY <1>1, <1>5
  <2>3. InSlot(t, n + 1, slot) = InSlot(s, n, slot) \cup {n + 1}
    BY <1>5, <2>1, <2>2
  <2> QED BY <1>2, <1>6, <2>3 DEF n, t
<1>7. CASE ~(r.kind # "release" /\ r.of.slot = slot)
  <2>1. \A k \in 1..n + 1 : k \in InSlot(t, n + 1, slot) <=> k \in InSlot(s, n, slot)
    BY <1>1, <1>3, <1>4, <1>5, <1>7
  <2>2. InSlot(s, n, slot) \subseteq 1..n + 1
    BY <1>1, <1>5
  <2>3. InSlot(t, n + 1, slot) = InSlot(s, n, slot)
    BY <1>5, <2>1, <2>2
  <2> QED BY <1>2, <1>7, <2>3 DEF n, t
<1> QED BY <1>6, <1>7

\* What could follow some of the rows can follow them still.
LEMMA CanFollowOfAppend ==
  ASSUME NEW s \in Seq(Rows), NEW r \in Rows, NEW m \in 0..Len(s), NEW x \in Rows
  PROVE  CanFollow(Append(s, r), m, x) <=> CanFollow(s, m, x)
<1> DEFINE n == Len(s)
           t == Append(s, r)
           B == InSlot(s, m, x.of.slot)
           p == Max(B)
<1>1. /\ n \in Nat /\ \A k \in 1..n : t[k] = s[k]
      /\ InSlot(t, m, x.of.slot) = B
      /\ \A i \in 1..n : Holds(t, i, m) <=> Holds(s, i, m)
  <2>1. n \in Nat /\ \A k \in 1..n : t[k] = s[k]
    BY Appended
  <2>2. InSlot(t, m, x.of.slot) = B
    BY InSlotOfAppend, Zenon
  <2>3. \A i \in 1..n : Holds(t, i, m) <=> Holds(s, i, m)
    BY HoldsOfAppend
  <2> QED BY <2>1, <2>2, <2>3
<1>2. B \subseteq 1..m /\ m \in Nat /\ \A k \in 1..m : k \in 1..n
  BY <1>1 DEF InSlot
<1> HIDE DEF n, t, B
<1>3. B # {} => p \in B
  BY <1>2, MaxIn
<1>4. B # {} => p \in 1..n
  BY <1>2, <1>3
<1> HIDE DEF p
<1>5. CASE x.kind = "release"
  <2>1. (\E i \in B : t[i].of = x.of /\ Holds(t, i, m)) <=> (\E i \in B : s[i].of = x.of /\ Holds(s, i, m))
    BY <1>1, <1>2
  <2> QED BY <1>1, <1>5, <2>1 DEF CanFollow, B, t
<1>6. CASE x.kind # "release"
  <2>1. B # {} => t[p] = s[p] /\ (Holds(t, p, m) <=> Holds(s, p, m))
    BY <1>1, <1>4
  <2>2. CanFollow(s, m, x) <=>
          /\ x.kind = "preexisting" <=> Dispatched(x.of)
          /\ IF B = {} THEN x.of.generation = 1 /\ x.previous = 0
             ELSE /\ x.kind = "create" /\ ~Holds(s, p, m)
                  /\ x.previous = s[p].of.allocation
                  /\ x.of.generation = s[p].of.generation + 1
                  /\ x.of.group.space = s[p].of.group.space
                  /\ x.of.layout = s[p].of.layout /\ x.of.bytes = s[p].of.bytes
    BY <1>6 DEF CanFollow, B, p
  <2>3. CanFollow(t, m, x) <=>
          /\ x.kind = "preexisting" <=> Dispatched(x.of)
          /\ IF B = {} THEN x.of.generation = 1 /\ x.previous = 0
             ELSE /\ x.kind = "create" /\ ~Holds(t, p, m)
                  /\ x.previous = t[p].of.allocation
                  /\ x.of.generation = t[p].of.generation + 1
                  /\ x.of.group.space = t[p].of.group.space
                  /\ x.of.layout = t[p].of.layout /\ x.of.bytes = t[p].of.bytes
    BY <1>1, <1>6 DEF CanFollow, p
  <2>4. CanFollow(t, m, x) <=> CanFollow(s, m, x)
    BY <2>1, <2>2, <2>3
  <2> QED BY <2>4 DEF t
<1> QED BY <1>5, <1>6

\* What continues a history.
LEMMA HistoryOfAppend ==
  ASSUME NEW s \in Seq(Rows), NEW r \in Rows, History(s)
  PROVE  History(Append(s, r)) <=>
           /\ r.sound
           /\ r.kind # "release" =>
                \A i \in 1..Len(s) : Creation(s, i) => s[i].of.allocation < r.of.allocation
           /\ CanFollow(s, Len(s), r)
<1> DEFINE n == Len(s)
           t == Append(s, r)
<1>1. /\ n \in Nat /\ t[n + 1] = r /\ \A k \in 1..n : t[k] = s[k] /\ s[k] \in Rows
      /\ DOMAIN s = 1..n /\ DOMAIN t = 1..n + 1
      /\ \A k \in 1..n + 1 : k \in 1..n \/ k = n + 1
      /\ \A k \in 1..n : k \in 1..n + 1 /\ k < n + 1 /\ ~(n + 1 < k) /\ k - 1 \in 0..n
      /\ n + 1 \in 1..n + 1 /\ n + 1 - 1 = n /\ n \in 0..n /\ ~(n + 1 < n + 1)
      /\ \A k \in 1..n : Creation(t, k) <=> Creation(s, k)
      /\ Creation(t, n + 1) <=> r.kind # "release"
  BY Appended, HoldsOfAppend
<1>2. \A k \in 1..n : CanFollow(t, k - 1, s[k]) <=> CanFollow(s, k - 1, s[k])
  BY <1>1, CanFollowOfAppend
<1>3. CanFollow(t, n, r) <=> CanFollow(s, n, r)
  BY <1>1, CanFollowOfAppend
<1> HIDE DEF n, t
<1>4. (\A i \in 1..n + 1 : t[i].sound) <=> r.sound
  BY <1>1 DEF History
<1>5. (\A i, j \in 1..n + 1 : i < j /\ Creation(t, i) /\ Creation(t, j) => t[i].of.allocation < t[j].of.allocation) <=>
        (r.kind # "release" => \A i \in 1..n : Creation(s, i) => s[i].of.allocation < r.of.allocation)
  BY <1>1 DEF History
<1>6. (\A j \in 1..n + 1 : CanFollow(t, j - 1, t[j])) <=> CanFollow(s, n, r)
  <2>1. \A j \in 1..n : CanFollow(s, j - 1, s[j])
    BY <1>1 DEF History
  <2>2. \A j \in 1..n : CanFollow(t, j - 1, t[j])
    BY <1>1, <1>2, <2>1
  <2>3. CanFollow(t, (n + 1) - 1, t[n + 1]) <=> CanFollow(s, n, r)
    BY <1>1, <1>3
  <2> QED BY <1>1, <2>2, <2>3
<1>7. History(t) <=>
        /\ \A i \in 1..n + 1 : t[i].sound
        /\ \A i, j \in 1..n + 1 : i < j /\ Creation(t, i) /\ Creation(t, j) => t[i].of.allocation < t[j].of.allocation
        /\ \A j \in 1..n + 1 : CanFollow(t, j - 1, t[j])
  BY <1>1, Zenon DEF History
<1> QED BY <1>4, <1>5, <1>6, <1>7 DEF n, t

\* A creation is known by its allocation.
LEMMA OneCreation ==
  ASSUME NEW s \in Seq(Rows), History(s), NEW i \in 1..Len(s), NEW j \in 1..Len(s),
         Creation(s, i), Creation(s, j), s[i].of.allocation = s[j].of.allocation
  PROVE  i = j
<1>1. s[i] \in Rows /\ s[j] \in Rows /\ Len(s) \in Nat /\ DOMAIN s = 1..Len(s)
  OBVIOUS
<1>2. s[i].of.allocation \in Nat
  BY <1>1, RowTypes
<1>3. ~(i < j)
  BY <1>1, <1>2 DEF History
<1>4. ~(j < i)
  BY <1>1, <1>2 DEF History
<1> QED BY <1>1, <1>3, <1>4

\* A release is that of an earlier creation.
LEMMA ReleaseHasCreation ==
  ASSUME NEW s \in Seq(Rows), History(s), NEW j \in 1..Len(s), ~Creation(s, j)
  PROVE  \E i \in 1..Len(s) : i < j /\ Creation(s, i) /\ s[i].of = s[j].of
<1>1. Len(s) \in Nat /\ DOMAIN s = 1..Len(s)
  OBVIOUS
<1>2. CanFollow(s, j - 1, s[j])
  BY <1>1 DEF History
<1>3. s[j].kind = "release"
  BY DEF Creation
<1>4. PICK i \in InSlot(s, j - 1, s[j].of.slot) : s[i].of = s[j].of
  BY <1>2, <1>3 DEF CanFollow
<1>5. i \in 1..(j - 1) /\ Creation(s, i)
  BY DEF InSlot
<1> QED BY <1>1, <1>4, <1>5

\* An allocation that is gone is one that some row released.
LEMMA GoneIsReleased ==
  ASSUME NEW s \in Seq(Rows), History(s), NEW p \in 1..Len(s), Creation(s, p)
  PROVE  ~Holds(s, p, Len(s)) <=>
           \E j \in 1..Len(s) : ~Creation(s, j) /\ s[j].of.allocation = s[p].of.allocation
<1>1. Len(s) \in Nat
  OBVIOUS
<1>2. ASSUME ~Holds(s, p, Len(s))
      PROVE  \E j \in 1..Len(s) : ~Creation(s, j) /\ s[j].of.allocation = s[p].of.allocation
  <2>1. PICK j \in p..Len(s) : s[j].kind = "release" /\ s[j].of.allocation = s[p].of.allocation
    BY <1>2 DEF Holds
  <2>2. j \in 1..Len(s)
    BY <1>1
  <2> QED BY <2>1, <2>2 DEF Creation
<1>3. ASSUME NEW j \in 1..Len(s), ~Creation(s, j), s[j].of.allocation = s[p].of.allocation
      PROVE  ~Holds(s, p, Len(s))
  <2>1. PICK i \in 1..Len(s) : i < j /\ Creation(s, i) /\ s[i].of = s[j].of
    BY <1>3, ReleaseHasCreation
  <2>2. i = p
    BY <1>3, <2>1, OneCreation
  <2>3. j \in p..Len(s) /\ s[j].kind = "release"
    BY <1>1, <1>3, <2>1, <2>2 DEF Creation
  <2> QED BY <1>3, <2>3 DEF Holds
<1> QED BY <1>2, <1>3

\* The rows and the maps of the validator.
LEMMA MapFacts ==
  ASSUME TypeOK, MapsAgree
  PROVE  /\ Len(rows) \in Nat /\ DOMAIN rows = 1..Len(rows)
         /\ \A i \in 1..Len(rows) : rows[i] \in Rows /\ rows[i].of.allocation \in Nat \ {0} /\ rows[i].of.slot \in Slots
         /\ \A d : d \in live <=> \E i \in 1..Len(rows) : Holds(rows, i, Len(rows)) /\ d = rows[i].of
         /\ \A d : d \in all <=> \E i \in 1..Len(rows) : Creation(rows, i) /\ d = rows[i].of
         /\ \A a : a \in released <=> \E i \in 1..Len(rows) : ~Creation(rows, i) /\ a = rows[i].of.allocation
         /\ \A slot \in Slots : /\ InSlot(rows, Len(rows), slot) = {} => occupant[slot] = 0
                                /\ InSlot(rows, Len(rows), slot) # {} =>
                                     occupant[slot] = rows[Max(InSlot(rows, Len(rows), slot))].of.allocation
<1>1. Len(rows) \in Nat /\ DOMAIN rows = 1..Len(rows) /\ \A i \in 1..Len(rows) : rows[i] \in Rows
  BY DEF TypeOK
<1>2. \A i \in 1..Len(rows) : rows[i].of.allocation \in Nat \ {0} /\ rows[i].of.slot \in Slots
  BY <1>1, RowTypes
<1>3. /\ live = {rows[i].of : i \in {k \in 1..Len(rows) : Holds(rows, k, Len(rows))}}
      /\ all = {rows[i].of : i \in {k \in 1..Len(rows) : Creation(rows, k)}}
      /\ released = {rows[i].of.allocation : i \in {k \in 1..Len(rows) : ~Creation(rows, k)}}
  BY <1>1 DEF MapsAgree
<1>4. /\ \A d : d \in live <=> \E i \in 1..Len(rows) : Holds(rows, i, Len(rows)) /\ d = rows[i].of
      /\ \A d : d \in all <=> \E i \in 1..Len(rows) : Creation(rows, i) /\ d = rows[i].of
      /\ \A a : a \in released <=> \E i \in 1..Len(rows) : ~Creation(rows, i) /\ a = rows[i].of.allocation
  <2>1. \A d : d \in live <=> \E i \in 1..Len(rows) : Holds(rows, i, Len(rows)) /\ d = rows[i].of
    BY <1>3
  <2>2. \A d : d \in all <=> \E i \in 1..Len(rows) : Creation(rows, i) /\ d = rows[i].of
    BY <1>3
  <2>3. \A a : a \in released <=> \E i \in 1..Len(rows) : ~Creation(rows, i) /\ a = rows[i].of.allocation
    BY <1>3
  <2> QED BY <2>1, <2>2, <2>3
<1>5. \A slot \in Slots : /\ InSlot(rows, Len(rows), slot) = {} => occupant[slot] = 0
                          /\ InSlot(rows, Len(rows), slot) # {} =>
                                     occupant[slot] = rows[Max(InSlot(rows, Len(rows), slot))].of.allocation
  BY DEF MapsAgree
<1> QED BY <1>1, <1>2, <1>4, <1>5

\* What a descriptor that is held live says of its slot.
LEMMA LiveIsOccupant ==
  ASSUME LifetimesInv, NEW d \in live
  PROVE  occupant[d.slot] = d.allocation
<1> DEFINE n == Len(lifetimes)
<1>1. /\ n \in Nat /\ DOMAIN lifetimes = 1..n
      /\ \A i \in 1..n :
           /\ lifetimes[i].of.allocation \in Nat \ {0} /\ lifetimes[i].of.slot \in Slots
      /\ \A s \in Slots : occupant[s] \in Nat
      /\ open \subseteq 1..n
  <2>1. TypeOK
    BY DEF LifetimesInv
  <2> QED BY <2>1, LifetimeFacts DEF TypeOK
<1> HIDE DEF n
<1>2. PICK k \in open : lifetimes[k].of = d
  BY DEF LifetimesInv, LoopsAgree
<1>3. k \in 1..n /\ lifetimes[k].released = 0 /\ d.slot \in Slots /\ d.allocation \in Nat /\ d.allocation # 0
  BY <1>1, <1>2 DEF LifetimesInv, LoopsAgree
<1>4. d.allocation <= occupant[d.slot]
  BY <1>1, <1>2, <1>3 DEF LifetimesInv, OccupantIsLast
<1>5. occupant[d.slot] # 0
  BY <1>1, <1>3, <1>4
<1>6. PICK m \in 1..n : lifetimes[m].of.slot = d.slot /\ lifetimes[m].of.allocation = occupant[d.slot]
  BY <1>1, <1>3, <1>5 DEF LifetimesInv, OccupantIsLast
<1>7. ~(k < m)
  BY <1>1, <1>2, <1>3, <1>6 DEF LifetimesInv, SlotsAreExclusive
<1>8. ~(m < k)
  <2>1. m < k => lifetimes[m].of.allocation < lifetimes[k].of.allocation
    BY <1>1, <1>3 DEF LifetimesInv, LifetimesAreOrdered
  <2> QED BY <1>1, <1>2, <1>3, <1>4, <1>6, <2>1
<1>9. k = m
  BY <1>1, <1>3, <1>7, <1>8
<1> QED BY <1>2, <1>6, <1>9

\* The validator admits exactly the rows that continue a history.
LEMMA ValidIsNext ==
  ASSUME LifetimesInv, History(rows), MapsAgree, NEW r \in Candidates
  PROVE  Valid(r) <=> History(Append(rows, r))
<1> DEFINE n == Len(rows)
           B == InSlot(rows, n, r.of.slot)
           p == Max(B)
<1>1. /\ r \in Rows /\ r.of.allocation \in Nat \ {0} /\ r.of.slot \in Slots /\ r.previous \in Nat
      /\ rows \in Seq(Rows) /\ lastCreation \in Nat
  BY CandidatesAreRows DEF LifetimesInv, TypeOK
<1>2. /\ n \in Nat /\ DOMAIN rows = 1..n
      /\ \A i \in 1..n : rows[i] \in Rows /\ rows[i].of.allocation \in Nat \ {0} /\ rows[i].of.slot \in Slots
      /\ \A d : d \in live <=> \E i \in 1..n : Holds(rows, i, n) /\ d = rows[i].of
      /\ \A d : d \in all <=> \E i \in 1..n : Creation(rows, i) /\ d = rows[i].of
      /\ \A a : a \in released <=> \E i \in 1..n : ~Creation(rows, i) /\ a = rows[i].of.allocation
      /\ B = {} => occupant[r.of.slot] = 0
      /\ B # {} => occupant[r.of.slot] = rows[p].of.allocation
  <2>1. TypeOK
    BY DEF LifetimesInv
  <2> QED BY <1>1, <2>1, MapFacts
<1>3. \A i : i \in B <=> i \in 1..n /\ Creation(rows, i) /\ rows[i].of.slot = r.of.slot
  BY DEF InSlot
<1>4. History(Append(rows, r)) <=>
        /\ r.sound
        /\ r.kind # "release" => \A i \in 1..n : Creation(rows, i) => rows[i].of.allocation < r.of.allocation
        /\ CanFollow(rows, n, r)
  BY <1>1, HistoryOfAppend
<1>5. B # {} => p \in B
  <2>1. B \subseteq 1..n
    BY <1>3
  <2> HIDE DEF B
  <2> QED BY <1>2, <2>1, MaxIn
<1>6. CanFollow(rows, n, r) <=>
        IF r.kind = "release"
        THEN (\E i \in B : rows[i].of = r.of /\ Holds(rows, i, n)) /\ r.previous = 0
        ELSE /\ r.kind = "preexisting" <=> Dispatched(r.of)
             /\ IF B = {}
                THEN r.of.generation = 1 /\ r.previous = 0
                ELSE /\ r.kind = "create" /\ ~Holds(rows, p, n)
                     /\ r.previous = rows[p].of.allocation
                     /\ r.of.generation = rows[p].of.generation + 1
                     /\ r.of.group.space = rows[p].of.group.space
                     /\ r.of.layout = rows[p].of.layout /\ r.of.bytes = rows[p].of.bytes
  BY DEF CanFollow
<1> HIDE DEF n, B, p
<1>7. CASE r.kind = "release"
  <2>1. r.of \in live <=> \E i \in B : rows[i].of = r.of /\ Holds(rows, i, n)
    <3>1. \A i \in 1..n : rows[i].of = r.of /\ Holds(rows, i, n) => i \in B
      BY <1>3 DEF Holds
    <3> QED BY <1>2, <1>3, <3>1
  <2>2. r.of \in live => occupant[r.of.slot] = r.of.allocation
    BY LiveIsOccupant
  <2> QED BY <1>4, <1>6, <1>7, <2>1, <2>2 DEF Valid
<1>8. CASE r.kind # "release"
  <2>1. ((\A d \in all : d.allocation # r.of.allocation) /\ r.of.allocation > lastCreation) <=>
          \A i \in 1..n : Creation(rows, i) => rows[i].of.allocation < r.of.allocation
    <3>1. ASSUME r.of.allocation > lastCreation
          PROVE  /\ \A i \in 1..n : Creation(rows, i) => rows[i].of.allocation < r.of.allocation
                 /\ \A d \in all : d.allocation # r.of.allocation
      <4>1. \A i \in 1..n : Creation(rows, i) => rows[i].of.allocation <= lastCreation
        BY <1>2 DEF MapsAgree
      <4>2. \A i \in 1..n : Creation(rows, i) => rows[i].of.allocation < r.of.allocation
        BY <1>1, <1>2, <3>1, <4>1
      <4>3. \A i \in 1..n : Creation(rows, i) => rows[i].of.allocation # r.of.allocation
        BY <1>1, <1>2, <4>2
      <4> QED BY <1>2, <4>2, <4>3
    <3>2. ASSUME \A i \in 1..n : Creation(rows, i) => rows[i].of.allocation < r.of.allocation
          PROVE  r.of.allocation > lastCreation
      <4>1. CASE lastCreation = 0
        BY <1>1, <4>1
      <4>2. CASE lastCreation # 0
        <5>1. PICK i \in 1..n : Creation(rows, i) /\ rows[i].of.allocation = lastCreation
          BY <1>2, <4>2 DEF MapsAgree
        <5> QED BY <1>1, <3>2, <5>1
      <4> QED BY <4>1, <4>2
    <3> QED BY <3>1, <3>2
  <2>2. CASE B = {}
    <3>1. occupant[r.of.slot] = 0
      BY <1>2, <2>2
    <3>2. ~Succeeds(r)
      <4>1. \A d \in all : d.allocation # 0
        BY <1>2
      <4> QED BY <3>1, <4>1 DEF Succeeds
    <3> QED BY <1>4, <1>6, <1>8, <2>1, <2>2, <3>1, <3>2 DEF Valid, Creates, Fresh
  <2>3. CASE B # {}
    <3>1. /\ p \in 1..n /\ Creation(rows, p) /\ rows[p].of.slot = r.of.slot
          /\ occupant[r.of.slot] = rows[p].of.allocation /\ rows[p].of.allocation # 0
      BY <1>2, <1>3, <1>5, <2>3
    <3>2. rows[p].of.allocation \in released <=> ~Holds(rows, p, n)
      <4>1. ~Holds(rows, p, n) <=>
              \E j \in 1..n : ~Creation(rows, j) /\ rows[j].of.allocation = rows[p].of.allocation
        BY <1>1, <3>1, GoneIsReleased DEF n
      <4> QED BY <1>2, <4>1
    <3>3. \A d \in all : d.allocation = rows[p].of.allocation => d = rows[p].of
      BY <1>1, <1>2, <3>1, OneCreation DEF n
    <3>4. rows[p].of \in all
      BY <1>2, <3>1
    <3>5. Succeeds(r) <=>
            /\ rows[p].of.allocation = r.previous /\ rows[p].of.allocation \in released
            /\ r.of.generation = rows[p].of.generation + 1
            /\ rows[p].of.group.space = r.of.group.space /\ rows[p].of.layout = r.of.layout /\ rows[p].of.bytes = r.of.bytes
      BY <3>1, <3>3, <3>4 DEF Succeeds
    <3>6. Creates(r) <=>
            /\ \A i \in 1..n : Creation(rows, i) => rows[i].of.allocation < r.of.allocation
            /\ r.kind = "preexisting" <=> Dispatched(r.of)
            /\ r.previous # 0 /\ r.kind = "create" /\ Succeeds(r)
      <4>1. ~Fresh(r.of)
        BY <3>1 DEF Fresh
      <4> QED BY <2>1, <4>1 DEF Creates
    <3> QED BY <1>4, <1>6, <1>8, <2>3, <3>1, <3>2, <3>5, <3>6 DEF Valid
  <2> QED BY <2>2, <2>3
<1> QED BY <1>7, <1>8

(***************************************************************************)
(* The bytes of what exists.                                                *)
(***************************************************************************)

\* What exists is finite, and so are its bytes.
LEMMA BytesAreFinite ==
  ASSUME NEW s \in Seq(Rows), NEW held \in SUBSET (1..Len(s))
  PROVE  /\ IsFiniteSet(held) /\ Cardinality(held) \in Nat
         /\ IsFiniteSet(BytesOf(s, held)) /\ Cardinality(BytesOf(s, held)) \in Nat
<1>1. Len(s) \in Int /\ 1 \in Int /\ MaxBytes \in Int
  OBVIOUS
<1>2. IsFiniteSet(1..Len(s)) /\ IsFiniteSet(1..MaxBytes)
  BY <1>1, FS_Interval
<1>3. IsFiniteSet(held)
  BY <1>2, FS_Subset
<1> DEFINE C == held \X (1..MaxBytes)
<1>4. IsFiniteSet(C)
  BY <1>2, <1>3, FS_Product
<1>5. BytesOf(s, held) \in SUBSET C
  BY DEF BytesOf
<1> HIDE DEF C
<1>6. IsFiniteSet(BytesOf(s, held))
  BY <1>4, <1>5, FS_Subset
<1> QED BY <1>3, <1>6, FS_CardinalityType

\* The bytes of one more allocation.
LEMMA AddBytes ==
  ASSUME NEW s \in Seq(Rows), NEW held \in SUBSET (1..Len(s)), NEW i \in 1..Len(s), i \notin held
  PROVE  /\ Cardinality(BytesOf(s, held \cup {i})) = Cardinality(BytesOf(s, held)) + s[i].of.bytes
         /\ Cardinality(held \cup {i}) = Cardinality(held) + 1
<1> DEFINE b == s[i].of.bytes
           A == BytesOf(s, held)
           C == {i} \X (1..b)
<1>1. b \in Nat /\ b <= MaxBytes /\ b \in Int /\ 1 \in Int
  <2>1. s[i] \in Rows
    OBVIOUS
  <2> QED BY <2>1, RowTypes
<1>2. IsFiniteSet(held) /\ IsFiniteSet(A) /\ Cardinality(A) \in Nat
  BY BytesAreFinite
<1>3. BytesOf(s, held \cup {i}) = A \cup C
  <2>1. \A c \in BytesOf(s, held \cup {i}) : c \in A \cup C
    BY <1>1 DEF BytesOf
  <2>2. \A c \in A : c \in BytesOf(s, held \cup {i})
    BY DEF BytesOf
  <2>3. \A c \in C : c \in BytesOf(s, held \cup {i})
    BY <1>1 DEF BytesOf
  <2> QED BY <2>1, <2>2, <2>3
<1>4. A \cap C = {}
  BY DEF BytesOf
<1>5. IsFiniteSet({i}) /\ Cardinality({i}) = 1
  BY FS_Singleton
<1>6. IsFiniteSet(1..b) /\ Cardinality(1..b) = b
  <2>1. IsFiniteSet(1..b) /\ Cardinality(1..b) = IF 1 > b THEN 0 ELSE b - 1 + 1
    BY <1>1, FS_Interval
  <2>2. (IF 1 > b THEN 0 ELSE b - 1 + 1) = b
    BY <1>1
  <2> QED BY <2>1, <2>2
<1> HIDE DEF b
<1>7. IsFiniteSet(C) /\ Cardinality(C) = b
  <2>1. IsFiniteSet(C) /\ Cardinality(C) = Cardinality({i}) * Cardinality(1..b)
    BY <1>5, <1>6, FS_Product
  <2> QED BY <1>1, <1>5, <1>6, <2>1
<1> HIDE DEF A, C
<1>8. Cardinality(A \cup C) = Cardinality(A) + Cardinality(C) - Cardinality(A \cap C)
  BY <1>2, <1>7, FS_Union
<1>9. Cardinality(A \cap C) = 0
  BY <1>4, FS_EmptySet
<1>10. Cardinality(held \cup {i}) = Cardinality(held) + 1
  BY <1>2, FS_AddElement
<1>11. Cardinality(BytesOf(s, held \cup {i})) = Cardinality(A) + b
  <2>1. Cardinality(A \cup C) = Cardinality(A) + b
    BY <1>1, <1>2, <1>7, <1>8, <1>9
  <2> QED BY <1>3, <2>1
<1> QED BY <1>10, <1>11 DEF A, b

\* What exists after some of the rows, and after one more.
LEMMA HeldOfAppend ==
  ASSUME NEW s \in Seq(Rows), NEW r \in Rows, NEW g
  PROVE  /\ \A m \in 0..Len(s) : HeldBy(Append(s, r), g, m) = HeldBy(s, g, m) /\ HeldBy(s, g, m) \subseteq 1..Len(s)
         /\ \A k : k \in HeldBy(Append(s, r), g, Len(s) + 1) <=>
              \/ k \in HeldBy(s, g, Len(s)) /\ ~(r.kind = "release" /\ r.of.allocation = s[k].of.allocation)
              \/ k = Len(s) + 1 /\ r.kind # "release" /\ r.of.group = g
<1> DEFINE n == Len(s)
           t == Append(s, r)
<1>1. /\ n \in Nat /\ t[n + 1] = r /\ \A k \in 1..n : t[k] = s[k]
      /\ \A k \in 1..n + 1 : k \in 1..n \/ k = n + 1
      /\ \A k \in 1..n : k \in 1..n + 1 /\ k # n + 1
      /\ n + 1 \in 1..n + 1
  BY Appended
<1>2. /\ \A i \in 1..n, m \in 0..n : Holds(t, i, m) <=> Holds(s, i, m)
      /\ \A i \in 1..n : Holds(t, i, n + 1) <=> Holds(s, i, n) /\ ~(r.kind = "release" /\ r.of.allocation = s[i].of.allocation)
      /\ Holds(t, n + 1, n + 1) <=> r.kind # "release"
  BY HoldsOfAppend
<1> HIDE DEF n, t
<1>3. ASSUME NEW m \in 0..n
      PROVE  HeldBy(t, g, m) = HeldBy(s, g, m) /\ HeldBy(s, g, m) \subseteq 1..n
  <2>1. \A k \in 1..m : k \in 1..n
    BY <1>1
  <2>2. \A k \in 1..m : (t[k].of.group = g /\ Holds(t, k, m)) <=> (s[k].of.group = g /\ Holds(s, k, m))
    BY <1>1, <1>2, <2>1
  <2> QED BY <2>1, <2>2 DEF HeldBy
<1>4. \A k \in 1..n : k \in HeldBy(t, g, n + 1) <=>
        k \in HeldBy(s, g, n) /\ ~(r.kind = "release" /\ r.of.allocation = s[k].of.allocation)
  BY <1>1, <1>2 DEF HeldBy
<1>5. n + 1 \in HeldBy(t, g, n + 1) <=> r.kind # "release" /\ r.of.group = g
  BY <1>1, <1>2 DEF HeldBy
<1>6. HeldBy(t, g, n + 1) \subseteq 1..n + 1 /\ HeldBy(s, g, n) \subseteq 1..n
  BY DEF HeldBy
<1>7. \A k : k \in HeldBy(t, g, n + 1) <=>
        \/ k \in HeldBy(s, g, n) /\ ~(r.kind = "release" /\ r.of.allocation = s[k].of.allocation)
        \/ k = n + 1 /\ r.kind # "release" /\ r.of.group = g
  BY <1>1, <1>4, <1>5, <1>6
<1> QED BY <1>3, <1>7 DEF n, t

\* A total is that of the rows it counts.
LEMMA TotalOfAppend ==
  ASSUME NEW s \in Seq(Rows), NEW r \in Rows, NEW g
  PROVE  /\ \A held \in SUBSET (1..Len(s)) : BytesOf(Append(s, r), held) = BytesOf(s, held)
         /\ \A m \in 0..Len(s) : Total(Append(s, r), g, m) = Total(s, g, m) /\ Total(s, g, m) \in Nat
<1>1. \A k \in 1..Len(s) : Append(s, r)[k] = s[k]
  BY Appended
<1>2. ASSUME NEW held \in SUBSET (1..Len(s))
      PROVE  BytesOf(Append(s, r), held) = BytesOf(s, held)
  BY <1>1 DEF BytesOf
<1>3. ASSUME NEW m \in 0..Len(s)
      PROVE  Total(Append(s, r), g, m) = Total(s, g, m) /\ Total(s, g, m) \in Nat
  <2>1. HeldBy(Append(s, r), g, m) = HeldBy(s, g, m) /\ HeldBy(s, g, m) \subseteq 1..Len(s)
    BY HeldOfAppend
  <2>2. Cardinality(BytesOf(s, HeldBy(s, g, m))) \in Nat
    BY <2>1, BytesAreFinite
  <2> QED BY <1>2, <2>1, <2>2 DEF Total
<1> QED BY <1>2, <1>3

\* A total is a number.
LEMMA TotalIsNat ==
  ASSUME NEW s \in Seq(Rows), NEW g, NEW m \in 0..Len(s)
  PROVE  /\ Total(s, g, m) \in Nat /\ Cardinality(HeldBy(s, g, m)) \in Nat
         /\ HeldBy(s, g, m) \in SUBSET (1..Len(s))
<1>1. HeldBy(s, g, m) \in SUBSET (1..Len(s))
  BY DEF HeldBy
<1>2. Cardinality(BytesOf(s, HeldBy(s, g, m))) \in Nat /\ Cardinality(HeldBy(s, g, m)) \in Nat
  BY <1>1, BytesAreFinite
<1> QED BY <1>1, <1>2 DEF Total

\* What a creation adds to its group.
LEMMA CreationAdds ==
  ASSUME NEW s \in Seq(Rows), NEW r \in Rows, r.kind # "release", NEW g
  PROVE  /\ Total(Append(s, r), g, Len(s) + 1) = Total(s, g, Len(s)) + IF r.of.group = g THEN r.of.bytes ELSE 0
         /\ Cardinality(HeldBy(Append(s, r), g, Len(s) + 1)) =
              Cardinality(HeldBy(s, g, Len(s))) + IF r.of.group = g THEN 1 ELSE 0
<1> DEFINE n == Len(s)
           t == Append(s, r)
           H == HeldBy(s, g, n)
           T == HeldBy(t, g, n + 1)
<1>1. n \in Nat /\ n \in 0..n /\ t \in Seq(Rows) /\ Len(t) = n + 1 /\ t[n + 1] = r
      /\ \A k \in 1..n : k \in 1..n + 1 /\ k # n + 1
      /\ n + 1 \in 1..n + 1
  BY Appended
<1>2. H \in SUBSET (1..n)
  BY <1>1, TotalIsNat, Zenon
<1>3. T = IF r.of.group = g THEN H \cup {n + 1} ELSE H
  <2>1. \A k : k \in T <=> k \in H \/ (k = n + 1 /\ r.of.group = g)
    BY HeldOfAppend
  <2> HIDE DEF T, H, n
  <2>2. CASE r.of.group = g
    <3>1. \A k : k \in T <=> k \in H \cup {n + 1}
      BY <2>1, <2>2
    <3> QED BY <2>2, <3>1
  <2>3. CASE r.of.group # g
    <3>1. \A k : k \in T <=> k \in H
      BY <2>1, <2>3
    <3> QED BY <2>3, <3>1
  <2> QED BY <2>2, <2>3
<1>4. BytesOf(t, H) = BytesOf(s, H)
  BY <1>2, TotalOfAppend
<1>5. Cardinality(BytesOf(s, H)) \in Nat /\ Cardinality(H) \in Nat
  BY <1>2, BytesAreFinite
<1>6. Total(t, g, n + 1) = Cardinality(BytesOf(t, T)) /\ Total(s, g, n) = Cardinality(BytesOf(s, H))
  BY DEF Total
<1>7. H \in SUBSET (1..Len(t)) /\ n + 1 \in 1..Len(t) /\ n + 1 \notin H
  BY <1>1, <1>2
<1> HIDE DEF n, t, H, T
<1>8. /\ Cardinality(BytesOf(t, H \cup {n + 1})) = Cardinality(BytesOf(t, H)) + t[n + 1].of.bytes
      /\ Cardinality(H \cup {n + 1}) = Cardinality(H) + 1
  BY <1>1, <1>7, AddBytes
<1>9. /\ Cardinality(BytesOf(t, T)) = Cardinality(BytesOf(s, H)) + IF r.of.group = g THEN r.of.bytes ELSE 0
      /\ Cardinality(T) = Cardinality(H) + IF r.of.group = g THEN 1 ELSE 0
  <2>1. CASE r.of.group = g
    BY <1>1, <1>3, <1>4, <1>8, <2>1
  <2>2. CASE r.of.group # g
    BY <1>3, <1>4, <1>5, <2>2
  <2> QED BY <2>1, <2>2
<1>10. Total(t, g, n + 1) = Total(s, g, n) + IF r.of.group = g THEN r.of.bytes ELSE 0
  BY <1>6, <1>9
<1> QED BY <1>9, <1>10 DEF n, t, H, T

\* What a release takes from its group.
LEMMA ReleaseTakes ==
  ASSUME NEW s \in Seq(Rows), NEW r \in Rows, r.kind = "release", NEW g, History(s),
         NEW i \in 1..Len(s), Holds(s, i, Len(s)), s[i].of = r.of
  PROVE  /\ Total(s, g, Len(s)) = Total(Append(s, r), g, Len(s) + 1) + IF r.of.group = g THEN r.of.bytes ELSE 0
         /\ Cardinality(HeldBy(s, g, Len(s))) =
              Cardinality(HeldBy(Append(s, r), g, Len(s) + 1)) + IF r.of.group = g THEN 1 ELSE 0
         /\ Total(Append(s, r), g, Len(s) + 1) \in Nat
         /\ Cardinality(HeldBy(Append(s, r), g, Len(s) + 1)) \in Nat
<1> DEFINE n == Len(s)
           t == Append(s, r)
           H == HeldBy(s, g, n)
           T == HeldBy(t, g, n + 1)
<1>1. n \in Nat /\ n \in 0..n
  OBVIOUS
<1>2. H \subseteq 1..n
  <2>1. H \in SUBSET (1..n)
    BY <1>1, TotalIsNat, Zenon
  <2> QED BY <2>1
<1>3. \A k : k \in T <=> k \in H /\ s[k].of.allocation # r.of.allocation
  BY HeldOfAppend
<1>4. T \subseteq H
  BY <1>3
<1>5. T \in SUBSET (1..Len(s))
  BY <1>2, <1>4
<1>6. \A k \in H : Creation(s, k) /\ s[k].of.group = g
  BY DEF HeldBy, Holds
<1>7. i \in H <=> r.of.group = g
  BY <1>1 DEF HeldBy
<1>8. \A k \in H : s[k].of.allocation = r.of.allocation => k = i
  <2>1. Creation(s, i)
    BY DEF Holds
  <2> QED BY <1>2, <1>6, <2>1, OneCreation
<1>9. i \notin T
  BY <1>3
<1>10. BytesOf(t, T) = BytesOf(s, T)
  BY <1>5, TotalOfAppend
<1>11. Cardinality(BytesOf(s, T)) \in Nat /\ Cardinality(T) \in Nat
  BY <1>5, BytesAreFinite
<1>12. Total(t, g, n + 1) = Cardinality(BytesOf(t, T)) /\ Total(s, g, n) = Cardinality(BytesOf(s, H))
  BY DEF Total
<1> HIDE DEF n, t, H, T
<1>13. /\ Cardinality(BytesOf(s, T \cup {i})) = Cardinality(BytesOf(s, T)) + s[i].of.bytes
       /\ Cardinality(T \cup {i}) = Cardinality(T) + 1
  BY <1>5, <1>9, AddBytes
<1>14. CASE r.of.group = g
  <2>1. H = T \cup {i}
    BY <1>3, <1>4, <1>7, <1>8, <1>14
  <2>2. /\ Cardinality(BytesOf(s, H)) = Cardinality(BytesOf(t, T)) + r.of.bytes
        /\ Cardinality(H) = Cardinality(T) + 1
    BY <1>10, <1>13, <2>1
  <2> QED BY <1>10, <1>11, <1>12, <1>14, <2>2 DEF n, t, H, T
<1>15. CASE r.of.group # g
  <2>1. H = T
    BY <1>3, <1>4, <1>7, <1>8, <1>15
  <2>2. /\ Cardinality(BytesOf(s, H)) = Cardinality(BytesOf(t, T)) + 0
        /\ Cardinality(H) = Cardinality(T) + 0
    BY <1>10, <1>11, <2>1
  <2> QED BY <1>10, <1>11, <1>12, <1>15, <2>2 DEF n, t, H, T
<1> QED BY <1>14, <1>15

(***************************************************************************)
(* The maps and the demand, said of the rows.                               *)
(***************************************************************************)

\* Before the first row.
LEMMA NoRows ==
  /\ Len(<<>>) = 0 /\ DOMAIN <<>> = {} /\ History(<<>>)
  /\ \A slot : InSlot(<<>>, 0, slot) = {}
  /\ \A g : HeldBy(<<>>, g, 0) = {} /\ Total(<<>>, g, 0) = 0
<1>1. Len(<<>>) = 0 /\ DOMAIN <<>> = {} /\ 1..0 = {}
  OBVIOUS
<1>2. History(<<>>)
  BY <1>1 DEF History
<1>3. \A slot : InSlot(<<>>, 0, slot) = {}
  BY <1>1 DEF InSlot
<1>4. ASSUME NEW g PROVE HeldBy(<<>>, g, 0) = {} /\ Total(<<>>, g, 0) = 0
  <2>1. HeldBy(<<>>, g, 0) = {}
    BY <1>1 DEF HeldBy
  <2>2. BytesOf(<<>>, {}) = {}
    BY DEF BytesOf
  <2>3. Total(<<>>, g, 0) = Cardinality({})
    BY <2>1, <2>2 DEF Total
  <2> QED BY <2>1, <2>3, FS_EmptySet
<1> QED BY <1>1, <1>2, <1>3, <1>4

\* A group that no row is of.
LEMMA NoRowsDemand ==
  ASSUME NEW g, NEW d, d = NoDemand, NEW s, s = <<>>
  PROVE  /\ d.live = Total(s, g, Len(s))
         /\ d.count = Cardinality(HeldBy(s, g, Len(s)))
         /\ d.peakAt \in 0..Len(s)
         /\ Total(s, g, d.peakAt) = d.peak
         /\ \A n \in 0..Len(s) : Total(s, g, n) <= d.peak /\ (Total(s, g, n) = d.peak => d.peakAt <= n)
<1>1. d.live = 0 /\ d.count = 0 /\ d.peak = 0 /\ d.peakAt = 0
  BY DEF NoDemand
<1>2. Len(s) = 0 /\ Total(s, g, 0) = 0 /\ HeldBy(s, g, 0) = {}
  BY NoRows
<1>3. Cardinality(HeldBy(s, g, 0)) = 0
  BY <1>2, FS_EmptySet
<1>4. d.live = Total(s, g, Len(s)) /\ d.count = Cardinality(HeldBy(s, g, Len(s))) /\ Total(s, g, d.peakAt) = d.peak
  BY <1>1, <1>2, <1>3
<1>5. 0 \in 0..0 /\ \A n \in 0..0 : n = 0
  OBVIOUS
<1>6. d.peakAt \in 0..Len(s)
  BY <1>1, <1>2, <1>5
<1>7. ASSUME NEW n \in 0..Len(s)
      PROVE  Total(s, g, n) <= d.peak /\ (Total(s, g, n) = d.peak => d.peakAt <= n)
  <2>1. n = 0
    BY <1>2, <1>5
  <2> QED BY <1>1, <1>2, <2>1
<1> QED BY <1>4, <1>6, <1>7

\* The loops start before the first row.
LEMMA InitAgrees == Init => RowsInv
<1> SUFFICES ASSUME Init PROVE RowsInv
  OBVIOUS
<1>1. /\ rows = <<>> /\ live = {} /\ all = {} /\ released = {} /\ lastCreation = 0
      /\ occupant = [s \in Slots |-> 0] /\ demand = [g \in Groups |-> NoDemand]
  BY DEF Init
<1>2. MapsAgree
  BY <1>1, NoRows DEF MapsAgree
<1>3. DemandAgrees
  <2>1. \A g \in Groups : demand[g] = NoDemand
    BY <1>1
  <2> QED BY <1>1, <2>1, NoRowsDemand DEF DemandAgrees
<1> QED BY <1>1, <1>2, <1>3, NoRows DEF RowsInv

\* A refusal leaves no row, and nothing in either loop.
LEMMA RefuseAgrees ==
  ASSUME NEW r \in Candidates, Refuse(r)
  PROVE  RowsInv'
<1>1. /\ rows' = <<>> /\ live' = {} /\ all' = {} /\ released' = {} /\ lastCreation' = 0
      /\ occupant' = [s \in Slots |-> 0] /\ demand' = [g \in Groups |-> NoDemand]
  BY DEF Refuse
<1>2. MapsAgree'
  BY <1>1, NoRows DEF MapsAgree
<1>3. DemandAgrees'
  <2>1. \A g \in Groups : demand'[g] = NoDemand
    BY <1>1
  <2> QED BY <1>1, <2>1, NoRowsDemand DEF DemandAgrees
<1> QED BY <1>1, <1>2, <1>3, NoRows DEF RowsInv

\* The row that a release releases.
LEMMA ReleasedRow ==
  ASSUME LifetimesInv, RowsInv, NEW r \in Candidates, Valid(r), r.kind = "release"
  PROVE  \E i \in 1..Len(rows) : Holds(rows, i, Len(rows)) /\ rows[i].of = r.of
<1>1. r.of \in live
  BY DEF Valid
<1>2. TypeOK /\ MapsAgree
  BY DEF LifetimesInv, RowsInv
<1> QED BY <1>1, <1>2, MapFacts

\* The maps of the validator after a release.
LEMMA MapsAgreeAfterRelease ==
  ASSUME LifetimesInv, RowsInv, NEW r \in Candidates, Read(r), r.kind = "release"
  PROVE  MapsAgree'
<1> DEFINE n == Len(rows)
           t == Append(rows, r)
<1>1. /\ r \in Rows /\ rows \in Seq(Rows) /\ Valid(r) /\ Validated(r) /\ rows' = t
      /\ History(rows) /\ TypeOK /\ MapsAgree
  BY CandidatesAreRows DEF LifetimesInv, TypeOK, Read, RowsInv
<1>2. /\ n \in Nat /\ Len(t) = n + 1 /\ DOMAIN t = 1..n + 1 /\ DOMAIN rows = 1..n
      /\ t[n + 1] = r /\ \A k \in 1..n : t[k] = rows[k]
      /\ \A k \in 1..n + 1 : k \in 1..n \/ k = n + 1
      /\ \A k \in 1..n : k \in 1..n + 1
      /\ n + 1 \in 1..n + 1
  BY <1>1, Appended
<1>3. /\ \A k \in 1..n : Creation(t, k) <=> Creation(rows, k)
      /\ ~Creation(t, n + 1)
      /\ \A i \in 1..n : Holds(t, i, n + 1) <=> Holds(rows, i, n) /\ r.of.allocation # rows[i].of.allocation
      /\ ~Holds(t, n + 1, n + 1)
  BY <1>1, HoldsOfAppend
<1>4. /\ \A d : d \in live <=> \E i \in 1..n : Holds(rows, i, n) /\ d = rows[i].of
      /\ \A d : d \in all <=> \E i \in 1..n : Creation(rows, i) /\ d = rows[i].of
      /\ \A a : a \in released <=> \E i \in 1..n : ~Creation(rows, i) /\ a = rows[i].of.allocation
      /\ \A slot \in Slots : /\ InSlot(rows, n, slot) = {} => occupant[slot] = 0
                             /\ InSlot(rows, n, slot) # {} =>
                                  occupant[slot] = rows[Max(InSlot(rows, n, slot))].of.allocation
  BY <1>1, MapFacts
<1>5. /\ live' = live \ {r.of} /\ released' = released \cup {r.of.allocation}
      /\ all' = all /\ occupant' = occupant /\ lastCreation' = lastCreation
  BY <1>1 DEF Validated
<1>6. PICK m \in 1..n : Holds(rows, m, n) /\ rows[m].of = r.of
  BY <1>1, ReleasedRow
<1>7. \A slot : InSlot(t, n + 1, slot) = InSlot(rows, n, slot)
  BY <1>1, InSlotOfAppend
<1>8. \A i \in 1..n : Holds(rows, i, n) => (rows[i].of = r.of <=> rows[i].of.allocation = r.of.allocation)
  BY <1>1, <1>6, OneCreation DEF Holds
<1>9. ASSUME NEW slot, InSlot(rows, n, slot) # {}
      PROVE  t[Max(InSlot(rows, n, slot))] = rows[Max(InSlot(rows, n, slot))]
  <2> DEFINE B == InSlot(rows, n, slot)
  <2>1. B \subseteq 1..n /\ B # {}
    BY <1>9 DEF InSlot
  <2> HIDE DEF B
  <2>2. Max(B) \in B
    BY <1>2, <2>1, MaxIn
  <2>3. Max(B) \in 1..n
    BY <2>1, <2>2
  <2> QED BY <1>2, <2>3 DEF B
<1> HIDE DEF n, t
<1>10. live' = {t[i].of : i \in {k \in 1..n + 1 : Holds(t, k, n + 1)}}
  <2>1. ASSUME NEW d \in live' PROVE \E i \in {k \in 1..n + 1 : Holds(t, k, n + 1)} : d = t[i].of
    <3>1. PICK i \in 1..n : Holds(rows, i, n) /\ d = rows[i].of /\ d # r.of
      BY <1>4, <1>5, <2>1
    <3>2. i \in 1..n + 1 /\ Holds(t, i, n + 1) /\ t[i].of = d
      BY <1>2, <1>3, <1>8, <3>1
    <3> QED BY <3>2
  <2>2. ASSUME NEW i \in 1..n + 1, Holds(t, i, n + 1) PROVE t[i].of \in live'
    <3>1. i \in 1..n
      BY <1>2, <1>3, <2>2
    <3> QED BY <1>2, <1>3, <1>4, <1>5, <2>2, <3>1
  <2> QED BY <2>1, <2>2
<1>11. all' = {t[i].of : i \in {k \in 1..n + 1 : Creation(t, k)}}
  <2>1. ASSUME NEW d \in all' PROVE \E i \in {k \in 1..n + 1 : Creation(t, k)} : d = t[i].of
    BY <1>2, <1>3, <1>4, <1>5
  <2>2. ASSUME NEW i \in 1..n + 1, Creation(t, i) PROVE t[i].of \in all'
    BY <1>2, <1>3, <1>4, <1>5, <2>2
  <2> QED BY <2>1, <2>2
<1>12. released' = {t[i].of.allocation : i \in {k \in 1..n + 1 : ~Creation(t, k)}}
  <2>1. ASSUME NEW a \in released' PROVE \E i \in {k \in 1..n + 1 : ~Creation(t, k)} : a = t[i].of.allocation
    <3>1. CASE a = r.of.allocation
      BY <1>2, <1>3, <3>1
    <3>2. CASE a # r.of.allocation
      <4>1. PICK i \in 1..n : ~Creation(rows, i) /\ a = rows[i].of.allocation
        BY <1>4, <1>5, <2>1, <3>2
      <4> QED BY <1>2, <1>3, <4>1
    <3> QED BY <3>1, <3>2
  <2>2. ASSUME NEW i \in 1..n + 1, ~Creation(t, i) PROVE t[i].of.allocation \in released'
    <3>1. CASE i \in 1..n
      BY <1>2, <1>3, <1>4, <1>5, <2>2, <3>1
    <3>2. CASE i = n + 1
      BY <1>2, <1>5, <3>2
    <3> QED BY <1>2, <3>1, <3>2
  <2> QED BY <2>1, <2>2
<1>13. \A i \in 1..n + 1 : Creation(t, i) => t[i].of.allocation <= lastCreation'
  BY <1>1, <1>2, <1>3, <1>5 DEF MapsAgree
<1>14. lastCreation' # 0 => \E i \in 1..n + 1 : Creation(t, i) /\ t[i].of.allocation = lastCreation'
  <2> SUFFICES ASSUME lastCreation # 0 PROVE \E i \in 1..n + 1 : Creation(t, i) /\ t[i].of.allocation = lastCreation
    BY <1>5
  <2>1. PICK i \in 1..n : Creation(rows, i) /\ rows[i].of.allocation = lastCreation
    BY <1>1, <1>2 DEF MapsAgree
  <2> QED BY <1>2, <1>3, <2>1
<1>15. ASSUME NEW slot \in Slots
       PROVE  occupant'[slot] =
                IF InSlot(t, n + 1, slot) = {} THEN 0 ELSE t[Max(InSlot(t, n + 1, slot))].of.allocation
  <2>1. InSlot(t, n + 1, slot) = InSlot(rows, n, slot) /\ occupant'[slot] = occupant[slot]
    BY <1>5, <1>7
  <2>2. CASE InSlot(rows, n, slot) = {}
    BY <1>4, <2>1, <2>2
  <2>3. CASE InSlot(rows, n, slot) # {}
    <3>1. t[Max(InSlot(rows, n, slot))] = rows[Max(InSlot(rows, n, slot))]
      BY <1>9, <2>3
    <3>2. occupant[slot] = rows[Max(InSlot(rows, n, slot))].of.allocation
      BY <1>4, <2>3
    <3> QED BY <2>1, <2>3, <3>1, <3>2
  <2> QED BY <2>2, <2>3
<1> QED BY <1>1, <1>2, <1>10, <1>11, <1>12, <1>13, <1>14, <1>15 DEF MapsAgree

\* The maps of the validator after a creation.
LEMMA MapsAgreeAfterCreation ==
  ASSUME LifetimesInv, RowsInv, NEW r \in Candidates, Read(r), r.kind # "release"
  PROVE  MapsAgree'
<1> DEFINE n == Len(rows)
           t == Append(rows, r)
<1>1. /\ r \in Rows /\ rows \in Seq(Rows) /\ Validated(r) /\ rows' = t
      /\ r.of.allocation \in Nat \ {0} /\ r.of.slot \in Slots
      /\ r.of.allocation > lastCreation /\ lastCreation \in Nat
      /\ occupant \in [Slots -> Nat]
      /\ History(rows) /\ TypeOK /\ MapsAgree
  <2>1. Creates(r)
    BY DEF Read, Valid
  <2> QED BY <2>1, CandidatesAreRows DEF LifetimesInv, TypeOK, Read, RowsInv, Creates
<1>2. /\ n \in Nat /\ Len(t) = n + 1 /\ DOMAIN t = 1..n + 1 /\ DOMAIN rows = 1..n
      /\ t[n + 1] = r /\ \A k \in 1..n : t[k] = rows[k]
      /\ \A k \in 1..n + 1 : k \in 1..n \/ k = n + 1
      /\ \A k \in 1..n : k \in 1..n + 1
      /\ n + 1 \in 1..n + 1
  BY <1>1, Appended
<1>3. /\ \A k \in 1..n : Creation(t, k) <=> Creation(rows, k)
      /\ Creation(t, n + 1)
      /\ \A i \in 1..n : Holds(t, i, n + 1) <=> Holds(rows, i, n)
      /\ Holds(t, n + 1, n + 1)
  BY <1>1, HoldsOfAppend
<1>4. /\ \A d : d \in live <=> \E i \in 1..n : Holds(rows, i, n) /\ d = rows[i].of
      /\ \A d : d \in all <=> \E i \in 1..n : Creation(rows, i) /\ d = rows[i].of
      /\ \A a : a \in released <=> \E i \in 1..n : ~Creation(rows, i) /\ a = rows[i].of.allocation
      /\ \A slot \in Slots : /\ InSlot(rows, n, slot) = {} => occupant[slot] = 0
                             /\ InSlot(rows, n, slot) # {} =>
                                  occupant[slot] = rows[Max(InSlot(rows, n, slot))].of.allocation
      /\ \A i \in 1..n : rows[i].of.allocation \in Nat
  BY <1>1, MapFacts
<1>5. /\ live' = live \cup {r.of} /\ all' = all \cup {r.of} /\ released' = released
      /\ occupant' = [occupant EXCEPT ![r.of.slot] = r.of.allocation] /\ lastCreation' = r.of.allocation
  BY <1>1 DEF Validated
<1>6. \A slot : InSlot(t, n + 1, slot) = IF r.of.slot = slot THEN InSlot(rows, n, slot) \cup {n + 1} ELSE InSlot(rows, n, slot)
  <2> SUFFICES ASSUME NEW slot
               PROVE  InSlot(t, n + 1, slot) = IF r.of.slot = slot THEN InSlot(rows, n, slot) \cup {n + 1} ELSE InSlot(rows, n, slot)
    OBVIOUS
  <2>1. r \in Rows /\ rows \in Seq(Rows) /\ r.kind # "release"
    BY <1>1
  <2>2. InSlot(t, n + 1, slot) =
          IF r.kind # "release" /\ r.of.slot = slot THEN InSlot(rows, n, slot) \cup {n + 1} ELSE InSlot(rows, n, slot)
    BY <2>1, InSlotOfAppend, Zenon
  <2> QED BY <2>1, <2>2
<1>7. ASSUME NEW slot, InSlot(rows, n, slot) # {}
      PROVE  t[Max(InSlot(rows, n, slot))] = rows[Max(InSlot(rows, n, slot))]
  <2> DEFINE B == InSlot(rows, n, slot)
  <2>1. B \subseteq 1..n /\ B # {}
    BY <1>7 DEF InSlot
  <2> HIDE DEF B
  <2>2. Max(B) \in B
    BY <1>2, <2>1, MaxIn
  <2>3. Max(B) \in 1..n
    BY <2>1, <2>2
  <2> QED BY <1>2, <2>3 DEF B
<1> HIDE DEF n, t
<1>8. live' = {t[i].of : i \in {k \in 1..n + 1 : Holds(t, k, n + 1)}}
  <2>1. ASSUME NEW d \in live' PROVE \E i \in {k \in 1..n + 1 : Holds(t, k, n + 1)} : d = t[i].of
    <3>1. CASE d = r.of
      BY <1>2, <1>3, <3>1
    <3>2. CASE d # r.of
      <4>1. PICK i \in 1..n : Holds(rows, i, n) /\ d = rows[i].of
        BY <1>4, <1>5, <2>1, <3>2
      <4> QED BY <1>2, <1>3, <4>1
    <3> QED BY <3>1, <3>2
  <2>2. ASSUME NEW i \in 1..n + 1, Holds(t, i, n + 1) PROVE t[i].of \in live'
    <3>1. CASE i \in 1..n
      BY <1>2, <1>3, <1>4, <1>5, <2>2, <3>1
    <3>2. CASE i = n + 1
      BY <1>2, <1>5, <3>2
    <3> QED BY <1>2, <3>1, <3>2
  <2> QED BY <2>1, <2>2
<1>9. all' = {t[i].of : i \in {k \in 1..n + 1 : Creation(t, k)}}
  <2>1. ASSUME NEW d \in all' PROVE \E i \in {k \in 1..n + 1 : Creation(t, k)} : d = t[i].of
    <3>1. CASE d = r.of
      BY <1>2, <1>3, <3>1
    <3>2. CASE d # r.of
      <4>1. PICK i \in 1..n : Creation(rows, i) /\ d = rows[i].of
        BY <1>4, <1>5, <2>1, <3>2
      <4> QED BY <1>2, <1>3, <4>1
    <3> QED BY <3>1, <3>2
  <2>2. ASSUME NEW i \in 1..n + 1, Creation(t, i) PROVE t[i].of \in all'
    <3>1. CASE i \in 1..n
      BY <1>2, <1>3, <1>4, <1>5, <2>2, <3>1
    <3>2. CASE i = n + 1
      BY <1>2, <1>5, <3>2
    <3> QED BY <1>2, <3>1, <3>2
  <2> QED BY <2>1, <2>2
<1>10. released' = {t[i].of.allocation : i \in {k \in 1..n + 1 : ~Creation(t, k)}}
  <2>1. ASSUME NEW a \in released' PROVE \E i \in {k \in 1..n + 1 : ~Creation(t, k)} : a = t[i].of.allocation
    BY <1>2, <1>3, <1>4, <1>5
  <2>2. ASSUME NEW i \in 1..n + 1, ~Creation(t, i) PROVE t[i].of.allocation \in released'
    <3>1. i \in 1..n
      BY <1>2, <1>3, <2>2
    <3> QED BY <1>2, <1>3, <1>4, <1>5, <2>2, <3>1
  <2> QED BY <2>1, <2>2
<1>11. \A i \in 1..n + 1 : Creation(t, i) => t[i].of.allocation <= lastCreation'
  <2>1. \A i \in 1..n : Creation(rows, i) => rows[i].of.allocation <= lastCreation
    BY <1>1, <1>2 DEF MapsAgree
  <2>2. ASSUME NEW i \in 1..n, Creation(t, i) PROVE t[i].of.allocation <= lastCreation'
    BY <1>1, <1>2, <1>3, <1>4, <1>5, <2>1, <2>2
  <2>3. t[n + 1].of.allocation <= lastCreation'
    BY <1>1, <1>2, <1>5
  <2> QED BY <1>2, <2>2, <2>3
<1>12. \E i \in 1..n + 1 : Creation(t, i) /\ t[i].of.allocation = lastCreation'
  BY <1>2, <1>3, <1>5
<1>13. ASSUME NEW slot \in Slots
       PROVE  occupant'[slot] =
                IF InSlot(t, n + 1, slot) = {} THEN 0 ELSE t[Max(InSlot(t, n + 1, slot))].of.allocation
  <2>1. CASE r.of.slot = slot
    <3> DEFINE B == InSlot(rows, n, slot) \cup {n + 1}
    <3>1. B \in SUBSET Nat /\ n + 1 \in B /\ \A k \in B : k <= n + 1
      BY <1>2 DEF InSlot
    <3>2. InSlot(t, n + 1, slot) = B
      BY <1>6, <2>1
    <3> HIDE DEF B
    <3>3. Max(B) = n + 1
      BY <3>1, MaxIs
    <3>4. occupant'[slot] = r.of.allocation
      BY <1>1, <1>5, <2>1
    <3> QED BY <1>2, <3>1, <3>2, <3>3, <3>4
  <2>2. CASE r.of.slot # slot
    <3>1. InSlot(t, n + 1, slot) = InSlot(rows, n, slot) /\ occupant'[slot] = occupant[slot]
      BY <1>1, <1>5, <1>6, <2>2
    <3>2. CASE InSlot(rows, n, slot) = {}
      BY <1>4, <3>1, <3>2
    <3>3. CASE InSlot(rows, n, slot) # {}
      <4>1. t[Max(InSlot(rows, n, slot))] = rows[Max(InSlot(rows, n, slot))]
        BY <1>7, <3>3
      <4>2. occupant[slot] = rows[Max(InSlot(rows, n, slot))].of.allocation
        BY <1>4, <3>3
      <4> QED BY <3>1, <3>3, <4>1, <4>2
    <3> QED BY <3>2, <3>3
  <2> QED BY <2>1, <2>2
<1> QED BY <1>1, <1>2, <1>8, <1>9, <1>10, <1>11, <1>12, <1>13 DEF MapsAgree

\* The demand of every group is that of the rows after one row more.
LEMMA DemandAgreesAfter ==
  ASSUME LifetimesInv, RowsInv, NEW r \in Candidates, Read(r)
  PROVE  DemandAgrees'
<1> DEFINE n == Len(rows)
           t == Append(rows, r)
<1>1. /\ r \in Rows /\ rows \in Seq(Rows) /\ rows' = t /\ Valid(r) /\ Projected(r, n + 1)
      /\ r.of.group \in Groups /\ r.of.bytes \in Nat
      /\ History(rows) /\ demand \in [Groups -> Demands]
  BY CandidatesAreRows DEF LifetimesInv, TypeOK, Read, RowsInv
<1>2. /\ n \in Nat /\ Len(t) = n + 1 /\ n \in 0..n
      /\ \A m \in 0..n + 1 : m \in 0..n \/ m = n + 1
      /\ \A m \in 0..n : m \in 0..n + 1 /\ m <= n + 1 /\ m # n + 1
      /\ n + 1 \in 0..n + 1
  BY <1>1, Appended
<1>3. ASSUME NEW g \in Groups
      PROVE  /\ demand'[g].live = Total(t, g, n + 1)
             /\ demand'[g].count = Cardinality(HeldBy(t, g, n + 1))
             /\ demand'[g].peakAt \in 0..n + 1
             /\ Total(t, g, demand'[g].peakAt) = demand'[g].peak
             /\ \A m \in 0..n + 1 :
                  /\ Total(t, g, m) <= demand'[g].peak
                  /\ Total(t, g, m) = demand'[g].peak => demand'[g].peakAt <= m
  <2>1. /\ demand[g] \in Demands
        /\ demand[g].live \in Nat /\ demand[g].count \in Nat /\ demand[g].peak \in Nat /\ demand[g].peakAt \in Nat
    <3>1. demand[g] \in Demands
      BY <1>1
    <3> QED BY <3>1 DEF Demands
  <2>2. /\ demand[g].live = Total(rows, g, n) /\ demand[g].count = Cardinality(HeldBy(rows, g, n))
        /\ demand[g].peakAt \in 0..n /\ Total(rows, g, demand[g].peakAt) = demand[g].peak
        /\ \A m \in 0..n : /\ Total(rows, g, m) <= demand[g].peak
                           /\ Total(rows, g, m) = demand[g].peak => demand[g].peakAt <= m
    BY DEF RowsInv, DemandAgrees
  <2>3. \A m \in 0..n : Total(t, g, m) = Total(rows, g, m) /\ Total(rows, g, m) \in Nat
    BY <1>1, TotalOfAppend
  <2>4. demand' = [demand EXCEPT ![r.of.group] = IF r.kind = "release" THEN Shrink(@, r.of) ELSE Grow(@, r.of, n + 1)]
    BY <1>1 DEF Projected
  <2> HIDE DEF n, t
  <2>5. CASE r.kind = "release"
    <3>1. PICK i \in 1..n : Holds(rows, i, n) /\ rows[i].of = r.of
      BY <1>1, <2>5, ReleasedRow DEF n
    <3>2. /\ Total(rows, g, n) = Total(t, g, n + 1) + IF r.of.group = g THEN r.of.bytes ELSE 0
          /\ Cardinality(HeldBy(rows, g, n)) = Cardinality(HeldBy(t, g, n + 1)) + IF r.of.group = g THEN 1 ELSE 0
          /\ Total(t, g, n + 1) \in Nat /\ Cardinality(HeldBy(t, g, n + 1)) \in Nat
      BY <1>1, <2>5, <3>1, ReleaseTakes DEF n, t
    <3>3. /\ demand'[g].live = demand[g].live - IF r.of.group = g THEN r.of.bytes ELSE 0
          /\ demand'[g].count = demand[g].count - IF r.of.group = g THEN 1 ELSE 0
          /\ demand'[g].peak = demand[g].peak /\ demand'[g].peakAt = demand[g].peakAt
      <4>1. CASE r.of.group = g
        BY <1>1, <2>1, <2>4, <2>5, <4>1 DEF Shrink, Demands
      <4>2. CASE r.of.group # g
        BY <1>1, <2>1, <2>4, <4>2
      <4> QED BY <4>1, <4>2
    <3>4. /\ demand'[g].live = Total(t, g, n + 1) /\ demand'[g].count = Cardinality(HeldBy(t, g, n + 1))
          /\ Total(t, g, n + 1) <= Total(rows, g, n)
      BY <1>1, <2>2, <3>2, <3>3
    <3>5. Total(t, g, n + 1) <= demand[g].peak
      BY <1>2, <2>1, <2>2, <2>3, <3>2, <3>4
    <3>6. demand[g].peakAt <= n + 1
      BY <1>2, <2>2
    <3> QED BY <1>2, <2>2, <2>3, <3>3, <3>4, <3>5, <3>6
  <2>6. CASE r.kind # "release" /\ r.of.group # g
    <3>1. Total(t, g, n + 1) = Total(rows, g, n) /\ Cardinality(HeldBy(t, g, n + 1)) = Cardinality(HeldBy(rows, g, n))
      <4>1. /\ Total(t, g, n + 1) = Total(rows, g, n) + 0
            /\ Cardinality(HeldBy(t, g, n + 1)) = Cardinality(HeldBy(rows, g, n)) + 0
        BY <1>1, <2>6, CreationAdds DEF n, t
      <4> QED BY <2>1, <2>2, <4>1
    <3>2. demand'[g] = demand[g]
      BY <1>1, <2>4, <2>6
    <3>3. Total(t, g, n + 1) <= demand[g].peak /\ demand[g].peakAt <= n + 1
      BY <1>2, <2>2, <3>1
    <3> QED BY <1>2, <2>2, <2>3, <3>1, <3>2, <3>3
  <2>7. CASE r.kind # "release" /\ r.of.group = g
    <3> DEFINE next == demand[g].live + r.of.bytes
    <3>1. Total(t, g, n + 1) = next /\ Cardinality(HeldBy(t, g, n + 1)) = demand[g].count + 1 /\ next \in Nat
      <4>1. /\ Total(t, g, n + 1) = Total(rows, g, n) + r.of.bytes
            /\ Cardinality(HeldBy(t, g, n + 1)) = Cardinality(HeldBy(rows, g, n)) + 1
        BY <1>1, <2>7, CreationAdds DEF n, t
      <4> QED BY <1>1, <2>1, <2>2, <4>1
    <3>2. /\ demand'[g].live = next /\ demand'[g].count = demand[g].count + 1
          /\ demand'[g].peak = IF next > demand[g].peak THEN next ELSE demand[g].peak
          /\ demand'[g].peakAt = IF next > demand[g].peak THEN n + 1 ELSE demand[g].peakAt
      <4>1. demand'[g] = Grow(demand[g], r.of, n + 1)
        BY <1>1, <2>4, <2>7
      <4> QED BY <2>1, <4>1 DEF Grow, Demands
    <3> HIDE DEF next
    <3>3. CASE next > demand[g].peak
      <4>1. demand'[g].peak = next /\ demand'[g].peakAt = n + 1
        BY <3>2, <3>3
      <4>2. \A m \in 0..n : Total(rows, g, m) <= next /\ Total(rows, g, m) # next
        BY <2>1, <2>2, <2>3, <3>1, <3>3
      <4>3. next <= next /\ n + 1 <= n + 1
        BY <1>2, <3>1
      <4> QED BY <1>2, <2>3, <3>1, <3>2, <4>1, <4>2, <4>3
    <3>4. CASE ~(next > demand[g].peak)
      <4>1. demand'[g].peak = demand[g].peak /\ demand'[g].peakAt = demand[g].peakAt
        BY <3>2, <3>4
      <4>2. next <= demand[g].peak /\ demand[g].peakAt <= n + 1
        BY <1>2, <2>1, <2>2, <3>1, <3>4
      <4> QED BY <1>2, <2>2, <2>3, <3>1, <3>2, <4>1, <4>2
    <3> QED BY <3>3, <3>4
  <2> QED BY <2>5, <2>6, <2>7
<1> QED BY <1>1, <1>2, <1>3 DEF DemandAgrees

\* One row, in both loops.
LEMMA ReadAgrees ==
  ASSUME LifetimesInv, RowsInv, NEW r \in Candidates, Read(r)
  PROVE  RowsInv'
<1>1. Valid(r) /\ rows' = Append(rows, r) /\ History(rows) /\ MapsAgree
  BY DEF Read, RowsInv
<1>2. History(rows)'
  BY <1>1, ValidIsNext
<1>3. MapsAgree'
  BY MapsAgreeAfterRelease, MapsAgreeAfterCreation
<1>4. DemandAgrees'
  BY DemandAgreesAfter
<1> QED BY <1>2, <1>3, <1>4 DEF RowsInv

\* What a page of any length has left in the two loops is what its rows say: the
\* maps of the validator, and the demand with its peak.
THEOREM RowsInvariant == Spec => []RowsInv
<1>1. Init => RowsInv
  BY InitAgrees
<1>2. LifetimesInv /\ RowsInv /\ [Next]_vars => RowsInv'
  <2> SUFFICES ASSUME LifetimesInv, RowsInv, [Next]_vars PROVE RowsInv'
    OBVIOUS
  <2>1. ASSUME NEW r \in Candidates, Read(r) PROVE RowsInv'
    BY <2>1, ReadAgrees
  <2>2. ASSUME NEW r \in Candidates, Refuse(r) PROVE RowsInv'
    BY <2>2, RefuseAgrees
  <2>3. CASE UNCHANGED vars
    BY <2>3 DEF vars, RowsInv, MapsAgree, DemandAgrees
  <2> QED BY <2>1, <2>2, <2>3 DEF Next
<1> QED BY <1>1, <1>2, LifetimesInvariant, PTL DEF Spec

\* What the second loop needs of a row that the first admitted is there, but for the
\* room in the bytes of a group.
LEMMA ProjectsIsRoom ==
  ASSUME LifetimesInv, RowsInv, NEW r \in Candidates, Valid(r)
  PROVE  Projects(r) <=>
           (r.kind # "release" => Total(rows, r.of.group, Len(rows)) + r.of.bytes <= MaxBytes)
<1> DEFINE n == Len(rows)
           g == r.of.group
<1>1. /\ r \in Rows /\ rows \in Seq(Rows) /\ n \in Nat /\ n \in 0..n /\ g \in Groups /\ r.of.bytes \in Nat
      /\ r.of.allocation \in Nat
      /\ History(rows) /\ MapsAgree /\ TypeOK /\ open \subseteq DOMAIN lifetimes
  BY CandidatesAreRows DEF LifetimesInv, TypeOK, RowsInv
<1>2. demand[g].live = Total(rows, g, n) /\ demand[g].count = Cardinality(HeldBy(rows, g, n))
  BY <1>1 DEF RowsInv, DemandAgrees
<1>3. CASE r.kind = "release"
  <2>1. PICK i \in 1..n : Holds(rows, i, n) /\ rows[i].of = r.of
    BY <1>3, ReleasedRow
  <2>2. \E k \in Opened(r.of.allocation) :
          lifetimes[k].of.group = r.of.group /\ lifetimes[k].of.bytes = r.of.bytes /\ lifetimes[k].released = 0
    <3>1. r.of \in live
      BY <1>3 DEF Valid
    <3>2. PICK k \in open : lifetimes[k].of = r.of
      BY <3>1 DEF LifetimesInv, LoopsAgree
    <3>3. lifetimes[k].released = 0
      BY <1>1, <3>2 DEF LifetimesInv, LoopsAgree
    <3>4. k \in Opened(r.of.allocation)
      BY <3>2 DEF Opened
    <3> QED BY <3>2, <3>3, <3>4
  <2> DEFINE t == Append(rows, r)
  <2>3. /\ Total(rows, g, n) = Total(t, g, n + 1) + r.of.bytes
        /\ Cardinality(HeldBy(rows, g, n)) = Cardinality(HeldBy(t, g, n + 1)) + 1
        /\ Total(t, g, n + 1) \in Nat /\ Cardinality(HeldBy(t, g, n + 1)) \in Nat
    BY <1>1, <1>3, <2>1, ReleaseTakes
  <2> HIDE DEF t, n, g
  <2>4. Total(rows, g, n) >= r.of.bytes /\ Cardinality(HeldBy(rows, g, n)) > 0
    BY <1>1, <2>3
  <2>5. Projects(r)
    BY <1>2, <1>3, <2>2, <2>4 DEF Projects, g
  <2> QED BY <1>3, <2>5
<1>4. CASE r.kind # "release"
  <2>1. r.of.allocation > lastCreation /\ lastCreation \in Nat
    BY <1>1, <1>4 DEF Valid, Creates, TypeOK
  <2>2. \A i \in DOMAIN lifetimes : lifetimes[i].of.allocation <= lastCreation /\ lifetimes[i].of.allocation \in Nat
    BY <1>1, LifetimeFacts DEF LifetimesInv, LoopsAgree
  <2>3. Opened(r.of.allocation) = {}
    BY <1>1, <2>1, <2>2 DEF Opened
  <2> QED BY <1>2, <1>4, <2>3 DEF Projects, Grown
<1> QED BY <1>3, <1>4

\* A page of any length and any scopes: the validator refuses exactly what no storage
\* can have done, and the projection refuses none of the others but for want of room.
THEOREM LoopsAreAlwaysExact == Spec => []LoopsAreExact
<1>1. LifetimesInv /\ RowsInv => LoopsAreExact
  <2> SUFFICES ASSUME LifetimesInv, RowsInv PROVE LoopsAreExact
    OBVIOUS
  <2>1. History(rows) /\ MapsAgree
    BY DEF RowsInv
  <2>2. \A r \in Candidates : Valid(r) <=> History(Append(rows, r))
    BY <2>1, ValidIsNext
  <2>3. \A r \in Candidates : Valid(r) => (Projects(r) <=>
          (r.kind # "release" => Total(rows, r.of.group, Len(rows)) + r.of.bytes <= MaxBytes))
    BY ProjectsIsRoom
  <2> QED BY <2>1, <2>2, <2>3 DEF LoopsAreExact
<1> QED BY <1>1, LifetimesInvariant, RowsInvariant, PTL

\* The demand shown of a page of any length is that of its rows: what exists, its
\* bytes, the highest total after any row and the first row that reached it.
THEOREM DemandIsAlwaysExact == Spec => []DemandIsExact
<1>1. LifetimesInv /\ RowsInv => DemandIsExact
  <2> SUFFICES ASSUME LifetimesInv, RowsInv, NEW g \in Groups
               PROVE  /\ demand[g].live = Total(rows, g, Len(rows))
                      /\ demand[g].count = Cardinality(HeldBy(rows, g, Len(rows)))
                      /\ demand[g].peak = Max({Total(rows, g, n) : n \in 0..Len(rows)})
                      /\ demand[g].peakAt = Min({n \in 0..Len(rows) : Total(rows, g, n) = demand[g].peak})
    BY DEF DemandIsExact
  <2> DEFINE S == {Total(rows, g, n) : n \in 0..Len(rows)}
             F == {n \in 0..Len(rows) : Total(rows, g, n) = demand[g].peak}
  <2>1. rows \in Seq(Rows) /\ Len(rows) \in Nat
    BY DEF LifetimesInv, TypeOK
  <2>2. /\ demand[g].live = Total(rows, g, Len(rows)) /\ demand[g].count = Cardinality(HeldBy(rows, g, Len(rows)))
        /\ demand[g].peakAt \in 0..Len(rows) /\ Total(rows, g, demand[g].peakAt) = demand[g].peak
        /\ \A n \in 0..Len(rows) : /\ Total(rows, g, n) <= demand[g].peak
                                   /\ Total(rows, g, n) = demand[g].peak => demand[g].peakAt <= n
    BY DEF RowsInv, DemandAgrees
  <2>3. S \in SUBSET Nat
    BY <2>1, TotalIsNat
  <2>4. F \in SUBSET Nat
    BY <2>1
  <2>5. demand[g].peak \in S /\ \A x \in S : x <= demand[g].peak
    BY <2>2
  <2>6. demand[g].peakAt \in F /\ \A x \in F : demand[g].peakAt <= x
    BY <2>2
  <2> HIDE DEF S, F
  <2>7. Max(S) = demand[g].peak
    BY <2>3, <2>5, MaxIs
  <2>8. Min(F) = demand[g].peakAt
    BY <2>4, <2>6, MinIs
  <2> QED BY <2>2, <2>7, <2>8 DEF S, F
<1> QED BY <1>1, LifetimesInvariant, RowsInvariant, PTL

=============================================================================
