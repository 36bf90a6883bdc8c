----------------------- MODULE ResidualFlattenProofs -----------------------
(***************************************************************************)
(* Proofs about ResidualFlatten: for any processes, legs and quantities,   *)
(* and any number of generations, passes, restarts and moves of the lease. *)
(* First what the books owe to the broker (IInv), then how a state of the  *)
(* residual follows from an older one (VersionInv), and what the           *)
(* generations left behind came to (ReasonInv, RetiredInv).  Each layer    *)
(* rests on those before it.                                               *)
(***************************************************************************)
EXTENDS ResidualFlatten, FiniteSetTheorems, TLAPS

-----------------------------------------------------------------------------
(***************************************************************************)
(* Sums of fills.  h is the record of one leg's orders, by generation.     *)
(***************************************************************************)
Filled(h, S) == MapThenSumSet(LAMBDA g : h[g].filled, S)

\* Orders that filled at most B each.
Fills(B) == {h \in [Generations -> BrokerOrder] : \A g \in Generations : h[g].filled <= B}

\* One element for every unit filled.
Units(h, S, B) == {c \in S \X (1 .. B) : c[2] <= h[c[1]].filled}

\* The recursion MapThenSumSet is defined by.
Summing(h, S, iter) ==
  iter = [s \in SUBSET S |->
            IF s = {} THEN 0
            ELSE h[CHOOSE x \in s : TRUE].filled + iter[s \ {CHOOSE x \in s : TRUE}]]

LEMMA FilledUnfolds ==
  ASSUME NEW h, NEW S PROVE Filled(h, S) = (CHOOSE iter : Summing(h, S, iter))[S]
BY SMT DEF Filled, MapThenSumSet, MapThenFoldSet, Summing

LEMMA GenerationsFinite == IsFiniteSet(Generations)
BY FS_Interval, ResidualConstants DEF Generations

LEMMA UnitsFinite ==
  ASSUME NEW B \in Nat, NEW h \in Fills(B), NEW S \in SUBSET Generations
  PROVE  IsFiniteSet(Units(h, S, B)) /\ Cardinality(Units(h, S, B)) \in Nat
<1>1. IsFiniteSet(S) /\ IsFiniteSet(1 .. B)
  BY GenerationsFinite, FS_Subset, FS_Interval
<1>2. IsFiniteSet(S \X (1 .. B))
  BY <1>1, FS_Product
<1>3. Units(h, S, B) \in SUBSET (S \X (1 .. B))
  BY DEF Units
<1> QED BY <1>2, <1>3, FS_Subset, FS_CardinalityType

LEMMA UnitsSplit ==
  ASSUME NEW B \in Nat, NEW h \in Fills(B), NEW S \in SUBSET Generations,
         NEW T \in SUBSET Generations, S \cap T = {}
  PROVE  Cardinality(Units(h, S \cup T, B)) =
           Cardinality(Units(h, S, B)) + Cardinality(Units(h, T, B))
<1>1. /\ Units(h, S \cup T, B) = Units(h, S, B) \cup Units(h, T, B)
      /\ Units(h, S, B) \cap Units(h, T, B) = {}
  BY DEF Units
<1>2. /\ IsFiniteSet(Units(h, S, B)) /\ IsFiniteSet(Units(h, T, B))
      /\ Cardinality(Units(h, S, B)) \in Nat /\ Cardinality(Units(h, T, B)) \in Nat
  BY UnitsFinite
<1>3. Cardinality(Units(h, S, B) \cap Units(h, T, B)) = 0
  BY <1>1, FS_EmptySet
<1>4. Cardinality(Units(h, S, B) \cup Units(h, T, B)) =
        Cardinality(Units(h, S, B)) + Cardinality(Units(h, T, B))
          - Cardinality(Units(h, S, B) \cap Units(h, T, B))
  BY <1>2, FS_Union, Zenon
<1>5. Cardinality(Units(h, S \cup T, B)) =
        Cardinality(Units(h, S, B)) + Cardinality(Units(h, T, B)) - 0
  BY <1>1, <1>3, <1>4, Zenon
<1> QED BY <1>2, <1>5

LEMMA UnitsOfOne ==
  ASSUME NEW B \in Nat, NEW h \in Fills(B), NEW g \in Generations
  PROVE  Cardinality(Units(h, {g}, B)) = h[g].filled
<1> DEFINE n == h[g].filled
<1>1. n \in 0 .. B
  BY DEF Fills, BrokerOrder
<1>2. Units(h, {g}, B) = {g} \X (1 .. n)
  <2>1. Units(h, {g}, B) = {c \in {g} \X (1 .. B) : c[2] <= n}
    BY DEF Units
  <2> HIDE DEF n
  <2>2. \A i \in Int : i \in 1 .. B /\ i <= n <=> i \in 1 .. n
    BY <1>1
  <2>3. \A c : c \in {d \in {g} \X (1 .. B) : d[2] <= n} <=> c \in {g} \X (1 .. n)
    BY <1>1, <2>2
  <2> QED BY <2>1, <2>3
<1>3. IsFiniteSet({g}) /\ Cardinality({g}) = 1
  BY FS_Singleton
<1>4. n \in Int /\ 1 \in Int
  BY <1>1
<1> HIDE DEF n
<1>5. IsFiniteSet(1 .. n) /\ Cardinality(1 .. n) = IF 1 > n THEN 0 ELSE n - 1 + 1
  BY <1>4, FS_Interval, Zenon
<1>6. Cardinality(1 .. n) = n
  BY <1>1, <1>5
<1>7. Cardinality({g} \X (1 .. n)) = Cardinality({g}) * Cardinality(1 .. n)
  BY <1>3, <1>5, FS_Product, Zenon
<1>8. Cardinality({g} \X (1 .. n)) = 1 * n
  BY <1>3, <1>6, <1>7, Zenon
<1>9. Cardinality(Units(h, {g}, B)) = 1 * n
  BY <1>2, <1>8
<1> QED BY <1>1, <1>9 DEF n

\* MapThenSumSet counts units: the one induction every fact about sums rests on.
LEMMA FilledCounts ==
  ASSUME NEW B \in Nat, NEW h \in Fills(B), NEW S \in SUBSET Generations
  PROVE  Filled(h, S) = Cardinality(Units(h, S, B))
<1> DEFINE pick(s) == CHOOSE x \in s : TRUE
           count == [s \in SUBSET S |-> Cardinality(Units(h, s, B))]
           iter == CHOOSE it : Summing(h, S, it)
<1>1. \A s \in SUBSET S : s # {} => pick(s) \in s
  OBVIOUS
<1>2. ASSUME NEW s \in SUBSET S, s # {}
      PROVE  Cardinality(Units(h, s, B)) = h[pick(s)].filled + Cardinality(Units(h, s \ {pick(s)}, B))
  <2>1. pick(s) \in s /\ pick(s) \in Generations
    BY <1>1, <1>2
  <2> HIDE DEF pick
  <2>2. /\ s = {pick(s)} \cup (s \ {pick(s)}) /\ {pick(s)} \cap (s \ {pick(s)}) = {}
        /\ {pick(s)} \in SUBSET Generations /\ s \ {pick(s)} \in SUBSET Generations
    BY <2>1
  <2>3. Cardinality(Units(h, {pick(s)} \cup (s \ {pick(s)}), B)) =
          Cardinality(Units(h, {pick(s)}, B)) + Cardinality(Units(h, s \ {pick(s)}, B))
    BY <2>2, UnitsSplit, Zenon
  <2>4. Cardinality(Units(h, {pick(s)}, B)) = h[pick(s)].filled
    BY <2>1, UnitsOfOne
  <2> QED BY <2>2, <2>3, <2>4, Zenon
<1>3. Cardinality(Units(h, {}, B)) = 0
  <2>1. Units(h, {}, B) = {}
    BY DEF Units
  <2> QED BY <2>1, FS_EmptySet
<1>4. Summing(h, S, count)
  <2>1. \A s \in SUBSET S : s \ {pick(s)} \in SUBSET S
    OBVIOUS
  <2>2. \A s \in SUBSET S :
          count[s] = IF s = {} THEN 0 ELSE h[pick(s)].filled + count[s \ {pick(s)}]
    BY <1>2, <1>3, <2>1
  <2>3. count = [s \in SUBSET S |-> count[s]]
    OBVIOUS
  <2> HIDE DEF count, pick
  <2>4. count = [s \in SUBSET S |->
                   IF s = {} THEN 0 ELSE h[pick(s)].filled + count[s \ {pick(s)}]]
    BY <2>2, <2>3
  <2> QED BY <2>4 DEF Summing, pick
<1>5. Summing(h, S, iter)
  BY <1>4
<1>6. \A s \in SUBSET S :
        iter[s] = IF s = {} THEN 0 ELSE h[pick(s)].filled + iter[s \ {pick(s)}]
  <2> HIDE DEF iter
  <2>1. iter = [s \in SUBSET S |->
                  IF s = {} THEN 0 ELSE h[pick(s)].filled + iter[s \ {pick(s)}]]
    BY <1>5 DEF Summing
  <2> HIDE DEF pick
  <2> QED BY <2>1
<1> DEFINE wrong == {s \in SUBSET S : iter[s] # Cardinality(Units(h, s, B))}
<1>7. wrong = {}
  <2> SUFFICES ASSUME wrong # {} PROVE FALSE
    OBVIOUS
  <2>1. IsFiniteSet(S)
    BY GenerationsFinite, FS_Subset
  <2>2. IsWellFoundedOn(StrictSubsetOrdering(S), SUBSET S)
    BY <2>1, FS_StrictSubsetOrderingWellFounded, FS_FiniteSubsetsOfFinite
  <2>3. wrong \subseteq SUBSET S
    OBVIOUS
  <2> HIDE DEF wrong
  <2>4. PICK s \in wrong : \A t \in wrong : ~(<<t, s>> \in StrictSubsetOrdering(S))
    BY <2>2, <2>3, WFMin
  <2>5. s \in SUBSET S /\ iter[s] # Cardinality(Units(h, s, B))
    BY DEF wrong
  <2>6. s # {}
    BY <1>3, <1>6, <2>5
  <2>7. pick(s) \in s
    BY <1>1, <2>5, <2>6
  <2> DEFINE t == s \ {pick(s)}
  <2>8. t \in SUBSET S /\ t \subseteq s /\ t # s
    BY <2>5, <2>7
  <2>9. <<t, s>> \in StrictSubsetOrdering(S)
    BY <2>5, <2>8 DEF StrictSubsetOrdering
  <2>10. iter[t] = Cardinality(Units(h, t, B))
    BY <2>4, <2>8, <2>9 DEF wrong
  <2> HIDE DEF iter, pick
  <2> QED BY <1>2, <1>6, <2>5, <2>6, <2>10
<1>8. iter[S] = Cardinality(Units(h, S, B))
  BY <1>7
<1> QED BY <1>8, FilledUnfolds

LEMMA FilledType ==
  ASSUME NEW B \in Nat, NEW h \in Fills(B), NEW S \in SUBSET Generations
  PROVE  Filled(h, S) \in Nat
BY FilledCounts, UnitsFinite

LEMMA FilledOneMore ==
  ASSUME NEW B \in Nat, NEW h \in Fills(B), NEW S \in SUBSET Generations,
         NEW g \in Generations, g \notin S
  PROVE  Filled(h, S \cup {g}) = Filled(h, S) + h[g].filled
<1>1. S \cup {g} \in SUBSET Generations /\ {g} \in SUBSET Generations /\ S \cap {g} = {}
  OBVIOUS
<1>2. Cardinality(Units(h, S \cup {g}, B)) =
        Cardinality(Units(h, S, B)) + Cardinality(Units(h, {g}, B))
  BY <1>1, UnitsSplit
<1> QED BY <1>1, <1>2, FilledCounts, UnitsOfOne

\* More filled, or more generations, never make a smaller sum.
LEMMA FilledGrows ==
  ASSUME NEW B \in Nat, NEW h \in Fills(B), NEW k \in Fills(B), NEW T \in SUBSET Generations,
         NEW S \in SUBSET T, \A g \in S : h[g].filled <= k[g].filled
  PROVE  Filled(h, S) <= Filled(k, T)
<1>1. Units(h, S, B) \in SUBSET Units(k, T, B)
  <2>1. \A g \in Generations : h[g].filled \in Int /\ k[g].filled \in Int
    BY DEF Fills, BrokerOrder
  <2> QED BY <2>1 DEF Units
<1>2. S \in SUBSET Generations /\ T \in SUBSET Generations
  OBVIOUS
<1>3. /\ Filled(h, S) = Cardinality(Units(h, S, B))
      /\ Filled(k, T) = Cardinality(Units(k, T, B))
  BY <1>2, FilledCounts
<1>4. IsFiniteSet(Units(k, T, B))
  BY <1>2, UnitsFinite
<1>5. Cardinality(Units(h, S, B)) <= Cardinality(Units(k, T, B))
  BY <1>1, <1>4, FS_Subset, Zenon
<1> QED BY <1>3, <1>5

\* What generations before n have filled.
Prior(h, n) == Filled(h, {g \in Generations : g < n})

LEMMA PriorFacts ==
  ASSUME NEW B \in Nat, NEW h \in Fills(B), NEW n \in Nat
  PROVE  /\ Prior(h, n) \in Nat
         /\ n \in Generations => Prior(h, n + 1) = Prior(h, n) + h[n].filled
         /\ Prior(h, n) <= Filled(h, Generations)
         /\ \A m \in Nat : n <= m => Prior(h, n) <= Prior(h, m)
<1> DEFINE below(m) == {g \in Generations : g < m}
<1>1. \A m \in Nat : below(m) \in SUBSET Generations
  OBVIOUS
<1>2. Prior(h, n) \in Nat
  BY <1>1, FilledType DEF Prior
<1>3. ASSUME n \in Generations PROVE Prior(h, n + 1) = Prior(h, n) + h[n].filled
  <2>1. below(n + 1) = below(n) \cup {n} /\ n \notin below(n)
    BY <1>3 DEF Generations
  <2> QED BY <1>1, <1>3, <2>1, FilledOneMore DEF Prior
<1>4. \A g \in Generations : h[g].filled <= h[g].filled
  BY DEF Fills, BrokerOrder
<1>5. Prior(h, n) <= Filled(h, Generations)
  BY <1>1, <1>4, FilledGrows DEF Prior
<1>6. ASSUME NEW m \in Nat, n <= m PROVE Prior(h, n) <= Prior(h, m)
  <2>1. below(n) \in SUBSET below(m)
    BY <1>6 DEF Generations
  <2> QED BY <1>1, <1>4, <2>1, FilledGrows DEF Prior
<1> QED BY <1>2, <1>3, <1>5, <1>6

LEMMA PriorGrows ==
  ASSUME NEW B \in Nat, NEW h \in Fills(B), NEW k \in Fills(B), NEW n \in Nat,
         \A g \in Generations : h[g].filled <= k[g].filled
  PROVE  Prior(h, n) <= Prior(k, n) /\ Filled(h, Generations) <= Filled(k, Generations)
BY FilledGrows DEF Prior

-----------------------------------------------------------------------------
(***************************************************************************)
(* The books: what a residual owes to the fills at the broker.             *)
(***************************************************************************)
Watermark(r) == IF r.accounted = Absent THEN 0 ELSE r.accounted

FilledAt(h, n) == IF n \in Generations THEN h[n].filled ELSE 0

Smaller(m, n) == IF m <= n THEN m ELSE n

\* h is the record of the leg's orders, q its quantity at first, r a residual of
\* it.  What was credited is covered by what generations before the present one
\* filled, and by what that one has filled, up to its watermark.
Books(h, q, r) ==
  IF r.quantity = 0 THEN q <= Filled(h, Generations)
  ELSE q - r.quantity <=
         Prior(h, r.generation) + Smaller(Watermark(r), FilledAt(h, r.generation))

LEMMA LargerOfZero ==
  ASSUME NEW n \in Int
  PROVE  /\ Max({0, n}) \in Nat
         /\ Max({0, n}) >= n
<1> DEFINE P(x) == x \in {0, n} /\ \A y \in {0, n} : x >= y
<1>1. P(IF n > 0 THEN n ELSE 0)
  OBVIOUS
<1>2. P(Max({0, n}))
  <2>1. P(CHOOSE x : P(x))
    BY <1>1, Zenon
  <2>2. Max({0, n}) = CHOOSE x : P(x)
    BY Zenon DEF Max
  <2> QED BY <2>1, <2>2
<1> QED BY <1>2

\* What carryResidualForward makes of a residual r: some credit is taken off,
\* and the generation stays, moves to the one that was adopted, or retires.
LEMMA CarryForwardEffect ==
  ASSUME NEW r \in ResidualLeg, r.quantity > 0, NEW result \in Decision
  PROVE  \E credit \in 0 .. r.quantity :
           LET next == CarryForward(r, result) IN
           /\ next \in ResidualLeg
           /\ next.quantity = r.quantity - credit
           /\ credit > 0 =>
                credit <= result.order.filled -
                            (IF result.generation = r.generation THEN Watermark(r) ELSE 0)
           /\ next.quantity > 0 =>
                /\ next.rejections = (IF credit > 0 THEN 0 ELSE r.rejections) +
                                     (IF result.order.state = "REJECTED" THEN 1 ELSE 0)
                /\ \/ /\ result.disposition = "retire"
                      /\ next.generation = result.generation + 1
                   \/ /\ next.generation = result.generation
                      /\ credit > 0 => next.accounted = result.order.filled
                      /\ result.generation = r.generation => Watermark(r) <= Watermark(next)
                      /\ Trusted(r, result) => result.disposition # "retire"
<1> DEFINE next == CarryForward(r, result)
           credit == Credit(r, result)
           accounted == Accounted(r, result)
           retires == Trusted(r, result) /\ result.disposition = "retire"
           watermark == IF result.order = Unseen THEN r.accounted ELSE accounted + credit
<1>1. /\ r.quantity \in Nat /\ r.generation \in Nat \ {0} /\ r.rejections \in Nat
      /\ r.accounted \in Nat \cup {Absent} /\ result.order.filled \in Nat
      /\ result.order.quantity \in Nat /\ result.generation \in Nat \ {0}
  BY ResidualConstants DEF ResidualLeg, Decision, Seen, Generations
<1>2. Watermark(r) \in Nat /\ Absent \notin Nat
  BY <1>1 DEF Watermark, Absent
<1>3. /\ accounted \in Nat
      /\ accounted >= (IF result.generation = r.generation THEN Watermark(r) ELSE 0)
  BY <1>1, <1>2, LargerOfZero DEF Accounted, Watermark
<1> HIDE DEF accounted
<1>4. /\ credit \in 0 .. r.quantity
      /\ credit > 0 => credit = result.order.filled - accounted /\ result.order # Unseen
  BY <1>1, <1>3 DEF Credit, accounted
<1> HIDE DEF credit
<1>5. /\ watermark \in Nat \cup {Absent}
      /\ credit > 0 => watermark = result.order.filled
      /\ result.order # Unseen => watermark \in Nat /\ watermark >= accounted
  BY <1>1, <1>3, <1>4
<1>6. result.generation = r.generation =>
        Watermark(r) <= IF watermark = Absent THEN 0 ELSE watermark
  BY <1>1, <1>2, <1>3, <1>5 DEF Watermark
<1>7. next = IF credit = r.quantity THEN Gone
             ELSE [quantity |-> r.quantity - credit,
                   generation |-> IF retires THEN result.generation + 1 ELSE result.generation,
                   accounted |-> IF retires THEN 0 ELSE watermark,
                   rejections |-> (IF credit > 0 THEN 0 ELSE r.rejections) +
                                  (IF result.order.state = "REJECTED" THEN 1 ELSE 0)]
  BY DEF CarryForward, credit, accounted
<1> HIDE DEF next, watermark
<1>8. credit > 0 => credit <= result.order.filled -
                       (IF result.generation = r.generation THEN Watermark(r) ELSE 0)
  BY <1>1, <1>2, <1>3, <1>4
<1> DEFINE Onward ==
      /\ next.rejections = (IF credit > 0 THEN 0 ELSE r.rejections) +
                           (IF result.order.state = "REJECTED" THEN 1 ELSE 0)
      /\ \/ /\ result.disposition = "retire"
            /\ next.generation = result.generation + 1
         \/ /\ next.generation = result.generation
            /\ credit > 0 => next.accounted = result.order.filled
            /\ result.generation = r.generation => Watermark(r) <= Watermark(next)
            /\ Trusted(r, result) => result.disposition # "retire"
<1>9. /\ next \in ResidualLeg /\ next.quantity = r.quantity - credit
      /\ next.quantity > 0 => Onward
  <2>1. CASE credit = r.quantity
    <3>1. next = [quantity |-> 0, generation |-> 1, accounted |-> Absent, rejections |-> 0]
      BY <1>7, <2>1 DEF Gone
    <3>2. next \in ResidualLeg
      BY <3>1 DEF ResidualLeg
    <3>3. next.quantity = r.quantity - credit /\ ~(next.quantity > 0)
      BY <1>1, <2>1, <3>1
    <3> QED BY <3>2, <3>3
  <2>2. CASE credit # r.quantity
    <3>1. /\ next.quantity = r.quantity - credit
          /\ next.generation = IF retires THEN result.generation + 1 ELSE result.generation
          /\ next.accounted = IF retires THEN 0 ELSE watermark
          /\ next.rejections = (IF credit > 0 THEN 0 ELSE r.rejections) +
                               (IF result.order.state = "REJECTED" THEN 1 ELSE 0)
          /\ next = [quantity |-> next.quantity, generation |-> next.generation,
                     accounted |-> next.accounted, rejections |-> next.rejections]
      BY <1>7, <2>2
    <3>2. next \in ResidualLeg
      <4>1. /\ next.quantity \in Nat /\ next.generation \in Nat \ {0}
            /\ next.accounted \in Nat \cup {Absent} /\ next.rejections \in Nat
        BY <1>1, <1>4, <1>5, <3>1
      <4> QED BY <3>1, <4>1 DEF ResidualLeg
    <3>3. CASE retires
      BY <3>1, <3>2, <3>3
    <3>4. CASE ~retires
      <4>1. next.accounted = watermark /\ next.generation = result.generation
        BY <3>1, <3>4
      <4>2. Trusted(r, result) => result.disposition # "retire"
        BY <3>4
      <4>3. result.generation = r.generation => Watermark(r) <= Watermark(next)
        BY <1>6, <4>1 DEF Watermark
      <4>4. credit > 0 => next.accounted = result.order.filled
        BY <1>5, <4>1
      <4> QED BY <3>1, <3>2, <4>1, <4>2, <4>3, <4>4
    <3> QED BY <3>3, <3>4
  <2> QED BY <2>1, <2>2
<1> QED BY <1>4, <1>8, <1>9 DEF next

LEMMA ResidualTypes ==
  ASSUME NEW r \in ResidualLeg
  PROVE  /\ r.quantity \in Nat /\ r.generation \in Nat \ {0} /\ r.rejections \in Nat
         /\ Watermark(r) \in Nat
BY DEF ResidualLeg, Watermark, Absent

\* The books hold of what a pass carries forward, if the fills it has seen are
\* there at the broker.
LEMMA BooksForward ==
  ASSUME NEW B \in Nat, NEW h \in Fills(B), NEW r \in ResidualLeg, r.quantity > 0,
         NEW q \in Nat, Books(h, q, r), NEW result \in Decision,
         r.generation <= result.generation,
         result.order.filled <= h[result.generation].filled
  PROVE  Books(h, q, CarryForward(r, result))
<1> DEFINE next == CarryForward(r, result)
           g == result.generation
           mark == IF g = r.generation THEN Watermark(r) ELSE 0
<1>1. PICK credit \in 0 .. r.quantity :
        /\ next \in ResidualLeg
        /\ next.quantity = r.quantity - credit
        /\ credit > 0 => credit <= result.order.filled - mark
        /\ next.quantity > 0 =>
             \/ next.generation = g + 1
             \/ /\ next.generation = g
                /\ credit > 0 => next.accounted = result.order.filled
                /\ g = r.generation => Watermark(r) <= Watermark(next)
  BY CarryForwardEffect
<1>2. /\ r.quantity \in Nat /\ r.generation \in Nat \ {0} /\ Watermark(r) \in Nat
      /\ next.quantity \in Nat /\ next.generation \in Nat \ {0} /\ Watermark(next) \in Nat
  BY <1>1, ResidualTypes
<1>3. g \in Generations /\ g \in Nat /\ result.order.filled \in Nat
  BY ResidualConstants DEF Decision, Seen, Generations
<1>4. h[g].filled \in Nat
  BY <1>3 DEF Fills, BrokerOrder
<1>5. /\ Prior(h, g) \in Nat /\ Prior(h, g + 1) = Prior(h, g) + h[g].filled
      /\ Prior(h, g + 1) <= Filled(h, Generations)
  BY <1>3, PriorFacts
<1>6. q - r.quantity <= Prior(h, g) + (IF g = r.generation THEN Smaller(Watermark(r), h[g].filled) ELSE 0)
  <2>1. CASE g = r.generation
    BY <1>2, <1>3, <2>1 DEF Books, FilledAt
  <2>2. CASE g # r.generation
    <3>1. r.generation \in Generations /\ r.generation + 1 <= g /\ r.generation \in Nat
      BY <1>2, <1>3, <2>2, ResidualConstants DEF Generations
    <3>2. h[r.generation].filled \in Nat
      BY <3>1 DEF Fills, BrokerOrder
    <3>3. /\ Prior(h, r.generation) \in Nat
          /\ Prior(h, r.generation + 1) = Prior(h, r.generation) + h[r.generation].filled
      BY <3>1, PriorFacts
    <3>4. r.generation + 1 \in Nat
      BY <3>1
    <3>5. Prior(h, r.generation + 1) <= Prior(h, g)
      BY <1>3, <3>1, <3>4, PriorFacts
    <3>6. q - r.quantity <= Prior(h, r.generation) + Smaller(Watermark(r), h[r.generation].filled)
      BY <1>2, <3>1 DEF Books, FilledAt
    <3> QED BY <1>2, <1>5, <2>2, <3>2, <3>3, <3>5, <3>6 DEF Smaller
  <2> QED BY <2>1, <2>2
<1> HIDE DEF next, g
<1>7. CASE next.quantity = 0
  <2>1. credit = r.quantity /\ credit > 0
    BY <1>1, <1>2, <1>7
  <2>2. q <= Prior(h, g) + h[g].filled
    BY <1>1, <1>2, <1>3, <1>4, <1>5, <1>6, <2>1 DEF Smaller, g
  <2>3. q <= Filled(h, Generations)
    <3>1. Filled(h, Generations) \in Nat
      BY FilledType
    <3> QED BY <1>4, <1>5, <2>2, <3>1
  <2> QED BY <1>7, <2>3 DEF Books, next
<1>8. CASE next.quantity # 0
  <2>1. q - next.quantity <=
          Prior(h, g) + (IF credit > 0 THEN result.order.filled
                         ELSE IF g = r.generation THEN Smaller(Watermark(r), h[g].filled) ELSE 0)
    BY <1>1, <1>2, <1>3, <1>4, <1>5, <1>6 DEF Smaller, g
  <2>2. q - next.quantity <=
          Prior(h, next.generation) + Smaller(Watermark(next), FilledAt(h, next.generation))
    <3>1. CASE next.generation = g + 1
      <4>1. FilledAt(h, g + 1) \in Nat
        BY DEF FilledAt, Fills, BrokerOrder
      <4>2. q - next.quantity <= Prior(h, g) + h[g].filled
        BY <1>1, <1>2, <1>3, <1>4, <1>5, <2>1 DEF Smaller, g
      <4> QED BY <1>2, <1>4, <1>5, <3>1, <4>1, <4>2 DEF Smaller
    <3>2. CASE next.generation # g + 1
      <4>1. /\ next.generation = g
            /\ credit > 0 => next.accounted = result.order.filled
            /\ g = r.generation => Watermark(r) <= Watermark(next)
        BY <1>1, <1>2, <1>8, <3>2 DEF next, g
      <4>2. credit > 0 => Watermark(next) = result.order.filled
        BY <1>3, <4>1 DEF Watermark, Absent
      <4>3. FilledAt(h, next.generation) = h[g].filled
        BY <1>3, <4>1 DEF FilledAt
      <4>4. result.order.filled <= h[g].filled
        BY DEF g
      <4> QED BY <1>1, <1>2, <1>3, <1>4, <1>5, <2>1, <4>1, <4>2, <4>3, <4>4 DEF Smaller
    <3> QED BY <3>1, <3>2
  <2> QED BY <1>8, <2>2 DEF Books, next
<1> QED BY <1>7, <1>8

\* Further fills do not disturb the books.
LEMMA BooksStay ==
  ASSUME NEW B \in Nat, NEW h \in Fills(B), NEW k \in Fills(B), NEW r \in ResidualLeg,
         NEW q \in Nat, Books(h, q, r), \A g \in Generations : h[g].filled <= k[g].filled
  PROVE  Books(k, q, r)
<1>1. r.quantity \in Nat /\ r.generation \in Nat /\ Watermark(r) \in Nat
  BY ResidualTypes
<1>2. /\ Prior(h, r.generation) <= Prior(k, r.generation)
      /\ Filled(h, Generations) <= Filled(k, Generations)
  BY <1>1, PriorGrows
<1>3. /\ Prior(h, r.generation) \in Nat /\ Prior(k, r.generation) \in Nat
      /\ Filled(h, Generations) \in Nat /\ Filled(k, Generations) \in Nat
  BY <1>1, PriorFacts, FilledType
<1>4. /\ FilledAt(h, r.generation) \in Nat /\ FilledAt(k, r.generation) \in Nat
      /\ FilledAt(h, r.generation) <= FilledAt(k, r.generation)
  BY DEF FilledAt, Fills, BrokerOrder
<1> QED BY <1>1, <1>2, <1>3, <1>4 DEF Books, Smaller

\* Books that hold leave no exposure out.
LEMMA BooksCover ==
  ASSUME NEW B \in Nat, NEW h \in Fills(B), NEW r \in ResidualLeg, NEW q \in Nat, Books(h, q, r)
  PROVE  r.quantity >= q - Filled(h, Generations)
<1>1. r.quantity \in Nat /\ r.generation \in Nat /\ Watermark(r) \in Nat
  BY ResidualTypes
<1>2. Prior(h, r.generation) \in Nat /\ Filled(h, Generations) \in Nat
  BY <1>1, PriorFacts, FilledType
<1>3. Prior(h, r.generation) + FilledAt(h, r.generation) <= Filled(h, Generations)
  <2>1. CASE r.generation \in Generations
    <3>1. r.generation + 1 \in Nat
      BY <1>1
    <3> QED BY <1>1, <2>1, <3>1, PriorFacts DEF FilledAt
  <2>2. CASE r.generation \notin Generations
    BY <1>1, <1>2, <2>2, PriorFacts DEF FilledAt
  <2> QED BY <2>1, <2>2
<1>4. FilledAt(h, r.generation) \in Nat
  BY DEF FilledAt, Fills, BrokerOrder
<1> QED BY <1>1, <1>2, <1>3, <1>4 DEF Books, Smaller

-----------------------------------------------------------------------------
(***************************************************************************)
(* The invariant of passes, journal and broker.                            *)
(***************************************************************************)
Made(l, g) == intent[l][g].state # "none"

Local(l, g) == intent[l][g].state = "LOCAL"

\* A row, the order it stands for, and the quantity the leg had at first.
RowInv(row, o, q) ==
  /\ row.state = "none" => row = NoIntent
  /\ row.state # "none" => row.quantity \in 1 .. q /\ row.price \in Prices
  /\ o.state = "none" => o.filled = 0
  /\ o.state # "none" => row.state \in {"SUBMITTING"} \cup Terminal
  /\ o.state = "live" => o.filled < row.quantity
  /\ o.filled <= q
  /\ o.state = "REJECTED" => o.filled = 0
  /\ row.filled <= o.filled
  /\ row.state \in Terminal => o.state = row.state

JournalInv == \A l \in Legs, g \in Generations : RowInv(intent[l][g], order[l][g], Quantity[l])

\* The right to a POST: the row waits in SUBMITTING, nothing was sent, and no
\* other process has it.
PostInv ==
  /\ \A p \in Procs : At(p, "post") =>
       /\ intent[Leg(p)][Gen(p)].state = "SUBMITTING"
       /\ order[Leg(p)][Gen(p)].state = "none"
  /\ \A p, q \in Procs : p # q /\ At(p, "post") /\ At(q, "post") =>
       Leg(p) # Leg(q) \/ Gen(p) # Gen(q)

\* Generation g of leg l is reached from residual r over local refusals.
Reaches(r, l, g) == g >= r.generation /\ \A h \in r.generation .. g - 1 : Local(l, h)

\* What a decision says is so, and stays so.
Sound(r, l, result) ==
  /\ r.quantity > 0
  /\ Reaches(r, l, result.generation)
  /\ result.order.filled <= order[l][result.generation].filled
  /\ result.order.state \in Terminal =>
       order[l][result.generation].state = result.order.state
  /\ result.disposition = "flattened" => order[l][result.generation].filled >= r.quantity
  /\ result.disposition = "retire" => Made(l, result.generation)

\* Every short is decided and none is left open.
ShortsSettled(p) ==
  \A s \in Outstanding(p, Shorts) : Decided(p, s) /\ pass[p].results[s].disposition = "flattened"

InLegInv(p) ==
  pass[p] \in InLeg =>
    /\ Residual(p, Leg(p)).quantity > 0
    /\ Reaches(Residual(p, Leg(p)), Leg(p), Gen(p))
    /\ ~At(p, "create") => Made(Leg(p), Gen(p))
    /\ ~Decided(p, Leg(p))
    /\ Leg(p) \in Longs => ShortsSettled(p)

\* What the watchdog asks of an open leg before a pass.
Allowed(r) == ~Exhausted(r) /\ r.generation \in Generations

PassOf(p) ==
  pass[p] # NoPass =>
    /\ pending[p] = NoCommand
    /\ \A l \in Legs : Decided(p, l) => Sound(Residual(p, l), l, pass[p].results[l])
    /\ \A l \in Outstanding(p, Legs) : Allowed(Residual(p, l))
    /\ InLegInv(p)

PassInv == \A p \in Procs : PassOf(p)

BooksOf(l, r) == r.quantity <= Quantity[l] /\ Books(order[l], Quantity[l], r)

BooksInv ==
  \A l \in Legs :
    /\ BooksOf(l, attempt.residual[l])
    /\ \A p \in Procs : /\ BooksOf(l, memory[p].residual[l])
                        /\ pending[p] # NoCommand => BooksOf(l, pending[p].to[l])

IInv == SystemTypeOK /\ JournalInv /\ PostInv /\ PassInv /\ BooksInv

-----------------------------------------------------------------------------
(***************************************************************************)
(* Types.                                                                  *)
(***************************************************************************)
LEMMA QuantityType == \A l \in Legs : Quantity[l] \in Nat /\ Quantity[l] > 0
BY ResidualConstants

LEMMA MaxGenerationType == MaxGeneration \in Nat /\ Generations \in SUBSET (Nat \ {0})
BY ResidualConstants DEF Generations

\* A pass that is somewhere.
LEMMA PassForms ==
  ASSUME SystemTypeOK, NEW p \in Procs
  PROVE  /\ pass[p] # NoPass => pass[p] \in AtLeg \cup InLeg /\ pass[p].results \in Verdicts
         /\ At(p, "leg") => pass[p] \in AtLeg /\ pass[p] # NoPass
         /\ \A step \in {"create", "claim", "post", "await"} : At(p, step) =>
              /\ pass[p] \in InLeg /\ pass[p] # NoPass
              /\ Leg(p) \in Legs /\ Gen(p) \in Generations /\ pass[p].price \in Prices
         /\ pass[p] \in InLeg => ~At(p, "leg")
BY DEF SystemTypeOK, At, NoPass, AtLeg, InLeg, Leg, Gen

LEMMA DecideForm ==
  ASSUME SystemTypeOK, NEW p \in Procs, pass[p] # NoPass, NEW l \in Legs, NEW result \in Decision,
         Decide(p, l, result)
  PROVE  /\ pass' \in [Procs -> {NoPass} \cup AtLeg \cup InLeg]
         /\ pass'[p] = [at |-> "leg", results |-> [pass[p].results EXCEPT ![l] = result]]
         /\ pass'[p] \in AtLeg
         /\ \A q \in Procs \ {p} : pass'[q] = pass[q]
<1>1. pass[p].results \in Verdicts
  BY PassForms
<1>2. [pass[p].results EXCEPT ![l] = result] \in Verdicts
  BY <1>1 DEF Verdicts
<1>3. [at |-> "leg", results |-> [pass[p].results EXCEPT ![l] = result]] \in AtLeg
  BY <1>2 DEF AtLeg
<1>4. pass \in [Procs -> {NoPass} \cup AtLeg \cup InLeg]
  BY DEF SystemTypeOK
<1>5. pass' = [pass EXCEPT ![p] = [at |-> "leg",
                                   results |-> [pass[p].results EXCEPT ![l] = result]]]
  BY DEF Decide
<1> QED BY <1>3, <1>4, <1>5

LEMMA MoveForm ==
  ASSUME SystemTypeOK, NEW p \in Procs, pass[p] \in InLeg,
         NEW step \in {"claim", "post", "await"}, MoveTo(p, step)
  PROVE  /\ pass' \in [Procs -> {NoPass} \cup AtLeg \cup InLeg]
         /\ pass'[p] = [pass[p] EXCEPT !.at = step]
         /\ pass'[p] \in InLeg /\ pass'[p].at = step /\ pass'[p].leg = pass[p].leg
         /\ pass'[p].generation = pass[p].generation /\ pass'[p].results = pass[p].results
         /\ \A q \in Procs \ {p} : pass'[q] = pass[q]
<1>1. pass \in [Procs -> {NoPass} \cup AtLeg \cup InLeg]
  BY DEF SystemTypeOK
<1>2. pass' = [pass EXCEPT ![p] = [pass[p] EXCEPT !.at = step]]
  BY DEF MoveTo
<1> DEFINE v == [pass[p] EXCEPT !.at = step]
<1>3. /\ v \in InLeg /\ v.at = step /\ v.leg = pass[p].leg
      /\ v.generation = pass[p].generation /\ v.results = pass[p].results
  BY DEF InLeg
<1> HIDE DEF v
<1>4. pass' = [pass EXCEPT ![p] = v]
  BY <1>2 DEF v
<1> QED BY <1>1, <1>3, <1>4 DEF v

-----------------------------------------------------------------------------
(***************************************************************************)
(* What a step may do to the journal and to the broker's orders.           *)
(***************************************************************************)
\* This row is inserted by process p.
InsertedBy(p, l, g, quantity) ==
  At(p, "create") /\ Leg(p) = l /\ Gen(p) = g /\ quantity = Requested(p)

\* Fills grow, an order that has ended stays as it is, a row keeps its request;
\* rows come from passes.
Moves ==
  \A l \in Legs, g \in Generations :
    /\ order[l][g].filled <= order'[l][g].filled
    /\ order[l][g].state \in Terminal => order'[l][g] = order[l][g]
    /\ order[l][g].state # "none" => order'[l][g].state # "none"
    /\ order[l][g].state = "none" => order'[l][g].state \in {"none", "live"}
    /\ ~Made(l, g) /\ intent'[l][g].state # "none" =>
         \E p \in Procs : InsertedBy(p, l, g, intent'[l][g].quantity)
    /\ Made(l, g) => /\ intent'[l][g].state # "none"
                     /\ intent'[l][g].quantity = intent[l][g].quantity
                     /\ intent'[l][g].price = intent[l][g].price
    /\ Local(l, g) => intent'[l][g].state = "LOCAL"

JournalType ==
  /\ order \in [Legs -> [Generations -> BrokerOrder]]
  /\ intent \in [Legs -> [Generations -> IntentRow]]

\* The part of the invariant that the journal and the broker make up.
JournalKept == JournalType' /\ JournalInv' /\ Moves

LEMMA OrdersAreFills ==
  ASSUME SystemTypeOK, JournalInv, NEW l \in Legs
  PROVE  order[l] \in Fills(Quantity[l]) /\ Quantity[l] \in Nat
BY QuantityType DEF SystemTypeOK, JournalInv, RowInv, Fills

LEMMA JournalStays ==
  ASSUME SystemTypeOK, JournalInv, UNCHANGED <<order, intent>>
  PROVE  JournalKept
<1>1. \A l \in Legs, g \in Generations : order[l][g].filled \in Nat
  BY DEF SystemTypeOK, BrokerOrder
<1> QED BY <1>1 DEF SystemTypeOK, JournalKept, JournalType, JournalInv, Moves, Made, Local

LEMMA RowMoves ==
  ASSUME SystemTypeOK, JournalInv, NEW l \in Legs, NEW g \in Generations, NEW row \in IntentRow,
         intent' = [intent EXCEPT ![l][g] = row], order' = order,
         RowInv(row, order[l][g], Quantity[l]),
         Made(l, g) => /\ row.state # "none" /\ row.quantity = intent[l][g].quantity
                       /\ row.price = intent[l][g].price,
         ~Made(l, g) => \E p \in Procs : InsertedBy(p, l, g, row.quantity),
         Local(l, g) => row.state = "LOCAL"
  PROVE  /\ JournalKept
         /\ intent'[l][g] = row
         /\ \A k \in Legs, n \in Generations : k # l \/ n # g => intent'[k][n] = intent[k][n]
<1>1. /\ intent \in [Legs -> [Generations -> IntentRow]]
      /\ \A k \in Legs, n \in Generations : order[k][n].filled \in Nat
  BY DEF SystemTypeOK, BrokerOrder
<1>2. /\ intent'[l][g] = row
      /\ \A k \in Legs, n \in Generations : k # l \/ n # g => intent'[k][n] = intent[k][n]
      /\ intent' \in [Legs -> [Generations -> IntentRow]]
  BY <1>1
<1>3. JournalType'
  BY <1>2 DEF SystemTypeOK, JournalType
<1>4. JournalInv'
  BY <1>2 DEF JournalInv
<1>5. Moves
  BY <1>1, <1>2 DEF Moves, Made, Local
<1> QED BY <1>2, <1>3, <1>4, <1>5 DEF JournalKept

LEMMA OrderMoves ==
  ASSUME SystemTypeOK, JournalInv, NEW l \in Legs, NEW g \in Generations, NEW o \in BrokerOrder,
         order' = [order EXCEPT ![l][g] = o], intent' = intent,
         RowInv(intent[l][g], o, Quantity[l]),
         order[l][g].filled <= o.filled, order[l][g].state \notin Terminal,
         IF order[l][g].state = "none" THEN o.state = "live" ELSE o.state # "none"
  PROVE  /\ JournalKept
         /\ order'[l][g] = o
         /\ \A k \in Legs, n \in Generations : k # l \/ n # g => order'[k][n] = order[k][n]
<1>1. /\ order \in [Legs -> [Generations -> BrokerOrder]]
      /\ \A k \in Legs, n \in Generations : order[k][n].filled \in Nat
  BY DEF SystemTypeOK, BrokerOrder
<1>2. /\ order'[l][g] = o
      /\ \A k \in Legs, n \in Generations : k # l \/ n # g => order'[k][n] = order[k][n]
      /\ order' \in [Legs -> [Generations -> BrokerOrder]]
  BY <1>1
<1>3. JournalType'
  BY <1>2 DEF SystemTypeOK, JournalType
<1>4. JournalInv'
  BY <1>2 DEF JournalInv
<1>5. Moves
  BY <1>1, <1>2 DEF Moves, Made, Local
<1> QED BY <1>2, <1>3, <1>4, <1>5 DEF JournalKept

\* Evidence recorded in its row keeps the row's promises.
LEMMA RecordedForm ==
  ASSUME SystemTypeOK, JournalInv, NEW l \in Legs, NEW g \in Generations, order[l][g].state # "none"
  PROVE  LET row == Recorded(intent[l][g], order[l][g]) IN
         /\ row \in IntentRow
         /\ RowInv(row, order[l][g], Quantity[l])
         /\ row.state # "none" /\ row.state # "LOCAL"
         /\ row.quantity = intent[l][g].quantity /\ row.price = intent[l][g].price
         /\ Made(l, g) /\ ~Local(l, g)
<1> DEFINE old == intent[l][g]
           o == order[l][g]
           row == Recorded(old, o)
<1>1. old \in IntentRow /\ o \in BrokerOrder /\ RowInv(old, o, Quantity[l])
  BY DEF SystemTypeOK, JournalInv
<1>2. /\ row.state = (IF o.state \in Terminal THEN o.state ELSE old.state)
      /\ row.filled = o.filled /\ row.quantity = old.quantity /\ row.price = old.price
      /\ row \in IntentRow
  BY <1>1 DEF Recorded, IntentRow, BrokerOrder, Terminal
<1>3. old.state \in {"SUBMITTING"} \cup Terminal /\ o.state # "none"
  BY <1>1 DEF RowInv
<1> HIDE DEF row
<1>4. RowInv(row, o, Quantity[l])
  BY <1>1, <1>2, <1>3 DEF RowInv, Terminal, BrokerOrder
<1> QED BY <1>2, <1>3, <1>4 DEF row, Made, Local, Terminal

-----------------------------------------------------------------------------
(***************************************************************************)
(* What a step may do to a pass.                                           *)
(***************************************************************************)
LEMMA SoundStays ==
  ASSUME SystemTypeOK, JournalKept, NEW l \in Legs, NEW r \in ResidualLeg, NEW result \in Decision,
         Sound(r, l, result)
  PROVE  Sound(r, l, result)'
<1> DEFINE g == result.generation
<1>1. /\ g \in Generations /\ r.generation \in Nat \ {0} /\ r.quantity \in Nat
      /\ result.order.filled \in Nat
  BY MaxGenerationType DEF Decision, ResidualLeg, Seen
<1>2. /\ order[l][g].filled \in Nat /\ order'[l][g].filled \in Nat
      /\ order[l][g].filled <= order'[l][g].filled
      /\ result.order.filled <= order[l][g].filled
      /\ r.quantity > 0
      /\ order[l][g].state \in Terminal => order'[l][g] = order[l][g]
  <2>1. order[l][g].filled \in Nat /\ order'[l][g].filled \in Nat
    BY <1>1 DEF SystemTypeOK, JournalKept, JournalType, BrokerOrder
  <2> QED BY <1>1, <2>1 DEF JournalKept, Moves, Sound
<1>3. Reaches(r, l, g)'
  <2>1. Reaches(r, l, g)
    BY DEF Sound
  <2>2. \A h \in r.generation .. g - 1 : h \in Generations
    BY <1>1, MaxGenerationType DEF Generations
  <2> QED BY <1>1, <2>1, <2>2 DEF Reaches, Local, JournalKept, Moves
<1> QED BY <1>1, <1>2, <1>3 DEF Sound, JournalKept, Moves, Made

LEMMA ReachesStays ==
  ASSUME SystemTypeOK, JournalKept, NEW l \in Legs, NEW r \in ResidualLeg, NEW g \in Generations,
         Reaches(r, l, g)
  PROVE  Reaches(r, l, g)'
<1>1. r.generation \in Nat \ {0}
  BY DEF ResidualLeg
<1>2. \A h \in r.generation .. g - 1 : h \in Generations
  BY <1>1, MaxGenerationType DEF Generations
<1> QED BY <1>2 DEF Reaches, Local, JournalKept, Moves

LEMMA DecidedForm ==
  ASSUME SystemTypeOK, NEW p \in Procs, pass[p] # NoPass, NEW l \in Legs
  PROVE  /\ Decided(p, l) \in BOOLEAN
         /\ Decided(p, l) => pass[p].results[l] \in Decision
         /\ ~Decided(p, l) => pass[p].results[l] = Undecided
<1>1. pass[p].results[l] \in {Undecided} \cup Decision
  BY PassForms DEF Verdicts
<1>2. \A v \in Decision : v.decided = TRUE
  BY DEF Decision
<1>3. Undecided.decided = FALSE
  BY DEF Undecided
<1> QED BY <1>1, <1>2, <1>3, Zenon DEF Decided

LEMMA MemoryForm ==
  ASSUME SystemTypeOK, NEW p \in Procs, NEW l \in Legs
  PROVE  Residual(p, l) \in ResidualLeg /\ attempt.residual[l] \in ResidualLeg
BY DEF SystemTypeOK, Residuals, Residual

LEMMA PassStays ==
  ASSUME SystemTypeOK, JournalKept, NEW q \in Procs, PassOf(q),
         pass'[q] = pass[q], memory'[q] = memory[q], pending'[q] = pending[q]
  PROVE  PassOf(q)'
<1> SUFFICES ASSUME pass[q] # NoPass PROVE PassOf(q)'
  BY DEF PassOf
<1>1. /\ pending'[q] = NoCommand
      /\ \A l \in Outstanding(q, Legs)' : Allowed(Residual(q, l))'
  BY DEF PassOf, Outstanding, Residual, Allowed, Exhausted
<1>2. ASSUME NEW l \in Legs, Decided(q, l)'
      PROVE  Sound(Residual(q, l), l, pass[q].results[l])'
  <2>1. Decided(q, l) /\ pass[q].results[l] \in Decision
    BY <1>2, DecidedForm DEF Decided
  <2>2. Sound(Residual(q, l), l, pass[q].results[l])
    BY <2>1 DEF PassOf
  <2> DEFINE r == Residual(q, l)
             result == pass[q].results[l]
  <2>3. r' = r /\ result' = result /\ r \in ResidualLeg
    BY MemoryForm DEF Residual
  <2>4. \A x \in ResidualLeg, y \in Decision : Sound(x, l, y) => Sound(x, l, y)'
    BY SoundStays
  <2> HIDE DEF r, result
  <2> QED BY <2>1, <2>2, <2>3, <2>4 DEF r, result, Sound, Reaches
<1>3. InLegInv(q)'
  <2> SUFFICES ASSUME pass[q] \in InLeg PROVE InLegInv(q)'
    BY DEF InLegInv, InLeg, Verdicts, Decision, Seen
  <2>1. Leg(q) \in Legs /\ Gen(q) \in Generations
    BY DEF InLeg, Leg, Gen
  <2>2. Reaches(Residual(q, Leg(q)), Leg(q), Gen(q))
    BY DEF PassOf, InLegInv
  <2>3. \A x \in ResidualLeg, k \in Legs, n \in Generations :
          Reaches(x, k, n) => Reaches(x, k, n)'
    BY ReachesStays
  <2>4. Reaches(Residual(q, Leg(q)), Leg(q), Gen(q))'
    BY <2>1, <2>2, <2>3, MemoryForm DEF Reaches, Residual, Leg, Gen
  <2>5. ~At(q, "create") => Made(Leg(q), Gen(q))
    BY DEF PassOf, InLegInv
  <2>6. ~At(q, "create")' => Made(Leg(q), Gen(q))'
    BY <2>1, <2>5 DEF At, Made, Leg, Gen, JournalKept, Moves
  <2>7. /\ Residual(q, Leg(q)).quantity > 0
        /\ ~Decided(q, Leg(q))
        /\ Leg(q) \in Longs => ShortsSettled(q)
    BY DEF PassOf, InLegInv
  <2>8. /\ Residual(q, Leg(q))'.quantity > 0
        /\ ~Decided(q, Leg(q))'
        /\ Leg(q)' \in Longs => ShortsSettled(q)'
    BY <2>7 DEF Residual, Leg, Decided, ShortsSettled, Outstanding
  <2> QED BY <2>4, <2>6, <2>8 DEF InLegInv
<1> QED BY <1>1, <1>2, <1>3 DEF PassOf

\* A pass that decides a leg.
LEMMA PassDecides ==
  ASSUME SystemTypeOK, JournalKept, NEW p \in Procs, PassOf(p), pass[p] # NoPass,
         NEW l \in Legs, NEW result \in Decision, Decide(p, l, result),
         memory'[p] = memory[p], pending'[p] = pending[p],
         Sound(Residual(p, l), l, result)'
  PROVE  PassOf(p)'
<1>1. /\ pass'[p].results = [pass[p].results EXCEPT ![l] = result]
      /\ pass'[p] \in AtLeg
  <2>1. /\ pass'[p] = [at |-> "leg", results |-> [pass[p].results EXCEPT ![l] = result]]
        /\ pass'[p] \in AtLeg
    BY DecideForm, Zenon
  <2> QED BY <2>1
<1>2. pass[p].results \in Verdicts
  BY PassForms
<1>3. pass'[p].results[l] = result /\ \A k \in Legs \ {l} : pass'[p].results[k] = pass[p].results[k]
  BY <1>1, <1>2 DEF Verdicts
<1>4. /\ pending'[p] = NoCommand
      /\ \A k \in Outstanding(p, Legs)' : Allowed(Residual(p, k))'
  BY DEF PassOf, Outstanding, Residual, Allowed, Exhausted
<1>5. ASSUME NEW k \in Legs, Decided(p, k)'
      PROVE  Sound(Residual(p, k), k, pass[p].results[k])'
  <2>1. CASE k = l
    BY <1>3, <2>1 DEF Sound, Reaches, Residual
  <2>2. CASE k # l
    <3>1. Decided(p, k) /\ pass[p].results[k] \in Decision
      BY <1>3, <1>5, <2>2, DecidedForm DEF Decided
    <3>2. Sound(Residual(p, k), k, pass[p].results[k])
      BY <3>1 DEF PassOf
    <3>3. \A x \in ResidualLeg, y \in Decision : Sound(x, k, y) => Sound(x, k, y)'
      BY SoundStays
    <3> QED BY <1>3, <2>2, <3>1, <3>2, <3>3, MemoryForm DEF Residual, Sound, Reaches
  <2> QED BY <2>1, <2>2
<1>6. InLegInv(p)'
  BY <1>1 DEF InLegInv, AtLeg, InLeg
<1> QED BY <1>4, <1>5, <1>6 DEF PassOf

\* A pass that goes on with its leg.
LEMMA PassAdvances ==
  ASSUME SystemTypeOK, JournalKept, NEW p \in Procs, PassOf(p), pass[p] \in InLeg,
         NEW step \in {"claim", "post", "await"}, MoveTo(p, step),
         memory'[p] = memory[p], pending'[p] = pending[p],
         intent'[Leg(p)][Gen(p)].state # "none"
  PROVE  PassOf(p)'
<1>1. /\ pass'[p] \in InLeg /\ pass'[p].leg = pass[p].leg
      /\ pass'[p].generation = pass[p].generation /\ pass'[p].results = pass[p].results
  BY MoveForm
<1>2. pass[p] # NoPass
  BY DEF InLeg, NoPass
<1>3. /\ pending'[p] = NoCommand
      /\ \A k \in Outstanding(p, Legs)' : Allowed(Residual(p, k))'
  BY <1>2 DEF PassOf, Outstanding, Residual, Allowed, Exhausted
<1>4. ASSUME NEW k \in Legs, Decided(p, k)'
      PROVE  Sound(Residual(p, k), k, pass[p].results[k])'
  <2>1. Decided(p, k) /\ pass[p].results[k] \in Decision
    BY <1>1, <1>2, <1>4, DecidedForm DEF Decided
  <2>2. Sound(Residual(p, k), k, pass[p].results[k])
    BY <1>2, <2>1 DEF PassOf
  <2>3. \A x \in ResidualLeg, y \in Decision : Sound(x, k, y) => Sound(x, k, y)'
    BY SoundStays
  <2> QED BY <1>1, <2>1, <2>2, <2>3, MemoryForm DEF Residual, Sound, Reaches
<1>5. InLegInv(p)'
  <2>1. Leg(p) \in Legs /\ Gen(p) \in Generations /\ Leg(p)' = Leg(p) /\ Gen(p)' = Gen(p)
    BY <1>1 DEF InLeg, Leg, Gen
  <2>2. InLegInv(p)
    BY <1>2 DEF PassOf
  <2>3. Reaches(Residual(p, Leg(p)), Leg(p), Gen(p))
    BY <2>2 DEF InLegInv
  <2>4. \A x \in ResidualLeg : Reaches(x, Leg(p), Gen(p)) => Reaches(x, Leg(p), Gen(p))'
    <3>1. \A x \in ResidualLeg, k \in Legs, n \in Generations :
            Reaches(x, k, n) => Reaches(x, k, n)'
      BY ReachesStays
    <3> QED BY <2>1, <3>1 DEF Reaches
  <2>5. Reaches(Residual(p, Leg(p)), Leg(p), Gen(p))'
    BY <2>1, <2>3, <2>4, MemoryForm DEF Reaches, Residual
  <2>6. /\ Residual(p, Leg(p)).quantity > 0
        /\ ~Decided(p, Leg(p))
        /\ Leg(p) \in Longs => ShortsSettled(p)
    BY <2>2 DEF InLegInv
  <2>7. /\ Residual(p, Leg(p))'.quantity > 0
        /\ ~Decided(p, Leg(p))'
        /\ Leg(p)' \in Longs => ShortsSettled(p)'
    BY <1>1, <2>1, <2>6 DEF Residual, Decided, ShortsSettled, Outstanding
  <2> QED BY <2>1, <2>5, <2>7 DEF InLegInv, Made
<1> QED BY <1>3, <1>4, <1>5 DEF PassOf

\* The books of every copy of the residual, when none of them changes.
LEMMA BooksKept ==
  ASSUME SystemTypeOK, JournalInv, JournalKept, NEW l \in Legs, NEW r \in ResidualLeg, BooksOf(l, r)
  PROVE  r.quantity <= Quantity[l] /\ Books(order'[l], Quantity[l], r)
<1>1. order[l] \in Fills(Quantity[l]) /\ Quantity[l] \in Nat
  BY OrdersAreFills
<1>2. order'[l] \in Fills(Quantity[l])
  BY DEF JournalKept, JournalType, JournalInv, RowInv, Fills
<1>3. \A g \in Generations : order[l][g].filled <= order'[l][g].filled
  BY DEF JournalKept, Moves
<1> QED BY <1>1, <1>2, <1>3, BooksStay DEF BooksOf

LEMMA BooksFrame ==
  ASSUME SystemTypeOK, JournalInv, JournalKept, BooksInv, UNCHANGED <<attempt, memory, pending>>
  PROVE  BooksInv'
<1>1. ASSUME NEW l \in Legs
      PROVE  /\ attempt.residual[l].quantity <= Quantity[l]
             /\ Books(order'[l], Quantity[l], attempt.residual[l])
  <2>1. attempt.residual[l] \in ResidualLeg /\ BooksOf(l, attempt.residual[l])
    BY DEF SystemTypeOK, Residuals, BooksInv
  <2> QED BY <2>1, BooksKept
<1>2. ASSUME NEW l \in Legs, NEW p \in Procs
      PROVE  /\ memory[p].residual[l].quantity <= Quantity[l]
             /\ Books(order'[l], Quantity[l], memory[p].residual[l])
  <2>1. memory[p].residual[l] \in ResidualLeg /\ BooksOf(l, memory[p].residual[l])
    BY DEF SystemTypeOK, Residuals, BooksInv
  <2> QED BY <2>1, BooksKept
<1>3. ASSUME NEW l \in Legs, NEW p \in Procs, pending[p] # NoCommand
      PROVE  /\ pending[p].to[l].quantity <= Quantity[l]
             /\ Books(order'[l], Quantity[l], pending[p].to[l])
  <2>1. pending[p].to[l] \in ResidualLeg /\ BooksOf(l, pending[p].to[l])
    BY <1>3 DEF SystemTypeOK, ProjectionCommand, BooksInv
  <2> QED BY <2>1, BooksKept
<1> QED BY <1>1, <1>2, <1>3 DEF BooksInv, BooksOf

-----------------------------------------------------------------------------
(***************************************************************************)
(* The steps of a pass keep the invariant.                                 *)
(***************************************************************************)
\* If q holds the right to a POST, this step leaves its row and its order alone.
PostKept(q) ==
  At(q, "post") => /\ intent'[Leg(q)][Gen(q)] = intent[Leg(q)][Gen(q)]
                   /\ order'[Leg(q)][Gen(q)] = order[Leg(q)][Gen(q)]

PostsKept(p) == \A q \in Procs \ {p} : PostKept(q)

LEMMA PostStays ==
  ASSUME SystemTypeOK, PostInv, NEW p \in Procs, PostsKept(p),
         \A q \in Procs \ {p} : pass'[q] = pass[q], pass'[p].at # "post"
  PROVE  PostInv'
<1>1. \A q \in Procs : At(q, "post")' =>
        q # p /\ At(q, "post") /\ Leg(q)' = Leg(q) /\ Gen(q)' = Gen(q)
  BY DEF At, Leg, Gen
<1>2. ASSUME NEW q \in Procs, At(q, "post")'
      PROVE  /\ (intent[Leg(q)][Gen(q)].state = "SUBMITTING")'
             /\ (order[Leg(q)][Gen(q)].state = "none")'
  BY <1>1, <1>2 DEF PostInv, PostKept, PostsKept
<1>3. ASSUME NEW q \in Procs, NEW k \in Procs, q # k, At(q, "post")', At(k, "post")'
      PROVE  (Leg(q) # Leg(k) \/ Gen(q) # Gen(k))'
  BY <1>1, <1>3 DEF PostInv
<1> QED BY <1>2, <1>3 DEF PostInv

\* What a step keeps.
Kept == IInv' /\ Moves

\* The rest of the state while a pass is at work.
Aside == UNCHANGED <<attempt, memory, pending, owner, passes, disruptions>>

LEMMA WorkingFrame ==
  ASSUME IInv, JournalKept, Aside, NEW p \in Procs, PassOf(p)',
         pass' \in [Procs -> {NoPass} \cup AtLeg \cup InLeg],
         \A q \in Procs \ {p} : pass'[q] = pass[q],
         PostInv'
  PROVE  Kept
<1>1. SystemTypeOK'
  BY DEF IInv, SystemTypeOK, JournalKept, JournalType, Aside
<1>2. JournalInv'
  BY DEF JournalKept
<1>3. PassInv'
  <2>1. ASSUME NEW q \in Procs PROVE PassOf(q)'
    <3>1. CASE q = p
      BY <3>1 DEF PassOf, Allowed, Exhausted, Decided, Sound, Reaches, Residual, Outstanding, InLegInv, At, Leg, Gen,
                  ShortsSettled, Made, Local
    <3>2. CASE q # p
      <4>1. pass'[q] = pass[q] /\ memory'[q] = memory[q] /\ pending'[q] = pending[q]
        BY <3>2 DEF Aside
      <4> QED BY <4>1, PassStays DEF IInv, PassInv
    <3> QED BY <3>1, <3>2
  <2> QED BY <2>1 DEF PassInv
<1>4. BooksInv'
  BY BooksFrame DEF IInv, Aside
<1> QED BY <1>1, <1>2, <1>3, <1>4 DEF IInv, JournalKept, Kept

LEMMA DecidingStep ==
  ASSUME IInv, JournalKept, Aside, NEW p \in Procs, pass[p] # NoPass, PostsKept(p),
         NEW l \in Legs, NEW result \in Decision, Decide(p, l, result),
         Sound(Residual(p, l), l, result)
  PROVE  Kept
<1>1. SystemTypeOK /\ PassOf(p) /\ PostInv
  BY DEF IInv, PassInv
<1>2. /\ pass' \in [Procs -> {NoPass} \cup AtLeg \cup InLeg]
      /\ \A q \in Procs \ {p} : pass'[q] = pass[q]
      /\ pass'[p] \in AtLeg
  BY <1>1, DecideForm
<1>3. pass'[p].at # "post"
  BY <1>2 DEF AtLeg
<1>4. PostInv'
  BY <1>1, <1>2, <1>3, PostStays
<1>5. Sound(Residual(p, l), l, result)'
  <2>1. \A x \in ResidualLeg : Sound(x, l, result) => Sound(x, l, result)'
    BY <1>1, SoundStays
  <2> QED BY <1>1, <2>1, MemoryForm DEF Aside, Residual, Sound, Reaches
<1>6. PassOf(p)'
  BY <1>1, <1>5, PassDecides DEF Aside
<1> QED BY <1>2, <1>4, <1>6, WorkingFrame

LEMMA MovingStep ==
  ASSUME IInv, JournalKept, Aside, NEW p \in Procs, pass[p] \in InLeg, PostsKept(p),
         NEW step \in {"claim", "await"}, MoveTo(p, step),
         intent'[Leg(p)][Gen(p)].state # "none"
  PROVE  Kept
<1>1. SystemTypeOK /\ PassOf(p) /\ PostInv
  BY DEF IInv, PassInv
<1>2. /\ pass' \in [Procs -> {NoPass} \cup AtLeg \cup InLeg]
      /\ \A q \in Procs \ {p} : pass'[q] = pass[q]
      /\ pass'[p].at # "post"
  BY <1>1, MoveForm
<1>3. PostInv'
  BY <1>1, <1>2, PostStays
<1>4. PassOf(p)'
  BY <1>1, PassAdvances DEF Aside
<1> QED BY <1>2, <1>3, <1>4, WorkingFrame

LEMMA QuietJournal ==
  ASSUME IInv, UNCHANGED <<order, intent>>, NEW p \in Procs
  PROVE  JournalKept /\ PostsKept(p)
BY JournalStays DEF IInv, PostKept, PostsKept

LEMMA TurnFacts ==
  ASSUME IInv, NEW p \in Procs, NEW l \in Legs, Turn(p, l)
  PROVE  /\ SystemTypeOK /\ JournalInv /\ PassOf(p)
         /\ pass[p] # NoPass /\ pass[p] \in AtLeg
         /\ Residual(p, l) \in ResidualLeg /\ Residual(p, l).quantity > 0
         /\ Residual(p, l).generation \in Generations
<1>1. SystemTypeOK /\ JournalInv /\ PassOf(p)
  BY DEF IInv, PassInv
<1>2. At(p, "leg") /\ l \in Outstanding(p, Legs)
  BY DEF Turn, At
<1>3. pass[p] # NoPass /\ pass[p] \in AtLeg
  BY <1>1, <1>2, PassForms
<1> QED BY <1>1, <1>2, <1>3, MemoryForm DEF Outstanding, PassOf, Allowed

LEMMA UnseenForm ==
  /\ Unseen \in Seen /\ Unseen.filled = 0 /\ Unseen.state \notin Terminal
  /\ \A g \in Generations : /\ Result(g, Unseen, "keep") \in Decision
                            /\ Result(g, Unseen, "retire") \in Decision
BY DEF Unseen, Seen, Terminal, Result, Decision

\* A decision that saw no order is sound if its generation is reached.
LEMMA KeptIsSound ==
  ASSUME SystemTypeOK, NEW l \in Legs, NEW r \in ResidualLeg, r.quantity > 0,
         NEW g \in Generations, Reaches(r, l, g)
  PROVE  /\ Sound(r, l, Result(g, Unseen, "keep"))
         /\ Made(l, g) => Sound(r, l, Result(g, Unseen, "retire"))
<1>1. order[l][g].filled \in Nat
  BY DEF SystemTypeOK, BrokerOrder
<1> DEFINE kept == Result(g, Unseen, "keep")
           retired == Result(g, Unseen, "retire")
<1>2. /\ kept.generation = g /\ kept.order = Unseen /\ kept.disposition = "keep"
      /\ retired.generation = g /\ retired.order = Unseen /\ retired.disposition = "retire"
  BY DEF Result
<1> HIDE DEF kept, retired
<1>3. Sound(r, l, kept)
  BY <1>1, <1>2, UnseenForm DEF Sound
<1>4. Made(l, g) => Sound(r, l, retired)
  BY <1>1, <1>2, UnseenForm DEF Sound
<1> QED BY <1>3, <1>4 DEF kept, retired

LEMMA ProbedReached ==
  ASSUME NEW p \in Procs, NEW l \in Legs, NEW g \in Probed(p, l)
  PROVE  g \in Generations /\ Reaches(Residual(p, l), l, g)
BY DEF Probed, Reaches, Local

LEMMA DispositionForm ==
  ASSUME NEW state, NEW filled \in Nat, NEW requested \in Nat
  PROVE  /\ Disposition(state, filled, requested) \in {"flattened", "retire", "keep"}
         /\ Disposition(state, filled, requested) = "flattened" => filled >= requested
         /\ Disposition(state, filled, requested) = "retire" => state \in Terminal
         /\ state \in Terminal /\ filled < requested =>
              Disposition(state, filled, requested) = "retire"
BY DEF Disposition, Terminal

LEMMA HoldCoverKeeps ==
  ASSUME IInv, NEW p \in Procs, NEW l \in Legs, HoldCover(p, l) PROVE Kept
<1>1. Turn(p, l) /\ UNCHANGED <<order, intent>> /\ Aside
  BY DEF HoldCover, Aside
<1> DEFINE g == Residual(p, l).generation
<1>2. /\ SystemTypeOK /\ pass[p] # NoPass /\ Residual(p, l) \in ResidualLeg
      /\ Residual(p, l).quantity > 0 /\ g \in Generations
  BY <1>1, TurnFacts
<1>3. Reaches(Residual(p, l), l, g)
  <2>1. g \in Nat
    BY <1>2, MaxGenerationType
  <2> QED BY <2>1 DEF Reaches
<1>4. Sound(Residual(p, l), l, Result(g, Unseen, "keep"))
  BY <1>2, <1>3, KeptIsSound
<1>5. Decide(p, l, Result(g, Unseen, "keep"))
  BY DEF HoldCover
<1>6. Result(g, Unseen, "keep") \in Decision
  BY <1>2, UnseenForm
<1> QED BY <1>1, <1>2, <1>4, <1>5, <1>6, QuietJournal, DecidingStep

LEMMA WithholdKeeps ==
  ASSUME IInv, NEW p \in Procs, NEW l \in Legs, Withhold(p, l) PROVE Kept
<1>1. Turn(p, l) /\ UNCHANGED <<order, intent>> /\ Aside
  BY DEF Withhold, Aside
<1>2. PICK g \in Probed(p, l) : Decide(p, l, Result(g, Unseen, "keep"))
  BY DEF Withhold
<1>3. /\ SystemTypeOK /\ pass[p] # NoPass /\ Residual(p, l) \in ResidualLeg
      /\ Residual(p, l).quantity > 0
      /\ g \in Generations /\ Reaches(Residual(p, l), l, g)
  BY <1>1, TurnFacts, ProbedReached
<1>4. Sound(Residual(p, l), l, Result(g, Unseen, "keep"))
  BY <1>3, KeptIsSound
<1>5. Result(g, Unseen, "keep") \in Decision
  BY <1>3, UnseenForm
<1> QED BY <1>1, <1>2, <1>3, <1>4, <1>5, QuietJournal, DecidingStep

LEMMA ReplayKeeps ==
  ASSUME IInv, NEW p \in Procs, NEW l \in Legs, Replay(p, l) PROVE Kept
<1>1. Turn(p, l) /\ UNCHANGED <<order, intent>> /\ Aside
  BY DEF Replay, Aside
<1>2. PICK g \in Probed(p, l) :
        /\ intent[l][g].state \in Terminal
        /\ Decide(p, l, Result(g, [state |-> intent[l][g].state, filled |-> intent[l][g].filled,
                                   quantity |-> intent[l][g].quantity],
                    Disposition(intent[l][g].state, intent[l][g].filled, Residual(p, l).quantity)))
  BY DEF Replay
<1> DEFINE row == intent[l][g]
           r == Residual(p, l)
           seen == [state |-> row.state, filled |-> row.filled, quantity |-> row.quantity]
           kind == Disposition(row.state, row.filled, r.quantity)
<1>3. /\ SystemTypeOK /\ pass[p] # NoPass /\ r \in ResidualLeg /\ r.quantity > 0
      /\ g \in Generations /\ Reaches(r, l, g)
      /\ RowInv(row, order[l][g], Quantity[l])
  BY <1>1, TurnFacts, ProbedReached DEF JournalInv
<1>4. /\ row \in IntentRow /\ order[l][g] \in BrokerOrder /\ r.quantity \in Nat
  BY <1>3 DEF SystemTypeOK, ResidualLeg
<1>5. /\ row.filled \in Nat /\ row.quantity \in Nat /\ row.state \in Terminal
      /\ order[l][g].filled \in Nat
  BY <1>2, <1>4 DEF IntentRow, BrokerOrder
<1>6. /\ kind \in {"flattened", "retire", "keep"}
      /\ kind = "flattened" => row.filled >= r.quantity
  BY <1>4, <1>5, DispositionForm
<1>7. /\ row.filled <= order[l][g].filled /\ order[l][g].state = row.state
      /\ row.state # "none"
  BY <1>3, <1>5 DEF RowInv, Terminal
<1>8. seen \in Seen
  BY <1>5 DEF Seen
<1>9. Decide(p, l, Result(g, seen, kind))
  BY <1>2
<1> HIDE DEF kind
<1>10. Result(g, seen, kind) \in Decision
  BY <1>3, <1>6, <1>8 DEF Result, Decision
<1>11. Sound(r, l, Result(g, seen, kind))
  <2> DEFINE result == Result(g, seen, kind)
  <2>1. /\ result.generation = g /\ result.order.filled = row.filled
        /\ result.order.state = row.state /\ result.disposition = kind
    BY DEF Result
  <2> HIDE DEF result, row, r
  <2>2. kind = "flattened" => order[l][g].filled >= r.quantity
    BY <1>4, <1>5, <1>6, <1>7
  <2>3. Sound(r, l, result)
    BY <1>3, <1>7, <2>1, <2>2 DEF Sound, Made, row
  <2> QED BY <2>3 DEF result
<1> HIDE DEF r, seen
<1>12. Sound(Residual(p, l), l, Result(g, seen, kind))
  BY <1>11 DEF r
<1> QED BY <1>1, <1>3, <1>9, <1>10, <1>12, QuietJournal, DecidingStep

LEMMA SubmitKeeps ==
  ASSUME IInv, NEW p \in Procs, NEW l \in Legs, Submit(p, l) PROVE Kept
<1>1. Turn(p, l) /\ ~CoverMustBeHeld(p, l) /\ UNCHANGED <<order, intent>> /\ Aside
  BY DEF Submit, Aside
<1>2. PICK g \in Probed(p, l), x \in Prices :
        pass' = [pass EXCEPT ![p] = [at |-> "create", leg |-> l, generation |-> g,
                                     price |-> x, results |-> pass[p].results]]
  BY DEF Submit
<1>3. /\ SystemTypeOK /\ JournalInv /\ PassOf(p) /\ pass[p] # NoPass
      /\ Residual(p, l) \in ResidualLeg /\ Residual(p, l).quantity > 0
      /\ g \in Generations /\ Reaches(Residual(p, l), l, g) /\ pass[p].results \in Verdicts
  BY <1>1, TurnFacts, ProbedReached, PassForms
<1> DEFINE v == [at |-> "create", leg |-> l, generation |-> g, price |-> x,
                 results |-> pass[p].results]
<1>4. v \in InLeg
  BY <1>3 DEF InLeg
<1>5. v.at = "create" /\ v.leg = l /\ v.generation = g /\ v.results = pass[p].results
  OBVIOUS
<1>6. pass \in [Procs -> {NoPass} \cup AtLeg \cup InLeg] /\ pass' = [pass EXCEPT ![p] = v]
  BY <1>2, <1>3 DEF SystemTypeOK
<1> HIDE DEF v
<1>7. /\ pass' \in [Procs -> {NoPass} \cup AtLeg \cup InLeg]
      /\ pass'[p] = v /\ \A q \in Procs \ {p} : pass'[q] = pass[q]
  BY <1>4, <1>6
<1>8. JournalKept /\ PostsKept(p)
  BY <1>1, QuietJournal
<1>9. PostInv'
  BY <1>3, <1>5, <1>7, <1>8, PostStays DEF IInv
<1>10. PassOf(p)'
  <2>1. /\ pending'[p] = NoCommand
        /\ \A k \in Outstanding(p, Legs)' : Allowed(Residual(p, k))'
    BY <1>1, <1>3 DEF Aside, PassOf, Outstanding, Residual, Allowed, Exhausted
  <2>2. ASSUME NEW k \in Legs, Decided(p, k)'
        PROVE  Sound(Residual(p, k), k, pass[p].results[k])'
    <3>1. Decided(p, k)
      BY <1>5, <1>7, <2>2 DEF Decided
    <3>2. Sound(Residual(p, k), k, pass[p].results[k])
      BY <1>3, <3>1 DEF PassOf
    <3> QED BY <1>1, <1>5, <1>7, <3>2 DEF Aside, Sound, Reaches, Local, Made, Residual
  <2>3. InLegInv(p)'
    <3>1. Leg(p)' = l /\ Gen(p)' = g /\ At(p, "create")'
      BY <1>5, <1>7 DEF Leg, Gen, At
    <3>2. Reaches(Residual(p, Leg(p)), Leg(p), Gen(p))'
      BY <1>1, <1>3, <3>1 DEF Aside, Reaches, Local, Residual
    <3>3. ~Decided(p, l) /\ (l \in Longs => ShortsSettled(p))
      BY <1>1, <1>3 DEF Turn, CoverMustBeHeld, Unresolved, ShortsSettled
    <3>4. ~Decided(p, Leg(p))' /\ (Leg(p)' \in Longs => ShortsSettled(p)')
      BY <1>1, <1>5, <1>7, <3>1, <3>3
      DEF Aside, Decided, ShortsSettled, Outstanding, Residual
    <3> QED BY <1>1, <1>3, <3>1, <3>2, <3>4 DEF InLegInv, Aside, Residual
  <2> QED BY <2>1, <2>2, <2>3 DEF PassOf
<1> QED BY <1>1, <1>7, <1>8, <1>9, <1>10, WorkingFrame

\* A pass that is on its way with a leg.
LEMMA WorkFacts ==
  ASSUME IInv, NEW p \in Procs, NEW step \in {"create", "claim", "post", "await"}, At(p, step)
  PROVE  /\ SystemTypeOK /\ JournalInv /\ PassOf(p) /\ PostInv
         /\ pass[p] \in InLeg /\ pass[p] # NoPass
         /\ Leg(p) \in Legs /\ Gen(p) \in Generations /\ pass[p].price \in Prices
         /\ Residual(p, Leg(p)) \in ResidualLeg /\ Residual(p, Leg(p)).quantity > 0
         /\ Reaches(Residual(p, Leg(p)), Leg(p), Gen(p))
         /\ step # "create" => Made(Leg(p), Gen(p))
         /\ Leg(p) \in Longs => ShortsSettled(p)
<1>1. SystemTypeOK /\ JournalInv /\ PassOf(p) /\ PostInv
  BY DEF IInv, PassInv
<1>2. /\ pass[p] \in InLeg /\ pass[p] # NoPass
      /\ Leg(p) \in Legs /\ Gen(p) \in Generations /\ pass[p].price \in Prices
  BY <1>1, PassForms
<1>3. InLegInv(p)
  BY <1>1, <1>2 DEF PassOf
<1> QED BY <1>1, <1>2, <1>3, MemoryForm DEF InLegInv, At

LEMMA CreateFailsKeeps ==
  ASSUME IInv, NEW p \in Procs, CreateFails(p) PROVE Kept
<1>1. /\ At(p, "create") /\ UNCHANGED <<order, intent>> /\ Aside
      /\ Decide(p, Leg(p), Result(Gen(p), Unseen, "keep"))
  BY DEF CreateFails, Aside
<1>2. /\ SystemTypeOK /\ pass[p] # NoPass /\ Leg(p) \in Legs /\ Gen(p) \in Generations
      /\ Residual(p, Leg(p)) \in ResidualLeg /\ Residual(p, Leg(p)).quantity > 0
      /\ Reaches(Residual(p, Leg(p)), Leg(p), Gen(p))
  BY <1>1, WorkFacts
<1>3. Sound(Residual(p, Leg(p)), Leg(p), Result(Gen(p), Unseen, "keep"))
  BY <1>2, KeptIsSound
<1>4. Result(Gen(p), Unseen, "keep") \in Decision
  BY <1>2, UnseenForm
<1> QED BY <1>1, <1>2, <1>3, <1>4, QuietJournal, DecidingStep

LEMMA MemoryBooks ==
  ASSUME IInv, NEW p \in Procs, NEW l \in Legs
  PROVE  BooksOf(l, Residual(p, l))
BY DEF IInv, BooksInv, Residual

LEMMA CreateKeeps ==
  ASSUME IInv, NEW p \in Procs, Create(p) PROVE Kept
<1> DEFINE l == Leg(p)
           g == Gen(p)
           row == intent[l][g]
           v == [state |-> "CREATED", filled |-> 0, quantity |-> Requested(p),
                 price |-> pass[p].price]
<1>1. At(p, "create") /\ UNCHANGED order /\ Aside
  BY DEF Create, Aside
<1>2. /\ SystemTypeOK /\ JournalInv /\ PostInv /\ pass[p] \in InLeg /\ pass[p] # NoPass
      /\ l \in Legs /\ g \in Generations /\ pass[p].price \in Prices
      /\ Residual(p, l) \in ResidualLeg /\ Residual(p, l).quantity > 0
      /\ Reaches(Residual(p, l), l, g)
  BY <1>1, WorkFacts
<1>3. RowInv(row, order[l][g], Quantity[l]) /\ row \in IntentRow
  BY <1>2 DEF JournalInv, SystemTypeOK
<1> HIDE DEF l, g
<1>4. CASE row = NoIntent
  <2>1. /\ intent' = [intent EXCEPT ![l][g] = v]
        /\ MoveTo(p, "claim")
    BY <1>4 DEF Create, l, g
  <2>2. Requested(p) \in Nat \ {0} /\ Requested(p) <= Quantity[l] /\ Quantity[l] \in Nat
    BY <1>2, MemoryBooks, QuantityType DEF Requested, BooksOf, l, ResidualLeg
  <2>3. v \in IntentRow
    BY <1>2, <2>2 DEF IntentRow
  <2>4. order[l][g].state = "none" /\ order[l][g].filled = 0 /\ ~Made(l, g) /\ ~Local(l, g)
    BY <1>3, <1>4 DEF RowInv, NoIntent, Terminal, Made, Local
  <2>5. RowInv(v, order[l][g], Quantity[l]) /\ InsertedBy(p, l, g, v.quantity)
    BY <1>1, <1>2, <2>2, <2>4 DEF RowInv, Terminal, InsertedBy, l, g
  <2> HIDE DEF row, v
  <2>6. /\ JournalKept /\ intent'[l][g] = v
        /\ \A k \in Legs, n \in Generations : k # l \/ n # g => intent'[k][n] = intent[k][n]
    BY <1>1, <1>2, <2>1, <2>3, <2>4, <2>5, RowMoves
  <2>7. PostsKept(p)
    <3> SUFFICES ASSUME NEW q \in Procs \ {p}, At(q, "post")
                 PROVE  intent'[Leg(q)][Gen(q)] = intent[Leg(q)][Gen(q)]
      BY <1>1 DEF PostKept, PostsKept
    <3>1. intent[Leg(q)][Gen(q)].state = "SUBMITTING" /\ Leg(q) \in Legs /\ Gen(q) \in Generations
      BY <1>2, PassForms DEF PostInv
    <3> QED BY <1>4, <2>6, <3>1 DEF row, NoIntent
  <2>8. v.state # "none"
    BY DEF v
  <2>9. intent'[Leg(p)][Gen(p)].state # "none"
    BY <2>6, <2>8 DEF l, g
  <2> QED BY <1>1, <1>2, <2>1, <2>6, <2>7, <2>9, MovingStep
<1>5. CASE row # NoIntent
  <2>1. /\ UNCHANGED intent
        /\ \/ Decide(p, l, Result(g, Unseen, "retire"))
           \/ MoveTo(p, "claim")
           \/ MoveTo(p, "await")
    BY <1>5 DEF Create, l, g
  <2>2. JournalKept /\ PostsKept(p)
    BY <1>1, <2>1, QuietJournal
  <2>3. Made(l, g)
    BY <1>3, <1>5 DEF RowInv, Made
  <2>4. CASE Decide(p, l, Result(g, Unseen, "retire"))
    <3>1. Sound(Residual(p, l), l, Result(g, Unseen, "retire"))
      BY <1>2, <2>3, KeptIsSound
    <3>2. Result(g, Unseen, "retire") \in Decision
      BY <1>2, UnseenForm
    <3> QED BY <1>1, <1>2, <2>2, <2>4, <3>1, <3>2, DecidingStep
  <2>5. intent'[Leg(p)][Gen(p)].state # "none"
    BY <2>1, <2>3 DEF Made, l, g
  <2>6. CASE MoveTo(p, "claim") \/ MoveTo(p, "await")
    BY <1>1, <1>2, <2>2, <2>5, <2>6, MovingStep
  <2> QED BY <2>1, <2>4, <2>6
<1> QED BY <1>4, <1>5

LEMMA ClaimKeeps ==
  ASSUME IInv, NEW p \in Procs, Claim(p) PROVE Kept
<1> DEFINE l == Leg(p)
           g == Gen(p)
           row == intent[l][g]
           v == [row EXCEPT !.state = "SUBMITTING"]
<1>1. At(p, "claim") /\ UNCHANGED order /\ Aside
  BY DEF Claim, Aside
<1>2. /\ SystemTypeOK /\ JournalInv /\ PostInv /\ PassOf(p) /\ pass[p] \in InLeg /\ pass[p] # NoPass
      /\ l \in Legs /\ g \in Generations /\ Made(l, g)
  BY <1>1, WorkFacts
<1>3. RowInv(row, order[l][g], Quantity[l]) /\ row \in IntentRow
  BY <1>2 DEF JournalInv, SystemTypeOK
<1>4. CASE row.state = "CREATED"
  <2>1. /\ intent' = [intent EXCEPT ![l][g] = v]
        /\ MoveTo(p, "post")
    BY <1>2, <1>4 DEF Claim, SystemTypeOK
  <2>2. /\ v \in IntentRow /\ v.state = "SUBMITTING" /\ v.filled = row.filled
        /\ v.quantity = row.quantity /\ v.price = row.price
    BY <1>3 DEF IntentRow
  <2> HIDE DEF v
  <2>3. order[l][g].state = "none" /\ ~Local(l, g)
    BY <1>3, <1>4 DEF RowInv, Terminal, Local
  <2>4. RowInv(v, order[l][g], Quantity[l])
    BY <1>3, <1>4, <2>2, <2>3 DEF RowInv, Terminal
  <2> HIDE DEF row, l, g
  <2>5. /\ JournalKept /\ intent'[l][g] = v
        /\ \A k \in Legs, n \in Generations : k # l \/ n # g => intent'[k][n] = intent[k][n]
    BY <1>1, <1>2, <2>1, <2>2, <2>3, <2>4, RowMoves DEF row
  <2>6. /\ pass' \in [Procs -> {NoPass} \cup AtLeg \cup InLeg]
        /\ \A q \in Procs \ {p} : pass'[q] = pass[q]
        /\ pass'[p].leg = l /\ pass'[p].generation = g
    BY <1>2, <2>1, MoveForm DEF Leg, Gen, l, g
  <2>7. PassOf(p)'
    <3>1. intent'[Leg(p)][Gen(p)].state # "none"
      BY <2>2, <2>5 DEF l, g
    <3> QED BY <1>1, <1>2, <2>1, <2>5, <3>1, PassAdvances DEF Aside
  <2>8. \A q \in Procs : At(q, "post")' =>
          /\ Leg(q)' \in Legs /\ Gen(q)' \in Generations
          /\ q # p => /\ At(q, "post") /\ Leg(q)' = Leg(q) /\ Gen(q)' = Gen(q)
                      /\ intent[Leg(q)][Gen(q)].state = "SUBMITTING"
                      /\ order[Leg(q)][Gen(q)].state = "none"
          /\ q = p => Leg(q)' = l /\ Gen(q)' = g
    BY <1>2, <2>6, PassForms DEF At, Leg, Gen, PostInv
  <2>9. \A q \in Procs : At(q, "post")' /\ q # p => Leg(q)' # l \/ Gen(q)' # g
    BY <1>4, <2>8 DEF row
  <2>10. PostInv'
    <3>1. ASSUME NEW q \in Procs, At(q, "post")'
          PROVE  /\ intent'[Leg(q)'][Gen(q)'].state = "SUBMITTING"
                 /\ order'[Leg(q)'][Gen(q)'].state = "none"
      BY <1>1, <2>2, <2>3, <2>5, <2>8, <2>9, <3>1
    <3>2. ASSUME NEW q \in Procs, NEW k \in Procs, q # k, At(q, "post")', At(k, "post")'
          PROVE  Leg(q)' # Leg(k)' \/ Gen(q)' # Gen(k)'
      <4>1. CASE q # p /\ k # p
        BY <1>2, <2>8, <3>2, <4>1 DEF PostInv
      <4>2. CASE q = p \/ k = p
        BY <2>8, <2>9, <3>2, <4>2
      <4> QED BY <4>1, <4>2
    <3> QED BY <3>1, <3>2 DEF PostInv
  <2> QED BY <1>1, <2>5, <2>6, <2>7, <2>10, WorkingFrame
<1>5. CASE row.state # "CREATED"
  <2>1. UNCHANGED intent /\ MoveTo(p, "await")
    BY <1>5 DEF Claim
  <2>2. JournalKept /\ PostsKept(p)
    BY <1>1, <2>1, QuietJournal
  <2>3. intent'[Leg(p)][Gen(p)].state # "none"
    BY <1>2, <2>1 DEF Made
  <2> QED BY <1>1, <1>2, <2>1, <2>2, <2>3, MovingStep
<1> QED BY <1>4, <1>5

\* Processes that hold the right to a POST, seen from a step at row g of leg l.
LEMMA PostersElsewhere ==
  ASSUME SystemTypeOK, PostInv, NEW p \in Procs, NEW l \in Legs, NEW g \in Generations,
         At(p, "post") => Leg(p) = l /\ Gen(p) = g,
         ~At(p, "post") => intent[l][g].state # "SUBMITTING" \/ order[l][g].state # "none",
         \A k \in Legs, n \in Generations : k # l \/ n # g =>
           intent'[k][n] = intent[k][n] /\ order'[k][n] = order[k][n]
  PROVE  PostsKept(p)
<1> SUFFICES ASSUME NEW q \in Procs \ {p}, At(q, "post")
             PROVE  /\ intent'[Leg(q)][Gen(q)] = intent[Leg(q)][Gen(q)]
                    /\ order'[Leg(q)][Gen(q)] = order[Leg(q)][Gen(q)]
  BY DEF PostKept, PostsKept
<1>1. /\ intent[Leg(q)][Gen(q)].state = "SUBMITTING" /\ order[Leg(q)][Gen(q)].state = "none"
      /\ Leg(q) \in Legs /\ Gen(q) \in Generations
  BY PassForms DEF PostInv
<1>2. Leg(q) # l \/ Gen(q) # g
  BY <1>1 DEF PostInv
<1> QED BY <1>1, <1>2

LEMMA RefuseKeeps ==
  ASSUME IInv, NEW p \in Procs, Refuse(p) PROVE Kept
<1> DEFINE l == Leg(p)
           g == Gen(p)
           row == intent[l][g]
           v == [row EXCEPT !.state = "LOCAL"]
<1>1. /\ (At(p, "claim") /\ row.state = "CREATED") \/ At(p, "post")
      /\ UNCHANGED order /\ Aside
      /\ Decide(p, l, Result(g, Unseen, "retire"))
  BY DEF Refuse, Aside
<1>2. /\ SystemTypeOK /\ JournalInv /\ PostInv /\ pass[p] # NoPass
      /\ l \in Legs /\ g \in Generations /\ Made(l, g)
      /\ Residual(p, l) \in ResidualLeg /\ Residual(p, l).quantity > 0
      /\ Reaches(Residual(p, l), l, g)
  BY <1>1, WorkFacts
<1>3. RowInv(row, order[l][g], Quantity[l]) /\ row \in IntentRow
  BY <1>2 DEF JournalInv, SystemTypeOK
<1>4. intent' = [intent EXCEPT ![l][g] = v]
  BY <1>2 DEF Refuse, SystemTypeOK
<1>5. /\ v \in IntentRow /\ v.state = "LOCAL" /\ v.filled = row.filled
      /\ v.quantity = row.quantity /\ v.price = row.price
  BY <1>3 DEF IntentRow
<1> HIDE DEF v
<1>6. order[l][g].state = "none" /\ row.state \in {"CREATED", "SUBMITTING"}
  BY <1>1, <1>2, <1>3 DEF RowInv, Terminal, PostInv
<1>7. RowInv(v, order[l][g], Quantity[l])
  BY <1>3, <1>5, <1>6 DEF RowInv, Terminal
<1> HIDE DEF row, l, g
<1>8. /\ JournalKept
      /\ \A k \in Legs, n \in Generations : k # l \/ n # g => intent'[k][n] = intent[k][n]
  BY <1>1, <1>2, <1>4, <1>5, <1>7, RowMoves DEF row
<1>9. PostsKept(p)
  <2>1. At(p, "post") => Leg(p) = l /\ Gen(p) = g
    BY DEF l, g
  <2>2. ~At(p, "post") => intent[l][g].state # "SUBMITTING"
    BY <1>1 DEF row
  <2> QED BY <1>1, <1>2, <1>8, <2>1, <2>2, PostersElsewhere
<1>10. Sound(Residual(p, l), l, Result(g, Unseen, "retire"))
  BY <1>2, KeptIsSound
<1>11. Result(g, Unseen, "retire") \in Decision
  BY <1>2, UnseenForm
<1> QED BY <1>1, <1>2, <1>8, <1>9, <1>10, <1>11, DecidingStep

LEMMA PostKeeps ==
  ASSUME IInv, NEW p \in Procs, Post(p) PROVE Kept
<1> DEFINE l == Leg(p)
           g == Gen(p)
           o == order[l][g]
           sent == [o EXCEPT !.state = "live"]
<1>1. At(p, "post") /\ UNCHANGED intent /\ Aside /\ MoveTo(p, "await")
  BY DEF Post, Aside
<1>2. /\ SystemTypeOK /\ JournalInv /\ PostInv /\ pass[p] \in InLeg
      /\ l \in Legs /\ g \in Generations /\ Made(l, g)
  BY <1>1, WorkFacts
<1>3. intent'[Leg(p)][Gen(p)].state # "none"
  BY <1>1, <1>2 DEF Made
<1>4. CASE order' = [order EXCEPT ![l][g].state = "live"]
  <2>1. RowInv(intent[l][g], o, Quantity[l]) /\ o \in BrokerOrder /\ intent[l][g] \in IntentRow
    BY <1>2 DEF JournalInv, SystemTypeOK
  <2>2. order' = [order EXCEPT ![l][g] = sent]
    BY <1>2, <1>4 DEF SystemTypeOK
  <2>3. sent \in BrokerOrder /\ sent.state = "live" /\ sent.filled = o.filled
    BY <2>1 DEF BrokerOrder
  <2>4. o.state = "none" /\ o.filled = 0 /\ intent[l][g].state = "SUBMITTING"
    BY <1>1, <1>2, <2>1 DEF PostInv, RowInv
  <2> HIDE DEF sent
  <2>5. RowInv(intent[l][g], sent, Quantity[l])
    BY <2>1, <2>3, <2>4, <1>2, QuantityType DEF RowInv, Terminal
  <2> HIDE DEF o, l, g
  <2>6. /\ JournalKept
        /\ \A k \in Legs, n \in Generations : k # l \/ n # g => order'[k][n] = order[k][n]
    <3>1. /\ order[l][g].filled <= sent.filled /\ order[l][g].state \notin Terminal
          /\ sent.state # "none" /\ intent' = intent
      BY <1>1, <2>3, <2>4 DEF o, Terminal
    <3> QED BY <1>2, <2>2, <2>3, <2>5, <3>1, OrderMoves
  <2>7. PostsKept(p)
    BY <1>1, <1>2, <2>6, PostersElsewhere DEF l, g
  <2> QED BY <1>1, <1>2, <1>3, <2>6, <2>7, MovingStep
<1>5. CASE UNCHANGED order
  <2>1. JournalKept /\ PostsKept(p)
    BY <1>1, <1>5, QuietJournal
  <2> QED BY <1>1, <1>2, <1>3, <2>1, MovingStep
<1> QED BY <1>4, <1>5 DEF Post

\* What a pass learns from the broker's order itself is sound.
LEMMA SnapshotForm ==
  ASSUME SystemTypeOK, JournalInv, NEW l \in Legs, NEW g \in Generations, order[l][g].state # "none",
         NEW r \in ResidualLeg, r.quantity > 0, Reaches(r, l, g),
         NEW kind \in {"flattened", "retire", "keep"},
         kind = "flattened" => order[l][g].filled >= r.quantity
  PROVE  /\ Result(g, Snapshot(l, g), kind) \in Decision
         /\ Sound(r, l, Result(g, Snapshot(l, g), kind))
<1> DEFINE result == Result(g, Snapshot(l, g), kind)
<1>1. /\ order[l][g] \in BrokerOrder /\ intent[l][g] \in IntentRow
      /\ RowInv(intent[l][g], order[l][g], Quantity[l])
  BY DEF SystemTypeOK, JournalInv
<1>2. order[l][g].filled \in Nat /\ Snapshot(l, g) \in Seen
  BY <1>1 DEF BrokerOrder, IntentRow, Snapshot, Seen
<1>3. result \in Decision
  BY <1>2 DEF Result, Decision
<1>4. /\ result.generation = g /\ result.order.filled = order[l][g].filled
      /\ result.order.state = order[l][g].state /\ result.disposition = kind
  BY DEF Result, Snapshot
<1>5. Made(l, g)
  BY <1>1 DEF RowInv, Made, Terminal
<1> HIDE DEF result
<1>6. Sound(r, l, result)
  BY <1>2, <1>4, <1>5 DEF Sound
<1> QED BY <1>3, <1>6 DEF result

LEMMA AnswerKeeps ==
  ASSUME IInv, NEW p \in Procs, Answer(p) PROVE Kept
<1> DEFINE l == Leg(p)
           g == Gen(p)
           o == order[l][g]
           r == Residual(p, l)
           kind == Disposition(o.state, o.filled, Requested(p))
<1>1. At(p, "await") /\ UNCHANGED order /\ Aside
  BY DEF Answer, Aside
<1>2. /\ SystemTypeOK /\ JournalInv /\ PostInv /\ pass[p] # NoPass
      /\ l \in Legs /\ g \in Generations
      /\ r \in ResidualLeg /\ r.quantity > 0 /\ Reaches(r, l, g)
  BY <1>1, WorkFacts
<1>3. ~At(p, "post")
  BY <1>1 DEF At
<1>4. CASE /\ o.state # "none"
           /\ intent' = [intent EXCEPT ![l][g] = Recorded(intent[l][g], o)]
           /\ Decide(p, l, Result(g, Snapshot(l, g), kind))
  <2>1. LET row == Recorded(intent[l][g], o) IN
        /\ row \in IntentRow /\ RowInv(row, order[l][g], Quantity[l])
        /\ row.state # "none" /\ row.quantity = intent[l][g].quantity
        /\ row.price = intent[l][g].price /\ ~Local(l, g) /\ Made(l, g)
    BY <1>2, <1>4, RecordedForm
  <2>2. /\ r.quantity \in Nat /\ Requested(p) = r.quantity /\ o.filled \in Nat
    BY <1>2 DEF Requested, ResidualLeg, SystemTypeOK, BrokerOrder
  <2>3. kind \in {"flattened", "retire", "keep"} /\ (kind = "flattened" => o.filled >= r.quantity)
    BY <2>2, DispositionForm
  <2> HIDE DEF kind, r, l, g
  <2>4. /\ JournalKept
        /\ \A k \in Legs, n \in Generations : k # l \/ n # g => intent'[k][n] = intent[k][n]
    BY <1>1, <1>2, <1>4, <2>1, RowMoves
  <2>5. PostsKept(p)
    BY <1>1, <1>2, <1>3, <1>4, <2>4, PostersElsewhere
  <2>6. /\ Result(g, Snapshot(l, g), kind) \in Decision
        /\ Sound(r, l, Result(g, Snapshot(l, g), kind))
    BY <1>2, <1>4, <2>3, SnapshotForm
  <2>7. Sound(Residual(p, l), l, Result(g, Snapshot(l, g), kind))
    BY <2>6 DEF r
  <2> QED BY <1>1, <1>2, <1>4, <2>4, <2>5, <2>6, <2>7, DecidingStep
<1>5. CASE Decide(p, l, Result(g, Unseen, "keep")) /\ UNCHANGED intent
  <2>1. JournalKept /\ PostsKept(p)
    BY <1>1, <1>5, QuietJournal
  <2>2. /\ Sound(Residual(p, l), l, Result(g, Unseen, "keep"))
        /\ Result(g, Unseen, "keep") \in Decision
    BY <1>2, KeptIsSound, UnseenForm
  <2> QED BY <1>1, <1>2, <1>5, <2>1, <2>2, DecidingStep
<1> QED BY <1>4, <1>5 DEF Answer

LEMMA AnswerNotRecordedKeeps ==
  ASSUME IInv, NEW p \in Procs, AnswerNotRecorded(p) PROVE Kept
<1> DEFINE l == Leg(p)
           g == Gen(p)
           o == order[l][g]
<1>1. At(p, "await") /\ UNCHANGED <<order, intent>> /\ Aside /\ o.state # "none"
  BY DEF AnswerNotRecorded, Aside
<1>2. /\ SystemTypeOK /\ JournalInv /\ pass[p] # NoPass /\ l \in Legs /\ g \in Generations
      /\ Residual(p, l) \in ResidualLeg /\ Residual(p, l).quantity > 0
      /\ Reaches(Residual(p, l), l, g)
  BY <1>1, WorkFacts
<1>3. JournalKept /\ PostsKept(p)
  BY <1>1, QuietJournal
<1>4. \/ Decide(p, l, Result(g, Snapshot(l, g), "keep"))
      \/ Decide(p, l, Result(g, Unseen, "keep"))
  BY DEF AnswerNotRecorded
<1> HIDE DEF l, g
<1>5. /\ Sound(Residual(p, l), l, Result(g, Unseen, "keep"))
      /\ Result(g, Unseen, "keep") \in Decision
  BY <1>2, KeptIsSound, UnseenForm
<1>6. /\ Sound(Residual(p, l), l, Result(g, Snapshot(l, g), "keep"))
      /\ Result(g, Snapshot(l, g), "keep") \in Decision
  BY <1>1, <1>2, SnapshotForm
<1>7. CASE Decide(p, l, Result(g, Snapshot(l, g), "keep"))
  BY <1>1, <1>2, <1>3, <1>6, <1>7, DecidingStep
<1>8. CASE Decide(p, l, Result(g, Unseen, "keep"))
  BY <1>1, <1>2, <1>3, <1>5, <1>8, DecidingStep
<1> QED BY <1>4, <1>7, <1>8

LEMMA TickKeeps ==
  ASSUME IInv, NEW p \in Procs, Tick(p) PROVE Kept
<1>1. /\ pending[p] = NoCommand /\ pass' = [pass EXCEPT ![p] = NewPass]
      /\ passes < MaxPasses /\ passes' = passes + 1
      /\ \A l \in Outstanding(p, Legs) : Allowed(Residual(p, l))
      /\ UNCHANGED <<order, intent, attempt, memory, pending, owner, disruptions>>
  BY DEF Tick, Allowed
<1>2. SystemTypeOK /\ JournalInv /\ PostInv /\ PassInv
  BY DEF IInv
<1>3. NewPass \in AtLeg /\ \A l \in Legs : ~NewPass.results[l].decided
  BY DEF NewPass, AtLeg, Verdicts, Undecided
<1>4. /\ pass' \in [Procs -> {NoPass} \cup AtLeg \cup InLeg]
      /\ pass'[p] = NewPass /\ \A q \in Procs \ {p} : pass'[q] = pass[q]
  BY <1>1, <1>2, <1>3 DEF SystemTypeOK
<1>5. JournalKept /\ PostsKept(p)
  BY <1>1, QuietJournal
<1>6. SystemTypeOK'
  <2>1. passes' \in 0 .. MaxPasses
    BY <1>1, <1>2, ResidualConstants DEF SystemTypeOK
  <2> QED BY <1>1, <1>2, <1>4, <2>1 DEF SystemTypeOK
<1>7. PostInv'
  <2>1. NewPass.at # "post"
    BY DEF NewPass
  <2> QED BY <1>2, <1>4, <1>5, <2>1, PostStays
<1>8. PassInv'
  <2>1. PassOf(p)'
    <3>1. InLegInv(p)'
      BY <1>3, <1>4 DEF InLegInv, AtLeg, InLeg
    <3> QED BY <1>1, <1>3, <1>4, <3>1
        DEF PassOf, Decided, Outstanding, Residual, Allowed, Exhausted
  <2>2. ASSUME NEW q \in Procs \ {p} PROVE PassOf(q)'
    BY <1>1, <1>2, <1>4, <1>5, PassStays DEF PassInv
  <2> QED BY <2>1, <2>2 DEF PassInv
<1>9. BooksInv'
  BY <1>1, <1>2, <1>5, BooksFrame DEF IInv
<1> QED BY <1>5, <1>6, <1>7, <1>8, <1>9 DEF IInv, JournalKept, Kept

\* A process that has no pass under way after the step: its memory, its
\* projection and the durable residual may have changed.
LEMMA ProjectingStep ==
  ASSUME IInv, UNCHANGED <<order, intent, owner, passes>>, disruptions' \in 0 .. MaxDisruptions,
         NEW p \in Procs, pass' = [pass EXCEPT ![p] = NoPass],
         attempt' \in Residuals, \A l \in Legs : BooksOf(l, attempt'.residual[l]),
         NEW m \in Residuals, memory' = [memory EXCEPT ![p] = m],
         \A l \in Legs : BooksOf(l, m.residual[l]),
         NEW c \in {NoCommand} \cup ProjectionCommand, pending' = [pending EXCEPT ![p] = c],
         c # NoCommand => \A l \in Legs : BooksOf(l, c.to[l])
  PROVE  Kept
<1>1. SystemTypeOK /\ JournalInv /\ PostInv /\ PassInv /\ BooksInv
  BY DEF IInv
<1>2. /\ pass' \in [Procs -> {NoPass} \cup AtLeg \cup InLeg]
      /\ pass'[p] = NoPass /\ \A q \in Procs \ {p} : pass'[q] = pass[q]
      /\ memory' \in [Procs -> Residuals]
      /\ memory'[p] = m /\ \A q \in Procs \ {p} : memory'[q] = memory[q]
      /\ pending' \in [Procs -> {NoCommand} \cup ProjectionCommand]
      /\ pending'[p] = c /\ \A q \in Procs \ {p} : pending'[q] = pending[q]
  BY <1>1 DEF SystemTypeOK
<1>3. JournalKept /\ PostsKept(p)
  BY QuietJournal
<1>4. SystemTypeOK'
  BY <1>1, <1>2 DEF SystemTypeOK
<1>5. PostInv'
  <2>1. NoPass.at # "post"
    BY DEF NoPass
  <2> QED BY <1>1, <1>2, <1>3, <2>1, PostStays
<1>6. PassInv'
  <2>1. PassOf(p)'
    BY <1>2 DEF PassOf
  <2>2. ASSUME NEW q \in Procs \ {p} PROVE PassOf(q)'
    BY <1>1, <1>2, <1>3, PassStays DEF PassInv
  <2> QED BY <2>1, <2>2 DEF PassInv
<1>7. BooksInv'
  <2>1. \A l \in Legs, r \in ResidualLeg : BooksOf(l, r) => BooksOf(l, r)'
    BY DEF BooksOf
  <2>2. ASSUME NEW l \in Legs, NEW q \in Procs
        PROVE  /\ BooksOf(l, attempt'.residual[l])
               /\ BooksOf(l, memory'[q].residual[l])
               /\ pending'[q] # NoCommand => BooksOf(l, pending'[q].to[l])
    <3>1. CASE q = p
      BY <1>2, <3>1
    <3>2. CASE q # p
      BY <1>1, <1>2, <3>2 DEF BooksInv
    <3> QED BY <3>1, <3>2
  <2> QED BY <2>2 DEF BooksInv, BooksOf
<1> QED BY <1>3, <1>4, <1>5, <1>6, <1>7 DEF IInv, JournalKept, Kept

LEMMA GoneForm == Gone \in ResidualLeg /\ Gone.quantity = 0
BY DEF Gone, ResidualLeg

\* The command at the end of a pass owes no more than its memory did.
LEMMA CommandForm ==
  ASSUME IInv, NEW p \in Procs, Finished(p)
  PROVE  /\ Command(p) \in ProjectionCommand
         /\ Command(p).version = memory[p].version /\ Command(p).from = memory[p].residual
         /\ \A l \in Legs :
              /\ Command(p).to[l] =
                   IF Residual(p, l).quantity > 0 THEN CarryForward(Residual(p, l), pass[p].results[l])
                   ELSE Gone
              /\ Residual(p, l).quantity > 0 =>
                   Decided(p, l) /\ pass[p].results[l] \in Decision
                   /\ Sound(Residual(p, l), l, pass[p].results[l])
              /\ BooksOf(l, Command(p).to[l])
<1>1. SystemTypeOK /\ JournalInv /\ BooksInv /\ PassOf(p)
  BY DEF IInv, PassInv
<1>2. pass[p] # NoPass
  <2>1. At(p, "leg")
    BY DEF Finished, At
  <2> QED BY <1>1, <2>1, PassForms
<1>3. ASSUME NEW l \in Legs
      PROVE  /\ Command(p).to[l] =
                  IF Residual(p, l).quantity > 0
                  THEN CarryForward(Residual(p, l), pass[p].results[l]) ELSE Gone
             /\ Residual(p, l).quantity > 0 =>
                  Decided(p, l) /\ pass[p].results[l] \in Decision
                  /\ Sound(Residual(p, l), l, pass[p].results[l])
  BY <1>1, <1>2, DecidedForm DEF Command, Outstanding, Finished, PassOf
<1>4. ASSUME NEW l \in Legs
      PROVE  Command(p).to[l] \in ResidualLeg /\ BooksOf(l, Command(p).to[l])
  <2> DEFINE r == Residual(p, l)
             result == pass[p].results[l]
             next == Command(p).to[l]
  <2>1. /\ order[l] \in Fills(Quantity[l]) /\ Quantity[l] \in Nat
        /\ r \in ResidualLeg /\ BooksOf(l, r) /\ r.quantity \in Nat
    BY <1>1, OrdersAreFills, MemoryForm, MemoryBooks DEF ResidualLeg
  <2>2. CASE r.quantity > 0
    <3>1. /\ next = CarryForward(r, result) /\ result \in Decision
          /\ Sound(r, l, result)
      BY <1>3, <2>2
    <3>2. r.generation <= result.generation /\ result.order.filled <= order[l][result.generation].filled
      <4>1. r.generation \in Nat /\ result.generation \in Nat
        BY <2>1, <3>1, MaxGenerationType DEF ResidualLeg, Decision
      <4> QED BY <3>1, <4>1 DEF Sound, Reaches
    <3>3. next \in ResidualLeg /\ next.quantity <= r.quantity /\ next.quantity \in Nat
      <4> HIDE DEF r, result
      <4>1. PICK credit \in 0 .. r.quantity :
              /\ CarryForward(r, result) \in ResidualLeg
              /\ CarryForward(r, result).quantity = r.quantity - credit
        BY <2>1, <2>2, <3>1, CarryForwardEffect
      <4> QED BY <2>1, <3>1, <4>1
    <3> HIDE DEF r, result
    <3>4. Books(order[l], Quantity[l], CarryForward(r, result))
      BY <2>1, <2>2, <3>1, <3>2, BooksForward DEF BooksOf
    <3> HIDE DEF next
    <3>5. next.quantity <= Quantity[l]
      BY <2>1, <3>3 DEF BooksOf
    <3> QED BY <3>1, <3>3, <3>4, <3>5 DEF BooksOf, next
  <2>3. CASE r.quantity = 0
    <3>1. next = Gone
      BY <1>3, <2>3
    <3> QED BY <2>1, <2>3, <3>1, GoneForm DEF BooksOf, Books
  <2> QED BY <2>1, <2>2, <2>3
<1>5. Command(p) \in ProjectionCommand
  <2>1. /\ Command(p).version = memory[p].version /\ Command(p).from = memory[p].residual
        /\ Command(p) = [version |-> Command(p).version, from |-> Command(p).from,
                         to |-> Command(p).to]
        /\ Command(p).to = [l \in Legs |-> Command(p).to[l]]
    BY DEF Command
  <2>2. Command(p).to \in [Legs -> ResidualLeg]
    BY <1>4, <2>1
  <2>3. memory[p].version \in Nat /\ memory[p].residual \in [Legs -> ResidualLeg]
    BY <1>1 DEF SystemTypeOK, Residuals
  <2> QED BY <2>1, <2>2, <2>3 DEF ProjectionCommand
<1>6. Command(p).version = memory[p].version /\ Command(p).from = memory[p].residual
  BY DEF Command
<1> QED BY <1>3, <1>4, <1>5, <1>6

LEMMA ApplyForm ==
  ASSUME IInv, NEW c \in ProjectionCommand, \A l \in Legs : BooksOf(l, c.to[l])
  PROVE  Apply(c) \in Residuals /\ \A l \in Legs : BooksOf(l, Apply(c).residual[l])
<1>1. attempt \in Residuals /\ \A l \in Legs : BooksOf(l, attempt.residual[l])
  BY DEF IInv, SystemTypeOK, BooksInv
<1>2. [version |-> attempt.version + 1, residual |-> c.to] \in Residuals
  BY <1>1 DEF Residuals, ProjectionCommand
<1> QED BY <1>1, <1>2 DEF Apply

LEMMA CopiesForm ==
  ASSUME IInv, NEW p \in Procs
  PROVE  /\ attempt \in Residuals /\ \A l \in Legs : BooksOf(l, attempt.residual[l])
         /\ memory[p] \in Residuals /\ \A l \in Legs : BooksOf(l, memory[p].residual[l])
         /\ pending[p] \in {NoCommand} \cup ProjectionCommand
         /\ pending[p] # NoCommand => \A l \in Legs : BooksOf(l, pending[p].to[l])
         /\ memory = [memory EXCEPT ![p] = memory[p]]
         /\ pending = [pending EXCEPT ![p] = pending[p]]
         /\ pass[p] = NoPass => pass = [pass EXCEPT ![p] = NoPass]
         /\ disruptions \in 0 .. MaxDisruptions
BY DEF IInv, SystemTypeOK, BooksInv

LEMMA NothingToProjectKeeps ==
  ASSUME IInv, NEW p \in Procs, NothingToProject(p) PROVE Kept
<1>1. /\ pass' = [pass EXCEPT ![p] = NoPass]
      /\ UNCHANGED <<order, intent, attempt, memory, pending, owner, passes, disruptions>>
  BY DEF NothingToProject
<1> QED BY <1>1, CopiesForm, ProjectingStep

LEMMA ProjectKeeps ==
  ASSUME IInv, NEW p \in Procs, Project(p) PROVE Kept
<1> DEFINE command == Command(p)
<1>1. /\ Finished(p)
      /\ \/ attempt' = Apply(command) /\ memory' = [memory EXCEPT ![p] = attempt'] /\ UNCHANGED pending
         \/ /\ attempt' \in {attempt, Apply(command)}
            /\ pending' = [pending EXCEPT ![p] = command] /\ UNCHANGED memory
      /\ pass' = [pass EXCEPT ![p] = NoPass]
      /\ UNCHANGED <<order, intent, owner, passes, disruptions>>
  BY DEF Project
<1>2. command \in ProjectionCommand /\ \A l \in Legs : BooksOf(l, command.to[l])
  BY <1>1, CommandForm
<1> HIDE DEF command
<1>3. Apply(command) \in Residuals /\ \A l \in Legs : BooksOf(l, Apply(command).residual[l])
  BY <1>2, ApplyForm
<1>4. attempt' \in Residuals /\ \A l \in Legs : BooksOf(l, attempt'.residual[l])
  BY <1>1, <1>3, CopiesForm
<1>5. CASE memory' = [memory EXCEPT ![p] = attempt'] /\ UNCHANGED pending
  BY <1>1, <1>4, <1>5, CopiesForm, ProjectingStep
<1>6. CASE pending' = [pending EXCEPT ![p] = command] /\ UNCHANGED memory
  BY <1>1, <1>2, <1>4, <1>6, CopiesForm, ProjectingStep
<1> QED BY <1>1, <1>5, <1>6

LEMMA RetryKeeps ==
  ASSUME IInv, NEW p \in Procs, Retry(p) PROVE Kept
<1>1. /\ pass[p] = NoPass /\ pending[p] # NoCommand /\ attempt' = Apply(pending[p])
      /\ \/ memory' = [memory EXCEPT ![p] = attempt'] /\ pending' = [pending EXCEPT ![p] = NoCommand]
         \/ UNCHANGED <<memory, pending>>
      /\ UNCHANGED <<order, intent, pass, owner, passes, disruptions>>
  BY DEF Retry
<1>2. /\ pending[p] \in ProjectionCommand /\ \A l \in Legs : BooksOf(l, pending[p].to[l])
      /\ pass' = [pass EXCEPT ![p] = NoPass]
  BY <1>1, CopiesForm
<1>3. attempt' \in Residuals /\ \A l \in Legs : BooksOf(l, attempt'.residual[l])
  BY <1>1, <1>2, ApplyForm
<1>4. CASE memory' = [memory EXCEPT ![p] = attempt'] /\ pending' = [pending EXCEPT ![p] = NoCommand]
  BY <1>1, <1>2, <1>3, <1>4, CopiesForm, ProjectingStep
<1>5. CASE UNCHANGED <<memory, pending>>
  BY <1>1, <1>2, <1>3, <1>5, CopiesForm, ProjectingStep
<1> QED BY <1>1, <1>4, <1>5

LEMMA RestartKeeps ==
  ASSUME IInv, NEW p \in Procs, Restart(p) PROVE Kept
<1>1. /\ disruptions < MaxDisruptions /\ disruptions' = disruptions + 1
      /\ pass' = [pass EXCEPT ![p] = NoPass]
      /\ pending' = [pending EXCEPT ![p] = NoCommand]
      /\ memory' = [memory EXCEPT ![p] = attempt]
      /\ UNCHANGED <<order, intent, attempt, owner, passes>>
  BY DEF Restart
<1>2. disruptions' \in 0 .. MaxDisruptions
  BY <1>1, CopiesForm, ResidualConstants
<1> QED BY <1>1, <1>2, CopiesForm, ProjectingStep

-----------------------------------------------------------------------------
(***************************************************************************)
(* The broker, the reconciliation and the lease keep the invariant.        *)
(***************************************************************************)
LEMMA OutsideStep ==
  ASSUME IInv, JournalKept, UNCHANGED <<attempt, memory, pending, pass, passes>>,
         owner' \in Procs, disruptions' \in 0 .. MaxDisruptions, \A q \in Procs : PostKept(q)
  PROVE  Kept
<1>1. SystemTypeOK /\ JournalInv /\ PostInv /\ PassInv /\ BooksInv
  BY DEF IInv
<1>2. SystemTypeOK'
  BY <1>1 DEF SystemTypeOK, JournalKept, JournalType
<1>3. PostInv'
  <2>1. \A q \in Procs : At(q, "post")' =>
          At(q, "post") /\ Leg(q)' = Leg(q) /\ Gen(q)' = Gen(q)
    BY DEF At, Leg, Gen
  <2>2. ASSUME NEW q \in Procs, NEW k \in Procs, q # k, At(q, "post")', At(k, "post")'
        PROVE  (Leg(q) # Leg(k) \/ Gen(q) # Gen(k))'
    BY <1>1, <2>1, <2>2 DEF PostInv
  <2>3. ASSUME NEW q \in Procs, At(q, "post")'
        PROVE  /\ (intent[Leg(q)][Gen(q)].state = "SUBMITTING")'
               /\ (order[Leg(q)][Gen(q)].state = "none")'
    <3>1. /\ intent[Leg(q)][Gen(q)].state = "SUBMITTING"
          /\ order[Leg(q)][Gen(q)].state = "none"
      BY <1>1, <2>1, <2>3 DEF PostInv
    <3>2. /\ intent'[Leg(q)][Gen(q)] = intent[Leg(q)][Gen(q)]
          /\ order'[Leg(q)][Gen(q)] = order[Leg(q)][Gen(q)]
      BY <2>1, <2>3 DEF PostKept
    <3> QED BY <2>1, <2>3, <3>1, <3>2
  <2> QED BY <2>2, <2>3 DEF PostInv
<1>4. PassInv'
  BY <1>1, PassStays DEF PassInv
<1>5. BooksInv'
  BY <1>1, BooksFrame
<1> QED BY <1>2, <1>3, <1>4, <1>5 DEF IInv, JournalKept, Kept

\* A step at a row whose order exists is no business of a process that posts.
LEMMA AwayFromPosts ==
  ASSUME IInv, NEW l \in Legs, NEW g \in Generations, order[l][g].state # "none",
         \A k \in Legs, n \in Generations : k # l \/ n # g =>
           intent'[k][n] = intent[k][n] /\ order'[k][n] = order[k][n]
  PROVE  \A q \in Procs : PostKept(q)
BY PassForms DEF IInv, PostInv, PostKept

LEMMA LeaseMovesKeeps == ASSUME IInv, LeaseMoves PROVE Kept
<1>1. /\ disruptions < MaxDisruptions /\ disruptions' = disruptions + 1 /\ owner' \in Procs
      /\ UNCHANGED <<order, intent, attempt, memory, pending, pass, passes>>
  BY DEF LeaseMoves
<1>2. disruptions' \in 0 .. MaxDisruptions
  BY <1>1, ResidualConstants DEF IInv, SystemTypeOK
<1>3. JournalKept /\ \A q \in Procs : PostKept(q)
  BY <1>1, JournalStays DEF IInv, PostKept
<1> QED BY <1>1, <1>2, <1>3, OutsideStep

LEMMA FillKeeps ==
  ASSUME IInv, NEW l \in Legs, NEW g \in Generations, Fill(l, g) PROVE Kept
<1> DEFINE o == order[l][g]
           row == intent[l][g]
           n == o.filled + 1
           next == [state |-> IF n = row.quantity THEN "COMPLETE" ELSE "live", filled |-> n]
<1>1. /\ o.state = "live" /\ order' = [order EXCEPT ![l][g] = next]
      /\ UNCHANGED <<intent, attempt, memory, pending, pass, owner, passes, disruptions>>
  BY DEF Fill
<1>2. /\ SystemTypeOK /\ JournalInv /\ o \in BrokerOrder /\ row \in IntentRow
      /\ RowInv(row, o, Quantity[l]) /\ Quantity[l] \in Nat
  BY QuantityType DEF IInv, SystemTypeOK, JournalInv
<1>3. o.filled \in Nat /\ row.quantity \in Nat /\ row.quantity \in 1 .. Quantity[l]
      /\ o.filled < row.quantity /\ row.state = "SUBMITTING"
  BY <1>1, <1>2 DEF RowInv, BrokerOrder, IntentRow, Terminal
<1>4. next \in BrokerOrder
  BY <1>3 DEF BrokerOrder, Terminal
<1>5. RowInv(row, next, Quantity[l])
  BY <1>2, <1>3 DEF RowInv, Terminal, IntentRow
<1>6. o.filled <= next.filled /\ o.state \notin Terminal /\ next.state # "none"
  BY <1>1, <1>3 DEF Terminal
<1> HIDE DEF next
<1>7. /\ JournalKept
      /\ \A k \in Legs, m \in Generations : k # l \/ m # g => order'[k][m] = order[k][m]
  BY <1>1, <1>2, <1>4, <1>5, <1>6, OrderMoves
<1>8. \A q \in Procs : PostKept(q)
  BY <1>1, <1>7, AwayFromPosts
<1>9. owner' \in Procs /\ disruptions' \in 0 .. MaxDisruptions
  BY <1>1, <1>2 DEF SystemTypeOK
<1> QED BY <1>1, <1>7, <1>8, <1>9, OutsideStep

LEMMA EndKeeps ==
  ASSUME IInv, NEW l \in Legs, NEW g \in Generations, End(l, g) PROVE Kept
<1> DEFINE o == order[l][g]
           row == intent[l][g]
<1>1. /\ o.state = "live"
      /\ UNCHANGED <<intent, attempt, memory, pending, pass, owner, passes, disruptions>>
  BY DEF End
<1>2. PICK s \in {"CANCELLED"} \cup (IF o.filled = 0 THEN {"REJECTED"} ELSE {}) :
        order' = [order EXCEPT ![l][g].state = s]
  BY DEF End
<1> DEFINE next == [o EXCEPT !.state = s]
<1>3. /\ SystemTypeOK /\ JournalInv /\ o \in BrokerOrder /\ row \in IntentRow
      /\ RowInv(row, o, Quantity[l])
  BY DEF IInv, SystemTypeOK, JournalInv
<1>4. order' = [order EXCEPT ![l][g] = next]
  BY <1>2, <1>3 DEF SystemTypeOK
<1>5. /\ s \in Terminal /\ (s = "REJECTED" => o.filled = 0) /\ o.filled \in Nat
      /\ row.state = "SUBMITTING"
  BY <1>1, <1>2, <1>3 DEF Terminal, BrokerOrder, RowInv
<1>6. next \in BrokerOrder /\ next.state = s /\ next.filled = o.filled
  BY <1>3, <1>5 DEF BrokerOrder
<1> HIDE DEF next
<1>7. RowInv(row, next, Quantity[l])
  BY <1>3, <1>5, <1>6 DEF RowInv, Terminal
<1>8. o.filled <= next.filled /\ o.state \notin Terminal /\ next.state # "none"
  BY <1>1, <1>5, <1>6 DEF Terminal
<1>9. /\ JournalKept
      /\ \A k \in Legs, m \in Generations : k # l \/ m # g => order'[k][m] = order[k][m]
  BY <1>1, <1>3, <1>4, <1>6, <1>7, <1>8, OrderMoves
<1>10. \A q \in Procs : PostKept(q)
  BY <1>1, <1>9, AwayFromPosts
<1>11. owner' \in Procs /\ disruptions' \in 0 .. MaxDisruptions
  BY <1>1, <1>3 DEF SystemTypeOK
<1> QED BY <1>1, <1>9, <1>10, <1>11, OutsideStep

LEMMA ReconcileKeeps ==
  ASSUME IInv, NEW l \in Legs, NEW g \in Generations, Reconcile(l, g) PROVE Kept
<1> DEFINE row == Recorded(intent[l][g], order[l][g])
<1>1. /\ order[l][g].state # "none" /\ intent' = [intent EXCEPT ![l][g] = row]
      /\ UNCHANGED <<order, attempt, memory, pending, pass, owner, passes, disruptions>>
  BY DEF Reconcile
<1>2. SystemTypeOK /\ JournalInv
  BY DEF IInv
<1>3. /\ row \in IntentRow /\ RowInv(row, order[l][g], Quantity[l])
      /\ row.state # "none" /\ row.quantity = intent[l][g].quantity
      /\ row.price = intent[l][g].price /\ ~Local(l, g) /\ Made(l, g)
  BY <1>1, <1>2, RecordedForm
<1> HIDE DEF row
<1>4. /\ JournalKept
      /\ \A k \in Legs, m \in Generations : k # l \/ m # g => intent'[k][m] = intent[k][m]
  BY <1>1, <1>2, <1>3, RowMoves
<1>5. \A q \in Procs : PostKept(q)
  BY <1>1, <1>4, AwayFromPosts
<1>6. owner' \in Procs /\ disruptions' \in 0 .. MaxDisruptions
  BY <1>1, <1>2 DEF SystemTypeOK
<1> QED BY <1>1, <1>4, <1>5, <1>6, OutsideStep

LEMMA InitHolds == Init => IInv
<1> SUFFICES ASSUME Init PROVE IInv
  OBVIOUS
<1>1. /\ order = [l \in Legs |-> [g \in Generations |-> NoOrder]]
      /\ intent = [l \in Legs |-> [g \in Generations |-> NoIntent]]
      /\ pending = [p \in Procs |-> NoCommand] /\ pass = [p \in Procs |-> NoPass]
      /\ memory = [p \in Procs |-> attempt]
      /\ owner \in Procs /\ passes = 0 /\ disruptions = 0
      /\ attempt = [version |-> 0,
                    residual |-> [l \in Legs |-> [Gone EXCEPT !.quantity = Quantity[l]]]]
  BY DEF Init
<1>2. NoOrder \in BrokerOrder /\ NoIntent \in IntentRow
  BY DEF NoOrder, BrokerOrder, NoIntent, IntentRow
<1>3. ASSUME NEW l \in Legs
      PROVE  LET r == attempt.residual[l] IN
             /\ r \in ResidualLeg /\ r.quantity = Quantity[l] /\ r.generation = 1 /\ Watermark(r) = 0
  <2> DEFINE r == [quantity |-> Quantity[l], generation |-> 1, accounted |-> Absent, rejections |-> 0]
  <2>1. attempt.residual[l] = r
    BY <1>1 DEF Gone
  <2>2. r \in ResidualLeg /\ Watermark(r) = 0 /\ r.quantity = Quantity[l] /\ r.generation = 1
    BY QuantityType DEF ResidualLeg, Watermark
  <2> QED BY <2>1, <2>2
<1>4. attempt \in Residuals
  <2>1. attempt.residual \in [Legs -> ResidualLeg] /\ attempt.version = 0
        /\ attempt = [version |-> attempt.version, residual |-> attempt.residual]
    BY <1>1, <1>3
  <2> QED BY <2>1 DEF Residuals
<1>5. SystemTypeOK
  <2>1. /\ order \in [Legs -> [Generations -> BrokerOrder]]
        /\ intent \in [Legs -> [Generations -> IntentRow]]
    BY <1>1, <1>2
  <2>2. /\ memory \in [Procs -> Residuals]
        /\ pending \in [Procs -> {NoCommand} \cup ProjectionCommand]
        /\ pass \in [Procs -> {NoPass} \cup AtLeg \cup InLeg]
    BY <1>1, <1>4
  <2>3. passes \in 0 .. MaxPasses /\ disruptions \in 0 .. MaxDisruptions
    BY <1>1, ResidualConstants
  <2> QED BY <1>1, <1>4, <2>1, <2>2, <2>3 DEF SystemTypeOK
<1>6. JournalInv
  BY <1>1, QuantityType DEF JournalInv, RowInv, NoIntent, NoOrder, Terminal
<1>7. PostInv /\ PassInv
  BY <1>1 DEF PostInv, PassInv, PassOf, At, NoPass
<1>8. BooksInv
  <2>1. ASSUME NEW l \in Legs PROVE BooksOf(l, attempt.residual[l])
    <3> DEFINE r == attempt.residual[l]
    <3>1. order[l] \in Fills(Quantity[l]) /\ Quantity[l] \in Nat /\ Quantity[l] > 0
      BY <1>5, <1>6, OrdersAreFills, QuantityType
    <3>2. r.quantity = Quantity[l] /\ r.generation = 1 /\ Watermark(r) = 0
      BY <1>3
    <3>3. Prior(order[l], r.generation) \in Nat
      BY <3>1, <3>2, PriorFacts
    <3>4. FilledAt(order[l], r.generation) \in Nat
      BY <3>1 DEF FilledAt, Fills, BrokerOrder
    <3> HIDE DEF r
    <3> QED BY <3>1, <3>2, <3>3, <3>4 DEF BooksOf, Books, Smaller, r
  <2> QED BY <1>1, <2>1 DEF BooksInv
<1> QED BY <1>5, <1>6, <1>7, <1>8 DEF IInv

LEMMA StepKeeps == ASSUME IInv, [Next]_vars PROVE Kept
<1>1. ASSUME NEW p \in Procs, OnePass(p) PROVE Kept
  BY <1>1, TickKeeps, HoldCoverKeeps, ReplayKeeps, WithholdKeeps, SubmitKeeps, CreateKeeps,
     CreateFailsKeeps, ClaimKeeps, RefuseKeeps, PostKeeps, AnswerKeeps, AnswerNotRecordedKeeps,
     NothingToProjectKeeps, ProjectKeeps, RetryKeeps DEF OnePass
<1>2. ASSUME NEW p \in Procs, Restart(p) PROVE Kept
  BY <1>2, RestartKeeps
<1>3. CASE LeaseMoves
  BY <1>3, LeaseMovesKeeps
<1>4. ASSUME NEW l \in Legs, NEW g \in Generations, Fill(l, g) \/ End(l, g) \/ Reconcile(l, g)
      PROVE  Kept
  BY <1>4, FillKeeps, EndKeeps, ReconcileKeeps
<1>5. CASE UNCHANGED vars
  <2>1. /\ UNCHANGED <<order, intent, attempt, memory, pending, pass, owner, passes, disruptions>>
        /\ JournalKept /\ \A q \in Procs : PostKept(q)
        /\ owner' \in Procs /\ disruptions' \in 0 .. MaxDisruptions
    BY <1>5, JournalStays DEF vars, IInv, SystemTypeOK, PostKept
  <2> QED BY <2>1, OutsideStep
<1> QED BY <1>1, <1>2, <1>3, <1>4, <1>5 DEF Next

THEOREM Invariance == Spec => []IInv
<1>1. IInv /\ [Next]_vars => IInv'
  BY StepKeeps DEF Kept
<1> QED BY <1>1, InitHolds, PTL DEF Spec

-----------------------------------------------------------------------------
\* The history of conflicts has its type, and only grows.
Histories == [Legs -> SUBSET Generations]

Remembered == conflicts' \in Histories /\ \A l \in Legs : conflicts[l] \subseteq conflicts'[l]

LEMMA ConflictsGrow ==
  ASSUME IInv, conflicts \in Histories, [Next]_vars
  PROVE  Remembered
<1>1. CASE UNCHANGED conflicts
  BY <1>1 DEF Remembered
<1>2. ASSUME NEW p \in Procs, Create(p) PROVE Remembered
  <2>1. \/ UNCHANGED conflicts
        \/ conflicts' = [conflicts EXCEPT ![Leg(p)] = @ \cup {Gen(p)}]
    BY <1>2 DEF Create
  <2>2. At(p, "create")
    BY <1>2 DEF Create
  <2>3. Leg(p) \in Legs /\ Gen(p) \in Generations
    BY <2>2, WorkFacts
  <2> QED BY <1>1, <2>1, <2>3 DEF Remembered, Histories
<1>3. ASSUME NEW p \in Procs, OnePass(p), ~Create(p) PROVE UNCHANGED conflicts
  BY <1>3 DEF OnePass, Tick, HoldCover, Replay, Withhold, Submit, CreateFails, Claim,
     Refuse, Post, Answer, AnswerNotRecorded, NothingToProject, Project, Retry
<1>4. CASE \/ \E p \in Procs : Restart(p)
           \/ LeaseMoves
           \/ \E l \in Legs, g \in Generations : Fill(l, g) \/ End(l, g) \/ Reconcile(l, g)
           \/ UNCHANGED vars
  BY <1>1, <1>4 DEF Restart, LeaseMoves, Fill, End, Reconcile, vars
<1> QED BY <1>1, <1>2, <1>3, <1>4 DEF Next

LEMMA HistoryHolds == Spec => [](IInv /\ conflicts \in Histories)
<1>1. Init => conflicts \in Histories
  BY DEF Init, Histories
<1>2. IInv /\ conflicts \in Histories /\ [Next]_vars => (conflicts \in Histories)'
  BY ConflictsGrow DEF Remembered
<1> QED BY <1>1, <1>2, Invariance, PTL DEF Spec

\* Type correctness of ResidualFlatten.
THEOREM TypeCorrect == Spec => []TypeOK
<1>1. IInv /\ conflicts \in Histories => TypeOK
  BY DEF IInv, TypeOK, Histories
<1> QED BY <1>1, HistoryHolds, PTL

-----------------------------------------------------------------------------

LEMMA ReducedIsFilled ==
  ASSUME NEW l \in Legs PROVE Reduced(l) = Filled(order[l], Generations)
BY DEF Reduced, Filled

LEMMA BooksHoldExposure ==
  ASSUME IInv, NEW l \in Legs
  PROVE  /\ attempt.residual[l].quantity >= Exposure(l)
         /\ \A p \in Procs : Residual(p, l).quantity >= Exposure(l)
<1>1. /\ order[l] \in Fills(Quantity[l]) /\ Quantity[l] \in Nat
  BY OrdersAreFills DEF IInv
<1>2. ASSUME NEW r \in ResidualLeg, BooksOf(l, r) PROVE r.quantity >= Exposure(l)
  BY <1>1, <1>2, BooksCover, ReducedIsFilled DEF BooksOf, Exposure
<1>3. /\ attempt.residual[l] \in ResidualLeg /\ BooksOf(l, attempt.residual[l])
      /\ \A p \in Procs : Residual(p, l) \in ResidualLeg /\ BooksOf(l, Residual(p, l))
  BY MemoryBooks, MemoryForm DEF IInv, BooksInv, SystemTypeOK, Residuals
<1> QED BY <1>2, <1>3

\* NeverUnderstated: the durable residual of a leg is never smaller than what
\* is left of it at the broker (flattenResidual, applyBoxExecutionAttemptProjection).
THEOREM NothingUnderstated == Spec => []NeverUnderstated
<1>1. IInv => NeverUnderstated
  BY BooksHoldExposure DEF NeverUnderstated
<1> QED BY <1>1, Invariance, PTL

-----------------------------------------------------------------------------
(***************************************************************************)
(* The cover.                                                              *)
(***************************************************************************)
\* Only a POST gives the broker an order, under the lease.
LEMMA ReleasedByPost ==
  ASSUME IInv, [Next]_vars, NEW l \in Legs, Released(l)
  PROVE  At(owner, "post") /\ Leg(owner) = l
<1>1. PICK g \in Generations : order[l][g].state = "none" /\ order'[l][g].state # "none"
  BY DEF Released
<1>2. order' # order
  BY <1>1
<1>3. ASSUME NEW p \in Procs, Post(p) PROVE p = owner /\ At(p, "post") /\ Leg(p) = l
  <2>1. p = owner /\ At(p, "post")
        /\ order' = [order EXCEPT ![Leg(p)][Gen(p)].state = "live"]
    BY <1>2, <1>3 DEF Post
  <2>2. Leg(p) \in Legs /\ Gen(p) \in Generations /\ SystemTypeOK
    BY <1>3, WorkFacts DEF Post
  <2>3. Leg(p) # l => order'[l] = order[l]
    BY <2>1, <2>2 DEF SystemTypeOK
  <2> QED BY <1>1, <2>1, <2>3
<1>4. ASSUME NEW k \in Legs, NEW n \in Generations, Fill(k, n) \/ End(k, n) PROVE FALSE
  <2>1. order \in [Legs -> [Generations -> BrokerOrder]]
    BY DEF IInv, SystemTypeOK
  <2>2. order[k][n].state = "live"
    BY <1>4 DEF Fill, End
  <2>3. CASE k = l /\ n = g
    BY <1>1, <2>2, <2>3
  <2>4. CASE k # l \/ n # g
    <3>1. \/ \E o : order' = [order EXCEPT ![k][n] = o]
          \/ \E s : order' = [order EXCEPT ![k][n].state = s]
      BY <1>4 DEF Fill, End
    <3>2. order'[l][g] = order[l][g]
      BY <2>1, <2>4, <3>1
    <3> QED BY <1>1, <3>2
  <2> QED BY <2>3, <2>4
<1>5. ASSUME NEW p \in Procs, OnePass(p), ~Post(p) PROVE FALSE
  BY <1>2, <1>5 DEF OnePass, Tick, HoldCover, Replay, Withhold, Submit, Create, CreateFails, Claim,
     Refuse, Answer, AnswerNotRecorded, NothingToProject, Project, Retry
<1>6. ASSUME NEW p \in Procs, Restart(p) PROVE FALSE
  BY <1>2, <1>6 DEF Restart
<1>7. ~LeaseMoves
  BY <1>2 DEF LeaseMoves
<1>8. \A k \in Legs, n \in Generations : ~Reconcile(k, n)
  BY <1>2 DEF Reconcile
<1>9. ~UNCHANGED vars
  BY <1>2 DEF vars
<1> QED BY <1>3, <1>4, <1>5, <1>6, <1>7, <1>8, <1>9 DEF Next

\* A short that a pass takes for flattened is, unless its watermark is up.
LEMMA FlattenedIsFlat ==
  ASSUME IInv, NEW p \in Procs, NEW s \in Shorts,
         Residual(p, s).quantity > 0 =>
           /\ pass[p] # NoPass /\ Decided(p, s)
           /\ pass[p].results[s].disposition = "flattened",
         ~(Residual(p, s).accounted > 0)
  PROVE  Exposure(s) <= 0
<1> DEFINE r == Residual(p, s)
           h == order[s]
           q == Quantity[s]
<1>1. s \in Legs
  BY DEF Legs
<1>2. /\ SystemTypeOK /\ JournalInv /\ PassOf(p) /\ h \in Fills(q) /\ q \in Nat
      /\ r \in ResidualLeg /\ BooksOf(s, r) /\ Reduced(s) = Filled(h, Generations)
  BY <1>1, OrdersAreFills, MemoryForm, MemoryBooks, ReducedIsFilled DEF IInv, PassInv
<1>3. /\ r.quantity \in Nat /\ r.generation \in Nat \ {0} /\ Watermark(r) = 0
  <2>1. r.quantity \in Nat /\ r.generation \in Nat \ {0} /\ r.accounted \in Nat \cup {Absent}
    BY <1>2 DEF ResidualLeg
  <2> QED BY <2>1 DEF Watermark
<1>4. Filled(h, Generations) \in Nat
  BY <1>2, FilledType
<1>5. CASE r.quantity = 0
  BY <1>2, <1>4, <1>5 DEF BooksOf, Books, Exposure
<1>6. CASE r.quantity > 0
  <2> DEFINE g == pass[p].results[s].generation
  <2>1. /\ pass[p].results[s] \in Decision /\ Sound(r, s, pass[p].results[s])
        /\ pass[p].results[s].disposition = "flattened"
    BY <1>1, <1>2, <1>6, DecidedForm DEF PassOf
  <2>2. g \in Generations /\ g \in Nat /\ r.generation <= g /\ h[g].filled >= r.quantity
    BY <1>3, <2>1, MaxGenerationType DEF Decision, Sound, Reaches
  <2> HIDE DEF g, h, q, r
  <2>3. /\ Prior(h, r.generation) \in Nat /\ Prior(h, g) \in Nat
        /\ Prior(h, r.generation) <= Prior(h, g)
        /\ Prior(h, g + 1) = Prior(h, g) + h[g].filled
        /\ Prior(h, g + 1) <= Filled(h, Generations)
    <3>1. g + 1 \in Nat
      BY <2>2
    <3> QED BY <1>2, <1>3, <2>2, <3>1, PriorFacts
  <2>4. h[g].filled \in Nat
    BY <1>2, <2>2 DEF Fills, BrokerOrder
  <2>5. q - r.quantity <= Prior(h, r.generation)
    <3>1. FilledAt(h, r.generation) \in Nat
      BY <1>2 DEF FilledAt, Fills, BrokerOrder
    <3> QED BY <1>2, <1>3, <1>6, <2>3, <3>1 DEF BooksOf, Books, Smaller, h, q
  <2>6. q <= Filled(h, Generations)
    BY <1>2, <1>3, <1>4, <2>2, <2>3, <2>4, <2>5
  <2> QED BY <1>2, <1>4, <2>6 DEF Exposure, h, q
<1> QED BY <1>3, <1>5, <1>6

\* CoverHeldUnlessCredited: no order for a long goes out while a short is open
\* at the broker, unless the short's watermark is up (flattenResidual).
THEOREM CoverIsHeld == Spec => CoverHeldUnlessCredited
<1> DEFINE Held == \A l \in Longs : Released(l) =>
                     \A s \in Shorts : Exposure(s) <= 0 \/ memory[owner].residual[s].accounted > 0
<1>1. IInv /\ [Next]_vars => Held
  <2> SUFFICES ASSUME IInv, [Next]_vars, NEW l \in Longs, Released(l), NEW s \in Shorts,
                      ~(memory[owner].residual[s].accounted > 0)
               PROVE  Exposure(s) <= 0
    OBVIOUS
  <2>1. l \in Legs /\ owner \in Procs
    BY DEF Legs, IInv, SystemTypeOK
  <2>2. At(owner, "post") /\ Leg(owner) = l
    BY <2>1, ReleasedByPost
  <2>3. ShortsSettled(owner) /\ pass[owner] # NoPass
    BY <2>1, <2>2, WorkFacts
  <2>4. Residual(owner, s).quantity > 0 =>
          Decided(owner, s) /\ pass[owner].results[s].disposition = "flattened"
    BY <2>3 DEF ShortsSettled, Outstanding
  <2> QED BY <2>1, <2>3, <2>4, FlattenedIsFlat DEF Residual
<1> QED BY <1>1, Invariance, PTL DEF Spec, CoverHeldUnlessCredited

-----------------------------------------------------------------------------
(***************************************************************************)
(* The versions: how one state of a residual follows from an older one.    *)
(***************************************************************************)
\* a is r after some credit; h is the record of the leg's orders.
Follows(h, r, a) ==
  /\ a.quantity <= r.quantity
  /\ a.quantity > 0 => r.generation <= a.generation
  /\ a.quantity # r.quantity =>
       \E g \in Generations : g >= r.generation /\ h[g].filled > 0

FollowsOn(l, r, a) == Follows(order[l], r, a)

\* The version of a projection names one state of the residual; what a process
\* holds in memory is that state or an older one.
VersionInv ==
  \A p \in Procs :
    /\ memory[p].version <= attempt.version
    /\ memory[p].version = attempt.version => memory[p].residual = attempt.residual
    /\ \A l \in Legs : FollowsOn(l, memory[p].residual[l], attempt.residual[l])
    /\ pending[p] # NoCommand =>
         /\ pending[p].version = memory[p].version
         /\ pending[p].from = memory[p].residual
         /\ \A l \in Legs : FollowsOn(l, pending[p].from[l], pending[p].to[l])

LEMMA FollowsSelf ==
  ASSUME NEW h, NEW r \in ResidualLeg PROVE Follows(h, r, r)
BY ResidualTypes DEF Follows

LEMMA FollowsFollows ==
  ASSUME NEW h, NEW r \in ResidualLeg, NEW a \in ResidualLeg, NEW b \in ResidualLeg,
         Follows(h, r, a), Follows(h, a, b)
  PROVE  Follows(h, r, b)
<1>1. /\ r.quantity \in Nat /\ a.quantity \in Nat /\ b.quantity \in Nat
      /\ r.generation \in Nat /\ a.generation \in Nat /\ b.generation \in Nat
  BY ResidualTypes
<1>2. \A g \in Generations : g \in Nat
  BY MaxGenerationType
<1>3. b.quantity <= r.quantity /\ (b.quantity > 0 => r.generation <= b.generation)
  BY <1>1 DEF Follows
<1>4. ASSUME b.quantity # r.quantity
      PROVE  \E g \in Generations : g >= r.generation /\ h[g].filled > 0
  <2>1. CASE a.quantity # r.quantity
    BY <2>1 DEF Follows
  <2>2. CASE a.quantity = r.quantity
    <3>1. b.quantity # a.quantity /\ a.quantity > 0
      BY <1>1, <1>4, <2>2 DEF Follows
    <3>2. PICK g \in Generations : g >= a.generation /\ h[g].filled > 0
      BY <3>1 DEF Follows
    <3>3. g >= r.generation
      BY <1>1, <1>2, <3>1, <3>2 DEF Follows
    <3> QED BY <3>2, <3>3
  <2> QED BY <2>1, <2>2
<1> QED BY <1>3, <1>4 DEF Follows

LEMMA FollowsStays ==
  ASSUME SystemTypeOK, JournalKept, NEW l \in Legs, NEW r, NEW a, FollowsOn(l, r, a)
  PROVE  Follows(order'[l], r, a)
<1>1. \A g \in Generations : /\ order[l][g].filled \in Nat /\ order'[l][g].filled \in Nat
                             /\ order[l][g].filled <= order'[l][g].filled
  BY DEF SystemTypeOK, JournalKept, JournalType, Moves, BrokerOrder
<1>2. \A g \in Generations : order[l][g].filled > 0 => order'[l][g].filled > 0
  BY <1>1
<1> QED BY <1>2 DEF FollowsOn, Follows

\* What carryResidualForward makes of r follows from it.
LEMMA CarryForwardFollows ==
  ASSUME SystemTypeOK, NEW l \in Legs, NEW r \in ResidualLeg, NEW result \in Decision,
         r.quantity > 0, Sound(r, l, result)
  PROVE  FollowsOn(l, r, CarryForward(r, result))
<1> DEFINE next == CarryForward(r, result)
           g == result.generation
<1>1. PICK credit \in 0 .. r.quantity :
        /\ next \in ResidualLeg /\ next.quantity = r.quantity - credit
        /\ credit > 0 => credit <= result.order.filled -
                            (IF result.generation = r.generation THEN Watermark(r) ELSE 0)
        /\ next.quantity > 0 => next.generation \in {g, g + 1}
  BY CarryForwardEffect
<1>2. /\ r.quantity \in Nat /\ r.generation \in Nat /\ Watermark(r) \in Nat
      /\ g \in Generations /\ g \in Nat /\ result.order.filled \in Nat
      /\ order[l][g].filled \in Nat
  <2>1. g \in Generations /\ result.order.filled \in Nat
    BY DEF Decision, Seen
  <2>2. order[l][g] \in BrokerOrder
    BY <2>1 DEF SystemTypeOK
  <2> QED BY <2>1, <2>2, ResidualTypes, MaxGenerationType DEF BrokerOrder
<1>3. g >= r.generation /\ result.order.filled <= order[l][g].filled
  BY DEF Sound, Reaches
<1> HIDE DEF next, g
<1>4. next.quantity # r.quantity => order[l][g].filled > 0
  BY <1>1, <1>2, <1>3
<1>5. next.quantity > 0 => r.generation <= next.generation
  BY <1>1, <1>2, <1>3
<1> QED BY <1>1, <1>2, <1>3, <1>4, <1>5 DEF FollowsOn, Follows, next

LEMMA CommandFollows ==
  ASSUME IInv, NEW p \in Procs, Finished(p), NEW l \in Legs
  PROVE  FollowsOn(l, memory[p].residual[l], Command(p).to[l])
<1> DEFINE r == Residual(p, l)
           result == pass[p].results[l]
<1>1. SystemTypeOK /\ r \in ResidualLeg /\ r.quantity \in Nat
  BY MemoryForm, ResidualTypes DEF IInv
<1>2. CASE r.quantity > 0
  <2>1. Command(p).to[l] = CarryForward(r, result) /\ result \in Decision /\ Sound(r, l, result)
    BY <1>2, CommandForm
  <2> QED BY <1>1, <1>2, <2>1, CarryForwardFollows DEF Residual
<1>3. CASE r.quantity = 0
  <2>1. Command(p).to[l] = Gone
    BY <1>3, CommandForm
  <2> QED BY <1>3, <2>1, GoneForm DEF FollowsOn, Follows, Residual
<1> QED BY <1>1, <1>2, <1>3

\* The command p has made at the end of its pass, or retries.
Sent(p, c) ==
  \/ Finished(p) /\ c = Command(p)
  \/ pending[p] # NoCommand /\ c = pending[p]

\* A step of p that may touch the durable residual, or p's copy of it.
CopyStep(p) ==
  /\ UNCHANGED <<order, intent, conflicts>>
  /\ attempt' = attempt \/ \E c : Sent(p, c) /\ attempt' = Apply(c)
  /\ \/ /\ memory' = [memory EXCEPT ![p] = attempt']
        /\ pending' = [pending EXCEPT ![p] = NoCommand]
     \/ \E c : /\ Sent(p, c) /\ memory' = memory
               /\ pending' = [pending EXCEPT ![p] = c]

LEMMA CopiesMove ==
  ASSUME IInv, [Next]_vars
  PROVE  UNCHANGED <<attempt, memory, pending>> \/ \E p \in Procs : CopyStep(p)
<1>1. ASSUME NEW p \in Procs, Project(p) PROVE CopyStep(p)
  <2>1. /\ Finished(p) /\ UNCHANGED <<order, intent, conflicts>>
        /\ attempt' \in {attempt, Apply(Command(p))}
        /\ \/ memory' = [memory EXCEPT ![p] = attempt'] /\ UNCHANGED pending
           \/ UNCHANGED memory /\ pending' = [pending EXCEPT ![p] = Command(p)]
    BY <1>1 DEF Project
  <2>2. pending = [pending EXCEPT ![p] = NoCommand]
    <3>1. At(p, "leg") /\ SystemTypeOK /\ PassOf(p)
      BY <2>1 DEF Finished, At, IInv, PassInv
    <3>2. pending[p] = NoCommand
      BY <3>1, PassForms DEF PassOf
    <3> QED BY <3>1, <3>2 DEF SystemTypeOK
  <2>3. Sent(p, Command(p))
    BY <2>1 DEF Sent
  <2> QED BY <2>1, <2>2, <2>3 DEF CopyStep
<1>2. ASSUME NEW p \in Procs, Retry(p) PROVE CopyStep(p)
  <2>1. pending = [pending EXCEPT ![p] = pending[p]]
    BY DEF IInv, SystemTypeOK
  <2> QED BY <1>2, <2>1 DEF Retry, CopyStep, Sent
<1>3. ASSUME NEW p \in Procs, Restart(p) PROVE CopyStep(p)
  BY <1>3 DEF Restart, CopyStep
<1>4. ASSUME NEW p \in Procs, OnePass(p), ~Project(p), ~Retry(p)
      PROVE  UNCHANGED <<attempt, memory, pending>>
  BY <1>4 DEF OnePass, Tick, HoldCover, Replay, Withhold, Submit, Create, CreateFails, Claim,
     Refuse, Post, Answer, AnswerNotRecorded, NothingToProject
<1>5. ASSUME NEW l \in Legs, NEW g \in Generations, Fill(l, g) \/ End(l, g) \/ Reconcile(l, g)
      PROVE  UNCHANGED <<attempt, memory, pending>>
  BY <1>5 DEF Fill, End, Reconcile
<1>6. CASE LeaseMoves
  BY <1>6 DEF LeaseMoves
<1>7. CASE UNCHANGED vars
  BY <1>7 DEF vars
<1> QED BY <1>1, <1>2, <1>3, <1>4, <1>5, <1>6, <1>7 DEF Next

LEMMA SentFacts ==
  ASSUME IInv, VersionInv, NEW p \in Procs, NEW c, Sent(p, c)
  PROVE  /\ c \in ProjectionCommand
         /\ c.version = memory[p].version /\ c.from = memory[p].residual
         /\ \A l \in Legs : FollowsOn(l, memory[p].residual[l], c.to[l])
         /\ c # NoCommand
<1>1. CASE Finished(p) /\ c = Command(p)
  BY <1>1, CommandForm, CommandFollows DEF NoCommand, ProjectionCommand
<1>2. CASE pending[p] # NoCommand /\ c = pending[p]
  BY <1>2 DEF VersionInv, IInv, SystemTypeOK
<1> QED BY <1>1, <1>2 DEF Sent

LEMMA AttemptMoves ==
  ASSUME IInv, VersionInv, NEW p \in Procs, CopyStep(p)
  PROVE  \/ attempt' = attempt
         \/ \E c : /\ Sent(p, c) /\ c.version = attempt.version
                   /\ memory[p].version = attempt.version
                   /\ memory[p].residual = attempt.residual
                   /\ attempt' = [version |-> attempt.version + 1, residual |-> c.to]
                   /\ attempt'.version = attempt.version + 1 /\ attempt'.residual = c.to
<1> SUFFICES ASSUME attempt' # attempt, NEW c, Sent(p, c), attempt' = Apply(c)
             PROVE  /\ c.version = attempt.version
                    /\ memory[p].version = attempt.version
                    /\ memory[p].residual = attempt.residual
                    /\ attempt' = [version |-> attempt.version + 1, residual |-> c.to]
                    /\ attempt'.version = attempt.version + 1 /\ attempt'.residual = c.to
  BY DEF CopyStep
<1>1. c.version = attempt.version
      /\ attempt' = [version |-> attempt.version + 1, residual |-> c.to]
  BY DEF Apply
<1>2. c.version = memory[p].version
  BY SentFacts
<1> QED BY <1>1, <1>2 DEF VersionInv

LEMMA AttemptFollows ==
  ASSUME IInv, VersionInv, NEW p \in Procs, CopyStep(p), attempt' \in Residuals
  PROVE  /\ attempt'.version >= attempt.version
         /\ attempt'.version = attempt.version => attempt' = attempt
         /\ \A l \in Legs : FollowsOn(l, attempt.residual[l], attempt'.residual[l])
<1>1. attempt.version \in Nat /\ \A l \in Legs : attempt.residual[l] \in ResidualLeg
  BY DEF IInv, SystemTypeOK, Residuals
<1>2. CASE attempt' = attempt
  BY <1>1, <1>2, FollowsSelf DEF FollowsOn
<1>3. CASE attempt' # attempt
  <2>1. PICK c : /\ Sent(p, c) /\ memory[p].residual = attempt.residual
                 /\ attempt'.version = attempt.version + 1 /\ attempt'.residual = c.to
    BY <1>3, AttemptMoves
  <2>2. \A l \in Legs : FollowsOn(l, memory[p].residual[l], c.to[l])
    BY <2>1, SentFacts
  <2> QED BY <1>1, <2>1, <2>2
<1> QED BY <1>2, <1>3

LEMMA VersionsInit == ASSUME Init PROVE VersionInv
<1>1. IInv
  BY InitHolds
<1>2. \A p \in Procs : memory[p] = attempt /\ pending[p] = NoCommand
  BY DEF Init
<1>3. attempt.version \in Nat /\ \A l \in Legs : attempt.residual[l] \in ResidualLeg
  BY <1>1 DEF IInv, SystemTypeOK, Residuals
<1> QED BY <1>2, <1>3, FollowsSelf DEF VersionInv, FollowsOn

LEMMA VersionsKept ==
  ASSUME IInv, VersionInv, [Next]_vars
  PROVE  VersionInv'
<1>1. SystemTypeOK /\ JournalKept /\ SystemTypeOK'
  BY StepKeeps DEF Kept, IInv, JournalKept, JournalType, SystemTypeOK
<1>2. \A l \in Legs : /\ attempt.residual[l] \in ResidualLeg
                      /\ \A p \in Procs : memory[p].residual[l] \in ResidualLeg
                      /\ \A p \in Procs : pending[p] # NoCommand =>
                           pending[p].from[l] \in ResidualLeg /\ pending[p].to[l] \in ResidualLeg
  BY <1>1 DEF SystemTypeOK, Residuals, ProjectionCommand
<1>3. CASE UNCHANGED <<attempt, memory, pending>>
  <2>1. \A l \in Legs, r, a \in ResidualLeg : FollowsOn(l, r, a) => Follows(order'[l], r, a)
    BY <1>1, FollowsStays
  <2> QED BY <1>2, <1>3, <2>1 DEF VersionInv, FollowsOn
<1>4. ASSUME NEW p \in Procs, CopyStep(p) PROVE VersionInv'
  <2>1. order' = order
    BY <1>4 DEF CopyStep
  <2>2. /\ attempt.version \in Nat /\ attempt'.version \in Nat
        /\ \A q \in Procs : memory[q].version \in Nat
    BY <1>1 DEF SystemTypeOK, Residuals
  <2>3. /\ attempt'.version >= attempt.version
        /\ attempt'.version = attempt.version => attempt' = attempt
        /\ \A l \in Legs : /\ attempt'.residual[l] \in ResidualLeg
                           /\ FollowsOn(l, attempt.residual[l], attempt'.residual[l])
    BY <1>1, <1>4, AttemptFollows DEF SystemTypeOK, Residuals
  <2>4. ASSUME NEW q \in Procs, memory'[q] = memory[q]
        PROVE  /\ memory'[q].version <= attempt'.version
               /\ memory'[q].version = attempt'.version => memory'[q].residual = attempt'.residual
               /\ \A l \in Legs : Follows(order'[l], memory'[q].residual[l], attempt'.residual[l])
    <3>1. /\ memory[q].version <= attempt.version
          /\ memory[q].version = attempt.version => memory[q].residual = attempt.residual
          /\ \A l \in Legs : FollowsOn(l, memory[q].residual[l], attempt.residual[l])
      BY DEF VersionInv
    <3>2. ASSUME NEW l \in Legs
          PROVE  Follows(order'[l], memory'[q].residual[l], attempt'.residual[l])
      BY <1>2, <2>1, <2>3, <2>4, <3>1, FollowsFollows DEF FollowsOn
    <3>3. /\ memory'[q].version <= attempt'.version
          /\ memory'[q].version = attempt'.version => memory'[q].residual = attempt'.residual
      BY <2>2, <2>3, <2>4, <3>1
    <3> QED BY <3>2, <3>3
  <2>5. ASSUME NEW q \in Procs, pending'[q] # NoCommand
        PROVE  /\ memory'[q] = memory[q]
               /\ pending'[q].version = memory[q].version
               /\ pending'[q].from = memory[q].residual
               /\ \A l \in Legs : Follows(order'[l], pending'[q].from[l], pending'[q].to[l])
    <3>1. CASE q = p
      <4>1. pending \in [Procs -> {NoCommand} \cup ProjectionCommand]
        BY <1>1 DEF SystemTypeOK
      <4>2. PICK c : Sent(p, c) /\ memory' = memory /\ pending'[p] = c
        BY <1>4, <2>5, <3>1, <4>1 DEF CopyStep
      <4> QED BY <2>1, <3>1, <4>2, SentFacts DEF FollowsOn
    <3>2. CASE q # p
      <4>1. pending'[q] = pending[q] /\ memory'[q] = memory[q]
        BY <1>1, <1>4, <3>2 DEF CopyStep, SystemTypeOK
      <4> QED BY <2>1, <2>5, <4>1 DEF VersionInv, FollowsOn
    <3> QED BY <3>1, <3>2
  <2>6. ASSUME NEW q \in Procs, memory'[q] # memory[q] PROVE memory'[q] = attempt'
    BY <1>1, <1>4, <2>6 DEF CopyStep, SystemTypeOK
  <2>7. ASSUME NEW q \in Procs
        PROVE  /\ memory'[q].version <= attempt'.version
               /\ memory'[q].version = attempt'.version => memory'[q].residual = attempt'.residual
               /\ \A l \in Legs : Follows(order'[l], memory'[q].residual[l], attempt'.residual[l])
    <3>1. CASE memory'[q] = memory[q]
      BY <2>4, <3>1
    <3>2. CASE memory'[q] # memory[q]
      BY <2>2, <2>3, <2>6, <3>2, FollowsSelf
    <3> QED BY <3>1, <3>2
  <2> QED BY <2>5, <2>7 DEF VersionInv, FollowsOn
<1> QED BY <1>3, <1>4, CopiesMove

LEMMA VersionsHold == Spec => [](IInv /\ VersionInv)
<1>1. Init => IInv /\ VersionInv
  BY InitHolds, VersionsInit
<1>2. IInv /\ VersionInv /\ [Next]_vars => (IInv /\ VersionInv)'
  BY StepKeeps, VersionsKept DEF Kept
<1> QED BY <1>1, <1>2, PTL DEF Spec

\* NeverGrows (action property): the durable residual of a leg never grows, and
\* a generation once left is not taken up again while the leg is open, so that a
\* process that lost the race or repeats a projection undoes nothing
\* (applyBoxExecutionAttemptProjection).
NeverGrows ==
  [][\A l \in Legs :
       LET old == attempt.residual[l]  new == attempt'.residual[l] IN
       /\ new.quantity <= old.quantity
       /\ new.quantity > 0 => old.generation <= new.generation]_vars

THEOREM ResidualNeverGrows == Spec => NeverGrows
<1> DEFINE Onward == \A l \in Legs :
             /\ attempt'.residual[l].quantity <= attempt.residual[l].quantity
             /\ attempt'.residual[l].quantity > 0 =>
                  attempt.residual[l].generation <= attempt'.residual[l].generation
<1>1. IInv /\ VersionInv /\ [Next]_vars => Onward
  <2> SUFFICES ASSUME IInv, VersionInv, [Next]_vars, NEW l \in Legs
               PROVE  FollowsOn(l, attempt.residual[l], attempt'.residual[l])
    BY DEF FollowsOn, Follows
  <2>1. attempt' \in Residuals
    BY StepKeeps DEF Kept, IInv, SystemTypeOK
  <2>2. CASE UNCHANGED attempt
    <3>1. attempt.residual[l] \in ResidualLeg
      BY DEF IInv, SystemTypeOK, Residuals
    <3> QED BY <2>2, <3>1, FollowsSelf DEF FollowsOn
  <2>3. ASSUME NEW p \in Procs, CopyStep(p)
        PROVE  FollowsOn(l, attempt.residual[l], attempt'.residual[l])
    BY <2>1, <2>3, AttemptFollows
  <2> QED BY <2>2, <2>3, CopiesMove
<1> QED BY <1>1, VersionsHold, PTL DEF Spec, NeverGrows

-----------------------------------------------------------------------------
\* A projection under way that may still be applied.
Current(p) == pending[p] # NoCommand /\ pending[p].version = attempt.version

LEMMA RowFacts ==
  ASSUME SystemTypeOK, JournalInv, NEW l \in Legs, NEW g \in Generations
  PROVE  /\ order[l][g].filled \in Nat /\ intent[l][g].quantity \in Nat
         /\ order[l][g].filled > 0 => Made(l, g) /\ ~Local(l, g) /\ order[l][g].state # "none"
         /\ Local(l, g) => Made(l, g) /\ order[l][g].state = "none" /\ order[l][g].filled = 0
         /\ order[l][g].state # "none" => Made(l, g) /\ ~Local(l, g)
         /\ order[l][g].state = "REJECTED" => order[l][g].filled = 0
<1>1. /\ order[l][g] \in BrokerOrder /\ intent[l][g] \in IntentRow
      /\ RowInv(intent[l][g], order[l][g], Quantity[l])
  BY DEF SystemTypeOK, JournalInv
<1> QED BY <1>1 DEF BrokerOrder, IntentRow, RowInv, Made, Local, Terminal

\* A projection under way after the step, and still to be applied.
LEMMA PendingIsSent ==
  ASSUME IInv, VersionInv, SystemTypeOK', NEW p \in Procs, CopyStep(p), Current(p)'
  PROVE  \E c : Sent(p, c) /\ c.version = attempt.version /\ pending'[p] = c
<1>1. SystemTypeOK
  BY DEF IInv
<1>2. /\ attempt.version \in Nat /\ attempt'.version \in Nat /\ memory[p].version \in Nat
      /\ memory[p].version <= attempt.version
  BY <1>1 DEF SystemTypeOK, Residuals, VersionInv
<1>3. attempt'.version >= attempt.version
  BY AttemptFollows DEF SystemTypeOK
<1>4. PICK c : Sent(p, c) /\ pending'[p] = c
  <2>1. pending \in [Procs -> {NoCommand} \cup ProjectionCommand]
    BY <1>1 DEF SystemTypeOK
  <2> QED BY <2>1 DEF CopyStep, Current
<1>5. c.version = memory[p].version /\ c.version = attempt'.version
  BY <1>4, SentFacts DEF Current
<1> QED BY <1>2, <1>3, <1>4, <1>5

LEMMA PendingElsewhere ==
  ASSUME IInv, VersionInv, SystemTypeOK', NEW p \in Procs, CopyStep(p), NEW q \in Procs, q # p,
         Current(q)'
  PROVE  Current(q) /\ pending'[q] = pending[q]
<1>1. SystemTypeOK
  BY DEF IInv
<1>2. /\ attempt.version \in Nat /\ attempt'.version \in Nat /\ memory[q].version \in Nat
      /\ memory[q].version <= attempt.version
  BY <1>1 DEF SystemTypeOK, Residuals, VersionInv
<1>3. attempt'.version >= attempt.version
  BY AttemptFollows DEF SystemTypeOK
<1>4. pending'[q] = pending[q]
  BY <1>1 DEF CopyStep, SystemTypeOK
<1>5. /\ pending[q].version = memory[q].version /\ pending[q].version = attempt'.version
      /\ pending[q] # NoCommand
  BY <1>4 DEF Current, VersionInv
<1> QED BY <1>2, <1>3, <1>4, <1>5 DEF Current

-----------------------------------------------------------------------------
(***************************************************************************)
(* The generations left behind: each refused before its POST, or over at   *)
(* the broker, or found to be for another request.                         *)
(***************************************************************************)
Ended(l, g) == order[l][g].state \in Terminal

Spared(l, g) == Local(l, g) \/ Ended(l, g) \/ g \in conflicts[l]

\* Refusals that the residual counts, before generation n.
RefusedBefore(l, n) == {g \in RefusedInARow(l) \ conflicts[l] : g < n}

\* Every generation before r's was left for good reason, and r's counter holds
\* the refusals among them.
Retired(l, r) ==
  r.quantity > 0 =>
    /\ \A g \in Generations : g < r.generation => Spared(l, g)
    /\ Cardinality(RefusedBefore(l, r.generation)) <= r.rejections

\* Why a decision retires its generation.
Reason(l, result) ==
  \/ Local(l, result.generation)
  \/ result.order.state \in Terminal
  \/ result.generation \in conflicts[l]

ReasonOf(p) ==
  pass[p] # NoPass =>
    \A l \in Legs : Decided(p, l) /\ pass[p].results[l].disposition = "retire" =>
      Reason(l, pass[p].results[l])

RetiredInv ==
  \A l \in Legs :
    /\ Retired(l, attempt.residual[l])
    /\ \A p \in Procs : /\ Retired(l, memory[p].residual[l])
                        /\ Current(p) => Retired(l, pending[p].to[l])
    /\ \A g, h \in Generations : g < h /\ Made(l, h) => Spared(l, g)
    /\ \A g \in Generations : Made(l, g) => Cardinality(RefusedBefore(l, g)) < MaxRejections

LEMMA RefusedForm ==
  ASSUME NEW l, NEW n
  PROVE  /\ RefusedBefore(l, n) \in SUBSET Generations
         /\ IsFiniteSet(RefusedBefore(l, n)) /\ Cardinality(RefusedBefore(l, n)) \in Nat
         /\ \A g : g \in RefusedBefore(l, n) <=>
              /\ g \in Generations /\ g < n /\ order[l][g].state = "REJECTED"
              /\ g \notin conflicts[l]
              /\ \A h \in g .. MaxGeneration : order[l][h].filled = 0
<1>1. RefusedBefore(l, n) \in SUBSET Generations
  BY DEF RefusedBefore, RefusedInARow
<1>2. IsFiniteSet(RefusedBefore(l, n))
  BY <1>1, GenerationsFinite, FS_Subset
<1>3. Cardinality(RefusedBefore(l, n)) \in Nat
  BY <1>2, FS_CardinalityType
<1> QED BY <1>1, <1>2, <1>3 DEF RefusedBefore, RefusedInARow

LEMMA LaterGenerations ==
  ASSUME NEW g \in Generations
  PROVE  /\ g \in Nat /\ g \in g .. MaxGeneration
         /\ \A h \in g .. MaxGeneration : h \in Generations
         /\ \A h \in Generations : h >= g => h \in g .. MaxGeneration
BY MaxGenerationType DEF Generations

LEMMA SparedStays ==
  ASSUME JournalKept, Remembered, NEW l \in Legs, NEW g \in Generations, Spared(l, g)
  PROVE  Spared(l, g)'
<1>1. CASE Local(l, g)
  BY <1>1 DEF Spared, Local, JournalKept, Moves
<1>2. CASE Ended(l, g)
  BY <1>2 DEF Spared, Ended, JournalKept, Moves
<1>3. CASE g \in conflicts[l]
  BY <1>3 DEF Spared, Remembered
<1> QED BY <1>1, <1>2, <1>3 DEF Spared

\* No refusal is added behind generations that were left for good reason.
LEMMA RefusedShrinks ==
  ASSUME IInv, JournalKept, Remembered, NEW l \in Legs, NEW n \in Nat,
         \A g \in Generations : g < n => Spared(l, g)
  PROVE  /\ Cardinality(RefusedBefore(l, n)') <= Cardinality(RefusedBefore(l, n))
         /\ Cardinality(RefusedBefore(l, n)') \in Nat
<1> DEFINE before == RefusedBefore(l, n)
           after == RefusedBefore(l, n)'
<1>1. after \in SUBSET before
  <2> SUFFICES ASSUME NEW g \in after PROVE g \in before
    OBVIOUS
  <2>1. /\ g \in Generations /\ g < n /\ order'[l][g].state = "REJECTED"
        /\ g \notin conflicts'[l]
        /\ \A h \in g .. MaxGeneration : order'[l][h].filled = 0
    BY DEF RefusedBefore, RefusedInARow
  <2>2. \A h \in Generations : /\ order[l][h].filled \in Nat
                               /\ order[l][h].filled <= order'[l][h].filled
    BY RowFacts DEF IInv, JournalKept, Moves
  <2>3. \A h \in g .. MaxGeneration : order[l][h].filled = 0
    BY <2>1, <2>2, LaterGenerations
  <2>4. g \notin conflicts[l]
    BY <2>1 DEF Remembered
  <2>5. order[l][g].state = "REJECTED"
    <3> SUFFICES ASSUME order[l][g].state # "REJECTED" PROVE FALSE
      OBVIOUS
    <3>1. order[l][g].state # "none"
      BY <2>1 DEF JournalKept, Moves
    <3>2. ~Ended(l, g)
      BY <2>1 DEF JournalKept, Moves, Ended
    <3>3. ~Local(l, g)
      BY <2>1, <3>1, RowFacts DEF IInv
    <3> QED BY <2>1, <2>4, <3>2, <3>3 DEF Spared
  <2> QED BY <2>1, <2>3, <2>4, <2>5, RefusedForm
<1>2. IsFiniteSet(before)
  BY RefusedForm
<1> HIDE DEF before, after
<1>3. Cardinality(after) <= Cardinality(before)
  BY <1>1, <1>2, FS_Subset
<1>4. Cardinality(after) \in Nat
  BY <1>1, <1>2, FS_Subset, FS_CardinalityType
<1> QED BY <1>3, <1>4 DEF before, after

LEMMA RetiredStays ==
  ASSUME IInv, JournalKept, Remembered, NEW l \in Legs, NEW r \in ResidualLeg, Retired(l, r)
  PROVE  Retired(l, r)'
<1>1. r.quantity \in Nat /\ r.generation \in Nat /\ r.rejections \in Nat
  BY ResidualTypes
<1> SUFFICES ASSUME r.quantity > 0
             PROVE  /\ \A g \in Generations : g < r.generation => Spared(l, g)'
                    /\ Cardinality(RefusedBefore(l, r.generation)') <= r.rejections
  BY DEF Retired
<1>2. /\ \A g \in Generations : g < r.generation => Spared(l, g)
      /\ Cardinality(RefusedBefore(l, r.generation)) <= r.rejections
  BY DEF Retired
<1>3. \A g \in Generations : g < r.generation => Spared(l, g)'
  BY <1>1, <1>2, SparedStays
<1>4. /\ Cardinality(RefusedBefore(l, r.generation)') <= Cardinality(RefusedBefore(l, r.generation))
      /\ Cardinality(RefusedBefore(l, r.generation)') \in Nat
  BY <1>1, <1>2, RefusedShrinks
<1>5. Cardinality(RefusedBefore(l, r.generation)) \in Nat
  BY RefusedForm
<1> QED BY <1>1, <1>2, <1>3, <1>4, <1>5

\* Local refusals in between are refusals by nobody.
LEMMA RefusedOverLocal ==
  ASSUME IInv, NEW l \in Legs, NEW m \in Nat, NEW n \in Nat, m <= n,
         \A h \in m .. n - 1 : Local(l, h), m > 0, n <= MaxGeneration
  PROVE  RefusedBefore(l, n) \in SUBSET RefusedBefore(l, m)
<1> SUFFICES ASSUME NEW g \in RefusedBefore(l, n) PROVE g \in RefusedBefore(l, m)
  OBVIOUS
<1>1. g \in Generations /\ g \in Nat /\ g < n /\ order[l][g].state = "REJECTED"
  BY RefusedForm, MaxGenerationType
<1>2. ~Local(l, g)
  BY <1>1, RowFacts DEF IInv
<1>3. g < m
  BY <1>1, <1>2
<1> QED BY <1>1, <1>3, RefusedForm

\* The row a pass inserts comes after generations that were left for good
\* reason, and after fewer refusals than are allowed.
LEMMA InsertIsAllowed ==
  ASSUME IInv, NEW p \in Procs, NEW l \in Legs, NEW g \in Generations, NEW quantity,
         InsertedBy(p, l, g, quantity), Retired(l, Residual(p, l))
  PROVE  /\ \A h \in Generations : h < g => Spared(l, h)
         /\ Cardinality(RefusedBefore(l, g)) < MaxRejections
<1> DEFINE r == Residual(p, l)
<1>1. /\ SystemTypeOK /\ PassOf(p) /\ pass[p] # NoPass /\ r \in ResidualLeg /\ r.quantity > 0
      /\ Reaches(r, l, g)
  BY WorkFacts DEF InsertedBy
<1>2. r.quantity \in Nat /\ r.generation \in Nat \ {0} /\ r.rejections \in Nat
  BY <1>1, ResidualTypes
<1>3. r.rejections < MaxRejections
  <2>1. l \in Outstanding(p, Legs)
    BY <1>1 DEF Outstanding
  <2> QED BY <1>1, <1>2, <2>1, ResidualConstants DEF PassOf, Allowed, Exhausted
<1>4. \A h \in Generations : h \in Nat /\ h <= MaxGeneration
  BY MaxGenerationType DEF Generations
<1> HIDE DEF r
<1>5. /\ \A h \in Generations : h < r.generation => Spared(l, h)
      /\ Cardinality(RefusedBefore(l, r.generation)) <= r.rejections
  BY <1>1, <1>2 DEF Retired, r
<1>6. /\ r.generation <= g /\ \A h \in r.generation .. g - 1 : Local(l, h)
  BY <1>1, <1>2, <1>4 DEF Reaches
<1>7. \A h \in Generations : h < g => Spared(l, h)
  BY <1>2, <1>4, <1>5, <1>6 DEF Spared
<1>8. RefusedBefore(l, g) \in SUBSET RefusedBefore(l, r.generation)
  BY <1>2, <1>4, <1>6, RefusedOverLocal
<1>9. Cardinality(RefusedBefore(l, g)) <= Cardinality(RefusedBefore(l, r.generation))
  BY <1>8, RefusedForm, FS_Subset
<1>10. /\ Cardinality(RefusedBefore(l, g)) \in Nat
       /\ Cardinality(RefusedBefore(l, r.generation)) \in Nat
  BY RefusedForm
<1> QED BY <1>1, <1>2, <1>3, <1>5, <1>7, <1>9, <1>10, ResidualConstants

\* carryResidualForward retires a generation for good reason, and counts its refusal.
LEMMA CarryForwardRetired ==
  ASSUME IInv, NEW l \in Legs, NEW r \in ResidualLeg, Retired(l, r), r.quantity > 0,
         NEW result \in Decision, Sound(r, l, result),
         result.disposition = "retire" => Reason(l, result)
  PROVE  Retired(l, CarryForward(r, result))
<1> DEFINE next == CarryForward(r, result)
           n == result.generation
           refused == IF result.order.state = "REJECTED" THEN 1 ELSE 0
<1>1. PICK credit \in 0 .. r.quantity :
        /\ next \in ResidualLeg /\ next.quantity = r.quantity - credit
        /\ credit > 0 => credit <= result.order.filled -
                            (IF result.generation = r.generation THEN Watermark(r) ELSE 0)
        /\ next.quantity > 0 =>
             /\ next.rejections = (IF credit > 0 THEN 0 ELSE r.rejections) + refused
             /\ \/ result.disposition = "retire" /\ next.generation = n + 1
                \/ next.generation = n
  BY CarryForwardEffect
<1>2. /\ SystemTypeOK /\ JournalInv
      /\ r.quantity \in Nat /\ r.generation \in Nat \ {0} /\ Watermark(r) \in Nat
      /\ r.rejections \in Nat
      /\ next.quantity \in Nat /\ next.generation \in Nat
  BY <1>1, ResidualTypes DEF IInv
<1>3. /\ n \in Generations /\ n \in Nat /\ n <= MaxGeneration /\ result.order.filled \in Nat
      /\ order[l][n].filled \in Nat
  <2>1. n \in Generations /\ result.order.filled \in Nat
    BY DEF Decision, Seen
  <2> QED BY <1>2, <2>1, MaxGenerationType, RowFacts DEF Generations
<1>4. /\ n >= r.generation /\ result.order.filled <= order[l][n].filled
      /\ \A h \in r.generation .. n - 1 : Local(l, h)
      /\ result.order.state \in Terminal => order[l][n].state = result.order.state
  BY DEF Sound, Reaches
<1>5. refused \in {0, 1}
  OBVIOUS
<1>6. result.disposition = "retire" =>
        \/ Local(l, n)
        \/ order[l][n].state \in Terminal /\ order[l][n].state = result.order.state
        \/ n \in conflicts[l]
  BY <1>4 DEF Reason
<1>7. order[l][n].state = "REJECTED" /\ result.disposition = "retire" =>
        refused = 1 \/ n \in conflicts[l]
  BY <1>2, <1>3, <1>6, RowFacts
<1> HIDE DEF next, n, refused
<1> SUFFICES ASSUME next.quantity > 0
             PROVE  /\ \A g \in Generations : g < next.generation => Spared(l, g)
                    /\ Cardinality(RefusedBefore(l, next.generation)) <= next.rejections
  BY DEF Retired, next
<1>8. /\ \A g \in Generations : g < r.generation => Spared(l, g)
      /\ Cardinality(RefusedBefore(l, r.generation)) <= r.rejections
  BY DEF Retired
<1>9. \A g \in Generations : g \in Nat
  BY MaxGenerationType
<1>10. ASSUME NEW g \in Generations, g < next.generation PROVE Spared(l, g)
  <2>1. CASE g < r.generation
    BY <1>8, <2>1
  <2>2. CASE g >= r.generation /\ g < n
    <3>1. g \in Nat /\ r.generation \in Nat
      BY <1>2, <1>9
    <3>2. g \in r.generation .. n - 1
      BY <1>3, <2>2, <3>1
    <3> QED BY <1>4, <3>2 DEF Spared
  <2>3. CASE g >= n
    <3>1. g = n /\ result.disposition = "retire"
      BY <1>1, <1>2, <1>3, <1>9, <1>10, <2>3
    <3> QED BY <1>6, <3>1 DEF Spared, Ended
  <2> QED BY <1>2, <1>3, <1>9, <2>1, <2>2, <2>3
<1>11. RefusedBefore(l, n) \in SUBSET RefusedBefore(l, r.generation)
  BY <1>2, <1>3, <1>4, RefusedOverLocal
<1>12. /\ Cardinality(RefusedBefore(l, n)) <= r.rejections
       /\ Cardinality(RefusedBefore(l, n)) \in Nat
  <2>1. Cardinality(RefusedBefore(l, n)) <= Cardinality(RefusedBefore(l, r.generation))
    BY <1>11, RefusedForm, FS_Subset
  <2>2. /\ Cardinality(RefusedBefore(l, n)) \in Nat
        /\ Cardinality(RefusedBefore(l, r.generation)) \in Nat
    BY RefusedForm
  <2> QED BY <1>2, <1>8, <2>1, <2>2
<1>13. CASE credit > 0
  <2>1. order[l][n].filled > 0
    BY <1>1, <1>2, <1>3, <1>4, <1>13
  <2>2. RefusedBefore(l, next.generation) = {}
    <3> SUFFICES ASSUME NEW g \in RefusedBefore(l, next.generation) PROVE FALSE
      OBVIOUS
    <3>1. /\ g \in Generations /\ g < next.generation
          /\ \A h \in g .. MaxGeneration : order[l][h].filled = 0
      BY RefusedForm
    <3>2. n \in g .. MaxGeneration
      <4>1. g \in Nat /\ g <= n
        BY <1>1, <1>2, <1>3, <1>9, <3>1
      <4> QED BY <1>3, <3>1, <4>1, LaterGenerations
    <3> QED BY <1>3, <2>1, <3>1, <3>2
  <2>3. Cardinality(RefusedBefore(l, next.generation)) = 0
    BY <2>2, FS_EmptySet
  <2> QED BY <1>1, <1>5, <1>10, <1>13, <2>3
<1>14. CASE ~(credit > 0)
  <2>1. next.rejections = r.rejections + refused
    BY <1>1, <1>14
  <2>2. CASE next.generation = n
    BY <1>2, <1>5, <1>10, <1>12, <2>1, <2>2
  <2>3. CASE next.generation # n
    <3>1. next.generation = n + 1 /\ result.disposition = "retire"
      BY <1>1, <2>3
    <3>2. RefusedBefore(l, n + 1) \in SUBSET (RefusedBefore(l, n) \cup {n})
      <4> SUFFICES ASSUME NEW g \in RefusedBefore(l, n + 1), g # n PROVE g \in RefusedBefore(l, n)
        OBVIOUS
      <4>1. g \in Generations /\ g < n + 1
        BY RefusedForm
      <4>2. g < n
        BY <1>3, <1>9, <4>1
      <4> QED BY <4>2, RefusedForm
    <3>3. refused = 0 => RefusedBefore(l, n + 1) \in SUBSET RefusedBefore(l, n)
      <4>1. refused = 0 => order[l][n].state # "REJECTED" \/ n \in conflicts[l]
        BY <1>7, <3>1
      <4>2. refused = 0 => n \notin RefusedBefore(l, n + 1)
        BY <4>1, RefusedForm
      <4> QED BY <3>2, <4>2
    <3>4. IsFiniteSet(RefusedBefore(l, n))
      BY RefusedForm
    <3>5. /\ IsFiniteSet(RefusedBefore(l, n) \cup {n})
          /\ Cardinality(RefusedBefore(l, n) \cup {n}) <= Cardinality(RefusedBefore(l, n)) + 1
      <4>1. Cardinality(RefusedBefore(l, n) \cup {n}) =
              IF n \in RefusedBefore(l, n) THEN Cardinality(RefusedBefore(l, n))
              ELSE Cardinality(RefusedBefore(l, n)) + 1
        BY <3>4, FS_AddElement
      <4> QED BY <1>12, <3>4, <4>1, FS_AddElement
    <3>6. Cardinality(RefusedBefore(l, n + 1)) <= Cardinality(RefusedBefore(l, n) \cup {n})
      BY <3>2, <3>5, FS_Subset
    <3>7. refused = 0 => Cardinality(RefusedBefore(l, n + 1)) <= Cardinality(RefusedBefore(l, n))
      BY <3>3, <3>4, FS_Subset
    <3>8. /\ Cardinality(RefusedBefore(l, n + 1)) \in Nat
          /\ Cardinality(RefusedBefore(l, n) \cup {n}) \in Nat
      BY <3>5, RefusedForm, FS_CardinalityType
    <3>9. Cardinality(RefusedBefore(l, n + 1)) <= r.rejections + refused
      BY <1>2, <1>5, <1>12, <3>5, <3>6, <3>7, <3>8
    <3> QED BY <1>10, <2>1, <3>1, <3>9
  <2> QED BY <2>2, <2>3
<1> QED BY <1>1, <1>13, <1>14

LEMMA GoneRetired == ASSUME NEW l PROVE Retired(l, Gone)
BY GoneForm DEF Retired

ReasonInv == \A p \in Procs : ReasonOf(p)

LEMMA SentRetired ==
  ASSUME IInv, VersionInv, ReasonInv, RetiredInv, NEW p \in Procs, NEW c, Sent(p, c),
         c.version = attempt.version, NEW l \in Legs
  PROVE  Retired(l, c.to[l])
<1>1. CASE pending[p] # NoCommand /\ c = pending[p]
  BY <1>1 DEF RetiredInv, Current
<1>2. CASE Finished(p) /\ c = Command(p)
  <2> DEFINE r == Residual(p, l)
             result == pass[p].results[l]
  <2>2. r \in ResidualLeg /\ Retired(l, r) /\ r.quantity \in Nat
    BY MemoryForm, ResidualTypes DEF IInv, RetiredInv, Residual
  <2>3. CASE r.quantity > 0
    <3>1. /\ c.to[l] = CarryForward(r, result) /\ result \in Decision /\ Sound(r, l, result)
          /\ Decided(p, l)
      BY <1>2, <2>3, CommandForm
    <3>2. pass[p] # NoPass
      <4>1. At(p, "leg")
        BY <1>2 DEF Finished, At
      <4> QED BY <4>1, PassForms DEF IInv
    <3>3. result.disposition = "retire" => Reason(l, result)
      BY <3>1, <3>2 DEF ReasonInv, ReasonOf
    <3> QED BY <2>2, <2>3, <3>1, <3>3, CarryForwardRetired
  <2>4. CASE r.quantity = 0
    <3>1. c.to[l] = Gone
      BY <1>2, <2>4, CommandForm
    <3> QED BY <3>1, GoneRetired
  <2> QED BY <2>2, <2>3, <2>4
<1> QED BY <1>1, <1>2 DEF Sent

LEMMA ReasonStays ==
  ASSUME JournalKept, Remembered, NEW l \in Legs, NEW result \in Decision, Reason(l, result)
  PROVE  Reason(l, result)'
<1>1. result.generation \in Generations
  BY DEF Decision
<1>2. CASE Local(l, result.generation)
  BY <1>1, <1>2 DEF Reason, Local, JournalKept, Moves
<1>3. CASE result.order.state \in Terminal
  BY <1>3 DEF Reason
<1>4. CASE result.generation \in conflicts[l]
  BY <1>1, <1>4 DEF Reason, Remembered
<1> QED BY <1>2, <1>3, <1>4 DEF Reason

\* The verdicts of a pass that it does not change.
LEMMA OldReasons ==
  ASSUME IInv, JournalKept, Remembered, NEW p \in Procs, ReasonOf(p), pass[p] # NoPass,
         NEW k \in Legs, Decided(p, k), pass[p].results[k].disposition = "retire",
         pass'[p].results[k] = pass[p].results[k]
  PROVE  Reason(k, pass[p].results[k])'
<1> DEFINE result == pass[p].results[k]
<1>1. Reason(k, result)
  BY DEF ReasonOf
<1>2. result \in Decision
  BY DecidedForm DEF IInv
<1>3. result' = result
  OBVIOUS
<1>4. \A x \in Decision : Reason(k, x) => Reason(k, x)'
  BY ReasonStays
<1> HIDE DEF result
<1>5. Reason(k, result)'
  BY <1>1, <1>2, <1>3, <1>4 DEF Reason, Local
<1> QED BY <1>5 DEF result

LEMMA ReasonSame ==
  ASSUME IInv, JournalKept, Remembered, NEW p \in Procs, ReasonOf(p), pass[p] # NoPass,
         pass'[p].results = pass[p].results
  PROVE  ReasonOf(p)'
BY OldReasons DEF ReasonOf, Decided

LEMMA ReasonDecides ==
  ASSUME IInv, JournalKept, Remembered, NEW p \in Procs, ReasonOf(p), pass[p] # NoPass,
         NEW l \in Legs, NEW result, Decide(p, l, result),
         result.disposition = "retire" => Reason(l, result)'
  PROVE  ReasonOf(p)'
<1>1. /\ pass'[p].results[l] = result
      /\ \A k \in Legs \ {l} : pass'[p].results[k] = pass[p].results[k]
  <2>1. pass[p].results \in Verdicts /\ pass \in [Procs -> {NoPass} \cup AtLeg \cup InLeg]
    BY PassForms DEF IInv, SystemTypeOK
  <2>2. pass'[p] = [at |-> "leg", results |-> [pass[p].results EXCEPT ![l] = result]]
    BY <2>1 DEF Decide
  <2>3. pass'[p].results = [pass[p].results EXCEPT ![l] = result]
    BY <2>2
  <2> QED BY <2>1, <2>3 DEF Verdicts
<1>2. ASSUME NEW k \in Legs, Decided(p, k)', pass'[p].results[k].disposition = "retire"
      PROVE  Reason(k, pass[p].results[k])'
  <2>1. CASE k = l
    BY <1>1, <1>2, <2>1 DEF Reason, Local
  <2>2. CASE k # l
    BY <1>1, <1>2, <2>2, OldReasons DEF Decided
  <2> QED BY <2>1, <2>2
<1> QED BY <1>2 DEF ReasonOf

LEMMA ReasonKeeps ==
  ASSUME IInv, JournalKept, Remembered, NEW p \in Procs, ReasonOf(p), pass[p] # NoPass,
         NEW l \in Legs, NEW g, NEW seen,
         Decide(p, l, Result(g, seen, "keep"))
  PROVE  ReasonOf(p)'
<1>1. Result(g, seen, "keep").disposition # "retire"
  BY DEF Result
<1> QED BY <1>1, ReasonDecides

LEMMA ReasonByCreate ==
  ASSUME IInv, JournalKept, Remembered, conflicts \in Histories, NEW p \in Procs, ReasonOf(p),
         Create(p)
  PROVE  ReasonOf(p)'
<1> PICK l, g : l = Leg(p) /\ g = Gen(p)
  OBVIOUS
<1>1. At(p, "create") /\ l \in Legs /\ pass[p] \in InLeg /\ pass[p] # NoPass /\ SystemTypeOK
  BY WorkFacts DEF Create
<1>2. ASSUME NEW step \in {"claim", "post", "await"}, MoveTo(p, step) PROVE ReasonOf(p)'
  BY <1>1, <1>2, MoveForm, ReasonSame
<1>3. CASE \E step \in {"claim", "await"} : MoveTo(p, step)
  BY <1>2, <1>3
<1>4. CASE /\ Decide(p, l, Result(g, Unseen, "retire"))
           /\ conflicts' = [conflicts EXCEPT ![l] = @ \cup {g}]
  <2> PICK result : result = Result(g, Unseen, "retire")
    OBVIOUS
  <2>1. result.generation = g
    BY DEF Result
  <2>2. g \in conflicts'[l]
    BY <1>1, <1>4 DEF Histories
  <2>3. Reason(l, result)'
    BY <2>1, <2>2 DEF Reason
  <2> QED BY <1>1, <1>4, <2>3, ReasonDecides
<1> QED BY <1>3, <1>4 DEF Create

LEMMA ReasonByAnswer ==
  ASSUME IInv, JournalKept, Remembered, NEW p \in Procs, ReasonOf(p), Answer(p)
  PROVE  ReasonOf(p)'
<1> PICK l, g : l = Leg(p) /\ g = Gen(p)
  OBVIOUS
<1>1. /\ At(p, "await") /\ l \in Legs /\ g \in Generations /\ pass[p] # NoPass
      /\ SystemTypeOK /\ JournalInv /\ Residual(p, l) \in ResidualLeg
  BY WorkFacts DEF Answer
<1>2. CASE Decide(p, l, Result(g, Unseen, "keep"))
  BY <1>1, <1>2, ReasonKeeps
<1>3. CASE Decide(p, l, Result(g, Snapshot(l, g),
                           Disposition(order[l][g].state, order[l][g].filled, Requested(p))))
  <2> PICK kind : kind = Disposition(order[l][g].state, order[l][g].filled, Requested(p))
    OBVIOUS
  <2> PICK result : result = Result(g, Snapshot(l, g), kind)
    OBVIOUS
  <2>1. result.disposition = kind /\ result.order.state = order[l][g].state
    BY DEF Result, Snapshot
  <2>2. order[l][g].filled \in Nat /\ Requested(p) \in Nat
    BY <1>1, RowFacts, ResidualTypes DEF Requested
  <2>3. kind = "retire" => order[l][g].state \in Terminal
    BY <2>2, DispositionForm
  <2>4. result.disposition = "retire" => Reason(l, result)'
    BY <2>1, <2>3 DEF Reason
  <2> QED BY <1>1, <1>3, <2>4, ReasonDecides
<1> QED BY <1>2, <1>3 DEF Answer

LEMMA ReasonByTurn ==
  ASSUME IInv, JournalKept, Remembered, NEW p \in Procs, ReasonOf(p), NEW l \in Legs,
         HoldCover(p, l) \/ Replay(p, l) \/ Withhold(p, l) \/ Submit(p, l)
  PROVE  ReasonOf(p)'
<1>1. Turn(p, l)
  BY DEF HoldCover, Replay, Withhold, Submit
<1>2. pass[p] # NoPass /\ SystemTypeOK
  BY <1>1, TurnFacts
<1>3. CASE HoldCover(p, l)
  BY <1>1, <1>2, <1>3, ReasonKeeps DEF HoldCover
<1>4. CASE Withhold(p, l)
  BY <1>1, <1>2, <1>4, ReasonKeeps DEF Withhold
<1>5. CASE Replay(p, l)
  <2>1. PICK g \in Probed(p, l) :
          /\ intent[l][g].state \in Terminal
          /\ Decide(p, l, Result(g, [state |-> intent[l][g].state, filled |-> intent[l][g].filled,
                                     quantity |-> intent[l][g].quantity],
                      Disposition(intent[l][g].state, intent[l][g].filled, Residual(p, l).quantity)))
    BY <1>5 DEF Replay
  <2> PICK result :
        result = Result(g, [state |-> intent[l][g].state, filled |-> intent[l][g].filled,
                            quantity |-> intent[l][g].quantity],
                   Disposition(intent[l][g].state, intent[l][g].filled, Residual(p, l).quantity))
    OBVIOUS
  <2>2. result.order.state \in Terminal
    BY <2>1 DEF Result
  <2>3. Reason(l, result)'
    BY <2>2 DEF Reason
  <2> QED BY <1>1, <1>2, <2>1, <2>3, ReasonDecides
<1>6. CASE Submit(p, l)
  <2>1. PICK g \in Probed(p, l), x \in Prices :
          pass' = [pass EXCEPT ![p] = [at |-> "create", leg |-> l, generation |-> g,
                                       price |-> x, results |-> pass[p].results]]
    BY <1>6 DEF Submit
  <2>2. pass \in [Procs -> {NoPass} \cup AtLeg \cup InLeg]
    BY <1>2 DEF SystemTypeOK
  <2>3. pass'[p].results = pass[p].results
    BY <2>1, <2>2
  <2> QED BY <1>1, <1>2, <2>3, ReasonSame
<1> QED BY <1>3, <1>4, <1>5, <1>6

LEMMA ReasonByRefuse ==
  ASSUME IInv, JournalKept, Remembered, NEW p \in Procs, ReasonOf(p), Refuse(p)
  PROVE  ReasonOf(p)'
<1> PICK l, g : l = Leg(p) /\ g = Gen(p)
  OBVIOUS
<1> PICK result : result = Result(g, Unseen, "retire")
  OBVIOUS
<1>1. \E step \in {"claim", "post"} : At(p, step)
  BY DEF Refuse
<1>2. /\ l \in Legs /\ g \in Generations /\ pass[p] # NoPass /\ SystemTypeOK
  BY <1>1, WorkFacts DEF Refuse
<1>3. intent'[l][g].state = "LOCAL"
  <2>1. intent \in [Legs -> [Generations -> IntentRow]]
    BY <1>2 DEF SystemTypeOK
  <2>2. intent' = [intent EXCEPT ![l][g].state = "LOCAL"]
    BY DEF Refuse
  <2> QED BY <1>2, <2>1, <2>2 DEF IntentRow
<1>4. result.generation = g
  BY DEF Result
<1>5. Reason(l, result)'
  BY <1>3, <1>4 DEF Reason, Local
<1>6. Decide(p, l, result)
  BY DEF Refuse
<1> QED BY <1>2, <1>5, <1>6, ReasonDecides

LEMMA ReasonByMove ==
  ASSUME IInv, JournalKept, Remembered, NEW p \in Procs, ReasonOf(p), Claim(p) \/ Post(p)
  PROVE  ReasonOf(p)'
<1>1. /\ \E step \in {"claim", "post"} : At(p, step)
      /\ \E step \in {"post", "await"} : MoveTo(p, step)
  BY DEF Claim, Post
<1>2. pass[p] \in InLeg /\ pass[p] # NoPass /\ SystemTypeOK
  BY <1>1, WorkFacts
<1>3. pass'[p].results = pass[p].results
  BY <1>1, <1>2, MoveForm
<1> QED BY <1>1, <1>2, <1>3, ReasonSame

\* The verdicts of the pass that takes a step.
LEMMA ReasonByPass ==
  ASSUME IInv, JournalKept, Remembered, conflicts \in Histories, NEW p \in Procs, ReasonOf(p),
         OnePass(p)
  PROVE  ReasonOf(p)'
<1>1. pass \in [Procs -> {NoPass} \cup AtLeg \cup InLeg]
  BY DEF IInv, SystemTypeOK
<1>2. CASE Tick(p)
  <2>1. pass'[p] = NewPass
    BY <1>1, <1>2 DEF Tick
  <2>2. \A k \in Legs : pass'[p].results[k].decided = FALSE
    BY <2>1 DEF NewPass, Undecided
  <2> QED BY <2>2 DEF ReasonOf, Decided
<1>3. CASE \E l \in Legs : HoldCover(p, l) \/ Replay(p, l) \/ Withhold(p, l) \/ Submit(p, l)
  BY <1>3, ReasonByTurn
<1>4. CASE Create(p)
  BY <1>4, ReasonByCreate
<1>5. CASE CreateFails(p)
  BY <1>5, WorkFacts, ReasonKeeps DEF CreateFails
<1>6. CASE Claim(p) \/ Post(p)
  BY <1>6, ReasonByMove
<1>7. CASE Refuse(p)
  BY <1>7, ReasonByRefuse
<1>8. CASE Answer(p)
  BY <1>8, ReasonByAnswer
<1>9. CASE AnswerNotRecorded(p)
  BY <1>9, WorkFacts, ReasonKeeps DEF AnswerNotRecorded
<1>10. CASE NothingToProject(p) \/ Project(p) \/ Retry(p)
  <2>1. pass'[p] = NoPass
    BY <1>1, <1>10 DEF NothingToProject, Project, Retry
  <2> QED BY <2>1 DEF ReasonOf
<1> QED BY <1>2, <1>3, <1>4, <1>5, <1>6, <1>7, <1>8, <1>9, <1>10 DEF OnePass

LEMMA ReasonKept ==
  ASSUME IInv, conflicts \in Histories, ReasonInv, [Next]_vars
  PROVE  ReasonInv'
<1>1. JournalKept /\ Remembered /\ SystemTypeOK
  BY StepKeeps, ConflictsGrow DEF Kept, IInv, JournalKept, JournalType, SystemTypeOK
<1> SUFFICES ASSUME NEW q \in Procs PROVE ReasonOf(q)'
  BY DEF ReasonInv
<1>2. ReasonOf(q)
  BY DEF ReasonInv
<1>3. CASE OnePass(q)
  BY <1>1, <1>2, <1>3, ReasonByPass
<1>4. CASE Restart(q)
  <2>1. pass'[q] = NoPass
    BY <1>1, <1>4 DEF Restart, SystemTypeOK
  <2> QED BY <2>1 DEF ReasonOf
<1>5. CASE ~OnePass(q) /\ ~Restart(q)
  <2>1. ASSUME NEW p \in Procs, p # q, OnePass(p) \/ Restart(p) PROVE pass'[q] = pass[q]
    BY <1>1, <2>1 DEF OnePass, Restart, Tick, HoldCover, Replay, Withhold, Submit, Create,
       CreateFails, Claim, Refuse, Post, Answer, AnswerNotRecorded, NothingToProject, Project,
       Retry, Decide, MoveTo, SystemTypeOK
  <2>2. pass'[q] = pass[q]
    BY <1>5, <2>1 DEF Next, LeaseMoves, Fill, End, Reconcile, vars
  <2>3. CASE pass[q] # NoPass
    BY <1>1, <1>2, <2>2, <2>3, ReasonSame
  <2>4. CASE pass[q] = NoPass
    BY <2>2, <2>4 DEF ReasonOf
  <2> QED BY <2>3, <2>4
<1> QED BY <1>3, <1>4, <1>5

LEMMA RetiredInit == ASSUME Init PROVE RetiredInv /\ ReasonInv
<1>1. IInv
  BY InitHolds
<1>2. /\ \A p \in Procs : memory[p] = attempt /\ pending[p] = NoCommand /\ pass[p] = NoPass
      /\ \A l \in Legs, g \in Generations : intent[l][g] = NoIntent
      /\ \A l \in Legs : attempt.residual[l].generation = 1 /\ attempt.residual[l].rejections = 0
  BY DEF Init, Gone
<1>3. \A l \in Legs, g \in Generations : ~Made(l, g)
  BY <1>2 DEF Made, NoIntent
<1>4. \A g \in Generations : ~(g < 1)
  BY DEF Generations
<1>5. \A l \in Legs : Retired(l, attempt.residual[l])
  <2> SUFFICES ASSUME NEW l \in Legs PROVE Cardinality(RefusedBefore(l, 1)) = 0
    BY <1>2, <1>4 DEF Retired
  <2>1. RefusedBefore(l, 1) = {}
    BY <1>4, RefusedForm
  <2> QED BY <2>1, FS_EmptySet
<1> QED BY <1>2, <1>3, <1>5 DEF RetiredInv, ReasonInv, ReasonOf, Current

\* The rows: those there are, and the one a pass may insert.
LEMMA RowsRetired ==
  ASSUME IInv, RetiredInv, JournalKept, Remembered, NEW l \in Legs, NEW h \in Generations,
         Made(l, h)'
  PROVE  /\ \A g \in Generations : g < h => Spared(l, g)'
         /\ Cardinality(RefusedBefore(l, h))' < MaxRejections
<1>1. /\ \A g \in Generations : g < h => Spared(l, g)
      /\ Cardinality(RefusedBefore(l, h)) < MaxRejections
  <2>1. CASE Made(l, h)
    BY <2>1 DEF RetiredInv
  <2>2. CASE ~Made(l, h)
    <3>1. PICK p \in Procs : InsertedBy(p, l, h, intent'[l][h].quantity)
      BY <2>2 DEF JournalKept, Moves, Made
    <3>2. Retired(l, Residual(p, l))
      BY DEF RetiredInv, Residual
    <3> QED BY <3>1, <3>2, InsertIsAllowed
  <2> QED BY <2>1, <2>2
<1>2. \A g \in Generations : g < h => Spared(l, g)'
  BY <1>1, SparedStays
<1>3. h \in Nat /\ Cardinality(RefusedBefore(l, h)) \in Nat
  BY MaxGenerationType, RefusedForm
<1>4. /\ Cardinality(RefusedBefore(l, h)') <= Cardinality(RefusedBefore(l, h))
      /\ Cardinality(RefusedBefore(l, h)') \in Nat
  BY <1>1, <1>3, RefusedShrinks
<1>5. Cardinality(RefusedBefore(l, h))' < MaxRejections
  BY <1>1, <1>3, <1>4, ResidualConstants
<1> QED BY <1>2, <1>5

LEMMA RetiredKept ==
  ASSUME IInv, conflicts \in Histories, VersionInv, ReasonInv, RetiredInv, [Next]_vars
  PROVE  RetiredInv'
<1>1. SystemTypeOK /\ JournalKept /\ Remembered /\ SystemTypeOK'
  BY StepKeeps, ConflictsGrow DEF Kept, IInv, JournalKept, JournalType, SystemTypeOK
<1>2. ASSUME NEW l \in Legs
      PROVE  /\ \A g, h \in Generations : g < h /\ Made(l, h)' => Spared(l, g)'
             /\ \A g \in Generations : Made(l, g)' => Cardinality(RefusedBefore(l, g))' < MaxRejections
  BY <1>1, <1>2, RowsRetired
<1>3. CASE UNCHANGED <<attempt, memory, pending>>
  <2>2. ASSUME NEW l \in Legs PROVE Retired(l, attempt.residual[l])'
    <3> PICK r : r = attempt.residual[l]
      OBVIOUS
    <3>1. r \in ResidualLeg /\ Retired(l, r) /\ r = attempt'.residual[l]
      BY <1>1, <1>3 DEF SystemTypeOK, Residuals, RetiredInv
    <3>2. Retired(l, r)'
      BY <1>1, <3>1, RetiredStays
    <3> QED BY <3>1, <3>2 DEF Retired, Spared, Local, Ended, RefusedBefore, RefusedInARow
  <2>3. ASSUME NEW l \in Legs, NEW p \in Procs PROVE Retired(l, memory[p].residual[l])'
    <3> PICK r : r = memory[p].residual[l]
      OBVIOUS
    <3>1. r \in ResidualLeg /\ Retired(l, r) /\ r = memory'[p].residual[l]
      BY <1>1, <1>3 DEF SystemTypeOK, Residuals, RetiredInv
    <3>2. Retired(l, r)'
      BY <1>1, <3>1, RetiredStays
    <3> QED BY <3>1, <3>2 DEF Retired, Spared, Local, Ended, RefusedBefore, RefusedInARow
  <2>4. ASSUME NEW l \in Legs, NEW p \in Procs, Current(p)' PROVE Retired(l, pending[p].to[l])'
    <3> PICK r : r = pending[p].to[l]
      OBVIOUS
    <3>1. Current(p)
      BY <1>3, <2>4 DEF Current
    <3>2. r \in ResidualLeg /\ Retired(l, r) /\ r = pending'[p].to[l]
      BY <1>1, <1>3, <3>1 DEF SystemTypeOK, ProjectionCommand, RetiredInv, Current
    <3>3. Retired(l, r)'
      BY <1>1, <3>2, RetiredStays
    <3> QED BY <3>2, <3>3 DEF Retired, Spared, Local, Ended, RefusedBefore, RefusedInARow
  <2> QED BY <1>2, <2>2, <2>3, <2>4 DEF RetiredInv
<1>4. ASSUME NEW p \in Procs, CopyStep(p) PROVE RetiredInv'
  <2>1. /\ UNCHANGED <<order, intent, conflicts>>
        /\ \A l, r : Retired(l, r)' <=> Retired(l, r)
    BY <1>4 DEF CopyStep, Retired, Spared, Local, Ended, RefusedBefore, RefusedInARow
  <2>2. \A l \in Legs : /\ Retired(l, attempt'.residual[l])
                        /\ \A q \in Procs : Retired(l, memory'[q].residual[l])
    <3>1. ASSUME NEW l \in Legs PROVE Retired(l, attempt'.residual[l])
      <4>1. CASE attempt' = attempt
        BY <4>1 DEF RetiredInv
      <4>2. CASE attempt' # attempt
        <5>1. PICK c : Sent(p, c) /\ c.version = attempt.version /\ attempt'.residual = c.to
          BY <1>4, <4>2, AttemptMoves
        <5> QED BY <5>1, SentRetired
      <4> QED BY <4>1, <4>2
    <3>2. ASSUME NEW q \in Procs PROVE memory'[q] = memory[q] \/ memory'[q] = attempt'
      BY <1>1, <1>4 DEF CopyStep, SystemTypeOK
    <3> QED BY <3>1, <3>2 DEF RetiredInv
  <2>3. ASSUME NEW q \in Procs, Current(q)', NEW l \in Legs PROVE Retired(l, pending'[q].to[l])
    <3>1. CASE q = p
      <4>1. PICK c : Sent(p, c) /\ c.version = attempt.version /\ pending'[p] = c
        BY <1>1, <1>4, <2>3, <3>1, PendingIsSent
      <4> QED BY <3>1, <4>1, SentRetired
    <3>2. CASE q # p
      BY <1>1, <1>4, <2>3, <3>2, PendingElsewhere DEF RetiredInv
    <3> QED BY <3>1, <3>2
  <2> QED BY <1>2, <2>1, <2>2, <2>3 DEF RetiredInv
<1> QED BY <1>3, <1>4, CopiesMove

LEMMA RetiredHolds == Spec => [](IInv /\ RetiredInv)
<1> DEFINE Inv == IInv /\ conflicts \in Histories /\ VersionInv /\ ReasonInv /\ RetiredInv
<1>1. Init => Inv
  BY InitHolds, VersionsInit, RetiredInit DEF Init, Histories
<1>2. Inv /\ [Next]_vars => Inv'
  <2> SUFFICES ASSUME Inv, [Next]_vars PROVE Inv'
    OBVIOUS
  <2>1. IInv' /\ (conflicts \in Histories)'
    BY StepKeeps, ConflictsGrow DEF Kept, Remembered
  <2> QED BY <2>1, VersionsKept, ReasonKept, RetiredKept
<1> QED BY <1>1, <1>2, PTL DEF Spec

\* While an order may still fill, a later generation reaches the broker only past a
\* conflict (LeftOnlyByConflict, residualFlatten.ts:338), for any touches, processes,
\* quantities and limits, whatever restarts and hand-overs of the lease come between
\* them: no lost answer, repeated projection or stale copy leaves a live order behind.
THEOREM LiveOrdersAreKept == Spec => []LeftOnlyByConflict
<1>1. IInv /\ RetiredInv => LeftOnlyByConflict
  <2> SUFFICES ASSUME IInv, RetiredInv, NEW l \in Legs, NEW g \in Generations,
                      NEW h \in Generations, g < h,
                      order[l][g].state = "live", order[l][h].state # "none"
               PROVE  g \in conflicts[l]
    BY DEF LeftOnlyByConflict
  <2>1. Made(l, h) /\ ~Local(l, g)
    BY RowFacts DEF IInv
  <2>2. Spared(l, g)
    BY <2>1 DEF RetiredInv
  <2>3. ~Ended(l, g)
    BY DEF Ended, Terminal
  <2> QED BY <2>1, <2>2, <2>3 DEF Spared
<1> QED BY <1>1, RetiredHolds, PTL

\* A set of generations has a greatest one.
LEMMA LastGeneration ==
  ASSUME NEW S \in SUBSET Generations, S # {}
  PROVE  \E g \in S : \A h \in S : h <= g
<1> DEFINE later(g) == {h \in S : h > g}
           tails == {later(g) : g \in S}
<1>1. IsFiniteSet(S)
  BY GenerationsFinite, FS_Subset
<1>2. IsWellFoundedOn(StrictSubsetOrdering(S), SUBSET S)
  BY <1>1, FS_StrictSubsetOrderingWellFounded, FS_FiniteSubsetsOfFinite
<1>3. tails \subseteq SUBSET S /\ tails # {}
  OBVIOUS
<1> HIDE DEF tails
<1>4. PICK t \in tails : \A u \in tails : ~(<<u, t>> \in StrictSubsetOrdering(S))
  BY <1>2, <1>3, WFMin
<1>5. PICK g \in S : t = later(g)
  BY DEF tails
<1>6. \A h \in S : h \in Nat
  BY MaxGenerationType
<1>7. later(g) = {}
  <2> SUFFICES ASSUME NEW h \in S, h > g PROVE FALSE
    OBVIOUS
  <2>1. later(h) \subseteq later(g) /\ h \in later(g) /\ h \notin later(h)
    BY <1>6
  <2>2. later(h) \in tails /\ later(h) \in SUBSET S /\ later(g) \in SUBSET S
    BY DEF tails
  <2> HIDE DEF later
  <2>3. <<later(h), later(g)>> \in StrictSubsetOrdering(S)
    BY <2>1, <2>2 DEF StrictSubsetOrdering
  <2> QED BY <1>4, <1>5, <2>2, <2>3
<1> QED BY <1>6, <1>7

\* The broker never refuses a leg more than MaxRejections times in a row, but for one
\* refusal more of each order a conflict has left behind (RejectionsBounded), for any
\* limit and wherever the touch moves: every other refusal is counted by the write that
\* leaves its generation, so a refusal a restart forgot is replayed from its row before
\* anything else is asked.
THEOREM RefusalsAreBounded == Spec => []RejectionsBounded
<1>1. IInv /\ RetiredInv => RejectionsBounded
  <2> SUFFICES ASSUME IInv, RetiredInv, NEW l \in Legs
               PROVE  Cardinality(RefusedInARow(l) \ conflicts[l]) <= MaxRejections
    BY DEF RejectionsBounded
  <2> DEFINE S == RefusedInARow(l) \ conflicts[l]
  <2>1. CASE S = {}
    BY <2>1, FS_EmptySet, ResidualConstants
  <2>2. CASE S # {}
    <3>1. S \in SUBSET Generations
      BY DEF RefusedInARow
    <3>2. PICK g \in S : \A h \in S : h <= g
      BY <2>2, <3>1, LastGeneration
    <3> DEFINE before == RefusedBefore(l, g)
    <3>3. g \in Generations /\ order[l][g].state = "REJECTED"
      BY DEF RefusedInARow
    <3>4. Made(l, g)
      BY <3>3, RowFacts DEF IInv
    <3>5. /\ IsFiniteSet(before) /\ Cardinality(before) \in Nat
          /\ Cardinality(before) < MaxRejections
      BY <3>3, <3>4, RefusedForm DEF RetiredInv
    <3>6. S \subseteq before \cup {g}
      <4>1. \A h \in S : h \in Nat /\ g \in Nat
        BY <3>1, MaxGenerationType
      <4> QED BY <3>2, <4>1 DEF RefusedBefore
    <3> HIDE DEF S, before
    <3>7. /\ IsFiniteSet(before \cup {g})
          /\ Cardinality(before \cup {g}) \in {Cardinality(before), Cardinality(before) + 1}
      BY <3>5, FS_AddElement
    <3>8. /\ Cardinality(S) <= Cardinality(before \cup {g})
          /\ Cardinality(S) \in Nat
      BY <3>6, <3>7, FS_Subset, FS_CardinalityType
    <3>9. Cardinality(S) <= MaxRejections
      BY <3>5, <3>7, <3>8, ResidualConstants
    <3> QED BY <3>9 DEF S
  <2> QED BY <2>1, <2>2
<1> QED BY <1>1, RetiredHolds, PTL

=============================================================================
