------------------------ MODULE EntryTransportProofs ------------------------
(***************************************************************************)
(* Proofs about EntryTransport: for every number of attempts, every lot,   *)
(* every cap and every pair of concurrency limits.  First the hedging of   *)
(* SELLs and the slots (IInv), then sums of quantities, then the accounts  *)
(* of quantity (Account) and the gross cap (WithinCap).                    *)
(***************************************************************************)
EXTENDS EntryTransport, FiniteSetTheorems, TLAPS

\* A leg filled in full that can never change again.
Sure(l) == held[l] = Lot /\ pc[l] \in Settled

\* The POST of the leg has begun and was not proved to leave it empty.
Exposed(l) == pc[l] \in {"sent", "working"} \/ held[l] > 0

\* What the gate's ledger calls proven is true of the broker, and stays true.
Evidence ==
  \A a \in Attempts, h \in Hedges : gate[a].proof[h] >= Lot => Sure(<<a, h>>)

HedgedInv ==
  \A l \in Legs : l[2] \notin Hedges /\ Exposed(l) => \A h \in Hedges : Sure(<<l[1], h>>)

\* The queue holds exactly legs that wait in it, each once.
QueueInv ==
  /\ \A i \in 1 .. Len(queue) : pc[queue[i]] = "queued"
  /\ \A i, j \in 1 .. Len(queue) : i # j => queue[i] # queue[j]

\* The legs the gateway has still to submit in this tick are untouched.
TickInv ==
  \A l \in Legs : tick \in Legs /\ l[1] = tick[1] /\ l[2] >= tick[2] => pc[l] = "idle"

\* The scheduler's record of the attempt in flight matches the slots.
SlotInv ==
  \A l \in Legs : /\ slot[l] # "none" <=> pc[l] \in InFlight
                  /\ slot[l] # "none" => entryAttempt = l[1]

IInv ==
  /\ TypeOK /\ Evidence /\ HedgedInv /\ QueueInv /\ TickInv /\ SlotInv
  /\ NoLeakedReservation

-----------------------------------------------------------------------------
LEMMA LegForm ==
  /\ \A a \in Attempts, r \in Ranks :
       <<a, r>> \in Legs /\ <<a, r>>[1] = a /\ <<a, r>>[2] = r
  /\ \A l \in Legs : l[1] \in Attempts /\ l[2] \in Ranks /\ l = <<l[1], l[2]>>
  /\ NoLeg \notin Legs
  /\ Hedges \subseteq Ranks
BY TransportConstants DEF Legs, Ranks, NoLeg, Hedges

LEMMA NoGateType == NoGate \in Gates /\ \A h \in Hedges : NoGate.proof[h] = Unproven
BY TransportConstants DEF NoGate, Gates, Unproven, Ranks, Hedges

\* A decision changes the evidence of the rank it decides, if any, and nothing else.
LEMMA DecideEffect ==
  ASSUME NEW g \in Gates, NEW r \in Ranks, NEW p \in {Unproven} \cup 0 .. Lot
  PROVE  /\ Decide(g, r, p) \in Gates
         /\ \A h \in Hedges : \/ Decide(g, r, p).proof[h] = g.proof[h]
                              \/ h = r /\ Decide(g, r, p).proof[h] = p
<1>1. CASE ~g.live \/ r \in g.decided
  BY <1>1 DEF Decide
<1>2. CASE ~(~g.live \/ r \in g.decided)
  <2>1. Decide(g, r, p) =
          [g EXCEPT !.decided = g.decided \cup {r},
                    !.proof = IF r \in Hedges THEN [g.proof EXCEPT ![r] = p] ELSE g.proof]
    BY <1>2 DEF Decide
  <2>2. g.proof \in [Hedges -> {Unproven} \cup 0 .. Lot]
    BY DEF Gates
  <2> DEFINE q == IF r \in Hedges THEN [g.proof EXCEPT ![r] = p] ELSE g.proof
  <2>3. /\ q \in [Hedges -> {Unproven} \cup 0 .. Lot]
        /\ \A h \in Hedges : q[h] = g.proof[h] \/ (h = r /\ q[h] = p)
    BY <2>2
  <2> HIDE DEF q
  <2>4. Decide(g, r, p) = [g EXCEPT !.decided = g.decided \cup {r}, !.proof = q]
    BY <2>1 DEF q
  <2>5. /\ g \in [live : BOOLEAN, registered : SUBSET Ranks, decided : SUBSET Ranks,
                  proof : [Hedges -> {Unproven} \cup 0 .. Lot]]
        /\ g.decided \cup {r} \in SUBSET Ranks
    BY DEF Gates
  <2>6. Decide(g, r, p) \in [live : BOOLEAN, registered : SUBSET Ranks, decided : SUBSET Ranks,
                             proof : [Hedges -> {Unproven} \cup 0 .. Lot]]
    BY <2>3, <2>4, <2>5
  <2>7. Decide(g, r, p).proof = q
    BY <2>4, <2>5
  <2> QED BY <2>3, <2>6, <2>7 DEF Gates
<1> QED BY <1>1, <1>2

LEMMA RegisterEffect ==
  ASSUME NEW g \in Gates, NEW r \in Ranks
  PROVE  Register(g, r) \in Gates /\ Register(g, r).proof = g.proof
BY DEF Register, Gates

LEMMA CollectEffect ==
  ASSUME NEW a \in Attempts, NEW g \in Gates
  PROVE  Collect(a, g) \in Gates /\ Collect(a, g) \in {g, NoGate}
BY NoGateType DEF Collect

-----------------------------------------------------------------------------
\* Leg l moves to st and is decided, with evidence p, in the gate G.
Decision(l, G, p, st) ==
  /\ gate' = [gate EXCEPT ![l[1]] = Collect(l[1], Decide(G, l[2], p))]
  /\ pc' = [k \in Legs |-> IF k = l THEN st
                           ELSE IF k \in Woken(l[1], Decide(G, l[2], p)) THEN "turn"
                           ELSE pc[k]]

\* What it does to a leg and to the evidence.
DecisionDone(l, p, st) ==
  /\ gate' \in [Attempts -> Gates]
  /\ pc' \in [Legs -> Pcs]
  /\ pc'[l] = st
  /\ \A m \in Legs : m # l => \/ pc'[m] = pc[m]
                              \/ pc[m] = "parked" /\ pc'[m] = "turn"
  /\ \A a \in Attempts, h \in Hedges :
       gate'[a].proof[h] >= Lot => \/ gate[a].proof[h] >= Lot
                                   \/ <<a, h>> = l /\ p >= Lot

\* What a decision does to the gates and to the legs: the leg moves to st, parked
\* legs of its attempt may get their turn, and no evidence appears but p.
LEMMA DecisionEffect ==
  ASSUME TypeOK, NEW l \in Legs, NEW G \in Gates, G.proof = gate[l[1]].proof,
         NEW p \in {Unproven} \cup 0 .. Lot, NEW st \in Pcs, Decision(l, G, p, st)
  PROVE  DecisionDone(l, p, st)
<1> DEFINE g == Decide(G, l[2], p)
<1>1. l[1] \in Attempts /\ l[2] \in Ranks /\ l = <<l[1], l[2]>>
  BY LegForm
<1>2. /\ g \in Gates
      /\ \A h \in Hedges : g.proof[h] = G.proof[h] \/ (h = l[2] /\ g.proof[h] = p)
  BY <1>1, DecideEffect
<1> HIDE DEF g
<1>3. Collect(l[1], g) \in Gates /\ Collect(l[1], g) \in {g, NoGate}
  BY <1>1, <1>2, CollectEffect
<1>4. gate \in [Attempts -> Gates] /\ pc \in [Legs -> Pcs]
  BY DEF TypeOK
<1>5. gate' = [gate EXCEPT ![l[1]] = Collect(l[1], g)]
  BY DEF g, Decision
<1>6. gate' \in [Attempts -> Gates]
  BY <1>1, <1>3, <1>4, <1>5
<1>7. \A m \in Woken(l[1], g) : pc[m] = "parked"
  BY DEF Woken, Parked
<1>8. pc' = [k \in Legs |-> IF k = l THEN st ELSE IF k \in Woken(l[1], g) THEN "turn" ELSE pc[k]]
  BY DEF g, Decision
<1>9. "turn" \in Pcs
  BY DEF Pcs, InFlight
<1>10. pc' \in [Legs -> Pcs]
  BY <1>4, <1>8, <1>9
<1>11. ASSUME NEW a \in Attempts, NEW h \in Hedges, gate'[a].proof[h] >= Lot
       PROVE  gate[a].proof[h] >= Lot \/ (<<a, h>> = l /\ p >= Lot)
  <2>1. CASE a # l[1]
    BY <1>1, <1>4, <1>5, <1>11, <2>1
  <2>2. CASE a = l[1]
    <3>1. gate'[a] = Collect(l[1], g)
      BY <1>1, <1>4, <1>5, <2>2
    <3>2. gate'[a] # NoGate
      <4>1. ~(Unproven >= Lot)
        BY TransportConstants DEF Unproven
      <4> QED BY <1>11, <4>1, NoGateType
    <3>3. gate'[a] = g
      BY <1>3, <3>1, <3>2
    <3> QED BY <1>1, <1>2, <1>11, <2>2, <3>3
  <2> QED BY <2>1, <2>2
<1> QED BY <1>6, <1>7, <1>8, <1>10, <1>11 DEF DecisionDone

LEMMA FinishEffect ==
  ASSUME TypeOK, NEW l \in Legs, NEW st \in Settled,
         NEW p \in {Unproven} \cup 0 .. Lot, NEW keep \in 0 .. Lot,
         Finish(l, st, p, keep)
  PROVE  /\ DecisionDone(l, p, st)
         /\ slot' = [slot EXCEPT ![l] = "none"]
         /\ reserved' = [reserved EXCEPT ![l] = keep]
         /\ entryAttempt' = EntryAttemptAfter(l)
<1>1. gate[l[1]] \in Gates
  BY LegForm DEF TypeOK
<1>2. st \in Pcs
  BY DEF Pcs
<1>3. Decision(l, gate[l[1]], p, st)
  BY DEF Finish, Decision
<1>4. DecisionDone(l, p, st)
  BY <1>1, <1>2, <1>3, DecisionEffect
<1> QED BY <1>4 DEF Finish

-----------------------------------------------------------------------------
\* The argument of hedging, once for all actions.  A settled leg stays settled and
\* one filled in full stays so; a SELL becomes exposed only while it is covered;
\* evidence of a full fill appears only with the fill.
LEMMA HedgingPreserved ==
  ASSUME TypeOK, Evidence, HedgedInv,
         \A m \in Legs : pc[m] \in Settled => pc'[m] = pc[m],
         \A m \in Legs : \/ held'[m] = held[m]
                         \/ pc[m] = "sent"
                         \/ pc[m] = "working" /\ held[m] < Lot,
         \A m \in Legs : m[2] \notin Hedges /\ Exposed(m)' => Exposed(m) \/ Covered(m[1]),
         \A a \in Attempts, h \in Hedges :
           gate'[a].proof[h] >= Lot => gate[a].proof[h] >= Lot \/ Sure(<<a, h>>)'
  PROVE  Evidence' /\ HedgedInv'
<1>1. \A m \in Legs : Sure(m) => Sure(m)'
  <2> SUFFICES ASSUME NEW m \in Legs, Sure(m) PROVE Sure(m)'
    OBVIOUS
  <2>1. pc[m] # "sent" /\ ~(held[m] < Lot)
    BY TransportConstants DEF Sure, Settled
  <2> QED BY <2>1 DEF Sure
<1>2. Evidence'
  BY <1>1, LegForm DEF Evidence
<1>3. ASSUME NEW m \in Legs, m[2] \notin Hedges, Exposed(m)', NEW h \in Hedges
      PROVE  Sure(<<m[1], h>>)'
  <2>1. m[1] \in Attempts /\ <<m[1], h>> \in Legs
    BY LegForm
  <2>2. Sure(<<m[1], h>>)
    <3>1. CASE Exposed(m)
      BY <1>3, <3>1 DEF HedgedInv
    <3>2. CASE Covered(m[1])
      BY <2>1, <3>2 DEF Covered, Evidence
    <3> QED BY <1>3, <3>1, <3>2
  <2> QED BY <1>1, <2>1, <2>2
<1>4. HedgedInv'
  BY <1>3 DEF HedgedInv
<1> QED BY <1>2, <1>4

-----------------------------------------------------------------------------
\* The part of the type that no leg's step is about.
OthersTyped ==
  /\ protective \in [made : Nat, queued : Nat, busy : Nat]
  /\ posted \subseteq Attempts
  /\ carried \in Nat /\ gross \in Nat
  /\ open \in BOOLEAN /\ healthy \in BOOLEAN /\ troubled \in BOOLEAN
  /\ disposed \in BOOLEAN

\* A leg in flight moves on inside its slot.
LEMMA MoveStep ==
  ASSUME IInv, NEW l \in Legs, pc[l] \in InFlight, NEW st \in InFlight,
         pc' = [pc EXCEPT ![l] = st],
         l[2] \notin Hedges /\ st = "sent" => Covered(l[1]) \/ pc[l] = "sent",
         UNCHANGED <<slot, queue, entryAttempt, tick, gate, reserved, held>>,
         OthersTyped'
  PROVE  IInv'
<1>1. /\ pc \in [Legs -> Pcs] /\ st \in Pcs /\ st \notin Settled /\ pc[l] \notin Settled
      /\ st \notin {"idle", "queued", "working"} /\ pc[l] \notin {"idle", "queued"}
  BY DEF IInv, TypeOK, Pcs, InFlight, Settled
<1>2. TypeOK'
  BY <1>1 DEF IInv, TypeOK, OthersTyped
<1>3. pc'[l] = st /\ \A m \in Legs : m # l => pc'[m] = pc[m]
  BY <1>1
<1>4. Evidence' /\ HedgedInv'
  <2>1. \A m \in Legs : pc[m] \in Settled => pc'[m] = pc[m]
    BY <1>1, <1>3
  <2>2. \A m \in Legs : held'[m] = held[m]
    OBVIOUS
  <2>3. \A m \in Legs : m[2] \notin Hedges /\ Exposed(m)' => Exposed(m) \/ Covered(m[1])
    BY <1>1, <1>3 DEF Exposed
  <2>4. \A a \in Attempts, h \in Hedges :
          gate'[a].proof[h] >= Lot => gate[a].proof[h] >= Lot \/ Sure(<<a, h>>)'
    OBVIOUS
  <2> QED BY <2>1, <2>2, <2>3, <2>4, HedgingPreserved DEF IInv
<1>5. QueueInv'
  <2>1. \A i \in 1 .. Len(queue) : queue[i] \in Legs
    BY DEF IInv, TypeOK
  <2> QED BY <1>1, <1>3, <2>1 DEF IInv, QueueInv
<1>6. TickInv'
  BY <1>1, <1>3 DEF IInv, TickInv
<1>7. SlotInv'
  BY <1>1, <1>3 DEF IInv, SlotInv
<1>8. NoLeakedReservation'
  BY <1>3 DEF IInv, NoLeakedReservation
<1> QED BY <1>2, <1>4, <1>5, <1>6, <1>7, <1>8 DEF IInv

\* A leg in flight ends: its slot is released and its rank decided.
LEMMA EndStep ==
  ASSUME IInv, NEW l \in Legs, pc[l] \in InFlight, NEW st \in Settled,
         NEW p \in {Unproven} \cup 0 .. Lot, NEW keep \in 0 .. Lot,
         Finish(l, st, p, keep),
         keep > 0 => st = "working",
         \/ held' = held /\ st = "done"
         \/ pc[l] = "sent" /\ \E f \in 0 .. Lot : held' = [held EXCEPT ![l] = f],
         p >= Lot => held'[l] = Lot,
         UNCHANGED <<queue, tick>>,
         OthersTyped'
  PROVE  IInv'
<1>1. /\ pc \in [Legs -> Pcs] /\ slot \in [Legs -> {"none", "base", "burst"}]
      /\ reserved \in [Legs -> 0 .. Lot] /\ held \in [Legs -> 0 .. Lot]
      /\ entryAttempt \in Attempts \cup {NoAttempt}
  BY DEF IInv, TypeOK
<1>2. /\ DecisionDone(l, p, st)
      /\ slot' = [slot EXCEPT ![l] = "none"]
      /\ reserved' = [reserved EXCEPT ![l] = keep]
      /\ entryAttempt' = EntryAttemptAfter(l)
  BY FinishEffect DEF IInv
<1>3. /\ pc'[l] = st
      /\ \A m \in Legs : m # l => \/ pc'[m] = pc[m]
                                  \/ pc[m] = "parked" /\ pc'[m] = "turn"
  BY <1>2 DEF DecisionDone
<1>4. /\ pc[l] \notin Settled \cup {"idle", "queued"}
      /\ st \notin InFlight \cup {"idle", "queued"}
      /\ "parked" \notin Settled \cup {"idle", "queued", "working", "sent"}
      /\ "turn" \notin Settled \cup {"idle", "queued", "working", "sent"}
      /\ "parked" \in InFlight /\ "turn" \in InFlight
  BY DEF InFlight, Settled
<1>5. held' \in [Legs -> 0 .. Lot] /\ \A m \in Legs : m # l => held'[m] = held[m]
  BY <1>1
<1>6. TypeOK'
  <2>1. gate' \in [Attempts -> Gates] /\ pc' \in [Legs -> Pcs]
    BY <1>2 DEF DecisionDone
  <2>2. slot' \in [Legs -> {"none", "base", "burst"}] /\ reserved' \in [Legs -> 0 .. Lot]
    BY <1>1, <1>2
  <2>3. entryAttempt' \in Attempts \cup {NoAttempt}
    BY <1>1, <1>2 DEF EntryAttemptAfter
  <2>4. queue' \in Seq(Legs) /\ tick' \in Legs \cup {NoLeg}
    BY DEF IInv, TypeOK
  <2> QED BY <1>5, <2>1, <2>2, <2>3, <2>4 DEF TypeOK, OthersTyped
<1>7. Evidence' /\ HedgedInv'
  <2>1. \A m \in Legs : pc[m] \in Settled => pc'[m] = pc[m]
    BY <1>3, <1>4
  <2>2. \A m \in Legs : held'[m] = held[m] \/ pc[m] = "sent"
    BY <1>5
  <2>3. \A m \in Legs : m[2] \notin Hedges /\ Exposed(m)' => Exposed(m) \/ Covered(m[1])
    <3>1. \A m \in Legs : m # l /\ Exposed(m)' => Exposed(m)
      BY <1>3, <1>4, <1>5 DEF Exposed
    <3>2. Exposed(l)' => Exposed(l)
      <4>1. CASE held' = held /\ st = "done"
        BY <1>3, <4>1 DEF Exposed
      <4>2. CASE pc[l] = "sent"
        BY <4>2 DEF Exposed
      <4> QED BY <4>1, <4>2
    <3> QED BY <3>1, <3>2
  <2>4. \A a \in Attempts, h \in Hedges :
          gate'[a].proof[h] >= Lot => gate[a].proof[h] >= Lot \/ Sure(<<a, h>>)'
    BY <1>2, <1>3 DEF DecisionDone, Sure
  <2> QED BY <2>1, <2>2, <2>3, <2>4, HedgingPreserved DEF IInv
<1>8. QueueInv'
  <2>1. \A i \in 1 .. Len(queue) : queue[i] \in Legs
    BY DEF IInv, TypeOK
  <2> QED BY <1>3, <1>4, <2>1 DEF IInv, QueueInv
<1>9. TickInv'
  BY <1>3, <1>4 DEF IInv, TickInv
<1>10. SlotInv'
  <2>1. slot'[l] = "none" /\ \A m \in Legs : m # l => slot'[m] = slot[m]
    BY <1>1, <1>2
  <2>2. \A m \in Legs : slot'[m] # "none" <=> pc'[m] \in InFlight
    BY <1>3, <1>4, <2>1 DEF IInv, SlotInv
  <2>3. \A m \in Legs : slot'[m] # "none" => entryAttempt' = m[1]
    BY <1>2, <2>1 DEF IInv, SlotInv, EntryAttemptAfter
  <2> QED BY <2>2, <2>3 DEF SlotInv
<1>11. NoLeakedReservation'
  <2>1. reserved'[l] = keep /\ \A m \in Legs : m # l => reserved'[m] = reserved[m]
    BY <1>1, <1>2
  <2> QED BY <1>3, <1>4, <2>1 DEF IInv, NoLeakedReservation
<1> QED BY <1>6, <1>7, <1>8, <1>9, <1>10, <1>11 DEF IInv

-----------------------------------------------------------------------------
\* Steps that touch no leg, no gate and no reservation.
LEMMA ElsewhereStep ==
  ASSUME IInv,
         UNCHANGED <<pc, slot, queue, entryAttempt, gate, reserved>>,
         held' \in [Legs -> 0 .. Lot],
         \A m \in Legs : held'[m] = held[m] \/ (pc[m] = "working" /\ held[m] < Lot),
         tick' \in Legs \cup {NoLeg},
         tick' = tick \/ \A m \in Legs : tick' \in Legs /\ m[1] = tick'[1] => pc[m] = "idle",
         OthersTyped'
  PROVE  IInv'
<1>1. TypeOK'
  BY DEF IInv, TypeOK, OthersTyped
<1>2. Evidence' /\ HedgedInv'
  <2>1. \A m \in Legs : pc[m] \in Settled => pc'[m] = pc[m]
    OBVIOUS
  <2>2. \A m \in Legs : Exposed(m)' => Exposed(m)
    BY DEF Exposed
  <2>3. \A a \in Attempts, h \in Hedges :
          gate'[a].proof[h] >= Lot => gate[a].proof[h] >= Lot \/ Sure(<<a, h>>)'
    OBVIOUS
  <2> QED BY <2>1, <2>2, <2>3, HedgingPreserved DEF IInv
<1>3. QueueInv'
  BY DEF IInv, QueueInv
<1>4. TickInv'
  BY DEF IInv, TickInv
<1>5. SlotInv' /\ NoLeakedReservation'
  BY DEF IInv, SlotInv, NoLeakedReservation
<1> QED BY <1>1, <1>2, <1>3, <1>4, <1>5 DEF IInv

\* A leg outside the slots is decided at once: refused by submit or by pump.
LEMMA RefusedStep ==
  ASSUME IInv, NEW l \in Legs, pc[l] \in {"idle", "queued"},
         DecisionDone(l, Unproven, "done"),
         reserved' = [reserved EXCEPT ![l] = 0] \/ (reserved' = reserved /\ pc[l] = "idle"),
         UNCHANGED <<slot, entryAttempt, held>>,
         queue' \in Seq(Legs),
         \A i \in 1 .. Len(queue') : queue'[i] # l,
         \A i \in 1 .. Len(queue') : pc[queue'[i]] = "queued",
         \A i, j \in 1 .. Len(queue') : i # j => queue'[i] # queue'[j],
         tick' \in Legs \cup {NoLeg},
         \A m \in Legs : tick' \in Legs /\ m[1] = tick'[1] /\ m[2] >= tick'[2]
                           => pc[m] = "idle" /\ m # l,
         OthersTyped'
  PROVE  IInv'
<1>1. /\ pc \in [Legs -> Pcs] /\ slot \in [Legs -> {"none", "base", "burst"}]
      /\ reserved \in [Legs -> 0 .. Lot] /\ held \in [Legs -> 0 .. Lot]
      /\ Lot \in Nat
  BY TransportConstants DEF IInv, TypeOK
<1>2. /\ pc'[l] = "done"
      /\ \A m \in Legs : m # l => \/ pc'[m] = pc[m]
                                  \/ pc[m] = "parked" /\ pc'[m] = "turn"
      /\ gate' \in [Attempts -> Gates] /\ pc' \in [Legs -> Pcs]
  BY DEF DecisionDone
<1>3. /\ pc[l] \notin Settled \cup InFlight /\ "done" \notin InFlight
      /\ "parked" \notin Settled \cup {"idle", "queued", "working", "sent"}
      /\ "turn" \notin Settled \cup {"idle", "queued", "working", "sent"}
      /\ "parked" \in InFlight /\ "turn" \in InFlight
  BY DEF InFlight, Settled
<1>4. /\ reserved' \in [Legs -> 0 .. Lot]
      /\ \A m \in Legs : m # l => reserved'[m] = reserved[m]
      /\ reserved'[l] = 0
  <2>1. reserved[l] = 0 \/ pc[l] # "idle"
    <3>1. NoLeakedReservation
      BY DEF IInv
    <3>2. reserved[l] > 0 => pc[l] # "idle"
      BY <3>1 DEF NoLeakedReservation, InFlight
    <3>3. reserved[l] \in 0 .. Lot
      BY <1>1
    <3> QED BY <1>1, <3>2, <3>3
  <2> QED BY <1>1, <2>1
<1>5. TypeOK'
  BY <1>2, <1>4 DEF IInv, TypeOK, OthersTyped
<1>6. Evidence' /\ HedgedInv'
  <2>1. \A m \in Legs : pc[m] \in Settled => pc'[m] = pc[m]
    BY <1>2, <1>3
  <2>2. \A m \in Legs : Exposed(m)' => Exposed(m)
    BY <1>2, <1>3 DEF Exposed
  <2>3. ~(Unproven >= Lot)
    BY TransportConstants DEF Unproven
  <2>4. \A a \in Attempts, h \in Hedges :
          gate'[a].proof[h] >= Lot => gate[a].proof[h] >= Lot \/ Sure(<<a, h>>)'
    BY <2>3 DEF DecisionDone
  <2> QED BY <2>1, <2>2, <2>4, HedgingPreserved DEF IInv
<1>7. QueueInv'
  <2>1. \A i \in 1 .. Len(queue') : queue'[i] \in Legs
    OBVIOUS
  <2> QED BY <1>2, <1>3, <2>1 DEF QueueInv
<1>8. TickInv'
  BY <1>2, <1>3 DEF TickInv
<1>9. SlotInv'
  BY <1>2, <1>3 DEF IInv, SlotInv
<1>10. NoLeakedReservation'
  BY <1>2, <1>3, <1>4 DEF IInv, NoLeakedReservation
<1> QED BY <1>5, <1>6, <1>7, <1>8, <1>9, <1>10 DEF IInv

-----------------------------------------------------------------------------
LEMMA SubmitLegStep == ASSUME IInv, SubmitLeg PROVE IInv'
<1>1. tick \in Legs /\ tick[1] \in Attempts /\ tick[2] \in Ranks /\ tick = <<tick[1], tick[2]>>
  BY LegForm DEF IInv, TypeOK, SubmitLeg
<1>2. pc[tick] = "idle"
  BY <1>1 DEF IInv, TickInv, Ranks
<1>3. \A i \in 1 .. Len(queue) : queue[i] \in Legs /\ queue[i] # tick
  BY <1>1, <1>2 DEF IInv, TypeOK, QueueInv
<1>4. /\ tick' \in Legs \cup {NoLeg}
      /\ \A m \in Legs : tick' \in Legs /\ m[1] = tick'[1] /\ m[2] >= tick'[2]
                           => pc[m] = "idle" /\ m # tick
  <2>1. CASE tick[2] = 3
    BY <2>1, LegForm DEF SubmitLeg, NextOf
  <2>2. CASE tick[2] # 3
    <3>1. tick[2] + 1 \in Ranks
      BY <1>1, <2>2 DEF Ranks
    <3>2. tick' = <<tick[1], tick[2] + 1>>
      BY <2>2 DEF SubmitLeg, NextOf
    <3>3. tick' \in Legs /\ tick'[1] = tick[1] /\ tick'[2] = tick[2] + 1
      BY <1>1, <3>1, <3>2, LegForm
    <3>4. \A m \in Legs : m[2] \in 0 .. 3
      BY LegForm DEF Ranks
    <3> QED BY <1>1, <3>3, <3>4 DEF IInv, TickInv, Ranks
  <2> QED BY <2>1, <2>2
<1>5. OthersTyped'
  BY DEF IInv, TypeOK, OthersTyped, SubmitLeg
<1>6. UNCHANGED <<slot, entryAttempt, held>>
  BY DEF SubmitLeg
<1>7. CASE SubmitRefused(tick)
  <2>1. gate[tick[1]] \in Gates
    BY <1>1 DEF IInv, TypeOK
  <2>2. Register(gate[tick[1]], tick[2]) \in Gates
        /\ Register(gate[tick[1]], tick[2]).proof = gate[tick[1]].proof
    BY <1>1, <2>1, RegisterEffect
  <2>3. Decision(tick, Register(gate[tick[1]], tick[2]), Unproven, "done")
    BY <1>7 DEF SubmitRefused, Decision
  <2>4. "done" \in Pcs /\ Unproven \in {Unproven} \cup 0 .. Lot
    BY DEF Pcs, Settled
  <2>5. DecisionDone(tick, Unproven, "done")
    BY <1>1, <2>2, <2>3, <2>4, DecisionEffect DEF IInv
  <2>6. queue' = queue /\ reserved' = reserved
    BY <1>7 DEF SubmitRefused
  <2>7. queue \in Seq(Legs)
    BY DEF IInv, TypeOK
  <2>8. /\ \A i \in 1 .. Len(queue') : queue'[i] # tick
        /\ \A i \in 1 .. Len(queue') : pc[queue'[i]] = "queued"
        /\ \A i, j \in 1 .. Len(queue') : i # j => queue'[i] # queue'[j]
    BY <1>3, <2>6 DEF IInv, QueueInv
  <2> QED BY <1>1, <1>2, <1>4, <1>5, <1>6, <2>5, <2>6, <2>7, <2>8, RefusedStep
<1>8. CASE SubmitAdmitted(tick)
  <2>1. /\ pc \in [Legs -> Pcs] /\ reserved \in [Legs -> 0 .. Lot] /\ Lot \in Nat
        /\ gate \in [Attempts -> Gates] /\ queue \in Seq(Legs)
    BY TransportConstants DEF IInv, TypeOK
  <2>2. /\ pc' = [pc EXCEPT ![tick] = "queued"]
        /\ reserved' = [reserved EXCEPT ![tick] = Lot]
        /\ queue' = Append(queue, tick)
        /\ gate' = [gate EXCEPT ![tick[1]] = Register(gate[tick[1]], tick[2])]
    BY <1>8 DEF SubmitAdmitted
  <2>3. /\ pc'[tick] = "queued" /\ \A m \in Legs : m # tick => pc'[m] = pc[m]
        /\ \A m \in Legs : m # tick => reserved'[m] = reserved[m]
    BY <1>1, <2>1, <2>2
  <2>4. Register(gate[tick[1]], tick[2]) \in Gates
        /\ Register(gate[tick[1]], tick[2]).proof = gate[tick[1]].proof
    BY <1>1, <2>1, RegisterEffect
  <2>5. TypeOK'
    <3>1. pc' \in [Legs -> Pcs] /\ reserved' \in [Legs -> 0 .. Lot]
      BY <1>1, <2>1, <2>2 DEF Pcs
    <3>2. gate' \in [Attempts -> Gates] /\ queue' \in Seq(Legs)
      BY <1>1, <2>1, <2>2, <2>4
    <3> QED BY <1>4, <1>5, <1>6, <3>1, <3>2 DEF IInv, TypeOK, OthersTyped
  <2>6. Evidence' /\ HedgedInv'
    <3>1. \A m \in Legs : pc[m] \in Settled => pc'[m] = pc[m]
      BY <1>2, <2>3 DEF Settled
    <3>2. \A m \in Legs : Exposed(m)' => Exposed(m)
      BY <1>6, <2>3 DEF Exposed
    <3>3. \A a \in Attempts : gate'[a].proof = gate[a].proof
      BY <1>1, <2>1, <2>2, <2>4
    <3>4. \A a \in Attempts, h \in Hedges :
            gate'[a].proof[h] >= Lot => gate[a].proof[h] >= Lot \/ Sure(<<a, h>>)'
      BY <3>3
    <3> QED BY <1>6, <3>1, <3>2, <3>4, HedgingPreserved DEF IInv
  <2>7. QueueInv'
    <3>1. /\ Len(queue') = Len(queue) + 1
          /\ \A i \in 1 .. Len(queue) : queue'[i] = queue[i]
          /\ queue'[Len(queue) + 1] = tick
      BY <1>1, <2>1, <2>2
    <3>2. \A i \in 1 .. Len(queue') : i \in 1 .. Len(queue) \/ i = Len(queue) + 1
      BY <2>1, <3>1
    <3>3. \A i \in 1 .. Len(queue') : pc'[queue'[i]] = "queued"
      BY <1>3, <2>3, <3>1, <3>2 DEF IInv, QueueInv
    <3>4. \A i, j \in 1 .. Len(queue') : i # j => queue'[i] # queue'[j]
      BY <1>3, <3>1, <3>2 DEF IInv, QueueInv
    <3> QED BY <3>3, <3>4 DEF QueueInv
  <2>8. TickInv'
    BY <1>4, <2>3 DEF TickInv
  <2>9. SlotInv'
    BY <1>2, <1>6, <2>3 DEF IInv, SlotInv, InFlight
  <2>10. NoLeakedReservation'
    BY <2>3 DEF IInv, NoLeakedReservation
  <2> QED BY <2>5, <2>6, <2>7, <2>8, <2>9, <2>10 DEF IInv
<1> QED BY <1>7, <1>8 DEF SubmitLeg

\* pump takes an entry leg off the queue.
LEMMA PumpEntryStep == ASSUME IInv, PumpEntry PROVE IInv'
<1> DEFINE l == queue[1]
<1>1. queue \in Seq(Legs) /\ queue # <<>>
  BY DEF IInv, TypeOK, PumpEntry, Pumpable
<1>2. l \in Legs /\ l[1] \in Attempts /\ l[2] \in Ranks
  BY <1>1, LegForm
<1>3. /\ queue' = Tail(queue) /\ queue' \in Seq(Legs)
      /\ Len(queue') = Len(queue) - 1
      /\ \A i \in 1 .. Len(queue') : queue'[i] = queue[i + 1] /\ i + 1 \in 1 .. Len(queue)
      /\ 1 \in 1 .. Len(queue)
  BY <1>1 DEF PumpEntry
<1>4. pc[l] = "queued"
  BY <1>3 DEF IInv, QueueInv
<1>5. /\ \A i \in 1 .. Len(queue') : queue'[i] \in Legs /\ queue'[i] # l
      /\ \A i \in 1 .. Len(queue') : pc[queue'[i]] = "queued"
      /\ \A i, j \in 1 .. Len(queue') : i # j => queue'[i] # queue'[j]
  <2>1. \A i \in 1 .. Len(queue') : i + 1 # 1
    OBVIOUS
  <2>2. \A i, j \in 1 .. Len(queue') : i # j => i + 1 # j + 1
    OBVIOUS
  <2> QED BY <1>3, <2>1, <2>2 DEF IInv, QueueInv
<1>6. OthersTyped'
  BY DEF IInv, TypeOK, OthersTyped, PumpEntry
<1>7. UNCHANGED <<tick, held>>
  BY DEF PumpEntry
<1>8. \A m \in Legs : tick \in Legs /\ m[1] = tick[1] /\ m[2] >= tick[2]
                        => pc[m] = "idle" /\ m # l
  BY <1>4 DEF IInv, TickInv
<1>9. tick' \in Legs \cup {NoLeg}
  BY <1>7 DEF IInv, TypeOK
<1>10. (~disposed /\ EntrySlot(l[1]) # "none") /\ (Dispatch(l) \/ DropQueued(l))
  BY DEF PumpEntry, Pumpable
<1> HIDE DEF l
<1>11. CASE DropQueued(l)
  <2>1. gate[l[1]] \in Gates
    BY <1>2 DEF IInv, TypeOK
  <2>2. Decision(l, gate[l[1]], Unproven, "done")
    BY <1>11 DEF DropQueued, Decision
  <2>3. "done" \in Pcs /\ Unproven \in {Unproven} \cup 0 .. Lot
    BY DEF Pcs, Settled
  <2>4. DecisionDone(l, Unproven, "done")
    BY <1>2, <2>1, <2>2, <2>3, DecisionEffect DEF IInv
  <2>5. reserved' = [reserved EXCEPT ![l] = 0] /\ UNCHANGED <<slot, entryAttempt>>
    BY <1>11 DEF DropQueued
  <2> QED
    BY <1>2, <1>3, <1>4, <1>5, <1>6, <1>7, <1>8, <1>9, <2>4, <2>5, RefusedStep
<1>12. CASE Dispatch(l)
  <2>1. /\ pc \in [Legs -> Pcs] /\ slot \in [Legs -> {"none", "base", "burst"}]
    BY DEF IInv, TypeOK
  <2>2. /\ pc' = [pc EXCEPT ![l] = "create"]
        /\ slot' = [slot EXCEPT ![l] = EntrySlot(l[1])]
        /\ entryAttempt' = l[1]
        /\ UNCHANGED <<gate, reserved>>
    BY <1>12 DEF Dispatch
  <2>3. /\ pc'[l] = "create" /\ \A m \in Legs : m # l => pc'[m] = pc[m]
        /\ slot'[l] = EntrySlot(l[1]) /\ \A m \in Legs : m # l => slot'[m] = slot[m]
    BY <1>2, <2>1, <2>2
  <2>4. EntrySlot(l[1]) \in {"base", "burst"} /\ entryAttempt \in {NoAttempt, l[1]}
    BY <1>10 DEF EntrySlot
  <2>5. TypeOK'
    <3>1. pc' \in [Legs -> Pcs]
      BY <1>2, <2>1, <2>2 DEF Pcs, InFlight
    <3>2. slot' \in [Legs -> {"none", "base", "burst"}]
      BY <1>2, <2>1, <2>2, <2>4
    <3> QED BY <1>2, <1>3, <1>6, <1>7, <1>9, <2>2, <3>1, <3>2 DEF IInv, TypeOK, OthersTyped
  <2>6. Evidence' /\ HedgedInv'
    <3>1. \A m \in Legs : pc[m] \in Settled => pc'[m] = pc[m]
      BY <1>4, <2>3 DEF Settled
    <3>2. \A m \in Legs : Exposed(m)' => Exposed(m)
      BY <1>7, <2>3 DEF Exposed
    <3>3. \A a \in Attempts, h \in Hedges :
            gate'[a].proof[h] >= Lot => gate[a].proof[h] >= Lot \/ Sure(<<a, h>>)'
      BY <2>2
    <3> QED BY <1>7, <3>1, <3>2, <3>3, HedgingPreserved DEF IInv
  <2>7. QueueInv'
    BY <1>5, <2>3 DEF QueueInv
  <2>8. TickInv'
    BY <1>7, <1>8, <2>3 DEF TickInv
  <2>9. SlotInv'
    <3>1. \A m \in Legs : m # l /\ slot[m] # "none" => m[1] = l[1]
      <4>1. \A m \in Legs : m[1] # NoAttempt
        BY LegForm, TransportConstants
      <4> QED BY <2>4, <4>1 DEF IInv, SlotInv
    <3>2. "create" \in InFlight
      BY DEF InFlight
    <3> QED BY <2>2, <2>3, <2>4, <3>1, <3>2 DEF IInv, SlotInv
  <2>10. NoLeakedReservation'
    BY <2>2, <2>3 DEF IInv, NoLeakedReservation, InFlight
  <2> QED BY <2>5, <2>6, <2>7, <2>8, <2>9, <2>10 DEF IInv
<1> QED BY <1>10, <1>11, <1>12

-----------------------------------------------------------------------------
\* The steps of a leg in flight.
LEMMA RunsStep == ASSUME IInv, NEW l \in Legs, Runs(l) PROVE IInv'
<1>1. /\ OthersTyped /\ gross \in Nat /\ held \in [Legs -> 0 .. Lot]
      /\ l[1] \in Attempts /\ Lot \in Nat \ {0}
  BY LegForm, TransportConstants DEF IInv, TypeOK, OthersTyped
<1>2. ASSUME Refuse(l), pc[l] \in InFlight, UNCHANGED <<queue, tick, held>>, OthersTyped'
      PROVE  IInv'
  <2>1. /\ pc' = [pc EXCEPT ![l] = "refusing"]
        /\ UNCHANGED <<slot, entryAttempt, gate, reserved>>
    BY <1>2 DEF Refuse
  <2>2. "refusing" \in InFlight
    BY DEF InFlight
  <2> QED BY <1>2, <2>1, <2>2, MoveStep
<1>3. CASE Created(l)
  <2>1. UNCHANGED <<queue, tick, held>> /\ OthersTyped' /\ pc[l] \in InFlight
    BY <1>1, <1>3 DEF Created, OthersTyped, InFlight
  <2>2. CASE Refuse(l)
    BY <1>2, <2>1, <2>2
  <2>3. CASE ~Refuse(l)
    <3>1. /\ pc' = [pc EXCEPT ![l] = "claim"]
          /\ UNCHANGED <<slot, entryAttempt, gate, reserved>>
      BY <1>3, <2>3 DEF Created
    <3>2. "claim" \in InFlight
      BY DEF InFlight
    <3> QED BY <2>1, <3>1, <3>2, MoveStep
  <2> QED BY <2>2, <2>3
<1>4. CASE Claimed(l)
  <2>1. UNCHANGED <<queue, tick, held>> /\ OthersTyped' /\ pc[l] \in InFlight
    BY <1>1, <1>4 DEF Claimed, OthersTyped, InFlight
  <2>2. CASE Refuse(l)
    BY <1>2, <2>1, <2>2
  <2>3. CASE ~Refuse(l)
    <3>1. PICK st \in {"turn", "parked"} :
            /\ pc' = [pc EXCEPT ![l] = st]
            /\ UNCHANGED <<slot, entryAttempt, gate, reserved>>
      BY <1>4, <2>3 DEF Claimed
    <3>2. st \in InFlight /\ st # "sent"
      BY DEF InFlight
    <3> QED BY <2>1, <3>1, <3>2, MoveStep
  <2> QED BY <2>2, <2>3
<1>5. CASE BeforePost(l)
  <2>1. UNCHANGED <<queue, tick, held>> /\ OthersTyped' /\ pc[l] \in InFlight
    BY <1>1, <1>5 DEF BeforePost, OthersTyped, InFlight
  <2>2. CASE Refuse(l)
    BY <1>2, <2>1, <2>2
  <2>3. CASE ~Refuse(l)
    <3>1. /\ pc' = [pc EXCEPT ![l] = "sent"]
          /\ UNCHANGED <<slot, entryAttempt, gate, reserved>>
          /\ l[2] \notin Hedges => Covered(l[1])
      BY <1>5, <2>3 DEF BeforePost
    <3>2. "sent" \in InFlight
      BY DEF InFlight
    <3> QED BY <2>1, <3>1, <3>2, MoveStep
  <2> QED BY <2>2, <2>3
<1>6. ~(Unproven >= Lot) /\ Unproven \in {Unproven} \cup 0 .. Lot /\ 0 \in 0 .. Lot
  BY <1>1 DEF Unproven
<1>7. {"done", "working"} \subseteq Settled
  BY DEF Settled
<1>8. CASE RefusalRecorded(l) \/ OtherOwner(l) \/ DatabaseFails(l)
  <2>1. /\ Finish(l, "done", Unproven, 0) /\ pc[l] \in InFlight
        /\ UNCHANGED <<queue, tick, held>> /\ OthersTyped'
    BY <1>1, <1>8 DEF RefusalRecorded, OtherOwner, DatabaseFails, OthersTyped, InFlight
  <2> QED BY <1>6, <1>7, <2>1, EndStep
<1>9. CASE Outcome(l)
  <2>1. PICK f \in 0 .. Lot :
          \/ Final(l, f) \/ Unrecorded(l, f) \/ Unattended(l, f)
          \/ \E g \in 0 .. f : Ambiguous(l, f, g)
    BY <1>9 DEF Outcome
  <2>2. pc[l] = "sent" /\ UNCHANGED <<queue, tick>> /\ held' = [held EXCEPT ![l] = f]
    BY <2>1 DEF Final, Unrecorded, Unattended, Ambiguous
  <2>3. pc[l] \in InFlight /\ held'[l] = f
    BY <1>1, <2>2 DEF InFlight
  <2> DEFINE Filled == pc[l] = "sent" /\ \E k \in 0 .. Lot : held' = [held EXCEPT ![l] = k]
  <2>8. Filled
    BY <2>2
  <2>9. ASSUME NEW st \in Settled, NEW keep \in 0 .. Lot, keep > 0 => st = "working",
               Finish(l, st, Unproven, keep), OthersTyped'
        PROVE  IInv'
    <3>1. Unproven >= Lot => held'[l] = Lot
      BY <1>6
    <3> QED BY <1>6, <2>2, <2>3, <2>8, <2>9, <3>1, EndStep
  <2>4. CASE Final(l, f)
    <3>1. Finish(l, "done", f, 0)
      BY <2>4 DEF Final
    <3>2. OthersTyped'
      BY <1>1, <2>4 DEF Final, OthersTyped, Attributed
    <3>3. f >= Lot => held'[l] = Lot
      BY <1>1, <2>3
    <3>4. "done" \in Settled /\ f \in {Unproven} \cup 0 .. Lot /\ ~(0 > 0)
      BY <1>7
    <3> QED BY <1>6, <2>2, <2>3, <2>8, <3>1, <3>2, <3>3, <3>4, EndStep
  <2>5. CASE Unrecorded(l, f)
    <3>1. Finish(l, "done", Unproven, 0)
      BY <2>5 DEF Unrecorded
    <3>2. OthersTyped'
      BY <1>1, <2>5 DEF Unrecorded, OthersTyped
    <3> QED BY <1>6, <1>7, <2>9, <3>1, <3>2
  <2>6. CASE Unattended(l, f)
    <3>1. Finish(l, "working", Unproven, 0)
      BY <2>6 DEF Unattended
    <3>2. gross' \in Nat /\ healthy' \in BOOLEAN
      <4>1. gross' \in {gross, gross + f}
        BY <2>6, Zenon DEF Unattended, Attributed
      <4>2. gross + f \in Nat
        BY <1>1
      <4>3. healthy' \in BOOLEAN
        BY <2>6, Zenon DEF Unattended
      <4> QED BY <1>1, <4>1, <4>2, <4>3
    <3>3. troubled' \in BOOLEAN
      BY <2>6, Zenon DEF Unattended
    <3>4. OthersTyped'
      BY <1>1, <2>6, <3>2, <3>3 DEF Unattended, OthersTyped
    <3> QED BY <1>6, <1>7, <2>9, <3>1, <3>4
  <2>7. CASE \E g \in 0 .. f : Ambiguous(l, f, g)
    <3>1. PICK g \in 0 .. f : Ambiguous(l, f, g)
      BY <2>7
    <3>2. Unfilled(g) \in 0 .. Lot /\ gross + g \in Nat
      <4>1. f \in 0 .. Lot /\ g \in 0 .. f
        OBVIOUS
      <4> QED BY <1>1, <4>1 DEF Unfilled
    <3>3. PICK keep \in 0 .. Lot : Finish(l, "working", Unproven, keep)
      BY <1>6, <3>1, <3>2 DEF Ambiguous
    <3>4. OthersTyped'
      BY <1>1, <3>1, <3>2 DEF Ambiguous, OthersTyped, Attributed
    <3> QED BY <1>7, <2>9, <3>3, <3>4
  <2> QED BY <2>1, <2>4, <2>5, <2>6, <2>7
<1> QED BY <1>3, <1>4, <1>5, <1>8, <1>9 DEF Runs

-----------------------------------------------------------------------------
\* dispose lets the parked legs go on, without a gate, and rejects the queue.
LEMMA DisposeStep == ASSUME IInv, Dispose PROVE IInv'
<1>1. /\ pc \in [Legs -> Pcs] /\ reserved \in [Legs -> 0 .. Lot] /\ Lot \in Nat
      /\ protective \in [made : Nat, queued : Nat, busy : Nat]
  BY TransportConstants DEF IInv, TypeOK
<1>2. /\ gate' = [a \in Attempts |-> NoGate]
      /\ queue' = <<>>
      /\ pc' = [l \in Legs |-> IF pc[l] = "parked" THEN "turn"
                               ELSE IF pc[l] = "queued" THEN "done" ELSE pc[l]]
      /\ reserved' = [l \in Legs |-> IF pc[l] = "queued" THEN 0 ELSE reserved[l]]
      /\ protective' = [protective EXCEPT !.queued = 0]
      /\ disposed' = TRUE
      /\ UNCHANGED <<slot, entryAttempt, tick, posted, carried, gross, held, open, healthy,
                     troubled>>
  BY DEF Dispose
<1>3. /\ {"parked", "turn"} \subseteq InFlight /\ "done" \notin InFlight
      /\ "parked" \notin Settled /\ "queued" \notin Settled \cup InFlight
      /\ {"turn", "done"} \subseteq Pcs
  BY DEF InFlight, Settled, Pcs
<1>4. TypeOK'
  <2>1. gate' \in [Attempts -> Gates]
    BY <1>2, NoGateType
  <2>2. pc' \in [Legs -> Pcs] /\ reserved' \in [Legs -> 0 .. Lot]
    BY <1>1, <1>2, <1>3
  <2>3. protective' \in [made : Nat, queued : Nat, busy : Nat]
    BY <1>1, <1>2
  <2>4. queue' \in Seq(Legs)
    BY <1>2
  <2> QED BY <1>2, <2>1, <2>2, <2>3, <2>4 DEF IInv, TypeOK
<1>5. Evidence' /\ HedgedInv'
  <2>1. \A m \in Legs : pc[m] \in Settled => pc'[m] = pc[m]
    BY <1>2, <1>3
  <2>2. \A m \in Legs : Exposed(m)' => Exposed(m)
    BY <1>2 DEF Exposed
  <2>3. ~(Unproven >= Lot)
    BY TransportConstants DEF Unproven
  <2>4. \A a \in Attempts, h \in Hedges : gate'[a].proof[h] = Unproven
    BY <1>2, NoGateType
  <2>5. \A a \in Attempts, h \in Hedges :
          gate'[a].proof[h] >= Lot => gate[a].proof[h] >= Lot \/ Sure(<<a, h>>)'
    BY <2>3, <2>4
  <2>6. \A m \in Legs : held'[m] = held[m]
    BY <1>2
  <2> QED BY <2>1, <2>2, <2>5, <2>6, HedgingPreserved DEF IInv
<1>6. QueueInv'
  BY <1>2 DEF QueueInv
<1>7. TickInv'
  BY <1>2 DEF IInv, TickInv
<1>8. SlotInv'
  BY <1>2, <1>3 DEF IInv, SlotInv
<1>9. NoLeakedReservation'
  BY <1>2, <1>3 DEF IInv, NoLeakedReservation
<1> QED BY <1>4, <1>5, <1>6, <1>7, <1>8, <1>9 DEF IInv

-----------------------------------------------------------------------------
LEMMA InitInvariant == Init => IInv
<1> SUFFICES ASSUME Init PROVE IInv
  OBVIOUS
<1>1. TypeOK
  <2>1. gate \in [Attempts -> Gates]
    BY NoGateType DEF Init
  <2>2. pc \in [Legs -> Pcs] /\ slot \in [Legs -> {"none", "base", "burst"}]
    BY DEF Init, Pcs
  <2>3. reserved \in [Legs -> 0 .. Lot] /\ held \in [Legs -> 0 .. Lot]
    BY TransportConstants DEF Init
  <2>4. /\ queue \in Seq(Legs) /\ protective \in [made : Nat, queued : Nat, busy : Nat]
        /\ tick \in Legs \cup {NoLeg} /\ entryAttempt \in Attempts \cup {NoAttempt}
    BY DEF Init
  <2>5. carried \in Nat /\ gross \in Nat
    BY TransportConstants DEF Init
  <2> QED BY <2>1, <2>2, <2>3, <2>4, <2>5 DEF Init, TypeOK
<1>2. Evidence
  <2>1. ~(Unproven >= Lot)
    BY TransportConstants DEF Unproven
  <2> QED BY <2>1, NoGateType DEF Init, Evidence
<1>3. HedgedInv
  BY DEF Init, HedgedInv, Exposed
<1>4. QueueInv /\ TickInv
  BY LegForm DEF Init, QueueInv, TickInv
<1>5. SlotInv /\ NoLeakedReservation
  BY DEF Init, SlotInv, NoLeakedReservation, InFlight
<1> QED BY <1>1, <1>2, <1>3, <1>4, <1>5 DEF IInv

LEMMA NextInvariant == ASSUME IInv, [Next]_vars PROVE IInv'
<1>1. /\ TypeOK /\ OthersTyped /\ held \in [Legs -> 0 .. Lot] /\ tick \in Legs \cup {NoLeg}
  BY DEF IInv, TypeOK, OthersTyped
<1>2. ASSUME NEW a \in Attempts, BeginAttempt(a) PROVE IInv'
  <2>1. 0 \in Ranks
    BY DEF Ranks
  <2>2. tick' = <<a, 0>> /\ tick' \in Legs /\ tick'[1] = a
    BY <1>2, <2>1, LegForm DEF BeginAttempt
  <2>3. \A m \in Legs : m[1] = a => pc[m] = "idle"
    BY <1>2, LegForm DEF BeginAttempt, LegsOf
  <2>4. OthersTyped' /\ UNCHANGED <<pc, slot, queue, entryAttempt, gate, reserved, held>>
    BY <1>1, <1>2 DEF BeginAttempt, OthersTyped
  <2> QED BY <1>1, <2>2, <2>3, <2>4, ElsewhereStep
<1>3. CASE SubmitLeg
  BY <1>3, SubmitLegStep
<1>4. CASE PumpProtective \/ SubmitProtective \/ ProtectiveEnds
  <2>1. protective' \in [made : Nat, queued : Nat, busy : Nat]
    <3>1. protective \in [made : Nat, queued : Nat, busy : Nat]
      BY <1>1 DEF OthersTyped
    <3>2. CASE PumpProtective
      <4>1. protective.queued > 0
        BY <3>2 DEF PumpProtective
      <4>2. \/ protective' = [protective EXCEPT !.queued = protective.queued - 1,
                                                !.busy = protective.busy + 1]
            \/ protective' = [protective EXCEPT !.queued = protective.queued - 1]
        BY <3>2 DEF PumpProtective
      <4>3. protective.queued - 1 \in Nat /\ protective.busy + 1 \in Nat
        BY <3>1, <4>1
      <4> QED BY <3>1, <4>2, <4>3
    <3>3. CASE SubmitProtective
      <4>1. protective' = [protective EXCEPT !.made = protective.made + 1,
                                             !.queued = protective.queued + 1]
        BY <3>3 DEF SubmitProtective
      <4>2. protective.made + 1 \in Nat /\ protective.queued + 1 \in Nat
        BY <3>1
      <4> QED BY <3>1, <4>1, <4>2
    <3>4. CASE ProtectiveEnds
      <4>1. protective.busy > 0 /\ protective' = [protective EXCEPT !.busy = protective.busy - 1]
        BY <3>4 DEF ProtectiveEnds
      <4>2. protective.busy - 1 \in Nat
        BY <3>1, <4>1
      <4> QED BY <3>1, <4>1, <4>2
    <3> QED BY <1>4, <3>2, <3>3, <3>4
  <2>2. UNCHANGED <<pc, slot, queue, entryAttempt, tick, gate, posted, reserved, carried,
                    gross, held, open, healthy, troubled, disposed>>
    BY <1>4 DEF PumpProtective, SubmitProtective, ProtectiveEnds
  <2>3. OthersTyped'
    BY <1>1, <2>1, <2>2 DEF OthersTyped
  <2> QED BY <1>1, <2>2, <2>3, ElsewhereStep
<1>5. CASE PumpEntry
  BY <1>5, PumpEntryStep
<1>6. ASSUME NEW l \in Legs, Runs(l) PROVE IInv'
  BY <1>6, RunsStep
<1>7. ASSUME NEW l \in Legs, FillsLate(l) PROVE IInv'
  <2>1. /\ pc[l] = "working" /\ held[l] < Lot /\ held' = [held EXCEPT ![l] = held[l] + 1]
        /\ UNCHANGED <<pc, slot, queue, entryAttempt, tick, gate, reserved>>
    BY <1>7 DEF FillsLate
  <2>2. held[l] \in 0 .. Lot /\ held[l] + 1 \in 0 .. Lot
    BY <1>1, <2>1, TransportConstants
  <2>3. held' \in [Legs -> 0 .. Lot]
    BY <1>1, <2>1, <2>2
  <2>4. \A m \in Legs : held'[m] = held[m] \/ (pc[m] = "working" /\ held[m] < Lot)
    BY <1>1, <2>1
  <2>5. OthersTyped'
    BY <1>1, <1>7 DEF FillsLate, OthersTyped
  <2> QED BY <1>1, <2>1, <2>3, <2>4, <2>5, ElsewhereStep
<1>8. CASE OutsideChanges
  <2>1. OthersTyped' /\ UNCHANGED <<pc, slot, queue, entryAttempt, tick, gate, reserved, held>>
    BY <1>1, <1>8 DEF OutsideChanges, OthersTyped
  <2> QED BY <1>1, <2>1, ElsewhereStep
<1>9. CASE Dispose
  BY <1>9, DisposeStep
<1>10. CASE UNCHANGED vars
  <2>1. OthersTyped' /\ UNCHANGED <<pc, slot, queue, entryAttempt, tick, gate, reserved, held>>
    BY <1>1, <1>10 DEF vars, OthersTyped
  <2> QED BY <1>1, <2>1, ElsewhereStep
<1> QED
  BY <1>2, <1>3, <1>4, <1>5, <1>6, <1>7, <1>8, <1>9, <1>10 DEF Next, Progress, Pump

\* The inductive invariant holds of every behaviour of the order manager.
THEOREM TransportInvariant == Spec => []IInv
<1>1. IInv /\ [Next]_vars => IInv'
  BY NextInvariant
<1> QED BY <1>1, InitInvariant, PTL DEF Spec

\* The state keeps its types through every interleaving of submit, pump, execute
\* and dispose.
THEOREM TransportTypeCorrect == Spec => []TypeOK
<1>1. IInv => TypeOK
  BY DEF IInv
<1> QED BY <1>1, TransportInvariant, PTL

\* No SELL is ever sent before both BUYs that hedge it are filled in full at the
\* broker (entryHedgeCoverageGap, HedgeCoverageLedger): whatever the lot, the cap,
\* the concurrency limits and the number of attempts.
THEOREM SellsAreHedged == Spec => []HedgedSell
<1>1. IInv => HedgedSell
  <2> SUFFICES ASSUME IInv, NEW a \in Attempts, NEW r \in Ranks \ Hedges,
                      pc[<<a, r>>] = "sent" \/ held[<<a, r>>] > 0, NEW h \in Hedges
               PROVE  held[<<a, h>>] = Lot
    BY DEF HedgedSell
  <2>1. <<a, r>> \in Legs /\ <<a, r>>[1] = a /\ <<a, r>>[2] = r
    BY LegForm
  <2>2. Exposed(<<a, r>>)
    BY DEF Exposed
  <2>3. Sure(<<a, h>>)
    BY <2>1, <2>2 DEF IInv, HedgedInv
  <2> QED BY <2>3 DEF Sure
<1> QED BY <1>1, TransportInvariant, PTL

\* Two boxes are never in flight together (admitBoxOperation, releaseSlot).
THEOREM BoxesNeverOverlap == Spec => []OnePipeline
<1>1. IInv => OnePipeline
  BY DEF IInv, SlotInv, OnePipeline
<1> QED BY <1>1, TransportInvariant, PTL

\* No refusal, failed call or shutdown leaks capacity of the gross cap
\* (releaseReservation).
THEOREM ReservationsReturn == Spec => []NoLeakedReservation
<1>1. IInv => NoLeakedReservation
  BY DEF IInv
<1> QED BY <1>1, TransportInvariant, PTL

-----------------------------------------------------------------------------
\* A sum of the quantities f over S, and the same sum counted cell by cell.
Total(f, S) == MapThenSumSet(LAMBDA l : f[l], S)

Cells(f, S) == {c \in S \X (1 .. Lot) : c[2] <= f[c[1]]}

Quantities == [Legs -> 0 .. Lot]

\* The recursion MapThenSumSet is defined by.
Summing(f, S, iter) ==
  iter = [s \in SUBSET S |->
            IF s = {} THEN 0
            ELSE f[CHOOSE x \in s : TRUE] + iter[s \ {CHOOSE x \in s : TRUE}]]

LEMMA TotalUnfolds == ASSUME NEW f, NEW S PROVE Total(f, S) = (CHOOSE iter : Summing(f, S, iter))[S]
BY SMT DEF Total, MapThenSumSet, MapThenFoldSet, Summing

LEMMA LegsFinite == IsFiniteSet(Legs)
<1>1. IsFiniteSet(Ranks)
  <2>1. 0 \in Int /\ 3 \in Int
    OBVIOUS
  <2> QED BY <2>1, FS_Interval, Zenon DEF Ranks
<1> QED BY <1>1, TransportConstants, FS_Product DEF Legs

LEMMA CellsFinite ==
  ASSUME NEW f \in Quantities, NEW S \in SUBSET Legs
  PROVE  IsFiniteSet(Cells(f, S)) /\ Cardinality(Cells(f, S)) \in Nat
<1>1. IsFiniteSet(S) /\ IsFiniteSet(1 .. Lot)
  BY LegsFinite, FS_Subset, FS_Interval, TransportConstants
<1>2. IsFiniteSet(S \X (1 .. Lot))
  BY <1>1, FS_Product
<1>3. Cells(f, S) \in SUBSET (S \X (1 .. Lot))
  BY DEF Cells
<1> QED BY <1>2, <1>3, FS_Subset, FS_CardinalityType

LEMMA CellsSplit ==
  ASSUME NEW f \in Quantities, NEW S \in SUBSET Legs, NEW T \in SUBSET Legs, S \cap T = {}
  PROVE  Cardinality(Cells(f, S \cup T)) = Cardinality(Cells(f, S)) + Cardinality(Cells(f, T))
<1>1. Cells(f, S \cup T) = Cells(f, S) \cup Cells(f, T) /\ Cells(f, S) \cap Cells(f, T) = {}
  BY DEF Cells
<1>2. IsFiniteSet(Cells(f, S)) /\ IsFiniteSet(Cells(f, T))
      /\ Cardinality(Cells(f, S)) \in Nat /\ Cardinality(Cells(f, T)) \in Nat
  BY CellsFinite
<1>3. Cardinality(Cells(f, S) \cap Cells(f, T)) = 0
  BY <1>1, FS_EmptySet
<1>4. Cardinality(Cells(f, S) \cup Cells(f, T)) =
        Cardinality(Cells(f, S)) + Cardinality(Cells(f, T))
          - Cardinality(Cells(f, S) \cap Cells(f, T))
  BY <1>2, FS_Union, Zenon
<1>5. Cardinality(Cells(f, S \cup T)) =
        Cardinality(Cells(f, S)) + Cardinality(Cells(f, T)) - 0
  BY <1>1, <1>3, <1>4, Zenon
<1> QED BY <1>2, <1>5

LEMMA CellsOfOne ==
  ASSUME NEW f \in Quantities, NEW x \in Legs
  PROVE  Cardinality(Cells(f, {x})) = f[x]
<1>1. f[x] \in 0 .. Lot /\ Lot \in Nat
  BY TransportConstants DEF Quantities
<1>2. Cells(f, {x}) = {x} \X (1 .. f[x])
  <2>1. \A i \in Int : i \in 1 .. Lot /\ i <= f[x] <=> i \in 1 .. f[x]
    BY <1>1
  <2>2. Cells(f, {x}) = {c \in {x} \X (1 .. Lot) : c[2] <= f[x]}
    BY DEF Cells
  <2> QED BY <1>1, <2>1, <2>2
<1>3. IsFiniteSet({x}) /\ Cardinality({x}) = 1
  BY FS_Singleton
<1> DEFINE n == f[x]
<1>4. n \in Int /\ 1 \in Int
  BY <1>1
<1> HIDE DEF n
<1>5. IsFiniteSet(1 .. n) /\ Cardinality(1 .. n) = IF 1 > n THEN 0 ELSE n - 1 + 1
  BY <1>4, FS_Interval, Zenon
<1>6. Cardinality(1 .. n) = n
  BY <1>1, <1>5 DEF n
<1>7. Cardinality({x} \X (1 .. n)) = Cardinality({x}) * Cardinality(1 .. n)
  BY <1>3, <1>5, FS_Product, Zenon
<1>8. Cardinality({x} \X (1 .. n)) = 1 * n
  BY <1>3, <1>6, <1>7, Zenon
<1>9. Cardinality(Cells(f, {x})) = 1 * n
  BY <1>2, <1>8 DEF n
<1> QED BY <1>1, <1>9 DEF n

\* MapThenSumSet counts cells: the one induction every fact about sums rests on.
LEMMA TotalCounts ==
  ASSUME NEW f \in Quantities, NEW S \in SUBSET Legs
  PROVE  Total(f, S) = Cardinality(Cells(f, S))
<1> DEFINE pick(s) == CHOOSE x \in s : TRUE
           count == [s \in SUBSET S |-> Cardinality(Cells(f, s))]
           iter == CHOOSE it : Summing(f, S, it)
<1>1. \A s \in SUBSET S : s # {} => pick(s) \in s
  OBVIOUS
<1>2. ASSUME NEW s \in SUBSET S, s # {}
      PROVE  Cardinality(Cells(f, s)) = f[pick(s)] + Cardinality(Cells(f, s \ {pick(s)}))
  <2>1. pick(s) \in s /\ pick(s) \in Legs
    BY <1>1, <1>2
  <2> HIDE DEF pick
  <2>2. /\ s = {pick(s)} \cup (s \ {pick(s)}) /\ {pick(s)} \cap (s \ {pick(s)}) = {}
        /\ {pick(s)} \in SUBSET Legs /\ s \ {pick(s)} \in SUBSET Legs
    BY <2>1
  <2>3. Cardinality(Cells(f, {pick(s)} \cup (s \ {pick(s)}))) =
          Cardinality(Cells(f, {pick(s)})) + Cardinality(Cells(f, s \ {pick(s)}))
    BY <2>2, CellsSplit, Zenon
  <2>4. Cardinality(Cells(f, {pick(s)})) = f[pick(s)]
    BY <2>1, CellsOfOne
  <2> QED BY <2>2, <2>3, <2>4, Zenon
<1>3. Cardinality(Cells(f, {})) = 0
  <2>1. Cells(f, {}) = {}
    BY DEF Cells
  <2> QED BY <2>1, FS_EmptySet
<1>4. Summing(f, S, count)
  <2>1. \A s \in SUBSET S : s \ {pick(s)} \in SUBSET S
    OBVIOUS
  <2>2. \A s \in SUBSET S : count[s] = IF s = {} THEN 0 ELSE f[pick(s)] + count[s \ {pick(s)}]
    BY <1>2, <1>3, <2>1
  <2>3. count = [s \in SUBSET S |-> count[s]]
    OBVIOUS
  <2> HIDE DEF count, pick
  <2>4. count = [s \in SUBSET S |-> IF s = {} THEN 0 ELSE f[pick(s)] + count[s \ {pick(s)}]]
    BY <2>2, <2>3
  <2> QED BY <2>4 DEF Summing, pick
<1>5. Summing(f, S, iter)
  BY <1>4
<1>6. \A s \in SUBSET S : iter[s] = IF s = {} THEN 0 ELSE f[pick(s)] + iter[s \ {pick(s)}]
  <2> HIDE DEF iter
  <2>1. iter = [s \in SUBSET S |-> IF s = {} THEN 0 ELSE f[pick(s)] + iter[s \ {pick(s)}]]
    BY <1>5 DEF Summing
  <2> HIDE DEF pick
  <2> QED BY <2>1
<1> DEFINE wrong == {s \in SUBSET S : iter[s] # Cardinality(Cells(f, s))}
<1>7. wrong = {}
  <2> SUFFICES ASSUME wrong # {} PROVE FALSE
    OBVIOUS
  <2>1. IsFiniteSet(S)
    BY LegsFinite, FS_Subset
  <2>2. IsWellFoundedOn(StrictSubsetOrdering(S), SUBSET S)
    BY <2>1, FS_StrictSubsetOrderingWellFounded, FS_FiniteSubsetsOfFinite
  <2>3. wrong \subseteq SUBSET S
    OBVIOUS
  <2> HIDE DEF wrong
  <2>4. PICK s \in wrong : \A t \in wrong : ~(<<t, s>> \in StrictSubsetOrdering(S))
    BY <2>2, <2>3, WFMin
  <2>5. s \in SUBSET S /\ iter[s] # Cardinality(Cells(f, s))
    BY DEF wrong
  <2>6. s # {}
    BY <1>3, <1>6, <2>5
  <2>7. pick(s) \in s
    BY <1>1, <2>5, <2>6
  <2> DEFINE t == s \ {pick(s)}
  <2>8. t \in SUBSET S /\ t \subseteq s /\ t # s
    BY <2>5, <2>7
  <2>9. <<t, s>> \in StrictSubsetOrdering(S)
    BY <2>5, <2>8 DEF StrictSubsetOrdering
  <2>10. iter[t] = Cardinality(Cells(f, t))
    BY <2>4, <2>8, <2>9 DEF wrong
  <2> HIDE DEF iter, pick
  <2> QED BY <1>2, <1>6, <2>5, <2>6, <2>10
<1>8. iter[S] = Cardinality(Cells(f, S))
  BY <1>7
<1> QED BY <1>8, TotalUnfolds

LEMMA TotalType ==
  ASSUME NEW f \in Quantities, NEW S \in SUBSET Legs
  PROVE  Total(f, S) \in Nat
BY TotalCounts, CellsFinite

LEMMA TotalOfOne == ASSUME NEW f \in Quantities, NEW l \in Legs PROVE Total(f, {l}) = f[l]
<1>1. {l} \in SUBSET Legs
  OBVIOUS
<1>2. Total(f, {l}) = Cardinality(Cells(f, {l}))
  BY <1>1, TotalCounts
<1> QED BY <1>2, CellsOfOne

LEMMA TotalSplit ==
  ASSUME NEW f \in Quantities, NEW S \in SUBSET Legs, NEW T \in SUBSET Legs, S \cap T = {}
  PROVE  Total(f, S \cup T) = Total(f, S) + Total(f, T)
<1>1. S \cup T \in SUBSET Legs
  OBVIOUS
<1>2. /\ Total(f, S) = Cardinality(Cells(f, S)) /\ Total(f, T) = Cardinality(Cells(f, T))
      /\ Total(f, S \cup T) = Cardinality(Cells(f, S \cup T))
  BY <1>1, TotalCounts
<1> QED BY <1>2, CellsSplit

\* More quantity, or more legs, never make a smaller sum.
LEMMA TotalGrows ==
  ASSUME NEW f \in Quantities, NEW g \in Quantities, NEW T \in SUBSET Legs, NEW S \in SUBSET T,
         \A m \in S : f[m] <= g[m]
  PROVE  Total(f, S) <= Total(g, T)
<1>1. Cells(f, S) \in SUBSET Cells(g, T)
  <2>1. \A m \in Legs : f[m] \in Int /\ g[m] \in Int
    BY DEF Quantities
  <2> QED BY <2>1, TransportConstants DEF Cells
<1>2. S \in SUBSET Legs /\ T \in SUBSET Legs
  OBVIOUS
<1>3. Total(f, S) = Cardinality(Cells(f, S)) /\ Total(g, T) = Cardinality(Cells(g, T))
  BY <1>2, TotalCounts
<1>4. IsFiniteSet(Cells(g, T))
  BY <1>2, CellsFinite
<1>5. Cardinality(Cells(f, S)) <= Cardinality(Cells(g, T))
  BY <1>1, <1>4, FS_Subset, Zenon
<1> QED BY <1>3, <1>5

\* Two quantities that differ for one leg only.
LEMMA TotalDiffers ==
  ASSUME NEW f \in Quantities, NEW g \in Quantities, NEW l \in Legs,
         \A m \in Legs \ {l} : f[m] = g[m]
  PROVE  Total(g, Legs) - g[l] = Total(f, Legs) - f[l]
<1> DEFINE Rest == Legs \ {l}
<1>1. Rest \in SUBSET Legs /\ {l} \in SUBSET Legs /\ {l} \cap Rest = {} /\ Legs = {l} \cup Rest
  OBVIOUS
<1>2. \A m \in Rest : f[m] <= g[m] /\ g[m] <= f[m]
  BY DEF Quantities
<1> HIDE DEF Rest
<1>3. Total(f, Rest) <= Total(g, Rest) /\ Total(g, Rest) <= Total(f, Rest)
  BY <1>1, <1>2, TotalGrows
<1>4. Total(f, {l}) = f[l] /\ Total(g, {l}) = g[l]
  BY TotalOfOne
<1>5. /\ Total(f, Legs) = Total(f, {l}) + Total(f, Rest)
      /\ Total(g, Legs) = Total(g, {l}) + Total(g, Rest)
  BY <1>1, TotalSplit
<1>6. Total(f, Rest) \in Nat /\ Total(g, Rest) \in Nat /\ f[l] \in Int /\ g[l] \in Int
  BY <1>1, TotalType DEF Quantities
<1> QED BY <1>3, <1>4, <1>5, <1>6

\* Nothing sums to more than a lot for every leg.
LEMMA TotalBounded ==
  ASSUME NEW f \in Quantities, NEW S \in SUBSET Legs
  PROVE  Total(f, S) <= Cardinality(S) * Lot
<1>1. Cells(f, S) \in SUBSET (S \X (1 .. Lot))
  BY DEF Cells
<1>2. Lot \in Nat /\ 1 \in Int /\ Lot \in Int /\ Lot >= 1
  BY TransportConstants
<1>3. IsFiniteSet(1 .. Lot) /\ Cardinality(1 .. Lot) = IF 1 > Lot THEN 0 ELSE Lot - 1 + 1
  BY <1>2, FS_Interval, Zenon
<1>4. Cardinality(1 .. Lot) = Lot
  BY <1>2, <1>3
<1>5. IsFiniteSet(S)
  BY LegsFinite, FS_Subset
<1>6. /\ IsFiniteSet(S \X (1 .. Lot))
      /\ Cardinality(S \X (1 .. Lot)) = Cardinality(S) * Cardinality(1 .. Lot)
  BY <1>3, <1>5, FS_Product, Zenon
<1>7. Cardinality(Cells(f, S)) <= Cardinality(S) * Lot
  <2>1. Cardinality(Cells(f, S)) <= Cardinality(S \X (1 .. Lot))
    BY <1>1, <1>6, FS_Subset, Zenon
  <2> QED BY <1>4, <1>6, <2>1, Zenon
<1>8. Total(f, S) = Cardinality(Cells(f, S))
  BY TotalCounts
<1> QED BY <1>7, <1>8

LEMMA RanksCount == Cardinality(Ranks) = 4 /\ IsFiniteSet(Ranks)
<1>1. 0 \in Int /\ 3 \in Int
  OBVIOUS
<1>2. IsFiniteSet(0 .. 3) /\ Cardinality(0 .. 3) = IF 0 > 3 THEN 0 ELSE 3 - 0 + 1
  BY <1>1, FS_Interval, Zenon
<1> QED BY <1>2 DEF Ranks

\* Nor more than four lots for an attempt.
LEMMA TotalOfAttempt ==
  ASSUME NEW f \in Quantities, NEW a \in Attempts
  PROVE  LegsOf(a) \in SUBSET Legs /\ Total(f, LegsOf(a)) <= 4 * Lot
<1>1. LegsOf(a) \in SUBSET Legs
  BY DEF LegsOf, Legs
<1>2. IsFiniteSet({a}) /\ Cardinality({a}) = 1
  BY FS_Singleton
<1>3. Cardinality({a} \X Ranks) = Cardinality({a}) * Cardinality(Ranks)
  BY <1>2, RanksCount, FS_Product
<1>4. Cardinality(LegsOf(a)) = 4
  BY <1>2, <1>3, RanksCount DEF LegsOf
<1>5. Total(f, LegsOf(a)) <= Cardinality(LegsOf(a)) * Lot
  BY <1>1, TotalBounded
<1> QED BY <1>1, <1>4, <1>5

-----------------------------------------------------------------------------
(***************************************************************************)
(* The quantity accounts.                                                  *)
(***************************************************************************)
\* What the broker may still come to hold of each leg.
Potential == [l \in Legs |-> IF pc[l] \in {"sent", "working"} THEN Lot ELSE held[l]]

\* A leg holds quantity only once it is settled, waits and travels with its whole
\* reservation, and is posted with its attempt.
Legwise ==
  \A l \in Legs : /\ held[l] > 0 => pc[l] \in Settled
                  /\ pc[l] \in {"queued"} \cup InFlight => reserved[l] = Lot
                  /\ pc[l] = "sent" => l[1] \in posted

\* What is promised to admitted legs fits under the cap beside what is attributed.
Promised == Total(reserved, Legs) > 0 => gross + Total(reserved, Legs) <= MaxGross

\* While entry may still open, the manager's gross quantity is the broker's.
Truthful == ~troubled => /\ \A l \in Legs : pc[l] # "working"
                         /\ gross = carried + Total(held, Legs)

Account == Legwise /\ Promised /\ (~CancelRecordFails => Truthful)

WithinCap == Total(Potential, Legs) > 0 => carried + Total(Potential, Legs) <= MaxGross

LEMMA QuantityTypes ==
  ASSUME TypeOK, TypeOK'
  PROVE  /\ held \in Quantities /\ reserved \in Quantities
         /\ held' \in Quantities /\ reserved' \in Quantities
         /\ Potential \in Quantities /\ Potential' \in Quantities
<1>1. /\ held \in Quantities /\ reserved \in Quantities
      /\ held' \in Quantities /\ reserved' \in Quantities
  BY DEF TypeOK, Quantities
<1>2. 0 \in 0 .. Lot /\ Lot \in 0 .. Lot
  BY TransportConstants
<1>3. Potential \in Quantities
  BY <1>1, <1>2 DEF Quantities, Potential
<1>4. Potential' \in Quantities
  BY <1>1, <1>2 DEF Quantities, Potential
<1> QED BY <1>1, <1>3, <1>4

-----------------------------------------------------------------------------
\* A step of one leg: the others keep their quantities; a parked one may get its turn.
OneLeg(l) ==
  /\ carried' = carried
  /\ \A m \in Legs \ {l} : /\ held'[m] = held[m] /\ reserved'[m] = reserved[m]
                           /\ pc'[m] = pc[m] \/ (pc[m] = "parked" /\ pc'[m] = "turn")

\* A leg is admitted with its reservation, which the check of quantity has found room for.
Takes(l) == QuantityAllows(l[1]) /\ reserved'[l] = Lot /\ gross' = gross

\* And it leaves the accounts of leg l right.
Settles(l) ==
  /\ held'[l] > 0 => pc'[l] \in Settled
  /\ pc'[l] \in {"queued"} \cup InFlight => reserved'[l] = Lot
  /\ pc'[l] = "sent" => l[1] \in posted'
  /\ posted \subseteq posted'
  /\ gross <= gross'
  /\ Takes(l) \/ gross' + reserved'[l] <= gross + reserved[l]
  /\ ~CancelRecordFails /\ ~troubled'
       => ~troubled /\ pc'[l] # "working" /\ gross' - held'[l] = gross - held[l]

\* The one step after which the broker may hold more than before.
Posts(l) ==
  /\ pc[l] = "turn" /\ pc'[l] = "sent"
  /\ CanEnter(l[1])
  /\ UNCHANGED <<held, reserved, gross>>

LegStep(l) == OneLeg(l) /\ Settles(l) /\ (Posts(l) \/ Potential'[l] <= Potential[l])

\* What is reserved grows only where the check has found room: for the leg's lot beside all
\* that is reserved, or for the four lots of its attempt beside what others have reserved.
LEMMA LegStepPromised ==
  ASSUME TypeOK, TypeOK', Promised, NEW l \in Legs, OneLeg(l), Settles(l)
  PROVE  Promised'
<1>1. /\ reserved \in Quantities /\ reserved' \in Quantities
      /\ gross \in Nat /\ gross' \in Nat /\ l[1] \in Attempts
      /\ MaxGross \in Nat /\ Lot \in Nat \ {0}
  <2>1. gross \in Nat /\ gross' \in Nat
    BY DEF TypeOK
  <2> QED BY <2>1, QuantityTypes, LegForm, TransportConstants
<1>2. \A m \in Legs \ {l} : reserved[m] = reserved'[m]
  BY DEF OneLeg
<1>3. reserved[l] \in 0 .. Lot /\ reserved'[l] \in 0 .. Lot
  BY <1>1 DEF Quantities
<1>4. Total(reserved, Legs) \in Nat /\ Total(reserved', Legs) \in Nat
  BY <1>1, TotalType
<1>5. Total(reserved', Legs) - reserved'[l] = Total(reserved, Legs) - reserved[l]
  BY <1>1, <1>2, TotalDiffers
<1>6. CASE gross' + reserved'[l] <= gross + reserved[l]
  <2>1. CASE Total(reserved, Legs) > 0
    <3>1. gross + Total(reserved, Legs) <= MaxGross
      BY <2>1 DEF Promised
    <3>2. gross' + Total(reserved', Legs) <= MaxGross
      BY <1>1, <1>3, <1>4, <1>5, <1>6, <3>1
    <3> QED BY <3>2 DEF Promised
  <2>2. CASE ~(Total(reserved, Legs) > 0)
    <3>1. Total(reserved, Legs) = 0
      BY <1>4, <2>2
    <3>2. reserved[l] = 0
      <4>1. {l} \in SUBSET Legs /\ Legs \in SUBSET Legs /\ \A m \in {l} : reserved[m] <= reserved[m]
        BY <1>3
      <4>2. Total(reserved, {l}) <= Total(reserved, Legs)
        BY <1>1, <4>1, TotalGrows
      <4>3. Total(reserved, {l}) = reserved[l]
        BY <1>1, TotalOfOne
      <4> QED BY <1>3, <3>1, <4>2, <4>3
    <3>3. Total(reserved', Legs) = reserved'[l]
      BY <1>3, <1>4, <1>5, <3>1, <3>2
    <3>4. reserved'[l] <= 0
      BY <1>1, <1>3, <1>6, <3>2 DEF Settles
    <3> QED BY <1>3, <3>3, <3>4 DEF Promised
  <2> QED BY <2>1, <2>2
<1>7. CASE Takes(l)
  <2>1. QuantityAllows(l[1]) /\ reserved'[l] = Lot /\ gross' = gross
    BY <1>7 DEF Takes
  <2>2. CASE l[1] \in posted
    <3>1. gross + Total(reserved, Legs) + Lot <= MaxGross
      BY <2>1, <2>2 DEF QuantityAllows, ReservedIn, Total
    <3>2. gross' + Total(reserved', Legs) <= MaxGross
      BY <1>1, <1>3, <1>4, <1>5, <2>1, <3>1
    <3> QED BY <3>2 DEF Promised
  <2>3. CASE l[1] \notin posted
    <3> DEFINE Own == LegsOf(l[1])
               Others == Legs \ LegsOf(l[1])
    <3>1. gross + Total(reserved, Others) + Cardinality(Ranks) * Lot <= MaxGross
      BY <2>1, <2>3 DEF QuantityAllows, EnvelopeFits, ReservedIn, Total
    <3>2. Own \in SUBSET Legs /\ Total(reserved', Own) <= 4 * Lot
      BY <1>1, TotalOfAttempt
    <3>3. l \in Own
      BY LegForm DEF LegsOf
    <3>4. /\ Others \in SUBSET Legs /\ Own \cap Others = {} /\ Own \cup Others = Legs
          /\ l \notin Others
      BY <3>2, <3>3
    <3> HIDE DEF Own, Others
    <3>5. \A m \in Others : reserved'[m] <= reserved[m]
      BY <1>1, <1>2, <3>4 DEF Quantities
    <3>6. Total(reserved', Others) <= Total(reserved, Others)
      BY <1>1, <3>4, <3>5, TotalGrows
    <3>7. Total(reserved', Legs) = Total(reserved', Own) + Total(reserved', Others)
      <4>1. Total(reserved', Own \cup Others) = Total(reserved', Own) + Total(reserved', Others)
        BY <1>1, <3>2, <3>4, TotalSplit
      <4> QED BY <3>4, <4>1
    <3>8. /\ Total(reserved', Own) \in Nat /\ Total(reserved', Others) \in Nat
          /\ Total(reserved, Others) \in Nat
      BY <1>1, <3>2, <3>4, TotalType
    <3>9. gross' + Total(reserved', Legs) <= MaxGross
      BY <1>1, <2>1, <3>1, <3>2, <3>6, <3>7, <3>8, RanksCount
    <3> QED BY <3>9 DEF Promised
  <2> QED BY <2>2, <2>3
<1> QED BY <1>6, <1>7 DEF Settles

LEMMA LegStepAccount ==
  ASSUME TypeOK, TypeOK', Account, NEW l \in Legs, OneLeg(l), Settles(l)
  PROVE  Account'
<1>1. /\ held \in Quantities /\ held' \in Quantities
      /\ gross \in Nat /\ gross' \in Nat /\ carried \in Nat /\ carried' = carried
  <2>1. gross \in Nat /\ gross' \in Nat /\ carried \in Nat
    BY DEF TypeOK
  <2> QED BY <2>1, QuantityTypes DEF OneLeg
<1>2. \A m \in Legs \ {l} : held[m] = held'[m]
  BY DEF OneLeg
<1>3. Legwise'
  <2>1. ASSUME NEW m \in Legs, m # l
        PROVE  /\ held'[m] > 0 => pc'[m] \in Settled
               /\ pc'[m] \in {"queued"} \cup InFlight => reserved'[m] = Lot
               /\ pc'[m] = "sent" => m[1] \in posted'
    <3>1. "parked" \in InFlight /\ "parked" \notin Settled /\ "turn" # "sent"
      BY DEF InFlight, Settled
    <3> QED BY <2>1, <3>1 DEF OneLeg, Account, Legwise, Settles
  <2>2. /\ held'[l] > 0 => pc'[l] \in Settled
        /\ pc'[l] \in {"queued"} \cup InFlight => reserved'[l] = Lot
        /\ pc'[l] = "sent" => l[1] \in posted'
    BY DEF Settles
  <2> QED BY <2>1, <2>2 DEF Legwise
<1>4. held[l] \in Nat /\ held'[l] \in Nat
  BY <1>1, TransportConstants DEF Quantities
<1> DEFINE H0 == Total(held, Legs)
           H1 == Total(held', Legs)
<1>5. H0 \in Nat /\ H1 \in Nat
  BY <1>1, TotalType
<1>6. H1 - held'[l] = H0 - held[l]
  BY <1>1, <1>2, TotalDiffers
<1>7. ~CancelRecordFails => Truthful'
  <2>1. ~CancelRecordFails /\ ~troubled
          => gross = carried + H0 /\ \A m \in Legs : pc[m] # "working"
    BY DEF Account, Truthful
  <2>2. ~CancelRecordFails /\ ~troubled'
          => ~troubled /\ pc'[l] # "working" /\ gross' - held'[l] = gross - held[l]
    BY DEF Settles
  <2>3. ~CancelRecordFails /\ ~troubled' => \A m \in Legs : pc'[m] # "working"
    BY <2>1, <2>2 DEF OneLeg
  <2> HIDE DEF H0, H1
  <2>4. ~CancelRecordFails /\ ~troubled' => gross' = carried' + H1
    BY <1>1, <1>4, <1>5, <1>6, <2>1, <2>2
  <2> QED BY <2>3, <2>4 DEF Truthful, H1
<1>8. Promised'
  BY LegStepPromised DEF Account
<1> QED BY <1>3, <1>7, <1>8 DEF Account

\* Only the post of a leg may raise what the broker may come to hold, and the check
\* right before it has counted every other leg and this one.
LEMMA LegStepCap ==
  ASSUME TypeOK, TypeOK', Account, ~CancelRecordFails, WithinCap, NEW l \in Legs, LegStep(l)
  PROVE  WithinCap'
<1>1. /\ held \in Quantities /\ reserved \in Quantities
      /\ Potential \in Quantities /\ Potential' \in Quantities
  BY QuantityTypes
<1>2. /\ MaxGross \in Nat /\ Lot \in Nat \ {0} /\ gross \in Nat
      /\ carried \in Nat /\ carried' = carried
  BY TransportConstants DEF TypeOK, LegStep, OneLeg
<1>3. \A m \in Legs \ {l} : Potential'[m] = Potential[m]
  BY DEF LegStep, OneLeg, Potential
<1>4. CASE Potential'[l] <= Potential[l]
  <2>1. \A m \in Legs : Potential'[m] <= Potential[m]
    BY <1>1, <1>3, <1>4 DEF Quantities
  <2>2. Total(Potential', Legs) <= Total(Potential, Legs)
    BY <1>1, <2>1, TotalGrows
  <2>3. Total(Potential', Legs) \in Nat /\ Total(Potential, Legs) \in Nat
    BY <1>1, TotalType
  <2> QED BY <1>2, <2>2, <2>3 DEF WithinCap
<1>5. CASE Posts(l)
  <2> DEFINE a == l[1]
             Sent == {m \in Legs : pc[m] = "sent"} \cup {l}
             Rest == Legs \ Sent
  <2>1. /\ ~troubled /\ QuantityAllows(a) /\ pc[l] = "turn" /\ pc'[l] = "sent"
        /\ UNCHANGED <<held, reserved, gross>>
    BY <1>5 DEF Posts, CanEnter, EntryOpen
  <2>2. (\A m \in Legs : pc[m] # "working") /\ gross = carried + Total(held, Legs)
    BY <2>1 DEF Account, Truthful
  <2>3. \A m \in Sent : Potential'[m] <= reserved[m]
    <3>1. \A m \in Sent : pc[m] \in InFlight
      BY <2>1 DEF InFlight
    <3>2. \A m \in Sent : reserved[m] = Lot
      BY <3>1 DEF Account, Legwise
    <3> QED BY <1>1, <1>2, <3>2 DEF Quantities
  <2>4. \A m \in Rest : Potential'[m] <= held[m]
    <3> SUFFICES ASSUME NEW m \in Rest PROVE Potential'[m] <= held[m]
      OBVIOUS
    <3>1. m \in Legs \ {l} /\ pc[m] # "sent" /\ pc[m] # "working"
      BY <2>2
    <3>2. Potential'[m] = held[m] /\ held[m] \in 0 .. Lot
      BY <1>1, <1>3, <3>1 DEF Potential, Quantities
    <3> QED BY <1>2, <3>2
  <2>5. Sent \in SUBSET Legs /\ Rest \in SUBSET Legs /\ Sent \cap Rest = {} /\ Sent \cup Rest = Legs
    OBVIOUS
  <2>6. \A m \in Legs : pc[m] = "sent" => m[1] \in posted
    BY DEF Account, Legwise
  <2>7. reserved[l] = Lot
    BY <2>1 DEF Account, Legwise, InFlight
  <2> HIDE DEF Rest, Sent
  <2>8. Total(Potential', Legs) = Total(Potential', Sent) + Total(Potential', Rest)
    <3>1. Total(Potential', Sent \cup Rest) = Total(Potential', Sent) + Total(Potential', Rest)
      BY <1>1, <2>5, TotalSplit
    <3> QED BY <2>5, <3>1
  <2>9. /\ Total(Potential', Sent) <= Total(reserved, Sent)
        /\ Total(Potential', Rest) <= Total(held, Legs)
    <3>1. Total(Potential', Sent) <= Total(reserved, Sent)
      BY <1>1, <2>3, <2>5, TotalGrows
    <3>2. Rest \in SUBSET Legs /\ Legs \in SUBSET Legs
      BY <2>5
    <3>3. Total(Potential', Rest) <= Total(held, Legs)
      BY <1>1, <2>4, <3>2, TotalGrows
    <3> QED BY <3>1, <3>3
  <2>10. gross + Total(reserved, Sent) <= MaxGross
    <3>1. CASE a \in posted
      <4>1. gross + Total(reserved, Legs) + Lot <= MaxGross
        BY <2>1, <3>1 DEF QuantityAllows, ReservedIn, Total
      <4>2. \A m \in Sent : reserved[m] <= reserved[m]
        BY <1>1, <2>5 DEF Quantities
      <4>3. Total(reserved, Sent) <= Total(reserved, Legs)
        BY <1>1, <2>5, <4>2, TotalGrows
      <4>4. Total(reserved, Sent) \in Nat /\ Total(reserved, Legs) \in Nat
        BY <1>1, <2>5, TotalType
      <4> QED BY <1>2, <4>1, <4>3, <4>4
    <3>2. CASE a \notin posted
      <4> DEFINE Others == Legs \ LegsOf(a)
                 Ahead == Sent \ {l}
      <4>1. gross + Total(reserved, Others) + Cardinality(Ranks) * Lot <= MaxGross
        BY <2>1, <3>2 DEF QuantityAllows, EnvelopeFits, ReservedIn, Total
      <4>2. Cardinality(Ranks) = 4
        BY RanksCount
      <4>3. Ahead \subseteq Others
        <5>1. \A m \in Ahead : pc[m] = "sent" /\ m \in Legs
          BY DEF Sent
        <5>2. \A m \in LegsOf(a) : m[1] = a
          BY DEF LegsOf
        <5> QED BY <2>6, <3>2, <5>1, <5>2
      <4>4. /\ Ahead \in SUBSET Legs /\ {l} \in SUBSET Legs /\ {l} \cap Ahead = {}
            /\ Sent = {l} \cup Ahead /\ Others \in SUBSET Legs
        BY <2>5 DEF Sent
      <4> HIDE DEF Others, Ahead
      <4>5. Total(reserved, Sent) = Total(reserved, {l}) + Total(reserved, Ahead)
        BY <1>1, <4>4, TotalSplit
      <4>6. Total(reserved, {l}) = Lot
        BY <1>1, <2>7, TotalOfOne
      <4>7. \A m \in Ahead : reserved[m] <= reserved[m]
        BY <1>1, <4>4 DEF Quantities
      <4>8. Total(reserved, Ahead) <= Total(reserved, Others)
        BY <1>1, <4>3, <4>4, <4>7, TotalGrows
      <4>9. Total(reserved, Ahead) \in Nat /\ Total(reserved, Others) \in Nat
        BY <1>1, <4>4, TotalType
      <4> QED BY <1>2, <4>1, <4>2, <4>5, <4>6, <4>8, <4>9
    <3> QED BY <3>1, <3>2
  <2>11. /\ Total(Potential', Sent) \in Nat /\ Total(Potential', Rest) \in Nat
         /\ Total(reserved, Sent) \in Nat /\ Total(held, Legs) \in Nat
    BY <1>1, <2>5, TotalType
  <2>12. carried' + Total(Potential', Legs) <= MaxGross
    BY <1>2, <2>2, <2>8, <2>9, <2>10, <2>11
  <2> QED BY <2>12 DEF WithinCap
<1> QED BY <1>4, <1>5 DEF LegStep

-----------------------------------------------------------------------------
\* Which steps are steps of one leg.
LEMMA EndsRight ==
  ASSUME IInv, Account, NEW l \in Legs, pc[l] \in InFlight, NEW st \in Settled,
         NEW p \in {Unproven} \cup 0 .. Lot, NEW keep \in 0 .. Lot, NEW f \in 0 .. Lot,
         Finish(l, st, p, keep),
         held' = [held EXCEPT ![l] = f],
         posted' = posted, gross' \in Nat, carried' = carried,
         gross <= gross', gross' + keep <= gross + Lot,
         st = "working" \/ f # 0 => pc[l] = "sent",
         ~CancelRecordFails /\ ~troubled' => ~troubled /\ st # "working" /\ gross' = gross + f
  PROVE  LegStep(l)
<1>1. /\ held \in [Legs -> 0 .. Lot] /\ reserved \in [Legs -> 0 .. Lot]
      /\ gross \in Nat /\ Lot \in Nat \ {0}
  BY TransportConstants DEF IInv, TypeOK
<1>2. DecisionDone(l, p, st) /\ reserved' = [reserved EXCEPT ![l] = keep]
  BY FinishEffect DEF IInv
<1>3. /\ pc'[l] = st /\ reserved'[l] = keep /\ held'[l] = f
      /\ \A m \in Legs \ {l} : held'[m] = held[m] /\ reserved'[m] = reserved[m]
  BY <1>1, <1>2 DEF DecisionDone
<1>4. OneLeg(l)
  BY <1>2, <1>3 DEF DecisionDone, OneLeg
<1>5. /\ pc[l] \notin Settled \cup {"idle"} /\ st \notin InFlight \cup {"idle", "queued"}
      /\ pc[l] # "working"
  BY DEF InFlight, Settled
<1>6. held[l] = 0 /\ reserved[l] = Lot
  <2>1. ~(held[l] > 0) /\ reserved[l] = Lot
    BY <1>5 DEF Account, Legwise
  <2> QED BY <1>1, <2>1
<1>7. Settles(l)
  <2>1. gross' + reserved'[l] <= gross + reserved[l] /\ gross <= gross'
    BY <1>1, <1>3, <1>6
  <2>2. ~CancelRecordFails /\ ~troubled'
          => ~troubled /\ pc'[l] # "working" /\ gross' - held'[l] = gross - held[l]
    BY <1>1, <1>3, <1>6
  <2>3. pc'[l] \in Settled /\ pc'[l] \notin {"queued", "sent"} \cup InFlight
    BY <1>3, <1>5 DEF InFlight
  <2> QED BY <2>1, <2>2, <2>3 DEF Settles
<1>8. Potential'[l] <= Potential[l]
  <2>1. CASE pc[l] = "sent"
    <3>1. Potential[l] = Lot /\ Potential'[l] \in 0 .. Lot
      BY <1>1, <1>3, <2>1 DEF Potential
    <3> QED BY <1>1, <3>1
  <2>2. CASE pc[l] # "sent" /\ f = 0
    <3>1. Potential[l] = 0 /\ Potential'[l] = 0
      BY <1>3, <1>5, <1>6, <2>2 DEF Potential, Settled
    <3> QED BY <3>1
  <2>3. CASE pc[l] # "sent" /\ f # 0
    BY <2>3
  <2> QED BY <2>1, <2>2, <2>3
<1> QED BY <1>4, <1>7, <1>8 DEF LegStep

\* A leg goes on outside the broker: queued, dispatched, claimed, refused.
LEMMA MovesRight ==
  ASSUME IInv, Account, NEW l \in Legs, pc[l] \in {"idle", "queued"} \cup InFlight,
         OneLeg(l),
         UNCHANGED <<carried, held, gross, troubled>>, posted \subseteq posted',
         pc'[l] \notin {"idle", "sent", "working"},
         pc'[l] \in {"queued"} \cup InFlight => reserved'[l] = Lot,
         reserved'[l] \in 0 .. Lot,
         Takes(l) \/ reserved'[l] <= reserved[l]
  PROVE  LegStep(l)
<1>1. /\ held \in [Legs -> 0 .. Lot] /\ reserved \in [Legs -> 0 .. Lot]
      /\ gross \in Nat /\ Lot \in Nat \ {0}
  BY TransportConstants DEF IInv, TypeOK
<1>2. /\ pc[l] \notin Settled /\ pc[l] # "working"
  BY DEF InFlight, Settled
<1>3. held[l] = 0 /\ held'[l] = 0
  <2>1. ~(held[l] > 0)
    BY <1>2 DEF Account, Legwise
  <2> QED BY <1>1, <2>1
<1>4. Takes(l) \/ gross' + reserved'[l] <= gross + reserved[l]
  BY <1>1
<1>5. Settles(l)
  <2>1. ~(held'[l] > 0)
    BY <1>3
  <2>2. ~CancelRecordFails /\ ~troubled'
          => ~troubled /\ pc'[l] # "working" /\ gross' - held'[l] = gross - held[l]
    BY <1>1, <1>3
  <2>3. gross <= gross'
    BY <1>1
  <2> QED BY <1>4, <2>1, <2>2, <2>3 DEF Settles
<1>6. Potential'[l] <= Potential[l]
  <2>1. Potential'[l] = 0
    BY <1>3 DEF Potential
  <2>2. Potential[l] \in {0, Lot}
    BY <1>3 DEF Potential
  <2> QED BY <1>1, <2>1, <2>2
<1> QED BY <1>5, <1>6 DEF LegStep

LEMMA SubmitLegMoves == ASSUME IInv, IInv', Account, SubmitLeg PROVE LegStep(tick)
<1>1. tick \in Legs /\ tick[1] \in Attempts /\ tick[2] \in Ranks /\ tick = <<tick[1], tick[2]>>
  BY LegForm DEF IInv, TypeOK, SubmitLeg
<1>2. pc[tick] = "idle"
  BY <1>1 DEF IInv, TickInv, Ranks
<1>3. UNCHANGED <<carried, held, gross, troubled, posted>>
  BY DEF SubmitLeg
<1>4. /\ reserved' \in [Legs -> 0 .. Lot] /\ reserved \in [Legs -> 0 .. Lot]
      /\ pc \in [Legs -> Pcs]
  BY DEF IInv, TypeOK
<1>5. CASE SubmitAdmitted(tick)
  <2>1. pc' = [pc EXCEPT ![tick] = "queued"] /\ reserved' = [reserved EXCEPT ![tick] = Lot]
    BY <1>5 DEF SubmitAdmitted
  <2>2. /\ pc'[tick] = "queued" /\ reserved'[tick] = Lot
        /\ \A m \in Legs \ {tick} : pc'[m] = pc[m] /\ reserved'[m] = reserved[m]
    BY <1>1, <1>4, <2>1
  <2>3. OneLeg(tick)
    BY <1>3, <2>2 DEF OneLeg
  <2>4. Takes(tick)
    BY <1>3, <1>5, <2>2 DEF Takes, SubmitAdmitted, CanEnter
  <2> QED BY <1>1, <1>2, <1>3, <1>4, <2>2, <2>3, <2>4, MovesRight
<1>6. CASE SubmitRefused(tick)
  <2>1. gate[tick[1]] \in Gates
    BY <1>1 DEF IInv, TypeOK
  <2>2. Register(gate[tick[1]], tick[2]) \in Gates
        /\ Register(gate[tick[1]], tick[2]).proof = gate[tick[1]].proof
    BY <1>1, <2>1, RegisterEffect
  <2>3. Decision(tick, Register(gate[tick[1]], tick[2]), Unproven, "done")
    BY <1>6 DEF SubmitRefused, Decision
  <2>4. "done" \in Pcs /\ Unproven \in {Unproven} \cup 0 .. Lot
    BY DEF Pcs, Settled
  <2>5. DecisionDone(tick, Unproven, "done")
    BY <1>1, <2>2, <2>3, <2>4, DecisionEffect DEF IInv
  <2>6. reserved' = reserved
    BY <1>6 DEF SubmitRefused
  <2>7. OneLeg(tick) /\ pc'[tick] = "done"
    BY <1>3, <2>5, <2>6 DEF OneLeg, DecisionDone
  <2>8. "done" \notin {"queued"} \cup InFlight
    BY DEF InFlight
  <2>9. reserved'[tick] <= reserved[tick]
    BY <1>1, <1>4, <2>6, TransportConstants
  <2> QED BY <1>1, <1>2, <1>3, <1>4, <2>7, <2>8, <2>9, MovesRight
<1> QED BY <1>5, <1>6 DEF SubmitLeg

LEMMA PumpEntryMoves ==
  ASSUME IInv, IInv', Account, PumpEntry
  PROVE  queue[1] \in Legs /\ LegStep(queue[1])
<1> DEFINE l == queue[1]
<1>1. queue \in Seq(Legs) /\ queue # <<>>
  BY DEF IInv, TypeOK, PumpEntry, Pumpable
<1>2. 1 \in 1 .. Len(queue) /\ l \in Legs /\ l[1] \in Attempts /\ l[2] \in Ranks
  BY <1>1, LegForm
<1>3. pc[l] = "queued"
  BY <1>2 DEF IInv, QueueInv
<1>4. /\ reserved' \in [Legs -> 0 .. Lot] /\ reserved \in [Legs -> 0 .. Lot]
      /\ pc \in [Legs -> Pcs] /\ Lot \in Nat
  BY TransportConstants DEF IInv, TypeOK
<1>5. UNCHANGED <<carried, held, gross, troubled, posted>> /\ (Dispatch(l) \/ DropQueued(l))
  BY DEF PumpEntry
<1>6. reserved[l] = Lot
  BY <1>2, <1>3 DEF Account, Legwise
<1> HIDE DEF l
<1>7. CASE Dispatch(l)
  <2>1. pc' = [pc EXCEPT ![l] = "create"] /\ reserved' = reserved
    BY <1>7 DEF Dispatch
  <2>2. /\ pc'[l] = "create"
        /\ \A m \in Legs \ {l} : pc'[m] = pc[m] /\ reserved'[m] = reserved[m]
    BY <1>2, <1>4, <2>1
  <2>3. OneLeg(l)
    BY <1>5, <2>2 DEF OneLeg
  <2> QED BY <1>2, <1>3, <1>4, <1>5, <1>6, <2>1, <2>2, <2>3, MovesRight DEF l
<1>8. CASE DropQueued(l)
  <2>1. gate[l[1]] \in Gates
    BY <1>2 DEF IInv, TypeOK
  <2>2. Decision(l, gate[l[1]], Unproven, "done")
    BY <1>8 DEF DropQueued, Decision
  <2>3. "done" \in Pcs /\ Unproven \in {Unproven} \cup 0 .. Lot
    BY DEF Pcs, Settled
  <2>4. DecisionDone(l, Unproven, "done")
    BY <1>2, <2>1, <2>2, <2>3, DecisionEffect DEF IInv
  <2>5. reserved' = [reserved EXCEPT ![l] = 0]
    BY <1>8 DEF DropQueued
  <2>6. OneLeg(l) /\ pc'[l] = "done" /\ reserved'[l] = 0
    BY <1>2, <1>4, <1>5, <2>4, <2>5 DEF OneLeg, DecisionDone
  <2>7. "done" \notin {"queued"} \cup InFlight
    BY DEF InFlight
  <2> QED BY <1>2, <1>3, <1>4, <1>5, <1>6, <2>6, <2>7, MovesRight DEF l
<1> QED BY <1>2, <1>5, <1>7, <1>8 DEF l

LEMMA RunsMoves == ASSUME IInv, IInv', Account, NEW l \in Legs, Runs(l) PROVE LegStep(l)
<1>1. /\ held \in [Legs -> 0 .. Lot] /\ reserved \in [Legs -> 0 .. Lot]
      /\ reserved' \in [Legs -> 0 .. Lot] /\ gross \in Nat /\ gross' \in Nat
      /\ pc \in [Legs -> Pcs] /\ Lot \in Nat \ {0}
      /\ troubled \in BOOLEAN /\ posted' \subseteq Attempts
      /\ l[1] \in Attempts
  BY LegForm, TransportConstants DEF IInv, TypeOK
<1>2. ASSUME pc[l] \in InFlight, NEW st \in InFlight \ {"sent"}, pc' = [pc EXCEPT ![l] = st],
             UNCHANGED <<carried, held, gross, troubled, reserved>>, posted \subseteq posted'
      PROVE  LegStep(l)
  <2>1. pc'[l] = st /\ \A m \in Legs \ {l} : pc'[m] = pc[m]
    BY <1>1, <1>2
  <2>2. OneLeg(l)
    BY <1>2, <2>1 DEF OneLeg
  <2>3. reserved[l] = Lot
    BY <1>2 DEF Account, Legwise
  <2>4. st \notin {"idle", "sent", "working"}
    BY <1>2 DEF InFlight
  <2> QED BY <1>1, <1>2, <2>1, <2>2, <2>3, <2>4, MovesRight
<1>3. CASE Created(l) \/ Claimed(l)
  <2>1. pc[l] \in InFlight /\ UNCHANGED <<carried, held, gross, troubled, posted>>
    BY <1>3 DEF Created, Claimed, InFlight
  <2>2. \E st \in {"claim", "turn", "parked", "refusing"} : pc' = [pc EXCEPT ![l] = st]
    BY <1>3 DEF Created, Claimed, Refuse
  <2>3. reserved' = reserved
    BY <1>3 DEF Created, Claimed, Refuse
  <2>4. {"claim", "turn", "parked", "refusing"} \subseteq InFlight \ {"sent"}
    BY DEF InFlight
  <2> QED BY <1>2, <2>1, <2>2, <2>3, <2>4
<1>4. CASE BeforePost(l)
  <2>1. /\ pc[l] = "turn" /\ pc[l] \in InFlight /\ UNCHANGED <<carried, held, gross, troubled>>
        /\ posted \subseteq posted' /\ reserved' = reserved
    BY <1>4 DEF BeforePost, Refuse, InFlight
  <2>2. CASE pc' = [pc EXCEPT ![l] = "refusing"]
    <3>1. "refusing" \in InFlight \ {"sent"}
      BY DEF InFlight
    <3> QED BY <1>2, <2>1, <2>2, <3>1
  <2>3. CASE pc' # [pc EXCEPT ![l] = "refusing"]
    <3>1. pc' = [pc EXCEPT ![l] = "sent"] /\ CanEnter(l[1]) /\ l[1] \in posted'
      BY <1>4, <2>3 DEF BeforePost, Refuse
    <3>2. pc'[l] = "sent" /\ \A m \in Legs \ {l} : pc'[m] = pc[m]
      BY <1>1, <3>1
    <3>3. OneLeg(l) /\ Posts(l)
      BY <2>1, <3>1, <3>2 DEF OneLeg, Posts
    <3>4. held[l] = 0 /\ reserved[l] = Lot
      <4>1. pc[l] \notin Settled
        BY <2>1 DEF Settled
      <4>2. ~(held[l] > 0) /\ reserved[l] = Lot
        BY <2>1, <4>1 DEF Account, Legwise
      <4> QED BY <1>1, <4>2
    <3>5. Settles(l)
      <4>1. gross' + reserved'[l] <= gross + reserved[l] /\ gross <= gross'
        BY <1>1, <2>1
      <4>2. gross' - held'[l] = gross - held[l] /\ ~(held'[l] > 0)
        BY <1>1, <2>1, <3>4
      <4> QED BY <2>1, <3>1, <3>2, <3>4, <4>1, <4>2 DEF Settles
    <3> QED BY <3>3, <3>5 DEF LegStep
  <2> QED BY <2>2, <2>3
<1>5. CASE RefusalRecorded(l) \/ OtherOwner(l) \/ DatabaseFails(l)
  <2>1. /\ Finish(l, "done", Unproven, 0) /\ pc[l] \in InFlight /\ pc[l] # "sent"
        /\ UNCHANGED <<carried, held, gross, posted>> /\ (~troubled' => ~troubled)
    <3>1. /\ Finish(l, "done", Unproven, 0)
          /\ UNCHANGED <<carried, held, gross, posted>>
      BY <1>5, Zenon DEF RefusalRecorded, OtherOwner, DatabaseFails
    <3>2. ~troubled' => ~troubled
      BY <1>5, Zenon DEF RefusalRecorded, OtherOwner, DatabaseFails
    <3>3. pc[l] \in {"create", "claim", "refusing"}
      BY <1>5 DEF RefusalRecorded, OtherOwner, DatabaseFails
    <3> QED BY <3>1, <3>2, <3>3 DEF InFlight
  <2>2. held[l] = 0
    <3>1. pc[l] \notin Settled
      BY <2>1 DEF Settled, InFlight
    <3>2. ~(held[l] > 0)
      BY <3>1 DEF Account, Legwise
    <3> QED BY <1>1, <3>2
  <2>3. held' = [held EXCEPT ![l] = 0]
    BY <1>1, <2>1, <2>2
  <2>4. /\ "done" \in Settled /\ Unproven \in {Unproven} \cup 0 .. Lot /\ 0 \in 0 .. Lot
        /\ gross <= gross' /\ gross' + 0 <= gross + Lot /\ gross' = gross + 0
    BY <1>1, <2>1 DEF Settled
  <2> QED BY <1>1, <2>1, <2>3, <2>4, EndsRight
<1>6. CASE Outcome(l)
  <2>1. PICK f \in 0 .. Lot :
          \/ Final(l, f) \/ Unrecorded(l, f) \/ Unattended(l, f)
          \/ \E g \in 0 .. f : Ambiguous(l, f, g)
    BY <1>6 DEF Outcome
  <2>2. /\ pc[l] = "sent" /\ pc[l] \in InFlight /\ held' = [held EXCEPT ![l] = f]
        /\ posted' = posted /\ carried' = carried
    BY <2>1 DEF Final, Unrecorded, Unattended, Ambiguous, InFlight
  <2>3. /\ {"done", "working"} \subseteq Settled /\ 0 \in 0 .. Lot /\ f \in 0 .. Lot
        /\ Unproven \in {Unproven} \cup 0 .. Lot /\ f \in {Unproven} \cup 0 .. Lot
    BY <1>1 DEF Settled
  <2>4. CASE Final(l, f)
    <3>1. Finish(l, "done", f, 0) /\ gross' = gross + f /\ (troubled => troubled')
      BY <2>4 DEF Final, Attributed
    <3>2. gross <= gross' /\ gross' + 0 <= gross + Lot
      BY <1>1, <2>3, <3>1
    <3> QED BY <1>1, <2>2, <2>3, <3>1, <3>2, EndsRight
  <2>5. CASE Unrecorded(l, f)
    <3>1. Finish(l, "done", Unproven, 0) /\ gross' = gross
      BY <2>5 DEF Unrecorded
    <3>2. ~troubled' => ~troubled /\ ~(f > 0)
      BY <2>5, Zenon DEF Unrecorded
    <3>3. gross <= gross' /\ gross' + 0 <= gross + Lot /\ (~(f > 0) => gross' = gross + f)
      BY <1>1, <2>3, <3>1
    <3> QED BY <1>1, <2>2, <2>3, <3>1, <3>2, <3>3, EndsRight
  <2>6. CASE Unattended(l, f)
    <3>1. Finish(l, "working", Unproven, 0) /\ gross' \in {gross, gross + f}
      BY <2>6, Zenon DEF Unattended, Attributed
    <3>2. ~CancelRecordFails => troubled'
      BY <2>6, Zenon DEF Unattended
    <3>3. gross <= gross' /\ gross' + 0 <= gross + Lot
      <4>1. CASE gross' = gross
        BY <1>1, <4>1
      <4>2. CASE gross' = gross + f
        BY <1>1, <4>2
      <4> QED BY <3>1, <4>1, <4>2
    <3> QED BY <1>1, <2>2, <2>3, <3>1, <3>2, <3>3, EndsRight
  <2>7. CASE \E g \in 0 .. f : Ambiguous(l, f, g)
    <3>1. PICK g \in 0 .. f : Ambiguous(l, f, g)
      BY <2>7
    <3>2. f \in 0 .. Lot /\ g \in 0 .. f /\ g \in 0 .. Lot
      BY <1>1
    <3>3. /\ Unfilled(g) \in 0 .. Lot /\ gross + g + Unfilled(g) <= gross + Lot
          /\ gross <= gross + g
      BY <1>1, <3>2 DEF Unfilled
    <3>4. troubled' = TRUE
      BY <3>1 DEF Ambiguous
    <3>5. PICK keep \in 0 .. Lot :
            /\ Finish(l, "working", Unproven, keep)
            /\ gross <= gross' /\ gross' + keep <= gross + Lot
      <4>1. CASE gross' = gross + g /\ Finish(l, "working", Unproven, Unfilled(g))
        BY <3>3, <4>1
      <4>2. CASE gross' = gross /\ Finish(l, "working", Unproven, 0)
        BY <1>1, <2>3, <4>2
      <4> QED BY <3>1, <4>1, <4>2 DEF Ambiguous, Attributed
    <3> QED BY <1>1, <2>2, <2>3, <3>4, <3>5, EndsRight
  <2> QED BY <2>1, <2>4, <2>5, <2>6, <2>7
<1> QED BY <1>3, <1>4, <1>5, <1>6 DEF Runs

\* The broker goes on filling: only what is held moves, below what was reckoned with.
LEMMA FillsLateMoves ==
  ASSUME IInv, IInv', Account, NEW l \in Legs, FillsLate(l)
  PROVE  LegStep(l)
<1>1. /\ held \in [Legs -> 0 .. Lot] /\ held' \in [Legs -> 0 .. Lot]
      /\ reserved \in [Legs -> 0 .. Lot] /\ gross \in Nat /\ Lot \in Nat
  BY TransportConstants DEF IInv, TypeOK
<1>2. /\ pc[l] = "working" /\ held' = [held EXCEPT ![l] = held[l] + 1]
      /\ UNCHANGED <<pc, reserved, carried, gross, posted, troubled>>
  BY DEF FillsLate
<1>3. OneLeg(l)
  BY <1>1, <1>2 DEF OneLeg
<1>4. Settles(l)
  <2>1. /\ pc'[l] \in Settled /\ pc'[l] \notin {"queued", "sent"} \cup InFlight
    BY <1>2 DEF Settled, InFlight
  <2>2. gross' + reserved'[l] <= gross + reserved[l] /\ gross <= gross'
    BY <1>1, <1>2
  <2>3. ~CancelRecordFails => troubled'
    BY <1>2 DEF Account, Truthful
  <2> QED BY <1>2, <2>1, <2>2, <2>3 DEF Settles
<1>5. Potential'[l] <= Potential[l]
  <2>1. Potential'[l] = Lot /\ Potential[l] = Lot
    BY <1>2 DEF Potential
  <2> QED BY <1>1, <2>1
<1> QED BY <1>3, <1>4, <1>5 DEF LegStep

LEMMA StillAccount ==
  ASSUME UNCHANGED <<pc, held, reserved, carried, gross, posted, troubled>>, Account
  PROVE  Account' /\ Potential' = Potential /\ carried' = carried
<1>1. Potential' = Potential
  BY DEF Potential
<1>2. Legwise'
  BY DEF Account, Legwise
<1>3. Promised'
  BY DEF Account, Promised
<1>4. ~CancelRecordFails => Truthful'
  BY DEF Account, Truthful
<1> QED BY <1>1, <1>2, <1>3, <1>4 DEF Account

\* dispose gives back the reservations of the queue and sends nothing.
LEMMA DisposeAccount ==
  ASSUME IInv, IInv', Account, Dispose
  PROVE  Account' /\ Potential' = Potential /\ carried' = carried
<1>1. /\ pc' = [l \in Legs |-> IF pc[l] = "parked" THEN "turn"
                               ELSE IF pc[l] = "queued" THEN "done" ELSE pc[l]]
      /\ reserved' = [l \in Legs |-> IF pc[l] = "queued" THEN 0 ELSE reserved[l]]
      /\ UNCHANGED <<posted, carried, gross, held, troubled>>
  BY DEF Dispose
<1>2. /\ reserved \in Quantities /\ reserved' \in Quantities
      /\ gross \in Nat /\ MaxGross \in Nat
  BY QuantityTypes, TransportConstants DEF IInv, TypeOK
<1>3. Potential' = Potential
  BY <1>1 DEF Potential
<1>4. Legwise'
  <2>1. /\ "parked" \in InFlight \ Settled /\ "queued" \notin Settled \cup InFlight
        /\ "done" \notin {"queued"} \cup InFlight
    BY DEF InFlight, Settled
  <2> SUFFICES ASSUME NEW l \in Legs
               PROVE  /\ held'[l] > 0 => pc'[l] \in Settled
                      /\ pc'[l] \in {"queued"} \cup InFlight => reserved'[l] = Lot
                      /\ pc'[l] = "sent" => l[1] \in posted'
    BY DEF Legwise
  <2>2. /\ held[l] > 0 => pc[l] \in Settled
        /\ pc[l] \in {"queued"} \cup InFlight => reserved[l] = Lot
        /\ pc[l] = "sent" => l[1] \in posted
    BY DEF Account, Legwise
  <2>3. CASE pc[l] = "queued"
    <3>1. pc'[l] = "done" /\ held'[l] = held[l]
      BY <1>1, <2>3
    <3> QED BY <2>1, <2>2, <2>3, <3>1
  <2>4. CASE pc[l] = "parked"
    <3>1. pc'[l] = "turn" /\ held'[l] = held[l] /\ reserved'[l] = reserved[l]
      BY <1>1, <2>4
    <3> QED BY <2>1, <2>2, <2>4, <3>1
  <2>5. CASE pc[l] \notin {"queued", "parked"}
    <3>1. pc'[l] = pc[l] /\ held'[l] = held[l] /\ reserved'[l] = reserved[l]
      BY <1>1, <2>5
    <3> QED BY <1>1, <2>2, <3>1
  <2> QED BY <2>3, <2>4, <2>5
<1>5. Promised'
  <2>1. \A l \in Legs : reserved'[l] <= reserved[l]
    BY <1>1, <1>2, TransportConstants DEF Quantities
  <2>2. Total(reserved', Legs) <= Total(reserved, Legs)
    BY <1>2, <2>1, TotalGrows
  <2>3. Total(reserved', Legs) \in Nat /\ Total(reserved, Legs) \in Nat
    BY <1>2, TotalType
  <2>4. Total(reserved', Legs) > 0 => gross + Total(reserved', Legs) <= MaxGross
    BY <1>2, <2>2, <2>3 DEF Account, Promised
  <2> QED BY <1>1, <2>4 DEF Promised
<1>6. ~CancelRecordFails => Truthful'
  BY <1>1 DEF Account, Truthful
<1> QED BY <1>1, <1>3, <1>4, <1>5, <1>6 DEF Account

LEMMA InitAccount == Init => Account /\ WithinCap
<1> SUFFICES ASSUME Init PROVE Account /\ WithinCap
  OBVIOUS
<1>1. /\ held \in Quantities /\ Lot \in Nat /\ carried \in Nat
  BY TransportConstants DEF Init, Quantities
<1>2. Legwise
  BY DEF Init, Legwise, InFlight
<1>3. Potential = held /\ held = reserved
  BY DEF Init, Potential
<1>4. Total(held, Legs) = 0
  <2>1. \A l \in Legs : held[l] = 0
    BY DEF Init
  <2>2. Cells(held, Legs) = {}
    BY <1>1, <2>1 DEF Cells
  <2> QED BY <1>1, <2>2, TotalCounts, FS_EmptySet
<1>5. gross = carried /\ \A l \in Legs : pc[l] # "working"
  BY DEF Init
<1> QED BY <1>1, <1>2, <1>3, <1>4, <1>5 DEF Account, Promised, Truthful, WithinCap

\* Every step is a step of one leg, or leaves what is held and reserved alone, or is
\* dispose.
LEMMA StepShape ==
  ASSUME IInv, IInv', Account, [Next]_vars
  PROVE  \/ \E l \in Legs : LegStep(l)
         \/ UNCHANGED <<pc, held, reserved, carried, gross, posted, troubled>>
         \/ Dispose
<1> DEFINE Still == UNCHANGED <<pc, held, reserved, carried, gross, posted, troubled>>
<1>1. CASE SubmitLeg
  <2>1. tick \in Legs
    BY <1>1 DEF IInv, TypeOK, SubmitLeg
  <2> QED BY <1>1, <2>1, SubmitLegMoves
<1>2. CASE PumpEntry
  BY <1>2, PumpEntryMoves
<1>3. ASSUME NEW l \in Legs, Runs(l) \/ FillsLate(l) PROVE LegStep(l)
  BY <1>3, RunsMoves, FillsLateMoves
<1>4. CASE \/ \E a \in Attempts : BeginAttempt(a)
           \/ PumpProtective \/ SubmitProtective \/ ProtectiveEnds \/ OutsideChanges
           \/ UNCHANGED vars
  <2>1. Still
    BY <1>4 DEF BeginAttempt, PumpProtective, SubmitProtective, ProtectiveEnds,
                OutsideChanges, vars
  <2> QED BY <2>1
<1> QED BY <1>1, <1>2, <1>3, <1>4 DEF Next, Progress, Pump

LEMMA NextAccount == ASSUME IInv, IInv', Account, [Next]_vars PROVE Account'
<1>1. ASSUME NEW l \in Legs, LegStep(l) PROVE Account'
  BY <1>1, LegStepAccount DEF IInv, LegStep
<1> QED BY <1>1, StepShape, StillAccount, DisposeAccount

LEMMA NextWithinCap ==
  ASSUME IInv, IInv', Account, ~CancelRecordFails, WithinCap, [Next]_vars
  PROVE  WithinCap'
<1>1. ASSUME NEW l \in Legs, LegStep(l) PROVE WithinCap'
  BY <1>1, LegStepCap DEF IInv
<1>2. ASSUME Potential' = Potential, carried' = carried PROVE WithinCap'
  BY <1>2 DEF WithinCap
<1> QED BY <1>1, <1>2, StepShape, StillAccount, DisposeAccount

-----------------------------------------------------------------------------
\* The accounts of quantity hold of every behaviour, from the reservation of a leg to
\* its attributed fill (reduceReservationByFill, persistOrder, releaseReservation): what
\* is reserved fits under the cap beside what is attributed, and while entry may still open
\* nothing the broker holds is missing, if the record of an order left working does not fail.
THEOREM AccountsKept == Spec => []Account
<1>1. IInv /\ IInv' /\ Account /\ [Next]_vars => Account'
  BY NextAccount
<1>2. Init => Account
  BY InitAccount
<1> QED BY <1>1, <1>2, TransportInvariant, PTL DEF Spec

\* The broker never fills more than the gross cap, for any cap, lot and number of
\* attempts (quantityLimitBlockReason, entryQuantityEnvelopeBlockReason): provided that
\* a cancel that could not be sent is recorded.  Without the proviso it is false.
THEOREM CapIsKept == ~CancelRecordFails => (Spec => []GrossWithinCap)
<1> SUFFICES ASSUME ~CancelRecordFails PROVE Spec => []GrossWithinCap
  OBVIOUS
<1>1. IInv /\ IInv' /\ Account /\ WithinCap /\ [Next]_vars => WithinCap'
  BY NextWithinCap
<1>2. Init => WithinCap
  BY InitAccount
<1>3. IInv /\ WithinCap => GrossWithinCap
  <2> SUFFICES ASSUME IInv, WithinCap PROVE GrossWithinCap
    OBVIOUS
  <2>1. /\ held \in Quantities /\ Potential \in Quantities
        /\ \A l \in Legs : held[l] <= Potential[l]
    BY TransportConstants DEF IInv, TypeOK, Quantities, Potential
  <2>2. Total(held, Legs) <= Total(Potential, Legs)
    BY <2>1, TotalGrows
  <2>3. /\ Total(held, Legs) \in Nat /\ Total(Potential, Legs) \in Nat
        /\ MaxGross \in Nat /\ carried \in Nat
    BY <2>1, TotalType, TransportConstants DEF IInv, TypeOK
  <2>4. Total(held, Legs) > 0 => carried + Total(held, Legs) <= MaxGross
    BY <2>2, <2>3 DEF WithinCap
  <2> QED BY <2>4 DEF GrossWithinCap, Total
<1> QED BY <1>1, <1>2, <1>3, TransportInvariant, AccountsKept, PTL DEF Spec

LEMMA AccountLeavesRoom == ASSUME IInv, Account PROVE EnvelopeHonoured
<1> SUFFICES ASSUME NEW l \in Legs, pc[l] \in {"queued", "create", "claim", "parked", "turn"}
             PROVE  gross + ReservedIn(Legs \ {l}) + Lot <= MaxGross
  BY DEF EnvelopeHonoured
<1>1. /\ reserved \in Quantities /\ gross \in Nat
      /\ Lot \in Nat \ {0} /\ MaxGross \in Nat
  BY TransportConstants DEF IInv, TypeOK, Quantities
<1>2. reserved[l] = Lot
  <2>1. {"create", "claim", "parked", "turn"} \subseteq InFlight
    BY DEF InFlight
  <2> QED BY <2>1 DEF Account, Legwise
<1> DEFINE Rest == Legs \ {l}
<1>3. /\ {l} \in SUBSET Legs /\ Rest \in SUBSET Legs
      /\ {l} \cap Rest = {} /\ {l} \cup Rest = Legs
  OBVIOUS
<1>4. ReservedIn(Rest) = Total(reserved, Rest)
  BY DEF ReservedIn, Total
<1> HIDE DEF Rest
<1>5. Total(reserved, Legs) = Total(reserved, {l}) + Total(reserved, Rest)
  <2>1. Total(reserved, {l} \cup Rest) = Total(reserved, {l}) + Total(reserved, Rest)
    BY <1>1, <1>3, TotalSplit
  <2> QED BY <1>3, <2>1
<1>6. Total(reserved, {l}) = Lot
  BY <1>1, <1>2, TotalOfOne
<1>7. Total(reserved, Rest) \in Nat
  BY <1>1, <1>3, TotalType
<1>8. Total(reserved, Legs) > 0
  BY <1>1, <1>5, <1>6, <1>7
<1>9. gross + Total(reserved, Legs) <= MaxGross
  BY <1>8 DEF Account, Promised
<1>10. gross + Total(reserved, Rest) + Lot <= MaxGross
  BY <1>1, <1>5, <1>6, <1>7, <1>9
<1> QED BY <1>4, <1>10 DEF Rest

\* Once a leg of an attempt is admitted the cap has room for it until it is sent, whatever
\* else is reserved, filled, released or admitted meanwhile, for every cap, lot and carried
\* quantity, exactly four lots of room included ("no hedge is acquired against a cap the
\* attempt cannot satisfy", entryQuantityEnvelopeBlockReason).
THEOREM EnvelopeIsHonoured == Spec => []EnvelopeHonoured
<1>1. IInv /\ Account => EnvelopeHonoured
  BY AccountLeavesRoom
<1> QED BY <1>1, TransportInvariant, AccountsKept, PTL
=============================================================================
