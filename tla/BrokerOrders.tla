---------------------------- MODULE BrokerOrders ----------------------------
(***************************************************************************)
(* The values the order path works on, and the pure rules that combine     *)
(* them: what a broker status means (kiteBrokerAdapter.ts kiteState), when *)
(* a report is evidence of an execution (brokerExecutionEvidence.ts), and  *)
(* which of two observations of the same order stands, field by field      *)
(* (brokerOrderMerge.ts).  No state: the machines that use these rules are *)
(* OrderProjection and OrderIntents.                                       *)
(*                                                                         *)
(* An order is for a fixed quantity Qty, and a snapshot keeps              *)
(*   state  - the lifecycle label;                                         *)
(*   filled - the cumulative filled quantity;                              *)
(*   bid    - whether the broker's order id is known: one order per client *)
(*            identity, so the id is a Boolean;                            *)
(*   avg    - the average price, represented by the cumulative quantity it *)
(*            is the average OF (0 when no price is known).                *)
(***************************************************************************)
EXTENDS Integers, FiniteSets

CONSTANT Qty                       \* the quantity an order asks for

ASSUME QtyPositive == Qty \in Nat \ {0}

Terminal == {"COMPLETE", "CANCELLED", "REJECTED"}

Uncertain == {"UNKNOWN", "RECONCILIATION_REQUIRED"}

WorkingStates == {"CREATED", "SUBMITTING", "ACKNOWLEDGED", "OPEN",
                  "PARTIALLY_FILLED", "CANCEL_REQUESTED"}

OrderStates == Terminal \cup Uncertain \cup WorkingStates

Snapshots == [state : OrderStates, filled : 0 .. Qty, bid : BOOLEAN, avg : 0 .. Qty]

Absent == -1                       \* a field the broker's payload did not carry

\* What the transport can report of an order: a status label, the cumulative
\* quantity and the average price, each of the last two possibly missing.
Labels == {"PUT ORDER REQ RECEIVED", "OPEN", "CANCEL PENDING",
           "COMPLETE", "CANCELLED", "REJECTED"}

Reports == [label : Labels, qty : {Absent} \cup 0 .. Qty, price : {Absent} \cup 1 .. Qty]

\* Mutant of KiteState: the partial fill is looked at before the label.
KiteStateFillFirst(label, filled) ==
  IF filled \in 1 .. Qty - 1 THEN "PARTIALLY_FILLED"
  ELSE IF label \in Terminal THEN label
  ELSE IF label = "CANCEL PENDING" THEN "CANCEL_REQUESTED"
  ELSE IF label = "OPEN" THEN "OPEN" ELSE "ACKNOWLEDGED"

KiteState(label, filled) ==
  IF label \in Terminal THEN label
  ELSE IF label = "CANCEL PENDING" THEN "CANCEL_REQUESTED"
  ELSE IF filled \in 1 .. Qty - 1 THEN "PARTIALLY_FILLED"
  ELSE IF label = "OPEN" THEN "OPEN" ELSE "ACKNOWLEDGED"

(***************************************************************************)
(* evaluateExecutionEvidence: a label that freezes the accounting, without *)
(* a cumulative quantity, is not an execution record.                      *)
(***************************************************************************)
Freezes(state) == state \in Terminal \cup {"PARTIALLY_FILLED"}

Larger(a, b) == IF a >= b THEN a ELSE b

EvidenceSufficient(report, prior) ==
  \/ report.qty # Absent
  \/ ~Freezes(KiteState(report.label, prior))

EvidenceFilled(report, prior) == Larger(report.qty, prior)

EvidencePrice(report, prior) ==
  IF report.price = Absent \/ (report.qty # Absent /\ EvidenceFilled(report, prior) = 0)
  THEN 0 ELSE report.price

\* A REST row, projected on what the session already holds (prior quantity).
Normalize(report, prior) ==
  LET filled == EvidenceFilled(report, prior)
  IN  [state  |-> IF EvidenceSufficient(report, prior)
                  THEN KiteState(report.label, filled)
                  ELSE "RECONCILIATION_REQUIRED",
       filled |-> filled,
       bid    |-> TRUE,
       avg    |-> EvidencePrice(report, prior)]

\* An order-update event of the stream, projected on the known snapshot.
FromStream(report, known) ==
  LET filled == IF report.qty # Absent THEN report.qty ELSE known.filled
  IN  [state  |-> IF EvidenceSufficient(report, known.filled)
                  THEN KiteState(report.label, filled) ELSE known.state,
       filled |-> filled,
       bid    |-> TRUE,
       avg    |-> EvidencePrice(report, known.filled)]

(***************************************************************************)
(* mergeBrokerOrderSnapshot.                                               *)
(***************************************************************************)
Rank(state) ==
  CASE state = "CREATED" -> 0
    [] state = "SUBMITTING" -> 1
    [] state = "ACKNOWLEDGED" -> 2
    [] state = "OPEN" -> 3
    [] state = "PARTIALLY_FILLED" -> 4
    [] state = "CANCEL_REQUESTED" -> 5
    [] OTHER -> -1

\* Positive when the candidate advances the fill, negative when it is older.
\* observed is the raw quantity of the payload behind the candidate.
CompareObservation(observed, cur) ==
  IF observed = Absent THEN (IF cur.filled > 0 THEN -1 ELSE 0)
  ELSE observed - cur.filled

BothTerminal(cur, cand, accepted) ==
  LET labels == {cur.state, cand.state}
  IN  IF "REJECTED" \in labels /\ accepted > 0 THEN "RECONCILIATION_REQUIRED"
      ELSE IF "COMPLETE" \in labels /\ accepted < Qty THEN "RECONCILIATION_REQUIRED"
      ELSE IF accepted >= Qty THEN "COMPLETE"
      ELSE IF cur.state = cand.state THEN cur.state
      ELSE "CANCELLED"             \* one side cancelled, the other rejected, no fill

CachedTerminal(cur, accepted) ==
  IF cur.state = "REJECTED" /\ accepted > 0 THEN "RECONCILIATION_REQUIRED"
  ELSE IF cur.state = "CANCELLED" /\ accepted >= Qty THEN "COMPLETE"
  ELSE cur.state

\* Mutant of ObservedTerminal: the broker's label is taken at its word.
ObservedTerminalTrusted(cand, accepted) == cand.state

ObservedTerminal(cand, accepted) ==
  IF cand.state = "REJECTED" /\ accepted > 0 THEN "RECONCILIATION_REQUIRED"
  ELSE IF cand.state = "CANCELLED" /\ accepted >= Qty THEN "COMPLETE"
  ELSE IF cand.state = "COMPLETE" /\ accepted < Qty THEN "RECONCILIATION_REQUIRED"
  ELSE cand.state

\* A working label under a partial fill reads PARTIALLY_FILLED.
Promote(state, accepted) ==
  IF accepted \in 1 .. Qty - 1 /\ Rank(state) < Rank("PARTIALLY_FILLED")
  THEN "PARTIALLY_FILLED" ELSE state

NeitherTerminal(cur, cand, accepted, stale) ==
  IF "RECONCILIATION_REQUIRED" \in {cur.state, cand.state} THEN "RECONCILIATION_REQUIRED"
  ELSE IF stale
       THEN IF cur.state = "UNKNOWN" THEN "UNKNOWN" ELSE Promote(cur.state, accepted)
  ELSE IF cand.state = "UNKNOWN" THEN "UNKNOWN"
  ELSE IF Promote(cand.state, accepted) # cand.state THEN "PARTIALLY_FILLED"
  ELSE IF Rank(cand.state) >= Rank(cur.state) THEN cand.state ELSE cur.state

\* Mutant of ResolveState: whatever is not older replaces the label.
ResolveStateNewest(cur, cand, accepted, stale) ==
  IF stale THEN cur.state ELSE cand.state

ResolveState(cur, cand, accepted, stale) ==
  IF cur.state \in Terminal
  THEN IF cand.state \in Terminal THEN BothTerminal(cur, cand, accepted)
                                  ELSE CachedTerminal(cur, accepted)
  ELSE IF cand.state \in Terminal THEN ObservedTerminal(cand, accepted)
                                  ELSE NeitherTerminal(cur, cand, accepted, stale)

ResolvePrice(cur, cand, accepted, comparison) ==
  IF accepted = 0 THEN 0
  ELSE IF comparison > 0 \/ (comparison = 0 /\ cand.avg # 0) THEN cand.avg
  ELSE cur.avg

\* Mutant of Merge: the answer processed last replaces the entry.
MergeLastWins(cur, cand, observed) ==
  [cand EXCEPT !.filled = IF observed = Absent THEN cur.filled ELSE observed]

Merge(cur, cand, observed) ==
  LET accepted   == Larger(cur.filled, cand.filled)
      comparison == CompareObservation(observed, cur)
  IN  [state  |-> ResolveState(cur, cand, accepted, comparison < 0),
       filled |-> accepted,
       bid    |-> cur.bid \/ cand.bid,
       avg    |-> ResolvePrice(cur, cand, accepted, comparison)]

\* quarantine: the uncertain label, unless the session already knows the end.
Quarantine(cur) ==
  IF cur.state \in Terminal THEN cur
  ELSE Merge(cur, [cur EXCEPT !.state = "RECONCILIATION_REQUIRED"], cur.filled)

\* verifyZeroBrokerExposure: the only reading of a rejection that proves the
\* request left nothing behind.
ZeroExposureProven(order) == order.state = "REJECTED" /\ order.filled = 0

=============================================================================
