--------------------------- MODULE OrderProjection ---------------------------
(***************************************************************************)
(* The session's projection of ONE broker order: the entry that the live   *)
(* Kite adapter keeps for a client order id (kiteBrokerAdapter.ts orders), *)
(* fed by two unordered sources.  A REST read is answered some time after  *)
(* the broker computed the answer, and order-update events of the stream   *)
(* arrive late, repeated, out of order or not at all.  Each one is merged  *)
(* by the rules of BrokerOrders into the entry as it is when the answer is *)
(* processed, without an await in between.                                 *)
(*                                                                         *)
(* The broker side is what the adapter can observe of the exchange: the    *)
(* order opens, fills, is cancelled or rejected, and a cancelled order may *)
(* still be credited with a fill that raced the cancellation.              *)
(***************************************************************************)
EXTENDS BrokerOrders

CONSTANTS None,
          MaxEvents,               \* bound: distinct stream events in flight
          MaxGaps,                 \* bound: payloads with a field missing
          MaxDoubts                \* bound: quarantines, empty reads, refused placements

ASSUME ProjectionConstants == {MaxEvents, MaxGaps, MaxDoubts} \subseteq Nat

VARIABLES record,                  \* the broker's own record: [label, filled]
          rest,                    \* the REST answer on its way, or None
          events,                  \* stream events not yet (or again) delivered
          post,                    \* the placement call: "waiting" or "answered"
          cache,                   \* the adapter's entry for the order
          told,                    \* history: the largest cumulative quantity reported
          gaps, doubts

projectionVars == <<record, rest, events, post, cache, told, gaps, doubts>>

ProjectionTypeOK ==
  /\ record \in [label : Labels, filled : 0 .. Qty]
  /\ rest \in Reports \cup {None}
  /\ events \subseteq Reports
  /\ post \in {"waiting", "answered"}
  /\ cache \in Snapshots
  /\ told \in 0 .. Qty
  /\ gaps \in 0 .. MaxGaps
  /\ doubts \in 0 .. MaxDoubts

\* submitOrder has put the entry into the session map and sent the placement.
ProjectionInit ==
  /\ record = [label |-> "PUT ORDER REQ RECEIVED", filled |-> 0]
  /\ rest = None
  /\ events = {}
  /\ post = "waiting"
  /\ cache = [state |-> "SUBMITTING", filled |-> 0, bid |-> FALSE, avg |-> 0]
  /\ told = 0
  /\ gaps = 0
  /\ doubts = 0

Session == <<rest, events, post, cache, told, gaps, doubts>>

-----------------------------------------------------------------------------
(* The exchange. *)

BrokerOpens ==
  /\ record.label = "PUT ORDER REQ RECEIVED"
  /\ record' = [record EXCEPT !.label = "OPEN"]
  /\ UNCHANGED Session

\* The last unit completes the order unless it is already cancelled: then it
\* is a late fill under the label CANCELLED.
BrokerFills ==
  /\ record.label \in {"OPEN", "CANCEL PENDING", "CANCELLED"}
  /\ record.filled < Qty
  /\ record' = [label  |-> IF record.filled + 1 = Qty /\ record.label # "CANCELLED"
                          THEN "COMPLETE" ELSE record.label,
               filled |-> record.filled + 1]
  /\ UNCHANGED Session

BrokerCancels ==
  /\ \/ record.label = "OPEN" /\ record' = [record EXCEPT !.label = "CANCEL PENDING"]
     \/ record.label \in {"OPEN", "CANCEL PENDING"} /\ record' = [record EXCEPT !.label = "CANCELLED"]
  /\ UNCHANGED Session

BrokerRejects ==
  /\ record.label \in {"PUT ORDER REQ RECEIVED", "OPEN"}
  /\ record.filled = 0
  /\ record' = [record EXCEPT !.label = "REJECTED"]
  /\ UNCHANGED Session

-----------------------------------------------------------------------------
(* The adapter. *)

\* The record as a payload shows it, with the fields the payload left out.
Payload(missing) ==
  [label |-> record.label,
   qty   |-> IF "qty" \in missing THEN Absent ELSE record.filled,
   price |-> IF "price" \in missing \/ record.filled = 0 THEN Absent ELSE record.filled]

Learn(report) == told' = Larger(told, report.qty)

Gap(missing) ==
  IF missing = {} THEN gaps' = gaps ELSE gaps < MaxGaps /\ gaps' = gaps + 1

Doubt == doubts < MaxDoubts /\ doubts' = doubts + 1

\* The broker computes the answer of a REST read now; it is processed later.
RestRead(missing) ==
  /\ post = "answered"
  /\ rest = None
  /\ Gap(missing)
  /\ rest' = Payload(missing)
  /\ UNCHANGED <<record, events, post, cache, told, doubts>>

RestAnswered ==
  /\ rest # None
  /\ cache' = Merge(cache, Normalize(rest, cache.filled), rest.qty)
  /\ Learn(rest)
  /\ rest' = None
  /\ UNCHANGED <<record, events, post, gaps, doubts>>

\* The read found no such order: UNKNOWN, merged like any other observation.
RestEmpty ==
  /\ rest # None
  /\ Doubt
  /\ cache' = Merge(cache, [cache EXCEPT !.state = "UNKNOWN"], cache.filled)
  /\ rest' = None
  /\ UNCHANGED <<record, events, post, told, gaps>>

StreamEmits(missing) ==
  /\ Cardinality(events \cup {Payload(missing)}) <= MaxEvents
  /\ Gap(missing)
  /\ events' = events \cup {Payload(missing)}
  /\ UNCHANGED <<record, rest, post, cache, told, doubts>>

\* applyOrderUpdate.  The event may be delivered again later.
StreamDelivers(report) ==
  /\ report \in events
  /\ cache' = Merge(cache, FromStream(report, cache), report.qty)
  /\ Learn(report)
  /\ events' \in {events, events \ {report}}
  /\ UNCHANGED <<record, rest, post, gaps, doubts>>

StreamLoses(report) ==
  /\ report \in events
  /\ events' = events \ {report}
  /\ UNCHANGED <<record, rest, post, cache, told, gaps, doubts>>

\* The placement is acknowledged with the broker's order id.
AckAnswered ==
  /\ post = "waiting"
  /\ post' = "answered"
  /\ cache' = Merge(cache, [state |-> "ACKNOWLEDGED", filled |-> 0, bid |-> TRUE, avg |-> 0], 0)
  /\ UNCHANGED <<record, rest, events, told, gaps, doubts>>

\* The placement is answered with a definitive refusal, whatever an event has
\* already reported of the order.
PostRejected ==
  /\ post = "waiting"
  /\ Doubt
  /\ post' = "answered"
  /\ cache' = Merge(cache, [cache EXCEPT !.state = "REJECTED"], cache.filled)
  /\ UNCHANGED <<record, rest, events, told, gaps>>

\* A deadline passed, or a cancellation could not be confirmed.
QuarantineEntry ==
  /\ Doubt
  /\ cache' = Quarantine(cache)
  /\ UNCHANGED <<record, rest, events, post, told, gaps>>

Missing == {{}, {"qty"}, {"price"}, {"qty", "price"}}

ProjectionNext ==
  \/ BrokerOpens \/ BrokerFills \/ BrokerCancels \/ BrokerRejects
  \/ \E missing \in Missing : RestRead(missing) \/ StreamEmits(missing)
  \/ RestAnswered \/ RestEmpty
  \/ \E report \in events : StreamDelivers(report) \/ StreamLoses(report)
  \/ AckAnswered \/ PostRejected \/ QuarantineEntry

\* Reads go on: the polling loop while the order is awaited, and the periodic
\* reconciliation (listOrders) afterwards.  Payload gaps and empty reads are
\* bounded, so the reads that go on are complete ones.
ProjectionFairness ==
  /\ WF_projectionVars(AckAnswered)
  /\ WF_projectionVars(RestRead({}))
  /\ WF_projectionVars(RestAnswered)

ProjectionSpec == ProjectionInit /\ [][ProjectionNext]_projectionVars /\ ProjectionFairness

-----------------------------------------------------------------------------
(* Properties. *)

\* The cumulative quantity the session holds is exactly the largest one any
\* payload reported: a late, older or empty answer never rewinds it, and none
\* is counted twice (brokerOrderMerge.ts: "monotonic, never rewound").
FillsExact == cache.filled = told

\* The average price held is never the average of an older, smaller fill
\* applied to the larger quantity accepted since: it is missing or it is the
\* price of exactly the quantity held.
PriceDescribesFill == cache.avg \in {0, cache.filled}

\* A terminal label is never contradicted by the quantity beside it: COMPLETE
\* is the full quantity, a full quantity is never left under CANCELLED, and
\* REJECTED never sits on a fill (it would license unwinding a live hedge).
TerminalAgreesWithFill ==
  /\ cache.state = "COMPLETE" => cache.filled = Qty
  /\ cache.state = "CANCELLED" => cache.filled < Qty
  /\ cache.state = "REJECTED" => ZeroExposureProven(cache)

\* A confirmed terminal order is never reopened by a stale or working
\* observation; the only way out of a terminal label is another terminal
\* label, or the quarantine that a rejection contradicted by a fill demands.
NeverReopened ==
  [][cache.state \in Terminal =>
       \/ cache'.state \in Terminal
       \/ cache'.state = "RECONCILIATION_REQUIRED" /\ cache'.filled > 0]_projectionVars

\* When the order has ended at the broker and reads go on, the session ends up
\* with the broker's cumulative quantity under a label that is not working:
\* no order of observations leaves it believing that the order still lives.
Converges ==
  [](record.label \in Terminal =>
       <>(cache.filled = record.filled /\ cache.state \in Terminal \cup {"RECONCILIATION_REQUIRED"}))

=============================================================================
