------------------------- MODULE OrderEvidenceProofs -------------------------
(***************************************************************************)
(* How the evidence of an order reaches a session: the safety properties   *)
(* of OrderProjection (one order's entry, fed by two unordered sources) and *)
(* of OrderStream (the stream and the sweeps that repair its gaps), for    *)
(* orders of any quantity, both transports, and any number of payloads,    *)
(* gaps, doubts, faults, failed passes and orders.                         *)
(*                                                                         *)
(* The inductive invariant of the projection adds to its properties what   *)
(* is true of the payloads on their way: each was true of the broker's     *)
(* record when it was computed, so COMPLETE comes with the full quantity   *)
(* and a price with the quantity it is the average of.  Without it, a      *)
(* COMPLETE label over no fill could quarantine a cancelled order, and a   *)
(* price could belong to another quantity.                                 *)
(***************************************************************************)
EXTENDS OrderProjection, OrderStream, TLAPS, SequenceTheorems

-----------------------------------------------------------------------------
(* The rules of BrokerOrders, for every quantity.                          *)

(* The label of a broker status is a lifecycle label, never CREATED.       *)
LEMMA KiteStateType ==
  ASSUME NEW label, NEW filled
  PROVE  KiteState(label, filled) \in OrderStates
  BY DEF KiteState, OrderStates, Terminal, Uncertain, WorkingStates

(* A REST row normalized on a known quantity is a snapshot, whatever its   *)
(* label.                                                                  *)
LEMMA NormalizeType ==
  ASSUME NEW report, NEW prior \in 0 .. Qty,
         report.qty \in {Absent} \cup 0 .. Qty,
         report.price \in {Absent} \cup 1 .. Qty
  PROVE  Normalize(report, prior) \in Snapshots
  <1> DEFINE filled == EvidenceFilled(report, prior)
  <1>2. filled \in 0 .. Qty
    BY QtyPositive DEF EvidenceFilled, Larger, Absent
  <1>3. KiteState(report.label, filled) \in OrderStates
    BY KiteStateType
  <1>4. EvidencePrice(report, prior) \in 0 .. Qty
    BY QtyPositive DEF EvidencePrice, Absent
  <1>5. "RECONCILIATION_REQUIRED" \in OrderStates
    BY DEF OrderStates, Uncertain
  <1> QED
    BY <1>2, <1>3, <1>4, <1>5 DEF Normalize, Snapshots

(* A stream event projected on a known snapshot is a snapshot.             *)
LEMMA FromStreamType ==
  ASSUME NEW report, NEW known \in Snapshots,
         report.qty \in {Absent} \cup 0 .. Qty,
         report.price \in {Absent} \cup 1 .. Qty
  PROVE  FromStream(report, known) \in Snapshots
  <1> DEFINE filled == IF report.qty # Absent THEN report.qty ELSE known.filled
  <1>1. known.state \in OrderStates /\ known.filled \in 0 .. Qty
    BY DEF Snapshots
  <1>2. filled \in 0 .. Qty
    BY <1>1
  <1>3. KiteState(report.label, filled) \in OrderStates
    BY KiteStateType
  <1>4. EvidencePrice(report, known.filled) \in 0 .. Qty
    BY <1>1, QtyPositive DEF EvidencePrice, Absent
  <1> QED
    BY <1>1, <1>2, <1>3, <1>4 DEF FromStream, Snapshots

(* Whatever two labels meet, the outcome is a lifecycle label.             *)
LEMMA ResolveStateType ==
  ASSUME NEW cur \in Snapshots, NEW cand \in Snapshots, NEW accepted, NEW stale
  PROVE  ResolveState(cur, cand, accepted, stale) \in OrderStates
  <1>1. cur.state \in OrderStates /\ cand.state \in OrderStates
    BY DEF Snapshots
  <1>2. {"RECONCILIATION_REQUIRED", "COMPLETE", "CANCELLED", "UNKNOWN", "PARTIALLY_FILLED"}
          \subseteq OrderStates
    BY DEF OrderStates, Terminal, Uncertain, WorkingStates
  <1>3. BothTerminal(cur, cand, accepted) \in OrderStates
    BY <1>1, <1>2 DEF BothTerminal
  <1>4. CachedTerminal(cur, accepted) \in OrderStates
    BY <1>1, <1>2 DEF CachedTerminal
  <1>5. ObservedTerminal(cand, accepted) \in OrderStates
    BY <1>1, <1>2 DEF ObservedTerminal
  <1>6. NeitherTerminal(cur, cand, accepted, stale) \in OrderStates
    BY <1>1, <1>2 DEF NeitherTerminal, Promote
  <1> QED
    BY <1>3, <1>4, <1>5, <1>6 DEF ResolveState

(* The merge of two snapshots is a snapshot, and its quantity is the       *)
(* larger one: nothing is rewound, nothing is added up.                    *)
LEMMA MergeType ==
  ASSUME NEW cur \in Snapshots, NEW cand \in Snapshots, NEW observed
  PROVE  /\ Merge(cur, cand, observed) \in Snapshots
         /\ Merge(cur, cand, observed).filled = Larger(cur.filled, cand.filled)
  <1> DEFINE accepted   == Larger(cur.filled, cand.filled)
             comparison == CompareObservation(observed, cur)
  <1>1. /\ cur.filled \in 0 .. Qty /\ cand.filled \in 0 .. Qty
        /\ cur.bid \in BOOLEAN /\ cand.bid \in BOOLEAN
        /\ cur.avg \in 0 .. Qty /\ cand.avg \in 0 .. Qty
    BY DEF Snapshots
  <1>2. accepted \in 0 .. Qty
    BY <1>1 DEF Larger
  <1>3. ResolveState(cur, cand, accepted, comparison < 0) \in OrderStates
    BY ResolveStateType
  <1>4. ResolvePrice(cur, cand, accepted, comparison) \in 0 .. Qty
    BY <1>1, QtyPositive DEF ResolvePrice
  <1>5. (cur.bid \/ cand.bid) \in BOOLEAN
    OBVIOUS
  <1> HIDE DEF comparison
  <1> QED
    BY <1>2, <1>3, <1>4, <1>5 DEF Merge, Snapshots, comparison

-----------------------------------------------------------------------------
(* A terminal label and the quantity beside it do not contradict.          *)
Agrees(snap) ==
  /\ snap.state = "COMPLETE" => snap.filled = Qty
  /\ snap.state = "CANCELLED" => snap.filled < Qty
  /\ snap.state = "REJECTED" => snap.filled = 0

(* The price held is missing or is the price of the quantity held.         *)
Priced(snap) == snap.avg \in {0, snap.filled}

(* The rules for two labels none of which is terminal give none that is.   *)
LEMMA NeitherTerminalStays ==
  ASSUME NEW cur \in Snapshots, NEW cand \in Snapshots, NEW accepted, NEW stale,
         cur.state \notin Terminal, cand.state \notin Terminal
  PROVE  NeitherTerminal(cur, cand, accepted, stale) \notin Terminal
  BY DEF NeitherTerminal, Promote, Terminal

(* Whatever is merged into it, a snapshot that agrees keeps agreeing: a    *)
(* candidate's terminal label is taken only when the quantity bears it out. *)
LEMMA MergeAgrees ==
  ASSUME NEW cur \in Snapshots, NEW cand \in Snapshots, NEW observed, Agrees(cur)
  PROVE  Agrees(Merge(cur, cand, observed))
  <1> DEFINE accepted == Larger(cur.filled, cand.filled)
             stale    == CompareObservation(observed, cur) < 0
             label    == ResolveState(cur, cand, accepted, stale)
  <1>1. /\ cur.filled \in 0 .. Qty /\ cand.filled \in 0 .. Qty
        /\ cur.state \in OrderStates /\ cand.state \in OrderStates
    BY DEF Snapshots
  <1>2. accepted \in 0 .. Qty /\ accepted >= cur.filled /\ accepted >= cand.filled
    BY <1>1 DEF Larger
  <1>3. /\ Merge(cur, cand, observed).state = label
        /\ Merge(cur, cand, observed).filled = accepted
    BY DEF Merge
  <1> HIDE DEF accepted, stale
  <1>4. CASE cur.state \in Terminal /\ cand.state \in Terminal
    BY <1>1, <1>2, <1>3, <1>4, QtyPositive DEF Agrees, ResolveState, BothTerminal, Terminal
  <1>5. CASE cur.state \in Terminal /\ cand.state \notin Terminal
    BY <1>1, <1>2, <1>3, <1>5, QtyPositive DEF Agrees, ResolveState, CachedTerminal, Terminal
  <1>6. CASE cur.state \notin Terminal /\ cand.state \in Terminal
    BY <1>1, <1>2, <1>3, <1>6, QtyPositive DEF Agrees, ResolveState, ObservedTerminal, Terminal
  <1>7. CASE cur.state \notin Terminal /\ cand.state \notin Terminal
    <2>1. label \notin Terminal
      BY <1>7, NeitherTerminalStays DEF ResolveState
    <2> QED
      BY <2>1, <1>3 DEF Agrees, Terminal
  <1> QED
    BY <1>4, <1>5, <1>6, <1>7

(* A terminal label gives way only to a terminal label, or to a quarantine *)
(* over a positive quantity, unless the candidate claims COMPLETE without  *)
(* the quantity.                                                           *)
LEMMA MergeNeverReopens ==
  ASSUME NEW cur \in Snapshots, NEW cand \in Snapshots, NEW observed,
         cur.state \in Terminal, Agrees(cur),
         cand.state = "COMPLETE" => cand.filled = Qty
  PROVE  LET new == Merge(cur, cand, observed)
         IN  \/ new.state \in Terminal
             \/ new.state = "RECONCILIATION_REQUIRED" /\ new.filled > 0
  <1> DEFINE accepted == Larger(cur.filled, cand.filled)
             stale    == CompareObservation(observed, cur) < 0
             label    == ResolveState(cur, cand, accepted, stale)
  <1>1. cur.filled \in 0 .. Qty /\ cand.filled \in 0 .. Qty
    BY DEF Snapshots
  <1>2. accepted \in 0 .. Qty /\ accepted >= cur.filled /\ accepted >= cand.filled
    BY <1>1 DEF Larger
  <1>3. /\ Merge(cur, cand, observed).state = label
        /\ Merge(cur, cand, observed).filled = accepted
    BY DEF Merge
  <1> HIDE DEF accepted, stale
  <1>4. CASE cand.state \in Terminal
    BY <1>1, <1>2, <1>3, <1>4, QtyPositive DEF Agrees, ResolveState, BothTerminal, Terminal
  <1>5. CASE cand.state \notin Terminal
    BY <1>1, <1>2, <1>3, <1>5, QtyPositive DEF Agrees, ResolveState, CachedTerminal, Terminal
  <1> QED
    BY <1>4, <1>5

(* A price is taken over with the quantity it belongs to, or dropped: the  *)
(* candidate's own price only has to belong to the quantity observed.      *)
LEMMA MergePriced ==
  ASSUME NEW cur \in Snapshots, NEW cand \in Snapshots, Priced(cur),
         NEW observed \in {Absent} \cup 0 .. Qty,
         observed = Absent => cand.filled = cur.filled,
         observed # Absent => /\ cand.filled \in {observed, cur.filled}
                              /\ cand.filled >= observed
                              /\ cand.avg \in {0, observed}
  PROVE  Priced(Merge(cur, cand, observed))
  <1> DEFINE accepted   == Larger(cur.filled, cand.filled)
             comparison == CompareObservation(observed, cur)
  <1>1. /\ cur.filled \in 0 .. Qty /\ cand.filled \in 0 .. Qty
        /\ cur.avg \in 0 .. Qty /\ cand.avg \in 0 .. Qty
    BY DEF Snapshots
  <1>2. /\ Merge(cur, cand, observed).avg = ResolvePrice(cur, cand, accepted, comparison)
        /\ Merge(cur, cand, observed).filled = accepted
    BY DEF Merge
  <1>3. ResolvePrice(cur, cand, accepted, comparison) \in {0, accepted}
    <2>1. CASE observed = Absent
      BY <1>1, <2>1 DEF ResolvePrice, CompareObservation, Larger, Priced
    <2>2. CASE observed # Absent
      BY <1>1, <2>2 DEF ResolvePrice, CompareObservation, Larger, Priced, Absent
    <2> QED
      BY <2>1, <2>2
  <1> QED
    BY <1>2, <1>3 DEF Priced

-----------------------------------------------------------------------------
(* A payload says COMPLETE only with the full quantity, and names a price  *)
(* only with the quantity it belongs to.                                   *)
Genuine(report) ==
  /\ report.label = "COMPLETE" /\ report.qty # Absent => report.qty = Qty
  /\ report.qty # Absent => report.price \in {Absent, report.qty}

PayloadsGenuine ==
  /\ record.label = "COMPLETE" => record.filled = Qty
  /\ rest # None => Genuine(rest)
  /\ \A report \in events : Genuine(report)

CacheSound == cache.filled = told /\ Priced(cache) /\ Agrees(cache)

ProjectionIInv == ProjectionTypeOK /\ PayloadsGenuine /\ CacheSound

-----------------------------------------------------------------------------
(* submitOrder has just put an empty entry into the session.               *)
LEMMA ProjectionInitIInv == ProjectionInit => ProjectionIInv
  <1> SUFFICES ASSUME ProjectionInit PROVE ProjectionIInv
    OBVIOUS
  <1>0. 0 \in 0 .. Qty /\ 0 \in 0 .. MaxGaps /\ 0 \in 0 .. MaxDoubts
    BY QtyPositive, ProjectionConstants
  <1>1. cache \in Snapshots
    <2>1. cache = [state |-> "SUBMITTING", filled |-> 0, bid |-> FALSE, avg |-> 0]
      BY DEF ProjectionInit
    <2>2. "SUBMITTING" \in OrderStates
      BY DEF OrderStates, WorkingStates
    <2> QED
      BY <1>0, <2>1, <2>2 DEF Snapshots
  <1>2. record \in [label : Labels, filled : 0 .. Qty]
    <2>1. record = [label |-> "PUT ORDER REQ RECEIVED", filled |-> 0]
      BY DEF ProjectionInit
    <2>2. "PUT ORDER REQ RECEIVED" \in Labels
      BY DEF Labels
    <2> QED
      BY <1>0, <2>1, <2>2
  <1>3. ProjectionTypeOK
    <2>1. /\ rest = None /\ events = {} /\ post = "waiting"
          /\ told = 0 /\ gaps = 0 /\ doubts = 0
      BY DEF ProjectionInit
    <2> QED
      BY <1>0, <1>1, <1>2, <2>1 DEF ProjectionTypeOK
  <1>4. PayloadsGenuine
    BY DEF ProjectionInit, PayloadsGenuine
  <1>5. CacheSound
    BY DEF ProjectionInit, CacheSound, Priced, Agrees
  <1> QED
    BY <1>3, <1>4, <1>5 DEF ProjectionIInv

(* What a payload of the broker's record looks like.                       *)
LEMMA PayloadGenuine ==
  ASSUME ProjectionTypeOK, PayloadsGenuine, NEW missing
  PROVE  Payload(missing) \in Reports /\ Genuine(Payload(missing))
  <1>1. record.label \in Labels /\ record.filled \in 0 .. Qty
    BY DEF ProjectionTypeOK
  <1>2. record.label = "COMPLETE" => record.filled = Qty
    BY DEF PayloadsGenuine
  <1> QED
    BY <1>1, <1>2, QtyPositive DEF Payload, Reports, Genuine, Absent

(* Merging a REST answer keeps the entry sound and accounts for exactly    *)
(* the quantity the answer reports.                                        *)
LEMMA RestMergeSound ==
  ASSUME ProjectionTypeOK, CacheSound, NEW report \in Reports, Genuine(report)
  PROVE  LET new == Merge(cache, Normalize(report, cache.filled), report.qty)
         IN  /\ new \in Snapshots
             /\ new.filled = Larger(told, report.qty)
             /\ Larger(told, report.qty) \in 0 .. Qty
             /\ Priced(new) /\ Agrees(new)
  <1> DEFINE cand == Normalize(report, cache.filled)
  <1>1. /\ cache \in Snapshots /\ cache.filled \in 0 .. Qty
        /\ report.qty \in {Absent} \cup 0 .. Qty
        /\ report.price \in {Absent} \cup 1 .. Qty
    BY DEF ProjectionTypeOK, Snapshots, Reports
  <1>2. cand \in Snapshots
    BY <1>1, NormalizeType
  <1>3. cand.filled = Larger(report.qty, cache.filled)
    BY DEF Normalize, EvidenceFilled
  <1>4. cand.avg = EvidencePrice(report, cache.filled)
    BY DEF Normalize
  <1>5. report.qty = Absent => cand.filled = cache.filled
    BY <1>1, <1>3 DEF Larger, Absent
  <1>6. report.qty # Absent => /\ cand.filled \in {report.qty, cache.filled}
                               /\ cand.filled >= report.qty
                               /\ cand.avg \in {0, report.qty}
    BY <1>1, <1>3, <1>4 DEF Larger, Absent, EvidencePrice, Genuine
  <1>7. cache.filled = told /\ Priced(cache) /\ Agrees(cache)
    BY DEF CacheSound
  <1> HIDE DEF cand
  <1>8. Merge(cache, cand, report.qty) \in Snapshots
        /\ Merge(cache, cand, report.qty).filled = Larger(cache.filled, cand.filled)
    BY <1>1, <1>2, MergeType
  <1>9. Priced(Merge(cache, cand, report.qty))
    BY <1>1, <1>2, <1>5, <1>6, <1>7, MergePriced
  <1>10. Agrees(Merge(cache, cand, report.qty))
    BY <1>1, <1>2, <1>7, MergeAgrees
  <1>11. /\ Larger(cache.filled, cand.filled) = Larger(told, report.qty)
         /\ Larger(told, report.qty) \in 0 .. Qty
    BY <1>1, <1>3, <1>7 DEF Larger, Absent
  <1> QED
    BY <1>8, <1>9, <1>10, <1>11 DEF cand

(* The same for an event of the stream.                                    *)
LEMMA StreamMergeSound ==
  ASSUME ProjectionTypeOK, CacheSound, NEW report \in Reports, Genuine(report)
  PROVE  LET new == Merge(cache, FromStream(report, cache), report.qty)
         IN  /\ new \in Snapshots
             /\ new.filled = Larger(told, report.qty)
             /\ Larger(told, report.qty) \in 0 .. Qty
             /\ Priced(new) /\ Agrees(new)
  <1> DEFINE cand == FromStream(report, cache)
  <1>1. /\ cache \in Snapshots /\ cache.filled \in 0 .. Qty
        /\ report.qty \in {Absent} \cup 0 .. Qty
        /\ report.price \in {Absent} \cup 1 .. Qty
    BY DEF ProjectionTypeOK, Snapshots, Reports
  <1>2. cand \in Snapshots
    BY <1>1, FromStreamType
  <1>3. cand.filled = IF report.qty # Absent THEN report.qty ELSE cache.filled
    BY DEF FromStream
  <1>4. cand.avg = EvidencePrice(report, cache.filled)
    BY DEF FromStream
  <1>5. report.qty = Absent => cand.filled = cache.filled
    BY <1>3
  <1>6. report.qty # Absent => /\ cand.filled \in {report.qty, cache.filled}
                               /\ cand.filled >= report.qty
                               /\ cand.avg \in {0, report.qty}
    BY <1>1, <1>3, <1>4 DEF Absent, EvidencePrice, Genuine
  <1>7. cache.filled = told /\ Priced(cache) /\ Agrees(cache)
    BY DEF CacheSound
  <1> HIDE DEF cand
  <1>8. Merge(cache, cand, report.qty) \in Snapshots
        /\ Merge(cache, cand, report.qty).filled = Larger(cache.filled, cand.filled)
    BY <1>1, <1>2, MergeType
  <1>9. Priced(Merge(cache, cand, report.qty))
    BY <1>1, <1>2, <1>5, <1>6, <1>7, MergePriced
  <1>10. Agrees(Merge(cache, cand, report.qty))
    BY <1>1, <1>2, <1>7, MergeAgrees
  <1>11. /\ Larger(cache.filled, cand.filled) = Larger(told, report.qty)
         /\ Larger(told, report.qty) \in 0 .. Qty
    BY <1>1, <1>3, <1>7 DEF Larger, Absent
  <1> QED
    BY <1>8, <1>9, <1>10, <1>11 DEF cand

(* A doubt about the entry changes its label at most.                      *)
LEMMA RelabelSound ==
  ASSUME ProjectionTypeOK, CacheSound, NEW label \in OrderStates
  PROVE  LET new == Merge(cache, [cache EXCEPT !.state = label], cache.filled)
         IN  new \in Snapshots /\ new.filled = told /\ Priced(new) /\ Agrees(new)
  <1> DEFINE cand == [cache EXCEPT !.state = label]
  <1>1. cache \in Snapshots /\ cache.filled \in 0 .. Qty
    BY DEF ProjectionTypeOK, Snapshots
  <1>2. cand \in Snapshots /\ cand.filled = cache.filled /\ cand.avg = cache.avg
    BY <1>1 DEF Snapshots
  <1>3. cache.filled = told /\ Priced(cache) /\ Agrees(cache)
    BY DEF CacheSound
  <1> HIDE DEF cand
  <1>4. Merge(cache, cand, cache.filled) \in Snapshots
        /\ Merge(cache, cand, cache.filled).filled = Larger(cache.filled, cand.filled)
    BY <1>1, <1>2, MergeType
  <1>5. Larger(cache.filled, cand.filled) = told
    BY <1>1, <1>2, <1>3 DEF Larger
  <1>6. cache.filled \in {Absent} \cup 0 .. Qty /\ cache.filled # Absent
    BY <1>1 DEF Absent
  <1>7. cand.avg \in {0, cache.filled}
    BY <1>2, <1>3 DEF Priced
  <1>8. Priced(Merge(cache, cand, cache.filled))
    BY <1>1, <1>2, <1>3, <1>6, <1>7, MergePriced
  <1>9. Agrees(Merge(cache, cand, cache.filled))
    BY <1>1, <1>2, <1>3, MergeAgrees
  <1> QED
    BY <1>4, <1>5, <1>8, <1>9 DEF cand

-----------------------------------------------------------------------------
(* Every step of the exchange and of the adapter keeps the invariant.      *)
LEMMA ProjectionNextIInv == ProjectionIInv /\ [ProjectionNext]_projectionVars => ProjectionIInv'
  <1> SUFFICES ASSUME ProjectionIInv, [ProjectionNext]_projectionVars PROVE ProjectionIInv'
    OBVIOUS
  <1> USE DEF ProjectionIInv
  <1>0. /\ ProjectionTypeOK /\ PayloadsGenuine /\ CacheSound
        /\ cache \in Snapshots
        /\ rest \in Reports \cup {None} /\ events \subseteq Reports
    BY DEF ProjectionTypeOK
  <1>1. CASE BrokerOpens \/ BrokerFills \/ BrokerCancels \/ BrokerRejects
    <2>1. UNCHANGED Session
      BY <1>1 DEF BrokerOpens, BrokerFills, BrokerCancels, BrokerRejects
    <2> DEFINE Orders == [label : Labels, filled : 0 .. Qty]
    <2>a. record \in Orders
      BY DEF ProjectionTypeOK
    <2>b. ASSUME NEW label \in Labels \ {"COMPLETE"},
                 record' = [record EXCEPT !.label = label]
          PROVE  record' \in Orders /\ record'.label # "COMPLETE"
      BY <2>a, <2>b
    <2>c. ASSUME BrokerFills
          PROVE  record' \in Orders /\ (record'.label = "COMPLETE" => record'.filled = Qty)
      <3>1. /\ record'.label \in {record.label, "COMPLETE"}
            /\ record'.filled = record.filled + 1
            /\ record'.label = "COMPLETE" => record.filled + 1 = Qty
            /\ record.filled < Qty
            /\ record' = [label |-> record'.label, filled |-> record'.filled]
        BY <2>c DEF BrokerFills
      <3>2. record.label \in Labels /\ "COMPLETE" \in Labels /\ record.filled \in 0 .. Qty
        BY <2>a DEF Labels
      <3>3. record'.label \in Labels /\ record'.filled \in 0 .. Qty
        BY <3>1, <3>2, QtyPositive
      <3> QED
        BY <3>1, <3>3
    <2>d. {"OPEN", "CANCEL PENDING", "CANCELLED", "REJECTED"} \subseteq Labels \ {"COMPLETE"}
      BY DEF Labels
    <2>e. ASSUME BrokerOpens \/ BrokerCancels \/ BrokerRejects
          PROVE  record' \in Orders /\ record'.label # "COMPLETE"
      <3>1. \E label \in {"OPEN", "CANCEL PENDING", "CANCELLED", "REJECTED"} :
              record' = [record EXCEPT !.label = label]
        BY <2>e DEF BrokerOpens, BrokerCancels, BrokerRejects
      <3> QED
        BY <2>b, <2>d, <3>1
    <2>2. record' \in Orders
      BY <1>1, <2>c, <2>e
    <2>3. record'.label = "COMPLETE" => record'.filled = Qty
      BY <1>1, <2>c, <2>e
    <2>4. ProjectionTypeOK'
      BY <2>1, <2>2 DEF ProjectionTypeOK, Session
    <2>5. PayloadsGenuine'
      BY <2>1, <2>3 DEF PayloadsGenuine, Session, Genuine
    <2>6. CacheSound'
      BY <2>1 DEF CacheSound, Session, Priced, Agrees
    <2> QED
      BY <2>4, <2>5, <2>6
  <1>2. ASSUME NEW missing \in Missing, RestRead(missing) \/ StreamEmits(missing)
        PROVE  ProjectionIInv'
    <2>1. Payload(missing) \in Reports /\ Genuine(Payload(missing))
      BY PayloadGenuine
    <2>2. UNCHANGED <<record, post, cache, told, doubts>>
      BY <1>2 DEF RestRead, StreamEmits
    <2>3. gaps' \in 0 .. MaxGaps
      BY <1>2, ProjectionConstants DEF RestRead, StreamEmits, Gap, ProjectionTypeOK
    <2>4. /\ rest' \in {rest, Payload(missing)}
          /\ events' \subseteq events \cup {Payload(missing)}
      BY <1>2 DEF RestRead, StreamEmits
    <2>5. ProjectionTypeOK'
      BY <2>1, <2>2, <2>3, <2>4 DEF ProjectionTypeOK
    <2>6. PayloadsGenuine'
      BY <2>1, <2>2, <2>4 DEF PayloadsGenuine, Genuine
    <2>7. CacheSound'
      BY <2>2 DEF CacheSound, Priced, Agrees
    <2> QED
      BY <2>5, <2>6, <2>7
  <1>3. CASE RestAnswered
    <2>1. rest \in Reports /\ Genuine(rest)
      BY <1>0, <1>3 DEF RestAnswered, PayloadsGenuine
    <2>2. /\ cache' \in Snapshots
          /\ cache'.filled = Larger(told, rest.qty)
          /\ Larger(told, rest.qty) \in 0 .. Qty
          /\ Priced(cache') /\ Agrees(cache')
      BY <1>3, <2>1, RestMergeSound DEF RestAnswered
    <2>3. /\ told' = Larger(told, rest.qty)
          /\ rest' = None
          /\ UNCHANGED <<record, events, post, gaps, doubts>>
      BY <1>3 DEF RestAnswered, Learn
    <2>4. ProjectionTypeOK'
      BY <2>2, <2>3 DEF ProjectionTypeOK
    <2>5. PayloadsGenuine'
      BY <2>3 DEF PayloadsGenuine, Genuine
    <2>6. CacheSound'
      BY <2>2, <2>3 DEF CacheSound, Priced, Agrees
    <2> QED
      BY <2>4, <2>5, <2>6
  <1>4. ASSUME NEW report \in events, StreamDelivers(report) PROVE ProjectionIInv'
    <2>1. report \in Reports /\ Genuine(report)
      BY <1>0 DEF PayloadsGenuine
    <2>2. /\ cache' \in Snapshots
          /\ cache'.filled = Larger(told, report.qty)
          /\ Larger(told, report.qty) \in 0 .. Qty
          /\ Priced(cache') /\ Agrees(cache')
      BY <1>4, <2>1, StreamMergeSound DEF StreamDelivers
    <2>3. /\ told' = Larger(told, report.qty)
          /\ events' \subseteq events
          /\ UNCHANGED <<record, rest, post, gaps, doubts>>
      BY <1>4 DEF StreamDelivers, Learn
    <2>4. ProjectionTypeOK'
      BY <2>2, <2>3 DEF ProjectionTypeOK
    <2>5. PayloadsGenuine'
      BY <2>3 DEF PayloadsGenuine, Genuine
    <2>6. CacheSound'
      BY <2>2, <2>3 DEF CacheSound, Priced, Agrees
    <2> QED
      BY <2>4, <2>5, <2>6
  <1>5. ASSUME NEW report \in events, StreamLoses(report) PROVE ProjectionIInv'
    <2>1. /\ events' \subseteq events
          /\ UNCHANGED <<record, rest, post, cache, told, gaps, doubts>>
      BY <1>5 DEF StreamLoses
    <2>2. ProjectionTypeOK'
      BY <2>1 DEF ProjectionTypeOK
    <2>3. PayloadsGenuine'
      BY <2>1 DEF PayloadsGenuine, Genuine
    <2>4. CacheSound'
      BY <2>1 DEF CacheSound, Priced, Agrees
    <2> QED
      BY <2>2, <2>3, <2>4
  <1>6. CASE RestEmpty \/ AckAnswered \/ PostRejected \/ QuarantineEntry
    <2>1. /\ doubts' \in 0 .. MaxDoubts
          /\ post' \in {"waiting", "answered"}
          /\ rest' \in {rest, None}
          /\ UNCHANGED <<record, events, told, gaps>>
      BY <1>6, ProjectionConstants
      DEF RestEmpty, AckAnswered, PostRejected, QuarantineEntry, Doubt, ProjectionTypeOK
    <2>2. cache' \in Snapshots /\ cache'.filled = told /\ Priced(cache') /\ Agrees(cache')
      <3> DEFINE New(label) == Merge(cache, [cache EXCEPT !.state = label], cache.filled)
      <3>1. {"UNKNOWN", "REJECTED", "RECONCILIATION_REQUIRED"} \subseteq OrderStates
        BY DEF OrderStates, Terminal, Uncertain
      <3>2. \A label \in OrderStates :
              /\ New(label) \in Snapshots /\ New(label).filled = told
              /\ Priced(New(label)) /\ Agrees(New(label))
        BY RelabelSound
      <3>3. CASE RestEmpty
        <4>1. cache' = New("UNKNOWN")
          BY <3>3 DEF RestEmpty
        <4> HIDE DEF New
        <4> QED
          BY <3>1, <3>2, <4>1
      <3>4. CASE PostRejected
        <4>1. cache' = New("REJECTED")
          BY <3>4 DEF PostRejected
        <4> HIDE DEF New
        <4> QED
          BY <3>1, <3>2, <4>1
      <3>5. CASE QuarantineEntry
        <4>1. cache' = cache \/ cache' = New("RECONCILIATION_REQUIRED")
          BY <3>5 DEF QuarantineEntry, Quarantine
        <4>2. cache.filled = told /\ Priced(cache) /\ Agrees(cache)
          BY <1>0 DEF CacheSound
        <4> HIDE DEF New
        <4> QED
          BY <1>0, <3>1, <3>2, <4>1, <4>2
      <3>6. CASE AckAnswered
        <4> DEFINE ack == [state |-> "ACKNOWLEDGED", filled |-> 0, bid |-> TRUE, avg |-> 0]
        <4>1. ack \in Snapshots /\ ack.filled = 0 /\ ack.avg = 0
          BY QtyPositive DEF Snapshots, OrderStates, WorkingStates
        <4>2. cache' = Merge(cache, ack, 0)
          BY <3>6 DEF AckAnswered
        <4>3. cache.filled = told /\ Priced(cache) /\ Agrees(cache) /\ told \in 0 .. Qty
          BY <1>0 DEF CacheSound, ProjectionTypeOK
        <4> HIDE DEF ack
        <4>4. cache' \in Snapshots /\ cache'.filled = Larger(cache.filled, 0)
          BY <1>0, <4>1, <4>2, MergeType
        <4>5. Larger(cache.filled, 0) = told
          BY <4>3 DEF Larger
        <4>6. 0 \in {Absent} \cup 0 .. Qty /\ 0 # Absent
          BY QtyPositive DEF Absent
        <4>7. Priced(cache')
          BY <1>0, <4>1, <4>2, <4>3, <4>6, MergePriced
        <4>8. Agrees(cache')
          BY <1>0, <4>1, <4>2, <4>3, MergeAgrees
        <4> QED
          BY <4>4, <4>5, <4>7, <4>8
      <3> QED
        BY <1>6, <3>3, <3>4, <3>5, <3>6
    <2>3. ProjectionTypeOK'
      BY <2>1, <2>2 DEF ProjectionTypeOK
    <2>4. PayloadsGenuine'
      BY <2>1 DEF PayloadsGenuine, Genuine
    <2>5. CacheSound'
      BY <2>1, <2>2 DEF CacheSound, Priced, Agrees
    <2> QED
      BY <2>3, <2>4, <2>5
  <1>7. CASE UNCHANGED projectionVars
    BY <1>7 DEF projectionVars, ProjectionTypeOK, PayloadsGenuine, Genuine, CacheSound, Priced, Agrees
  <1> QED
    BY <1>1, <1>2, <1>3, <1>4, <1>5, <1>6, <1>7 DEF ProjectionNext

(* The payloads stay genuine and the entry sound, for ever.                *)
THEOREM ProjectionInvariance == ProjectionSpec => []ProjectionIInv
  BY ProjectionInitIInv, ProjectionNextIInv, PTL DEF ProjectionSpec

(* The session's entry and the payloads keep their types: the quantity     *)
(* never leaves 0 .. Qty, however often payloads are delivered again.      *)
THEOREM ProjectionTypeCorrect == ProjectionSpec => []ProjectionTypeOK
  <1>1. ProjectionIInv => ProjectionTypeOK
    BY DEF ProjectionIInv
  <1> QED
    BY <1>1, ProjectionInvariance, PTL

(* kiteBrokerAdapter.ts commit: the quantity held is exactly the largest   *)
(* one reported, for every order of observations.                          *)
THEOREM FillsAreExact == ProjectionSpec => []FillsExact
  <1>1. ProjectionIInv => FillsExact
    BY DEF ProjectionIInv, CacheSound, FillsExact
  <1> QED
    BY <1>1, ProjectionInvariance, PTL

(* brokerOrderMerge.ts: a price never describes another quantity.          *)
THEOREM PriceIsOfTheFill == ProjectionSpec => []PriceDescribesFill
  <1>1. ProjectionIInv => PriceDescribesFill
    BY DEF ProjectionIInv, CacheSound, Priced, PriceDescribesFill
  <1> QED
    BY <1>1, ProjectionInvariance, PTL

(* brokerOrderMerge.ts resolveState: a terminal label never contradicts    *)
(* the quantity beside it.                                                 *)
THEOREM TerminalLabelsAgree == ProjectionSpec => []TerminalAgreesWithFill
  <1>1. ProjectionIInv => TerminalAgreesWithFill
    BY DEF ProjectionIInv, CacheSound, Agrees, TerminalAgreesWithFill, ZeroExposureProven
  <1> QED
    BY <1>1, ProjectionInvariance, PTL

-----------------------------------------------------------------------------
(* A candidate that claims COMPLETE has the full quantity.                 *)
LEMMA CompleteIsFull ==
  ASSUME ProjectionTypeOK, CacheSound, NEW report \in Reports, Genuine(report)
  PROVE  /\ Normalize(report, cache.filled).state = "COMPLETE"
              => Normalize(report, cache.filled).filled = Qty
         /\ FromStream(report, cache).state = "COMPLETE"
              => FromStream(report, cache).filled = Qty
  <1>1. /\ cache.filled \in 0 .. Qty
        /\ report.qty \in {Absent} \cup 0 .. Qty
        /\ report.label \in Labels
        /\ cache.state = "COMPLETE" => cache.filled = Qty
    BY DEF ProjectionTypeOK, Snapshots, Reports, CacheSound, Agrees
  <1>2. \A filled : KiteState(report.label, filled) = "COMPLETE" => report.label = "COMPLETE"
    BY DEF KiteState, Terminal
  <1>3. report.label = "COMPLETE" => KiteState(report.label, cache.filled) = "COMPLETE"
    BY DEF KiteState, Terminal
  <1>4. ASSUME Normalize(report, cache.filled).state = "COMPLETE"
        PROVE  Normalize(report, cache.filled).filled = Qty
    <2>1. /\ EvidenceSufficient(report, cache.filled)
          /\ report.label = "COMPLETE"
      BY <1>2, <1>4 DEF Normalize
    <2>2. report.qty = Qty
      BY <1>3, <2>1 DEF EvidenceSufficient, Freezes, Terminal, Genuine
    <2>3. EvidenceFilled(report, cache.filled) = Qty
      BY <1>1, <2>2, QtyPositive DEF EvidenceFilled, Larger
    <2> QED
      BY <2>3 DEF Normalize
  <1>5. ASSUME FromStream(report, cache).state = "COMPLETE"
        PROVE  FromStream(report, cache).filled = Qty
    <2>1. CASE report.qty # Absent
      <3>1. EvidenceSufficient(report, cache.filled)
        BY <2>1 DEF EvidenceSufficient
      <3>2. report.label = "COMPLETE"
        BY <1>2, <1>5, <3>1 DEF FromStream
      <3> QED
        BY <2>1, <3>2 DEF FromStream, Genuine
    <2>2. CASE report.qty = Absent
      <3>1. FromStream(report, cache).filled = cache.filled
        BY <2>2 DEF FromStream
      <3>2. CASE EvidenceSufficient(report, cache.filled)
        <4>1. report.label = "COMPLETE"
          BY <1>2, <1>5, <3>2 DEF FromStream
        <4> QED
          BY <1>3, <2>2, <3>2, <4>1 DEF EvidenceSufficient, Freezes, Terminal
      <3>3. CASE ~EvidenceSufficient(report, cache.filled)
        <4>1. cache.state = "COMPLETE"
          BY <1>5, <3>3 DEF FromStream
        <4> QED
          BY <1>1, <3>1, <4>1
      <3> QED
        BY <3>2, <3>3
    <2> QED
      BY <2>1, <2>2
  <1> QED
    BY <1>4, <1>5

(* A terminal order is never reopened by a later observation.              *)
THEOREM TerminalNeverReopened == ProjectionSpec => NeverReopened
  <1> DEFINE Kept == \/ cache'.state \in Terminal
                     \/ cache'.state = "RECONCILIATION_REQUIRED" /\ cache'.filled > 0
  <1>1. ProjectionIInv /\ [ProjectionNext]_projectionVars => [cache.state \in Terminal => Kept]_projectionVars
    <2> SUFFICES ASSUME ProjectionIInv, ProjectionNext, cache.state \in Terminal PROVE Kept
      OBVIOUS
    <2>0. /\ ProjectionTypeOK /\ CacheSound /\ Agrees(cache) /\ cache \in Snapshots
          /\ cache.filled \in 0 .. Qty
          /\ rest \in Reports \cup {None} /\ events \subseteq Reports
      BY DEF ProjectionIInv, ProjectionTypeOK, CacheSound, Snapshots
    <2>1. ASSUME NEW cand \in Snapshots, NEW observed, cache' = Merge(cache, cand, observed),
                 cand.state = "COMPLETE" => cand.filled = Qty
          PROVE  Kept
      BY <2>0, <2>1, MergeNeverReopens
    <2>2. CASE cache' = cache
      BY <2>2
    <2>3. CASE RestAnswered
      <3>1. rest \in Reports /\ Genuine(rest)
        BY <2>0, <2>3 DEF RestAnswered, ProjectionIInv, PayloadsGenuine
      <3>2. Normalize(rest, cache.filled) \in Snapshots
        BY <2>0, <3>1, NormalizeType DEF Reports
      <3>3. cache' = Merge(cache, Normalize(rest, cache.filled), rest.qty)
        BY <2>3 DEF RestAnswered
      <3> QED
        BY <2>0, <2>1, <3>1, <3>2, <3>3, CompleteIsFull
    <2>4. ASSUME NEW report \in events, StreamDelivers(report) PROVE Kept
      <3>1. report \in Reports /\ Genuine(report)
        BY <2>0 DEF ProjectionIInv, PayloadsGenuine
      <3>2. FromStream(report, cache) \in Snapshots
        BY <2>0, <3>1, FromStreamType DEF Reports
      <3>3. cache' = Merge(cache, FromStream(report, cache), report.qty)
        BY <2>4 DEF StreamDelivers
      <3> QED
        BY <2>0, <2>1, <3>1, <3>2, <3>3, CompleteIsFull
    <2>5. CASE RestEmpty \/ PostRejected
      <3>1. PICK label \in {"UNKNOWN", "REJECTED"} :
              cache' = Merge(cache, [cache EXCEPT !.state = label], cache.filled)
        BY <2>5 DEF RestEmpty, PostRejected
      <3>2. [cache EXCEPT !.state = label] \in Snapshots
            /\ [cache EXCEPT !.state = label].state = label
        BY <2>0 DEF Snapshots, OrderStates, Terminal, Uncertain
      <3> QED
        BY <2>1, <3>1, <3>2
    <2>6. CASE QuarantineEntry
      BY <2>6 DEF QuarantineEntry, Quarantine
    <2>7. CASE AckAnswered
      <3> DEFINE ack == [state |-> "ACKNOWLEDGED", filled |-> 0, bid |-> TRUE, avg |-> 0]
      <3>1. ack \in Snapshots /\ ack.state # "COMPLETE"
        BY QtyPositive DEF Snapshots, OrderStates, WorkingStates
      <3>2. cache' = Merge(cache, ack, 0)
        BY <2>7 DEF AckAnswered
      <3> HIDE DEF ack
      <3> QED
        BY <2>1, <3>1, <3>2
    <2>8. ASSUME NEW missing \in Missing, RestRead(missing) \/ StreamEmits(missing)
          PROVE  Kept
      BY <2>2, <2>8 DEF RestRead, StreamEmits
    <2>9. ASSUME NEW report \in events, StreamLoses(report) PROVE Kept
      BY <2>2, <2>9 DEF StreamLoses
    <2>10. CASE BrokerOpens \/ BrokerFills \/ BrokerCancels \/ BrokerRejects
      BY <2>2, <2>10 DEF BrokerOpens, BrokerFills, BrokerCancels, BrokerRejects, Session
    <2> QED
      BY <2>3, <2>4, <2>5, <2>6, <2>7, <2>8, <2>9, <2>10 DEF ProjectionNext
  <1> QED
    BY <1>1, ProjectionInvariance, PTL DEF ProjectionSpec, NeverReopened

-----------------------------------------------------------------------------
(***************************************************************************)
(* The stream.                                                             *)
(***************************************************************************)
\* A socket that delivers is open and logged in, and only an open one is.
SocketInv ==
  /\ Established => feed = "open"
  /\ alive => Established

\* What is on its way is the end of the order.
WireInv == wire => order = "ended"

\* The sweep of the present connection knows whether the pass it awaits had
\* loaded before; no sweep is ahead of the connection, and none waits alone.
SweepInv ==
  /\ pass = "none" => ~early /\ sweeps = <<>>
  /\ \A i \in DOMAIN sweeps :
       /\ sweeps[i].gen <= gen
       /\ sweeps[i].gen = gen => Established /\ sweeps[i].joined = early

\* What a pass of this connection will find: an order whose end was missed was
\* placed before it loaded, and after the listing there is none.
PassInv ==
  /\ alive /\ ~early /\ pass = "loaded" /\ Missed => covers
  /\ alive /\ ~early /\ pass = "listed" => ~Missed

IInv == TypeOK /\ SocketInv /\ WireInv /\ SweepInv /\ PassInv /\ GapRepairedUnlessJoined

LEMMA NoSweeps == <<>> \in Seq(SweepRecord)
BY EmptySeq

LEMMA SweepTypes ==
  ASSUME TypeOK, NEW i \in DOMAIN sweeps
  PROVE  sweeps[i].gen \in Nat /\ sweeps[i].joined \in BOOLEAN
<1>1. sweeps[i] \in SweepRecord
  BY DEF TypeOK
<1> QED BY <1>1 DEF SweepRecord

LEMMA InitInvariant == Init => IInv
<1> SUFFICES ASSUME Init PROVE IInv
  OBVIOUS
<1>1. TypeOK
  <2>1. sweeps \in Seq(SweepRecord)
    BY NoSweeps DEF Init
  <2>2. 0 \in 0 .. MaxFaults /\ 0 \in 0 .. MaxFailures /\ 0 \in 0 .. MaxOrders /\ 0 \in Nat
    BY StreamConstants
  <2> QED BY <2>1, <2>2, Zenon DEF Init, TypeOK, States
<1>2. SocketInv /\ WireInv /\ PassInv /\ GapRepairedUnlessJoined
  BY DEF Init, SocketInv, WireInv, PassInv, GapRepairedUnlessJoined, Established, Missed
<1>3. SweepInv
  BY DEF Init, SweepInv
<1> QED BY <1>1, <1>2, <1>3 DEF IInv

\* A sweep appended behind the others: what holds of each and of the new one.
LEMMA Appended ==
  ASSUME NEW S, NEW s \in Seq(S), NEW r \in S
  PROVE  /\ Append(s, r) \in Seq(S)
         /\ DOMAIN Append(s, r) = DOMAIN s \cup {Len(s) + 1}
         /\ \A i \in DOMAIN s : Append(s, r)[i] = s[i]
         /\ Append(s, r)[Len(s) + 1] = r
BY AppendProperties

LEMMA SweepStep ==
  ASSUME TypeOK, NEW g \in Nat, NEW joined \in BOOLEAN, Sweep(g, joined)
  PROVE  /\ sweeps' \in Seq(SweepRecord)
         /\ pass' # "none"
         /\ pass' \in {"none", "started", "loaded", "listed"}
         /\ \A i \in DOMAIN sweeps' :
              \/ i \in DOMAIN sweeps /\ sweeps'[i] = sweeps[i]
              \/ sweeps'[i] = [gen |-> g, joined |-> joined]
<1> DEFINE r == [gen |-> g, joined |-> joined]
<1>1. r \in SweepRecord
  BY DEF SweepRecord
<1>2. sweeps \in Seq(SweepRecord) /\ pass \in {"none", "started", "loaded", "listed"}
  BY DEF TypeOK
<1>3. sweeps' = Append(sweeps, r) /\ pass' = IF pass = "none" THEN "started" ELSE pass
  BY DEF Sweep
<1> HIDE DEF r
<1>4. /\ sweeps' \in Seq(SweepRecord)
      /\ DOMAIN sweeps' = DOMAIN sweeps \cup {Len(sweeps) + 1}
      /\ \A i \in DOMAIN sweeps : sweeps'[i] = sweeps[i]
      /\ sweeps'[Len(sweeps) + 1] = r
  BY <1>1, <1>2, <1>3, Appended
<1>5. \A i \in DOMAIN sweeps' : (i \in DOMAIN sweeps /\ sweeps'[i] = sweeps[i]) \/ sweeps'[i] = r
  BY <1>4
<1>6. pass' # "none" /\ pass' \in {"none", "started", "loaded", "listed"}
  BY <1>2, <1>3
<1> QED BY <1>4, <1>5, <1>6 DEF r

\* The pass and the sweeps.
LEMMA PassEndsStep ==
  ASSUME IInv, NEW consistent \in BOOLEAN, PassEnds(consistent)
  PROVE  IInv'
<1> DEFINE current == {i \in DOMAIN sweeps : ResultApplies(sweeps[i])}
<1>0. TypeOK /\ SocketInv /\ WireInv /\ SweepInv /\ PassInv /\ GapRepairedUnlessJoined
  BY DEF IInv
<1>1. /\ pass' = "none" /\ covers' = FALSE /\ early' = FALSE /\ sweeps' = <<>>
      /\ UNCHANGED <<broker, feed, alive, silent, order, wire, placed, faults, gen, ever>>
  BY DEF PassEnds, orderVars, machineVars
<1>2. failures' \in 0 .. MaxFailures
  BY <1>0, StreamConstants DEF PassEnds, TypeOK
<1>3. CASE state' = state /\ UNCHANGED <<owed, projOwed, granted>>
  <2>1. backoff' \in BOOLEAN
    BY <1>0 DEF PassEnds, machineVars, TypeOK
  <2>2. TypeOK'
    BY <1>0, <1>1, <1>2, <1>3, <2>1, NoSweeps, Zenon DEF TypeOK
  <2>3. SocketInv' /\ WireInv' /\ PassInv' /\ GapRepairedUnlessJoined'
    BY <1>0, <1>1, <1>3
    DEF SocketInv, WireInv, PassInv, GapRepairedUnlessJoined, Established, Missed
  <2>4. SweepInv'
    BY <1>1 DEF SweepInv
  <2> QED BY <2>2, <2>3, <2>4 DEF IInv
<1>4. CASE /\ current # {} /\ consistent /\ pass = "listed"
           /\ state' = "READY" /\ owed' = FALSE /\ projOwed' = FALSE /\ backoff' = FALSE
           /\ granted' = IF \E i \in current : sweeps[i].joined THEN "joined" ELSE "fresh"
  <2>1. PICK i \in DOMAIN sweeps : sweeps[i].gen = gen
    BY <1>4 DEF ResultApplies
  <2>2. Established /\ sweeps[i].joined = early
    BY <1>0, <2>1 DEF SweepInv
  <2>3. granted' = "fresh" => ~early
    BY <1>0, <1>4, <2>1, <2>2 DEF ResultApplies, TypeOK
  <2>4. TypeOK'
    <3>1. "READY" \in States /\ granted' \in {"none", "fresh", "joined"}
      BY <1>4 DEF States
    <3> QED BY <1>0, <1>1, <1>2, <1>4, <3>1, NoSweeps, Zenon DEF TypeOK
  <2>5. SocketInv' /\ WireInv' /\ PassInv'
    BY <1>0, <1>1, <1>4, <2>2 DEF SocketInv, WireInv, PassInv, Established, Missed
  <2>6. SweepInv'
    BY <1>1 DEF SweepInv
  <2>7. GapRepairedUnlessJoined'
    BY <1>0, <1>1, <1>4, <2>3 DEF PassInv, GapRepairedUnlessJoined, Missed
  <2> QED BY <2>4, <2>5, <2>6, <2>7 DEF IInv
<1>5. \/ state' = state /\ UNCHANGED <<owed, projOwed, granted>>
      \/ /\ current # {} /\ consistent /\ pass = "listed"
         /\ state' = "READY" /\ owed' = FALSE /\ projOwed' = FALSE /\ backoff' = FALSE
         /\ granted' = IF \E i \in current : sweeps[i].joined THEN "joined" ELSE "fresh"
  BY DEF PassEnds, Proves, machineVars
<1> QED BY <1>3, <1>4, <1>5

LEMMA PassProceeds ==
  ASSUME IInv, PassLoads \/ PassLists \/ OtherPass
  PROVE  IInv'
<1>0. TypeOK /\ SocketInv /\ WireInv /\ SweepInv /\ PassInv /\ GapRepairedUnlessJoined
  BY DEF IInv
<1>1. /\ UNCHANGED <<broker, feed, alive, state, owed, projOwed, gen, ever, granted, sweeps, backoff,
                     silent, early, placed, faults, failures>>
      /\ pass' # "none"
  BY DEF PassLoads, PassLists, OtherPass, machineVars, sweepVars, orderVars
<1>2. /\ pass' \in {"started", "loaded", "listed"}
      /\ UNCHANGED <<order, wire>> \/ (order' = "none" /\ wire' = FALSE)
  BY DEF PassLoads, PassLists, OtherPass, orderVars
<1>3. covers' \in BOOLEAN
  BY <1>0 DEF PassLoads, PassLists, OtherPass, TypeOK
<1>4. TypeOK'
  <2>1. pass' \in {"none", "started", "loaded", "listed"} /\ order' \in {"none", "working", "ended"}
        /\ wire' \in BOOLEAN
    BY <1>0, <1>2 DEF TypeOK
  <2> QED BY <1>0, <1>1, <1>3, <2>1, Zenon DEF TypeOK
<1>5. SocketInv' /\ WireInv' /\ GapRepairedUnlessJoined'
  BY <1>0, <1>1, <1>2 DEF SocketInv, WireInv, GapRepairedUnlessJoined, Established, Missed
<1>6. PassInv'
  <2>1. CASE PassLoads
    <3>1. pass' = "loaded" /\ (order # "none" => covers') /\ order' = order
      BY <2>1 DEF PassLoads, orderVars
    <3> QED BY <3>1 DEF PassInv, Missed
  <2>2. CASE PassLists
    <3>1. pass' = "listed" /\ pass = "loaded"
      BY <2>2 DEF PassLists
    <3>2. /\ covers /\ order = "ended" => order' = "none"
          /\ UNCHANGED <<order, wire>> \/ order' = "none"
      BY <2>2 DEF PassLists
    <3> QED BY <1>0, <1>1, <3>1, <3>2 DEF PassInv, Missed
  <2>3. CASE OtherPass
    BY <2>3 DEF OtherPass, PassInv
  <2> QED BY <2>1, <2>2, <2>3
<1>7. SweepInv'
  BY <1>0, <1>1 DEF SweepInv, Established
<1> QED BY <1>4, <1>5, <1>6, <1>7 DEF IInv

LEMMA PollStep ==
  ASSUME IInv, Poll
  PROVE  IInv'
<1>0. TypeOK /\ SocketInv /\ WireInv /\ SweepInv /\ PassInv /\ GapRepairedUnlessJoined
  BY DEF IInv
<1>1. UNCHANGED <<broker, feed, alive, owed, projOwed, gen, ever, granted, backoff, silent, covers, early,
                  order, wire, placed, faults, failures>>
  BY DEF Poll, orderVars
<1>2. state' = state \/ (state \in {"READY", "RECONCILING"} /\ state' = "DEGRADED")
  BY DEF Poll
<1>3. UNCHANGED <<sweeps, pass>> \/ (Sweep(gen, early) /\ Established)
  BY <1>2 DEF Poll, Sweepable, Established
<1>4. /\ sweeps' \in Seq(SweepRecord)
      /\ pass' \in {"none", "started", "loaded", "listed"}
      /\ pass' = pass \/ (pass = "none" /\ pass' = "started")
  <2>1. CASE UNCHANGED <<sweeps, pass>>
    BY <1>0, <2>1 DEF TypeOK
  <2>2. CASE Sweep(gen, early)
    <3>1. gen \in Nat /\ early \in BOOLEAN
      BY <1>0 DEF TypeOK
    <3> QED BY <1>0, <2>2, <3>1, SweepStep DEF Sweep
  <2> QED BY <1>3, <2>1, <2>2
<1>5. TypeOK'
  BY <1>0, <1>1, <1>2, <1>4 DEF TypeOK, States
<1>6. SocketInv' /\ WireInv' /\ PassInv' /\ GapRepairedUnlessJoined'
  BY <1>0, <1>1, <1>2, <1>4
  DEF SocketInv, WireInv, PassInv, GapRepairedUnlessJoined, Established, Missed
<1>7. SweepInv'
  <2>1. Established => Established'
    BY <1>2 DEF Established
  <2>2. CASE UNCHANGED <<sweeps, pass>>
    BY <1>0, <1>1, <2>1, <2>2 DEF SweepInv
  <2>3. CASE Sweep(gen, early) /\ Established
    <3>1. gen \in Nat /\ early \in BOOLEAN
      BY <1>0 DEF TypeOK
    <3>2. /\ pass' # "none"
          /\ \A i \in DOMAIN sweeps' :
               \/ i \in DOMAIN sweeps /\ sweeps'[i] = sweeps[i]
               \/ sweeps'[i] = [gen |-> gen, joined |-> early]
      BY <1>0, <2>3, <3>1, SweepStep
    <3>3. ASSUME NEW i \in DOMAIN sweeps'
          PROVE  /\ sweeps'[i].gen <= gen'
                 /\ sweeps'[i].gen = gen' => Established' /\ sweeps'[i].joined = early'
      BY <1>0, <1>1, <2>1, <2>3, <3>1, <3>2, <3>3 DEF SweepInv
    <3> QED BY <3>2, <3>3 DEF SweepInv
  <2> QED BY <1>3, <2>2, <2>3
<1> QED BY <1>5, <1>6, <1>7 DEF IInv

\* Connections.
LEMMA OpensStep ==
  ASSUME IInv, KiteOpens \/ DhanOpens
  PROVE  IInv'
<1>0. TypeOK /\ SocketInv /\ WireInv /\ SweepInv /\ PassInv /\ GapRepairedUnlessJoined
  BY DEF IInv
<1>1. /\ feed' = "open" /\ alive' = TRUE /\ Authenticate
      /\ UNCHANGED <<broker, order, wire, placed, faults, failures>>
  BY DEF KiteOpens, DhanOpens, orderVars
<1>2. /\ state' = "RECONCILING" /\ owed' = TRUE /\ gen' = gen + 1 /\ ever' = TRUE
      /\ projOwed' = (projOwed \/ ever) /\ backoff' = FALSE /\ silent' = FALSE
      /\ early' = (pass \in {"loaded", "listed"})
      /\ Sweep(gen + 1, early') /\ UNCHANGED <<granted, covers>>
  BY <1>1 DEF Authenticate
<1>3. gen + 1 \in Nat /\ early' \in BOOLEAN
  BY <1>0, <1>2 DEF TypeOK
<1>4. /\ sweeps' \in Seq(SweepRecord)
      /\ pass' # "none"
      /\ pass' \in {"none", "started", "loaded", "listed"}
      /\ \A i \in DOMAIN sweeps' :
           \/ i \in DOMAIN sweeps /\ sweeps'[i] = sweeps[i]
           \/ sweeps'[i] = [gen |-> gen + 1, joined |-> early']
  <2> DEFINE b == early'
  <2>1. b \in BOOLEAN /\ Sweep(gen + 1, b)
    BY <1>2, <1>3
  <2> HIDE DEF b
  <2>2. /\ sweeps' \in Seq(SweepRecord)
        /\ pass' # "none"
        /\ pass' \in {"none", "started", "loaded", "listed"}
        /\ \A i \in DOMAIN sweeps' :
             \/ i \in DOMAIN sweeps /\ sweeps'[i] = sweeps[i]
             \/ sweeps'[i] = [gen |-> gen + 1, joined |-> b]
    BY <1>0, <1>3, <2>1, SweepStep
  <2> QED BY <2>2 DEF b
<1>5. TypeOK'
  BY <1>0, <1>1, <1>2, <1>3, <1>4 DEF TypeOK, States
<1>6. SocketInv' /\ WireInv' /\ GapRepairedUnlessJoined'
  BY <1>0, <1>1, <1>2 DEF SocketInv, WireInv, GapRepairedUnlessJoined, Established
<1>7. PassInv'
  <2>1. pass' \in {"loaded", "listed"} => pass \in {"loaded", "listed"}
    BY <1>2 DEF Sweep
  <2> QED BY <1>2, <2>1 DEF PassInv
<1>8. SweepInv'
  <2>1. Established'
    BY <1>2 DEF Established
  <2>2. ASSUME NEW i \in DOMAIN sweeps'
        PROVE  /\ sweeps'[i].gen <= gen'
               /\ sweeps'[i].gen = gen' => Established' /\ sweeps'[i].joined = early'
    <3>1. CASE i \in DOMAIN sweeps /\ sweeps'[i] = sweeps[i]
      <4>1. sweeps[i].gen <= gen /\ gen \in Nat /\ sweeps[i].gen \in Nat
        BY <1>0, <3>1, SweepTypes DEF SweepInv, TypeOK
      <4> QED BY <1>2, <3>1, <4>1
    <3>2. CASE sweeps'[i] = [gen |-> gen + 1, joined |-> early']
      <4>1. sweeps'[i].gen = gen + 1 /\ sweeps'[i].joined = early'
        BY <3>2
      <4> QED BY <1>2, <1>3, <2>1, <4>1
    <3> QED BY <1>4, <2>2, <3>1, <3>2
  <2> QED BY <1>4, <2>2 DEF SweepInv
<1> QED BY <1>5, <1>6, <1>7, <1>8 DEF IInv

LEMMA UnplugStep ==
  ASSUME IInv, KiteCloses \/ DhanCloses \/ DhanLoginFails
  PROVE  IInv'
<1>0. TypeOK /\ SocketInv /\ WireInv /\ SweepInv /\ PassInv /\ GapRepairedUnlessJoined
  BY DEF IInv
<1>1. /\ alive' = FALSE /\ wire' = FALSE /\ owed' = TRUE /\ projOwed' = TRUE /\ granted' = "none"
      /\ UNCHANGED <<broker, ever, order, placed, sweeps, backoff, silent, pass, covers, early, failures>>
  BY DEF KiteCloses, DhanCloses, DhanLoginFails, Unplugged, sweepVars, passVars
<1>2. feed' \in {"down", "off", "waiting", "connecting", "open"} /\ faults' \in 0 .. MaxFaults
  <2>1. feed' \in {"down", "off", "waiting", "connecting", "open"}
    BY DEF KiteCloses, DhanCloses, DhanLoginFails
  <2>2. faults < MaxFaults /\ faults' = faults + 1
    BY DEF KiteCloses, DhanCloses, DhanLoginFails, Fault
  <2>3. faults \in 0 .. MaxFaults /\ MaxFaults \in Nat
    BY <1>0, StreamConstants DEF TypeOK
  <2> QED BY <2>1, <2>2, <2>3
<1>3. /\ state' \in {"DISCONNECTED", "AUTH_EXPIRED"}
      /\ gen' \in Nat
      /\ gen' > gen \/ (gen' = gen /\ ~Established)
  BY <1>0
  DEF KiteCloses, DhanCloses, DhanLoginFails, Disconnected, SessionLost, Expired, Established, TypeOK
<1>4. TypeOK'
  BY <1>0, <1>1, <1>2, <1>3 DEF TypeOK, States
<1>5. SocketInv' /\ WireInv' /\ PassInv' /\ GapRepairedUnlessJoined'
  BY <1>1, <1>3 DEF SocketInv, WireInv, PassInv, GapRepairedUnlessJoined, Established
<1>6. SweepInv'
  <2>1. ASSUME NEW i \in DOMAIN sweeps
        PROVE  sweeps[i].gen < gen'
    <3>1. /\ sweeps[i].gen <= gen /\ (sweeps[i].gen = gen => Established)
          /\ gen \in Nat /\ sweeps[i].gen \in Nat
      BY <1>0, <2>1, SweepTypes DEF SweepInv, TypeOK
    <3> QED BY <1>3, <3>1
  <2>2. \A i \in DOMAIN sweeps : sweeps[i].gen \in Nat
    BY <1>0, SweepTypes
  <2>3. pass = "none" => ~early /\ sweeps = <<>>
    BY <1>0 DEF SweepInv
  <2>4. ASSUME NEW i \in DOMAIN sweeps
        PROVE  sweeps[i].gen <= gen' /\ sweeps[i].gen # gen'
    BY <1>3, <2>1, <2>2, <2>4
  <2> QED BY <1>1, <2>3, <2>4 DEF SweepInv
<1> QED BY <1>4, <1>5, <1>6 DEF IInv

\* The sweeps and the pass stay as they are while the state does, or while
\* the stream is not established before and after.
LEMMA ConnectsStep ==
  ASSUME IInv, KiteAnnounced \/ DhanConnects
  PROVE  IInv'
<1>0. TypeOK /\ SocketInv /\ WireInv /\ SweepInv /\ PassInv /\ GapRepairedUnlessJoined
  BY DEF IInv
<1>1. UNCHANGED <<broker, alive, owed, projOwed, gen, ever, granted, sweeps, backoff, silent, pass, covers,
                  early, order, wire, placed, failures>>
  BY DEF KiteAnnounced, DhanConnects, machineVars, sweepVars, passVars, orderVars
<1>2. ~Established /\ (state' = state \/ state' = "CONNECTING")
  BY <1>0 DEF KiteAnnounced, DhanConnects, SocketInv, Established
<1>3. ~Established'
  BY <1>2 DEF Established
<1>4. TypeOK'
  BY <1>0, <1>1, <1>2, StreamConstants DEF TypeOK, States, KiteAnnounced, DhanConnects, Fault
<1>5. SocketInv' /\ WireInv' /\ PassInv' /\ GapRepairedUnlessJoined'
  BY <1>0, <1>1, <1>2, <1>3
  DEF SocketInv, WireInv, PassInv, GapRepairedUnlessJoined, Established, Missed
<1>6. SweepInv'
  BY <1>0, <1>1, <1>2 DEF SweepInv
<1> QED BY <1>4, <1>5, <1>6 DEF IInv

\* Orders, answers and time touch neither the connection nor the sweeps.
LEMMA OrderStep ==
  ASSUME IInv,
         FallsSilent \/ Places \/ Ends \/ Progress \/ Delivered \/ RestPoll \/ IdleTimePasses \/ BackoffPasses
  PROVE  IInv'
<1>0. TypeOK /\ SocketInv /\ WireInv /\ SweepInv /\ PassInv /\ GapRepairedUnlessJoined
  BY DEF IInv
<1>1. UNCHANGED <<broker, feed, state, owed, projOwed, gen, ever, granted, sweeps, pass, early, failures>>
  BY DEF FallsSilent, Places, Ends, Progress, Delivered, RestPoll, IdleTimePasses, BackoffPasses,
         machineVars, sweepVars, passVars, orderVars
<1>2. /\ alive' \in BOOLEAN /\ (alive' => alive)
      /\ backoff' \in BOOLEAN /\ silent' \in BOOLEAN /\ covers' \in BOOLEAN /\ wire' \in BOOLEAN
      /\ order' \in {"none", "working", "ended"} /\ placed' \in 0 .. MaxOrders /\ faults' \in 0 .. MaxFaults
  <2>1. /\ alive' = alive \/ alive' = FALSE
        /\ backoff' = backoff \/ backoff' = FALSE
        /\ silent' = silent \/ silent' = TRUE \/ silent' = FALSE
        /\ covers' = covers \/ covers' = FALSE
    BY DEF FallsSilent, Places, Ends, Progress, Delivered, RestPoll, PollSaysWorking, IdleTimePasses,
           BackoffPasses, sweepVars, passVars
  <2>2. wire' \in BOOLEAN
    BY <1>0 DEF FallsSilent, Places, Ends, Progress, Delivered, RestPoll, PollSaysWorking,
                IdleTimePasses, BackoffPasses, Delivering, Established, TypeOK, orderVars
  <2>3. order' = order \/ order' \in {"none", "working", "ended"}
    BY DEF FallsSilent, Places, Ends, Progress, Delivered, RestPoll, PollSaysWorking, IdleTimePasses,
           BackoffPasses, orderVars
  <2>4. placed' = placed \/ (placed < MaxOrders /\ placed' = placed + 1)
    BY DEF FallsSilent, Places, Ends, Progress, Delivered, RestPoll, IdleTimePasses, BackoffPasses,
           orderVars
  <2>5. faults' = faults \/ (faults < MaxFaults /\ faults' = faults + 1)
    BY DEF FallsSilent, Places, Ends, Progress, Delivered, RestPoll, IdleTimePasses, BackoffPasses, Fault
  <2>6. /\ alive \in BOOLEAN /\ backoff \in BOOLEAN /\ silent \in BOOLEAN /\ covers \in BOOLEAN
        /\ order \in {"none", "working", "ended"}
        /\ placed \in 0 .. MaxOrders /\ faults \in 0 .. MaxFaults /\ MaxOrders \in Nat /\ MaxFaults \in Nat
    BY <1>0, StreamConstants DEF TypeOK
  <2>7. /\ alive' \in BOOLEAN /\ backoff' \in BOOLEAN /\ silent' \in BOOLEAN /\ covers' \in BOOLEAN
        /\ (alive' => alive)
    <3>1. alive' \in BOOLEAN /\ backoff' \in BOOLEAN /\ covers' \in BOOLEAN
      BY <2>1, <2>6
    <3>2. silent' \in BOOLEAN
      BY <2>1, <2>6
    <3>3. alive' => alive
      BY <2>1
    <3> QED BY <3>1, <3>2, <3>3
  <2>8. placed' \in 0 .. MaxOrders /\ faults' \in 0 .. MaxFaults
    BY <2>4, <2>5, <2>6
  <2> QED BY <2>2, <2>3, <2>6, <2>7, <2>8
<1>3. TypeOK'
  BY <1>0, <1>1, <1>2 DEF TypeOK, States
<1>4. wire' => order' = "ended"
  BY <1>0
  DEF FallsSilent, Places, Ends, Progress, Delivered, RestPoll, PollSaysWorking, IdleTimePasses,
      BackoffPasses, WireInv, orderVars
<1>5. alive' /\ order' = "ended" /\ ~wire' => order = "ended" /\ ~wire /\ covers' = covers
  BY <1>0
  DEF FallsSilent, Places, Ends, Progress, Delivered, RestPoll, PollSaysWorking, IdleTimePasses,
      BackoffPasses, SocketInv, Delivering, passVars, orderVars
<1>6. SocketInv' /\ WireInv' /\ PassInv' /\ GapRepairedUnlessJoined'
  BY <1>0, <1>1, <1>2, <1>4, <1>5
  DEF SocketInv, WireInv, PassInv, GapRepairedUnlessJoined, Established, Missed
<1>7. SweepInv'
  BY <1>0, <1>1 DEF SweepInv, Established
<1> QED BY <1>3, <1>6, <1>7 DEF IInv

LEMMA NextInvariant == IInv /\ [Next]_vars => IInv'
<1> SUFFICES ASSUME IInv, [Next]_vars PROVE IInv'
  OBVIOUS
<1>1. CASE Next
  <2>1. CASE Pass
    BY <2>1, PassEndsStep, PassProceeds DEF Pass
  <2>2. CASE OtherPass
    BY <2>2, PassProceeds
  <2>3. CASE Poll
    BY <2>3, PollStep
  <2>4. CASE KiteOpens \/ DhanOpens
    BY <2>4, OpensStep
  <2>5. CASE KiteCloses \/ DhanCloses \/ DhanLoginFails
    BY <2>5, UnplugStep
  <2>6. CASE KiteAnnounced \/ DhanConnects
    BY <2>6, ConnectsStep
  <2>7. CASE FallsSilent \/ Places \/ Ends \/ Progress \/ Delivered \/ RestPoll \/ IdleTimePasses
               \/ BackoffPasses
    BY <2>7, OrderStep
  <2> QED BY <1>1, <2>1, <2>2, <2>3, <2>4, <2>5, <2>6, <2>7 DEF Next
<1>2. CASE UNCHANGED vars
  <2>1. TypeOK' /\ SocketInv' /\ WireInv' /\ PassInv' /\ GapRepairedUnlessJoined'
    BY <1>2
    DEF IInv, vars, TypeOK, SocketInv, WireInv, PassInv, GapRepairedUnlessJoined, Established, Missed
  <2>2. SweepInv'
    BY <1>2 DEF IInv, vars, SweepInv, Established
  <2> QED BY <2>1, <2>2 DEF IInv
<1> QED BY <1>1, <1>2

THEOREM InvariantHolds == Spec => []IInv
BY InitInvariant, NextInvariant, PTL DEF Spec

\* The life cycle, the sweeps and the pass stay within the values the code
\* gives them (OrderStreamStateMachine, OrderStreamConsumer).
THEOREM TypeCorrect == Spec => []TypeOK
<1>1. IInv => TypeOK
  BY DEF IInv
<1> QED BY <1>1, InvariantHolds, PTL

\* Whatever the order of drops, reconnections, passes and updates, READY by a
\* sweep that read the broker after the connection came leaves no order whose
\* end was missed (executeSweep, markSynchronized).
THEOREM GapsAreRepaired == Spec => []GapRepairedUnlessJoined
<1>1. IInv => GapRepairedUnlessJoined
  BY DEF IInv
<1> QED BY <1>1, InvariantHolds, PTL

=============================================================================
