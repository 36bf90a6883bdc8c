------------------------- MODULE OrderIntentsProofs -------------------------
(***************************************************************************)
(* OrderIntents implements AtMostOnceSubmission, for any number of         *)
(* processes, crashes, lost calls, resubmissions and sweeps.               *)
(*                                                                         *)
(* The argument: the row is a token.  Only an execution that moved it from *)
(* CREATED to SUBMITTING owns the right to send (Owner); the claim is a    *)
(* compare-and-set, and no statement ever writes CREATED over anything     *)
(* else, so the token is taken once.  The owner loses the right by sending *)
(* (posts becomes 1) or by recording the refusal, and a crash destroys it. *)
(*                                                                         *)
(* On top of it: whatever the row, an adapter's entry or an activity       *)
(* remembers of the order is true of the broker's record (TrueOf), however *)
(* old it is, so a terminal row tells the truth and no durable fill is     *)
(* taken back.  The rules of BrokerOrders keep it (TrueMerge), the record  *)
(* only moves on (MovesOn), and a refusal is believed only when no order   *)
(* can come into being any more (Dead), which the token guarantees.        *)
(***************************************************************************)
EXTENDS OrderIntents, TLAPS

(* The executions that hold the claim and have not used it yet.            *)
Owner(p) == exec[p].pc \in {"claimed", "pacing", "refuse"}

Unclaimed == row.state \in {"ABSENT", "CREATED"}

Journal ==
  /\ Unclaimed => posts = 0 /\ ~row.refused /\ \A p \in Procs : ~Owner(p)
  /\ \A p \in Procs : Owner(p) => posts = 0 /\ ~row.refused
  /\ \A p, q \in Procs : Owner(p) /\ Owner(q) => p = q

(* Where an activity will use an entry or a snapshot, there is one.        *)
Tracked(p) ==
  /\ exec[p].pc \in {"pacing", "posted", "lookup", "polling", "adopted"} => cache[p] # None
  /\ exec[p].pc \in {"adopted", "persist"} => exec[p].snap # None
  /\ rec[p].pc \in {"adopt", "persist"} => rec[p].snap # None
  /\ sweep[p].pc = "persist" => sweep[p].snap # None

IInv == TypeOK /\ (\A p \in Procs : Tracked(p)) /\ Journal

-----------------------------------------------------------------------------
(* The rules of BrokerOrders give snapshots, for every quantity.           *)

(* The label of a broker status is a lifecycle label, never CREATED.       *)
LEMMA KiteStateType ==
  ASSUME NEW label, NEW filled
  PROVE  KiteState(label, filled) \in OrderStates
  BY DEF KiteState, OrderStates, Terminal, Uncertain, WorkingStates

(* A REST row normalized on a known quantity is a snapshot, whatever its   *)
(* label.                                                                  *)
LEMMA NormalizeType ==
  ASSUME NEW report, NEW prior \in 0 .. Qty,
         report.qty \in {Absent} \cup 0 .. Qty,
         report.price \in {Absent} \cup 1 .. Qty
  PROVE  Normalize(report, prior) \in Snapshots
  <1> DEFINE filled == EvidenceFilled(report, prior)
  <1>2. filled \in 0 .. Qty
    BY QtyPositive DEF EvidenceFilled, Larger, Absent
  <1>3. KiteState(report.label, filled) \in OrderStates
    BY KiteStateType
  <1>4. EvidencePrice(report, prior) \in 0 .. Qty
    BY QtyPositive DEF EvidencePrice, Absent
  <1>5. "RECONCILIATION_REQUIRED" \in OrderStates
    BY DEF OrderStates, Uncertain
  <1> QED
    BY <1>2, <1>3, <1>4, <1>5 DEF Normalize, Snapshots

(* A stream event projected on a known snapshot is a snapshot.             *)
LEMMA FromStreamType ==
  ASSUME NEW report, NEW known \in Snapshots,
         report.qty \in {Absent} \cup 0 .. Qty,
         report.price \in {Absent} \cup 1 .. Qty
  PROVE  FromStream(report, known) \in Snapshots
  <1> DEFINE filled == IF report.qty # Absent THEN report.qty ELSE known.filled
  <1>1. known.state \in OrderStates /\ known.filled \in 0 .. Qty
    BY DEF Snapshots
  <1>2. filled \in 0 .. Qty
    BY <1>1
  <1>3. KiteState(report.label, filled) \in OrderStates
    BY KiteStateType
  <1>4. EvidencePrice(report, known.filled) \in 0 .. Qty
    BY <1>1, QtyPositive DEF EvidencePrice, Absent
  <1> QED
    BY <1>1, <1>2, <1>3, <1>4 DEF FromStream, Snapshots

(* Whatever two labels meet, the outcome is a lifecycle label.             *)
LEMMA ResolveStateType ==
  ASSUME NEW cur \in Snapshots, NEW cand \in Snapshots, NEW accepted, NEW stale
  PROVE  ResolveState(cur, cand, accepted, stale) \in OrderStates
  <1>1. cur.state \in OrderStates /\ cand.state \in OrderStates
    BY DEF Snapshots
  <1>2. {"RECONCILIATION_REQUIRED", "COMPLETE", "CANCELLED", "UNKNOWN", "PARTIALLY_FILLED"}
          \subseteq OrderStates
    BY DEF OrderStates, Terminal, Uncertain, WorkingStates
  <1>3. BothTerminal(cur, cand, accepted) \in OrderStates
    BY <1>1, <1>2 DEF BothTerminal
  <1>4. CachedTerminal(cur, accepted) \in OrderStates
    BY <1>1, <1>2 DEF CachedTerminal
  <1>5. ObservedTerminal(cand, accepted) \in OrderStates
    BY <1>1, <1>2 DEF ObservedTerminal
  <1>6. NeitherTerminal(cur, cand, accepted, stale) \in OrderStates
    BY <1>1, <1>2 DEF NeitherTerminal, Promote
  <1> QED
    BY <1>3, <1>4, <1>5, <1>6 DEF ResolveState

(* The merge of two snapshots is a snapshot, and its quantity is the       *)
(* larger one: nothing is rewound, nothing is added up.                    *)
LEMMA MergeType ==
  ASSUME NEW cur \in Snapshots, NEW cand \in Snapshots, NEW observed
  PROVE  /\ Merge(cur, cand, observed) \in Snapshots
         /\ Merge(cur, cand, observed).filled = Larger(cur.filled, cand.filled)
  <1> DEFINE accepted   == Larger(cur.filled, cand.filled)
             comparison == CompareObservation(observed, cur)
  <1>1. /\ cur.filled \in 0 .. Qty /\ cand.filled \in 0 .. Qty
        /\ cur.bid \in BOOLEAN /\ cand.bid \in BOOLEAN
        /\ cur.avg \in 0 .. Qty /\ cand.avg \in 0 .. Qty
    BY DEF Snapshots
  <1>2. accepted \in 0 .. Qty
    BY <1>1 DEF Larger
  <1>3. ResolveState(cur, cand, accepted, comparison < 0) \in OrderStates
    BY ResolveStateType
  <1>4. ResolvePrice(cur, cand, accepted, comparison) \in 0 .. Qty
    BY <1>1, QtyPositive DEF ResolvePrice
  <1>5. (cur.bid \/ cand.bid) \in BOOLEAN
    OBVIOUS
  <1> HIDE DEF comparison
  <1> QED
    BY <1>2, <1>3, <1>4, <1>5 DEF Merge, Snapshots, comparison

(* Quarantining a snapshot gives a snapshot of the same quantity.          *)
LEMMA QuarantineType ==
  ASSUME NEW cur \in Snapshots
  PROVE  /\ Quarantine(cur) \in Snapshots
         /\ Quarantine(cur).filled = cur.filled
  <1> DEFINE cand == [cur EXCEPT !.state = "RECONCILIATION_REQUIRED"]
  <1>1. cand \in Snapshots /\ cand.filled = cur.filled
    BY DEF Snapshots, OrderStates, Uncertain
  <1>2. cur.filled \in 0 .. Qty
    BY DEF Snapshots
  <1>3. Larger(cur.filled, cur.filled) = cur.filled
    BY <1>2 DEF Larger
  <1> HIDE DEF cand
  <1>4. /\ Merge(cur, cand, cur.filled) \in Snapshots
        /\ Merge(cur, cand, cur.filled).filled = cur.filled
    BY <1>1, <1>3, MergeType
  <1> QED
    BY <1>4 DEF Quarantine, cand

(* The rules for two labels none of which is terminal give none that is.   *)
LEMMA NeitherTerminalStays ==
  ASSUME NEW cur \in Snapshots, NEW cand \in Snapshots, NEW accepted, NEW stale,
         cur.state \notin Terminal, cand.state \notin Terminal
  PROVE  NeitherTerminal(cur, cand, accepted, stale) \notin Terminal
  BY DEF NeitherTerminal, Promote, Terminal

-----------------------------------------------------------------------------
(* Types of what the actions compute.                                      *)

(* The guarded update gives a row.                                         *)
LEMMA UpdatedType ==
  ASSUME TypeOK, NEW patch, patch.state \in OrderStates, patch.bid \in BOOLEAN,
         patch.refused \in BOOLEAN, patch.filled \in {Absent} \cup 0 .. Qty
  PROVE  /\ Updated(patch) \in RowType
         /\ ~patch.refused => Updated(patch).refused = row.refused
         /\ Updated(patch).state \in {"ABSENT", "CREATED"} => Unclaimed
  <1>1. row \in RowType /\ row.filled \in 0 .. Qty /\ row.refused \in BOOLEAN
    BY DEF TypeOK, RowType
  <1>2. CASE Applies(patch)
    <2>1. /\ Updated(patch).state = patch.state
          /\ Updated(patch).refused = (row.refused \/ patch.refused)
      BY <1>2 DEF Updated
    <2>2. Updated(patch) \in RowType
      BY <1>1, <1>2 DEF Updated, RowType, RowStates
    <2>3. patch.state # "ABSENT"
      BY DEF OrderStates, Terminal, Uncertain, WorkingStates
    <2>4. patch.state = "CREATED" => row.state = "CREATED"
      BY <1>2 DEF Applies, Predecessors
    <2>5. ~patch.refused => Updated(patch).refused = row.refused
      BY <1>1, <2>1
    <2> QED
      BY <2>1, <2>2, <2>3, <2>4, <2>5 DEF Unclaimed
  <1>3. CASE ~Applies(patch)
    BY <1>1, <1>3 DEF Updated, Unclaimed
  <1> QED
    BY <1>2, <1>3

(* Persisting a snapshot never touches the refusal mark nor the token.     *)
LEMMA PersistedType ==
  ASSUME TypeOK, NEW snap \in Snapshots
  PROVE  /\ Updated(Snapshot(snap)) \in RowType
         /\ Updated(Snapshot(snap)).refused = row.refused
         /\ Updated(Snapshot(snap)).state \in {"ABSENT", "CREATED"} => Unclaimed
  <1> DEFINE patch == Snapshot(snap)
  <1>1. /\ patch.state \in OrderStates /\ patch.bid \in BOOLEAN
        /\ patch.refused \in BOOLEAN /\ ~patch.refused
        /\ patch.filled \in {Absent} \cup 0 .. Qty
    BY DEF Snapshot, Snapshots
  <1> HIDE DEF patch
  <1>2. /\ Updated(patch) \in RowType
        /\ Updated(patch).refused = row.refused
        /\ Updated(patch).state \in {"ABSENT", "CREATED"} => Unclaimed
    BY <1>1, UpdatedType
  <1> QED
    BY <1>2 DEF patch

(* A payload carries a typed quantity and price.                           *)
LEMMA PayloadType ==
  ASSUME TypeOK
  PROVE  /\ Payload.qty \in {Absent} \cup 0 .. Qty
         /\ Payload.price \in {Absent} \cup 1 .. Qty
  <1>1. order.filled \in 0 .. Qty
    BY DEF TypeOK, OrderType
  <1> QED
    BY <1>1, QtyPositive DEF Payload

(* commit() of a snapshot gives a snapshot.                                *)
LEMMA CommittedType ==
  ASSUME TypeOK, NEW p \in Procs, NEW cand \in Snapshots, NEW observed
  PROVE  Committed(p, cand, observed) \in Snapshots
  <1>1. cache[p] = None \/ cache[p] \in Snapshots
    BY DEF TypeOK
  <1> QED
    BY <1>1, MergeType DEF Committed

(* A REST row processed by a process gives a snapshot.                     *)
LEMMA ReadType ==
  ASSUME TypeOK, NEW p \in Procs
  PROVE  Read(p) \in Snapshots /\ Normalize(Payload, 0) \in Snapshots
  <1> DEFINE prior == IF cache[p] = None THEN 0 ELSE cache[p].filled
  <1>1. prior \in 0 .. Qty /\ 0 \in 0 .. Qty
    BY QtyPositive DEF TypeOK, Snapshots
  <1> HIDE DEF prior
  <1>2. Normalize(Payload, prior) \in Snapshots /\ Normalize(Payload, 0) \in Snapshots
    BY <1>1, PayloadType, NormalizeType
  <1>3. Committed(p, Normalize(Payload, prior), Payload.qty) \in Snapshots
    BY <1>2, CommittedType
  <1> QED
    BY <1>2, <1>3 DEF Read, prior

(* Relabelling an entry by a merge gives a snapshot.                       *)
LEMMA RelabelType ==
  ASSUME NEW snap \in Snapshots, NEW state \in OrderStates
  PROVE  /\ [snap EXCEPT !.state = state] \in Snapshots
         /\ Merge(snap, [snap EXCEPT !.state = state], snap.filled) \in Snapshots
  <1>1. [snap EXCEPT !.state = state] \in Snapshots
    BY DEF Snapshots
  <1> QED
    BY <1>1, MergeType

(* The labels the actions write themselves.                                *)
LEMMA LabelsWritten ==
  {"SUBMITTING", "ACKNOWLEDGED", "CANCEL_REQUESTED", "REJECTED",
   "RECONCILIATION_REQUIRED"} \subseteq OrderStates
  BY DEF OrderStates, Terminal, Uncertain, WorkingStates

-----------------------------------------------------------------------------
(* Frames: what a step of one activity of one process changes.             *)

(* A step that neither sends, nor claims, nor refuses keeps the journal.   *)
LEMMA JournalKept ==
  ASSUME Journal, posts' = posts, row'.refused = row.refused,
         row'.state \in {"ABSENT", "CREATED"} => Unclaimed,
         \A p \in Procs : Owner(p)' => Owner(p)
  PROVE  Journal'
  BY DEF Journal, Unclaimed

(* Moving an execution: its new place, its old snapshot, the others.       *)
LEMMA GotoFrame ==
  ASSUME TypeOK, NEW p \in Procs, NEW pc \in ExecPcs, Goto(p, pc)
  PROVE  /\ exec' \in [Procs -> ExecType]
         /\ exec'[p].pc = pc /\ exec'[p].snap = exec[p].snap
         /\ \A q \in Procs \ {p} : exec'[q] = exec[q]
  BY DEF TypeOK, ExecType, Goto

(* Ending an execution with a snapshot to persist.                         *)
LEMMA OutcomeFrame ==
  ASSUME TypeOK, NEW p \in Procs, NEW snap \in Snapshots, Outcome(p, snap)
  PROVE  /\ exec' \in [Procs -> ExecType]
         /\ exec'[p].pc = "persist" /\ exec'[p].snap = snap
         /\ \A q \in Procs \ {p} : exec'[q] = exec[q]
  <1>1. "persist" \in ExecPcs
    BY DEF ExecPcs
  <1> QED
    BY <1>1 DEF TypeOK, ExecType, Outcome

(* Writing an entry.                                                       *)
LEMMA EntryFrame ==
  ASSUME TypeOK, NEW p \in Procs, NEW snap \in Snapshots \cup {None}, Entry(p, snap)
  PROVE  /\ cache' \in [Procs -> Snapshots \cup {None}]
         /\ cache'[p] = snap
         /\ \A q \in Procs \ {p} : cache'[q] = cache[q]
  BY DEF TypeOK, Entry

(* What a step must leave behind: the invariant, and neither a request nor *)
(* a refusal more.                                                         *)
Quiet == IInv' /\ posts' = posts /\ row'.refused = row.refused

TypesKept ==
  /\ order' \in OrderType
  /\ wire' \subseteq Procs
  /\ upsets' \in 0 .. MaxUpsets
  /\ cache' \in [Procs -> Snapshots \cup {None}]
  /\ exec' \in [Procs -> ExecType]
  /\ rec' \in [Procs -> TaskType(RecPcs)]
  /\ sweep' \in [Procs -> TaskType(SweepPcs)]

OthersKept(p) ==
  \A q \in Procs \ {p} :
    exec'[q] = exec[q] /\ cache'[q] = cache[q] /\ rec'[q] = rec[q] /\ sweep'[q] = sweep[q]

(* A step of p that concerns nobody else and moves no token is quiet.      *)
LEMMA QuietStep ==
  ASSUME IInv, NEW p \in Procs, TypesKept, OthersKept(p), Tracked(p)',
         Owner(p)' => Owner(p),
         row' \in RowType, posts' = posts, row'.refused = row.refused,
         row'.state \in {"ABSENT", "CREATED"} => Unclaimed
  PROVE  Quiet
  <1>1. TypeOK /\ Journal /\ \A q \in Procs : Tracked(q)
    BY DEF IInv
  <1>2. TypeOK'
    BY <1>1 DEF TypesKept, TypeOK
  <1>3. \A q \in Procs : Tracked(q)'
    BY <1>1 DEF OthersKept, Tracked
  <1>4. \A q \in Procs : Owner(q)' => Owner(q)
    BY DEF OthersKept, Owner
  <1>5. Journal'
    BY <1>1, <1>4, JournalKept
  <1> QED
    BY <1>2, <1>3, <1>5 DEF IInv, Quiet

(* The same for a step of execute() on memory, the wire and the broker.    *)
LEMMA QuietExec ==
  ASSUME IInv, NEW p \in Procs, UNCHANGED <<row, posts, rec, sweep, upsets>>,
         order' \in OrderType, wire' \subseteq Procs,
         cache' \in [Procs -> Snapshots \cup {None}], exec' \in [Procs -> ExecType],
         \A q \in Procs \ {p} : exec'[q] = exec[q] /\ cache'[q] = cache[q],
         exec'[p].pc \in {"pacing", "posted", "lookup", "polling", "adopted"} => cache'[p] # None,
         exec'[p].pc \in {"adopted", "persist"} => exec'[p].snap # None,
         exec'[p].pc \in {"claimed", "pacing", "refuse"} => Owner(p)
  PROVE  Quiet
  <1>1. TypeOK /\ Tracked(p)
    BY DEF IInv
  <1>2. TypesKept /\ row' \in RowType
    BY <1>1 DEF TypeOK, TypesKept
  <1>3. OthersKept(p)
    BY DEF OthersKept
  <1>4. Tracked(p)'
    BY <1>1 DEF Tracked
  <1>5. Owner(p)' => Owner(p)
    BY DEF Owner
  <1>6. row'.state \in {"ABSENT", "CREATED"} => Unclaimed
    BY DEF Unclaimed
  <1> QED
    BY <1>2, <1>3, <1>4, <1>5, <1>6, QuietStep

(* The same for a step of a reconciliation pass or of a sweep.             *)
LEMMA QuietTask ==
  ASSUME IInv, NEW p \in Procs, UNCHANGED <<posts, wire, exec>>,
         order' \in OrderType, upsets' \in 0 .. MaxUpsets,
         cache' \in [Procs -> Snapshots \cup {None}],
         rec' \in [Procs -> TaskType(RecPcs)], sweep' \in [Procs -> TaskType(SweepPcs)],
         \A q \in Procs \ {p} :
           cache'[q] = cache[q] /\ rec'[q] = rec[q] /\ sweep'[q] = sweep[q],
         cache'[p] # None \/ cache'[p] = cache[p],
         rec'[p].pc \in {"adopt", "persist"} => rec'[p].snap # None,
         sweep'[p].pc = "persist" => sweep'[p].snap # None,
         row' \in RowType, row'.refused = row.refused,
         row'.state \in {"ABSENT", "CREATED"} => Unclaimed
  PROVE  Quiet
  <1>1. TypeOK /\ Tracked(p)
    BY DEF IInv
  <1>2. TypesKept
    BY <1>1 DEF TypeOK, TypesKept
  <1>3. OthersKept(p)
    BY DEF OthersKept
  <1>4. Tracked(p)'
    BY <1>1 DEF Tracked
  <1>5. Owner(p)' => Owner(p)
    BY DEF Owner
  <1> QED
    BY <1>2, <1>3, <1>4, <1>5, QuietStep

-----------------------------------------------------------------------------
(* execute(), on memory.                                                   *)

(* Every place the actions move an execution to.                           *)
LEMMA PlacesOfExecute ==
  {"idle", "create", "claim", "claimed", "pacing", "refuse", "posted", "lookup",
   "polling", "adopted", "owned", "persist", "done"} \subseteq ExecPcs
  BY DEF ExecPcs

(* The memory of a process is typed.                                       *)
LEMMA MemoryType ==
  ASSUME TypeOK, NEW p \in Procs
  PROVE  /\ cache[p] \in Snapshots \cup {None}
         /\ exec[p] \in ExecType
         /\ rec[p] \in TaskType(RecPcs)
         /\ sweep[p] \in TaskType(SweepPcs)
         /\ order \in OrderType
         /\ cache \in [Procs -> Snapshots \cup {None}]
         /\ exec \in [Procs -> ExecType]
         /\ wire \subseteq Procs
  BY DEF TypeOK

(* A step that moves the execution and leaves the entry there or alone.    *)
LEMMA QuietMove ==
  ASSUME IInv, NEW p \in Procs, NEW pc \in ExecPcs, Goto(p, pc),
         UNCHANGED <<row, posts, rec, sweep, upsets>>, wire' \subseteq Procs,
         order' \in OrderType,
         UNCHANGED cache \/ \E snap \in Snapshots : Entry(p, snap),
         pc \in {"posted", "lookup", "polling"} => cache'[p] # None,
         pc \notin {"adopted", "persist", "claimed", "pacing", "refuse"}
  PROVE  Quiet
  <1>1. TypeOK /\ None \notin Snapshots
    BY IntentConstants DEF IInv
  <1>2. /\ exec' \in [Procs -> ExecType] /\ exec'[p].pc = pc
        /\ \A q \in Procs \ {p} : exec'[q] = exec[q]
    BY <1>1, GotoFrame
  <1>3. /\ cache' \in [Procs -> Snapshots \cup {None}]
        /\ \A q \in Procs \ {p} : cache'[q] = cache[q]
    BY <1>1, EntryFrame, MemoryType
  <1> QED
    BY <1>1, <1>2, <1>3, QuietExec

(* A step that ends the execution with a snapshot to persist.              *)
LEMMA QuietOutcome ==
  ASSUME IInv, NEW p \in Procs, NEW snap \in Snapshots, Outcome(p, snap),
         UNCHANGED <<row, posts, wire, order, rec, sweep, upsets>>,
         UNCHANGED cache \/ \E new \in Snapshots : Entry(p, new)
  PROVE  Quiet
  <1>1. TypeOK /\ None \notin Snapshots
    BY IntentConstants DEF IInv
  <1>2. /\ exec' \in [Procs -> ExecType] /\ exec'[p].pc = "persist" /\ exec'[p].snap = snap
        /\ \A q \in Procs \ {p} : exec'[q] = exec[q]
    BY <1>1, OutcomeFrame
  <1>3. /\ cache' \in [Procs -> Snapshots \cup {None}]
        /\ \A q \in Procs \ {p} : cache'[q] = cache[q]
    BY <1>1, EntryFrame, MemoryType
  <1>4. order' \in OrderType /\ wire' \subseteq Procs
    BY <1>1, MemoryType
  <1> QED
    BY <1>1, <1>2, <1>3, <1>4, QuietExec

(* Upsets stay within their bound.                                         *)
LEMMA UpsetType ==
  ASSUME TypeOK, Upset
  PROVE  upsets' \in 0 .. MaxUpsets
  BY IntentConstants DEF TypeOK, Upset

(* An execution is replaced as a whole, with nothing to persist.           *)
LEMMA RestartFrame ==
  ASSUME TypeOK, NEW p \in Procs, NEW pc \in ExecPcs,
         exec' = [exec EXCEPT ![p] = [NoExec EXCEPT !.pc = pc]]
  PROVE  /\ exec' \in [Procs -> ExecType]
         /\ exec'[p].pc = pc
         /\ \A q \in Procs \ {p} : exec'[q] = exec[q]
  <1>1. [NoExec EXCEPT !.pc = pc] \in ExecType
    BY DEF NoExec, ExecType, Answers
  <1>2. [NoExec EXCEPT !.pc = pc].pc = pc
    BY DEF NoExec
  <1> QED
    BY <1>1, <1>2 DEF TypeOK

(* A request is taken from the queue.                                      *)
LEMMA SubmitQuiet ==
  ASSUME IInv, NEW p \in Procs, Submit(p)
  PROVE  Quiet
  <1>1. TypeOK /\ Tracked(p)
    BY DEF IInv
  <1>2. upsets' \in 0 .. MaxUpsets
    BY <1>1, UpsetType DEF Submit, TypeOK
  <1>3. "create" \in ExecPcs
    BY PlacesOfExecute
  <1>4. /\ exec' \in [Procs -> ExecType] /\ exec'[p].pc = "create"
        /\ \A q \in Procs \ {p} : exec'[q] = exec[q]
    BY <1>1, <1>3, RestartFrame DEF Submit
  <1>5. UNCHANGED <<row, posts, wire, order, cache, rec, sweep>>
    BY DEF Submit
  <1>6. TypesKept /\ row' \in RowType
    BY <1>1, <1>2, <1>4, <1>5 DEF TypeOK, TypesKept
  <1>7. OthersKept(p)
    BY <1>4, <1>5 DEF OthersKept
  <1>8. Tracked(p)' /\ ~Owner(p)'
    BY <1>1, <1>4, <1>5 DEF Tracked, Owner
  <1>9. row'.state \in {"ABSENT", "CREATED"} => Unclaimed
    BY <1>5 DEF Unclaimed
  <1> QED
    BY <1>5, <1>6, <1>7, <1>8, <1>9, QuietStep

(* submitOrder up to the pacing queue.                                     *)
LEMMA StartSubmitQuiet ==
  ASSUME IInv, NEW p \in Procs, StartSubmit(p)
  PROVE  Quiet
  <1>1. TypeOK /\ cache[p] \in Snapshots \cup {None} /\ None \notin Snapshots
    BY MemoryType, IntentConstants DEF IInv
  <1>2. UNCHANGED <<row, posts, wire, order, rec, sweep, upsets>>
    BY DEF StartSubmit
  <1>3. CASE cache[p] # None /\ Outcome(p, cache[p]) /\ UNCHANGED cache
    BY <1>1, <1>2, <1>3, QuietOutcome
  <1>4. CASE /\ cache[p] = None
             /\ Entry(p, [state |-> "SUBMITTING", filled |-> 0, bid |-> FALSE, avg |-> 0])
             /\ Goto(p, "pacing")
    <2>1. [state |-> "SUBMITTING", filled |-> 0, bid |-> FALSE, avg |-> 0] \in Snapshots
      BY LabelsWritten, QtyPositive DEF Snapshots
    <2>2. /\ cache' \in [Procs -> Snapshots \cup {None}] /\ cache'[p] # None
          /\ \A q \in Procs \ {p} : cache'[q] = cache[q]
      BY <1>1, <1>4, <2>1, EntryFrame
    <2>3. /\ exec' \in [Procs -> ExecType] /\ exec'[p].pc = "pacing"
          /\ \A q \in Procs \ {p} : exec'[q] = exec[q]
      BY <1>1, <1>4, PlacesOfExecute, GotoFrame
    <2>4. Owner(p) /\ order' \in OrderType /\ wire' \subseteq Procs
      BY <1>1, <1>2, MemoryType DEF StartSubmit, Owner
    <2> QED
      BY <1>2, <2>2, <2>3, <2>4, QuietExec
  <1> QED
    BY <1>3, <1>4 DEF StartSubmit

(* The last check before the socket refuses.                               *)
LEMMA RefusedBeforeSendQuiet ==
  ASSUME IInv, NEW p \in Procs, RefusedBeforeSend(p)
  PROVE  Quiet
  <1>1. TypeOK
    BY DEF IInv
  <1>2. /\ UNCHANGED <<row, posts, wire, order, rec, sweep, upsets>>
        /\ exec[p].pc = "pacing" /\ Entry(p, None) /\ Goto(p, "refuse")
    BY DEF RefusedBeforeSend
  <1>3. /\ cache' \in [Procs -> Snapshots \cup {None}]
        /\ \A q \in Procs \ {p} : cache'[q] = cache[q]
    BY <1>1, <1>2, EntryFrame
  <1>4. /\ exec' \in [Procs -> ExecType] /\ exec'[p].pc = "refuse"
        /\ \A q \in Procs \ {p} : exec'[q] = exec[q]
    BY <1>1, <1>2, PlacesOfExecute, GotoFrame
  <1>5. Owner(p) /\ order' \in OrderType /\ wire' \subseteq Procs
    BY <1>1, <1>2, MemoryType DEF Owner
  <1> QED
    BY <1>2, <1>3, <1>4, <1>5, QuietExec

(* The broker acknowledged the request.                                    *)
LEMMA AcknowledgedQuiet ==
  ASSUME IInv, NEW p \in Procs, Acknowledged(p)
  PROVE  Quiet
  <1> DEFINE ack == [state |-> "ACKNOWLEDGED", filled |-> 0, bid |-> TRUE, avg |-> 0]
  <1>1. TypeOK /\ None \notin Snapshots
    BY IntentConstants DEF IInv
  <1>2. ack \in Snapshots
    BY LabelsWritten, QtyPositive DEF Snapshots
  <1>3. /\ UNCHANGED <<row, posts, wire, order, rec, sweep, upsets>>
        /\ Entry(p, Committed(p, ack, 0)) /\ Goto(p, "polling")
    BY DEF Acknowledged
  <1> HIDE DEF ack
  <1>4. Committed(p, ack, 0) \in Snapshots
    BY <1>1, <1>2, CommittedType
  <1>5. cache'[p] # None
    BY <1>1, <1>3, <1>4, EntryFrame
  <1>6. order' \in OrderType /\ wire' \subseteq Procs /\ "polling" \in ExecPcs
    BY <1>1, <1>3, MemoryType, PlacesOfExecute
  <1> QED
    BY <1>3, <1>4, <1>5, <1>6, QuietMove

(* The broker definitively refused it.                                     *)
LEMMA PlacementRefusedQuiet ==
  ASSUME IInv, NEW p \in Procs, PlacementRefused(p)
  PROVE  Quiet
  <1> DEFINE rejected == Merge(cache[p], [cache[p] EXCEPT !.state = "REJECTED"], cache[p].filled)
  <1>1. TypeOK /\ cache[p] \in Snapshots
    BY MemoryType DEF IInv, Tracked, PlacementRefused
  <1>2. rejected \in Snapshots
    BY <1>1, LabelsWritten, RelabelType
  <1>3. /\ UNCHANGED <<row, posts, wire, order, rec, sweep, upsets>>
        /\ Entry(p, rejected) /\ Outcome(p, rejected)
    BY DEF PlacementRefused
  <1> HIDE DEF rejected
  <1> QED
    BY <1>2, <1>3, QuietOutcome

(* Nobody knows what became of it.                                         *)
LEMMA PlacementAmbiguousQuiet ==
  ASSUME IInv, NEW p \in Procs, PlacementAmbiguous(p)
  PROVE  Quiet
  <1>1. TypeOK /\ cache[p] # None
    BY DEF IInv, Tracked, PlacementAmbiguous
  <1>2. /\ UNCHANGED <<row, posts, wire, order, cache, rec, sweep, upsets>>
        /\ Goto(p, "lookup")
    BY DEF PlacementAmbiguous
  <1>3. order' \in OrderType /\ wire' \subseteq Procs /\ "lookup" \in ExecPcs
    BY <1>1, <1>2, MemoryType, PlacesOfExecute
  <1> QED
    BY <1>1, <1>2, <1>3, QuietMove

(* Adopting what the lookup finds keeps the snapshot beside the entry.     *)
LEMMA LookupByTagQuiet ==
  ASSUME IInv, NEW p \in Procs, LookupByTag(p)
  PROVE  Quiet
  <1>1. /\ TypeOK /\ cache[p] \in Snapshots /\ None \notin Snapshots
        /\ Read(p) \in Snapshots
    BY MemoryType, ReadType, IntentConstants DEF IInv, Tracked, LookupByTag
  <1>2. UNCHANGED <<row, posts, wire, order, rec, sweep, upsets>>
    BY DEF LookupByTag
  <1>3. Quarantine(cache[p]) \in Snapshots
    BY <1>1, QuarantineType
  <1>4. CASE Entry(p, Read(p)) /\ Outcome(p, Read(p))
    BY <1>1, <1>2, <1>4, QuietOutcome
  <1>5. CASE Entry(p, Quarantine(cache[p])) /\ Outcome(p, Quarantine(cache[p]))
    BY <1>2, <1>3, <1>5, QuietOutcome
  <1>6. CASE /\ Entry(p, Read(p))
             /\ exec' = [exec EXCEPT ![p].pc = "adopted", ![p].snap = Read(p)]
    <2>1. /\ cache' \in [Procs -> Snapshots \cup {None}] /\ cache'[p] # None
          /\ \A q \in Procs \ {p} : cache'[q] = cache[q]
      BY <1>1, <1>6, EntryFrame
    <2>2. /\ exec' \in [Procs -> ExecType]
          /\ exec'[p].pc = "adopted" /\ exec'[p].snap = Read(p)
          /\ \A q \in Procs \ {p} : exec'[q] = exec[q]
      <3>1. "adopted" \in ExecPcs
        BY PlacesOfExecute
      <3> QED
        BY <1>1, <1>6, <3>1 DEF TypeOK, ExecType
    <2>3. order' \in OrderType /\ wire' \subseteq Procs
      BY <1>1, <1>2, MemoryType
    <2> QED
      BY <1>1, <1>2, <2>1, <2>2, <2>3, QuietExec
  <1> QED
    BY <1>4, <1>5, <1>6 DEF LookupByTag

(* A round of waitForResolution.                                           *)
LEMMA PollQuiet ==
  ASSUME IInv, NEW p \in Procs, Poll(p)
  PROVE  Quiet
  <1>1. /\ TypeOK /\ Tracked(p) /\ None \notin Snapshots
        /\ Read(p) \in Snapshots
    BY ReadType, IntentConstants DEF IInv
  <1>2. /\ UNCHANGED <<row, posts, wire, order, rec, sweep, upsets>>
        /\ Entry(p, Read(p)) /\ exec[p].pc \in {"polling", "adopted"}
    BY DEF Poll, Awaiting
  <1>3. CASE Outcome(p, Read(p))
    BY <1>1, <1>2, <1>3, QuietOutcome
  <1>4. CASE UNCHANGED exec
    <2>1. /\ cache' \in [Procs -> Snapshots \cup {None}] /\ cache'[p] # None
          /\ \A q \in Procs \ {p} : cache'[q] = cache[q]
      BY <1>1, <1>2, EntryFrame
    <2>2. order' \in OrderType /\ wire' \subseteq Procs /\ exec' \in [Procs -> ExecType]
      BY <1>1, <1>2, <1>4, MemoryType
    <2> QED
      BY <1>1, <1>2, <1>4, <2>1, <2>2, QuietExec DEF Tracked
  <1> QED
    BY <1>3, <1>4 DEF Poll

(* A cancellation only relabels the broker's order.                        *)
LEMMA CancelAtBrokerType ==
  ASSUME TypeOK, CancelAtBroker
  PROVE  order' \in OrderType
  BY DEF TypeOK, OrderType, CancelAtBroker, Labels

(* A requested cancellation is merged into the entry.                      *)
LEMMA CancelRequestedType ==
  ASSUME NEW p \in Procs, cache[p] \in Snapshots
  PROVE  CancelRequested(p) \in Snapshots
  BY LabelsWritten, RelabelType DEF CancelRequested

(* The protective cancellation.                                            *)
LEMMA ProtectiveCancelQuiet ==
  ASSUME IInv, NEW p \in Procs, ProtectiveCancel(p)
  PROVE  Quiet
  <1>1. TypeOK /\ Tracked(p) /\ cache[p] \in Snapshots /\ None \notin Snapshots
    BY MemoryType, IntentConstants DEF IInv, Tracked, ProtectiveCancel, Awaiting
  <1>2. /\ UNCHANGED <<row, posts, wire, exec, rec, sweep, upsets>> /\ CancelAtBroker
        /\ Entry(p, CancelRequested(p)) /\ exec[p].pc \in {"polling", "adopted"}
    BY DEF ProtectiveCancel, Awaiting
  <1>3. /\ cache' \in [Procs -> Snapshots \cup {None}] /\ cache'[p] # None
        /\ \A q \in Procs \ {p} : cache'[q] = cache[q]
    BY <1>1, <1>2, CancelRequestedType, EntryFrame
  <1>4. order' \in OrderType /\ wire' \subseteq Procs /\ exec' \in [Procs -> ExecType]
    BY <1>1, <1>2, MemoryType, CancelAtBrokerType
  <1> QED
    BY <1>1, <1>2, <1>3, <1>4, QuietExec DEF Tracked

(* The ways out of the waiting loop.                                       *)
LEMMA GiveUpQuiet ==
  ASSUME IInv, NEW p \in Procs, CancelNotTransmitted(p) \/ BecomesUncertain(p)
  PROVE  Quiet
  <1>1. cache[p] \in Snapshots
    BY MemoryType DEF IInv, Tracked, CancelNotTransmitted, BecomesUncertain
  <1>2. Quarantine(cache[p]) \in Snapshots
    BY <1>1, QuarantineType
  <1>3. CASE CancelNotTransmitted(p)
    BY <1>1, <1>3, QuietOutcome DEF CancelNotTransmitted
  <1>4. CASE BecomesUncertain(p)
    BY <1>2, <1>4, QuietOutcome DEF BecomesUncertain
  <1> QED
    BY <1>3, <1>4

(* The adopted snapshot, marked uncertain.                                 *)
LEMMA AdoptedUncertainQuiet ==
  ASSUME IInv, NEW p \in Procs, AdoptedUncertain(p)
  PROVE  Quiet
  <1> DEFINE uncertain == [exec[p].snap EXCEPT !.state = "RECONCILIATION_REQUIRED"]
  <1>1. exec[p].snap \in Snapshots
    BY MemoryType DEF IInv, Tracked, AdoptedUncertain, ExecType
  <1>2. uncertain \in Snapshots
    BY <1>1, LabelsWritten, RelabelType
  <1>3. /\ UNCHANGED <<row, posts, wire, order, rec, sweep, upsets>>
        /\ Outcome(p, uncertain) /\ (Entry(p, uncertain) \/ UNCHANGED cache)
    BY DEF AdoptedUncertain
  <1> HIDE DEF uncertain
  <1> QED
    BY <1>2, <1>3, QuietOutcome

(* Somebody else's id.                                                     *)
LEMMA OwnedQuiet ==
  ASSUME IInv, NEW p \in Procs, Owned(p)
  PROVE  Quiet
  <1> DEFINE known == IF cache[p].bid THEN Read(p) ELSE cache[p]
  <1>1. TypeOK /\ cache[p] \in Snapshots \cup {None} /\ Read(p) \in Snapshots
    BY MemoryType, ReadType DEF IInv
  <1>2. UNCHANGED <<row, posts, wire, order, rec, sweep, upsets>>
    BY DEF Owned
  <1>3. CASE Goto(p, "done") /\ UNCHANGED cache
    <2>1. order' \in OrderType /\ wire' \subseteq Procs /\ "done" \in ExecPcs
      BY <1>1, <1>2, MemoryType, PlacesOfExecute
    <2> QED
      BY <1>2, <1>3, <2>1, QuietMove
  <1>4. CASE cache[p] # None /\ Entry(p, known) /\ Outcome(p, known)
    <2>1. known \in Snapshots
      BY <1>1, <1>4
    <2> HIDE DEF known
    <2> QED
      BY <1>2, <1>4, <2>1, QuietOutcome
  <1> QED
    BY <1>3, <1>4 DEF Owned

(* An event of the order-update stream.                                    *)
LEMMA StreamObservesQuiet ==
  ASSUME IInv, NEW p \in Procs, StreamObserves(p)
  PROVE  Quiet
  <1> DEFINE seen == Merge(cache[p], FromStream(Payload, cache[p]), Payload.qty)
  <1>1. TypeOK /\ Tracked(p) /\ cache[p] \in Snapshots /\ None \notin Snapshots
    BY MemoryType, IntentConstants DEF IInv, StreamObserves
  <1>2. FromStream(Payload, cache[p]) \in Snapshots
    BY <1>1, PayloadType, FromStreamType
  <1>3. seen \in Snapshots
    BY <1>1, <1>2, MergeType
  <1>4. UNCHANGED <<row, posts, wire, order, exec, rec, sweep, upsets>> /\ Entry(p, seen)
    BY DEF StreamObserves
  <1> HIDE DEF seen
  <1>5. /\ cache' \in [Procs -> Snapshots \cup {None}] /\ cache'[p] # None
        /\ \A q \in Procs \ {p} : cache'[q] = cache[q]
    BY <1>1, <1>3, <1>4, EntryFrame
  <1>6. order' \in OrderType /\ wire' \subseteq Procs /\ exec' \in [Procs -> ExecType]
    BY <1>1, <1>4, MemoryType
  <1> QED
    BY <1>1, <1>4, <1>5, <1>6, QuietExec DEF Tracked, Owner

-----------------------------------------------------------------------------
(* The broker, reconciliation, the sweep and a crash.                      *)

(* Requests arrive, are refused or lost; the order lives its life.         *)
LEMMA BrokerQuiet ==
  ASSUME IInv, Broker
  PROVE  Quiet
  <1>1. TypeOK /\ Journal /\ \A q \in Procs : Tracked(q)
    BY DEF IInv
  <1>2. UNCHANGED <<row, posts, cache, rec, sweep, upsets>>
    BY DEF Broker, BrokerOpens, BrokerFills, BrokerEnds, BrokerAccepts, BrokerRefuses, RequestLost
  <1>3. wire' \subseteq Procs
    BY <1>1 DEF TypeOK, Broker, BrokerOpens, BrokerFills, BrokerEnds, BrokerAccepts,
                BrokerRefuses, RequestLost
  <1>4. order' \in OrderType
    <2>1. /\ {"PUT ORDER REQ RECEIVED", "OPEN", "CANCELLED", "REJECTED", "COMPLETE"} \subseteq Labels
          /\ order \in OrderType /\ 0 \in 0 .. Qty
      BY <1>1, QtyPositive DEF Labels, TypeOK, Terminal
    <2>2. CASE BrokerFills
      <3>0. order.filled \in 0 .. Qty /\ order.filled < Qty
        BY <2>1, <2>2 DEF BrokerFills, OrderType
      <3>1. order.filled + 1 \in 0 .. Qty
        BY <3>0, QtyPositive
      <3>2. \E l \in Labels : order' = [label |-> l, filled |-> order.filled + 1]
        <4>1. order.label \in Labels
          BY <2>2 DEF BrokerFills, Labels
        <4> QED
          BY <2>1, <2>2, <4>1 DEF BrokerFills
      <3> QED
        BY <3>1, <3>2 DEF OrderType
    <2>3. CASE BrokerOpens \/ BrokerEnds
      BY <2>1, <2>3 DEF BrokerOpens, BrokerEnds, OrderType
    <2>4. CASE \E p \in Procs : BrokerAccepts(p) \/ BrokerRefuses(p) \/ RequestLost(p)
      <3>1. \/ UNCHANGED order
            \/ order' = [label |-> "PUT ORDER REQ RECEIVED", filled |-> 0]
        BY <2>4 DEF BrokerAccepts, BrokerRefuses, RequestLost
      <3>2. "PUT ORDER REQ RECEIVED" \in Labels /\ 0 \in 0 .. Qty
        BY <2>1
      <3>3. [label |-> "PUT ORDER REQ RECEIVED", filled |-> 0] \in OrderType
        BY <3>2 DEF OrderType
      <3>4. CASE UNCHANGED order
        BY <2>1, <3>4
      <3> QED
        BY <3>1, <3>3, <3>4
    <2> QED
      BY <2>2, <2>3, <2>4 DEF Broker
  <1>5. /\ exec' \in [Procs -> ExecType]
        /\ \A q \in Procs : exec'[q].pc = exec[q].pc /\ exec'[q].snap = exec[q].snap
    <2>1. CASE UNCHANGED exec
      BY <1>1, <2>1 DEF TypeOK
    <2>2. ASSUME NEW p \in Procs, NEW ans \in Answers, Answer(p, ans)
          PROVE  /\ exec' \in [Procs -> ExecType]
                 /\ \A q \in Procs : exec'[q].pc = exec[q].pc /\ exec'[q].snap = exec[q].snap
      BY <1>1, <2>2 DEF TypeOK, ExecType, Answer
    <2>3. UNCHANGED exec \/ \E p \in Procs : \E ans \in Answers : Answer(p, ans)
      BY DEF Broker, BrokerOpens, BrokerFills, BrokerEnds, BrokerAccepts, BrokerRefuses,
             RequestLost, Answers
    <2> QED
      BY <2>1, <2>2, <2>3
  <1>6. TypeOK'
    BY <1>1, <1>2, <1>3, <1>4, <1>5 DEF TypeOK
  <1>7. \A q \in Procs : Tracked(q)'
    BY <1>1, <1>2, <1>5 DEF Tracked
  <1>8. Journal'
    BY <1>1, <1>2, <1>5 DEF Journal, Owner, Unclaimed
  <1> QED
    BY <1>2, <1>6, <1>7, <1>8 DEF IInv, Quiet

(* Tasks are replaced as a whole or moved on.                              *)
LEMMA TasksTyped ==
  ASSUME NEW snap \in Snapshots
  PROVE  /\ NoTask \in TaskType(RecPcs) /\ NoTask \in TaskType(SweepPcs)
         /\ NoTask.pc = "idle"
         /\ [NoTask EXCEPT !.pc = "adopt", !.snap = snap] \in TaskType(RecPcs)
         /\ [NoTask EXCEPT !.pc = "persist", !.snap = snap] \in TaskType(SweepPcs)
         /\ [NoTask EXCEPT !.pc = "confirm"] \in TaskType(SweepPcs)
  BY DEF NoTask, TaskType, RecPcs, SweepPcs, Views

(* What a pass or a sweep keeps of the row.                                *)
LEMMA LoadedType ==
  ASSUME TypeOK
  PROVE  Loaded \in Views
  BY DEF Loaded, Views, TypeOK, RowType

(* The steps of a reconciliation pass.                                     *)
LEMMA ReconcilesQuiet ==
  ASSUME IInv, NEW p \in Procs, Reconciles(p) \/ RecFails(p)
  PROVE  Quiet
  <1>1. /\ TypeOK /\ Tracked(p) /\ None \notin Snapshots
        /\ Read(p) \in Snapshots /\ Normalize(Payload, 0) \in Snapshots
        /\ rec[p] \in TaskType(RecPcs) /\ rec \in [Procs -> TaskType(RecPcs)]
        /\ sweep \in [Procs -> TaskType(SweepPcs)] /\ row \in RowType
        /\ cache \in [Procs -> Snapshots \cup {None}] /\ upsets \in 0 .. MaxUpsets
        /\ order \in OrderType
    BY ReadType, IntentConstants DEF IInv, TypeOK
  <1>2. UNCHANGED <<posts, wire, order, exec, sweep>>
    BY DEF Reconciles, RecLoad, RecList, RecAdopt, RecPersist, RecMissing, RecFails
  <1>3. upsets' \in 0 .. MaxUpsets
    BY <1>1, UpsetType DEF Reconciles, RecLoad, RecList, RecAdopt, RecPersist, RecMissing, RecFails
  <1>4. sweep'[p].pc = "persist" => sweep'[p].snap # None
    BY <1>1, <1>2 DEF Tracked
  <1>t. NoTask \in TaskType(RecPcs) /\ NoTask.pc = "idle"
    BY DEF NoTask, TaskType, RecPcs, Views
  <1>5. CASE RecLoad(p)
    <2>1. /\ UNCHANGED <<row, cache>>
          /\ rec' = [rec EXCEPT ![p] = [pc |-> "list", seen |-> Loaded, snap |-> None]]
      BY <1>5 DEF RecLoad
    <2>2. [pc |-> "list", seen |-> Loaded, snap |-> None] \in TaskType(RecPcs)
      BY <1>1, LoadedType DEF TaskType, RecPcs
    <2> QED
      BY <1>1, <1>2, <1>3, <1>4, <2>1, <2>2, QuietTask DEF Unclaimed
  <1>6. CASE RecList(p)
    <2>1. ASSUME NEW snap \in Snapshots,
                 rec' = [rec EXCEPT ![p] = [NoTask EXCEPT !.pc = "adopt", !.snap = snap]],
                 UNCHANGED row, Entry(p, Read(p)) \/ UNCHANGED cache
          PROVE  Quiet
      <3>1. /\ [NoTask EXCEPT !.pc = "adopt", !.snap = snap] \in TaskType(RecPcs)
            /\ [NoTask EXCEPT !.pc = "adopt", !.snap = snap].snap # None
        BY <1>1, TasksTyped DEF NoTask
      <3>2. /\ cache' \in [Procs -> Snapshots \cup {None}]
            /\ \A q \in Procs \ {p} : cache'[q] = cache[q]
            /\ cache'[p] # None \/ cache'[p] = cache[p]
        BY <1>1, <2>1, EntryFrame
      <3> QED
        BY <1>1, <1>2, <1>3, <1>4, <2>1, <3>1, <3>2, QuietTask DEF Unclaimed
    <2>2. ASSUME rec' = [rec EXCEPT ![p] = IF @.seen.phase = "ended" THEN NoTask
                                           ELSE [@ EXCEPT !.pc = "missing"]],
                 UNCHANGED <<row, cache>>
          PROVE  Quiet
      <3>1. [rec[p] EXCEPT !.pc = "missing"] \in TaskType(RecPcs)
        BY <1>1 DEF TaskType, RecPcs
      <3>2. [rec[p] EXCEPT !.pc = "missing"].pc = "missing"
        BY <1>1 DEF TaskType
      <3>3. /\ rec' \in [Procs -> TaskType(RecPcs)] /\ rec'[p].pc \in {"idle", "missing"}
            /\ \A q \in Procs \ {p} : rec'[q] = rec[q]
        BY <1>1, <1>t, <2>2, <3>1, <3>2
      <3> QED
        BY <1>1, <1>2, <1>3, <1>4, <2>2, <3>3, QuietTask DEF Unclaimed
    <2> QED
      BY <1>1, <1>6, <2>1, <2>2 DEF RecList
  <1>7. CASE RecAdopt(p)
    <2> DEFINE adopted == Committed(p, rec[p].snap, rec[p].snap.filled)
    <2>1. rec[p].snap \in Snapshots
      BY <1>1, <1>7 DEF RecAdopt, Tracked, TaskType
    <2>2. adopted \in Snapshots
      BY <1>1, <2>1, CommittedType
    <2>3. /\ Entry(p, adopted) /\ UNCHANGED row
          /\ rec' = [rec EXCEPT ![p].pc = "persist", ![p].snap = adopted]
      BY <1>7 DEF RecAdopt
    <2> HIDE DEF adopted
    <2>4. /\ cache' \in [Procs -> Snapshots \cup {None}]
          /\ \A q \in Procs \ {p} : cache'[q] = cache[q]
          /\ cache'[p] # None
      BY <1>1, <2>2, <2>3, EntryFrame
    <2>5. /\ rec' \in [Procs -> TaskType(RecPcs)] /\ rec'[p].snap # None
          /\ \A q \in Procs \ {p} : rec'[q] = rec[q]
      BY <1>1, <2>2, <2>3 DEF TaskType, RecPcs
    <2> QED
      BY <1>1, <1>2, <1>3, <1>4, <2>3, <2>4, <2>5, QuietTask DEF Unclaimed
  <1>8. CASE RecPersist(p) \/ RecMissing(p) \/ RecFails(p)
    <2>1. UNCHANGED cache /\ rec' = [rec EXCEPT ![p] = NoTask]
      BY <1>8 DEF RecPersist, RecMissing, RecFails
    <2>2. /\ row' \in RowType /\ row'.refused = row.refused
          /\ row'.state \in {"ABSENT", "CREATED"} => Unclaimed
      <3>1. CASE UNCHANGED row
        BY <1>1, <3>1 DEF Unclaimed
      <3>2. CASE RecPersist(p)
        <4>1. rec[p].snap \in Snapshots
          BY <1>1, <3>2 DEF RecPersist, Tracked, TaskType
        <4> QED
          BY <1>1, <3>2, <4>1, PersistedType DEF RecPersist
      <3>3. CASE RecMissing(p) /\ row' # row
        <4> DEFINE patch == Transition("RECONCILIATION_REQUIRED", rec[p].seen.bid, OrderStates)
        <4>1. /\ patch.state \in OrderStates /\ patch.bid \in BOOLEAN
              /\ patch.refused \in BOOLEAN /\ ~patch.refused
              /\ patch.filled \in {Absent} \cup 0 .. Qty
          BY <1>1, LabelsWritten DEF Transition, TaskType, Views
        <4>2. row' = Updated(patch)
          BY <3>3 DEF RecMissing
        <4> HIDE DEF patch
        <4> QED
          BY <1>1, <4>1, <4>2, UpdatedType
      <3> QED
        BY <1>8, <3>1, <3>2, <3>3 DEF RecFails
    <2> QED
      BY <1>1, <1>2, <1>3, <1>4, <1>t, <2>1, <2>2, QuietTask
  <1> QED
    BY <1>5, <1>6, <1>7, <1>8 DEF Reconciles

(* The steps of a sweep.                                                   *)
LEMMA SweepsQuiet ==
  ASSUME IInv, NEW p \in Procs, Sweeps(p)
  PROVE  Quiet
  <1>1. /\ TypeOK /\ Tracked(p) /\ None \notin Snapshots
        /\ Read(p) \in Snapshots /\ Normalize(Payload, 0) \in Snapshots
        /\ sweep[p] \in TaskType(SweepPcs) /\ rec \in [Procs -> TaskType(RecPcs)]
        /\ sweep \in [Procs -> TaskType(SweepPcs)] /\ row \in RowType
        /\ cache \in [Procs -> Snapshots \cup {None}] /\ upsets \in 0 .. MaxUpsets
        /\ order \in OrderType /\ cache[p] \in Snapshots \cup {None}
    BY ReadType, IntentConstants DEF IInv, TypeOK
  <1>2. UNCHANGED <<posts, wire, exec, rec>>
    BY DEF Sweeps, SweepLoad, SweepNothing, SweepAdopts, SweepCancels, SweepConfirms,
           SweepUnconfirmed, SweepPersists
  <1>3. upsets' \in 0 .. MaxUpsets
    BY <1>1, UpsetType DEF Sweeps, SweepLoad, SweepNothing, SweepAdopts, SweepCancels,
       SweepConfirms, SweepUnconfirmed, SweepPersists
  <1>4. rec'[p].pc \in {"adopt", "persist"} => rec'[p].snap # None
    BY <1>1, <1>2 DEF Tracked
  <1>5. cache[p] # None => Quarantine(cache[p]) \in Snapshots /\ CancelRequested(p) \in Snapshots
    BY <1>1, QuarantineType, CancelRequestedType
  <1>6. /\ order' \in OrderType
        /\ UNCHANGED cache \/ \E snap \in Snapshots : Entry(p, snap)
    <2>1. CASE SweepCancels(p)
      BY <1>1, <1>5, <2>1, CancelAtBrokerType DEF SweepCancels
    <2>2. CASE ~SweepCancels(p)
      <3>1. UNCHANGED order
        BY <2>2 DEF Sweeps, SweepLoad, SweepNothing, SweepAdopts, SweepConfirms,
                    SweepUnconfirmed, SweepPersists
      <3>2. UNCHANGED cache \/ \E snap \in Snapshots : Entry(p, snap)
        BY <1>1, <1>5, <2>2 DEF Sweeps, SweepLoad, SweepNothing, SweepAdopts, SweepConfirms,
                                SweepUnconfirmed, SweepPersists
      <3> QED
        BY <1>1, <3>1, <3>2
    <2> QED
      BY <2>1, <2>2
  <1>7. /\ cache' \in [Procs -> Snapshots \cup {None}]
        /\ \A q \in Procs \ {p} : cache'[q] = cache[q]
        /\ cache'[p] # None \/ cache'[p] = cache[p]
    BY <1>1, <1>6, EntryFrame
  <1>8. \E task \in TaskType(SweepPcs) :
          /\ sweep' = [sweep EXCEPT ![p] = task]
          /\ task.pc = "persist" => task.snap # None
    <2> DEFINE Good(task) == /\ task \in TaskType(SweepPcs)
                             /\ task.pc = "persist" => task.snap # None
    <2>1. SweepLoad(p) => \E task : Good(task) /\ sweep' = [sweep EXCEPT ![p] = task]
      <3>1. Good([pc |-> "cancel", seen |-> Loaded, snap |-> None])
        BY <1>1, LoadedType DEF TaskType, SweepPcs
      <3> QED
        BY <3>1 DEF SweepLoad
    <2>2. Good(NoTask)
      BY DEF NoTask, TaskType, SweepPcs, Views
    <2>3. Good([NoTask EXCEPT !.pc = "confirm"])
      BY DEF NoTask, TaskType, SweepPcs, Views
    <2>4. ASSUME NEW snap \in Snapshots
          PROVE  Good([NoTask EXCEPT !.pc = "persist", !.snap = snap])
      BY <1>1 DEF NoTask, TaskType, SweepPcs, Views
    <2>5. Good(sweep[p]) /\ sweep = [sweep EXCEPT ![p] = sweep[p]]
      BY <1>1 DEF Tracked
    <2> HIDE DEF Good
    <2>6. ASSUME NEW snap \in Snapshots, SweepOutcome(p, snap)
          PROVE  \E task : Good(task) /\ sweep' = [sweep EXCEPT ![p] = task]
      BY <2>4, <2>6 DEF SweepOutcome
    <2>7. SweepCancels(p) \/ SweepConfirms(p) =>
            \E task : Good(task) /\ sweep' = [sweep EXCEPT ![p] = task]
      BY <1>1, <1>5, <2>3, <2>5, <2>6 DEF SweepCancels, SweepConfirms
    <2>8. SweepNothing(p) \/ SweepAdopts(p) \/ SweepUnconfirmed(p) \/ SweepPersists(p) =>
            \E task : Good(task) /\ sweep' = [sweep EXCEPT ![p] = task]
      BY <2>2, <2>5 DEF SweepNothing, SweepAdopts, SweepUnconfirmed, SweepPersists
    <2>9. \E task : Good(task) /\ sweep' = [sweep EXCEPT ![p] = task]
      BY <2>1, <2>7, <2>8 DEF Sweeps
    <2> QED
      BY <2>9 DEF Good
  <1>9. /\ sweep' \in [Procs -> TaskType(SweepPcs)]
        /\ \A q \in Procs \ {p} : sweep'[q] = sweep[q]
        /\ sweep'[p].pc = "persist" => sweep'[p].snap # None
    BY <1>1, <1>8
  <1>10. /\ row' \in RowType /\ row'.refused = row.refused
         /\ row'.state \in {"ABSENT", "CREATED"} => Unclaimed
    <2>1. CASE SweepPersists(p)
      <3>1. sweep[p].snap \in Snapshots
        BY <1>1, <2>1 DEF SweepPersists, Tracked, TaskType
      <3> QED
        BY <1>1, <2>1, <3>1, PersistedType DEF SweepPersists
    <2>2. CASE UNCHANGED row
      BY <1>1, <2>2 DEF Unclaimed
    <2> QED
      BY <2>1, <2>2 DEF Sweeps, SweepLoad, SweepNothing, SweepAdopts, SweepCancels,
                        SweepConfirms, SweepUnconfirmed
  <1> QED
    BY <1>1, <1>2, <1>3, <1>4, <1>6, <1>7, <1>9, <1>10, QuietTask

(* A crash takes the memory, and with it the right to send.                *)
LEMMA CrashQuiet ==
  ASSUME IInv, NEW p \in Procs, Crash(p)
  PROVE  Quiet
  <1>1. TypeOK /\ upsets' \in 0 .. MaxUpsets
    BY UpsetType DEF IInv, Crash
  <1>2. /\ NoTask \in TaskType(RecPcs) /\ NoTask \in TaskType(SweepPcs) /\ NoTask.pc = "idle"
        /\ NoExec \in ExecType /\ NoExec.pc = "idle"
    BY DEF NoTask, TaskType, RecPcs, SweepPcs, Views, NoExec, ExecType, ExecPcs, Answers
  <1>3. /\ cache' = [cache EXCEPT ![p] = None] /\ exec' = [exec EXCEPT ![p] = NoExec]
        /\ rec' = [rec EXCEPT ![p] = NoTask] /\ sweep' = [sweep EXCEPT ![p] = NoTask]
        /\ UNCHANGED <<row, posts, wire, order>>
    BY DEF Crash
  <1>4. TypesKept /\ row' \in RowType
    BY <1>1, <1>2, <1>3 DEF TypeOK, TypesKept
  <1>5. OthersKept(p)
    BY <1>1, <1>3 DEF TypeOK, OthersKept
  <1>6. /\ exec'[p].pc = "idle" /\ rec'[p].pc = "idle" /\ sweep'[p].pc = "idle"
    BY <1>1, <1>2, <1>3 DEF TypeOK
  <1>7. Tracked(p)' /\ ~Owner(p)'
    BY <1>6 DEF Tracked, Owner
  <1>8. row'.state \in {"ABSENT", "CREATED"} => Unclaimed
    BY <1>3 DEF Unclaimed
  <1> QED
    BY <1>3, <1>4, <1>5, <1>7, <1>8, QuietStep

-----------------------------------------------------------------------------
(* The statements of execute() on the row, and the request itself.         *)

(* A step of p on the row: everything but the journal.                     *)
LEMMA RowStep ==
  ASSUME IInv, NEW p \in Procs, NEW pc \in ExecPcs, exec'[p].pc = pc,
         exec' \in [Procs -> ExecType], \A q \in Procs \ {p} : exec'[q] = exec[q],
         pc \notin {"pacing", "lookup", "polling", "adopted", "persist"},
         pc = "posted" => cache[p] # None,
         UNCHANGED <<order, cache, rec, sweep>>, wire' \subseteq Procs,
         upsets' \in 0 .. MaxUpsets, row' \in RowType, posts' \in Nat, Journal'
  PROVE  IInv'
  <1>1. TypeOK /\ \A q \in Procs : Tracked(q)
    BY DEF IInv
  <1>2. TypeOK'
    BY <1>1 DEF TypeOK
  <1>3. \A q \in Procs \ {p} : Tracked(q)'
    BY <1>1 DEF Tracked
  <1>4. Tracked(p)'
    BY <1>1 DEF Tracked
  <1> QED
    BY <1>2, <1>3, <1>4 DEF IInv

(* A row that is there already is left alone.                              *)
LEMMA CreatedType ==
  ASSUME IInv
  PROVE  /\ Created \in RowType /\ Created.refused = row.refused
         /\ Created.state \in {"ABSENT", "CREATED"} => Unclaimed
  <1>1. row \in RowType /\ (row.state = "ABSENT" => ~row.refused) /\ row.refused \in BOOLEAN
    BY DEF IInv, TypeOK, Journal, Unclaimed, RowType
  <1>2. CASE row.state = "ABSENT"
    <2>1. /\ Created = [state |-> "CREATED", filled |-> 0, bid |-> FALSE, refused |-> FALSE]
      BY <1>2 DEF Created, NoRow
    <2>2. "CREATED" \in RowStates /\ 0 \in 0 .. Qty
      BY QtyPositive DEF RowStates, OrderStates, WorkingStates
    <2> QED
      BY <1>1, <1>2, <2>1, <2>2 DEF RowType, Unclaimed
  <1>3. CASE row.state # "ABSENT"
    BY <1>1, <1>3 DEF Created, Unclaimed
  <1> QED
    BY <1>2, <1>3

(* The row the patches of execute() lead to.                               *)
LEMMA PatchType ==
  ASSUME TypeOK, NEW p \in Procs
  PROVE  /\ Updated(ClaimPatch) \in RowType /\ Updated(Refusal(p)) \in RowType
         /\ Updated(ClaimPatch).refused = row.refused
         /\ Applies(ClaimPatch) => row.state = "CREATED" /\ Updated(ClaimPatch).state = "SUBMITTING"
         /\ Applies(Refusal(p)) =>
              /\ row.state = IF exec[p].pc = "claim" THEN "CREATED" ELSE "SUBMITTING"
              /\ Updated(Refusal(p)).refused = TRUE /\ Updated(Refusal(p)).state = "REJECTED"
  <1>1. /\ ClaimPatch.state = "SUBMITTING" /\ ClaimPatch.bid = FALSE
        /\ ClaimPatch.refused = FALSE /\ ClaimPatch.filled = Absent
        /\ ClaimPatch.expected = {"CREATED"}
    BY DEF ClaimPatch, Transition
  <1>2. /\ Refusal(p).state = "REJECTED" /\ Refusal(p).bid = FALSE
        /\ Refusal(p).refused = TRUE /\ Refusal(p).filled = Absent
        /\ Refusal(p).expected = {IF exec[p].pc = "claim" THEN "CREATED" ELSE "SUBMITTING"}
    BY DEF Refusal, Transition
  <1>3. "SUBMITTING" \in OrderStates /\ "REJECTED" \in OrderStates
    BY LabelsWritten
  <1>4. Updated(ClaimPatch) \in RowType /\ Updated(ClaimPatch).refused = row.refused
    <2> DEFINE patch == ClaimPatch
    <2>1. /\ patch.state \in OrderStates /\ patch.bid \in BOOLEAN /\ patch.refused \in BOOLEAN
          /\ ~patch.refused /\ patch.filled \in {Absent} \cup 0 .. Qty
      BY <1>1, <1>3
    <2> HIDE DEF patch
    <2>2. Updated(patch) \in RowType /\ Updated(patch).refused = row.refused
      BY <2>1, UpdatedType
    <2> QED
      BY <2>2 DEF patch
  <1>5. Updated(Refusal(p)) \in RowType
    <2> DEFINE patch == Refusal(p)
    <2>1. /\ patch.state \in OrderStates /\ patch.bid \in BOOLEAN /\ patch.refused \in BOOLEAN
          /\ patch.filled \in {Absent} \cup 0 .. Qty
      BY <1>2, <1>3
    <2> HIDE DEF patch
    <2>2. Updated(patch) \in RowType
      BY <2>1, UpdatedType
    <2> QED
      BY <2>2 DEF patch
  <1>6. Applies(ClaimPatch) => row.state = "CREATED" /\ Updated(ClaimPatch).state = "SUBMITTING"
    BY <1>1 DEF Applies, Updated
  <1>7. Applies(Refusal(p)) =>
              /\ row.state = IF exec[p].pc = "claim" THEN "CREATED" ELSE "SUBMITTING"
              /\ Updated(Refusal(p)).refused = TRUE /\ Updated(Refusal(p)).state = "REJECTED"
    BY <1>2 DEF Applies, Updated
  <1> QED
    BY <1>4, <1>5, <1>6, <1>7

(* The INSERT.                                                             *)
LEMMA CreateQuiet ==
  ASSUME IInv, NEW p \in Procs, Create(p)
  PROVE  Quiet
  <1> DEFINE pc == IF Created.state = "CREATED" THEN "claim" ELSE "owned"
  <1>1. TypeOK /\ Journal /\ pc \in {"claim", "owned"} /\ pc \in ExecPcs
    BY PlacesOfExecute DEF IInv
  <1>2. row' = Created /\ Goto(p, pc) /\ UNCHANGED <<posts, wire, order, cache, rec, sweep, upsets>>
    BY DEF Create
  <1> HIDE DEF pc
  <1>3. /\ exec' \in [Procs -> ExecType] /\ exec'[p].pc = pc
        /\ \A q \in Procs \ {p} : exec'[q] = exec[q]
    BY <1>1, <1>2, GotoFrame
  <1>4. \A q \in Procs : Owner(q)' => Owner(q)
    BY <1>1, <1>3 DEF Owner
  <1>5. Journal' /\ row' \in RowType /\ row'.refused = row.refused
    BY <1>1, <1>2, <1>4, CreatedType, JournalKept
  <1>6. IInv'
    BY <1>1, <1>2, <1>3, <1>5, RowStep DEF TypeOK
  <1> QED
    BY <1>2, <1>5, <1>6 DEF Quiet

(* The last write of an execution.                                         *)
LEMMA PersistQuiet ==
  ASSUME IInv, NEW p \in Procs, Persist(p)
  PROVE  Quiet
  <1>1. TypeOK /\ Journal /\ exec[p].snap \in Snapshots /\ "done" \in ExecPcs
    BY MemoryType, PlacesOfExecute DEF IInv, Tracked, Persist, ExecType
  <1>2. /\ row' = Updated(Snapshot(exec[p].snap))
        /\ exec' = [exec EXCEPT ![p] = [NoExec EXCEPT !.pc = "done"]]
        /\ UNCHANGED <<posts, wire, order, cache, rec, sweep, upsets>>
    BY DEF Persist
  <1>3. /\ exec' \in [Procs -> ExecType] /\ exec'[p].pc = "done"
        /\ \A q \in Procs \ {p} : exec'[q] = exec[q]
    BY <1>1, <1>2, RestartFrame
  <1>4. \A q \in Procs : Owner(q)' => Owner(q)
    BY <1>3 DEF Owner
  <1>5. Journal' /\ row' \in RowType /\ row'.refused = row.refused
    BY <1>1, <1>2, <1>4, PersistedType, JournalKept
  <1>6. IInv'
    BY <1>1, <1>2, <1>3, <1>5, RowStep DEF TypeOK
  <1> QED
    BY <1>2, <1>5, <1>6 DEF Quiet

(* The claim takes the token when it applies, which is only once.          *)
LEMMA ClaimQuiet ==
  ASSUME IInv, NEW p \in Procs, Claim(p)
  PROVE  Quiet
  <1> DEFINE pc == IF Applies(ClaimPatch) THEN "claimed" ELSE "owned"
  <1>1. TypeOK /\ Journal /\ pc \in {"claimed", "owned"} /\ pc \in ExecPcs
    BY PlacesOfExecute DEF IInv
  <1>2. /\ row' = Updated(ClaimPatch) /\ Goto(p, pc)
        /\ UNCHANGED <<posts, wire, order, cache, rec, sweep, upsets>>
    BY DEF Claim
  <1>3. /\ exec' \in [Procs -> ExecType] /\ exec'[p].pc = pc
        /\ \A q \in Procs \ {p} : exec'[q] = exec[q]
    <2> HIDE DEF pc
    <2> QED
      BY <1>1, <1>2, GotoFrame
  <1>4. row' \in RowType /\ row'.refused = row.refused
    BY <1>1, <1>2, PatchType
  <1>5. Journal'
    <2>1. CASE Applies(ClaimPatch)
      <3>1. /\ Unclaimed /\ ~Unclaimed' /\ posts' = posts
        BY <1>1, <1>2, <2>1, PatchType DEF Unclaimed
      <3> QED
        BY <1>1, <1>3, <1>4, <2>1, <3>1 DEF Journal, Owner
    <2>2. CASE ~Applies(ClaimPatch)
      <3>1. UNCHANGED <<row, posts>>
        BY <1>2, <2>2 DEF Updated
      <3>2. \A q \in Procs : Owner(q)' => Owner(q)
        BY <1>3, <2>2 DEF Owner
      <3> QED
        BY <1>1, <3>1, <3>2, JournalKept DEF Unclaimed
    <2> QED
      BY <2>1, <2>2
  <1> HIDE DEF pc
  <1>6. IInv'
    BY <1>1, <1>2, <1>3, <1>4, <1>5, RowStep DEF TypeOK
  <1> QED
    BY <1>2, <1>4, <1>6 DEF Quiet

(* A request more, and it is the first one.                                *)
Sends == posts = 0 /\ ~row.refused /\ posts' = 1 /\ row'.refused = row.refused

(* The refusal, of an intent for which nothing was sent.                   *)
Refuses == posts = 0 /\ ~row.refused /\ row'.refused = TRUE /\ posts' = posts

(* Only the holder of the token sends.                                     *)
LEMMA PostSends ==
  ASSUME IInv, NEW p \in Procs, Post(p)
  PROVE  IInv' /\ Sends
  <1>1. TypeOK /\ Journal /\ Owner(p) /\ cache[p] # None /\ "posted" \in ExecPcs
    BY PlacesOfExecute DEF IInv, Post, Owner, Tracked
  <1>2. /\ posts' = posts + 1 /\ wire' = wire \cup {p} /\ Goto(p, "posted")
        /\ UNCHANGED <<row, order, cache, rec, sweep, upsets>>
    BY DEF Post
  <1>3. posts = 0 /\ ~row.refused /\ ~Unclaimed /\ \A q \in Procs \ {p} : ~Owner(q)
    BY <1>1 DEF Journal
  <1>4. posts' = 1 /\ posts' \in Nat /\ wire' \subseteq Procs
    BY <1>1, <1>2, <1>3 DEF TypeOK
  <1>5. /\ exec' \in [Procs -> ExecType] /\ exec'[p].pc = "posted"
        /\ \A q \in Procs \ {p} : exec'[q] = exec[q]
    BY <1>1, <1>2, GotoFrame
  <1>6. \A q \in Procs : ~Owner(q)'
    BY <1>3, <1>5 DEF Owner
  <1>7. Journal'
    BY <1>2, <1>3, <1>6 DEF Journal, Unclaimed
  <1>8. IInv'
    BY <1>1, <1>2, <1>4, <1>5, <1>7, RowStep DEF TypeOK
  <1> QED
    BY <1>2, <1>3, <1>4, <1>8 DEF Sends

(* A refusal that applies finds nothing sent, and leaves no owner.         *)
LEMMA RefusalApplied ==
  ASSUME IInv, NEW p \in Procs, exec[p].pc \in {"claim", "claimed", "refuse"},
         Applies(Refusal(p)), row' = Updated(Refusal(p)), UNCHANGED posts,
         \A q \in Procs \ {p} : exec'[q] = exec[q], exec'[p].pc = "done"
  PROVE  Journal' /\ Refuses
  <1>1. TypeOK /\ Journal
    BY DEF IInv
  <1>2. /\ row.state = IF exec[p].pc = "claim" THEN "CREATED" ELSE "SUBMITTING"
        /\ row'.refused = TRUE /\ row'.state = "REJECTED"
    BY <1>1, PatchType
  <1>3. Owner(p) \/ Unclaimed
    BY <1>2 DEF Owner, Unclaimed
  <1>4. posts = 0 /\ ~row.refused /\ \A q \in Procs \ {p} : ~Owner(q)
    BY <1>1, <1>3 DEF Journal
  <1>5. \A q \in Procs : ~Owner(q)'
    BY <1>4 DEF Owner
  <1>6. Journal'
    BY <1>2, <1>5 DEF Journal, Unclaimed
  <1> QED
    BY <1>2, <1>4, <1>6 DEF Refuses

(* A dispatch guard refuses: recorded, or the id is somebody else's.       *)
LEMMA RefuseRefuses ==
  ASSUME IInv, NEW p \in Procs, Refuse(p)
  PROVE  IInv' /\ (Refuses \/ Quiet)
  <1> DEFINE pc == IF Applies(Refusal(p)) THEN "done" ELSE "owned"
  <1>1. TypeOK /\ Journal /\ pc \in {"done", "owned"} /\ pc \in ExecPcs
    BY PlacesOfExecute DEF IInv
  <1>2. /\ row' = Updated(Refusal(p)) /\ Goto(p, pc)
        /\ UNCHANGED <<posts, wire, order, cache, rec, sweep, upsets>>
        /\ exec[p].pc \in {"claim", "claimed", "refuse"}
    BY DEF Refuse
  <1>3. /\ exec' \in [Procs -> ExecType] /\ exec'[p].pc = pc
        /\ \A q \in Procs \ {p} : exec'[q] = exec[q]
    <2> HIDE DEF pc
    <2> QED
      BY <1>1, <1>2, GotoFrame
  <1>4. row' \in RowType
    BY <1>1, <1>2, PatchType
  <1>5. CASE Applies(Refusal(p))
    <2>1. Journal' /\ Refuses
      BY <1>2, <1>3, <1>5, RefusalApplied
    <2>2. IInv'
      BY <1>1, <1>2, <1>3, <1>4, <2>1, RowStep DEF TypeOK
    <2> QED
      BY <2>1, <2>2
  <1>6. CASE ~Applies(Refusal(p))
    <2>1. UNCHANGED <<row, posts>>
      BY <1>2, <1>6 DEF Updated
    <2>2. \A q \in Procs : Owner(q)' => Owner(q)
      BY <1>3, <1>6 DEF Owner
    <2>3. Journal'
      BY <1>1, <2>1, <2>2, JournalKept DEF Unclaimed
    <2>4. IInv'
      BY <1>1, <1>2, <1>3, <1>4, <2>3, RowStep DEF TypeOK
    <2> QED
      BY <2>1, <2>4 DEF Quiet
  <1> QED
    BY <1>5, <1>6

(* A database call of execute() throws after or before it ran.             *)
LEMMA ExecCallFailsSound ==
  ASSUME IInv, NEW p \in Procs, ExecCallFails(p)
  PROVE  IInv' /\ (Refuses \/ Quiet)
  <1>1. TypeOK /\ Journal /\ upsets' \in 0 .. MaxUpsets /\ "done" \in ExecPcs
    BY UpsetType, PlacesOfExecute DEF IInv, ExecCallFails
  <1>2. /\ exec' = [exec EXCEPT ![p] = [NoExec EXCEPT !.pc = "done"]]
        /\ UNCHANGED <<posts, wire, order, cache, rec, sweep>>
        /\ row' \in Statements(p) \cup {row}
    BY DEF ExecCallFails
  <1>3. /\ exec' \in [Procs -> ExecType] /\ exec'[p].pc = "done"
        /\ \A q \in Procs \ {p} : exec'[q] = exec[q]
    BY <1>1, <1>2, RestartFrame
  <1>4. \A q \in Procs : Owner(q)' => Owner(q)
    BY <1>3 DEF Owner
  <1>5. ASSUME row' \in RowType, row'.refused = row.refused,
               row'.state \in {"ABSENT", "CREATED"} => Unclaimed
        PROVE  IInv' /\ Quiet
    <2>1. Journal'
      BY <1>1, <1>2, <1>4, <1>5, JournalKept
    <2>2. IInv'
      BY <1>1, <1>2, <1>3, <1>5, <2>1, RowStep DEF TypeOK
    <2> QED
      BY <1>2, <1>5, <2>2 DEF Quiet
  <1>6. CASE row' = row
    BY <1>1, <1>5, <1>6 DEF TypeOK, Unclaimed
  <1>7. CASE row' = Created
    BY <1>5, <1>7, CreatedType
  <1>8. CASE exec[p].pc = "persist" /\ row' = Updated(Snapshot(exec[p].snap))
    <2>1. exec[p].snap \in Snapshots
      BY <1>1, <1>8, MemoryType DEF IInv, Tracked, ExecType
    <2> QED
      BY <1>1, <1>5, <1>8, <2>1, PersistedType
  <1>9. CASE row' = Updated(ClaimPatch)
    <2>1. row' \in RowType /\ row'.refused = row.refused
      BY <1>1, <1>9, PatchType
    <2>2. row'.state = "SUBMITTING" \/ row' = row
      BY <1>1, <1>9, PatchType DEF Updated
    <2> QED
      BY <1>5, <2>1, <2>2 DEF Unclaimed
  <1>10. CASE exec[p].pc \in {"claim", "claimed", "refuse"} /\ row' = Updated(Refusal(p))
    <2>1. CASE Applies(Refusal(p))
      <3>1. Journal' /\ Refuses
        BY <1>2, <1>3, <1>10, <2>1, RefusalApplied
      <3>2. row' \in RowType
        BY <1>1, <1>10, PatchType
      <3>3. IInv'
        BY <1>1, <1>2, <1>3, <3>1, <3>2, RowStep DEF TypeOK
      <3> QED
        BY <3>1, <3>3
    <2>2. CASE ~Applies(Refusal(p))
      BY <1>6, <1>10, <2>2 DEF Updated
    <2> QED
      BY <2>1, <2>2
  <1> QED
    BY <1>2, <1>6, <1>7, <1>8, <1>9, <1>10 DEF Statements

-----------------------------------------------------------------------------
(* The theorems.                                                           *)

(* The initial state satisfies the invariant.                              *)
LEMMA InitInvariant ==
  ASSUME Init
  PROVE  IInv
  <1>1. NoExec \in ExecType /\ NoExec.pc = "idle"
    BY DEF NoExec, ExecType, ExecPcs, Answers
  <1>2. NoTask \in TaskType(RecPcs) /\ NoTask \in TaskType(SweepPcs) /\ NoTask.pc = "idle"
    BY DEF NoTask, TaskType, RecPcs, SweepPcs, Views
  <1>3. NoRow \in RowType /\ NoRow.state = "ABSENT" /\ NoRow.refused = FALSE
    BY QtyPositive DEF NoRow, RowType, RowStates
  <1>4. order \in OrderType
    <2>1. order = [label |-> "NONE", filled |-> 0] /\ 0 \in 0 .. Qty
      BY QtyPositive DEF Init
    <2> QED
      BY <2>1 DEF OrderType
  <1>5. /\ cache \in [Procs -> Snapshots \cup {None}] /\ exec \in [Procs -> ExecType]
        /\ rec \in [Procs -> TaskType(RecPcs)] /\ sweep \in [Procs -> TaskType(SweepPcs)]
    BY <1>1, <1>2 DEF Init
  <1>6. TypeOK
    BY <1>3, <1>4, <1>5, IntentConstants DEF TypeOK, Init
  <1>7. \A p \in Procs : exec[p].pc = "idle" /\ rec[p].pc = "idle" /\ sweep[p].pc = "idle"
    BY <1>1, <1>2 DEF Init
  <1>8. \A p \in Procs : Tracked(p) /\ ~Owner(p)
    BY <1>7 DEF Tracked, Owner
  <1>9. Journal
    BY <1>3, <1>8 DEF Journal, Init
  <1> QED
    BY <1>6, <1>8, <1>9 DEF IInv

(* Every step keeps the invariant, and is a request, a refusal or neither. *)
LEMMA StepSound ==
  ASSUME IInv, [Next]_vars
  PROVE  IInv' /\ (Sends \/ Refuses \/ UNCHANGED <<posts, row.refused>>)
  <1>1. Quiet => IInv' /\ UNCHANGED <<posts, row.refused>>
    BY DEF Quiet
  <1>2. CASE Broker
    BY <1>1, <1>2, BrokerQuiet
  <1>3. ASSUME NEW p \in Procs, Executes(p)
        PROVE  IInv' /\ (Sends \/ Refuses \/ UNCHANGED <<posts, row.refused>>)
    BY <1>1, <1>3, SubmitQuiet, CreateQuiet, RefuseRefuses, ClaimQuiet, StartSubmitQuiet,
       RefusedBeforeSendQuiet, PostSends, AcknowledgedQuiet, PlacementRefusedQuiet,
       PlacementAmbiguousQuiet, LookupByTagQuiet, PollQuiet, ProtectiveCancelQuiet,
       GiveUpQuiet, AdoptedUncertainQuiet, PersistQuiet, OwnedQuiet, ExecCallFailsSound,
       StreamObservesQuiet
    DEF Executes
  <1>4. ASSUME NEW p \in Procs, Reconciles(p) \/ RecFails(p)
        PROVE  Quiet
    BY <1>4, ReconcilesQuiet
  <1>5. ASSUME NEW p \in Procs, Sweeps(p) \/ Crash(p)
        PROVE  Quiet
    BY <1>5, SweepsQuiet, CrashQuiet
  <1>6. CASE UNCHANGED vars
    <2>1. UNCHANGED <<row, posts, wire, order, cache, exec, rec, sweep, upsets>>
      BY <1>6 DEF vars
    <2>2. TypeOK'
      BY <2>1 DEF IInv, TypeOK
    <2>3. \A q \in Procs : Tracked(q)'
      BY <2>1 DEF IInv, Tracked
    <2>4. Journal'
      BY <2>1 DEF IInv, Journal, Owner, Unclaimed
    <2> QED
      BY <2>1, <2>2, <2>3, <2>4 DEF IInv
  <1> QED
    BY <1>1, <1>2, <1>3, <1>4, <1>5, <1>6 DEF Next

(* The invariant holds throughout.                                         *)
THEOREM JournalInvariant == Spec => []IInv
  <1>1. Init => IInv
    BY InitInvariant
  <1>2. IInv /\ [Next]_vars => IInv'
    BY StepSound
  <1> QED
    BY <1>1, <1>2, PTL DEF Spec

(* Type correctness of the intent row, the adapters' entries and the three *)
(* activities of every process.                                            *)
THEOREM IntentTypeCorrect == Spec => []TypeOK
  <1>1. IInv => TypeOK
    BY DEF IInv
  <1> QED
    BY <1>1, JournalInvariant, PTL

(* The journal implements AtMostOnceSubmission: whatever processes, boots, *)
(* crashes, lost or failed calls, reconciliations and sweeps interleave,   *)
(* execute() sends at most one placement request for a client order id,    *)
(* and none for an intent whose local refusal was recorded.                *)
THEOREM AtMostOneRequest == Spec => SubmittedAtMostOnce
  <1>1. Init => Submission!Init
    BY DEF Init, NoRow, Submission!Init
  <1>2. IInv /\ [Next]_vars => [Submission!Send \/ Submission!Refuse]_<<posts, row.refused>>
    <2> SUFFICES ASSUME IInv, [Next]_vars
                 PROVE  [Submission!Send \/ Submission!Refuse]_<<posts, row.refused>>
      OBVIOUS
    <2>1. Sends \/ Refuses \/ UNCHANGED <<posts, row.refused>>
      BY StepSound
    <2>2. Sends => Submission!Send
      BY DEF Sends, Submission!Send
    <2>3. Refuses => Submission!Refuse
      BY DEF Refuses, Submission!Refuse
    <2> QED
      BY <2>1, <2>2, <2>3
  <1> QED
    BY <1>1, <1>2, JournalInvariant, PTL DEF Spec, SubmittedAtMostOnce, Submission!Spec
-----------------------------------------------------------------------------
(* What the journal, the entries and the activities remember of the order  *)
(* is true of it.  The broker's record is the one truth; every copy of it  *)
(* (the row, an entry of an adapter, the snapshot an activity carries      *)
(* across an await) may be older than the record, and then claims less.    *)

(* No order exists, none is on its way, and none will ever be sent.        *)
Dead == order.label = "NONE" /\ wire = {} /\ (posts > 0 \/ row.refused)

(* A copy never claims more than was filled; one with a terminal label     *)
(* states the end and the exact quantity, or the refusal of an order that  *)
(* never came into being.                                                  *)
TrueOf(copy, broker, dead) ==
  /\ copy.filled <= broker.filled
  /\ copy.state \in Terminal =>
       /\ copy.filled = broker.filled
       /\ copy.state = broker.label \/ (copy.state = "REJECTED" /\ dead)

(* The broker's record of an order is one it can have.                     *)
OrderSound(broker) ==
  /\ broker \in OrderType
  /\ broker.label = "COMPLETE" <=> broker.filled = Qty
  /\ broker.label \in {"NONE", "REJECTED", "PUT ORDER REQ RECEIVED"} => broker.filled = 0

(* The one request: on its way before there is an order, and refused only  *)
(* when there will be none.                                                *)
WireSound ==
  /\ posts = 0 => wire = {} /\ order.label = "NONE"
  /\ order.label # "NONE" => wire = {}
  /\ \A p, q \in wire : p = q
  /\ \A p \in Procs : exec[p].ans = "refused" => Dead

Copies(p) == {cache[p], exec[p].snap, rec[p].snap, sweep[p].snap}

Honest(p) == \A copy \in Copies(p) : copy # None => TrueOf(copy, order, Dead)

Truth ==
  /\ OrderSound(order)
  /\ WireSound
  /\ TrueOf(row, order, Dead)
  /\ \A p \in Procs : Honest(p)

TInv == IInv /\ Truth

(* The broker's record only moves on: fills are not undone, an end is      *)
(* final, and where there will be no order none appears.                   *)
MovesOn ==
  /\ order.filled <= order'.filled
  /\ order.label \in Terminal => order' = order
  /\ Dead => Dead' /\ order' = order

(* A copy that is true stays true while the record moves on.               *)
LEMMA TruthLasts ==
  ASSUME NEW copy, copy.filled \in 0 .. Qty, TrueOf(copy, order, Dead), MovesOn,
         OrderSound(order), OrderSound(order')
  PROVE  TrueOf(copy, order', Dead')
  <1>1. /\ order.filled \in 0 .. Qty /\ order'.filled \in 0 .. Qty
        /\ order.filled <= order'.filled /\ copy.filled <= order.filled
    BY DEF OrderSound, OrderType, MovesOn, TrueOf
  <1>2. copy.filled <= order'.filled
    BY <1>1
  <1>3. ASSUME copy.state \in Terminal
        PROVE  /\ copy.filled = order'.filled
               /\ copy.state = order'.label \/ (copy.state = "REJECTED" /\ Dead')
    BY <1>3 DEF TrueOf, MovesOn
  <1> QED
    BY <1>2, <1>3 DEF TrueOf

-----------------------------------------------------------------------------
(* The rules of BrokerOrders turn true copies into true copies.            *)

(* Two copies of one order that are both true merge into a true one.       *)
LEMMA TrueMerge ==
  ASSUME NEW cur \in Snapshots, NEW cand \in Snapshots, NEW observed,
         NEW broker, NEW dead, OrderSound(broker), dead => broker.label = "NONE",
         TrueOf(cur, broker, dead), TrueOf(cand, broker, dead)
  PROVE  TrueOf(Merge(cur, cand, observed), broker, dead)
  <1> DEFINE accepted == Larger(cur.filled, cand.filled)
             stale    == CompareObservation(observed, cur) < 0
             state    == ResolveState(cur, cand, accepted, stale)
  <1>1. /\ cur.filled \in 0 .. Qty /\ cand.filled \in 0 .. Qty /\ broker.filled \in 0 .. Qty
        /\ cur.filled <= broker.filled /\ cand.filled <= broker.filled
    BY DEF Snapshots, OrderSound, OrderType, TrueOf
  <1>2. /\ accepted \in 0 .. Qty /\ accepted <= broker.filled
        /\ accepted >= cur.filled /\ accepted >= cand.filled
    BY <1>1 DEF Larger
  <1>3. /\ Merge(cur, cand, observed).state = state
        /\ Merge(cur, cand, observed).filled = accepted
    BY DEF Merge
  <1>4. cur.state \in Terminal \/ cand.state \in Terminal => accepted = broker.filled
    BY <1>1, <1>2 DEF TrueOf
  <1> HIDE DEF accepted, stale
  <1>5. /\ broker.label = "COMPLETE" <=> broker.filled = Qty
        /\ broker.label \in {"NONE", "REJECTED"} => broker.filled = 0
    BY DEF OrderSound
  <1>6. CASE cur.state \in Terminal /\ cand.state \in Terminal
    <2>1. /\ cur.state = broker.label \/ (cur.state = "REJECTED" /\ broker.label = "NONE" /\ dead)
          /\ cand.state = broker.label \/ (cand.state = "REJECTED" /\ broker.label = "NONE" /\ dead)
      BY <1>6 DEF TrueOf
    <2>2. cand.state = cur.state
      BY <1>6, <2>1 DEF Terminal
    <2>3. state = cur.state
      BY <1>1, <1>2, <1>4, <1>5, <1>6, <2>1, <2>2, QtyPositive DEF ResolveState, BothTerminal, Terminal
    <2> QED
      BY <1>2, <1>3, <1>4, <1>6, <2>1, <2>3 DEF TrueOf
  <1>7. CASE cur.state \in Terminal /\ cand.state \notin Terminal
    <2>1. cur.state = broker.label \/ (cur.state = "REJECTED" /\ broker.label = "NONE" /\ dead)
      BY <1>7 DEF TrueOf
    <2>2. state = cur.state
      BY <1>1, <1>2, <1>4, <1>5, <1>7, <2>1, QtyPositive DEF ResolveState, CachedTerminal, Terminal
    <2> QED
      BY <1>2, <1>3, <1>4, <1>7, <2>1, <2>2 DEF TrueOf
  <1>8. CASE cur.state \notin Terminal /\ cand.state \in Terminal
    <2>1. cand.state = broker.label \/ (cand.state = "REJECTED" /\ broker.label = "NONE" /\ dead)
      BY <1>8 DEF TrueOf
    <2>2. state = cand.state
      BY <1>1, <1>2, <1>4, <1>5, <1>8, <2>1, QtyPositive DEF ResolveState, ObservedTerminal, Terminal
    <2> QED
      BY <1>2, <1>3, <1>4, <1>8, <2>1, <2>2 DEF TrueOf
  <1>9. CASE cur.state \notin Terminal /\ cand.state \notin Terminal
    <2>1. state \notin Terminal
      BY <1>9, NeitherTerminalStays DEF ResolveState
    <2> QED
      BY <1>2, <1>3, <2>1 DEF TrueOf
  <1> QED
    BY <1>6, <1>7, <1>8, <1>9

(* Relabelling with a label that claims no end is true.                    *)
LEMMA TrueRelabel ==
  ASSUME NEW cur \in Snapshots, NEW state \in OrderStates \ Terminal, NEW observed,
         NEW broker, NEW dead, OrderSound(broker), dead => broker.label = "NONE",
         TrueOf(cur, broker, dead)
  PROVE  /\ TrueOf([cur EXCEPT !.state = state], broker, dead)
         /\ TrueOf(Merge(cur, [cur EXCEPT !.state = state], observed), broker, dead)
  <1> DEFINE cand == [cur EXCEPT !.state = state]
  <1>1. cand \in Snapshots /\ cand.state = state /\ cand.filled = cur.filled
    BY DEF Snapshots
  <1>2. TrueOf(cand, broker, dead)
    BY <1>1 DEF TrueOf
  <1> HIDE DEF cand
  <1>3. TrueOf(Merge(cur, cand, observed), broker, dead)
    BY <1>1, <1>2, TrueMerge
  <1> QED
    BY <1>2, <1>3 DEF cand

(* So is a quarantine.                                                     *)
LEMMA TrueQuarantine ==
  ASSUME NEW cur \in Snapshots, NEW broker, NEW dead, OrderSound(broker),
         dead => broker.label = "NONE", TrueOf(cur, broker, dead)
  PROVE  TrueOf(Quarantine(cur), broker, dead)
  <1>1. "RECONCILIATION_REQUIRED" \in OrderStates \ Terminal
    BY DEF OrderStates, Uncertain, Terminal
  <1> QED
    BY <1>1, TrueRelabel DEF Quarantine

(* A label read off the broker's record is terminal only if the record's is. *)
LEMMA KiteStateEnds ==
  ASSUME NEW label, NEW filled, KiteState(label, filled) \in Terminal
  PROVE  KiteState(label, filled) = label
  BY DEF KiteState, Terminal

(* The record read now, on top of a true quantity, is the record.          *)
LEMMA TrueReport ==
  ASSUME Truth, NEW prior \in 0 .. Qty, prior <= order.filled
  PROVE  TrueOf(Normalize(Payload, prior), order, Dead)
  <1>1. order.filled \in 0 .. Qty
    BY DEF Truth, OrderSound, OrderType
  <1>2. Payload.qty = order.filled /\ Payload.label = order.label /\ Payload.qty # Absent
    BY <1>1 DEF Payload, Absent
  <1>3. EvidenceFilled(Payload, prior) = order.filled
    BY <1>1, <1>2 DEF EvidenceFilled, Larger
  <1>4. /\ Normalize(Payload, prior).filled = order.filled
        /\ Normalize(Payload, prior).state = KiteState(order.label, order.filled)
    BY <1>2, <1>3 DEF Normalize, EvidenceSufficient
  <1> QED
    BY <1>1, <1>4, KiteStateEnds DEF TrueOf

(* So is an event of the stream about it.                                  *)
LEMMA TrueEvent ==
  ASSUME Truth, NEW known \in Snapshots
  PROVE  TrueOf(FromStream(Payload, known), order, Dead)
  <1>1. order.filled \in 0 .. Qty
    BY DEF Truth, OrderSound, OrderType
  <1>2. Payload.qty = order.filled /\ Payload.label = order.label /\ Payload.qty # Absent
    BY <1>1 DEF Payload, Absent
  <1>3. /\ FromStream(Payload, known).filled = order.filled
        /\ FromStream(Payload, known).state = KiteState(order.label, order.filled)
    BY <1>2 DEF FromStream, EvidenceSufficient
  <1> QED
    BY <1>1, <1>3, KiteStateEnds DEF TrueOf

-----------------------------------------------------------------------------
(* The memory a step leaves behind, measured by the record it started from. *)

EntriesTrue == \A q \in Procs : cache'[q] # None => TrueOf(cache'[q], order, Dead)

ExecsTrue ==
  \A q \in Procs : /\ exec'[q].snap # None => TrueOf(exec'[q].snap, order, Dead)
                   /\ exec'[q].ans = "refused" => exec[q].ans = "refused" \/ Dead'

RecsTrue == \A q \in Procs : rec'[q].snap # None => TrueOf(rec'[q].snap, order, Dead)

SweepsTrue == \A q \in Procs : sweep'[q].snap # None => TrueOf(sweep'[q].snap, order, Dead)

MemoryTrue == EntriesTrue /\ ExecsTrue /\ RecsTrue /\ SweepsTrue

(* What every step must leave behind.                                      *)
Faithful == Truth' /\ row.filled <= row'.filled

(* Every copy in the memory of a process is true, and typed.               *)
LEMMA CopiesTrue ==
  ASSUME TInv, NEW p \in Procs
  PROVE  /\ cache[p] # None => cache[p] \in Snapshots /\ TrueOf(cache[p], order, Dead)
         /\ exec[p].snap # None => exec[p].snap \in Snapshots /\ TrueOf(exec[p].snap, order, Dead)
         /\ rec[p].snap # None => rec[p].snap \in Snapshots /\ TrueOf(rec[p].snap, order, Dead)
         /\ sweep[p].snap # None => sweep[p].snap \in Snapshots /\ TrueOf(sweep[p].snap, order, Dead)
  <1>1. TypeOK /\ Honest(p)
    BY DEF TInv, IInv, Truth
  <1>2. /\ cache[p] \in Snapshots \cup {None} /\ exec[p].snap \in Snapshots \cup {None}
        /\ rec[p].snap \in Snapshots \cup {None} /\ sweep[p].snap \in Snapshots \cup {None}
    BY <1>1, MemoryType DEF ExecType, TaskType
  <1> QED
    BY <1>1, <1>2 DEF Honest, Copies

(* A slot left alone holds what it held.                                   *)
LEMMA SlotsKept ==
  ASSUME TInv
  PROVE  /\ UNCHANGED cache => EntriesTrue
         /\ UNCHANGED exec => ExecsTrue
         /\ UNCHANGED rec => RecsTrue
         /\ UNCHANGED sweep => SweepsTrue
  BY CopiesTrue DEF EntriesTrue, ExecsTrue, RecsTrue, SweepsTrue

(* An entry is deleted, or written with a true copy.                       *)
LEMMA EntryTrue ==
  ASSUME TInv, NEW p \in Procs, NEW snap \in Snapshots \cup {None}, Entry(p, snap),
         snap = None \/ TrueOf(snap, order, Dead)
  PROVE  EntriesTrue
  <1>1. cache'[p] = snap /\ \A q \in Procs \ {p} : cache'[q] = cache[q]
    BY EntryFrame DEF TInv, IInv
  <1> QED
    BY <1>1, CopiesTrue DEF EntriesTrue

(* An execution moves.                                                     *)
LEMMA GotoTrue ==
  ASSUME TInv, NEW p \in Procs, NEW pc, Goto(p, pc)
  PROVE  ExecsTrue
  <1>1. exec \in [Procs -> ExecType]
    BY DEF TInv, IInv, TypeOK
  <1>2. \A q \in Procs : exec'[q].snap = exec[q].snap /\ exec'[q].ans = exec[q].ans
    BY <1>1 DEF Goto, ExecType
  <1> QED
    BY <1>2, CopiesTrue DEF ExecsTrue

(* An execution ends with a true snapshot, or carries one on.              *)
LEMMA OutcomeTrue ==
  ASSUME TInv, NEW p \in Procs, NEW pc, NEW snap, TrueOf(snap, order, Dead),
         exec' = [exec EXCEPT ![p].pc = pc, ![p].snap = snap]
  PROVE  ExecsTrue
  <1>1. exec \in [Procs -> ExecType]
    BY DEF TInv, IInv, TypeOK
  <1>2. /\ exec'[p].snap = snap /\ exec'[p].ans = exec[p].ans
        /\ \A q \in Procs \ {p} : exec'[q] = exec[q]
    BY <1>1 DEF ExecType
  <1> QED
    BY <1>2, CopiesTrue DEF ExecsTrue

(* An execution is forgotten: by its end, by a new request, by a crash.    *)
LEMMA ForgottenTrue ==
  ASSUME TInv, NEW p \in Procs, NEW pc,
         exec' = [exec EXCEPT ![p] = [NoExec EXCEPT !.pc = pc]]
  PROVE  ExecsTrue
  <1>1. exec \in [Procs -> ExecType]
    BY DEF TInv, IInv, TypeOK
  <1>2. /\ exec'[p].snap = None /\ exec'[p].ans = "none"
        /\ \A q \in Procs \ {p} : exec'[q] = exec[q]
    BY <1>1 DEF NoExec
  <1> QED
    BY <1>2, CopiesTrue DEF ExecsTrue

(* A reconciliation pass moves to a task with a true snapshot, or none.    *)
LEMMA RecTrue ==
  ASSUME TInv, NEW p \in Procs, NEW task, rec' = [rec EXCEPT ![p] = task],
         task.snap = None \/ TrueOf(task.snap, order, Dead)
  PROVE  RecsTrue
  <1>1. rec \in [Procs -> TaskType(RecPcs)]
    BY DEF TInv, IInv, TypeOK
  <1>2. rec'[p] = task /\ \A q \in Procs \ {p} : rec'[q] = rec[q]
    BY <1>1
  <1> QED
    BY <1>2, CopiesTrue DEF RecsTrue

(* So does a sweep.                                                        *)
LEMMA SweepTrue ==
  ASSUME TInv, NEW p \in Procs, NEW task, sweep' = [sweep EXCEPT ![p] = task],
         task.snap = None \/ TrueOf(task.snap, order, Dead)
  PROVE  SweepsTrue
  <1>1. sweep \in [Procs -> TaskType(SweepPcs)]
    BY DEF TInv, IInv, TypeOK
  <1>2. sweep'[p] = task /\ \A q \in Procs \ {p} : sweep'[q] = sweep[q]
    BY <1>1
  <1> QED
    BY <1>2, CopiesTrue DEF SweepsTrue

(* Where there will be no order, there is none.                            *)
LEMMA DeadHasNoOrder ==
  Dead => order.label = "NONE"
  BY DEF Dead

(* commit() of a true copy is true.                                        *)
LEMMA CommittedTrue ==
  ASSUME TInv, NEW p \in Procs, NEW cand \in Snapshots, TrueOf(cand, order, Dead), NEW observed
  PROVE  TrueOf(Committed(p, cand, observed), order, Dead)
  <1>1. OrderSound(order) /\ (Dead => order.label = "NONE")
    BY DeadHasNoOrder DEF TInv, Truth
  <1>2. CASE cache[p] = None
    BY <1>2 DEF Committed
  <1>3. CASE cache[p] # None
    <2>1. cache[p] \in Snapshots /\ TrueOf(cache[p], order, Dead)
      BY <1>3, CopiesTrue
    <2>2. TrueOf(Merge(cache[p], cand, observed), order, Dead)
      BY <1>1, <2>1, TrueMerge
    <2> QED
      BY <1>3, <2>2 DEF Committed
  <1> QED
    BY <1>2, <1>3

(* A REST row processed by a process is a true snapshot.                   *)
LEMMA ReadTrue ==
  ASSUME TInv, NEW p \in Procs
  PROVE  /\ Read(p) \in Snapshots /\ TrueOf(Read(p), order, Dead)
         /\ Normalize(Payload, 0) \in Snapshots /\ TrueOf(Normalize(Payload, 0), order, Dead)
  <1> DEFINE prior == IF cache[p] = None THEN 0 ELSE cache[p].filled
  <1>1. TypeOK /\ Truth /\ order.filled \in 0 .. Qty
    BY DEF TInv, IInv, Truth, OrderSound, OrderType
  <1>2. prior \in 0 .. Qty /\ prior <= order.filled /\ 0 \in 0 .. Qty /\ 0 <= order.filled
    BY <1>1, CopiesTrue, QtyPositive DEF Snapshots, TrueOf
  <1> HIDE DEF prior
  <1>3. /\ TrueOf(Normalize(Payload, prior), order, Dead)
        /\ TrueOf(Normalize(Payload, 0), order, Dead)
    BY <1>1, <1>2, TrueReport
  <1>4. Normalize(Payload, prior) \in Snapshots /\ Normalize(Payload, 0) \in Snapshots
    BY <1>1, <1>2, PayloadType, NormalizeType
  <1>5. TrueOf(Committed(p, Normalize(Payload, prior), Payload.qty), order, Dead)
    BY <1>3, <1>4, CommittedTrue
  <1> QED
    BY <1>1, <1>3, <1>4, <1>5, ReadType DEF Read, prior

(* So is an entry relabelled by a quarantine or a cancellation.            *)
LEMMA RelabelledTrue ==
  ASSUME TInv, NEW p \in Procs, cache[p] # None
  PROVE  /\ Quarantine(cache[p]) \in Snapshots /\ TrueOf(Quarantine(cache[p]), order, Dead)
         /\ CancelRequested(p) \in Snapshots /\ TrueOf(CancelRequested(p), order, Dead)
  <1>1. OrderSound(order) /\ (Dead => order.label = "NONE")
    BY DeadHasNoOrder DEF TInv, Truth
  <1>2. cache[p] \in Snapshots /\ TrueOf(cache[p], order, Dead)
    BY CopiesTrue
  <1>3. "CANCEL_REQUESTED" \in OrderStates \ Terminal
    BY DEF OrderStates, WorkingStates, Terminal
  <1>4. Quarantine(cache[p]) \in Snapshots /\ TrueOf(Quarantine(cache[p]), order, Dead)
    BY <1>1, <1>2, QuarantineType, TrueQuarantine
  <1>5. CancelRequested(p) \in Snapshots /\ TrueOf(CancelRequested(p), order, Dead)
    BY <1>1, <1>2, <1>3, RelabelType, TrueRelabel DEF CancelRequested
  <1> QED
    BY <1>4, <1>5

-----------------------------------------------------------------------------
(* Steps on memory, and the cancellation some of them send.                *)

(* True memory and a true row beside a record that moves on are the truth. *)
LEMMA Carried ==
  ASSUME TInv, IInv', MemoryTrue, MovesOn, OrderSound(order'), WireSound',
         TrueOf(row', order', Dead')
  PROVE  Truth'
  <1>1. OrderSound(order)
    BY DEF TInv, Truth
  <1>2. TypeOK'
    BY DEF IInv
  <1>3. ASSUME NEW q \in Procs
        PROVE  Honest(q)'
    <2>1. /\ cache'[q] \in Snapshots \cup {None} /\ exec'[q].snap \in Snapshots \cup {None}
          /\ rec'[q].snap \in Snapshots \cup {None} /\ sweep'[q].snap \in Snapshots \cup {None}
      BY <1>2 DEF TypeOK, ExecType, TaskType
    <2>2. ASSUME NEW copy \in Snapshots, TrueOf(copy, order, Dead)
          PROVE  TrueOf(copy, order', Dead')
      <3>1. copy.filled \in 0 .. Qty
        BY DEF Snapshots
      <3> QED
        BY <1>1, <2>2, <3>1, TruthLasts
    <2>3. cache'[q] # None => TrueOf(cache'[q], order', Dead')
      BY <2>1, <2>2 DEF MemoryTrue, EntriesTrue
    <2>4. exec'[q].snap # None => TrueOf(exec'[q].snap, order', Dead')
      BY <2>1, <2>2 DEF MemoryTrue, ExecsTrue
    <2>5. rec'[q].snap # None => TrueOf(rec'[q].snap, order', Dead')
      BY <2>1, <2>2 DEF MemoryTrue, RecsTrue
    <2>6. sweep'[q].snap # None => TrueOf(sweep'[q].snap, order', Dead')
      BY <2>1, <2>2 DEF MemoryTrue, SweepsTrue
    <2> QED
      BY <2>3, <2>4, <2>5, <2>6 DEF Honest, Copies
  <1> QED
    BY <1>3 DEF Truth

(* A cancel request moves the record on, if it does anything.              *)
LEMMA CancelMovesOn ==
  ASSUME OrderSound(order), UNCHANGED order \/ CancelAtBroker
  PROVE  /\ OrderSound(order') /\ order'.filled = order.filled
         /\ order.label \in Terminal \cup {"NONE"} => order' = order
         /\ order'.label = "NONE" <=> order.label = "NONE"
  <1>1. order \in OrderType
    BY DEF OrderSound
  <1>2. CASE UNCHANGED order
    BY <1>2
  <1>3. CASE CancelAtBroker /\ Working
    <2>1. order' = [order EXCEPT !.label = "CANCEL PENDING"]
      BY <1>3 DEF CancelAtBroker
    <2>2. order' \in OrderType /\ order'.label = "CANCEL PENDING" /\ order'.filled = order.filled
      BY <1>1, <2>1 DEF OrderType, Labels
    <2>3. order.label \in {"PUT ORDER REQ RECEIVED", "OPEN", "CANCEL PENDING"}
      BY <1>3 DEF Working
    <2> QED
      BY <2>2, <2>3 DEF OrderSound, Terminal
  <1>4. CASE CancelAtBroker /\ ~Working
    <2>1. order' = [order EXCEPT !.label = @]
      BY <1>4 DEF CancelAtBroker
    <2>2. order' = order
      BY <1>1, <2>1 DEF OrderType
    <2> QED
      BY <2>2
  <1> QED
    BY <1>2, <1>3, <1>4

(* A step that writes true copies to memory, and at most cancels.          *)
LEMMA MemoryFaithful ==
  ASSUME TInv, IInv', MemoryTrue, UNCHANGED <<row, posts, wire>>,
         UNCHANGED order \/ CancelAtBroker
  PROVE  Faithful
  <1>1. OrderSound(order) /\ WireSound /\ TrueOf(row, order, Dead)
    BY DEF TInv, Truth
  <1>2. row.filled \in 0 .. Qty
    BY DEF TInv, IInv, TypeOK, RowType
  <1>3. /\ OrderSound(order') /\ order'.filled = order.filled
        /\ order.label \in Terminal \cup {"NONE"} => order' = order
        /\ order'.label = "NONE" <=> order.label = "NONE"
    BY <1>1, CancelMovesOn
  <1>4. order.filled \in 0 .. Qty
    BY <1>1 DEF OrderSound, OrderType
  <1>5. Dead' <=> Dead
    BY <1>3 DEF Dead
  <1>6. MovesOn
    BY <1>3, <1>4, <1>5, DeadHasNoOrder DEF MovesOn
  <1>7. WireSound'
    BY <1>1, <1>3, <1>5 DEF WireSound, MemoryTrue, ExecsTrue
  <1>8. TrueOf(row', order', Dead')
    BY <1>1, <1>2, <1>3, <1>6, TruthLasts
  <1>9. Truth'
    BY <1>3, <1>6, <1>7, <1>8, Carried
  <1> QED
    BY <1>2, <1>9 DEF Faithful

-----------------------------------------------------------------------------
(* The actions of execute() on memory.                                     *)

(* The request is taken from the queue; the entry of a submission claims   *)
(* nothing.                                                                *)
LEMMA SubmissionFaithful ==
  ASSUME TInv, IInv', NEW p \in Procs,
         Submit(p) \/ StartSubmit(p) \/ RefusedBeforeSend(p)
  PROVE  Faithful
  <1>1. RecsTrue /\ SweepsTrue
    BY SlotsKept DEF Submit, StartSubmit, RefusedBeforeSend
  <1>2. UNCHANGED <<row, posts, wire, order>>
    BY DEF Submit, StartSubmit, RefusedBeforeSend
  <1>3. CASE Submit(p)
    <2>1. ExecsTrue
      BY <1>3, ForgottenTrue DEF Submit
    <2>2. EntriesTrue
      BY <1>3, SlotsKept DEF Submit
    <2> QED
      BY <1>1, <1>2, <2>1, <2>2, MemoryFaithful DEF MemoryTrue
  <1>4. CASE StartSubmit(p) /\ cache[p] # None /\ Outcome(p, cache[p]) /\ UNCHANGED cache
    <2>1. ExecsTrue
      BY <1>4, CopiesTrue, OutcomeTrue DEF Outcome
    <2>2. EntriesTrue
      BY <1>4, SlotsKept
    <2> QED
      BY <1>1, <1>2, <2>1, <2>2, MemoryFaithful DEF MemoryTrue
  <1>5. CASE /\ StartSubmit(p) /\ Goto(p, "pacing")
             /\ Entry(p, [state |-> "SUBMITTING", filled |-> 0, bid |-> FALSE, avg |-> 0])
    <2> DEFINE fresh == [state |-> "SUBMITTING", filled |-> 0, bid |-> FALSE, avg |-> 0]
    <2>1. "SUBMITTING" \in OrderStates \ Terminal
      BY DEF OrderStates, WorkingStates, Terminal
    <2>2. fresh \in Snapshots /\ fresh.filled = 0 /\ fresh.state = "SUBMITTING"
      BY <2>1, QtyPositive DEF Snapshots
    <2>3. order.filled \in 0 .. Qty
      BY DEF TInv, Truth, OrderSound, OrderType
    <2>4. TrueOf(fresh, order, Dead)
      BY <2>1, <2>2, <2>3 DEF TrueOf
    <2> HIDE DEF fresh
    <2>5. EntriesTrue
      BY <1>5, <2>2, <2>4, EntryTrue DEF fresh
    <2>6. ExecsTrue
      BY <1>5, GotoTrue
    <2> QED
      BY <1>1, <1>2, <2>5, <2>6, MemoryFaithful DEF MemoryTrue
  <1>6. CASE RefusedBeforeSend(p)
    <2>1. EntriesTrue
      BY <1>6, EntryTrue DEF RefusedBeforeSend
    <2>2. ExecsTrue
      BY <1>6, GotoTrue DEF RefusedBeforeSend
    <2> QED
      BY <1>1, <1>2, <2>1, <2>2, MemoryFaithful DEF MemoryTrue
  <1> QED
    BY <1>3, <1>4, <1>5, <1>6 DEF StartSubmit

(* The answer to the request: an acknowledgement claims no fill, and a     *)
(* refusal is only answered when there will be no order.                   *)
LEMMA AnswerFaithful ==
  ASSUME TInv, IInv', NEW p \in Procs,
         Acknowledged(p) \/ PlacementRefused(p) \/ PlacementAmbiguous(p)
  PROVE  Faithful
  <1>1. RecsTrue /\ SweepsTrue
    BY SlotsKept DEF Acknowledged, PlacementRefused, PlacementAmbiguous
  <1>2. UNCHANGED <<row, posts, wire, order>>
    BY DEF Acknowledged, PlacementRefused, PlacementAmbiguous
  <1>3. OrderSound(order) /\ order.filled \in 0 .. Qty /\ WireSound
    BY DEF TInv, Truth, OrderSound, OrderType
  <1>4. CASE Acknowledged(p)
    <2> DEFINE cand == [state |-> "ACKNOWLEDGED", filled |-> 0, bid |-> TRUE, avg |-> 0]
    <2>1. "ACKNOWLEDGED" \in OrderStates \ Terminal
      BY DEF OrderStates, WorkingStates, Terminal
    <2>2. cand \in Snapshots /\ cand.filled = 0 /\ cand.state = "ACKNOWLEDGED"
      BY <2>1, QtyPositive DEF Snapshots
    <2>3. TrueOf(cand, order, Dead)
      BY <1>3, <2>1, <2>2 DEF TrueOf
    <2> HIDE DEF cand
    <2>4. Committed(p, cand, 0) \in Snapshots /\ TrueOf(Committed(p, cand, 0), order, Dead)
      BY <2>2, <2>3, CommittedType, CommittedTrue DEF TInv, IInv
    <2>5. EntriesTrue
      BY <1>4, <2>4, EntryTrue DEF Acknowledged, cand
    <2>6. ExecsTrue
      BY <1>4, GotoTrue DEF Acknowledged
    <2> QED
      BY <1>1, <1>2, <2>5, <2>6, MemoryFaithful DEF MemoryTrue
  <1>5. CASE PlacementRefused(p)
    <2> DEFINE cand     == [cache[p] EXCEPT !.state = "REJECTED"]
               rejected == Merge(cache[p], cand, cache[p].filled)
    <2>1. Dead /\ order.label = "NONE" /\ order.filled = 0
      BY <1>3, <1>5, DeadHasNoOrder DEF PlacementRefused, WireSound, OrderSound
    <2>2. cache[p] \in Snapshots /\ TrueOf(cache[p], order, Dead)
      BY <1>5, CopiesTrue DEF PlacementRefused, TInv, IInv, Tracked
    <2>3. cand \in Snapshots /\ cand.state = "REJECTED" /\ cand.filled = cache[p].filled
      BY <2>2, LabelsWritten DEF Snapshots
    <2>4. TrueOf(cand, order, Dead)
      BY <2>1, <2>2, <2>3 DEF TrueOf, Snapshots
    <2> HIDE DEF cand
    <2>5. rejected \in Snapshots /\ TrueOf(rejected, order, Dead)
      BY <1>3, <2>2, <2>3, <2>4, MergeType, TrueMerge, DeadHasNoOrder
    <2>6. Entry(p, rejected) /\ Outcome(p, rejected)
      BY <1>5 DEF PlacementRefused, cand
    <2> HIDE DEF rejected
    <2>7. EntriesTrue /\ ExecsTrue
      BY <2>5, <2>6, EntryTrue, OutcomeTrue DEF Outcome
    <2> QED
      BY <1>1, <1>2, <2>7, MemoryFaithful DEF MemoryTrue
  <1>6. CASE PlacementAmbiguous(p)
    <2>1. EntriesTrue /\ ExecsTrue
      BY <1>6, SlotsKept, GotoTrue DEF PlacementAmbiguous
    <2> QED
      BY <1>1, <1>2, <2>1, MemoryFaithful DEF MemoryTrue
  <1> QED
    BY <1>4, <1>5, <1>6

(* The lookup by tag, the polls, the stream and the report of a foreign    *)
(* execution copy the record, or quarantine.                               *)
LEMMA ObservationFaithful ==
  ASSUME TInv, IInv', NEW p \in Procs,
         LookupByTag(p) \/ Poll(p) \/ StreamObserves(p) \/ Owned(p)
  PROVE  Faithful
  <1>1. RecsTrue /\ SweepsTrue
    BY SlotsKept DEF LookupByTag, Poll, StreamObserves, Owned
  <1>2. UNCHANGED <<row, posts, wire, order>>
    BY DEF LookupByTag, Poll, StreamObserves, Owned
  <1>3. Tracked(p) /\ TypeOK
    BY DEF TInv, IInv
  <1>4. Read(p) \in Snapshots /\ TrueOf(Read(p), order, Dead)
    BY ReadTrue
  <1>5. CASE Poll(p)
    <2>1. Entry(p, Read(p)) /\ (Outcome(p, Read(p)) \/ UNCHANGED exec)
      BY <1>5 DEF Poll
    <2>2. EntriesTrue /\ ExecsTrue
      BY <1>4, <2>1, EntryTrue, OutcomeTrue, SlotsKept DEF Outcome
    <2> QED
      BY <1>1, <1>2, <2>2, MemoryFaithful DEF MemoryTrue
  <1>6. CASE LookupByTag(p)
    <2>1. cache[p] # None
      BY <1>3, <1>6 DEF LookupByTag, Tracked
    <2>2. Quarantine(cache[p]) \in Snapshots /\ TrueOf(Quarantine(cache[p]), order, Dead)
      BY <2>1, RelabelledTrue
    <2>3. \E snap \in {Read(p), Quarantine(cache[p])} :
            /\ Entry(p, snap)
            /\ \/ Outcome(p, snap)
               \/ exec' = [exec EXCEPT ![p].pc = "adopted", ![p].snap = snap]
      BY <1>6 DEF LookupByTag
    <2>4. EntriesTrue /\ ExecsTrue
      BY <1>4, <2>2, <2>3, EntryTrue, OutcomeTrue DEF Outcome
    <2> QED
      BY <1>1, <1>2, <2>4, MemoryFaithful DEF MemoryTrue
  <1>7. CASE StreamObserves(p)
    <2> DEFINE cand == FromStream(Payload, cache[p])
    <2>1. cache[p] \in Snapshots /\ TrueOf(cache[p], order, Dead)
      BY <1>7, CopiesTrue DEF StreamObserves
    <2>2. cand \in Snapshots /\ TrueOf(cand, order, Dead)
      BY <1>3, <2>1, PayloadType, FromStreamType, TrueEvent DEF TInv
    <2>3. Entry(p, Merge(cache[p], cand, Payload.qty)) /\ UNCHANGED exec
      BY <1>7 DEF StreamObserves
    <2> HIDE DEF cand
    <2>4. /\ Merge(cache[p], cand, Payload.qty) \in Snapshots
          /\ TrueOf(Merge(cache[p], cand, Payload.qty), order, Dead)
      BY <2>1, <2>2, MergeType, TrueMerge, DeadHasNoOrder DEF TInv, Truth
    <2>5. EntriesTrue /\ ExecsTrue
      BY <2>3, <2>4, EntryTrue, SlotsKept
    <2> QED
      BY <1>1, <1>2, <2>5, MemoryFaithful DEF MemoryTrue
  <1>8. CASE Owned(p) /\ Goto(p, "done") /\ UNCHANGED cache
    <2>1. EntriesTrue /\ ExecsTrue
      BY <1>8, SlotsKept, GotoTrue
    <2> QED
      BY <1>1, <1>2, <2>1, MemoryFaithful DEF MemoryTrue
  <1>9. CASE Owned(p) /\ cache[p] # None /\ ~(Goto(p, "done") /\ UNCHANGED cache)
    <2> DEFINE known == IF cache[p].bid THEN Read(p) ELSE cache[p]
    <2>1. Entry(p, known) /\ Outcome(p, known)
      BY <1>9 DEF Owned
    <2>2. known \in Snapshots /\ TrueOf(known, order, Dead)
      BY <1>4, <1>9, CopiesTrue
    <2> HIDE DEF known
    <2>3. EntriesTrue /\ ExecsTrue
      BY <2>1, <2>2, EntryTrue, OutcomeTrue DEF Outcome
    <2> QED
      BY <1>1, <1>2, <2>3, MemoryFaithful DEF MemoryTrue
  <1> QED
    BY <1>5, <1>6, <1>7, <1>8, <1>9 DEF Owned

(* The protective cancellation, and the ways an execution gives up.        *)
LEMMA GivingUpFaithful ==
  ASSUME TInv, IInv', NEW p \in Procs,
         \/ ProtectiveCancel(p) \/ CancelNotTransmitted(p)
         \/ BecomesUncertain(p) \/ AdoptedUncertain(p)
  PROVE  Faithful
  <1>1. RecsTrue /\ SweepsTrue
    BY SlotsKept DEF ProtectiveCancel, CancelNotTransmitted, BecomesUncertain, AdoptedUncertain
  <1>2. UNCHANGED <<row, posts, wire>> /\ (UNCHANGED order \/ CancelAtBroker)
    BY DEF ProtectiveCancel, CancelNotTransmitted, BecomesUncertain, AdoptedUncertain
  <1>3. cache[p] # None
    BY DEF ProtectiveCancel, CancelNotTransmitted, BecomesUncertain, AdoptedUncertain,
           Awaiting, TInv, IInv, Tracked
  <1>4. /\ cache[p] \in Snapshots /\ TrueOf(cache[p], order, Dead)
        /\ Quarantine(cache[p]) \in Snapshots /\ TrueOf(Quarantine(cache[p]), order, Dead)
        /\ CancelRequested(p) \in Snapshots /\ TrueOf(CancelRequested(p), order, Dead)
    BY <1>3, CopiesTrue, RelabelledTrue
  <1>5. CASE ProtectiveCancel(p)
    <2>1. EntriesTrue /\ ExecsTrue
      BY <1>4, <1>5, EntryTrue, SlotsKept DEF ProtectiveCancel
    <2> QED
      BY <1>1, <1>2, <2>1, MemoryFaithful DEF MemoryTrue
  <1>6. CASE CancelNotTransmitted(p)
    <2>1. EntriesTrue /\ ExecsTrue
      BY <1>4, <1>6, OutcomeTrue, SlotsKept DEF CancelNotTransmitted, Outcome
    <2> QED
      BY <1>1, <1>2, <2>1, MemoryFaithful DEF MemoryTrue
  <1>7. CASE BecomesUncertain(p)
    <2>1. EntriesTrue /\ ExecsTrue
      BY <1>4, <1>7, EntryTrue, OutcomeTrue DEF BecomesUncertain, Outcome
    <2> QED
      BY <1>1, <1>2, <2>1, MemoryFaithful DEF MemoryTrue
  <1>8. CASE AdoptedUncertain(p)
    <2> DEFINE uncertain == [exec[p].snap EXCEPT !.state = "RECONCILIATION_REQUIRED"]
    <2>1. exec[p].snap \in Snapshots /\ TrueOf(exec[p].snap, order, Dead)
      BY <1>8, CopiesTrue DEF AdoptedUncertain, TInv, IInv, Tracked
    <2>2. "RECONCILIATION_REQUIRED" \in OrderStates \ Terminal
      BY DEF OrderStates, Uncertain, Terminal
    <2>3. uncertain \in Snapshots /\ TrueOf(uncertain, order, Dead)
      BY <2>1, <2>2, RelabelType, TrueRelabel, DeadHasNoOrder DEF TInv, Truth
    <2>4. Outcome(p, uncertain) /\ (Entry(p, uncertain) \/ UNCHANGED cache)
      BY <1>8 DEF AdoptedUncertain
    <2> HIDE DEF uncertain
    <2>5. EntriesTrue /\ ExecsTrue
      BY <2>3, <2>4, EntryTrue, OutcomeTrue, SlotsKept DEF Outcome
    <2> QED
      BY <1>1, <1>2, <2>5, MemoryFaithful DEF MemoryTrue
  <1> QED
    BY <1>5, <1>6, <1>7, <1>8

-----------------------------------------------------------------------------
(* The reconciliation passes and the sweeps, on memory.                    *)

(* A pass loads, lists and adopts.                                         *)
LEMMA PassFaithful ==
  ASSUME TInv, IInv', NEW p \in Procs,
         RecLoad(p) \/ RecList(p) \/ RecAdopt(p) \/ RecFails(p)
  PROVE  Faithful
  <1>1. ExecsTrue /\ SweepsTrue
    BY SlotsKept DEF RecLoad, RecList, RecAdopt, RecFails
  <1>2. UNCHANGED <<row, posts, wire, order>>
    BY DEF RecLoad, RecList, RecAdopt, RecFails
  <1>3. TypeOK /\ Tracked(p) /\ rec \in [Procs -> TaskType(RecPcs)]
    BY DEF TInv, IInv, TypeOK
  <1>4. /\ Read(p) \in Snapshots /\ TrueOf(Read(p), order, Dead)
        /\ Normalize(Payload, 0) \in Snapshots /\ TrueOf(Normalize(Payload, 0), order, Dead)
    BY ReadTrue
  <1>5. NoTask.snap = None
    BY DEF NoTask
  <1>6. CASE RecLoad(p)
    <2>1. RecsTrue /\ EntriesTrue
      BY <1>6, RecTrue, SlotsKept DEF RecLoad
    <2> QED
      BY <1>1, <1>2, <2>1, MemoryFaithful DEF MemoryTrue
  <1>7. CASE RecFails(p)
    <2>1. RecsTrue /\ EntriesTrue
      BY <1>5, <1>7, RecTrue, SlotsKept DEF RecFails
    <2> QED
      BY <1>1, <1>2, <2>1, MemoryFaithful DEF MemoryTrue
  <1>8. CASE RecList(p) /\ order.label # "NONE"
    <2> DEFINE known == cache[p] # None /\ cache[p].bid
               task  == [NoTask EXCEPT !.pc = "adopt",
                                       !.snap = IF known THEN Read(p) ELSE Normalize(Payload, 0)]
    <2>1. rec' = [rec EXCEPT ![p] = task] /\ (Entry(p, Read(p)) \/ UNCHANGED cache)
      BY <1>8 DEF RecList
    <2>2. TrueOf(task.snap, order, Dead)
      BY <1>4 DEF NoTask
    <2> HIDE DEF task
    <2>3. RecsTrue /\ EntriesTrue
      BY <1>4, <2>1, <2>2, RecTrue, EntryTrue, SlotsKept
    <2> QED
      BY <1>1, <1>2, <2>3, MemoryFaithful DEF MemoryTrue
  <1>9. CASE RecList(p) /\ order.label = "NONE"
    <2> DEFINE task == IF rec[p].seen.phase = "ended" THEN NoTask
                       ELSE [rec[p] EXCEPT !.pc = "missing"]
    <2>1. rec' = [rec EXCEPT ![p] = task] /\ UNCHANGED cache
      BY <1>9 DEF RecList
    <2>2. task.snap = None \/ TrueOf(task.snap, order, Dead)
      BY <1>3, <1>5, CopiesTrue DEF TaskType
    <2> HIDE DEF task
    <2>3. RecsTrue /\ EntriesTrue
      BY <2>1, <2>2, RecTrue, SlotsKept
    <2> QED
      BY <1>1, <1>2, <2>3, MemoryFaithful DEF MemoryTrue
  <1>10. CASE RecAdopt(p)
    <2> DEFINE adopted == Committed(p, rec[p].snap, rec[p].snap.filled)
               task    == [rec[p] EXCEPT !.pc = "persist", !.snap = adopted]
    <2>1. rec[p].snap \in Snapshots /\ TrueOf(rec[p].snap, order, Dead)
      BY <1>3, <1>10, CopiesTrue DEF RecAdopt, Tracked
    <2>2. adopted \in Snapshots /\ TrueOf(adopted, order, Dead)
      BY <1>3, <2>1, CommittedType, CommittedTrue
    <2> HIDE DEF adopted
    <2>3. Entry(p, adopted) /\ rec' = [rec EXCEPT ![p] = task]
      BY <1>10 DEF RecAdopt, adopted
    <2>4. task.snap = adopted
      BY <1>3 DEF TaskType
    <2> HIDE DEF task
    <2>5. RecsTrue /\ EntriesTrue
      BY <2>2, <2>3, <2>4, RecTrue, EntryTrue
    <2> QED
      BY <1>1, <1>2, <2>5, MemoryFaithful DEF MemoryTrue
  <1> QED
    BY <1>6, <1>7, <1>8, <1>9, <1>10

(* A sweep loads, rebuilds the entry, cancels and confirms.                *)
LEMMA SweepFaithful ==
  ASSUME TInv, IInv', NEW p \in Procs,
         \/ SweepLoad(p) \/ SweepNothing(p) \/ SweepAdopts(p)
         \/ SweepCancels(p) \/ SweepConfirms(p) \/ SweepUnconfirmed(p)
  PROVE  Faithful
  <1>1. ExecsTrue /\ RecsTrue
    BY SlotsKept DEF SweepLoad, SweepNothing, SweepAdopts, SweepCancels, SweepConfirms,
                     SweepUnconfirmed
  <1>2. UNCHANGED <<row, posts, wire>> /\ (UNCHANGED order \/ CancelAtBroker)
    BY DEF SweepLoad, SweepNothing, SweepAdopts, SweepCancels, SweepConfirms, SweepUnconfirmed
  <1>3. /\ Read(p) \in Snapshots /\ TrueOf(Read(p), order, Dead)
        /\ Normalize(Payload, 0) \in Snapshots /\ TrueOf(Normalize(Payload, 0), order, Dead)
    BY ReadTrue
  <1>4. cache[p] # None =>
          /\ Quarantine(cache[p]) \in Snapshots /\ TrueOf(Quarantine(cache[p]), order, Dead)
          /\ CancelRequested(p) \in Snapshots /\ TrueOf(CancelRequested(p), order, Dead)
    BY RelabelledTrue
  <1>5. NoTask.snap = None
    BY DEF NoTask
  <1>6. ASSUME NEW snap, SweepOutcome(p, snap), TrueOf(snap, order, Dead)
        PROVE  SweepsTrue
    <2> DEFINE task == [NoTask EXCEPT !.pc = "persist", !.snap = snap]
    <2>1. task.snap = snap
      BY DEF NoTask
    <2>2. sweep' = [sweep EXCEPT ![p] = task]
      BY <1>6 DEF SweepOutcome
    <2> HIDE DEF task
    <2> QED
      BY <1>6, <2>1, <2>2, SweepTrue
  <1>7. ASSUME NEW pc, sweep' = [sweep EXCEPT ![p] = [NoTask EXCEPT !.pc = pc]]
        PROVE  SweepsTrue
    <2>1. [NoTask EXCEPT !.pc = pc].snap = None
      BY DEF NoTask
    <2> QED
      BY <1>7, <2>1, SweepTrue
  <1>8. CASE SweepLoad(p) \/ SweepNothing(p) \/ SweepAdopts(p)
    <2>1. SweepsTrue
      BY <1>5, <1>8, SweepTrue, SlotsKept DEF SweepLoad, SweepNothing, SweepAdopts
    <2>2. EntriesTrue
      BY <1>3, <1>8, EntryTrue, SlotsKept DEF SweepLoad, SweepNothing, SweepAdopts
    <2> QED
      BY <1>1, <1>2, <2>1, <2>2, MemoryFaithful DEF MemoryTrue
  <1>9. CASE SweepCancels(p)
    <2>1. EntriesTrue
      BY <1>4, <1>9, EntryTrue, SlotsKept DEF SweepCancels
    <2>2. SweepsTrue
      BY <1>4, <1>6, <1>7, <1>9 DEF SweepCancels
    <2> QED
      BY <1>1, <1>2, <2>1, <2>2, MemoryFaithful DEF MemoryTrue
  <1>10. CASE SweepConfirms(p)
    <2>1. EntriesTrue
      BY <1>3, <1>10, EntryTrue DEF SweepConfirms
    <2>2. SweepsTrue
      BY <1>3, <1>6, <1>10, SlotsKept DEF SweepConfirms
    <2> QED
      BY <1>1, <1>2, <2>1, <2>2, MemoryFaithful DEF MemoryTrue
  <1>11. CASE SweepUnconfirmed(p)
    <2>1. EntriesTrue
      BY <1>4, <1>11, EntryTrue, SlotsKept DEF SweepUnconfirmed
    <2>2. SweepsTrue
      BY <1>5, <1>11, SweepTrue DEF SweepUnconfirmed
    <2> QED
      BY <1>1, <1>2, <2>1, <2>2, MemoryFaithful DEF MemoryTrue
  <1> QED
    BY <1>8, <1>9, <1>10, <1>11

(* A crash forgets every copy but the row.                                 *)
LEMMA CrashFaithful ==
  ASSUME TInv, IInv', NEW p \in Procs, Crash(p)
  PROVE  Faithful
  <1>1. EntriesTrue
    BY EntryTrue DEF Crash, Entry
  <1>2. ExecsTrue
    <2>1. NoExec = [NoExec EXCEPT !.pc = "idle"]
      BY DEF NoExec
    <2> QED
      BY <2>1, ForgottenTrue DEF Crash
  <1>3. RecsTrue /\ SweepsTrue
    <2>1. NoTask.snap = None
      BY DEF NoTask
    <2> QED
      BY <2>1, RecTrue, SweepTrue DEF Crash
  <1>4. UNCHANGED <<row, posts, wire, order>>
    BY DEF Crash
  <1> QED
    BY <1>1, <1>2, <1>3, <1>4, MemoryFaithful DEF MemoryTrue

-----------------------------------------------------------------------------
(* The steps that write the row.                                           *)

RowTrue ==
  /\ TrueOf(row', order, Dead')
  /\ row.filled <= row'.filled
  /\ row.refused => row'.refused

(* A step that writes the truth to the row.                                *)
LEMMA RowFaithful ==
  ASSUME TInv, IInv', MemoryTrue, UNCHANGED <<posts, wire, order>>, RowTrue
  PROVE  Faithful
  <1>1. OrderSound(order) /\ WireSound
    BY DEF TInv, Truth
  <1>2. order.filled \in 0 .. Qty
    BY <1>1 DEF OrderSound, OrderType
  <1>3. Dead => Dead'
    BY DEF Dead, RowTrue
  <1>4. MovesOn
    BY <1>2, <1>3 DEF MovesOn
  <1>5. WireSound'
    BY <1>1, <1>3 DEF WireSound, MemoryTrue, ExecsTrue
  <1>6. TrueOf(row', order', Dead') /\ OrderSound(order')
    BY <1>1 DEF RowTrue
  <1>7. Truth'
    BY <1>4, <1>5, <1>6, Carried
  <1> QED
    BY <1>7 DEF Faithful, RowTrue

(* Nothing is written.                                                     *)
LEMMA RowKeptTrue ==
  ASSUME TInv, UNCHANGED <<posts, wire, order>>, row' = row
  PROVE  RowTrue
  <1>1. row.filled \in 0 .. Qty /\ TrueOf(row, order, Dead)
    BY DEF TInv, IInv, TypeOK, RowType, Truth
  <1>2. Dead' <=> Dead
    BY DEF Dead
  <1> QED
    BY <1>1, <1>2 DEF RowTrue, TrueOf

(* A true snapshot is persisted, or turned away.                           *)
LEMMA PersistTrue ==
  ASSUME TInv, NEW snap \in Snapshots, TrueOf(snap, order, Dead),
         UNCHANGED <<posts, wire, order>>, row' = Updated(Snapshot(snap))
  PROVE  RowTrue
  <1> DEFINE patch == Snapshot(snap)
  <1>1. /\ patch.state = snap.state /\ patch.filled = snap.filled /\ patch.refused = FALSE
        /\ snap.filled \in 0 .. Qty /\ patch.filled # Absent
    BY DEF Snapshot, Snapshots, Absent
  <1> HIDE DEF patch
  <1>2. row.refused \in BOOLEAN
    BY DEF TInv, IInv, TypeOK, RowType
  <1>3. CASE Applies(patch)
    <2>1. /\ row'.state = snap.state /\ row'.filled = snap.filled
          /\ row'.refused = (row.refused \/ FALSE)
      BY <1>1, <1>3 DEF Updated, patch
    <2>2. row.filled <= snap.filled
      BY <1>1, <1>3 DEF Applies
    <2>3. Dead' <=> Dead
      BY <1>2, <2>1 DEF Dead
    <2> QED
      BY <1>2, <2>1, <2>2, <2>3 DEF RowTrue, TrueOf
  <1>4. CASE ~Applies(patch)
    BY <1>4, RowKeptTrue DEF Updated, patch
  <1> QED
    BY <1>3, <1>4

(* A label that claims no end is written, the quantity stays.              *)
LEMMA TransitionTrue ==
  ASSUME TInv, NEW state \in OrderStates \ Terminal, NEW bid, NEW expected,
         UNCHANGED <<posts, wire, order>>, row' = Updated(Transition(state, bid, expected))
  PROVE  RowTrue
  <1> DEFINE patch == Transition(state, bid, expected)
  <1>1. patch.state = state /\ patch.filled = Absent /\ patch.refused = FALSE
    BY DEF Transition
  <1> HIDE DEF patch
  <1>2. row.filled \in 0 .. Qty /\ row.refused \in BOOLEAN /\ TrueOf(row, order, Dead)
    BY DEF TInv, IInv, TypeOK, RowType, Truth
  <1>3. CASE Applies(patch)
    <2>1. row'.state = state /\ row'.filled = row.filled /\ row'.refused = (row.refused \/ FALSE)
      BY <1>1, <1>3 DEF Updated, patch
    <2> QED
      BY <1>2, <2>1 DEF RowTrue, TrueOf
  <1>4. CASE ~Applies(patch)
    BY <1>4, RowKeptTrue DEF Updated, patch
  <1> QED
    BY <1>3, <1>4

(* Before the request is sent there is no order, and no fill on the row.   *)
LEMMA NothingSent ==
  ASSUME TInv, posts = 0
  PROVE  order.label = "NONE" /\ wire = {} /\ order.filled = 0 /\ row.filled = 0
  <1>1. order.label = "NONE" /\ wire = {} /\ order.filled = 0
    BY DEF TInv, Truth, WireSound, OrderSound
  <1>2. row.filled \in 0 .. Qty /\ row.filled <= order.filled
    BY DEF TInv, IInv, TypeOK, RowType, Truth, TrueOf
  <1> QED
    BY <1>1, <1>2

(* A local refusal is recorded where nothing was sent.                     *)
LEMMA RefusalTrue ==
  ASSUME TInv, NEW p \in Procs, exec[p].pc \in {"claim", "claimed", "refuse"},
         UNCHANGED <<posts, wire, order>>, row' = Updated(Refusal(p))
  PROVE  RowTrue
  <1> DEFINE patch == Refusal(p)
  <1>1. /\ patch.state = "REJECTED" /\ patch.filled = Absent /\ patch.refused = TRUE
        /\ patch.expected = {IF exec[p].pc = "claim" THEN "CREATED" ELSE "SUBMITTING"}
    BY DEF Refusal, Transition
  <1> HIDE DEF patch
  <1>2. CASE Applies(patch)
    <2>1. exec[p].pc = "claim" => row.state = "CREATED"
      BY <1>1, <1>2 DEF Applies
    <2>2. posts = 0
      BY <2>1 DEF TInv, IInv, Journal, Unclaimed, Owner
    <2>3. order.label = "NONE" /\ wire = {} /\ order.filled = 0 /\ row.filled = 0
      BY <2>2, NothingSent
    <2>4. row'.state = "REJECTED" /\ row'.filled = row.filled /\ row'.refused
      BY <1>1, <1>2 DEF Updated, patch
    <2>5. Dead'
      BY <2>3, <2>4 DEF Dead
    <2> QED
      BY <2>3, <2>4, <2>5 DEF RowTrue, TrueOf
  <1>3. CASE ~Applies(patch)
    BY <1>3, RowKeptTrue DEF Updated, patch
  <1> QED
    BY <1>2, <1>3

(* The row is created where nothing was sent.                              *)
LEMMA CreationTrue ==
  ASSUME TInv, UNCHANGED <<posts, wire, order>>, row' = Created
  PROVE  RowTrue
  <1>1. CASE row.state = "ABSENT"
    <2>1. posts = 0 /\ ~row.refused
      BY <1>1 DEF TInv, IInv, Journal, Unclaimed
    <2>2. order.filled = 0 /\ row.filled = 0
      BY <2>1, NothingSent
    <2>3. row'.state = "CREATED" /\ row'.filled = 0
      BY <1>1 DEF Created, NoRow
    <2>4. "CREATED" \notin Terminal
      BY DEF Terminal
    <2> QED
      BY <2>1, <2>2, <2>3, <2>4 DEF RowTrue, TrueOf
  <1>2. CASE row.state # "ABSENT"
    BY <1>2, RowKeptTrue DEF Created
  <1> QED
    BY <1>1, <1>2

(* The steps of execute() that write the row.                              *)
LEMMA JournalWritesFaithful ==
  ASSUME TInv, IInv', NEW p \in Procs,
         Create(p) \/ Refuse(p) \/ Claim(p) \/ Persist(p) \/ ExecCallFails(p)
  PROVE  Faithful
  <1>1. UNCHANGED <<posts, wire, order, cache, rec, sweep>>
    BY DEF Create, Refuse, Claim, Persist, ExecCallFails
  <1>2. ExecsTrue
    BY GotoTrue, ForgottenTrue DEF Create, Refuse, Claim, Persist, ExecCallFails
  <1>3. MemoryTrue
    BY <1>1, <1>2, SlotsKept DEF MemoryTrue
  <1>4. exec[p].pc = "persist" => exec[p].snap \in Snapshots /\ TrueOf(exec[p].snap, order, Dead)
    BY CopiesTrue DEF TInv, IInv, Tracked
  <1>5. "SUBMITTING" \in OrderStates \ Terminal
    BY DEF OrderStates, WorkingStates, Terminal
  <1>6. row' = Updated(ClaimPatch) => RowTrue
    BY <1>1, <1>5, TransitionTrue DEF ClaimPatch
  <1>7. CASE Create(p)
    BY <1>1, <1>3, <1>7, CreationTrue, RowFaithful DEF Create
  <1>8. CASE Refuse(p)
    BY <1>1, <1>3, <1>8, RefusalTrue, RowFaithful DEF Refuse
  <1>9. CASE Claim(p)
    BY <1>1, <1>3, <1>6, <1>9, RowFaithful DEF Claim
  <1>10. CASE Persist(p)
    BY <1>1, <1>3, <1>4, <1>10, PersistTrue, RowFaithful DEF Persist
  <1>11. CASE ExecCallFails(p)
    <2>1. row' \in Statements(p) \cup {row}
      BY <1>11 DEF ExecCallFails
    <2>2. \/ row' = row
          \/ row' = Created
          \/ row' = Updated(ClaimPatch)
          \/ exec[p].pc \in {"claim", "claimed", "refuse"} /\ row' = Updated(Refusal(p))
          \/ exec[p].pc = "persist" /\ row' = Updated(Snapshot(exec[p].snap))
      BY <2>1 DEF Statements
    <2>3. RowTrue
      BY <1>1, <1>4, <1>6, <2>2, RowKeptTrue, CreationTrue, RefusalTrue, PersistTrue
    <2> QED
      BY <1>1, <1>3, <2>3, RowFaithful
  <1> QED
    BY <1>7, <1>8, <1>9, <1>10, <1>11

(* The writes of a pass and of a sweep.                                    *)
LEMMA TaskWritesFaithful ==
  ASSUME TInv, IInv', NEW p \in Procs, RecPersist(p) \/ RecMissing(p) \/ SweepPersists(p)
  PROVE  Faithful
  <1>1. UNCHANGED <<posts, wire, order, cache, exec>>
    BY DEF RecPersist, RecMissing, SweepPersists
  <1>2. NoTask.snap = None
    BY DEF NoTask
  <1>3. RecsTrue /\ SweepsTrue
    BY <1>2, RecTrue, SweepTrue, SlotsKept DEF RecPersist, RecMissing, SweepPersists
  <1>4. MemoryTrue
    BY <1>1, <1>3, SlotsKept DEF MemoryTrue
  <1>5. /\ rec[p].pc = "persist" => rec[p].snap \in Snapshots /\ TrueOf(rec[p].snap, order, Dead)
        /\ sweep[p].pc = "persist" =>
             sweep[p].snap \in Snapshots /\ TrueOf(sweep[p].snap, order, Dead)
    BY CopiesTrue DEF TInv, IInv, Tracked
  <1>6. CASE RecPersist(p)
    BY <1>1, <1>4, <1>5, <1>6, PersistTrue, RowFaithful DEF RecPersist
  <1>7. CASE SweepPersists(p)
    BY <1>1, <1>4, <1>5, <1>7, PersistTrue, RowFaithful DEF SweepPersists
  <1>8. CASE RecMissing(p)
    <2>1. "RECONCILIATION_REQUIRED" \in OrderStates \ Terminal
      BY DEF OrderStates, Uncertain, Terminal
    <2>2. RowTrue
      BY <1>1, <1>8, <2>1, RowKeptTrue, TransitionTrue DEF RecMissing
    <2> QED
      BY <1>1, <1>4, <2>2, RowFaithful
  <1> QED
    BY <1>6, <1>7, <1>8

-----------------------------------------------------------------------------
(* The request and the broker.                                             *)

(* The owner of the claim sends: nothing was on its way, and no refusal    *)
(* was recorded.                                                           *)
LEMMA PostFaithful ==
  ASSUME TInv, IInv', NEW p \in Procs, Post(p)
  PROVE  Faithful
  <1>1. OrderSound(order) /\ WireSound /\ TrueOf(row, order, Dead)
    BY DEF TInv, Truth
  <1>2. posts = 0 /\ ~row.refused /\ wire = {} /\ order.label = "NONE"
    BY <1>1 DEF TInv, IInv, Journal, Owner, Post, WireSound
  <1>3. ~Dead /\ posts' = 1 /\ wire' = {p} /\ UNCHANGED <<row, order, cache, rec, sweep>>
    BY <1>2 DEF Dead, Post
  <1>4. ExecsTrue
    BY GotoTrue DEF Post
  <1>5. MemoryTrue
    BY <1>3, <1>4, SlotsKept DEF MemoryTrue
  <1>6. order.filled \in 0 .. Qty /\ row.filled \in 0 .. Qty
    BY <1>1 DEF TInv, IInv, TypeOK, RowType, OrderSound, OrderType
  <1>7. MovesOn
    BY <1>3, <1>6 DEF MovesOn
  <1>8. ~Dead'
    BY <1>3 DEF Dead
  <1>9. WireSound'
    BY <1>1, <1>2, <1>3, <1>4, <1>8 DEF WireSound, ExecsTrue
  <1>10. TrueOf(row', order', Dead')
    BY <1>1, <1>3, <1>6, <1>7, TruthLasts
  <1>11. Truth'
    BY <1>1, <1>3, <1>5, <1>7, <1>9, <1>10, Carried
  <1> QED
    BY <1>3, <1>6, <1>11 DEF Faithful

(* The request arrives, is refused, or is lost.                            *)
LEMMA WireFaithful ==
  ASSUME TInv, IInv', NEW p \in Procs, BrokerAccepts(p) \/ BrokerRefuses(p) \/ RequestLost(p)
  PROVE  Faithful
  <1>1. OrderSound(order) /\ WireSound /\ TrueOf(row, order, Dead)
    BY DEF TInv, Truth
  <1>2. /\ p \in wire /\ wire' = wire \ {p} /\ UNCHANGED <<row, posts, cache, rec, sweep>>
    BY DEF BrokerAccepts, BrokerRefuses, RequestLost
  <1>3. wire' = {} /\ order.label = "NONE" /\ posts # 0 /\ posts \in Nat /\ ~Dead /\ order.filled = 0
    BY <1>1, <1>2 DEF WireSound, Dead, OrderSound, TInv, IInv, TypeOK
  <1>4. row.filled \in 0 .. Qty
    BY DEF TInv, IInv, TypeOK, RowType
  <1>5. exec \in [Procs -> ExecType]
    BY DEF TInv, IInv, TypeOK
  <1>6. /\ \A q \in Procs : exec'[q].snap = exec[q].snap
        /\ order' = order \/ \A q \in Procs : exec'[q].ans \in {exec[q].ans, "acknowledged"}
        /\ order' \in {order, [label |-> "PUT ORDER REQ RECEIVED", filled |-> 0]}
    <2>1. CASE RequestLost(p)
      BY <2>1 DEF RequestLost
    <2>2. CASE BrokerAccepts(p)
      <3>1. exec' = [exec EXCEPT ![p].ans = IF exec[p].pc = "posted" THEN "acknowledged" ELSE @]
        BY <2>2 DEF BrokerAccepts, Answer
      <3>2. \A q \in Procs : /\ exec'[q].snap = exec[q].snap
                            /\ exec'[q].ans \in {exec[q].ans, "acknowledged"}
        BY <1>5, <3>1 DEF ExecType
      <3> QED
        BY <2>2, <3>2 DEF BrokerAccepts
    <2>3. CASE BrokerRefuses(p)
      <3>1. exec' = [exec EXCEPT ![p].ans = IF exec[p].pc = "posted" THEN "refused" ELSE @]
        BY <2>3 DEF BrokerRefuses, Answer
      <3>2. \A q \in Procs : exec'[q].snap = exec[q].snap
        BY <1>5, <3>1 DEF ExecType
      <3> QED
        BY <2>3, <3>2 DEF BrokerRefuses
    <2> QED
      BY <2>1, <2>2, <2>3
  <1>7. OrderSound(order') /\ order'.filled = 0
    <2> DEFINE fresh == [label |-> "PUT ORDER REQ RECEIVED", filled |-> 0]
    <2>1. fresh \in OrderType /\ fresh.label = "PUT ORDER REQ RECEIVED" /\ fresh.filled = 0
      BY QtyPositive DEF OrderType, Labels
    <2> HIDE DEF fresh
    <2>2. OrderSound(fresh)
      BY <2>1, QtyPositive DEF OrderSound
    <2>3. order' = order \/ order' = fresh
      BY <1>6 DEF fresh
    <2> QED
      BY <1>1, <1>3, <2>1, <2>2, <2>3
  <1>8. MovesOn
    BY <1>3, <1>7 DEF MovesOn, Terminal
  <1>9. order' = order => Dead'
    BY <1>2, <1>3 DEF Dead
  <1>10. ExecsTrue
    BY <1>6, <1>9, CopiesTrue DEF ExecsTrue
  <1>11. MemoryTrue
    BY <1>2, <1>10, SlotsKept DEF MemoryTrue
  <1>12. WireSound'
    BY <1>1, <1>2, <1>3, <1>10 DEF WireSound, ExecsTrue
  <1>13. TrueOf(row', order', Dead')
    BY <1>1, <1>2, <1>4, <1>7, <1>8, TruthLasts
  <1>14. Truth'
    BY <1>7, <1>8, <1>11, <1>12, <1>13, Carried
  <1> QED
    BY <1>2, <1>4, <1>14 DEF Faithful

(* The order opens, fills and ends.                                        *)
LEMMA BrokerFaithful ==
  ASSUME TInv, IInv', BrokerOpens \/ BrokerFills \/ BrokerEnds
  PROVE  Faithful
  <1>1. OrderSound(order) /\ WireSound /\ TrueOf(row, order, Dead)
    BY DEF TInv, Truth
  <1>2. UNCHANGED <<row, posts, wire, cache, exec, rec, sweep>>
    BY DEF BrokerOpens, BrokerFills, BrokerEnds
  <1>3. order \in OrderType /\ order.filled \in 0 .. Qty /\ row.filled \in 0 .. Qty
    BY <1>1 DEF OrderSound, OrderType, TInv, IInv, TypeOK, RowType
  <1>4. order.label \in {"PUT ORDER REQ RECEIVED", "OPEN", "CANCEL PENDING"}
    BY DEF BrokerOpens, BrokerFills, BrokerEnds, Working
  <1>5. ~Dead /\ order.label \notin Terminal
    BY <1>4 DEF Dead, Terminal
  <1>6. OrderSound(order') /\ order.filled <= order'.filled /\ order'.label # "NONE"
    <2>1. CASE BrokerOpens
      <3>1. order'.label = "OPEN" /\ order'.filled = order.filled /\ order' \in OrderType
        BY <1>3, <2>1 DEF BrokerOpens, OrderType, Labels
      <3>2. order.filled # Qty
        BY <1>1, <1>4 DEF OrderSound
      <3>3. OrderSound(order')
        BY <3>1, <3>2 DEF OrderSound
      <3> QED
        BY <1>3, <3>1, <3>3
    <2>2. CASE BrokerFills
      <3> DEFINE label == IF order.filled + 1 = Qty THEN "COMPLETE" ELSE order.label
      <3>1. /\ order.label \in {"OPEN", "CANCEL PENDING"}
            /\ order' = [label |-> label, filled |-> order.filled + 1]
            /\ order.filled + 1 \in 0 .. Qty
        <4>1. order.label \in {"OPEN", "CANCEL PENDING"} /\ order.filled < Qty
          BY <2>2 DEF BrokerFills
        <4>2. order' = [label |-> label, filled |-> order.filled + 1]
          BY <2>2 DEF BrokerFills
        <4>3. \A n \in 0 .. Qty : n < Qty => n + 1 \in 0 .. Qty
          BY QtyPositive
        <4>4. order.filled + 1 \in 0 .. Qty
          BY <1>3, <4>1, <4>3
        <4> QED
          BY <4>1, <4>2, <4>4
      <3>2. label \in {"OPEN", "CANCEL PENDING", "COMPLETE"}
        BY <3>1
      <3>3. label = "COMPLETE" <=> order.filled + 1 = Qty
        BY <3>1
      <3> HIDE DEF label
      <3>4. order'.label = label /\ order'.filled = order.filled + 1 /\ order' \in OrderType
        BY <3>1, <3>2 DEF OrderType, Labels
      <3>5. OrderSound(order')
        BY <3>2, <3>3, <3>4 DEF OrderSound
      <3>6. order.filled <= order'.filled
        BY <1>3, <3>4
      <3> QED
        BY <3>2, <3>4, <3>5, <3>6
    <2>3. CASE BrokerEnds
      <3>1. /\ order' \in OrderType /\ order'.filled = order.filled
            /\ \/ order'.label = "CANCELLED"
               \/ order'.label = "REJECTED" /\ order.filled = 0
        BY <1>3, <2>3 DEF BrokerEnds, OrderType, Labels
      <3>2. order.filled # Qty
        BY <1>1, <1>4 DEF OrderSound
      <3>3. OrderSound(order')
        BY <3>1, <3>2 DEF OrderSound
      <3> QED
        BY <1>3, <3>1, <3>3
    <2> QED
      BY <2>1, <2>2, <2>3
  <1>7. MovesOn
    BY <1>5, <1>6 DEF MovesOn
  <1>8. MemoryTrue
    BY <1>2, SlotsKept DEF MemoryTrue
  <1>9. WireSound'
    BY <1>1, <1>2, <1>4, <1>5, <1>6 DEF WireSound
  <1>10. TrueOf(row', order', Dead')
    BY <1>1, <1>2, <1>3, <1>6, <1>7, TruthLasts
  <1>11. Truth'
    BY <1>6, <1>7, <1>8, <1>9, <1>10, Carried
  <1> QED
    BY <1>2, <1>3, <1>11 DEF Faithful

-----------------------------------------------------------------------------
(* The truth holds throughout.                                             *)

(* Nothing was sent, and nothing is remembered.                            *)
LEMMA InitTruth ==
  ASSUME Init
  PROVE  Truth
  <1>1. row.state = "ABSENT" /\ row.filled = 0 /\ "ABSENT" \notin Terminal
    BY DEF Init, NoRow, Terminal
  <1>2. order.label = "NONE" /\ order.filled = 0 /\ order \in OrderType
    BY InitInvariant DEF Init, IInv, TypeOK
  <1>3. OrderSound(order)
    BY <1>2, QtyPositive DEF OrderSound
  <1>4. TrueOf(row, order, Dead)
    BY <1>1, <1>2 DEF TrueOf
  <1>5. /\ \A p \in Procs : cache[p] = None
        /\ \A p \in Procs : exec[p].snap = None /\ exec[p].ans = "none"
        /\ \A p \in Procs : rec[p].snap = None /\ sweep[p].snap = None
    BY DEF Init, NoExec, NoTask
  <1>6. \A p \in Procs : Honest(p)
    BY <1>5 DEF Honest, Copies
  <1>7. WireSound
    BY <1>2, <1>5 DEF Init, WireSound
  <1> QED
    BY <1>3, <1>4, <1>6, <1>7 DEF Truth

(* Every step keeps the truth, and takes no fill off the row.              *)
LEMMA StepFaithful ==
  ASSUME TInv, [Next]_vars
  PROVE  TInv' /\ row.filled <= row'.filled
  <1>1. IInv'
    BY StepSound DEF TInv
  <1>2. CASE Broker
    BY <1>1, <1>2, BrokerFaithful, WireFaithful DEF Broker, Faithful, TInv
  <1>3. ASSUME NEW p \in Procs, Executes(p)
        PROVE  Faithful
    BY <1>1, <1>3, SubmissionFaithful, AnswerFaithful, ObservationFaithful, GivingUpFaithful,
       JournalWritesFaithful, PostFaithful
    DEF Executes
  <1>4. ASSUME NEW p \in Procs, Reconciles(p) \/ RecFails(p)
        PROVE  Faithful
    BY <1>1, <1>4, PassFaithful, TaskWritesFaithful DEF Reconciles
  <1>5. ASSUME NEW p \in Procs, Sweeps(p) \/ Crash(p)
        PROVE  Faithful
    BY <1>1, <1>5, SweepFaithful, TaskWritesFaithful, CrashFaithful DEF Sweeps
  <1>6. CASE UNCHANGED vars
    <2>1. UNCHANGED <<row, posts, wire, order, cache, exec, rec, sweep>>
      BY <1>6 DEF vars
    <2>2. MemoryTrue
      BY <2>1, SlotsKept DEF MemoryTrue
    <2>3. Faithful
      BY <1>1, <2>1, <2>2, MemoryFaithful
    <2> QED
      BY <1>1, <2>3 DEF Faithful, TInv
  <1> QED
    BY <1>1, <1>2, <1>3, <1>4, <1>5, <1>6 DEF Next, Faithful, TInv

(* What the row, the adapters' entries and the activities of every process *)
(* remember of the order is true of it, throughout.                        *)
THEOREM MemoryTellsTheTruth == Spec => []TInv
  <1>1. Init => TInv
    BY InitInvariant, InitTruth DEF TInv
  <1>2. TInv /\ [Next]_vars => TInv'
    BY StepFaithful
  <1> QED
    BY <1>1, <1>2, PTL DEF Spec

(* A terminal row tells the truth: whichever processes wrote it, over      *)
(* whatever crashes, late writes and failed calls, the order ended with    *)
(* exactly the recorded quantity, or there is none and none will be.       *)
THEOREM TerminalRowsAreTrue == Spec => []TerminalIsTrue
  <1>1. TInv => TerminalIsTrue
    <2> SUFFICES ASSUME TInv, row.state \in Terminal
                 PROVE  \/ order.label = row.state /\ order.filled = row.filled
                        \/ order.label = "NONE" /\ wire = {} /\ row.state = "REJECTED"
                           /\ row.filled = 0
      BY DEF TerminalIsTrue
    <2>1. /\ row.filled = order.filled
          /\ row.state = order.label \/ (row.state = "REJECTED" /\ Dead)
      BY DEF TInv, Truth, TrueOf
    <2>2. Dead => order.label = "NONE" /\ wire = {} /\ order.filled = 0
      BY DEF TInv, Truth, OrderSound, Dead
    <2> QED
      BY <2>1, <2>2
  <1> QED
    BY <1>1, MemoryTellsTheTruth, PTL

(* The durable quantity only grows, and never beyond what the broker       *)
(* filled: the comparison in the guarded update, on top of the truth of    *)
(* every snapshot that reaches it.                                         *)
THEOREM DurableFillsOnlyAdvance == Spec => DurableFillsAdvance
  <1>1. TInv /\ [Next]_vars => [row.filled <= row'.filled /\ row'.filled <= order'.filled]_vars
    <2> SUFFICES ASSUME TInv, [Next]_vars
                 PROVE  row.filled <= row'.filled /\ row'.filled <= order'.filled
      OBVIOUS
    <2>1. TInv' /\ row.filled <= row'.filled
      BY StepFaithful
    <2>2. row'.filled <= order'.filled
      BY <2>1 DEF TInv, Truth, TrueOf
    <2> QED
      BY <2>1, <2>2
  <1> QED
    BY <1>1, MemoryTellsTheTruth, PTL DEF Spec, DurableFillsAdvance
=============================================================================
