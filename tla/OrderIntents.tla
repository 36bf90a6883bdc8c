---------------------------- MODULE OrderIntents ----------------------------
(***************************************************************************)
(* The life of ONE client order id: its durable intent row in PostgreSQL   *)
(* (repository.ts createBoxOrderIntent, updateBoxOrderIntent), the three   *)
(* activities of an order manager that touch it (orderManager.ts execute,  *)
(* performReconcile and the cancel-working sweep), the entry the live Kite *)
(* adapter keeps for it in each process, and the order at the broker.      *)
(*                                                                         *)
(* Several processes may work on the id: two boots that overlap, or one    *)
(* that was killed and started again with an empty memory.  Inside a       *)
(* process the activities interleave at every await.  A database call is   *)
(* one step: what follows it up to the next await only touches memory of   *)
(* that activity.  A call that fails either ran or did not.                *)
(*                                                                         *)
(* REST answers are processed when they are computed here; that a late     *)
(* answer does no harm to the adapter's entry is what OrderProjection      *)
(* shows.  A fill credited after a cancellation is left to it as well.     *)
(***************************************************************************)
EXTENDS BrokerOrders

CONSTANTS Procs,                   \* processes of the deployment
          None,
          MaxUpsets                \* bound: crashes, failed calls, resubmissions, sweeps

ASSUME IntentConstants == None \notin Snapshots /\ MaxUpsets \in Nat

VARIABLES row,                     \* the row of box_order_intents
          posts,                   \* history: placement requests sent
          wire,                    \* processes whose request is on its way
          order,                   \* the broker's record: [label, filled]
          cache,                   \* adapter.orders of each process
          exec,                    \* execute() of each process
          rec,                     \* performReconcile() of each process
          sweep,                   \* cancelWorkingBoxOrders() of each process
          upsets

vars == <<row, posts, wire, order, cache, exec, rec, sweep, upsets>>

RowStates == OrderStates \cup {"ABSENT"}

RowType == [state : RowStates, filled : 0 .. Qty, bid : BOOLEAN, refused : BOOLEAN]

ExecPcs == {"idle", "create", "claim", "claimed", "pacing", "refuse", "posted",
            "lookup", "polling", "adopted", "owned", "persist", "done"}

Answers == {"none", "acknowledged", "refused"}

ExecType == [pc : ExecPcs, ans : Answers, snap : Snapshots \cup {None}]

OrderType == [label : Labels \cup {"NONE"}, filled : 0 .. Qty]

\* What a loaded copy of the row is used for later.
Views == [phase : {"created", "working", "ended"}, bid : BOOLEAN]

TaskType(pcs) == [pc : pcs, seen : Views, snap : Snapshots \cup {None}]

RecPcs == {"idle", "list", "adopt", "missing", "persist"}

SweepPcs == {"idle", "cancel", "confirm", "persist"}

NoRow == [state |-> "ABSENT", filled |-> 0, bid |-> FALSE, refused |-> FALSE]

TypeOK ==
  /\ row \in RowType
  /\ posts \in Nat
  /\ wire \subseteq Procs
  /\ order \in OrderType
  /\ cache \in [Procs -> Snapshots \cup {None}]
  /\ exec \in [Procs -> ExecType]
  /\ rec \in [Procs -> TaskType(RecPcs)]
  /\ sweep \in [Procs -> TaskType(SweepPcs)]
  /\ upsets \in 0 .. MaxUpsets

NoExec == [pc |-> "idle", ans |-> "none", snap |-> None]

NoTask == [pc |-> "idle", seen |-> [phase |-> "ended", bid |-> FALSE], snap |-> None]

Init ==
  /\ row = NoRow
  /\ posts = 0
  /\ wire = {}
  /\ order = [label |-> "NONE", filled |-> 0]
  /\ cache = [p \in Procs |-> None]
  /\ exec = [p \in Procs |-> NoExec]
  /\ rec = [p \in Procs |-> NoTask]
  /\ sweep = [p \in Procs |-> NoTask]
  /\ upsets = 0

Loaded ==
  [phase |-> CASE row.state = "CREATED" -> "created"
               [] row.state \in Terminal -> "ended"
               [] OTHER -> "working",
   bid   |-> row.bid]

Upset == upsets < MaxUpsets /\ upsets' = upsets + 1

-----------------------------------------------------------------------------
(* The guarded update of the row.                                          *)

BeyondCreated == WorkingStates \ {"CREATED"}

\* Mutant of Predecessors: an order that ended is not written over an
\* uncertain row.
PredecessorsCertain(state) ==
  CASE state = "CREATED" -> {"CREATED"}
    [] state = "SUBMITTING" -> {"CREATED", "SUBMITTING"}
    [] state \in Terminal -> BeyondCreated \cup {state}
    [] OTHER -> BeyondCreated \cup Uncertain

\* INTENT_STATE_PREDECESSORS: the states a label may be written over.
Predecessors(state) ==
  CASE state = "CREATED" -> {"CREATED"}
    [] state = "SUBMITTING" -> {"CREATED", "SUBMITTING"}
    [] state = "ACKNOWLEDGED" -> {"SUBMITTING", "ACKNOWLEDGED"} \cup Uncertain
    [] state = "OPEN" -> {"SUBMITTING", "ACKNOWLEDGED", "OPEN"} \cup Uncertain
    [] state = "PARTIALLY_FILLED" ->
         {"SUBMITTING", "ACKNOWLEDGED", "OPEN", "PARTIALLY_FILLED"} \cup Uncertain
    [] state = "CANCEL_REQUESTED" -> BeyondCreated \cup Uncertain
    [] state = "COMPLETE" ->
         BeyondCreated \cup Uncertain \cup {"CANCELLED", "COMPLETE"}
    [] state = "CANCELLED" -> BeyondCreated \cup Uncertain \cup {"CANCELLED"}
    [] state = "REJECTED" -> {"CREATED", "SUBMITTING", "ACKNOWLEDGED", "OPEN", "REJECTED"}
    [] OTHER -> WorkingStates \cup Uncertain

\* transition(): a label and a broker id, on condition of the expected states;
\* the quantity is not patched.
Transition(state, bid, expected) ==
  [state |-> state, filled |-> Absent, bid |-> bid, expected |-> expected, refused |-> FALSE]

\* persistOrder(): a whole snapshot, whatever the row says.
Snapshot(snap) ==
  [state |-> snap.state, filled |-> snap.filled, bid |-> snap.bid,
   expected |-> OrderStates, refused |-> FALSE]

\* Mutant of Applies: the quantity on the row is not compared.
AppliesAnyFill(patch) == row.state \in Predecessors(patch.state) \cap patch.expected

\* The predicate evaluated on the row locked FOR UPDATE.
Applies(patch) ==
  /\ row.state \in Predecessors(patch.state) \cap patch.expected
  /\ patch.filled # Absent => row.filled <= patch.filled

\* A broker id in the patch is written even when it is null.
Updated(patch) ==
  IF Applies(patch)
  THEN [state   |-> patch.state,
        filled  |-> IF patch.filled = Absent THEN row.filled ELSE patch.filled,
        bid     |-> patch.bid,
        refused |-> row.refused \/ patch.refused]
  ELSE row

-----------------------------------------------------------------------------
(* The broker.                                                             *)

Payload == [label |-> order.label, qty |-> order.filled,
            price |-> IF order.filled = 0 THEN Absent ELSE order.filled]

Working == order.label \in {"PUT ORDER REQ RECEIVED", "OPEN", "CANCEL PENDING"}

\* The answer to the request of p, if p still waits for it.
Answer(p, ans) ==
  exec' = [exec EXCEPT ![p].ans = IF exec[p].pc = "posted" THEN ans ELSE @]

BrokerAccepts(p) ==
  /\ p \in wire
  /\ order.label = "NONE"
  /\ wire' = wire \ {p}
  /\ order' = [label |-> "PUT ORDER REQ RECEIVED", filled |-> 0]
  /\ Answer(p, "acknowledged")
  /\ UNCHANGED <<row, posts, cache, rec, sweep, upsets>>

\* A definitive refusal of the request: no order comes into being.
BrokerRefuses(p) ==
  /\ p \in wire
  /\ wire' = wire \ {p}
  /\ Answer(p, "refused")
  /\ UNCHANGED <<row, posts, order, cache, rec, sweep, upsets>>

\* The request never arrives.
RequestLost(p) ==
  /\ p \in wire
  /\ wire' = wire \ {p}
  /\ UNCHANGED <<row, posts, order, cache, exec, rec, sweep, upsets>>

BrokerOpens ==
  /\ order.label = "PUT ORDER REQ RECEIVED"
  /\ order' = [order EXCEPT !.label = "OPEN"]
  /\ UNCHANGED <<row, posts, wire, cache, exec, rec, sweep, upsets>>

BrokerFills ==
  /\ order.label \in {"OPEN", "CANCEL PENDING"}
  /\ order.filled < Qty
  /\ order' = [label  |-> IF order.filled + 1 = Qty THEN "COMPLETE" ELSE order.label,
               filled |-> order.filled + 1]
  /\ UNCHANGED <<row, posts, wire, cache, exec, rec, sweep, upsets>>

BrokerEnds ==
  /\ \/ Working /\ order' = [order EXCEPT !.label = "CANCELLED"]
     \/ Working /\ order.filled = 0 /\ order' = [order EXCEPT !.label = "REJECTED"]
  /\ UNCHANGED <<row, posts, wire, cache, exec, rec, sweep, upsets>>

-----------------------------------------------------------------------------
(* execute().                                                              *)

Goto(p, pc) == exec' = [exec EXCEPT ![p].pc = pc]

\* The activity ends with a snapshot to be persisted.
Outcome(p, snap) == exec' = [exec EXCEPT ![p].pc = "persist", ![p].snap = snap]

Entry(p, snap) == cache' = [cache EXCEPT ![p] = snap]

\* commit(): merge into the entry, or become it.
Committed(p, cand, observed) ==
  IF cache[p] = None THEN cand ELSE Merge(cache[p], cand, observed)

\* A REST row processed by process p.
Read(p) ==
  Committed(p, Normalize(Payload, IF cache[p] = None THEN 0 ELSE cache[p].filled), Payload.qty)

\* A request for the id is taken from the queue; the same id may be asked for
\* again, by this process or by another one.
Submit(p) ==
  /\ \/ exec[p].pc = "idle" /\ UNCHANGED upsets
     \/ exec[p].pc = "done" /\ Upset
  /\ exec' = [exec EXCEPT ![p] = [NoExec EXCEPT !.pc = "create"]]
  /\ UNCHANGED <<row, posts, wire, order, cache, rec, sweep>>

Created == IF row.state = "ABSENT" THEN [NoRow EXCEPT !.state = "CREATED"] ELSE row

\* INSERT ... ON CONFLICT DO NOTHING, then the row that is there.
Create(p) ==
  /\ exec[p].pc = "create"
  /\ row' = Created
  /\ Goto(p, IF Created.state = "CREATED" THEN "claim" ELSE "owned")
  /\ UNCHANGED <<posts, wire, order, cache, rec, sweep, upsets>>

\* persistLocalPreSubmitRefusal: only from the state this execution saw.
Refusal(p) ==
  [Transition("REJECTED", FALSE, {IF exec[p].pc = "claim" THEN "CREATED" ELSE "SUBMITTING"})
     EXCEPT !.refused = TRUE]

ClaimPatch == Transition("SUBMITTING", FALSE, {"CREATED"})

\* A dispatch guard refuses before the claim, after it, or (pc "refuse") in
\* the adapter's last check before the socket.
Refuse(p) ==
  /\ exec[p].pc \in {"claim", "claimed", "refuse"}
  /\ row' = Updated(Refusal(p))
  /\ Goto(p, IF Applies(Refusal(p)) THEN "done" ELSE "owned")
  /\ UNCHANGED <<posts, wire, order, cache, rec, sweep, upsets>>

Claim(p) ==
  /\ exec[p].pc = "claim"
  /\ row' = Updated(ClaimPatch)
  /\ Goto(p, IF Applies(ClaimPatch) THEN "claimed" ELSE "owned")
  /\ UNCHANGED <<posts, wire, order, cache, rec, sweep, upsets>>

\* submitOrder up to the pacing queue: an entry that is already there is
\* returned instead of being sent.
StartSubmit(p) ==
  /\ exec[p].pc = "claimed"
  /\ \/ /\ cache[p] # None
        /\ Outcome(p, cache[p])
        /\ UNCHANGED cache
     \/ /\ cache[p] = None
        /\ Entry(p, [state |-> "SUBMITTING", filled |-> 0, bid |-> FALSE, avg |-> 0])
        /\ Goto(p, "pacing")
  /\ UNCHANGED <<row, posts, wire, order, rec, sweep, upsets>>

\* beforeSend throws: the entry is deleted, the refusal is then recorded.
RefusedBeforeSend(p) ==
  /\ exec[p].pc = "pacing"
  /\ Entry(p, None)
  /\ Goto(p, "refuse")
  /\ UNCHANGED <<row, posts, wire, order, rec, sweep, upsets>>

Post(p) ==
  /\ exec[p].pc = "pacing"
  /\ posts' = posts + 1
  /\ wire' = wire \cup {p}
  /\ Goto(p, "posted")
  /\ UNCHANGED <<row, order, cache, rec, sweep, upsets>>

Acknowledged(p) ==
  /\ exec[p].pc = "posted" /\ exec[p].ans = "acknowledged"
  /\ Entry(p, Committed(p, [state |-> "ACKNOWLEDGED", filled |-> 0, bid |-> TRUE, avg |-> 0], 0))
  /\ Goto(p, "polling")
  /\ UNCHANGED <<row, posts, wire, order, rec, sweep, upsets>>

\* A definitive rejection is merged and persisted, whether or not the merged
\* snapshot proves zero exposure.
PlacementRefused(p) ==
  /\ exec[p].pc = "posted" /\ exec[p].ans = "refused"
  /\ LET rejected == Merge(cache[p], [cache[p] EXCEPT !.state = "REJECTED"], cache[p].filled)
     IN  Entry(p, rejected) /\ Outcome(p, rejected)
  /\ UNCHANGED <<row, posts, wire, order, rec, sweep, upsets>>

\* Mutant of PlacementAmbiguous: the request is sent again.
PlacementRetried(p) ==
  /\ exec[p].pc = "posted"
  /\ Goto(p, "pacing")
  /\ UNCHANGED <<row, posts, wire, order, cache, rec, sweep, upsets>>

\* A timeout, a reset connection, an unreadable answer: never sent again.
\* A credential that could not be read ends the same way, with nothing sent.
PlacementAmbiguous(p) ==
  /\ exec[p].pc \in {"pacing", "posted"}
  /\ Goto(p, "lookup")
  /\ UNCHANGED <<row, posts, wire, order, cache, rec, sweep, upsets>>

\* Mutant of LookupByTag: an order that is not listed was rejected.
LookupAbsentRejects(p) ==
  /\ exec[p].pc = "lookup"
  /\ IF order.label # "NONE"
     THEN /\ Entry(p, Read(p))
          /\ exec' = [exec EXCEPT ![p].pc = "polling"]
     ELSE /\ Entry(p, [cache[p] EXCEPT !.state = "REJECTED"])
          /\ Outcome(p, [cache[p] EXCEPT !.state = "REJECTED"])
  /\ UNCHANGED <<row, posts, wire, order, rec, sweep, upsets>>

\* reconcileByTag: adopt the one order that carries the tag, or quarantine
\* (also when the lookup fails).
LookupByTag(p) ==
  /\ exec[p].pc = "lookup"
  /\ \/ /\ order.label # "NONE"
        /\ Entry(p, Read(p))
        /\ IF Read(p).state \in Terminal THEN Outcome(p, Read(p))
           ELSE exec' = [exec EXCEPT ![p].pc = "adopted", ![p].snap = Read(p)]
     \/ /\ Entry(p, Quarantine(cache[p]))
        /\ Outcome(p, Quarantine(cache[p]))
  /\ UNCHANGED <<row, posts, wire, order, rec, sweep, upsets>>

Awaiting(p) == exec[p].pc \in {"polling", "adopted"}

\* waitForResolution, one round.
Poll(p) ==
  /\ Awaiting(p)
  /\ Entry(p, Read(p))
  /\ IF Read(p).state \in Terminal THEN Outcome(p, Read(p)) ELSE UNCHANGED exec
  /\ UNCHANGED <<row, posts, wire, order, rec, sweep, upsets>>

\* The cancel request reaches the broker, which may still fill the order.
CancelAtBroker ==
  order' = [order EXCEPT !.label = IF Working THEN "CANCEL PENDING" ELSE @]

CancelRequested(p) == Merge(cache[p], [cache[p] EXCEPT !.state = "CANCEL_REQUESTED"], cache[p].filled)

\* The protective cancellation at a deadline; polling goes on until it is
\* confirmed.
ProtectiveCancel(p) ==
  /\ Awaiting(p)
  /\ cache[p].state \notin Terminal \cup {"CANCEL_REQUESTED"}
  /\ CancelAtBroker
  /\ Entry(p, CancelRequested(p))
  /\ UNCHANGED <<row, posts, wire, exec, rec, sweep, upsets>>

\* The cancellation was not transmitted: the order is left working.
CancelNotTransmitted(p) ==
  /\ exec[p].pc = "polling"
  /\ Outcome(p, cache[p])
  /\ UNCHANGED <<row, posts, wire, order, cache, rec, sweep, upsets>>

\* Reads fail or the cancellation stays unconfirmed: quarantine.
BecomesUncertain(p) ==
  /\ exec[p].pc = "polling"
  /\ Entry(p, Quarantine(cache[p]))
  /\ Outcome(p, Quarantine(cache[p]))
  /\ UNCHANGED <<row, posts, wire, order, rec, sweep, upsets>>

\* resolveAdopted persists the snapshot as it was adopted, marked uncertain.
AdoptedUncertain(p) ==
  /\ exec[p].pc = "adopted"
  /\ LET uncertain == [exec[p].snap EXCEPT !.state = "RECONCILIATION_REQUIRED"]
     IN  /\ Outcome(p, uncertain)
         /\ IF cache[p] = exec[p].snap THEN Entry(p, uncertain) ELSE UNCHANGED cache
  /\ UNCHANGED <<row, posts, wire, order, rec, sweep, upsets>>

Persist(p) ==
  /\ exec[p].pc = "persist"
  /\ row' = Updated(Snapshot(exec[p].snap))
  /\ exec' = [exec EXCEPT ![p] = [NoExec EXCEPT !.pc = "done"]]
  /\ UNCHANGED <<posts, wire, order, cache, rec, sweep, upsets>>

\* The id is, or has become, somebody else's: report what the adapter knows
\* of it (nothing, when it has no entry or the read fails), and send nothing.
Owned(p) ==
  /\ exec[p].pc = "owned"
  /\ \/ /\ Goto(p, "done")
        /\ UNCHANGED cache
     \/ /\ cache[p] # None
        /\ LET known == IF cache[p].bid THEN Read(p) ELSE cache[p]
           IN  Entry(p, known) /\ Outcome(p, known)
  /\ UNCHANGED <<row, posts, wire, order, rec, sweep, upsets>>

\* A database call of execute() throws: the statement ran, or it did not.
Statements(p) ==
  CASE exec[p].pc = "create" -> {Created}
    [] exec[p].pc = "claim" -> {Updated(ClaimPatch), Updated(Refusal(p))}
    [] exec[p].pc \in {"claimed", "refuse"} -> {Updated(Refusal(p))}
    [] exec[p].pc = "persist" -> {Updated(Snapshot(exec[p].snap))}
    [] OTHER -> {}

ExecCallFails(p) ==
  /\ Upset
  /\ Statements(p) # {}
  /\ row' \in Statements(p) \cup {row}
  /\ exec' = [exec EXCEPT ![p] = [NoExec EXCEPT !.pc = "done"]]
  /\ UNCHANGED <<posts, wire, order, cache, rec, sweep>>

\* An order-update event for an order this process can attribute.
StreamObserves(p) ==
  /\ cache[p] # None /\ order.label # "NONE"
  /\ cache[p].bid
  /\ Entry(p, Merge(cache[p], FromStream(Payload, cache[p]), Payload.qty))
  /\ UNCHANGED <<row, posts, wire, order, exec, rec, sweep, upsets>>

-----------------------------------------------------------------------------
(* performReconcile(), for this id.                                        *)

RecLoad(p) ==
  /\ rec[p].pc = "idle"
  /\ row.state # "ABSENT"
  /\ rec' = [rec EXCEPT ![p] = [pc |-> "list", seen |-> Loaded, snap |-> None]]
  /\ UNCHANGED <<row, posts, wire, order, cache, exec, sweep, upsets>>

\* listOrders: what the broker lists is merged into an entry the adapter can
\* attribute, and is normalized by itself otherwise.  What it does not list
\* is missing, if it was loaded as nonterminal.
RecList(p) ==
  LET known == cache[p] # None /\ cache[p].bid
  IN  /\ rec[p].pc = "list"
      /\ \/ /\ order.label # "NONE"
            /\ rec' = [rec EXCEPT ![p] =
                 [NoTask EXCEPT !.pc = "adopt",
                                !.snap = IF known THEN Read(p) ELSE Normalize(Payload, 0)]]
            /\ IF known THEN Entry(p, Read(p)) ELSE UNCHANGED cache
         \/ /\ order.label = "NONE"
            /\ rec' = [rec EXCEPT ![p] = IF @.seen.phase = "ended" THEN NoTask
                                         ELSE [@ EXCEPT !.pc = "missing"]]
            /\ UNCHANGED cache
      /\ UNCHANGED <<row, posts, wire, order, exec, sweep, upsets>>

\* adoptOrder, after the positions were read.
RecAdopt(p) ==
  LET adopted == Committed(p, rec[p].snap, rec[p].snap.filled)
  IN  /\ rec[p].pc = "adopt"
      /\ Entry(p, adopted)
      /\ rec' = [rec EXCEPT ![p].pc = "persist", ![p].snap = adopted]
      /\ UNCHANGED <<row, posts, wire, order, exec, sweep, upsets>>

RecPersist(p) ==
  /\ rec[p].pc = "persist"
  /\ row' = Updated(Snapshot(rec[p].snap))
  /\ rec' = [rec EXCEPT ![p] = NoTask]
  /\ UNCHANGED <<posts, wire, order, cache, exec, sweep, upsets>>

\* "durable nonterminal intent not found in broker order list; no resubmit":
\* the broker id is the one of the row as it was loaded.
RecMissing(p) ==
  /\ rec[p].pc = "missing"
  /\ row' = IF rec[p].seen.phase = "created" THEN row
            ELSE Updated(Transition("RECONCILIATION_REQUIRED", rec[p].seen.bid, OrderStates))
  /\ rec' = [rec EXCEPT ![p] = NoTask]
  /\ UNCHANGED <<posts, wire, order, cache, exec, sweep, upsets>>

\* A read or a write of the pass fails: the pass ends.
RecFails(p) ==
  /\ rec[p].pc # "idle"
  /\ Upset
  /\ rec' = [rec EXCEPT ![p] = NoTask]
  /\ UNCHANGED <<row, posts, wire, order, cache, exec, sweep>>

-----------------------------------------------------------------------------
(* cancelWorkingBoxOrders() and executeCancel(), for this id.              *)

SweepLoad(p) ==
  /\ sweep[p].pc = "idle"
  /\ row.state \notin Terminal \cup {"ABSENT"}
  /\ Upset
  /\ sweep' = [sweep EXCEPT ![p] = [pc |-> "cancel", seen |-> Loaded, snap |-> None]]
  /\ UNCHANGED <<row, posts, wire, order, cache, exec, rec>>

\* markNothingToCancel: the adapter has no entry and the row no broker id.
SweepNothing(p) ==
  /\ sweep[p].pc = "cancel"
  /\ cache[p] = None
  /\ ~sweep[p].seen.bid
  /\ sweep' = [sweep EXCEPT ![p] = NoTask]
  /\ UNCHANGED <<row, posts, wire, order, cache, exec, rec, upsets>>

\* adoptThenCancel: the entry is rebuilt from the broker's list.
SweepAdopts(p) ==
  /\ sweep[p].pc = "cancel"
  /\ cache[p] = None
  /\ sweep[p].seen.bid
  /\ Entry(p, Normalize(Payload, 0))
  /\ UNCHANGED <<row, posts, wire, order, exec, rec, sweep, upsets>>

SweepOutcome(p, snap) ==
  sweep' = [sweep EXCEPT ![p] = [NoTask EXCEPT !.pc = "persist", !.snap = snap]]

\* cancelOrder on an entry.
SweepCancels(p) ==
  /\ sweep[p].pc = "cancel"
  /\ cache[p] # None
  /\ \/ /\ cache[p].state \in Terminal \/ ~cache[p].bid
        /\ Entry(p, Quarantine(cache[p]))
        /\ SweepOutcome(p, Quarantine(cache[p]))
        /\ UNCHANGED order
     \/ /\ cache[p].state \notin Terminal /\ cache[p].bid
        /\ sweep' = [sweep EXCEPT ![p] = [NoTask EXCEPT !.pc = "confirm"]]
        /\ IF cache[p].state = "CANCEL_REQUESTED" THEN UNCHANGED <<order, cache>>
           ELSE CancelAtBroker /\ Entry(p, CancelRequested(p))
  /\ UNCHANGED <<row, posts, wire, exec, rec, upsets>>

SweepConfirms(p) ==
  /\ sweep[p].pc = "confirm"
  /\ Entry(p, Read(p))
  /\ IF Read(p).state \in Terminal THEN SweepOutcome(p, Read(p)) ELSE UNCHANGED sweep
  /\ UNCHANGED <<row, posts, wire, order, exec, rec, upsets>>

\* The entry cannot be rebuilt, or the cancellation stays unconfirmed: a
\* failure of the sweep.  An entry that has vanished meanwhile stays so.
SweepUnconfirmed(p) ==
  /\ \/ sweep[p].pc = "confirm"
     \/ sweep[p].pc = "cancel" /\ cache[p] = None /\ sweep[p].seen.bid
  /\ IF cache[p] = None THEN UNCHANGED cache ELSE Entry(p, Quarantine(cache[p]))
  /\ sweep' = [sweep EXCEPT ![p] = NoTask]
  /\ UNCHANGED <<row, posts, wire, order, exec, rec, upsets>>

SweepPersists(p) ==
  /\ sweep[p].pc = "persist"
  /\ row' = Updated(Snapshot(sweep[p].snap))
  /\ sweep' = [sweep EXCEPT ![p] = NoTask]
  /\ UNCHANGED <<posts, wire, order, cache, exec, rec, upsets>>

-----------------------------------------------------------------------------
\* kill -9 and a restart: the memory is gone, the row and the wire are not.
Crash(p) ==
  /\ Upset
  /\ exec[p].pc # "idle" \/ cache[p] # None
  /\ cache' = [cache EXCEPT ![p] = None]
  /\ exec' = [exec EXCEPT ![p] = NoExec]
  /\ rec' = [rec EXCEPT ![p] = NoTask]
  /\ sweep' = [sweep EXCEPT ![p] = NoTask]
  /\ UNCHANGED <<row, posts, wire, order>>

Executes(p) ==
  \/ Submit(p) \/ Create(p) \/ Refuse(p) \/ Claim(p) \/ StartSubmit(p)
  \/ RefusedBeforeSend(p) \/ Post(p) \/ Acknowledged(p) \/ PlacementRefused(p)
  \/ PlacementAmbiguous(p) \/ LookupByTag(p) \/ Poll(p) \/ ProtectiveCancel(p)
  \/ CancelNotTransmitted(p) \/ BecomesUncertain(p) \/ AdoptedUncertain(p)
  \/ Persist(p) \/ Owned(p) \/ ExecCallFails(p) \/ StreamObserves(p)

Reconciles(p) == RecLoad(p) \/ RecList(p) \/ RecAdopt(p) \/ RecPersist(p) \/ RecMissing(p)

Sweeps(p) ==
  \/ SweepLoad(p) \/ SweepNothing(p) \/ SweepAdopts(p) \/ SweepCancels(p)
  \/ SweepConfirms(p) \/ SweepUnconfirmed(p) \/ SweepPersists(p)

Broker ==
  \/ BrokerOpens \/ BrokerFills \/ BrokerEnds
  \/ \E p \in Procs : BrokerAccepts(p) \/ BrokerRefuses(p) \/ RequestLost(p)

Next ==
  \/ Broker
  \/ \E p \in Procs : Executes(p) \/ Reconciles(p) \/ RecFails(p) \/ Sweeps(p) \/ Crash(p)

\* Reconciliation passes are started periodically and run to their end.
Fairness == \A p \in Procs : WF_vars(Reconciles(p))

Spec == Init /\ [][Next]_vars /\ Fairness

-----------------------------------------------------------------------------
(* Properties.                                                             *)

\* Whatever is interleaved, killed, retried or lost: at most one placement
\* request per client order id, and none for an intent closed by a local
\* refusal (AtMostOnceSubmission).
Submission == INSTANCE AtMostOnceSubmission WITH refused <- row.refused

SubmittedAtMostOnce == Submission!Spec

\* A terminal row tells the truth about the broker: the order ended with
\* exactly the quantity recorded, or there is none and none is on its way.
TerminalIsTrue ==
  row.state \in Terminal =>
    \/ order.label = row.state /\ order.filled = row.filled
    \/ order.label = "NONE" /\ wire = {} /\ row.state = "REJECTED" /\ row.filled = 0

\* The durable quantity only grows, and never beyond what the broker filled.
DurableFillsAdvance ==
  [][row.filled <= row'.filled /\ row'.filled <= order'.filled]_vars

\* An order that completed or was cancelled is, in the end, durably so with
\* its full quantity, whatever state the crash or the quarantine left behind.
EndsDurably ==
  order.label \in {"COMPLETE", "CANCELLED"} ~>
    (row.state = order.label /\ row.filled = order.filled)

\* orderManager.ts: a row without a broker id is "provably never transmitted":
\* the sweep reports nothing to cancel only when nothing works at the broker
\* or is on its way to it.
NothingToCancel ==
  [][\A p \in Procs : SweepNothing(p) => ~Working /\ wire = {}]_vars

\* brokerOrderMerge.ts: the broker id of the row may be learned, never lost.
BrokerIdKept == [][row.bid => row'.bid]_vars

\* An order the broker rejected is, in the end, durably rejected.
RejectionEndsDurably ==
  order.label = "REJECTED" ~> row.state = "REJECTED"
=============================================================================
