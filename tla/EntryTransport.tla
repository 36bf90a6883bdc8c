--------------------------- MODULE EntryTransport ---------------------------
(***************************************************************************)
(* How the four legs of a box entry travel through one order manager: its  *)
(* queue and slots (orderManager.ts submit, pump, executionSchedulingPolicy*)
(* admitBoxOperation), the four checkpoints every leg passes (submit,      *)
(* dequeue, after the durable claim, before the POST), the gate that holds *)
(* the SELL legs back until the BUY legs that hedge them are decided, and  *)
(* the quantity reserved against the gross cap.                            *)
(*                                                                         *)
(* The manager is single threaded.  A step here is what one callback does  *)
(* between two awaits, with two exceptions that are made of several steps  *)
(* nothing else can interrupt: the gateway submits the four legs of an     *)
(* attempt in one synchronous loop (tick), and pump dispatches queue heads *)
(* until one is not admitted (Pumpable).  Only the clock moves inside.     *)
(*                                                                         *)
(* What a leg's database row goes through is OrderIntents; here a call of  *)
(* the database succeeds, fails, or finds another owner.  Conditions that  *)
(* come from outside the order manager (operator switches, lease, account, *)
(* feed) are the variable open.  Protective work (cancels and reductions)  *)
(* is counted: it competes for slots; that it also gives exposure back is  *)
(* left out, so the gross quantity here is never too small.                *)
(***************************************************************************)
EXTENDS Integers, Sequences, FiniteSets, FiniteSetsExt

CONSTANTS Attempts,                \* entry attempts, one box each
          NoAttempt,
          Lot,                     \* the quantity of every leg
          MaxGross,                \* BOX_LIVE_MAX_GROSS_OPEN_LEG_QUANTITY
          Carried,                 \* quantities of earlier boxes the manager may start with
          Base,                    \* maxConcurrentExecutions
          Burst,                   \* BOX_LIVE_ENTRY_SUBMIT_CONCURRENCY, clamped
          OverCapital,             \* attempts whose notional exceeds the per-box cap
          OpensInTick,             \* a warm-up may end between two legs of a tick
          CancelRecordFails,       \* a call fails as an order left working is recorded
          MaxProtective            \* bound: protective operations of a behaviour

ASSUME TransportConstants ==
  /\ NoAttempt \notin Attempts
  /\ IsFiniteSet(Attempts)
  /\ Lot \in Nat \ {0}
  /\ MaxGross \in Nat
  /\ Carried \subseteq Nat
  /\ Base \in Nat \ {0}
  /\ Burst \in 1 .. 4
  /\ OverCapital \subseteq Attempts
  /\ OpensInTick \in BOOLEAN
  /\ CancelRecordFails \in BOOLEAN
  /\ MaxProtective \in Nat

VARIABLES pc,                      \* where each leg is
          slot,                    \* the slot a leg in flight occupies
          queue,                   \* entry legs waiting for a slot, in order
          protective,              \* [made, queued, busy] protective operations
          entryAttempt,            \* entryAttemptInFlight
          tick,                    \* the next leg the gateway submits in this tick
          gate,                    \* entryTransportGates
          posted,                  \* postedEntryAttempts
          reserved,                \* reservations: quantity held for each leg
          carried,                 \* the quantity of earlier boxes at the start
          gross,                   \* grossOpenLegQuantity, from attributed fills
          held,                    \* quantity the broker really filled of each leg
          open,                    \* the outside conditions admit entry
          healthy,                 \* health.persistence
          troubled,                \* breaker, unknown or unattended orders
          disposed

vars == <<pc, slot, queue, protective, entryAttempt, tick, gate, posted, reserved,
          carried, gross, held, open, healthy, troubled, disposed>>

Ranks == 0 .. 3                    \* entrySubmissionOrder: the BUYs first

Hedges == {0, 1}

Legs == Attempts \X Ranks

NoLeg == <<NoAttempt, 0>>

\* idle: not submitted; queued; create, claim: awaiting the insert and the move
\* to SUBMITTING; parked: a SELL waiting for its hedges; turn: in the adapter,
\* before the POST; sent: POST begun; working: outcome not final, order alive;
\* refusing: recording a refusal; done.
InFlight == {"create", "claim", "parked", "turn", "sent", "refusing"}

Settled == {"working", "done"}

Unproven == -1                     \* no terminal, broker-confirmed quantity

NoGate == [live |-> FALSE, registered |-> {}, decided |-> {},
           proof |-> [h \in Hedges |-> Unproven]]

Init ==
  /\ pc = [l \in Legs |-> "idle"]
  /\ slot = [l \in Legs |-> "none"]
  /\ queue = <<>>
  /\ protective = [made |-> 0, queued |-> 0, busy |-> 0]
  /\ entryAttempt = NoAttempt
  /\ tick = NoLeg
  /\ gate = [a \in Attempts |-> NoGate]
  /\ posted = {}
  /\ reserved = [l \in Legs |-> 0]
  /\ carried \in Carried
  /\ gross = carried
  /\ held = [l \in Legs |-> 0]
  /\ open \in BOOLEAN
  /\ healthy = TRUE
  /\ troubled = FALSE
  /\ disposed = FALSE

-----------------------------------------------------------------------------
(***************************************************************************)
(* Slots: admitBoxOperation, occupySlot, releaseSlot.                      *)
(***************************************************************************)
Occupied(kind) == {l \in Legs : slot[l] = kind}

BaseInFlight == Cardinality(Occupied("base")) + protective.busy

BurstInFlight == Cardinality(Occupied("burst"))

\* The slot an entry leg of attempt a would get now.
EntrySlot(a) ==
  IF entryAttempt \notin {NoAttempt, a} THEN "none"
  ELSE IF BaseInFlight < Base THEN "base"
  ELSE IF Burst > Base /\ protective.busy = 0 /\ BaseInFlight + BurstInFlight < Burst
       THEN "burst" ELSE "none"

\* Mutant of EntryAttemptAfter: any release clears the attempt in flight.
EntryAttemptAfterAny(l) == NoAttempt

\* entryAttemptInFlight once leg l has released its slot.
EntryAttemptAfter(l) ==
  IF \A k \in Legs \ {l} : slot[k] = "none" THEN NoAttempt ELSE entryAttempt

\* The head of the queue is protective work whenever there is any.
Pumpable ==
  /\ ~disposed
  /\ IF protective.queued > 0 THEN BaseInFlight < Base
     ELSE queue # <<>> /\ EntrySlot(queue[1][1]) # "none"

\* No synchronous run is under way: any callback may fire.
Quiet == ~Pumpable /\ tick = NoLeg

-----------------------------------------------------------------------------
(***************************************************************************)
(* Quantities: reservations and quantityLimitBlockReason.                  *)
(***************************************************************************)
LegsOf(a) == {a} \X Ranks

ReservedIn(legs) == MapThenSumSet(LAMBDA l : reserved[l], legs)

\* entryQuantityEnvelopeBlockReason: the attempt's own reservations are netted out.
EnvelopeFits(a) ==
  gross + ReservedIn(Legs \ LegsOf(a)) + Cardinality(Ranks) * Lot <= MaxGross

QuantityAllows(a) ==
  IF a \in posted THEN gross + ReservedIn(Legs) + Lot <= MaxGross ELSE EnvelopeFits(a)

\* entryBlockReason without a request, and canEnter.
EntryOpen == open /\ healthy /\ ~troubled /\ ~disposed

CanEnter(a) == EntryOpen /\ QuantityAllows(a)

\* queuedActionBlockReason of an entry leg.
QueuedAllows(a) ==
  EntryOpen /\ gross + ReservedIn(Legs) <= MaxGross /\ a \notin OverCapital

-----------------------------------------------------------------------------
(***************************************************************************)
(* The gate of an attempt.                                                 *)
(***************************************************************************)
\* ensureEntryTransportGate; a hedge declares its requirement as it registers.
Register(g, rank) == [g EXCEPT !.live = TRUE, !.registered = @ \cup {rank}]

\* Mutant of HedgesDecided: a SELL waits for every rank, its own included.
HedgesDecidedAll(g) == Ranks \subseteq g.decided

\* entryHedgesDecided, for a SELL.
HedgesDecided(g) == Hedges \subseteq g.decided

Parked(a) == {l \in LegsOf(a) : pc[l] = "parked"}

\* decideEntryTransportRank on the gate g of the leg's attempt, up to the wake:
\* the first decision of a rank stands, and so does its evidence.
Decide(g, rank, proof) ==
  IF ~g.live \/ rank \in g.decided THEN g
  ELSE [g EXCEPT !.decided = @ \cup {rank},
                 !.proof = IF rank \in Hedges THEN [@ EXCEPT ![rank] = proof] ELSE @]

\* Mutant of Woken: a decision wakes nobody.
WokenNever(a, g) == {}

\* wakeEntryTransportWaiters: the waiters a decision lets go.
Woken(a, g) == IF g.live /\ HedgesDecided(g) THEN Parked(a) ELSE {}

\* The gate goes when nobody waits and every registered rank is decided.
Collect(a, g) ==
  IF g.live /\ Parked(a) = Woken(a, g) /\ g.registered \subseteq g.decided THEN NoGate ELSE g

\* Mutant of Covered: a decided hedge counts, whatever it filled.
CoveredWhenDecided(a) == gate[a].live /\ Hedges \subseteq gate[a].decided

\* entryHedgeCoverageGap and HedgeCoverageLedger.claimCoverage: every hedge has
\* declared itself and is proven filled in full.
Covered(a) ==
  /\ gate[a].live
  /\ Hedges \subseteq gate[a].registered
  /\ \A h \in Hedges : gate[a].proof[h] >= Lot

-----------------------------------------------------------------------------
(***************************************************************************)
(* submit.  The gateway calls it for the ranks of an attempt in order.     *)
(***************************************************************************)
BeginAttempt(a) ==
  /\ Quiet
  /\ \A l \in LegsOf(a) : pc[l] = "idle"
  /\ tick' = <<a, 0>>
  /\ UNCHANGED <<pc, slot, queue, protective, entryAttempt, gate, posted, carried, reserved,
                 gross, held, open, healthy, troubled, disposed>>

NextOf(l) == IF l[2] = 3 THEN NoLeg ELSE <<l[1], l[2] + 1>>

SubmitAdmitted(l) ==
  /\ CanEnter(l[1])
  /\ gate' = [gate EXCEPT ![l[1]] = Register(@, l[2])]
  /\ reserved' = [reserved EXCEPT ![l] = Lot]
  /\ queue' = Append(queue, l)
  /\ pc' = [pc EXCEPT ![l] = "queued"]

SubmitRefused(l) ==
  /\ ~CanEnter(l[1])
  /\ LET g == Decide(Register(gate[l[1]], l[2]), l[2], Unproven)
     IN  /\ gate' = [gate EXCEPT ![l[1]] = Collect(l[1], g)]
         /\ pc' = [k \in Legs |-> IF k = l THEN "done"
                                  ELSE IF k \in Woken(l[1], g) THEN "turn" ELSE pc[k]]
  /\ UNCHANGED <<queue, reserved>>

SubmitLeg ==
  /\ tick # NoLeg
  /\ ~Pumpable
  /\ SubmitAdmitted(tick) \/ SubmitRefused(tick)
  /\ tick' = NextOf(tick)
  /\ UNCHANGED <<slot, protective, entryAttempt, posted, carried, gross, held, open, healthy,
                 troubled, disposed>>

-----------------------------------------------------------------------------
(***************************************************************************)
(* A leg is decided: the last step of execute (its finally), with the      *)
(* release of its slot and of its reservation.                             *)
(***************************************************************************)
Finish(l, state, proof, keep) ==
  LET g == Decide(gate[l[1]], l[2], proof)
  IN  /\ gate' = [gate EXCEPT ![l[1]] = Collect(l[1], g)]
      /\ pc' = [k \in Legs |-> IF k = l THEN state
                               ELSE IF k \in Woken(l[1], g) THEN "turn" ELSE pc[k]]
      /\ slot' = [slot EXCEPT ![l] = "none"]
      /\ entryAttempt' = EntryAttemptAfter(l)
      /\ reserved' = [reserved EXCEPT ![l] = keep]

(***************************************************************************)
(* pump: one queue head.                                                   *)
(***************************************************************************)
PumpProtective ==
  /\ Pumpable /\ protective.queued > 0
  /\ \/ protective' = [protective EXCEPT !.queued = @ - 1, !.busy = @ + 1]
     \/ protective' = [protective EXCEPT !.queued = @ - 1]     \* no longer allowed
  /\ UNCHANGED <<pc, slot, queue, entryAttempt, tick, gate, posted, carried, reserved, gross,
                 held, open, healthy, troubled, disposed>>

Dispatch(l) ==
  /\ QueuedAllows(l[1])
  /\ slot' = [slot EXCEPT ![l] = EntrySlot(l[1])]
  /\ entryAttempt' = l[1]
  /\ pc' = [pc EXCEPT ![l] = "create"]
  /\ UNCHANGED <<gate, reserved>>

\* Mutant of DropQueued: the reservation is not released.
DropQueuedKeeps(l) ==
  /\ ~QueuedAllows(l[1])
  /\ LET g == Decide(gate[l[1]], l[2], Unproven)
     IN  /\ gate' = [gate EXCEPT ![l[1]] = Collect(l[1], g)]
         /\ pc' = [k \in Legs |-> IF k = l THEN "done"
                                  ELSE IF k \in Woken(l[1], g) THEN "turn" ELSE pc[k]]
  /\ UNCHANGED <<slot, entryAttempt, reserved>>

DropQueued(l) ==
  /\ ~QueuedAllows(l[1])
  /\ LET g == Decide(gate[l[1]], l[2], Unproven)
     IN  /\ gate' = [gate EXCEPT ![l[1]] = Collect(l[1], g)]
         /\ pc' = [k \in Legs |-> IF k = l THEN "done"
                                  ELSE IF k \in Woken(l[1], g) THEN "turn" ELSE pc[k]]
  /\ reserved' = [reserved EXCEPT ![l] = 0]
  /\ UNCHANGED <<slot, entryAttempt>>

PumpEntry ==
  /\ Pumpable /\ protective.queued = 0
  /\ queue' = Tail(queue)
  /\ Dispatch(queue[1]) \/ DropQueued(queue[1])
  /\ UNCHANGED <<protective, tick, posted, carried, gross, held, open, healthy, troubled, disposed>>

-----------------------------------------------------------------------------
(***************************************************************************)
(* execute.                                                                *)
(***************************************************************************)
Refuse(l) ==
  /\ pc' = [pc EXCEPT ![l] = "refusing"]
  /\ UNCHANGED <<slot, entryAttempt, gate, reserved>>

\* The intent is inserted; the dequeue checkpoint, whose feed and account checks
\* may refuse any leg.
Created(l) ==
  /\ Quiet /\ pc[l] = "create"
  /\ healthy' = TRUE
  /\ \/ /\ (open /\ ~troubled /\ ~disposed /\ QuantityAllows(l[1]))
        /\ pc' = [pc EXCEPT ![l] = "claim"]
        /\ UNCHANGED <<slot, entryAttempt, gate, reserved>>
     \/ Refuse(l)
  /\ UNCHANGED <<queue, protective, tick, posted, carried, gross, held, open, troubled, disposed>>

\* The durable move to SUBMITTING; then the checkpoint after it and, for a SELL,
\* the wait for its turn.
Claimed(l) ==
  /\ Quiet /\ pc[l] = "claim"
  /\ \/ /\ CanEnter(l[1])
        /\ pc' = [pc EXCEPT ![l] =
                    IF l[2] \in Hedges \/ ~gate[l[1]].live \/ HedgesDecided(gate[l[1]])
                    THEN "turn" ELSE "parked"]
        /\ UNCHANGED <<slot, entryAttempt, gate, reserved>>
     \/ Refuse(l)
  /\ UNCHANGED <<queue, protective, tick, posted, carried, gross, held, open, healthy, troubled,
                 disposed>>

\* Another process advanced the row (at the claim, or when the refusal is
\* recorded): nothing is sent from here.
OtherOwner(l) ==
  /\ Quiet /\ pc[l] \in {"claim", "refusing"}
  /\ \E unknown \in BOOLEAN :
       /\ Finish(l, "done", Unproven, 0)
       /\ troubled' = (troubled \/ unknown)
  /\ UNCHANGED <<queue, protective, tick, posted, carried, gross, held, open, healthy, disposed>>

\* A database call of execute fails before anything was sent.
DatabaseFails(l) ==
  /\ Quiet /\ pc[l] \in {"create", "claim", "refusing"}
  /\ Finish(l, "done", Unproven, 0)
  /\ healthy' = FALSE
  /\ \E trips \in BOOLEAN : troubled' = (troubled \/ trips)
  /\ UNCHANGED <<queue, protective, tick, posted, carried, gross, held, open, disposed>>

\* persistLocalPreSubmitRefusal has recorded the refusal.
RefusalRecorded(l) ==
  /\ Quiet /\ pc[l] = "refusing"
  /\ Finish(l, "done", Unproven, 0)
  /\ UNCHANGED <<queue, protective, tick, posted, carried, gross, held, open, healthy, troubled,
                 disposed>>

\* The callback the adapter runs right before the POST, then the adapter's own
\* placement budget, which may still refuse: the attempt already counts as posted.
BeforePost(l) ==
  /\ Quiet /\ pc[l] = "turn"
  /\ \/ /\ CanEnter(l[1])
        /\ l[2] \notin Hedges => Covered(l[1])
        /\ pc' = [pc EXCEPT ![l] = "sent"]
        /\ posted' = posted \cup {l[1]}
        /\ UNCHANGED <<slot, entryAttempt, gate, reserved>>
     \/ /\ CanEnter(l[1])
        /\ l[2] \notin Hedges => Covered(l[1])
        /\ Refuse(l)
        /\ posted' = posted \cup {l[1]}
     \/ Refuse(l) /\ UNCHANGED posted
  /\ UNCHANGED <<queue, carried, protective, tick, gross, held, open, healthy, troubled, disposed>>

(***************************************************************************)
(* How a POST ends.  f is what the broker has filled by then.              *)
(***************************************************************************)
\* Mutant of Attributed: the fill is recorded but not attributed.
AttributedNothing(f) == gross

\* persistOrder: the durable fill delta joins the attributed positions.
Attributed(f) == gross + f

\* Mutant of Unfilled: a fill does not reduce the reservation.
UnfilledWhole(g) == Lot

\* reduceReservationByFill: what stays reserved once a fill of g is attributed.
Unfilled(g) == Lot - g

Final(l, f) ==
  /\ Quiet /\ pc[l] = "sent"
  /\ held' = [held EXCEPT ![l] = f]
  /\ gross' = Attributed(f)
  /\ healthy' = TRUE
  /\ Finish(l, "done", f, 0)
  /\ \E trips \in (IF f = 0 THEN BOOLEAN ELSE {FALSE}) : troubled' = (troubled \/ trips)
  /\ UNCHANGED <<queue, protective, tick, posted, carried, open, disposed>>

\* The answer came, its record failed: with a fill the breaker trips.
Unrecorded(l, f) ==
  /\ Quiet /\ pc[l] = "sent"
  /\ held' = [held EXCEPT ![l] = f]
  /\ healthy' = FALSE
  /\ \E trips \in BOOLEAN : troubled' = (troubled \/ trips \/ f > 0)
  /\ Finish(l, "done", Unproven, 0)
  /\ UNCHANGED <<queue, protective, tick, posted, carried, gross, open, disposed>>

\* An ambiguous submission: quarantined as RECONCILIATION_REQUIRED with the part g
\* of the fill the answer proves, its reservation kept for the rest; or, when even
\* that record fails, reported as unknown with nothing kept.
Ambiguous(l, f, g) ==
  /\ Quiet /\ pc[l] = "sent"
  /\ held' = [held EXCEPT ![l] = f]
  /\ troubled' = TRUE
  /\ \/ /\ gross' = Attributed(g)
        /\ healthy' = TRUE
        /\ Finish(l, "working", Unproven, Unfilled(g))
     \/ /\ g = 0
        /\ gross' = gross
        /\ healthy' = FALSE
        /\ Finish(l, "working", Unproven, 0)
  /\ UNCHANGED <<queue, protective, tick, posted, carried, open, disposed>>

\* The protective cancel could not be sent (unattendedWorkingOrders): recorded
\* with its fill, its reservation released although the order still works.  A
\* failed record leaves through the outer catch, before the order is counted.
Unattended(l, f) ==
  /\ Quiet /\ pc[l] = "sent"
  /\ held' = [held EXCEPT ![l] = f]
  /\ \/ gross' = Attributed(f) /\ healthy' = TRUE /\ troubled' = TRUE
     \/ /\ CancelRecordFails
        /\ gross' = gross
        /\ healthy' = FALSE
        /\ \E trips \in BOOLEAN : troubled' = (troubled \/ trips \/ f > 0)
  /\ Finish(l, "working", Unproven, 0)
  /\ UNCHANGED <<queue, protective, tick, posted, carried, open, disposed>>

\* The broker goes on filling an order nobody reported final.
FillsLate(l) ==
  /\ Quiet /\ pc[l] = "working" /\ held[l] < Lot
  /\ held' = [held EXCEPT ![l] = @ + 1]
  /\ UNCHANGED <<pc, slot, queue, protective, entryAttempt, tick, gate, posted, carried, reserved,
                 gross, open, healthy, troubled, disposed>>

-----------------------------------------------------------------------------
(***************************************************************************)
(* Protective work, the outside conditions, dispose.                       *)
(***************************************************************************)
SubmitProtective ==
  /\ Quiet /\ ~disposed /\ protective.made < MaxProtective
  /\ protective' = [protective EXCEPT !.made = @ + 1, !.queued = @ + 1]
  /\ UNCHANGED <<pc, slot, queue, entryAttempt, tick, gate, posted, carried, reserved, gross,
                 held, open, healthy, troubled, disposed>>

ProtectiveEnds ==
  /\ Quiet /\ protective.busy > 0
  /\ protective' = [protective EXCEPT !.busy = @ - 1]
  /\ UNCHANGED <<pc, slot, queue, entryAttempt, tick, gate, posted, carried, reserved, gross,
                 held, open, healthy, troubled, disposed>>

\* Opening needs a callback, except for a feed warm-up that simply runs out.
OutsideChanges ==
  /\ ~Pumpable
  /\ open \/ tick = NoLeg \/ OpensInTick
  /\ open' = ~open
  /\ UNCHANGED <<pc, slot, queue, protective, entryAttempt, tick, gate, posted, carried, reserved,
                 gross, held, healthy, troubled, disposed>>

\* drainEntryTransportGates, then the queue is rejected.
Dispose ==
  /\ Quiet /\ ~disposed
  /\ disposed' = TRUE
  /\ gate' = [a \in Attempts |-> NoGate]
  /\ queue' = <<>>
  /\ pc' = [l \in Legs |-> IF pc[l] = "parked" THEN "turn"
                           ELSE IF pc[l] = "queued" THEN "done" ELSE pc[l]]
  /\ reserved' = [l \in Legs |-> IF pc[l] = "queued" THEN 0 ELSE reserved[l]]
  /\ protective' = [protective EXCEPT !.queued = 0]
  /\ UNCHANGED <<slot, entryAttempt, tick, posted, carried, gross, held, open, healthy, troubled>>

-----------------------------------------------------------------------------
(***************************************************************************)
(* How the manager moves.  An adapter that answers is one of a live broker:*)
(* it returns an order only when its state is final.                       *)
(***************************************************************************)
Outcome(l) ==
  \E f \in 0 .. Lot :
    \/ Final(l, f)
    \/ Unrecorded(l, f)
    \/ Unattended(l, f)
    \/ \E g \in 0 .. f : Ambiguous(l, f, g)

Runs(l) ==
  \/ Created(l) \/ Claimed(l) \/ BeforePost(l) \/ RefusalRecorded(l)
  \/ OtherOwner(l) \/ DatabaseFails(l) \/ Outcome(l)

Pump == PumpProtective \/ PumpEntry

\* What the event loop owes: synchronous runs go on and awaited calls return.
Progress == SubmitLeg \/ Pump \/ ProtectiveEnds \/ \E l \in Legs : Runs(l)

Next ==
  \/ \E a \in Attempts : BeginAttempt(a)
  \/ Progress
  \/ \E l \in Legs : FillsLate(l)
  \/ SubmitProtective
  \/ OutsideChanges
  \/ Dispose

\* The loop never stalls for good: the database client and the adapter bound
\* their calls in time.  No fairness towards any single leg is assumed.
Fairness == WF_vars(Progress)

Spec == Init /\ [][Next]_vars

FairSpec == Spec /\ Fairness

-----------------------------------------------------------------------------
(***************************************************************************)
(* Properties.                                                             *)
(***************************************************************************)
Pcs == {"idle", "queued"} \cup InFlight \cup Settled

Gates == [live : BOOLEAN, registered : SUBSET Ranks, decided : SUBSET Ranks,
          proof : [Hedges -> {Unproven} \cup 0 .. Lot]]

\* The type of the state; a leg in flight is a leg with a slot.
TypeOK ==
  /\ pc \in [Legs -> Pcs]
  /\ slot \in [Legs -> {"none", "base", "burst"}]
  /\ queue \in Seq(Legs)
  /\ protective \in [made : Nat, queued : Nat, busy : Nat]
  /\ entryAttempt \in Attempts \cup {NoAttempt}
  /\ tick \in Legs \cup {NoLeg}
  /\ gate \in [Attempts -> Gates]
  /\ posted \subseteq Attempts
  /\ reserved \in [Legs -> 0 .. Lot]
  /\ carried \in Nat /\ gross \in Nat
  /\ held \in [Legs -> 0 .. Lot]
  /\ open \in BOOLEAN /\ healthy \in BOOLEAN /\ troubled \in BOOLEAN
  /\ disposed \in BOOLEAN

\* Once the POST of a SELL has begun, every BUY that hedges it is filled in full
\* at the broker: not merely sent, answered, or reported final with less.  This is
\* what the gate, its evidence ledger and the check before the POST are for.
HedgedSell ==
  \A a \in Attempts, r \in Ranks \ Hedges :
    pc[<<a, r>>] = "sent" \/ held[<<a, r>>] > 0
      => \A h \in Hedges : held[<<a, h>>] = Lot

\* Legs of two attempts are never in flight together (admitBoxOperation), however
\* releases, refusals at the head of the queue and parked legs interleave.
OnePipeline ==
  \A k, l \in Legs : slot[k] # "none" /\ slot[l] # "none" => k[1] = l[1]

\* With what earlier boxes hold, the broker never fills more entry quantity than the gross
\* cap: also when fills arrive after an ambiguous answer or for an order left working, and
\* when the second attempt is admitted while the first is still being accounted.
GrossWithinCap ==
  LET filled == MapThenSumSet(LAMBDA l : held[l], Legs)
  IN  filled > 0 => carried + filled <= MaxGross

\* Once a leg of an attempt is admitted, the cap has room for it beside everything else that
\* is attributed or reserved, until it is sent: "no hedge is acquired against a cap the
\* attempt cannot satisfy" (entryQuantityEnvelopeBlockReason).  The check before the POST
\* does not always see that room, see SiblingsAdmitted.
EnvelopeHonoured ==
  \A l \in Legs : pc[l] \in {"queued", "create", "claim", "parked", "turn"} =>
    gross + ReservedIn(Legs \ {l}) + Lot <= MaxGross

\* Once a leg of an attempt has reached the broker the quantity check goes on admitting its
\* siblings.  A cap of exactly four lots refutes it: the check of a posted attempt counts
\* the leg's own reservation and asks for its lot once more (quantityLimitBlockReason).
SiblingsAdmitted ==
  \A a \in posted :
    (\E l \in LegsOf(a) : pc[l] \in {"create", "claim", "parked", "turn"}) => QuantityAllows(a)

\* A reservation outlives its leg only while the outcome is unknown: capacity of
\* the gross cap never leaks through a refusal, a failed call or dispose.
NoLeakedReservation ==
  \A l \in Legs : reserved[l] > 0 => pc[l] \in {"queued", "working"} \cup InFlight

\* While an order may still be alive at the broker with nobody waiting for it,
\* entry is closed ("counted as an unattended working order - which already
\* blocks new entry", execute).
UnattendedBlocksEntry == (\E l \in Legs : pc[l] = "working") => ~EntryOpen

\* The manager always gets back to a state with no leg queued or in flight (a
\* leg that settled never starts again): no SELL stays parked, no leg waits for
\* ever behind another attempt or behind protective work.  "A rank that failed to
\* release would leave its dependent uncovered SELL parked forever" (execute).
LegsSettle == []<>(\A l \in Legs : pc[l] \in {"idle"} \cup Settled)

\* Protective work always gets its turn, also when parked SELLs hold every slot.
ProtectiveFlows == []<>(protective.queued = 0)
=============================================================================
