--------------------------- MODULE ResidualFlatten ---------------------------
(***************************************************************************)
(* How a residual (legs of a box that were filled and are not wanted) is   *)
(* flattened: the engine's watchdog (engine.ts flattenResiduals), the pass *)
(* of the gateway over the legs (executionGateway.ts flattenResidual,      *)
(* flattenOneResidual), the identity of each attempt (residualFlatten.ts)  *)
(* and the versioned projection of the result (applyBoxExecutionAttempt-   *)
(* Projection).                                                            *)
(*                                                                         *)
(* Every attempt at a leg is a generation, with its own client order id,   *)
(* its own row in the journal of intents and at most one broker order.  A  *)
(* pass decides for each leg whether the next pass keeps the generation or *)
(* retires it, credits what the broker filled beyond the generation's      *)
(* watermark, and writes quantity, generation and watermark at once.       *)
(*                                                                         *)
(* A step is what a process does between two awaits.  The rows of the      *)
(* journal are followed only as far as a pass can tell them apart: how a   *)
(* row merges evidence is OrderIntents, who may hold the lease             *)
(* ExecutionLease.  Charges, which follow the fills, are left out.         *)
(***************************************************************************)
EXTENDS Integers, FiniteSets, FiniteSetsExt

CONSTANTS Procs,                   \* processes that hold the residual in memory
          Shorts,                  \* legs that were sold: flattened by a BUY
          Longs,                   \* legs that were bought: the cover
          Quantity,                \* the residual quantity of each leg
          Prices,                  \* touches the book may show
          MaxRejections,           \* MAX_RESIDUAL_BROKER_REJECTIONS
          MaxGeneration,           \* bound: generations of a leg
          MaxPasses,               \* bound: passes of a behaviour
          MaxDisruptions           \* bound: restarts and moves of the lease

Legs == Shorts \cup Longs

ASSUME ResidualConstants ==
  /\ Shorts \cap Longs = {}
  /\ IsFiniteSet(Legs)
  /\ Quantity \in [Legs -> Nat \ {0}]
  /\ MaxRejections \in Nat \ {0}
  /\ MaxGeneration \in Nat \ {0}
  /\ MaxPasses \in Nat
  /\ MaxDisruptions \in Nat

VARIABLES order,                   \* the broker's order of each generation
          intent,                  \* box_order_intents: its durable row
          attempt,                 \* box_execution_attempts: the durable residual
          memory,                  \* residualByAttempt, residualProjectionVersion
          pending,                 \* pendingResidualPersists
          pass,                    \* the pass under way in each process
          owner,                   \* the process whose POST the lease allows
          conflicts,               \* history: the generations whose row a pass found to be
                                   \* for another request
          passes,                  \* passes begun
          disruptions              \* restarts and moves of the lease so far

vars == <<order, intent, attempt, memory, pending, pass, owner, conflicts, passes,
          disruptions>>

Generations == 1 .. MaxGeneration

Absent == -1                       \* flatten_accounted_filled is not set

Terminal == {"COMPLETE", "CANCELLED", "REJECTED"}

NoOrder == [state |-> "none", filled |-> 0]

\* SUBMITTING stands for every state from the claim on that is not final; LOCAL
\* is a REJECTED row that hasDurableLocalNoPostProvenance recognises.
NoIntent == [state |-> "none", filled |-> 0, quantity |-> 0, price |-> 0]

Gone == [quantity |-> 0, generation |-> 1, accounted |-> Absent, rejections |-> 0]

NoCommand == [version |-> -1]

Undecided == [decided |-> FALSE]

NoPass == [at |-> "idle"]

NewPass == [at |-> "leg", results |-> [l \in Legs |-> Undecided]]

Init ==
  /\ order = [l \in Legs |-> [g \in Generations |-> NoOrder]]
  /\ intent = [l \in Legs |-> [g \in Generations |-> NoIntent]]
  /\ attempt = [version |-> 0,
                residual |-> [l \in Legs |-> [Gone EXCEPT !.quantity = Quantity[l]]]]
  /\ memory = [p \in Procs |-> attempt]
  /\ pending = [p \in Procs |-> NoCommand]
  /\ pass = [p \in Procs |-> NoPass]
  /\ owner \in Procs
  /\ conflicts = [l \in Legs |-> {}]
  /\ passes = 0
  /\ disruptions = 0

Residual(p, l) == memory[p].residual[l]

\* What the broker has filled against a leg, and what is left of it there.
Reduced(l) == MapThenSumSet(LAMBDA g : order[l][g].filled, Generations)

Exposure(l) == Quantity[l] - Reduced(l)

\* attributedBoxPositions, which follows the fills the journal recorded.
Attributed(l) ==
  Quantity[l] - MapThenSumSet(LAMBDA g : intent[l][g].filled, Generations)

-----------------------------------------------------------------------------
(***************************************************************************)
(* The watchdog: which pass may begin, and the retry of a projection.      *)
(***************************************************************************)
Outstanding(p, legs) == {l \in legs : Residual(p, l).quantity > 0}

\* Mutant of Exhausted: one rejection too many.
ExhaustedLate(residual) == residual.rejections > MaxRejections

\* residualRejectionBudgetExhausted.
Exhausted(residual) == residual.rejections >= MaxRejections

\* flattenResiduals up to flattenResidual, for the one attempt there is.
Tick(p) ==
  /\ pass[p] = NoPass
  /\ pending[p] = NoCommand
  /\ passes < MaxPasses
  /\ Outstanding(p, Legs) # {}
  /\ \A l \in Outstanding(p, Legs) : ~Exhausted(Residual(p, l))
  /\ \A l \in Outstanding(p, Legs) : Residual(p, l).generation \in Generations
  /\ pass' = [pass EXCEPT ![p] = NewPass]
  /\ passes' = passes + 1
  /\ UNCHANGED <<order, intent, attempt, memory, pending, owner, conflicts, disruptions>>

-----------------------------------------------------------------------------
(***************************************************************************)
(* flattenOneResidual: one attempt at one leg.                             *)
(***************************************************************************)
Decided(p, l) == pass[p].results[l].decided

\* A short whose attempt in this pass did not come to "flattened".
Unresolved(p) ==
  {s \in Outstanding(p, Shorts) : pass[p].results[s].disposition # "flattened"}

\* Shorts first; a long's turn comes when every short has been tried.
Turn(p, l) ==
  /\ pass[p].at = "leg"
  /\ l \in Outstanding(p, Legs)
  /\ ~Decided(p, l)
  /\ l \in Longs => \A s \in Outstanding(p, Shorts) : Decided(p, s)

\* Mutant of CoverMustBeHeld: the longs are tried after the shorts, whatever came of them.
CoverMustBeHeldNever(p, l) == FALSE

CoverMustBeHeld(p, l) == l \in Longs /\ Unresolved(p) # {}

\* reuse_attempt and adopt_attempt both keep the generation: "keep".
Result(g, seen, disposition) ==
  [decided |-> TRUE, generation |-> g, order |-> seen, disposition |-> disposition]

Unseen == [state |-> "none", filled |-> 0, quantity |-> 0]

Decide(p, l, result) ==
  pass' = [pass EXCEPT ![p] = [at |-> "leg", results |-> [@.results EXCEPT ![l] = result]]]

\* Mutant of Disposition: an order that may still fill is retired.
DispositionUncertain(state, filled, requested) ==
  IF state \in {"COMPLETE", "CANCELLED"} /\ filled >= requested THEN "flattened" ELSE "retire"

\* classifyResidualOrder: what an order in this state means for its generation.
Disposition(state, filled, requested) ==
  CASE state \notin Terminal -> "keep"
    [] state = "REJECTED" -> "retire"
    [] OTHER -> IF filled >= requested THEN "flattened" ELSE "retire"

\* hedge_cover_retained: the generation is untouched.
HoldCover(p, l) ==
  /\ Turn(p, l)
  /\ CoverMustBeHeld(p, l)
  /\ Decide(p, l, Result(Residual(p, l).generation, Unseen, "keep"))
  /\ UNCHANGED <<order, intent, attempt, memory, pending, owner, conflicts, passes, disruptions>>

\* The generations firstAdoptableResidualAttempt may look at: those that follow
\* only local refusals.  It stops at one that is not, or where the read fails.
Probed(p, l) ==
  LET first == Residual(p, l).generation IN
  {g \in Generations : g >= first /\ \A h \in first .. g - 1 : intent[l][h].state = "LOCAL"}

\* An order that has ended is replayed from its row, before the book is looked at.
Replay(p, l) ==
  /\ Turn(p, l)
  /\ ~CoverMustBeHeld(p, l)
  /\ \E g \in Probed(p, l) :
       LET row == intent[l][g] IN
       /\ row.state \in Terminal
       /\ Decide(p, l, Result(g, [state |-> row.state, filled |-> row.filled,
                                  quantity |-> row.quantity],
                              Disposition(row.state, row.filled, Residual(p, l).quantity)))
  /\ UNCHANGED <<order, intent, attempt, memory, pending, owner, conflicts, passes, disruptions>>

\* quantityLimitBlockReason of a reduction.
WithinAttributed(p, l) == Residual(p, l).quantity <= Attributed(l)

\* no_executable_book, gate_refused, or a reduction beyond the attributed
\* position: nothing is sent.
Withhold(p, l) ==
  /\ Turn(p, l)
  /\ ~CoverMustBeHeld(p, l)
  /\ \E g \in Probed(p, l) : Decide(p, l, Result(g, Unseen, "keep"))
  /\ UNCHANGED <<order, intent, attempt, memory, pending, owner, conflicts, passes, disruptions>>

\* The book shows a touch and the order manager takes the request.
Submit(p, l) ==
  /\ Turn(p, l)
  /\ ~CoverMustBeHeld(p, l)
  /\ WithinAttributed(p, l)
  /\ \E g \in Probed(p, l), x \in Prices :
       pass' = [pass EXCEPT ![p] = [at |-> "create", leg |-> l, generation |-> g,
                                    price |-> x, results |-> @.results]]
  /\ UNCHANGED <<order, intent, attempt, memory, pending, owner, conflicts, passes, disruptions>>

Leg(p) == pass[p].leg

Gen(p) == pass[p].generation

At(p, step) == pass[p].at = step

MoveTo(p, step) == pass' = [pass EXCEPT ![p].at = step]

Requested(p) == Residual(p, Leg(p)).quantity

\* assertIntentImmutableMatch.
ImmutableMatch(row, quantity, price) == row.quantity = quantity /\ row.price = price

\* createBoxOrderIntent: inserts the row, or finds the one of an earlier pass.
Create(p) ==
  /\ At(p, "create")
  /\ LET l == Leg(p)  g == Gen(p)  row == intent[l][g] IN
     IF row = NoIntent
     THEN /\ intent' = [intent EXCEPT ![l][g] =
               [state |-> "CREATED", filled |-> 0, quantity |-> Requested(p),
                price |-> pass[p].price]]
          /\ MoveTo(p, "claim")
          /\ UNCHANGED conflicts
     ELSE /\ IF ~ImmutableMatch(row, Requested(p), pass[p].price)
             THEN /\ Decide(p, l, Result(g, Unseen, "retire"))     \* identity_conflict
                  /\ conflicts' = [conflicts EXCEPT ![l] = @ \cup {g}]
             ELSE /\ MoveTo(p, IF row.state = "CREATED" THEN "claim" ELSE "await")
                  /\ UNCHANGED conflicts
          /\ UNCHANGED intent
  /\ UNCHANGED <<order, attempt, memory, pending, owner, passes, disruptions>>

\* The insert fails: an unclassified fault keeps the generation.
CreateFails(p) ==
  /\ At(p, "create")
  /\ Decide(p, Leg(p), Result(Gen(p), Unseen, "keep"))
  /\ UNCHANGED <<order, intent, attempt, memory, pending, owner, conflicts, passes, disruptions>>

\* CREATED -> SUBMITTING, or another process has advanced the row.
Claim(p) ==
  /\ At(p, "claim")
  /\ LET l == Leg(p)  g == Gen(p) IN
     IF intent[l][g].state = "CREATED"
     THEN /\ intent' = [intent EXCEPT ![l][g].state = "SUBMITTING"]
          /\ MoveTo(p, "post")
     ELSE UNCHANGED intent /\ MoveTo(p, "await")
  /\ UNCHANGED <<order, attempt, memory, pending, owner, conflicts, passes, disruptions>>

\* persistLocalPreSubmitRefusal, at dequeue or right before the POST: the feed
\* has changed or the lease is lost.
Refuse(p) ==
  /\ \/ At(p, "claim") /\ intent[Leg(p)][Gen(p)].state = "CREATED"
     \/ At(p, "post")
  /\ intent' = [intent EXCEPT ![Leg(p)][Gen(p)].state = "LOCAL"]
  /\ Decide(p, Leg(p), Result(Gen(p), Unseen, "retire"))
  /\ UNCHANGED <<order, attempt, memory, pending, owner, conflicts, passes, disruptions>>

\* The POST: the broker has the order, or the request is lost on the way.
Post(p) ==
  /\ At(p, "post")
  /\ owner = p
  /\ \/ order' = [order EXCEPT ![Leg(p)][Gen(p)].state = "live"]
     \/ UNCHANGED order
  /\ MoveTo(p, "await")
  /\ UNCHANGED <<intent, attempt, memory, pending, owner, conflicts, passes, disruptions>>

\* The row once the evidence of the broker's order is recorded.
Recorded(row, o) ==
  [row EXCEPT !.state = IF o.state \in Terminal THEN o.state ELSE @, !.filled = o.filled]

Snapshot(l, g) == [state |-> order[l][g].state, filled |-> order[l][g].filled,
                   quantity |-> intent[l][g].quantity]

\* The order manager's answer, or what getOrder finds for a row of an earlier
\* submission: recorded, then classified.  No order is found for a lost
\* request, and an uncertain answer may carry no order.
Answer(p) ==
  /\ At(p, "await")
  /\ LET l == Leg(p)  g == Gen(p)  o == order[l][g] IN
     \/ /\ o.state # "none"
        /\ intent' = [intent EXCEPT ![l][g] = Recorded(@, o)]
        /\ Decide(p, l, Result(g, Snapshot(l, g), Disposition(o.state, o.filled, Requested(p))))
     \/ /\ o.state \notin Terminal
        /\ Decide(p, l, Result(g, Unseen, "keep"))
        /\ UNCHANGED intent
  /\ UNCHANGED <<order, attempt, memory, pending, owner, conflicts, passes, disruptions>>

\* The answer cannot be recorded: persistence_after_fill credits the fill, any
\* other fault leaves it to a later pass.
AnswerNotRecorded(p) ==
  /\ At(p, "await")
  /\ LET l == Leg(p)  g == Gen(p)  o == order[l][g] IN
     /\ o.state # "none"
     /\ Decide(p, l, Result(g, IF o.filled > 0 THEN Snapshot(l, g) ELSE Unseen, "keep"))
  /\ UNCHANGED <<order, intent, attempt, memory, pending, owner, conflicts, passes, disruptions>>

-----------------------------------------------------------------------------
(***************************************************************************)
(* The end of a pass: what it credits, and the projection.                 *)
(***************************************************************************)
\* Mutant of Accounted: the watermark is forgotten.
AccountedNothing(r, result) == 0

\* The part of an order's fill that the residual has already been credited with.
Accounted(r, result) ==
  IF result.generation = r.generation /\ r.accounted # Absent
  THEN r.accounted
  ELSE Max({0, result.order.quantity - r.quantity})

\* The fill to credit; none if the order shows less than was credited before.
Credit(r, result) ==
  LET delta == result.order.filled - Accounted(r, result) IN
  IF result.order = Unseen \/ delta < 0 \/ delta > r.quantity THEN 0 ELSE delta

\* A cumulative fill that regressed, or exceeds the exposure, is quarantined.
Trusted(r, result) ==
  result.order = Unseen \/ result.order.filled - Accounted(r, result) \in 0 .. r.quantity

\* carryResidualForward.
CarryForward(r, result) ==
  LET credit == Credit(r, result)
      retires == Trusted(r, result) /\ result.disposition = "retire"
      watermark == IF result.order = Unseen THEN r.accounted
                   ELSE Accounted(r, result) + credit
  IN IF credit = r.quantity THEN Gone
     ELSE [quantity |-> r.quantity - credit,
           generation |-> IF retires THEN result.generation + 1 ELSE result.generation,
           accounted |-> IF retires THEN 0 ELSE watermark,
           rejections |-> (IF credit > 0 THEN 0 ELSE r.rejections) +
                          (IF result.order.state = "REJECTED" THEN 1 ELSE 0)]

\* createResidualProjectionCommand, from the memory the pass began with.
Command(p) ==
  [version |-> memory[p].version,
   from |-> memory[p].residual,
   to |-> [l \in Legs |-> IF l \in Outstanding(p, Legs)
                          THEN CarryForward(Residual(p, l), pass[p].results[l]) ELSE Gone]]

\* residualProjectionIdentity: the watermarks are not part of it.
Identity(residual) ==
  [l \in Legs |-> <<residual[l].quantity, residual[l].generation, residual[l].rejections>>]

Finished(p) == pass[p].at = "leg" /\ \A l \in Outstanding(p, Legs) : Decided(p, l)

\* applyBoxExecutionAttemptProjection.  A command that was applied before and
\* one that lost to another writer both leave the row alone and are answered
\* with it.
Apply(command) ==
  IF attempt.version = command.version /\ Identity(attempt.residual) = Identity(command.from)
  THEN [version |-> attempt.version + 1, residual |-> command.to]
  ELSE attempt

\* residualProjectionChanges is false: nothing is written.
NothingToProject(p) ==
  /\ Finished(p)
  /\ Identity(Command(p).to) = Identity(Command(p).from)
  /\ pass' = [pass EXCEPT ![p] = NoPass]
  /\ UNCHANGED <<order, intent, attempt, memory, pending, owner, conflicts, passes, disruptions>>

\* persistResidualProjection: applied and acknowledged; applied, the
\* acknowledgement lost; or not applied.
Project(p) ==
  /\ Finished(p)
  /\ LET command == Command(p) IN
     /\ Identity(command.to) # Identity(command.from)
     /\ \/ /\ attempt' = Apply(command)
           /\ memory' = [memory EXCEPT ![p] = attempt']
           /\ UNCHANGED pending
        \/ /\ attempt' \in {attempt, Apply(command)}
           /\ pending' = [pending EXCEPT ![p] = command]
           /\ UNCHANGED memory
  /\ pass' = [pass EXCEPT ![p] = NoPass]
  /\ UNCHANGED <<order, intent, owner, conflicts, passes, disruptions>>

\* The retry of a projection, with the same command; it may fail again, before
\* or after the commit.
Retry(p) ==
  /\ pass[p] = NoPass
  /\ pending[p] # NoCommand
  /\ attempt' = Apply(pending[p])
  /\ \/ /\ memory' = [memory EXCEPT ![p] = attempt']
        /\ pending' = [pending EXCEPT ![p] = NoCommand]
     \/ UNCHANGED <<memory, pending>>
  /\ UNCHANGED <<order, intent, pass, owner, conflicts, passes, disruptions>>

-----------------------------------------------------------------------------
(***************************************************************************)
(* The broker, the periodic reconciliation, restarts and the lease.        *)
(***************************************************************************)
Fill(l, g) ==
  /\ order[l][g].state = "live"
  /\ LET n == order[l][g].filled + 1 IN
     order' = [order EXCEPT ![l][g] =
       [state |-> IF n = intent[l][g].quantity THEN "COMPLETE" ELSE "live", filled |-> n]]
  /\ UNCHANGED <<intent, attempt, memory, pending, pass, owner, conflicts, passes, disruptions>>

\* A limit order may be cancelled part-filled, or refused unfilled.
End(l, g) ==
  /\ order[l][g].state = "live"
  /\ \E s \in {"CANCELLED"} \cup (IF order[l][g].filled = 0 THEN {"REJECTED"} ELSE {}) :
       order' = [order EXCEPT ![l][g].state = s]
  /\ UNCHANGED <<intent, attempt, memory, pending, pass, owner, conflicts, passes, disruptions>>

\* performReconcile, for one row.
Reconcile(l, g) ==
  /\ order[l][g].state # "none"
  /\ intent' = [intent EXCEPT ![l][g] = Recorded(@, order[l][g])]
  /\ intent' # intent
  /\ UNCHANGED <<order, attempt, memory, pending, pass, owner, conflicts, passes, disruptions>>

\* reconcileResidualExposure: a restart reads the durable residual.
Restart(p) ==
  /\ disruptions < MaxDisruptions
  /\ disruptions' = disruptions + 1
  /\ pass' = [pass EXCEPT ![p] = NoPass]
  /\ pending' = [pending EXCEPT ![p] = NoCommand]
  /\ memory' = [memory EXCEPT ![p] = attempt]
  /\ UNCHANGED <<order, intent, attempt, owner, conflicts, passes>>

LeaseMoves ==
  /\ disruptions < MaxDisruptions
  /\ disruptions' = disruptions + 1
  /\ owner' \in Procs \ {owner}
  /\ UNCHANGED <<order, intent, attempt, memory, pending, pass, conflicts, passes>>

OnePass(p) ==
  \/ Tick(p)
  \/ \E l \in Legs : HoldCover(p, l) \/ Replay(p, l) \/ Withhold(p, l) \/ Submit(p, l)
  \/ Create(p)
  \/ CreateFails(p)
  \/ Claim(p)
  \/ Refuse(p)
  \/ Post(p)
  \/ Answer(p)
  \/ AnswerNotRecorded(p)
  \/ NothingToProject(p)
  \/ Project(p)
  \/ Retry(p)

Next ==
  \/ \E p \in Procs : OnePass(p) \/ Restart(p)
  \/ LeaseMoves
  \/ \E l \in Legs, g \in Generations : Fill(l, g) \/ End(l, g) \/ Reconcile(l, g)

Spec == Init /\ [][Next]_vars

-----------------------------------------------------------------------------
(***************************************************************************)
(* Properties.                                                             *)
(***************************************************************************)
\* What an order, or the row of its intent, shows of itself.
Seen == [state : {"none", "live"} \cup Terminal, filled : Nat, quantity : Nat]

ResidualLeg == [quantity : Nat, generation : Nat \ {0}, accounted : Nat \cup {Absent},
                rejections : Nat]

Residuals == [version : Nat, residual : [Legs -> ResidualLeg]]

BrokerOrder == [state : {"none", "live"} \cup Terminal, filled : Nat]

IntentRow == [state : {"none", "CREATED", "SUBMITTING", "LOCAL"} \cup Terminal, filled : Nat,
              quantity : Nat, price : Prices \cup {0}]

ProjectionCommand == [version : Nat, from : [Legs -> ResidualLeg], to : [Legs -> ResidualLeg]]

Decision == [decided : {TRUE}, generation : Generations, order : Seen,
             disposition : {"flattened", "retire", "keep"}]

Verdicts == [Legs -> {Undecided} \cup Decision]

AtLeg == [at : {"leg"}, results : Verdicts]

InLeg == [at : {"create", "claim", "post", "await"}, leg : Legs, generation : Generations,
          price : Prices, results : Verdicts]

\* The types of what the program and the broker keep.
SystemTypeOK ==
  /\ order \in [Legs -> [Generations -> BrokerOrder]]
  /\ intent \in [Legs -> [Generations -> IntentRow]]
  /\ attempt \in Residuals
  /\ memory \in [Procs -> Residuals]
  /\ pending \in [Procs -> {NoCommand} \cup ProjectionCommand]
  /\ pass \in [Procs -> {NoPass} \cup AtLeg \cup InLeg]
  /\ owner \in Procs
  /\ passes \in 0 .. MaxPasses
  /\ disruptions \in 0 .. MaxDisruptions

\* TypeOK (type correctness).
TypeOK == SystemTypeOK /\ conflicts \in [Legs -> SUBSET Generations]

\* NeverUnderstated (safety): the durable residual of a leg is never smaller
\* than what is left of it at the broker, so no exposure drops out of the books:
\* each unit the broker filled is credited at most once, over replays, restarts,
\* lost acknowledgements and two processes (the watermarks of flattenResidual
\* and the version check of applyBoxExecutionAttemptProjection).
NeverUnderstated == \A l \in Legs : attempt.residual[l].quantity >= Exposure(l)

\* LeftOnlyByConflict (safety): while an order may still fill, no later generation
\* reaches the broker, unless a pass found the row of the earlier one to be for another
\* request: "may advance the generation; nothing else may" (residualFlatten.ts:338), over
\* lost answers, restarts and two processes.  The exception is the ordinary case of a
\* touch that has moved, or of a part-filled order: then a conflict leaves the live order
\* behind, and a second reduction does go out (OneLiveReduction).
LeftOnlyByConflict ==
  \A l \in Legs : \A g, h \in Generations :
    g < h /\ order[l][g].state = "live" /\ order[l][h].state # "none" => g \in conflicts[l]

\* The orders of a leg the broker refused since it last filled one.
RefusedInARow(l) ==
  {g \in Generations : /\ order[l][g].state = "REJECTED"
                       /\ \A h \in g .. MaxGeneration : order[l][h].filled = 0}

\* RejectionsBounded (safety): the broker is not asked again after
\* MAX_RESIDUAL_BROKER_REJECTIONS refusals of a leg in a row, whatever restarts
\* come between a refusal and the write that counts it, and wherever the touch
\* moves.  Not counted, there as here, are refusals of orders whose generation a
\* conflict had retired: each conflict allows one more (RefusalsBounded).
RejectionsBounded ==
  \A l \in Legs : Cardinality(RefusedInARow(l) \ conflicts[l]) <= MaxRejections

\* The broker receives an order for leg l in this step.
Released(l) == \E g \in Generations : order[l][g].state = "none" /\ order'[l][g].state # "none"

\* CoverHeldUnlessCredited (action property): no order for a long leg goes out
\* while a short is open at the broker, unless part of the fill of the short's
\* current order was credited before that order ended (flattenResidual tries the
\* shorts first and withholds the longs).
CoverHeldUnlessCredited ==
  [][\A l \in Longs : Released(l) =>
       \A s \in Shorts : Exposure(s) <= 0 \/ memory[owner].residual[s].accounted > 0]_vars

\* CoverHeld (action property, violated): the rule as executionGateway.ts:1589
\* states it, "no long residual is released while ANY short residual remains
\* unproven".  classifyResidualOrder compares the cumulative fill of an order
\* with what is left of the residual: an order cancelled with at least half of
\* its quantity filled, and that fill credited already, reads as "flattened".
CoverHeld == [][\A l \in Longs : Released(l) => \A s \in Shorts : Exposure(s) <= 0]_vars

\* OneLiveReduction (safety, violated): a leg never has two live reductions
\* ("an ambiguous submission must not become a duplicate POST",
\* residualFlatten.ts:125).  A pass that asks for the rest of a part-filled
\* order, or at another touch, is refused by the journal as a conflict, and a
\* conflict retires the generation (residualFlatten.ts:356).
OneLiveReduction ==
  \A l \in Legs : Cardinality({g \in Generations : order[l][g].state = "live"}) <= 1

\* RefusalsBounded (safety, violated): no more than MAX_RESIDUAL_BROKER_REJECTIONS refusals
\* of a leg in a row.  An order that is refused once a conflict has retired its generation
\* is counted by nobody.
RefusalsBounded == \A l \in Legs : Cardinality(RefusedInARow(l)) <= MaxRejections

\* NeverReversed (safety, violated): reducing a leg does not open exposure on
\* the other side; it falls with OneLiveReduction.
NeverReversed == \A l \in Legs : Exposure(l) >= 0

=============================================================================
