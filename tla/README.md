# Verification of the box-trading backend

TLA+ models, TLC configurations and TLAPS proofs for the backend under `src/`: a
Node.js/TypeScript service that looks for four-leg option boxes, sends the legs
to a broker (Zerodha Kite or Dhan) and manages the positions until they are
closed.  The source is about 105,000 lines (`src/src`), the larger half of it
comments; most of the risk is in a few thousand lines that decide who may send
an order, whether it was sent, and what the broker did with it.

## 1. The system

### Components

| Component | State it keeps | Operations | Hard because |
|---|---|---|---|
| Execution lease (`box/executionLease.ts`, `executionLeaseStore.ts`) | one row per broker account in PostgreSQL; in each process a cached observation | refresh (acquire, renew), takeover reconciliation, release, synchronous dispatch guard | several boots, database latency, lost answers, account switches, kill -9 |
| Order manager (`box/orderManager.ts`) | priority queue, slots, entry-transport gates, reservations, attributed positions, breaker | submit, pump, execute, reconcile, cancel-working sweep | every step awaits; activities interleave; the process may die between any two |
| Durable intents (`box/repository.ts`) | `box_order_intents`: state, quantity, broker id of each client order id | create (insert or fetch), guarded update, loads | several writers with stale copies |
| Live adapters (`box/kiteBrokerAdapter.ts`, `dhanBrokerAdapter.ts`) | map of orders by client id | place, poll, protective cancel, lookup by tag, adopt, apply stream update | timeouts that hide an accepted order; late REST answers; duplicated events |
| Evidence and merge (`box/brokerExecutionEvidence.ts`, `brokerOrderMerge.ts`) | none (pure) | status projection, sufficiency of a report, field-wise merge | label and quantity may contradict each other, in any order of arrival |
| Entry gateway, hedge ledger, scheduling (`box/executionGateway.ts`, `hedgeCoverageLedger.ts`, `executionSchedulingPolicy.ts`) | per attempt: outcome of each leg, hedge evidence | submit four legs, release the SELLs after the BUYs, classify the outcome | the legs race; a SELL without its hedge is naked exposure |
| Recovery (`partialEntryRecovery.ts`, `residualFlatten.ts`, `degradedRecovery.ts`) | recovery records | unwind of partial entries, flattening | a second failure during recovery |
| Reservations (`box/reservations/*`, `executionCoordinator.ts`), underlying locks | fenced rows, each process's leases and clock offset | reserve, confirm, heartbeat, settle, hold, reclaim, reap | two processes, two clocks, late answers, expiry |
| Trading session (`tradingSession.ts`, `tradingSessionStore.ts`) | armed session and its budgets, in memory and in one row | arm, consume, establish, complete, disarm, repair | a crash between spending and sending, saves that fail or land unheard, two managers of one row |
| Capital (`boxCapital.ts`, `fundingReadiness.ts`, ...) | funds snapshots, per-box cap | admission of an entry | snapshot older than the decision |
| Pacing (`brokerPacing.ts`) | queue of broker calls, slots, rate windows | submit, dispatch loop, withdraw, charge, cool down | one loop that sleeps, callers that give up, priorities, starvation, a clock that is set back |
| Order stream (`orderStreamConsumer.ts`, `streamHealthPolicy.ts`, `brokers/dhan/orderFeed.ts`) | life cycle, generation, owed reconciliation, sweep in flight, back-off | connect, authorise, drop, sweep, demote when idle | gaps nobody replays, sweeps that outlive their connection, sockets that die without a close |
| Engine, monitor (`engine.ts`, `positionMonitor.ts`) | open trades, pending exits | entry and exit loops | calls to all of the above |
| Registry, tokens, sessions (`brokers/*`, `tokens/*`, `brokerState/*`) | active broker, credentials, feed subscriptions | switch broker, log in, rotate | switching while orders are in flight |
| Outbox (`outbox/*`) | rows to be projected to MongoDB | enqueue, rewrite, claim, deliver, retry, replay | crash between two stores, rewrites during a delivery |
| Scanner, pricing, simulation, calibration, configuration, HTTP | market data, settings | search, estimate, serve | no protocol: arithmetic and I/O |

### How they interact

The engine asks the gateway for an entry; the gateway submits four requests to
the order manager in one tick; `execute()` creates the durable intent, claims it,
asks the guards (the lease among them) in the last synchronous instant and calls
the adapter.  The adapter keeps one entry per order, which REST answers, stream
events and reconciliation all merge into.  What the adapter returns is written
back to the intent.  Reconciliation (at start-up, on a timer, on request, after a
takeover) walks the journal against the broker's list.  Several processes of one
deployment meet in PostgreSQL (lease rows, intents, reservations) and at the
broker, nowhere else.

### What makes each component correct

| Component | Properties |
|---|---|
| Execution lease | one sender per account; an entry only after a reconciliation under the same ownership; evidence of another owner is not forgotten; a lease ends by its owner or by expiry |
| Durable intents, adapters | at most one placement per client order id; terminal rows are true; fills only grow; every ended order is recorded in the end |
| Evidence and merge | the held quantity is the largest reported; price, label and quantity never contradict each other; a terminal order is not reopened |
| Entry transport | a SELL leaves only behind filled hedges; one box at a time; the gross cap bounds what the broker fills; reservations return; nobody waits for ever |
| Recovery, reductions | a reduction never exceeds the attributed position; an unwind ends flat or escalates |
| Reservations, locks | a contract has one confident holder; exposure keeps its reservation |
| Trading session | never more attempts or boxes than armed, across crashes; what was spent stays spent |
| Capital | admitted notional never exceeds the snapshot it was judged by |
| Pacing | the gaps and windows the broker publishes; a withdrawn request is not sent; recovery is never behind a slow poll |
| Order stream | entry reopens only over a gap that was looked at; what is owed is paid; a dead socket is noticed |
| Outbox | a published row is in the replica; the replica never moves back; every row is settled |
| Broker switch | no order is sent with the credential of another broker |

## 2. The modules

| Module | Models | Role |
|---|---|---|
| `ExecutionLease` | lease rows, lease manager, dispatch guard | state machine |
| `ExecutionLeaseProofs` | | inductive invariant, 5 theorems |
| `BrokerOrders` | evidence, status projection, merge | pure operators |
| `OrderProjection` | the adapter's entry of one order, fed by REST and stream | state machine |
| `OrderIntents` | one client order id: journal row, `execute()`, reconciliation, sweep, adapter, broker | state machine composing the rules of `BrokerOrders` |
| `AtMostOnceSubmission` | what the journal promises | abstract specification |
| `OrderIntentsProofs` | | inductive invariants, refinement, 6 theorems |
| `EntryTransport` | the legs of several entry attempts in one order manager: submit, queue, slots, checkpoints, hedge gate, reservations | state machine |
| `EntryTransportProofs` | | inductive invariants, lemmas on sums, 8 theorems |
| `TransportPacing` | the pacer's queue, loop and slots, the rate ledger, the adapter's calls through them | state machine |
| `TradingSession` | the session row, its manager, the entries and boxes it bounds | state machine |
| `TradingSessionProofs` | | inductive invariants, 4 theorems |
| `Reservations` | durable reservations of contracts by several processes with clocks of their own | state machine |
| `ReservationsProofs` | | inductive invariant, 4 theorems |
| `Outbox` | outbox rows, writers, drain passes, replay, the replica | state machine |
| `QueueProofs` | `Outbox` and `TransportPacing`, the two queues between a decision and its effect | lemmas on queues and counts, two inductive invariants, 9 theorems |
| `ResidualFlatten` | the flattening of a residual: watchdog, passes, generations of orders, the versioned projection | state machine |
| `ResidualFlattenProofs` | | lemmas on sums, inductive invariants in layers, 7 theorems |
| `OrderStream` | the order-update stream: life cycle, both transports, sweeps, the reconciliation pass they await, polls | state machine |
| `OrderEvidenceProofs` | `OrderProjection` and `OrderStream`, how the process learns of an order's end | lemmas on the merge, two inductive invariants, 9 theorems |
| `MC*` | | instances for TLC |

`OrderProjection`, `OrderIntents` and `EntryTransport` look at the same order path
at three scales.  `OrderProjection` keeps late and repeated answers and nothing of
the database; `OrderIntents` keeps database, crashes and several processes, and
processes REST answers when they are computed; `EntryTransport` keeps several legs
and attempts, and of the database only whether a call succeeds, fails or finds
another owner.  `ExecutionLease` answers the question the last checkpoint asks,
which `OrderIntents` and `EntryTransport` leave open (the guard may refuse at any
time).  `TransportPacing` is what lies between the adapter's call and the socket.
`TradingSession` and `Reservations` are the two admissions an entry passes before
any of this; `Outbox` carries what was recorded afterwards to MongoDB.
`ResidualFlatten` is what happens to legs that were filled and are not wanted: it sends
reductions through the journal of `OrderIntents`, whose rows it follows only as far as a
pass can tell them apart.  `OrderStream` is the supervision of all of it: how the process
learns that an order has ended, and when it may enter again after it could not.

### `ExecutionLease`

| State | Code |
|---|---|
| `row`, `seq` | `box_execution_leases`, `box_reservation_fence_seq` |
| `st`, `cur`, `call`, `stamp` | the manager's `state`, `currentScope`, `inFlight`, `reconcileInFlight` |
| `account` | what `deps.account()` proves |
| `bye`, `life` | release at shutdown, life cycle |
| `post` | an order between checkpoint 5 of `execute()` and the socket write |
| `pass`, `missed` | the order manager's single-flighted pass, and whom it cannot have seen |
| `home`, `moved`, `passed`, `upsets` | history and bound |

A database call is issued, executed and answered in three steps
(`Refresh*`/`Release`/`ReconcileEnds` issue, `Exec*` execute, `*Answered`/`*Fails`
answer), because the charge for the time an answer took (`Charge`, `Observe`) is
what exclusivity rests on.  Time is what is left of each lifetime; `Tick` lets a
unit pass everywhere, bounded by `MaxPause` for an order past the guard.  A killed
process leaves its statements running (`Gone`, `OnWire`).

### `BrokerOrders`, `OrderProjection`

`KiteState`, `EvidenceSufficient`, `EvidenceFilled`, `Normalize`, `FromStream`,
`Merge`, `ResolveState`, `Quarantine`, `ZeroExposureProven` are the functions of
`kiteBrokerAdapter.ts`, `brokerExecutionEvidence.ts`, `brokerOrderMerge.ts` and
`brokerAdapter.ts` with an order reduced to label, cumulative quantity, whether
its broker id is known, and average price (written as the quantity it is the
average of, 0 when absent).  In `OrderProjection` the broker's `record` moves on its
own; `RestRead`/`RestAnswered` separate the instant an answer is computed from the
one it is merged; `events` is a set, so the stream reorders, repeats and loses.

### `OrderIntents`

| State | Code |
|---|---|
| `row` | the row of `box_order_intents`; `refused` is the audit entry `no_broker_post` |
| `wire`, `order`, `posts` | request on its way, the broker's record, history |
| `cache` | `adapter.orders` of each process |
| `exec`, `rec`, `sweep` | `execute()`, `performReconcile()`, `cancelWorkingBoxOrders()` of each process, at their awaits |

`Updated`/`Applies`/`Predecessors` are the guarded UPDATE of
`updateBoxOrderIntent`.  A failed call either ran or did not
(`ExecCallFails`, `RecFails`).  `Crash` empties the process's memory; the next boot
is the same member of `Procs`.

### `EntryTransport`

| State | Code |
|---|---|
| `pc` | where `submit()`/`execute()` of a leg is, at its awaits |
| `queue`, `protective` | the priority queue, its protective part counted |
| `slot`, `entryAttempt` | `baseInFlight`/`burstInFlight`, `entryAttemptInFlight` |
| `tick` | the gateway's synchronous loop over four `submit()` calls |
| `gate` | `entryTransportGates`: registered and decided ranks, the ledger's proven quantities |
| `posted`, `reserved`, `gross` | `postedEntryAttempts`, `reservations`, `grossOpenLegQuantity` |
| `carried` | what earlier boxes left in `grossOpenLegQuantity`; it does not change |
| `held` | the broker's real fills |
| `open`, `healthy`, `troubled`, `disposed` | outside conditions, `health.persistence`, breaker and the unknown/unattended counters, `disposed` |

`Quiet` says that no synchronous run is under way: the loop of `submit` calls and
`pump`'s `while` are runs of steps nothing interrupts; only the clock moves in
them, which is what `OutsideChanges` with `OpensInTick` stands for (a feed warm-up
is a deadline compared with the clock).  `Finish` is the `finally` of `execute`
with the release of slot and reservation by `pump`.  Left out here: a row that
already exists when an entry leg is inserted (client ids of an attempt are fresh;
`OrderIntents` has the case), reductions giving exposure back (so `gross` is never
too small), reconciliation clearing `troubled`.

### `TransportPacing`

| State | Code |
|---|---|
| `st`, `queue` | the entries of `TransportPacer` and `queue`; `dispatched` is a placement waiting for its access token, `onWire` a call on the socket |
| `loop`, `nap` | `drainQueue()`: not running, started synchronously (`now`), between two steps (`next`), asleep in `clock.wait` (`waiting`, with the request it picked), returned and not yet in `finally` (`ending`) |
| `age`, `patience` | `enqueuedAt` with the request's deadline; the caller's own `withDeadline` timer |
| `since`, `real` | `lastOrderMutationAt`, `lastGeneralAt`, `lastAnyCallAt` by the clock, and the true times |
| `spent`, `cool`, `back` | how long ago the ledger's `placementTimes` and `recoveryTimes` were recorded (a list each, pruned at its front) and how far away `cooldownUntil` is; how far the clock has been set back, the bound |
| `hung` | calls that are never answered |

A request that ended may be made again, so the stream of requests is endless while
the state stays finite.  The ledger has one window: the code takes the conjunction
over four, and each is treated alike.  A loop that was started runs its first step
in the same synchronous run (`Quiet`).  Left out: faults thrown by an injected clock
or deadline, a deadline that has expired before it is queued (it is created in the
same instant), timers that fire late (they only lengthen gaps), and the clock jumping
forward, against which no wall-clock limiter can hold a gap.

### `TradingSession`

| State | Code |
|---|---|
| `row` | the row of `box_trading_session` |
| `mem`, `loaded`, `writeFailed` | the manager's `session`, whether `initialise` has read the row, the flag of a save that failed |
| `queue`, `saving` | the promise chain of `serialize`, the mutation at its database call |
| `authorised`, `phase`, `auth` | what the engine holds of the entry under way |
| `minted`, `started` | history: sessions armed, attempts started under each |

Every mutation is one place in the chain: it is applied, saved (`Saved`, or
`SaveFails` with the statement run or not), and then the next one starts.  The
conditional increment of an attempt is a statement of its own (`Consume`).  The
engine's side is an entry from admission to its insert, the box from establishment to
close, arming, disarming and the boot.  Left out: the fallback of a persistence
without the conditional UPDATE, ceilings that change between armings,
`recoveryActive`, the counter of aborted attempts.

### `Reservations`

| State | Code |
|---|---|
| `now`, `err` | PostgreSQL's clock, the error of each process's estimate of it (`syncClock`) |
| `row`, `lastFence`, `spare` | owner rows with their keys, the fence sequence, recycled fences |
| `pc`, `call`, `lease`, `lost` | where an execution is, its statement under way, its lease and the alarm |
| `renewal` | the heartbeat's statement under way |
| `exposed` | an execution that may have a leg at the broker |

Statements are issued, executed and answered separately, because an expiry is
computed before the statement, stored by it and translated back after it, with a
re-measured offset (`SyncClock`) possibly in between.  Left out: the in-process tier
and the fallback of paper trading, exits (they have no ownership guard), broker
switches, claims on whole underlyings, and the third owner that a second conflict
after a reclaim needs.

### `Outbox`

| State | Code |
|---|---|
| `fact`, `tx` | the fact each row projects, and the transactions writing it |
| `row`, `lastSeq` | `mongo_outbox` and its sequence |
| `lock`, `work`, `todo` | row locks of a drain pass, what it claimed, what it still has to deliver |
| `mongo` | the replica |

A drain pass is one PostgreSQL transaction: its claims, acknowledgements and failure
records are visible and its locks free only at `CommitPass` or `Abort`.  A delivery
that fails may have been applied.  Assumed: when a pass loses its locks its Mongo
write has landed or never will.

### `ResidualFlatten`

| State | Code |
|---|---|
| `order`, `intent` | the broker's order and the row of `box_order_intents` of each generation (`flatten_attempt`) of a leg |
| `attempt` | the row of `box_execution_attempts`: `projection_version`, `residual_exposure` with generation, `flatten_accounted_filled`, `flatten_broker_rejections` |
| `memory`, `pending` | `residualByAttempt` with its version, `pendingResidualPersists` |
| `pass` | `flattenResiduals` of each process, between its awaits, with what each leg came to |
| `owner`, `passes`, `disruptions` | who may send; bounds |
| `conflicts` | history: the generations whose row a pass found to be for another request (`identity_conflict`) |

`Tick` is the watchdog up to `flattenResidual`; `HoldCover`, `Replay`, `Withhold` and
`Submit` are the ways a leg's turn goes, `Create` to `AnswerNotRecorded` its order's
way through the order manager; `Project` and `Retry` are the two callers of
`persistResidualProjection`.  A position is in the books (`attempt`), in the journal
(`Attributed`) and at the broker (`Exposure`), and nothing but the watermarks keeps the
three together.  `reuse_attempt` and `adopt_attempt` keep the generation alike and are
one disposition here.  Left out: charges (they follow the fills), several attempts (they
share nothing but the watchdog's loop), legacy watermarks of two kinds that disagree.

### `OrderStream`

| State | Code |
|---|---|
| `feed`, `alive` | the socket of the active broker and its reconnect timer; whether it still delivers |
| `state`, `owed`, `gen`, `ever` | `current`, `reconcileOwed`, `gen`, `everConnected` of `OrderStreamStateMachine` |
| `projOwed` | `reconcileOwed` of the projection |
| `sweeps`, `backoff` | the calls of `executeSweep` that await a pass, with their generations; `nextSweepNotBeforeWall` lies ahead |
| `silent` | `lastStreamEventAtWall` is older than `expectedIdleMs` |
| `pass`, `covers` | `reconcilePromise` of the order manager; whether it loaded the order |
| `order`, `wire` | one order at the broker, its last update on its way |
| `early`, `granted` | history: whether the pass had loaded when the connection came; how READY was reached |

Kite's stream rides the quote socket (`KiteOpens`, `KiteCloses`, whose repeated edges
`setConnected` removes before they arrive); Dhan's has a socket, a login frame and a timer
of its own.  `Poll` is `orderStreamState()`, which every entry reads: it may demote the
stream and may start a sweep.  A sweep starts the manager's pass or joins the one under
way, and all that wait for a pass end with it (`PassEnds`).  An order that ends is learned
from the stream (`Delivered`), from a poll of its own execution (`RestPoll`) or from a pass
that loaded it before it listed the broker's orders (`PassLists`); the broker replays
nothing.  One order at a time is enough, since orders share only the clock of the stream.
Left out: what the header of the module lists.

## 3. What is checked

### Runs that pass

| Run | Instance | Shows |
|---|---|---|
| `lease_account_switch` | 2 boots that first prove the same account, a second account to change to, TTL 1, 2 fences, 1 upset, passes of other origin | `SendExclusive`, `EntryReconciled`, `ForeignEvidenceKept`, `OnlyOwnerEndsLease` |
| `projection` | 1 order of 2 units, 2 events, 1 gap, 1 doubt | `FillsExact`, `TerminalAgreesWithFill`, `NeverReopened`, `Converges` |
| `intents_restart` | 1 process, 2 units, 2 upsets | `SubmittedAtMostOnce` (refinement of `AtMostOnceSubmission`), `TerminalIsTrue`, `DurableFillsAdvance`, `EndsDurably` |
| `transport_one_box` | 1 attempt, legs of 2 units, a cap with room for five lots, exactly four or three, base 1, burst 2, 1 protective operation, records of working orders may fail, fair | `HedgedSell`, `EnvelopeHonoured`, `NoLeakedReservation`, `LegsSettle`, `ProtectiveFlows` |
| `transport_two_boxes` | 2 interchangeable attempts (symmetry), 1 unit, cap 5, of which earlier boxes hold 0 or 1, base 1, burst 2 | `OnePipeline`, `GrossWithinCap` |
| `pacing` | a cancel, an entry, a poll; 2 slots, 1 reserved; gaps of 1; window of 2 with 1 reserved; clock set back by 1, fair, polls and entries may hang | `WithdrawnNeverSent`, `Spaced`, `BudgetHeld`, `RecoveryFlows`, `NobodyStarves` |
| `session_budgets` | 2 armings, 3 entries, 2 attempts, 1 cycle and 1 open box each, a second manager of the row, 1 failed or unheard call, 1 crash, inserts may fail | `AttemptsWithinBudget`, `CyclesWithinBudget`, `SpentStaysSpent` |
| `reservations` | 2 processes, 1 contract, lifetime 2, grace 3, margin 1, clocks off by 1 either way, 1 fault, 1 re-sync | `GuardExclusive`, `ExposureProtected` |
| `outbox_delivery` | a repeated event and a snapshot of 2 versions each, batch 2, 2 attempts, the event's errors short or overlong, 1 lost pass, 1 replay, server and 1 hand drain, fair | `PublishedIsInMongo`, `ReplicaFollows`, `EveryRowSettles`, `SnapshotConverges` |
| `residual_books` | 2 processes, a short of 2 units and its cover of 1, a touch that moves between 2 values, 1 refusal allowed, 3 generations, 3 passes, 1 restart or move of the lease | `NeverUnderstated`, `LeftOnlyByConflict`, `RejectionsBounded`, `CoverHeldUnlessCredited` |
| `order_stream` | either broker, 3 faults of a socket, 2 failed passes, 2 orders, fair | `GapRepairedUnlessJoined`, `OwedIsPaid`, `LossIsNoticed` |

Type correctness is proved, not run, where a module has proofs.  Every property has a mutant (in
`PROJECT.json`): a small change of one definition, kept before it as `Mutant of ...`,
under which TLC finds the property violated.

### Bounds

- Two boots are what a takeover needs, a third only repeats it; two fences let one
  takeover and one return happen; `MaxUpsets` counts crashes, shutdowns, failed
  calls, account changes and unrelated passes together, so one or two of them hit
  any instant, in any order.
- The lease run has TTL 1 and no margin and pause; that the result does not depend on
  the lifetimes is the theorem.  Both boots prove `s1` first (`First`), since they
  contend for nothing otherwise; the theorem has no such limit, and a process that
  comes to the account of another one is the disagreement `OneEntrySenderPerAccount`.
- The pacer's elapsed times are cut off where neither a gap, the grace, a deadline nor
  the window can tell them apart any more, however far the clock may still be set
  back (`Horizon`, `AgeHorizon`, `SpanHorizon`), so nothing is lost by it.
- Two units are the smallest quantity with a partial fill; two events with one gap
  are enough for "older after newer" and "label without quantity".
- Burst 2 makes the SELLs queue behind the BUYs and park in base slots; with burst 4,
  which puts all four legs in flight, and `OpensInTick` the three safety properties of
  `transport_one_box` hold as well.  What earlier boxes hold (`Carried`) leaves one box room
  for a lot more than it needs, for exactly its four lots, as
  `docs/PREFLIGHT_CHECKLIST.md:44` asks, or for less; in the last case nothing may be
  sent.  With two attempts cap 5 admits one box to its end and refuses the second while
  the first is uncounted; with a lot carried it is the exact cap again.
- Pacing: two slots with one reserved are the smallest pool in which a poll can hold
  what a recovery needs; one unit of clock set back makes elapsed times negative right
  after a call and freezes a sleep of one unit.  A window of two with one reserved lets
  an entry, a recovery and a third request meet.  With a protective request `t` beside
  the others the instance is too large for one run; its halves hold: with
  `GeneralGap = 2` and `Hanging = {}` (a poll's wait is two sleeps) the three safety
  properties, with `GeneralGap = 2`, `Metered = FALSE`, `Span = 2` and `MaxBack = 0` the
  two liveness properties.
- Order stream: three faults are a drop, a drop of the connection after it while the
  first one's sweep is still under way, and a loss without a close, in any order; two
  failed passes fail the sweep of one connection and the retry of it; the second order
  can be placed while the pass that saw the first is under way.
- Session: two armings let a late mutation of the first meet the second; three entries
  are one more than the attempts; a crash and a failed call together give "landed
  unheard, then died".  With two failed calls the three properties hold as well (3.6
  million states).
- Reservations: margin 1 and grace 3 are exactly the four clock errors the theorem
  asks for; with grace 2 TLC finds two confident holders (acquire, re-sync, insert, a
  renewal that lowers the row's expiry and is answered late, reclaim by the other).
- Residuals: a short of two units is the smallest that can be credited in part; one
  more refusal than the limit, and a retirement after a part fill, need three
  generations; three passes let a second process, or the first after its restart,
  answer for the order of a pass that was not heard.  Two touches (interchangeable) are
  what a moved touch needs.  One refusal is allowed, so that one that is not counted
  shows within three passes; with two allowed the four properties hold as well.
- Outbox: two versions of each row, two attempts and one lost pass reach the rewrite
  during a delivery, the dead letter and its revival; batch 2 puts both in one pass.

### Fairness

- `OrderProjection`: weak fairness of the placement answer, of complete REST reads
  and of their answers.  The adapter polls while it waits and the order manager
  reconciles on a timer afterwards; each read has a timeout.
- `OrderIntents`: weak fairness of the steps of each process's reconciliation,
  which a timer starts again for ever.  Crashes and failed calls are bounded;
  `execute()` and the sweep are owed nothing.
- `EntryTransport` (`FairSpec`): the event loop as a whole keeps going; database
  client and adapter bound their calls in time.  Nothing is assumed about any one
  leg, about protective requests, the broker or the outside conditions.
- `TransportPacing` (`PacingFairSpec`): the event loop runs what is due, time passes, and a
  call that does not hang ends, since the transport has a timeout.  No request has to
  be made and no caller has to give up.
- `OrderStream` (`FairSpec`): a pass ends, each of its calls having a timeout; the clock
  goes on; entries that are refused are tried again and each attempt reads the stream's
  state.  No socket has to open or stay, no update has to arrive, no poll of an order has
  to be answered.
- `Outbox` (`FairSpec`): transactions of the writers end, a backoff elapses, the
  server's timer starts a pass, deliveries and commits are answered.  No delivery has
  to succeed, and hand drains and replays need not happen.
- `ExecutionLease`, `TradingSession`, `Reservations` and `ResidualFlatten` have safety
  properties only.  A residual need not be flattened in the end: the broker may refuse,
  the book may stay empty, and the watchdog stops at the rejection limit.

### Deadlock

The lease, projection, pacing and order-stream runs check for deadlock.  The others do not: an order
that ended and is recorded, attempts that have all settled after `dispose`, sessions
and entries used up, rows all published, and the end of the bounded time of the
reservations are ends of the system, as are the passes of a residual, used up.

### Findings

`intents_sweep` expects a violation: the panic sweep takes a row without broker id for
"never sent"; a crash after the POST leaves the same row (`orderManager.ts:2861`; the
comment it contradicts is quoted in `PROJECT.json`).

### Other disagreements

Stated as properties of the modules and found violated with TLC, without a run of
their own.  Each comes out of the instance named here when its property is put in the
place of the run's.

| Property | Instance | What happens |
|---|---|---|
| `OneEntrySenderPerAccount` (`ExecutionLease`) | `lease_account_switch`, `First = {s1, s2}`, `OtherPasses = FALSE` | after an account change the cached lease of the old account opens the guard for the new one until the next heartbeat (`executionLease.ts:330`); the header (`:12`) promises one sender per account |
| `SuccessorFenceGreater` (`ExecutionLease`) | `lease_account_switch` | the token is drawn before the upsert (`executionLeaseStore.ts:168`), so a successor may own the lease with a smaller fence; `docs/EXECUTION_OWNERSHIP.md:67` says strictly greater |
| `PredecessorSeen` (`ExecutionLease`) | `lease_account_switch` | the takeover reconciliation may join a pass that listed the broker's orders before the predecessor's last send (`engine.ts:1659`) |
| `BrokerIdKept` (`OrderIntents`) | `intents_sweep` | a reconciliation pass writes the null broker id it loaded over a known one (`orderManager.ts:3501`) |
| `RejectionEndsDurably` (`OrderIntents`) | `intents_sweep` | the predecessors of REJECTED leave out the quarantine states (`repository.ts:1529`), so a quarantined row is never closed as rejected; this is why `EndsDurably` speaks of COMPLETE and CANCELLED |
| `UnattendedBlocksEntry` (`EntryTransport`) | `transport_one_box` | if the record of an order left working fails, it is not counted (`orderManager.ts:3165`) and entry reopens after the next successful insert; this is why `CancelRecordFails` is off with two attempts, where `GrossWithinCap` falls with it |
| `SiblingsAdmitted` (`EntryTransport`) | `transport_one_box` (with 2 units carried there is room for exactly four lots) | with room for exactly four lots, as `docs/PREFLIGHT_CHECKLIST.md:44` asks, the second leg is refused after the first hedge was posted: the leg's own reservation is counted and its lot asked for once more (`orderManager.ts:4113`; `:4032` says the attempt must not be charged for itself twice).  This is why `EnvelopeHonoured` speaks of the room there is, and not of what the check before the POST finds |
| `LegsSettle` (`EntryTransport`) | one attempt, `Lot` 1, `MaxGross` 5, `Burst` 4, `OpensInTick`, `MaxProtective` 0, `FairSpec` | hedges refused in a gate that is then deleted leave the SELLs of the same tick parked for ever when the feed's warm-up ends in between (`orderManager.ts:2649`; `:3296` calls their release a liveness invariant) |
| `CoverHeld` (`ResidualFlatten`) | `residual_books` | a pass compares the cumulative fill of the short's order with what is left of the residual (`residualFlatten.ts:290`): if part of the fill was credited while the order worked and it then ends cancelled with at least half filled, it reads as flattened; nothing is credited, the generation never retires, and the long cover is sold while the short is open.  `executionGateway.ts:1589`: "no long residual is released while ANY short residual remains unproven".  This is why the run checks `CoverHeldUnlessCredited` |
| `OneLiveReduction`, `NeverReversed`, `RefusalsBounded` (`ResidualFlatten`) | `residual_books` | a pass that asks for the rest of a part-filled working order, or at another touch, conflicts with the journal's row, and a conflict retires the generation (`residualFlatten.ts:356`, thought impossible at `:156`); the next pass sends a second reduction beside the live one, and both may fill.  `residualFlatten.ts:124`: an ambiguous submission "must not become a duplicate POST".  If the broker refuses the order left behind later, nobody counts it, so a leg may be refused more often than `MAX_RESIDUAL_BROKER_REJECTIONS` (`:87`).  This is why `LeftOnlyByConflict` and `RejectionsBounded` except the generations of a conflict |
| `NoReadStarves` (`TransportPacing`) | `pacing` with `Protectives = {t}`, `GeneralGap = 2`, `Metered = FALSE`, `Span = 2`, `MaxBack = 0` | aging reorders only what is admissible (`brokerPacing.ts:1060`): while recoveries overlap in the slots, a poll is not admissible and waits for ever; the comment above says aging exists "so a lower tier cannot starve for ever" |
| `HeldWithinCeiling` (`TradingSession`) | `session_budgets` | a filled box whose inserts all failed is kept for a timer (`engine.ts:5838`) and counted by nobody meanwhile, so another is admitted beside it under a ceiling of one; `engine.ts:626` promises "continuous coverage from admission to durable record, with no uncounted interval" |
| `PostedUnderOwnSession` (`TradingSession`) | `session_budgets` | the session id of an authorisation is read after the consumption was answered (`engine.ts:1723`), when a queued arming may have replaced it, so the check before the POST (`:1399`) compares with the wrong session |
| `UnsavedCycleClosesEntry` (`TradingSession`) | `session_budgets` with `MaxOpenBoxes` 2, `MaxCompletedTrades` 2 | a later successful save of another mutation clears `writeFailed` (`tradingSessionStore.ts:622`) and reopens entry on a count that was never stored; `:124` says the flag holds until it is |
| `CyclesWithinBudget` (`TradingSession`) | `session_budgets` with `MaxOpenBoxes` 2 | an entry admitted while the filled box before it waits for its insert and `recordEstablished` (`engine.ts:4936`) spends its attempt on a count without it, and both boxes are then counted under a ceiling of one; `tradingSession.ts:4` says the ceiling bounds how many box lifecycles an armed session may run |
| `NoSessionOverspends` (`TradingSession`) | `session_budgets` | an arming that landed unheard is undone in memory (`tradingSessionStore.ts:308`); the next save of the old session takes the row back with the new one's counter, and the old session starts more attempts than it was armed for.  `tradingSessionStore.ts:285` calls the rollback of an arming the safe direction.  This is why `AttemptsWithinBudget` speaks of the sessions that were not revived this way |
| `GapRepaired` (`OrderStream`) | `order_stream` | a new connection's sweep joins a pass that has already read the broker's orders, because `reconcile()` is single-flight (`orderManager.ts:1927`), and READY is granted over a gap nobody looked at.  `orderStreamConsumer.ts:824`: a caller of a new epoch "starts a fresh sweep for its own epoch"; `streamHealthPolicy.ts:371` calls this promotion "a fabricated readiness claim".  The generation check does not help, since the old sweep and the new one await the same pass |
| `DegradedRecovers` (`OrderStream`) | `order_stream` | a stream demoted by idleness after its reconciliation owes nothing, so `ensureReconciled` has nothing to do (`orderStreamConsumer.ts:959`), no later event promotes it, and entry stays closed until the connection drops.  A first order after a quiet spell is enough: the clock starts at the last event, not at the order (`:392`), although `:1023` says that silence on an account with nothing working never counts and that a slow stream is not falsely flagged |
| `AlarmMeansLoss` (`Reservations`) | `reservations` | a clean settle deletes the row under a renewal that is under way; its refusal raises the alarm of a lost reservation (`executionCoordinator.ts:2196`) for an execution that ended well |
| `OpenedBeforeClosed` (`Outbox`) | the `Trade*` constants of `MCOutbox`, no snapshot, poison, long error or hand drain, batch 2, 2 attempts, 2 sequence numbers | a row that backs off is not claimed (`projector.ts:219`), so the next row of its aggregate is delivered first in a later pass; the header (`:23`) and `docs/MONGO_PROJECTION.md` promise order per aggregate |
| `NoRowHeldUp` (`Outbox`) | `outbox_delivery` | the error text is cut to 500 characters and one is appended (`projector.ts:87`); the column admits 500 (`migrations/001_outbox.sql:71`), so the failure record aborts the pass, every time, and the rows claimed with it are not delivered either; `projector.ts:30` says that a failing row never blocks the rows behind it.  This is why `EveryRowSettles` and `SnapshotConverges` except the time such a row is pending |

Read in the code and not stated as properties: after a rejected session, or a start without
a token, nobody asks Dhan's feed for a socket again (`brokers/dhan/orderFeed.ts:113`: "the
caller retries when one exists"; `engine.ts:8830` creates it once), so entry stays closed
until the process restarts (`feed = "off"` is final in the model); Kite's stream hears of a
rejected session only as a drop, so it never reads AUTH_EXPIRED; a second `trade_partial_exit` of a trade
has the event id of the first and is dropped by `DO NOTHING` (`repository.ts:539`); a
snapshot upsert waits for the row lock of a pass that awaits Mongo, although
`projector.ts:10` keeps Mongo out of the request path; a failed session write is retried
at boot, before anything has failed, and by one HTTP route only (`engine.ts:2056`,
`:3117`), not periodically (`tradingSessionStore.ts:471`); a crash between the insert of
a box and its `recordEstablished` leaves the box uncounted; recycled fences run
backwards (`reservations/durable.ts:83`); one failed renewal is a loss for good, where
`config.ts:445` allows two; a lost claim on an underlying is not acquired again.

## 4. What is proved

All proofs hold for every value of the constants that the named assumptions allow:
`LeaseConstants`, `PauseWithinMargin`, `QtyPositive`, `ProjectionConstants`,
`IntentConstants`, `TransportConstants`, `OutboxConstants`, `PacingConstants`,
`StreamConstants`, `ResidualConstants`, `SessionLimits` and `NoneIsNoRecord`, and for the
reservations `OwnersAssumption`, `TimesAssumption`, `NoneAssumption`, `DeadBandAssumption`.
Most say little more than types (`PacingConstants` adds that the kinds of requests are
disjoint and that recovery's reserve is less than the pool, as the pacer's constructor clamps it);
`PauseWithinMargin` (the pause before the socket write is at most the guard margin)
is condition (b) of the header of `executionLease.ts` and is needed, and
`DeadBandAssumption` (margin and grace together are at least four clock errors) is the
dead band of `reservations/durable.ts`; TLC refutes the theorem one unit below it.

- `ExecutionLeaseProofs`: `TypeCorrect`, `ExclusiveSending`, `ReconciledEntry`,
  `LeaseEndsByOwner`, `EvidenceKept`.
  `SendExclusive` is not inductive: nothing in it says why a cached lease is true.
  The invariant adds, for a process that keeps its account, that every life it
  believes in (cached or in an answer under way) is at most the row's life less the
  margin (`Backed`), that an order past the guard is covered for the rest of its
  pause (`Covered`), and that a stamp on the row comes from a pass completed under
  the row's fence (`Fenced`).  The two action properties follow from it step by step: a
  statement that replaces an owner finds the row expired or its own
  (`OnlyOwnerEndsLease`), and what turns a foreign observation into anything but a held
  lease is a switch of account, which is then on record (`ForeignEvidenceKept`).
- `OrderEvidenceProofs`, on `OrderProjection`: `ProjectionTypeCorrect`,
  `FillsAreExact`, `PriceIsOfTheFill`, `TerminalLabelsAgree`,
  `TerminalNeverReopened`, from the invariant that payloads under way were true when
  they were computed (`PayloadsGenuine`); without it a COMPLETE label over no fill
  could quarantine a cancelled order.  On `OrderStream`: `InvariantHolds`, `TypeCorrect`,
  `GapsAreRepaired`.  That an order
  with a missed end keeps entry closed rests on the pass, not on the state: while an
  established connection delivers, a missed end can only be older than the connection, so a
  pass that loads afterwards loads the order (`PassInv`) and learns of the end when it
  lists.  The invariant also says that a sweep whose generation is the connection's began
  under it, and is marked joined exactly if the pass had loaded before (`SweepInv`), and
  that an update is on its way only over a live socket (`WireInv`).
- `OrderIntentsProofs`: `JournalInvariant`, `IntentTypeCorrect`, and
  `AtMostOneRequest`, the refinement of `AtMostOnceSubmission`.  The row is a token:
  only the execution whose compare-and-set moved it from CREATED to SUBMITTING may
  send, no statement writes CREATED back, and sending or refusing uses it up.
  Then `MemoryTellsTheTruth`, and from it `TerminalRowsAreTrue` and
  `DurableFillsOnlyAdvance`.  `TerminalIsTrue` is not inductive, because the row is written
  from snapshots: what an adapter holds, what a reconciliation has listed, what an
  execution was answered.  The invariant `Truth` says of every such copy, in the row, in
  the adapters' entries and in each of the three activities of a process, that its quantity
  is at most what the broker filled and that a terminal label in it is the broker's with
  the broker's quantity, or the order never was and never will be.  Truth lasts because the
  broker's record only moves on (`MovesOn`: an order that ended does not change), so a copy
  may be late but not wrong; the merge and the guarded update keep it.
- `EntryTransportProofs`: `TransportInvariant`, `TransportTypeCorrect`,
  `SellsAreHedged`, `BoxesNeverOverlap`, `ReservationsReturn`, `AccountsKept`, `CapIsKept`,
  `EnvelopeIsHonoured`.  The invariant adds to
  `HedgedSell` that what the gate's ledger calls proven is a full fill of a leg that
  has ended, which no later step changes (`Evidence`), that the queue holds waiting
  legs once each (`QueueInv`), that the legs still to be submitted in a tick are
  idle (`TickInv`), and that a leg has a slot exactly while it is in flight, of the
  attempt in flight (`SlotInv`).
  `CapIsKept` is `GrossWithinCap` if `CancelRecordFails` is off; with it on the property is
  false (`UnattendedBlocksEntry` above).  What the broker holds is no invariant to reason
  with, because fills arrive after the check that admitted them; the invariant bounds what
  it may still come to hold, a whole lot for every leg sent or working (`WithinCap`).  Only
  the step that begins a POST can raise that sum, and the check right before it has seen
  the rest: every leg under way waits with its whole reservation, and as long as no trouble
  is recorded the manager's gross quantity is the broker's (`Account`).  A first leg is
  checked without its siblings' reservations, which is sound because none of them can be at
  the broker yet.  `EnvelopeIsHonoured` is `EnvelopeHonoured` without a condition: whatever
  earlier boxes hold and however tight the cap is, what is reserved fits under it beside
  what is attributed (`Promised`).  A reservation is made only where there is room for the
  lot, and a fill that is counted takes it from the reservation, so the room a leg was
  admitted with stays its own until it is sent.  The sums are those of the
  model: `TotalCounts` shows that `MapThenSumSet` counts units of quantity, from the
  recursion it is defined by and the well-foundedness of strict inclusion, and the other
  facts about sums follow from those about cardinalities.
- `TradingSessionProofs`: `SessionAccountKept`, `SpentNeverHandedBack`,
  `AttemptsNeverExceeded`, `CyclesNeverExceeded`.  `SpentStaysSpent` needs no condition: a
  save writes every cycle the row counts for its session and leaves the attempts alone,
  unless it claims the row for a session nobody used before, and so does what it would be
  undone to (`Recorded`).  `AttemptsWithinBudget` needs that memory never knows a session
  other than the row's (`InStep`), so that no late save puts an old session in the place of
  a newer one, and that every attempt started is in the row's counter; both hold but for
  the sessions memory was undone to after another's arming had landed unheard (`revived`),
  which the property excepts and the disagreements above show.  `CyclesWithinBudget` is proved where one
  box may be open at a time (`MaxOpenBoxes = 1`): the chain of mutations is first in, first
  out, so a box is counted before the attempt of the next entry is spent (`OneAtATime`), and
  the room found then is still there when its own box is counted (`Roomy`).  With two open
  boxes it is false, see above.
- `ReservationsProofs`: `ReservationsTypeCorrect`, `ReservationsInvariant`,
  `ContractsAreExclusive`, `ExposureKeepsItsReservation`.  `GuardExclusive` compares the
  beliefs of two processes and says nothing of the table.  The invariant ties each
  belief to a row: whoever may still be confident has its row in the table under its own
  fence, with an expiry at least the belief less two clock errors (one for the estimate
  it was computed with, one for the re-measured one), and a statement under way can only
  store such an expiry.  Another process removes a row a grace period after its expiry by
  its own estimate, which is where the other two errors go.
- `QueueProofs`, on `Outbox`: `OutboxInvariant`, `OutboxTypeCorrect`,
  `PublishedRowsAreDelivered`, `ReplicaNeverMovesBack`.  `PublishedIsInMongo` is not inductive, because what a pass
  acknowledges is what it claimed; the invariant adds that the claimed copy is the
  committed row as long as the lock is held, and that no document is newer than its fact.
  On `TransportPacing`: `PacingInvariance`, `PacingTypeCorrect`, `WithdrawnStaysUnsent`,
  `CallsSpaced`, `BudgetKept`, for any requests, slots, gaps, window, limit and reserve, and a
  clock that is set back any number of times.  Only two steps hand a request over
  (`LeavesBy`): the loop's, with what it has just picked from the queue, and the one after a
  sleep in which the clock stood still, with what was picked before it; the invariant says
  that the latter still waits unless its caller has withdrawn it (`NapInv`), which is what
  the re-check after the sleep asks.  For the gaps it says that no watermark, however the
  clock was set, claims that more has passed since a call than has, unless the whole gap
  has (`TimeInv`); that is where the full wait for a negative elapsed time is needed.  The
  budget is asked and recorded in one step for everything that reaches the wire
  (`TransmittedBy`), so it needs no relation between the check before the queue and the
  one at the socket, only that a recorded request counts once (`RecordCounts`) although the
  lists are pruned at their fronts only.  The queue is the sequence of the code; what a
  splice leaves of it follows from the places of what is kept (`WithoutFacts`), which are
  counted, and the oldest candidate exists by the well-foundedness of inclusion
  (`LeastNumber`).
- `ResidualFlattenProofs`: `Invariance`, `TypeCorrect`, `NothingUnderstated`,
  `CoverIsHeld`, `ResidualNeverGrows`, `LiveOrdersAreKept`, `RefusalsAreBounded`, for
  any processes, quantities, touches, generations, passes and restarts.  The argument has three
  layers, each an invariant on top of the one before.
  *Books.*  `NeverUnderstated` compares the row of the attempt with the broker, and a pass
  works from a copy of the row.  The invariant (`BooksInv`) says of every copy (the row,
  each process's memory, each command that may still be applied) that what it has written
  off is at most the fills of the generations it has left behind and, of its own
  generation, the watermark.  It needs to know what a pass under way believes: a result it
  has reached for a leg is true of the broker's order and stays true (`Sound`), and the
  right to a POST is held once (`PostInv`).
  *Versions.*  Two copies of one version are equal, and an older one becomes a newer one
  only by crediting fills and moving on (`FollowsOn`); `ResidualNeverGrows`, that no step
  enlarges a leg's residual or turns back its generation or watermark, follows, whoever
  projects and whatever is replayed.
  *Retired.*  A generation is left behind for one of three reasons (`ReasonInv`): its row
  was refused before its POST, its order has ended, or its row was found to be for another
  request, which `conflicts` remembers.  None of them can be taken back, so every
  generation before that of any copy of the residual is spared for one of them, and the
  copy's counter holds the refusals among them that no conflict had left behind
  (`RetiredInv`).  An order is made only for the residual's generation, or for the next one
  after rows refused before their POST, so a live order of an earlier generation is one
  of a conflict (`LeftOnlyByConflict`); and only below the limit, so the refusals that
  are counted keep to it (`RejectionsBounded`).
  The sums are again those of the model (`FilledUnfolds` from the definition of
  `MapThenSumSet`, then cardinalities).

Only model-checked: the liveness properties (`Converges`, `EndsDurably`,
`LegsSettle`, `ProtectiveFlows`, `RecoveryFlows`, `NobodyStarves`, `EveryRowSettles`,
`SnapshotConverges`, `OwedIsPaid`, `LossIsNoticed`), which need fairness and `ENABLED` and are
out of the prover's reach.

## 5. What is not modelled, and the plan

Not planned: scanner, pricing, charges, simulation, calibration (floating-point and
statistics over market data), configuration parsing, HTTP and server-sent events,
wording and telemetry.

Order of the next modules, each with its abstract promise first where one is worth
stating:

1. `ExposureLedger`: attributed positions, reductions and their reservations, the
   rebuild by reconciliation, open boxes and breaker (`orderManager.ts`).  A
   reduction never overshoots what is held; composes with `EntryTransport`'s gross.
2. `EntryOutcome` and `Recovery` (`executionGateway.ts`, `partialEntryRecovery.ts`,
   `degradedRecovery.ts`): classification of four outcomes, the immediate unwind,
   escalation, up to the residual `ResidualFlatten` starts from.
3. The attribution and merge of the order-update projection (`orderUpdateProjection.ts`), `BrokerSwitch`
   (`brokers/registry.ts`, lanes, tokens), `UnderlyingLock`, capital admission, the Dhan
   adapter on the rules of `BrokerOrders`, the in-process tier of the reservations.
