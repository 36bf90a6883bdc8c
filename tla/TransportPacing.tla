--------------------------- MODULE TransportPacing ---------------------------
(***************************************************************************)
(* The paced transport of a live adapter: TransportPacer with its queue,   *)
(* single dispatch loop and slots, RateBudgetLedger, and the calls the     *)
(* Kite adapter makes through them (box/brokerPacing.ts,                   *)
(* box/kiteBrokerAdapter.ts).                                              *)
(*                                                                         *)
(* Cancels carry a deadline and a caller with a timer of its own.          *)
(* Protectives are reducing placements, Entries opening ones; both await   *)
(* an access token between dispatch and the socket.  Reads are polls.  A   *)
(* request that ended may be made again, so a stream of requests is        *)
(* endless.                                                                *)
(*                                                                         *)
(* Time is kept as what has passed since each event on the adapter's clock *)
(* (Date.now), which may step back (StepBack), and in real time where a    *)
(* timer or the broker goes by it.                                         *)
(***************************************************************************)
EXTENDS Integers, Sequences, FiniteSets, Functions

CONSTANTS
  Cancels, Protectives, Entries, Reads,
  NoOp,
  OrderGap,       \* orderMutationMinIntervalMs, also the floor between any two calls
  GeneralGap,     \* generalMinIntervalMs
  Grace,          \* STARVATION_GRACE_MS
  CancelTimeout,  \* cancelTimeoutMs
  MaxInFlight, ReservedForRecovery, MaxConcurrentReads,
  Metered,        \* whether a ledger is wired (rateBudget)
  Span, Limit, Reserve,   \* one window of the published limits, and the recovery reserve in it
  Cooldown,       \* what a Retry-After asks for
  MaxBack,        \* bound: how far the clock may step back in all
  Hanging         \* requests whose call may never end

Recovery == Cancels \union Protectives
Placements == Protectives \union Entries
Orders == Recovery \union Entries
Ops == Orders \union Reads

ASSUME PacingConstants ==
  /\ NoOp \notin Ops
  /\ Cancels \intersect Protectives = {} /\ Recovery \intersect Entries = {}
  /\ Orders \intersect Reads = {}
  /\ OrderGap \in Nat \ {0} /\ GeneralGap \in Nat /\ Grace \in Nat
  /\ CancelTimeout \in Nat \ {0} /\ Span \in Nat \ {0} /\ Cooldown \in Nat \ {0}
  /\ MaxInFlight \in Nat \ {0, 1} /\ ReservedForRecovery \in 0 .. MaxInFlight - 1
  /\ MaxConcurrentReads \in 1 .. MaxInFlight
  /\ Metered \in BOOLEAN /\ Limit \in Nat /\ Reserve \in 0 .. Limit /\ MaxBack \in Nat
  /\ Hanging \subseteq Ops \ Recovery

VARIABLES
  st,      \* of each request: idle (not made, or its caller has been answered), queued, dispatched, onWire
  queue,   \* the pacer's queue, in order of arrival
  hung,    \* dispatched requests whose answer will never come
  loop,    \* the dispatch loop: idle, now, next, waiting, ending
  nap,     \* the sleep it is in
  age,     \* clock time since a request was queued
  patience,\* what is left of the own timer of a queued cancel's caller
  since,   \* clock time since the last call of each class
  real,    \* the same in real time
  spent,   \* the ledger's placementTimes and recoveryTimes
  cool,    \* clock time to cooldownUntil
  back     \* how far the clock has stepped back

pacingVars == <<st, queue, hung, loop, nap, age, patience, since, real, spent, cool, back>>

Larger(a, b) == IF a > b THEN a ELSE b
Smaller(a, b) == IF a < b THEN a ELSE b

Classes == {"order", "general", "any"}
Class(o) == IF o \in Reads THEN "general" ELSE "order"
Gap(c) == IF c = "general" THEN GeneralGap ELSE OrderGap

\* Beyond these an elapsed time makes no difference, however far the clock
\* still steps back.
Slack == MaxBack - back
Horizon(c) == Gap(c) + Slack
AgeHorizon == Larger(Grace, CancelTimeout) + Slack
SpanHorizon == Span + Slack

Naps == [op : Ops \union {NoOp}, gone : BOOLEAN, slice : Nat, past : Nat, served : Int]
NoNap == [op |-> NoOp, gone |-> FALSE, slice |-> 0, past |-> 0, served |-> 0]

\* A synchronous run of the loop is under way: nothing else runs.
Quiet == loop # "now"

InFlight == {o \in Ops : st[o] \in {"dispatched", "onWire"}}

-----------------------------------------------------------------------------
(* The ledger. *)

First(S) == CHOOSE i \in S : \A j \in S : i <= j

Lists == {"placement", "recovery"}

\* The list record() puts a request in goes by the endpoint.
ListOf(o) == IF o \in Cancels THEN "recovery" ELSE "placement"

\* The requests of a list the window covers.
Covered(times) == {i \in DOMAIN times : times[i] < Span}

\* prune(): the front of each list goes, as far as the window does not cover it;
\* what a clock set back has put out of order behind it stays.
Pruned(s) == [k \in Lists |-> SubSeq(s[k], First(Covered(s[k]) \union {Len(s[k]) + 1}), Len(s[k]))]

\* countWithin()
Used(s) == Cardinality(Covered(s.placement)) + Cardinality(Covered(s.recovery))

Ceiling(o) == IF o \in Recovery THEN Limit ELSE Limit - Reserve

\* check(): no cooldown, and every window below its ceiling.
WithinBudget(o) == Metered => cool <= 0 /\ Used(Pruned(spent)) < Ceiling(o)

\* record()
Recorded(o) == IF Metered THEN [Pruned(spent) EXCEPT ![ListOf(o)] = Append(@, 0)] ELSE spent

\* check() prunes, unless the cooldown answers first.
Checked == IF cool > 0 THEN spent ELSE Pruned(spent)

-----------------------------------------------------------------------------
(* The pacer's choice. *)

Rank(o) == IF o \in Recovery THEN 0 ELSE IF o \in Entries THEN 1 ELSE 2

\* Mutant of Admissible: no slot is kept for recovery.
AdmissibleNoReserve(o) ==
  /\ Cardinality(InFlight) < MaxInFlight
  /\ o \in Reads => Cardinality(InFlight \intersect Reads) < MaxConcurrentReads

Admissible(o) ==
  /\ Cardinality(InFlight) < MaxInFlight
  /\ o \in Reads => Cardinality(InFlight \intersect Reads) < MaxConcurrentReads
  /\ o \notin Recovery => MaxInFlight - Cardinality(InFlight) > ReservedForRecovery

Expired(o) == o \in Cancels /\ age[o] >= CancelTimeout

\* The candidates by position in the queue, once the expired requests are gone.
Candidates == {i \in DOMAIN queue : ~Expired(queue[i]) /\ Admissible(queue[i])}
Starved == {i \in Candidates : age[queue[i]] >= Grace}
MostUrgent == {i \in Candidates : \A j \in Candidates : Rank(queue[i]) <= Rank(queue[j])}

\* Mutant of PickNext: urgency alone decides.
PickNextByUrgency == IF Candidates = {} THEN NoOp ELSE queue[First(MostUrgent)]

\* pickNext(): the oldest starved request, else the most urgent, oldest first.
PickNext ==
  IF Candidates = {} THEN NoOp
  ELSE IF Starved # {} THEN queue[First(Starved)]
  ELSE queue[First(MostUrgent)]

\* pacingWaitMs(): a clock that went back owes the whole interval.
PacingWait(gap, elapsed) == IF elapsed < 0 THEN gap ELSE Larger(0, gap - elapsed)

\* Mutant of Wait: each class is paced by itself.
WaitOwnClass(o) == PacingWait(Gap(Class(o)), since[Class(o)])

Wait(o) == Larger(PacingWait(Gap(Class(o)), since[Class(o)]), PacingWait(OrderGap, since["any"]))

Slice(o) ==
  LET s == Smaller(Wait(o), OrderGap)
  IN  IF o \in Cancels THEN Smaller(s, Larger(1, CancelTimeout - age[o])) ELSE s

-----------------------------------------------------------------------------
PacingInit ==
  /\ st = [o \in Ops |-> "idle"]
  /\ queue = <<>>
  /\ hung = {}
  /\ loop = "idle"
  /\ nap = NoNap
  /\ age = [o \in Ops |-> 0]
  /\ patience = [o \in Cancels |-> 0]
  /\ since = [c \in Classes |-> Gap(c) + MaxBack]
  /\ real = [c \in Classes |-> Gap(c)]
  /\ spent = [k \in Lists |-> <<>>]
  /\ cool = -MaxBack
  /\ back = 0

\* startScheduling()
Started == IF loop = "idle" THEN "now" ELSE loop

\* submit() through call() or sendCancelWithinDeadline(); a placement asks the
\* budget once before it waits.
Submit(o) ==
  /\ Quiet /\ st[o] = "idle"
  /\ o \in Placements => WithinBudget(o)
  /\ st' = [st EXCEPT ![o] = "queued"]
  /\ queue' = Append(queue, o)
  /\ age' = [age EXCEPT ![o] = 0]
  /\ patience' = [c \in Cancels |-> IF c = o THEN CancelTimeout ELSE patience[c]]
  /\ loop' = Started
  /\ spent' = IF o \in Placements THEN Checked ELSE spent
  /\ UNCHANGED <<hung, nap, since, real, cool, back>>

\* refusePlacementIfBudgetExhausted()
SubmitRefused(o) ==
  /\ Quiet /\ st[o] = "idle" /\ o \in Placements
  /\ ~WithinBudget(o)
  /\ spent' = Checked
  /\ UNCHANGED <<st, queue, hung, loop, nap, age, patience, since, real, cool, back>>

-----------------------------------------------------------------------------
(* The dispatch loop. *)

\* The deadline and the caller's timer of what leaves the queue matter no more.
StopClocks(S) ==
  /\ age' = [o \in Ops |-> IF o \in S THEN 0 ELSE age[o]]
  /\ patience' = [c \in Cancels |-> IF c \in S THEN 0 ELSE patience[c]]

Place(kept, i) == Cardinality({j \in kept : j <= i})
Nth(kept, k) == CHOOSE i \in kept : Place(kept, i) = k

\* splice(): the requests S leave the queue, the others keep their order.
Without(q, S) ==
  LET kept == {i \in DOMAIN q : q[i] \notin S}
  IN  [k \in 1 .. Cardinality(kept) |-> q[Nth(kept, k)]]

\* The requests S leave the queue unsent and their callers hear so.
Withdraw(S) ==
  /\ st' = [o \in Ops |-> IF o \in S THEN "idle" ELSE st[o]]
  /\ queue' = Without(queue, S)
  /\ StopClocks(S)

\* dispatch() once beforeDispatch has let it through; E are withdrawn in the
\* same run.  A placement still has the token to wait for.
Send(o, E) ==
  /\ st' = [x \in Ops |-> IF x = o THEN IF o \in Placements THEN "dispatched" ELSE "onWire"
                          ELSE IF x \in E THEN "idle" ELSE st[x]]
  /\ queue' = Without(queue, E \union {o})
  /\ StopClocks(E \union {o})
  /\ since' = [since EXCEPT !["any"] = 0, ![Class(o)] = 0]
  /\ real' = [real EXCEPT !["any"] = 0, ![Class(o)] = 0]
  /\ spent' = IF o \in Cancels THEN Recorded(o) ELSE spent

\* dispatch(): a cancel spends from the budget here, or is refused here.
Dispatch(o, E) ==
  \/ (o \in Cancels => WithinBudget(o)) /\ Send(o, E)
  \/ /\ o \in Cancels /\ ~WithinBudget(o)
     /\ Withdraw(E \union {o})
     /\ spent' = Checked
     /\ UNCHANGED <<since, real>>

ExpiredInQueue == {o \in Range(queue) : Expired(o)}

AwakeOrStarting == loop \in {"now", "next"}

\* drainStep() finds nothing it may send: drainQueue() returns.
DrainNothing ==
  /\ AwakeOrStarting
  /\ PickNext = NoOp
  /\ Withdraw(ExpiredInQueue)
  /\ loop' = "ending"
  /\ UNCHANGED <<hung, nap, since, real, spent, cool, back>>

\* drainStep() owes the broker a gap and sleeps a slice of it.
DrainWait ==
  /\ AwakeOrStarting
  /\ LET next == PickNext
     IN  /\ next # NoOp
         /\ Wait(next) > 0
         /\ nap' = [op |-> next, gone |-> FALSE, slice |-> Slice(next), past |-> 0, served |-> 0]
  /\ Withdraw(ExpiredInQueue)
  /\ loop' = "waiting"
  /\ UNCHANGED <<hung, since, real, spent, cool, back>>

DrainDispatch ==
  /\ AwakeOrStarting
  /\ LET next == PickNext
     IN  /\ next # NoOp
         /\ Wait(next) = 0
         /\ Dispatch(next, ExpiredInQueue)
  /\ loop' = "next"
  /\ UNCHANGED <<hung, nap, cool, back>>

\* Mutant of StillQueued: the loop sends what it picked before it slept.
StillQueuedForgotten == TRUE

\* Was the request the loop picked withdrawn while it slept?
StillQueued == ~nap.gone

Awake == loop = "waiting" /\ nap.past >= nap.slice

\* The clock did not move: the gap cannot be measured, and the loop goes on.
Frozen(served) == served = 0

\* The sleep is over and everything is decided anew.
WakeAgain ==
  /\ Awake
  /\ ~StillQueued \/ ~Frozen(nap.served)
  /\ nap' = NoNap
  /\ loop' = "next"
  /\ UNCHANGED <<st, queue, hung, age, patience, since, real, spent, cool, back>>

\* What was in time when the sleep began is in time after a sleep in which the
\* clock did not move, so the deadline drainStep() asks for again is not passed.
WakeDispatch ==
  /\ Awake
  /\ StillQueued /\ Frozen(nap.served)
  /\ Dispatch(nap.op, {})
  /\ nap' = NoNap
  /\ loop' = "next"
  /\ UNCHANGED <<hung, cool, back>>

\* The finally of startScheduling(): what arrived since drainQueue() looked.
LoopAgain == IF \E i \in DOMAIN queue : Admissible(queue[i]) THEN "now" ELSE "idle"

LoopEnds ==
  /\ loop = "ending"
  /\ loop' = LoopAgain
  /\ UNCHANGED <<st, queue, hung, nap, age, patience, since, real, spent, cool, back>>

-----------------------------------------------------------------------------
(* Dispatched requests and their callers. *)

\* The release of a slot.
Release(o) ==
  /\ st' = [st EXCEPT ![o] = "idle"]
  /\ loop' = Started

\* Mutant of TokenArrives: the answer of the check before the queue is trusted.
TokenArrivesUnchecked(o) ==
  /\ Quiet /\ st[o] = "dispatched" /\ o \notin hung
  /\ st' = [st EXCEPT ![o] = "onWire"]
  /\ spent' = Recorded(o)
  /\ UNCHANGED <<loop, queue, hung, nap, age, patience, since, real, cool, back>>

\* beforeSend: the budget is asked again in the last synchronous instant.
TokenArrives(o) ==
  /\ Quiet /\ st[o] = "dispatched" /\ o \notin hung
  /\ \/ /\ WithinBudget(o)
        /\ st' = [st EXCEPT ![o] = "onWire"]
        /\ spent' = Recorded(o)
        /\ UNCHANGED loop
     \/ /\ ~WithinBudget(o)
        /\ spent' = Checked
        /\ Release(o)
  /\ UNCHANGED <<queue, hung, nap, age, patience, since, real, cool, back>>

\* Another guard of beforeSend refuses, or there is no token.
TokenRefused(o) ==
  /\ Quiet /\ st[o] = "dispatched" /\ o \notin hung
  /\ Release(o)
  /\ UNCHANGED <<queue, hung, nap, age, patience, since, real, spent, cool, back>>

\* penalize(): a cooldown is only ever extended.
Penalised == IF Metered THEN Larger(cool, Cooldown) ELSE cool

\* The broker answers, or the transport's own timeout ends the call.
Answered(o) ==
  /\ Quiet /\ st[o] = "onWire" /\ o \notin hung
  /\ cool' \in {cool, Penalised}
  /\ Release(o)
  /\ UNCHANGED <<queue, hung, nap, age, patience, since, real, spent, back>>

\* A call that is not a recovery takes for ever.
Hangs(o) ==
  /\ Quiet /\ o \in InFlight \intersect Hanging /\ o \notin hung
  /\ hung' = hung \union {o}
  /\ UNCHANGED <<st, queue, loop, nap, age, patience, since, real, spent, cool, back>>

\* withDeadline() fires and the cancel is still queued: abandon().
Abandon(o) ==
  /\ Quiet /\ o \in Cancels /\ st[o] = "queued" /\ patience[o] = 0
  /\ Withdraw({o})
  /\ nap' = [nap EXCEPT !.gone = @ \/ nap.op = o]
  /\ loop' = Started
  /\ UNCHANGED <<hung, since, real, spent, cool, back>>


-----------------------------------------------------------------------------
(* Time. *)

Tick ==
  /\ Quiet
  /\ age' = [o \in Ops |-> IF st[o] = "queued" THEN Smaller(age[o] + 1, AgeHorizon) ELSE 0]
  /\ patience' = [c \in Cancels |-> Larger(patience[c] - 1, 0)]
  /\ since' = [c \in Classes |-> Smaller(since[c] + 1, Horizon(c))]
  /\ real' = [c \in Classes |-> Smaller(real[c] + 1, Gap(c))]
  /\ spent' = [k \in Lists |-> [i \in DOMAIN spent[k] |-> Smaller(spent[k][i] + 1, SpanHorizon)]]
  /\ cool' = Larger(cool - 1, -Slack)
  /\ loop = "waiting" => nap.past < nap.slice
  /\ nap' = IF loop = "waiting" THEN [nap EXCEPT !.past = @ + 1, !.served = @ + 1] ELSE nap
  /\ UNCHANGED <<st, queue, hung, loop, back>>

\* The wall clock is set back.
StepBack(d) ==
  /\ Quiet /\ back + d <= MaxBack
  /\ back' = back + d
  /\ age' = [o \in Ops |-> IF st[o] = "queued" THEN age[o] - d ELSE 0]
  /\ since' = [c \in Classes |-> since[c] - d]
  /\ spent' = [k \in Lists |-> [i \in DOMAIN spent[k] |-> spent[k][i] - d]]
  /\ cool' = cool + d
  /\ nap' = IF loop = "waiting" THEN [nap EXCEPT !.served = @ - d] ELSE nap
  /\ UNCHANGED <<st, queue, hung, loop, patience, real>>

-----------------------------------------------------------------------------
Loop == DrainNothing \/ DrainWait \/ DrainDispatch \/ WakeAgain \/ WakeDispatch \/ LoopEnds

PacingNext ==
  \/ Loop
  \/ \E o \in Ops :
       \/ Submit(o) \/ SubmitRefused(o)
       \/ TokenArrives(o) \/ TokenRefused(o) \/ Answered(o) \/ Hangs(o)
       \/ Abandon(o)
  \/ Tick
  \/ \E d \in 1 .. MaxBack : StepBack(d)

PacingSpec == PacingInit /\ [][PacingNext]_pacingVars

\* The event loop runs what is due and time passes; a call that does not hang
\* ends.  Nobody is obliged to make a request, and no answer is assumed good.
PacingFairSpec ==
  /\ PacingSpec
  /\ WF_pacingVars(Loop) /\ WF_pacingVars(Tick)
  /\ \A o \in Ops : WF_pacingVars(TokenArrives(o) \/ TokenRefused(o) \/ Answered(o))

-----------------------------------------------------------------------------
(* Properties. *)

PacingTypeOK ==
  /\ st \in [Ops -> {"idle", "queued", "dispatched", "onWire"}]
  /\ queue \in Seq(Ops) /\ IsInjective(queue)
  /\ \A o \in Ops : st[o] = "queued" <=> o \in Range(queue)
  /\ hung \subseteq InFlight \intersect Hanging
  /\ loop \in {"idle", "now", "next", "waiting", "ending"}
  /\ nap \in Naps /\ (loop # "waiting" => nap = NoNap)
  /\ age \in [Ops -> -back .. AgeHorizon]
  /\ patience \in [Cancels -> 0 .. CancelTimeout]
  /\ since \in [Classes -> Int] /\ \A c \in Classes : since[c] \in -back .. Horizon(c)
  /\ real \in [Classes -> Int] /\ \A c \in Classes : real[c] \in 0 .. Gap(c)
  /\ spent \in [Lists -> Seq(-back .. SpanHorizon)]
  /\ cool \in -Slack .. Cooldown + back /\ back \in 0 .. MaxBack

\* The request is handed to the transport, or put on the wire, in this step.
Leaves(o) == st[o] \in {"idle", "queued"} /\ st'[o] \in {"dispatched", "onWire"}
Transmitted(o) == st[o] # "onWire" /\ st'[o] = "onWire"

\* A request whose caller has been answered is never sent afterwards: abandon()
\* proves that nothing was transmitted, also when the loop was asleep with that
\* very request picked (drainStep's check after its await).
WithdrawnNeverSent == [][\A o \in Ops : Leaves(o) => st[o] = "queued"]_pacingVars

\* Between any two calls the floor passes, and between two of a class its
\* interval, in real time, whatever the loop slept through and however the
\* clock is set back; the one exception is a clock that stood still over a
\* whole sleep, which drainStep lets through.
Spaced ==
  [][\A o \in Ops : Leaves(o) /\ ~(loop = "waiting" /\ nap.served = 0) =>
        real["any"] >= OrderGap /\ real[Class(o)] >= Gap(Class(o))]_pacingVars

\* What goes out does so outside a cooldown and within the published window, and
\* entries leave the recovery reserve alone, although an entry is checked before
\* it queues and others spend, or a 429 arrives, while it waits.
BudgetHeld ==
  [][\A o \in Orders : Transmitted(o) =>
        /\ cool <= 0
        /\ Used(spent') <= Limit
        /\ o \in Entries => Used(spent') <= Limit - Reserve]_pacingVars

\* A queued cancel or reduction leaves the queue even when polls and entry
\* placements hang for ever in the slots they were given.
RecoveryFlows == \A o \in Recovery : st[o] = "queued" ~> st[o] # "queued"

\* The loop looks and there is a slot this request could have.
Considered(o) == AwakeOrStarting /\ st[o] = "queued" /\ Admissible(o)

\* A request is not outranked for ever: if the loop keeps looking while there is
\* a slot for it, it leaves the queue in the end.
NobodyStarves == \A o \in Ops : []<>Considered(o) => []<>(st[o] # "queued")

\* What the comment above pickNext()'s aging says: no poll waits for ever, as
\* long as nothing hangs.  TLC refutes it: aging reorders only what is
\* admissible, and overlapping recoveries keep a poll inadmissible.
NoReadStarves == \A o \in Reads : st[o] = "queued" ~> st[o] # "queued" \/ hung # {}
=============================================================================
