----------------------------- MODULE OrderStream -----------------------------
(***************************************************************************)
(* The order-update stream of a live deployment: the life cycle that       *)
(* decides whether entry is permitted (OrderStreamStateMachine), the       *)
(* consumer that drives the reconciliation sweeps, the two transports      *)
(* (Kite's quote socket, Dhan's own order socket) and the single           *)
(* reconciliation pass of the order manager that every sweep waits for.    *)
(*                                                                         *)
(* The broker replays nothing: what happens to an order while no socket    *)
(* delivers is learned by a sweep or by the polls of the order's own       *)
(* execution.  One order at a time stands for the working orders; its      *)
(* last update is what can be missed.                                      *)
(*                                                                         *)
(* Left out: the strength of the authorisation's evidence and the state    *)
(* the projection publishes (nothing branches on them), a stream that is   *)
(* disabled (it never changes and never blocks), the feed's stop() (no     *)
(* caller), reports that miss a quantity and the targeted reconciliation   *)
(* they ask for (a pass of other origin here).                             *)
(***************************************************************************)
EXTENDS Integers, Sequences

CONSTANTS
  Brokers,       \* a subset of {"zerodha", "dhan"}
  MaxFaults,     \* bound on sockets that fail, close or fall silent
  MaxFailures,   \* bound on passes that fail or find the account inconsistent
  MaxOrders      \* bound on orders placed

ASSUME StreamConstants ==
  /\ Brokers \subseteq {"zerodha", "dhan"}
  /\ MaxFaults \in Nat /\ MaxFailures \in Nat /\ MaxOrders \in Nat

VARIABLES
  broker,     \* the active broker, chosen at boot
  feed,       \* down: no socket yet; off: none, and no timer; waiting: the reconnect timer runs; connecting; open
  alive,      \* whether the open socket still delivers
  state,      \* the life cycle: current of OrderStreamStateMachine
  owed,       \* reconcileOwed of the machine
  projOwed,   \* reconcileOwed of the projection
  gen,        \* the connection's generation
  ever,       \* everConnected
  sweeps,     \* sweeps that await the pass, in the order they began
  backoff,    \* whether nextSweepNotBeforeWall lies ahead
  silent,     \* whether no stream event came within expectedIdleMs
  pass,       \* the manager's pass: none, started, loaded, listed
  covers,     \* whether the order was among the intents the pass loaded
  early,      \* whether the pass had loaded when the present connection came
  order,      \* none, working, or ended at the broker and not yet learned
  wire,       \* whether the order's last update is on its way
  granted,    \* how READY was reached: by a sweep whose pass was fresh, or joined after it had loaded
  faults, failures, placed

machineVars == <<state, owed, projOwed, gen, ever, granted>>
sweepVars == <<sweeps, backoff>>
passVars == <<pass, covers, early>>
orderVars == <<order, wire, placed>>
vars == <<broker, feed, alive, state, owed, projOwed, gen, ever, sweeps, backoff, silent, pass,
          covers, early, order, wire, granted, faults, failures, placed>>

States ==
  {"DISCONNECTED", "CONNECTING", "RECONCILING", "READY", "DEGRADED", "AUTH_EXPIRED"}

\* What a sweep remembers: its generation (startedAtGeneration), and for the
\* properties whether it joined a pass that had loaded before its connection.
SweepRecord == [gen : Nat, joined : BOOLEAN]

TypeOK ==
  /\ broker \in Brokers
  /\ feed \in {"down", "off", "waiting", "connecting", "open"}
  /\ state \in States
  /\ alive \in BOOLEAN /\ owed \in BOOLEAN /\ projOwed \in BOOLEAN /\ ever \in BOOLEAN
  /\ backoff \in BOOLEAN /\ silent \in BOOLEAN
  /\ covers \in BOOLEAN /\ early \in BOOLEAN /\ wire \in BOOLEAN
  /\ gen \in Nat
  /\ sweeps \in Seq(SweepRecord)
  /\ pass \in {"none", "started", "loaded", "listed"}
  /\ order \in {"none", "working", "ended"}
  /\ granted \in {"none", "fresh", "joined"}
  /\ faults \in 0 .. MaxFaults /\ failures \in 0 .. MaxFailures /\ placed \in 0 .. MaxOrders

Init ==
  /\ broker \in Brokers
  /\ feed = "down" /\ alive = FALSE
  /\ state = "DISCONNECTED" /\ owed = FALSE /\ projOwed = FALSE /\ gen = 0 /\ ever = FALSE
  /\ sweeps = <<>> /\ backoff = FALSE /\ silent = FALSE
  /\ pass = "none" /\ covers = FALSE /\ early = FALSE
  /\ order = "none" /\ wire = FALSE /\ granted = "none"
  /\ faults = 0 /\ failures = 0 /\ placed = 0

Established == state \in {"RECONCILING", "READY", "DEGRADED"}

\* reconcilePending(): either holder owing one is enough.
Pending == owed \/ projOwed

\* The broker sends updates to a session that has logged in.
Delivering == feed = "open" /\ alive /\ Established

Fault == faults < MaxFaults /\ faults' = faults + 1

-----------------------------------------------------------------------------
(* Sweeps. *)

\* sweepInFlight for generation g.  All sweeps await the same pass and end with
\* it, so the barrier in the field is the latest one's.
InFlight(g) == sweeps # <<>> /\ sweeps[Len(sweeps)].gen = g

\* A sweep of generation g begins: reconcile() starts a pass or joins the one
\* under way.
Sweep(g, joined) ==
  /\ sweeps' = Append(sweeps, [gen |-> g, joined |-> joined])
  /\ pass' = IF pass = "none" THEN "started" ELSE pass

\* onAuthenticated() of a connection that is not established, and the sweep its
\* caller starts at once.
Authenticate ==
  /\ ~Established
  /\ state' = "RECONCILING" /\ owed' = TRUE /\ gen' = gen + 1 /\ ever' = TRUE
  /\ projOwed' = (projOwed \/ ever)
  /\ backoff' = FALSE /\ silent' = FALSE
  /\ early' = (pass \in {"loaded", "listed"})
  /\ Sweep(gen + 1, early')
  /\ UNCHANGED <<granted, covers>>

\* executeSweep(): the result counts for the connection it was started under.
\* An equal generation means no drop since, so the stream is established.
ResultApplies(s) == s.gen = gen

\* Mutant of Proves: a sweep that resolved at all promotes.
ProvesAnyway(consistent) == TRUE

\* The verdict of a sweep is checked, not only awaited.
Proves(consistent) == consistent

\* The pass settles, and with it every sweep that awaits it.
PassEnds(consistent) ==
  LET current == {i \in DOMAIN sweeps : ResultApplies(sweeps[i])}
  IN /\ IF consistent THEN pass = "listed" /\ UNCHANGED failures
        ELSE pass # "none" /\ failures < MaxFailures /\ failures' = failures + 1
     /\ pass' = "none" /\ covers' = FALSE /\ early' = FALSE /\ sweeps' = <<>>
     /\ IF current = {} THEN UNCHANGED <<machineVars, backoff>>
        ELSE IF Proves(consistent)
        THEN /\ state' = "READY" /\ owed' = FALSE /\ projOwed' = FALSE /\ backoff' = FALSE
             /\ granted' = IF \E i \in current : sweeps[i].joined THEN "joined" ELSE "fresh"
             /\ UNCHANGED <<gen, ever>>
        ELSE backoff' = TRUE /\ UNCHANGED machineVars
     /\ UNCHANGED <<broker, feed, alive, silent, orderVars, faults>>

\* performReconcile() reads the intents it will look for ...
PassLoads ==
  /\ pass = "started"
  /\ pass' = "loaded" /\ covers' = (order # "none")
  /\ UNCHANGED <<broker, feed, alive, machineVars, sweepVars, silent, early, orderVars, faults, failures>>

\* ... and then the broker's orders; an order placed in between is an orphan to it.
PassLists ==
  /\ pass = "loaded"
  /\ pass' = "listed"
  /\ IF covers /\ order = "ended" THEN order' = "none" /\ wire' = FALSE
     ELSE UNCHANGED <<order, wire>>
  /\ UNCHANGED <<broker, feed, alive, machineVars, sweepVars, silent, covers, early, placed, faults, failures>>

\* A pass of other origin: the timer, the takeover of the lease, an operator,
\* an order whose report left its quantity out.
OtherPass ==
  /\ pass = "none"
  /\ pass' = "started"
  /\ UNCHANGED <<broker, feed, alive, machineVars, sweepVars, silent, covers, early, orderVars, faults, failures>>

\* Mutant of Sweepable: a stream found idle is left to the next connection.
SweepableReconciling(s) == s \in {"RECONCILING", "READY"}

\* The states in which ensureReconciled() drives an owed reconciliation.
Sweepable(s) == s \in {"RECONCILING", "DEGRADED", "READY"}

\* orderStreamState(), read by every entry and by the status: evaluateIdle(),
\* then ensureReconciled().
Poll ==
  LET idle == order # "none" /\ state \in {"READY", "RECONCILING"} /\ silent
      next == IF idle THEN "DEGRADED" ELSE state
      sweep == Pending /\ ~InFlight(gen) /\ Sweepable(next) /\ ~backoff
  IN /\ idle \/ sweep
     /\ state' = next
     /\ IF sweep THEN Sweep(gen, early) ELSE UNCHANGED <<sweeps, pass>>
     /\ UNCHANGED <<broker, feed, alive, owed, projOwed, gen, ever, granted, backoff, silent, covers, early,
                    orderVars, faults, failures>>

-----------------------------------------------------------------------------
(* Connections. *)

Expired == state = "AUTH_EXPIRED"

\* onDisconnected(); the machine stays expired, the projection hears it anyway.
Disconnected ==
  /\ state' = IF Expired THEN state ELSE "DISCONNECTED"
  /\ gen' = IF Expired THEN gen ELSE gen + 1

\* onSessionLost(), alone or after the drop that the same close reported.
SessionLost(dropped) ==
  /\ state' = "AUTH_EXPIRED"
  /\ gen' = IF dropped /\ ~Expired THEN gen + 2 ELSE gen + 1

\* The socket is gone, and with it what was on its way; a reconciliation is owed.
Unplugged ==
  /\ alive' = FALSE /\ wire' = FALSE
  /\ owed' = TRUE /\ projOwed' = TRUE /\ granted' = "none"
  /\ UNCHANGED <<broker, ever, order, placed, sweepVars, silent, passVars, failures>>

\* startOrderStreamTransports() only announces Kite's stream: it rides the
\* quote socket, which may not have come up yet.
KiteAnnounced ==
  /\ broker = "zerodha" /\ state = "DISCONNECTED" /\ ~ever
  /\ state' = "CONNECTING"
  /\ UNCHANGED <<broker, feed, alive, owed, projOwed, gen, ever, granted, sweepVars, silent, passVars,
                 orderVars, faults, failures>>

\* driveQuoteSocketLifecycle(true): open is authorised.  The lane reopens on
\* its own or after a new login.
KiteOpens ==
  /\ broker = "zerodha" /\ feed = "down"
  /\ feed' = "open" /\ alive' = TRUE
  /\ Authenticate
  /\ UNCHANGED <<broker, orderVars, faults, failures>>

\* driveQuoteSocketLifecycle(false), whatever the reason of the close.
KiteCloses ==
  /\ broker = "zerodha" /\ feed = "open" /\ Fault
  /\ feed' = "down"
  /\ Disconnected /\ Unplugged

\* ensureSocket() of Dhan's order feed, at start and from the timer: no token
\* (nobody asks again), a socket, or none because its construction failed.
DhanConnects ==
  /\ broker = "dhan" /\ feed \in {"down", "waiting"}
  /\ \/ feed' = "off" /\ Fault /\ UNCHANGED state
     \/ feed' = "connecting" /\ state' = "CONNECTING" /\ UNCHANGED faults
     \/ feed' = "waiting" /\ state' = "CONNECTING" /\ Fault
  /\ UNCHANGED <<broker, alive, owed, projOwed, gen, ever, granted, sweepVars, silent, passVars,
                 orderVars, failures>>

\* onopen: the login frame is written, which is all Dhan says about it.
DhanOpens ==
  /\ broker = "dhan" /\ feed = "connecting"
  /\ feed' = "open" /\ alive' = TRUE
  /\ Authenticate
  /\ UNCHANGED <<broker, orderVars, faults, failures>>

\* The login frame cannot be written; the socket stays, logged out.
DhanLoginFails ==
  /\ broker = "dhan" /\ feed = "connecting" /\ Fault
  /\ feed' = "open"
  /\ SessionLost(FALSE) /\ Unplugged

\* onclose.  A rejected session is reported as a drop and as a loss, and ends
\* the reconnecting.
DhanCloses ==
  /\ broker = "dhan" /\ feed \in {"connecting", "open"} /\ Fault
  /\ \/ feed' = "waiting" /\ Disconnected
     \/ feed' = "off" /\ SessionLost(TRUE)
  /\ Unplugged

\* The connection dies without a close.
FallsSilent ==
  /\ Delivering /\ Fault
  /\ alive' = FALSE /\ wire' = FALSE
  /\ UNCHANGED <<broker, feed, machineVars, sweepVars, silent, passVars, order, placed, failures>>

-----------------------------------------------------------------------------
(* Orders and time. *)

\* execute() registers the order and sends it: an entry when the stream permits
\* it, a reduction in any state.
Places ==
  /\ order = "none" /\ placed < MaxOrders
  /\ order' = "working" /\ placed' = placed + 1
  /\ covers' = FALSE
  /\ UNCHANGED <<broker, feed, alive, machineVars, sweepVars, silent, pass, early, wire, faults, failures>>

\* The broker ends the order and tells the session, if there is one.
Ends ==
  /\ order = "working"
  /\ order' = "ended" /\ wire' = Delivering
  /\ UNCHANGED <<broker, feed, alive, machineVars, sweepVars, silent, passVars, placed, faults, failures>>

\* ingestStreamObservation(): an update of an order that goes on ...
Progress ==
  /\ order = "working" /\ Delivering /\ silent
  /\ silent' = FALSE
  /\ UNCHANGED <<broker, feed, alive, machineVars, sweepVars, passVars, orderVars, faults, failures>>

\* ... or the last one.
Delivered ==
  /\ wire
  /\ order' = "none" /\ wire' = FALSE /\ silent' = FALSE
  /\ UNCHANGED <<broker, feed, alive, machineVars, sweepVars, passVars, placed, faults, failures>>

\* Mutant of PollSaysWorking: REST evidence counts as news from the stream.
PollSaysWorkingAsNews == order = "working" /\ silent' = FALSE /\ UNCHANGED <<order, wire>>

\* ingestRestObservation() does not touch lastStreamEventAtWall.
PollSaysWorking == order = "working" /\ UNCHANGED <<silent, order, wire>>

\* The answer to a poll of the order's own execution.
RestPoll ==
  /\ \/ PollSaysWorking
     \/ order = "ended" /\ order' = "none" /\ wire' = FALSE /\ UNCHANGED silent
  /\ UNCHANGED <<broker, feed, alive, machineVars, sweepVars, passVars, placed, faults, failures>>

IdleTimePasses ==
  /\ Established /\ ~silent
  /\ silent' = TRUE
  /\ UNCHANGED <<broker, feed, alive, machineVars, sweepVars, passVars, orderVars, faults, failures>>

BackoffPasses ==
  /\ backoff
  /\ backoff' = FALSE
  /\ UNCHANGED <<broker, feed, alive, machineVars, sweeps, silent, passVars, orderVars, faults, failures>>

-----------------------------------------------------------------------------
Pass == PassLoads \/ PassLists \/ \E consistent \in BOOLEAN : PassEnds(consistent)

Next ==
  \/ Pass \/ OtherPass \/ Poll
  \/ KiteAnnounced \/ KiteOpens \/ KiteCloses
  \/ DhanConnects \/ DhanOpens \/ DhanLoginFails \/ DhanCloses \/ FallsSilent
  \/ Places \/ Ends \/ Progress \/ Delivered \/ RestPoll \/ IdleTimePasses \/ BackoffPasses

Spec == Init /\ [][Next]_vars

\* A pass ends, each of its calls having a timeout; time passes; an entry that
\* is refused is tried again, and each attempt reads the stream's state.
Fairness == WF_vars(Pass) /\ WF_vars(Poll) /\ WF_vars(IdleTimePasses) /\ WF_vars(BackoffPasses)

FairSpec == Spec /\ Fairness

-----------------------------------------------------------------------------
(* Properties. *)

Missed == order = "ended" /\ ~wire

\* Entry is permitted on no order whose end fell into a gap between two
\* connections, unless the sweep that reopened entry had joined a pass that was
\* already past its reading when the connection came (runReconnectReconciliation,
\* markSynchronized and the generations they compare).
GapRepairedUnlessJoined == state = "READY" /\ alive /\ granted = "fresh" => ~Missed

\* The same without the exception, which reconcile() does not keep.
GapRepaired == state = "READY" /\ alive => ~Missed

\* What an established connection owes is paid while it lasts, though sweeps
\* fail, idleness demotes the stream, and a sweep of the connection before is
\* still under way (ensureReconciled and its back-off).
OwedIsPaid == (Established /\ Pending) ~> (~Established \/ ~Pending)

\* A socket that died without a close, while the end of an order went missing,
\* does not leave entry open (evaluateIdle and the clock it reads).
LossIsNoticed == (state = "READY" /\ feed = "open" /\ ~alive /\ order # "none") ~> (state # "READY" \/ order = "none")

\* A stream that idleness demoted comes back while its connection lasts.
DegradedRecovers == (state = "DEGRADED" /\ alive) ~> (state # "DEGRADED" \/ ~alive)
=============================================================================
