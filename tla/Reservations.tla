---------------------------- MODULE Reservations ----------------------------
(***************************************************************************)
(* Instrument reservations: the durable tier (reservations/durable.ts over *)
(* pgStore.ts) and the coordinator that books a box's contracts before its *)
(* legs are sent, renews the booking while they work, and keeps it over an *)
(* uncertain end (executionCoordinator.ts).                                *)
(*                                                                         *)
(* An owner is one entry execution; its id is minted once, so an owner     *)
(* acquires at most one row.  A process is one boot, and owners of several *)
(* processes want the same contracts.  Time is the database's clock: what  *)
(* process p computes as authority time is now + err[p], its measurement   *)
(* being wrong by at most ClockError, and every re-measurement may change  *)
(* the error while a call is on its way.  The code stops waiting for a     *)
(* contract, and stops renewing a hold, after a configured time; here both *)
(* timers may fire at any moment.                                          *)
(*                                                                         *)
(* Left out: the in-process tier of the chain, which can only refuse more; *)
(* the paper fallback to it; exits, which run without a guard; the broker  *)
(* switch, refused while anything is reserved (engine.ts 7979); and, in    *)
(* tryAcquireAll, the branches for a row the owner already has, which a    *)
(* fresh id never meets.                                                   *)
(***************************************************************************)
EXTENDS Integers, Sequences

CONSTANTS Processes, Owners, Contracts,
          ProcessOf,    \* the process an owner runs in
          KeysOf,       \* the contracts it wants, all or none
          Ttl,          \* instrumentLockTtlMs
          Grace,        \* reservationClockSkewGraceMs
          Margin,       \* reservationOwnershipMarginMs
          ClockErrors,  \* the errors of a measured clock offset
          ClockError,   \* and the worst of them, either way
          MaxSpare,     \* MAX_SPARE_FENCES
          MaxTime,      \* bound: how far the clock is followed
          MaxFaults,    \* bound: crashes and failed statements
          MaxSyncs,     \* bound: offsets measured again
          None

ASSUME OwnersAssumption ==
  /\ ProcessOf \in [Owners -> Processes]
  /\ KeysOf \in [Owners -> (SUBSET Contracts) \ {{}}]

ASSUME TimesAssumption ==
  /\ Ttl \in Nat /\ Grace \in Nat /\ Margin \in Nat /\ ClockError \in Nat
  /\ ClockErrors \subseteq -ClockError..ClockError
  /\ MaxSpare \in Nat /\ MaxTime \in Nat 
  /\ MaxFaults \in Nat /\ MaxSyncs \in Nat

\* The dead band between a holder that stops and a challenger that reclaims
\* has to cover two measurement errors on each side.
ASSUME DeadBandAssumption == Margin + Grace >= 4 * ClockError

VARIABLES now,       \* the database's clock
          err,       \* per process: measured authority time minus the true one
          alive,
          row,       \* box_reservation_owners, one row per owner, with its keys
          lastFence, \* the fence sequence
          spare,     \* spareFences
          pc,        \* where an execution stands in coordinateEntry and after
          call,      \* the tryAcquireAll under way
          lease,     \* the coordinator's lease: fence, and expiresAt
          lost,      \* ownershipLost, and its alarm was raised
          renewal,   \* a heartbeat's renew under way
          exposed,   \* legs were sent and their end is not known
          faults,    \* crashes and failed statements so far
          syncs      \* offsets measured again so far

vars == <<now, err, alive, row, lastFence, spare, pc, call, lease, lost, renewal, exposed, faults, syncs>>

Phases == {"idle", "insert", "reclaim", "waiting", "confirm", "active", "hold", "releasing", "done"}

Row == [fence : Nat, expires : Int]
Call == [at : Int, fence : Nat, again : BOOLEAN, waited : BOOLEAN]
Lease == [fence : Nat, until : Int]
Renewal == [at : Int, fence : Nat, applied : BOOLEAN, of : {"active", "hold"}]

ASSUME NoneAssumption == None \notin Row \cup Call \cup Lease \cup Renewal

Init ==
  /\ now = 0
  /\ err \in [Processes -> ClockErrors]
  /\ alive = [p \in Processes |-> TRUE]
  /\ row = [o \in Owners |-> None]
  /\ lastFence = 0
  /\ spare = [p \in Processes |-> << >>]
  /\ pc = [o \in Owners |-> "idle"]
  /\ call = [o \in Owners |-> None]
  /\ lease = [o \in Owners |-> None]
  /\ lost = [o \in Owners |-> FALSE]
  /\ renewal = [o \in Owners |-> None]
  /\ exposed = [o \in Owners |-> FALSE]
  /\ faults = 0 /\ syncs = 0

Alive(o) == alive[ProcessOf[o]]
Error(o) == err[ProcessOf[o]]

\* toAuthority(now), and toLocal(expiresAt) read on the database's clock.
ToAuthority(o) == now + Error(o)
ToLocal(o, expires) == expires - Error(o)

Fault == faults < MaxFaults /\ faults' = faults + 1

Contends(o, q) == o # q /\ KeysOf[o] \cap KeysOf[q] # {}

-----------------------------------------------------------------------------
(* tryAcquireAll *)

\* The keys' primary key admits one owner.
Vacant(o) == \A q \in Owners : Contends(o, q) => row[q] = None

\* The fence is a recycled one if the process has one, else the next of the
\* sequence.
TryAcquireAll(o) ==
  LET p == ProcessOf[o]
      n == Len(spare[p])
      fence == IF n > 0 THEN spare[p][n] ELSE lastFence + 1
  IN /\ Alive(o)
     /\ pc[o] \in {"idle", "waiting"}
     /\ call' = [call EXCEPT ![o] = [at |-> ToAuthority(o), fence |-> fence,
                                     again |-> FALSE, waited |-> pc[o] = "waiting"]]
     /\ spare' = IF n > 0 THEN [spare EXCEPT ![p] = SubSeq(@, 1, n - 1)] ELSE spare
     /\ lastFence' = IF n > 0 THEN lastFence ELSE lastFence + 1
     /\ pc' = [pc EXCEPT ![o] = "insert"]
     /\ UNCHANGED <<now, err, alive, row, lease, lost, renewal, exposed, faults, syncs>>

Inserted(o) ==
  row' = [row EXCEPT ![o] = [fence |-> call[o].fence, expires |-> call[o].at + Ttl]]

\* An entry that did not wait is granted at once; one that did is confirmed.
Insert(o) ==
  /\ Alive(o)
  /\ pc[o] = "insert" /\ Vacant(o)
  /\ Inserted(o)
  /\ lease' = [lease EXCEPT ![o] = [fence |-> call[o].fence,
                                    until |-> ToLocal(o, call[o].at + Ttl)]]
  /\ pc' = [pc EXCEPT ![o] = IF call[o].waited THEN "confirm" ELSE "active"]
  /\ call' = [call EXCEPT ![o] = None]
  /\ UNCHANGED <<now, err, alive, lastFence, spare, lost, renewal, exposed, faults, syncs>>

\* The row is committed and nobody hears of it: the answer is lost or the
\* process died.  The entry fails closed and the row stays until it expires.
InsertUnheard(o) ==
  /\ Fault
  /\ pc[o] = "insert" /\ Vacant(o)
  /\ Inserted(o)
  /\ pc' = [pc EXCEPT ![o] = "done"]
  /\ call' = [call EXCEPT ![o] = None]
  /\ UNCHANGED <<now, err, alive, lastFence, spare, lease, lost, renewal, exposed, syncs>>

RecycleFence(o) ==
  spare' = [spare EXCEPT ![ProcessOf[o]] =
              IF Len(@) < MaxSpare THEN Append(@, call[o].fence) ELSE @]

\* findLiveByKeys only words the refusal.
Conflict(o) ==
  /\ RecycleFence(o)
  /\ pc' = [pc EXCEPT ![o] = "waiting"]
  /\ call' = [call EXCEPT ![o] = None]

KeyConflict(o) ==
  /\ Alive(o)
  /\ pc[o] = "insert" /\ ~Vacant(o)
  /\ IF call[o].again
     THEN Conflict(o)
     ELSE pc' = [pc EXCEPT ![o] = "reclaim"] /\ UNCHANGED <<call, spare>>
  /\ UNCHANGED <<now, err, alive, row, lastFence, lease, lost, renewal, exposed, faults, syncs>>

\* deleteExpired: a row a challenger may remove at what it takes for time t.
Expired(q, t) == row[q] # None /\ row[q].expires <= t - Grace

Deleted(S) == row' = [q \in Owners |-> IF q \in S THEN None ELSE row[q]]

\* The contender removes expired rows in its way and, if there were any,
\* inserts once more; its idea of the time is the one of the call's start.
Reclaim(o) ==
  LET stale == {q \in Owners : Contends(o, q) /\ Expired(q, call[o].at)}
  IN /\ Alive(o)
     /\ pc[o] = "reclaim"
     /\ Deleted(stale)
     /\ \/ /\ stale # {}
           /\ pc' = [pc EXCEPT ![o] = "insert"]
           /\ call' = [call EXCEPT ![o].again = TRUE]
           /\ UNCHANGED spare
        \/ stale = {} /\ Conflict(o)
     /\ UNCHANGED <<now, err, alive, lastFence, lease, lost, renewal, exposed, faults, syncs>>

\* An exception of any statement: live entry is refused.
AcquireUnavailable(o) ==
  /\ Fault
  /\ Alive(o)
  /\ pc[o] \in {"insert", "reclaim"}
  /\ pc' = [pc EXCEPT ![o] = "done"]
  /\ call' = [call EXCEPT ![o] = None]
  /\ UNCHANGED <<now, err, alive, row, lastFence, spare, lease, lost, renewal, exposed, syncs>>

\* waitForKeys reached its deadline.
GiveUp(o) ==
  /\ Alive(o)
  /\ pc[o] = "waiting"
  /\ pc' = [pc EXCEPT ![o] = "done"]
  /\ UNCHANGED <<now, err, alive, row, lastFence, spare, call, lease, lost, renewal, exposed, faults, syncs>>

-----------------------------------------------------------------------------
(* confirmBeforeSubmit, the guard, and the end of an execution *)

Owned(o) ==
  /\ row[o] # None
  /\ row[o].fence = lease[o].fence
  /\ row[o].expires - Grace > ToAuthority(o)

Verify(o) ==
  /\ Alive(o)
  /\ pc[o] = "confirm"
  /\ pc' = [pc EXCEPT ![o] = IF Owned(o) THEN "active" ELSE "releasing"]
  /\ UNCHANGED <<now, err, alive, row, lastFence, spare, call, lease, lost, renewal, exposed, faults, syncs>>

\* The edge is gone after the wait, or verify could not be asked.
AbandonGrant(o) ==
  /\ Alive(o)
  /\ pc[o] = "confirm"
  /\ pc' = [pc EXCEPT ![o] = "releasing"]
  /\ UNCHANGED <<now, err, alive, row, lastFence, spare, call, lease, lost, renewal, exposed, faults, syncs>>

\* Mutant: the holder counts on its lease to the last moment.
OwnershipGuardToTheEnd(o) ==
  /\ pc[o] = "active"
  /\ ~lost[o]
  /\ now < lease[o].until

OwnershipGuard(o) ==
  /\ pc[o] = "active"
  /\ ~lost[o]
  /\ now < lease[o].until - Margin

\* A leg is sent: the guard is read in the same synchronous step.
SendLeg(o) ==
  /\ Alive(o)
  /\ OwnershipGuard(o)
  /\ exposed' = [exposed EXCEPT ![o] = TRUE]
  /\ UNCHANGED <<now, err, alive, row, lastFence, spare, pc, call, lease, lost, renewal, faults, syncs>>

SettleClean(o) ==
  /\ Alive(o)
  /\ pc[o] = "active"
  /\ pc' = [pc EXCEPT ![o] = "releasing"]
  /\ exposed' = [exposed EXCEPT ![o] = FALSE]
  /\ UNCHANGED <<now, err, alive, row, lastFence, spare, call, lease, lost, renewal, faults, syncs>>

\* The coordinator's record of an execution, or of its hold, is gone.
Ended(o) ==
  /\ pc' = [pc EXCEPT ![o] = "done"]
  /\ lease' = [lease EXCEPT ![o] = None]

\* Mutant: every end of an execution releases.
SettleUncertainReleases(o) ==
  /\ Alive(o)
  /\ pc[o] = "active"
  /\ pc' = [pc EXCEPT ![o] = "releasing"]
  /\ UNCHANGED <<now, err, alive, row, lastFence, spare, call, lease, lost, renewal, exposed, faults, syncs>>

\* retain: a lease that was lost is not held on to.
SettleUncertain(o) ==
  /\ Alive(o)
  /\ pc[o] = "active"
  /\ \/ lost[o] /\ Ended(o)
     \/ ~lost[o] /\ pc' = [pc EXCEPT ![o] = "hold"] /\ UNCHANGED lease
  /\ UNCHANGED <<now, err, alive, row, lastFence, spare, call, lost, renewal, exposed, faults, syncs>>

\* A release deletes by owner and fence; it may land after the process died.
Release(o) ==
  /\ pc[o] = "releasing"
  /\ Deleted({q \in {o} : row[q] # None /\ row[q].fence = lease[q].fence})
  /\ Ended(o)
  /\ UNCHANGED <<now, err, alive, lastFence, spare, call, lost, renewal, exposed, faults, syncs>>

\* The release never reaches the database: the row is left to expire.
ReleaseFails(o) ==
  /\ Fault
  /\ pc[o] = "releasing"
  /\ Ended(o)
  /\ UNCHANGED <<now, err, alive, row, lastFence, spare, call, lost, renewal, exposed, syncs>>

-----------------------------------------------------------------------------
(* The heartbeat *)

RenewTick(o) ==
  /\ Alive(o)
  /\ (pc[o] = "active" /\ ~lost[o]) \/ pc[o] = "hold"
  /\ renewal[o] = None
  /\ renewal' = [renewal EXCEPT ![o] = [at |-> ToAuthority(o), fence |-> lease[o].fence,
                                           applied |-> FALSE, of |-> pc[o]]]
  /\ UNCHANGED <<now, err, alive, row, lastFence, spare, pc, call, lease, lost, exposed, faults, syncs>>

\* renewOwned's WHERE clause.
Renewable(o) ==
  /\ row[o] # None
  /\ row[o].fence = renewal[o].fence
  /\ row[o].expires > renewal[o].at

RenewApplied(o) ==
  /\ renewal[o] # None /\ ~renewal[o].applied
  /\ Renewable(o)
  /\ row' = [row EXCEPT ![o].expires = renewal[o].at + Ttl]
  /\ renewal' = [renewal EXCEPT ![o].applied = TRUE]
  /\ UNCHANGED <<now, err, alive, lastFence, spare, pc, call, lease, lost, exposed, faults, syncs>>

\* The answer updates the record it was asked for: the active execution's
\* lease, or the hold's, and neither if that record is gone.
RenewAnswered(o) ==
  /\ Alive(o)
  /\ renewal[o] # None /\ renewal[o].applied
  /\ lease' = IF pc[o] = renewal[o].of
              THEN [lease EXCEPT ![o].until = ToLocal(o, renewal[o].at + Ttl)]
              ELSE lease
  /\ renewal' = [renewal EXCEPT ![o] = None]
  /\ UNCHANGED <<now, err, alive, row, lastFence, spare, pc, call, lost, exposed, faults, syncs>>

\* ownershipLost, and with it the invariantViolation that quarantines the
\* live path.
OwnershipLost(o) == lost' = [lost EXCEPT ![o] = TRUE]

\* renewOwned matched nothing: an active execution lost its contracts for
\* good, and a hold is dropped.
RenewRefused(o) ==
  /\ Alive(o)
  /\ renewal[o] # None /\ ~renewal[o].applied
  /\ ~Renewable(o)
  /\ \/ renewal[o].of = "active" /\ OwnershipLost(o) /\ UNCHANGED <<pc, lease>>
     \/ renewal[o].of = "hold" /\ Ended(o) /\ UNCHANGED lost
  /\ renewal' = [renewal EXCEPT ![o] = None]
  /\ UNCHANGED <<now, err, alive, row, lastFence, spare, call, exposed, faults, syncs>>

\* An exception, before or after the update took effect: an active execution
\* gives up, a hold stays.
RenewUnavailable(o) ==
  /\ Fault
  /\ Alive(o)
  /\ renewal[o] # None
  /\ \/ renewal[o].of = "active" /\ OwnershipLost(o)
     \/ renewal[o].of = "hold" /\ UNCHANGED lost
  /\ renewal' = [renewal EXCEPT ![o] = None]
  /\ UNCHANGED <<now, err, alive, row, lastFence, spare, pc, call, lease, exposed, syncs>>

\* A hold older than reservationUncertainHoldMaxMs is no longer renewed.
HoldAbandoned(o) ==
  /\ Alive(o)
  /\ pc[o] = "hold" /\ renewal[o] = None
  /\ Ended(o)
  /\ UNCHANGED <<now, err, alive, row, lastFence, spare, call, lost, renewal, exposed, faults, syncs>>

-----------------------------------------------------------------------------
(* Clocks and processes *)

\* syncClock measures the offset again.
SyncClock(p) ==
  /\ alive[p]
  /\ syncs < MaxSyncs /\ syncs' = syncs + 1
  /\ \E e \in ClockErrors \ {err[p]} : err' = [err EXCEPT ![p] = e]
  /\ UNCHANGED <<now, alive, row, lastFence, spare, pc, call, lease, lost, renewal, exposed, faults>>

\* reapExpired, once the store is built at boot.
ReapExpired(p) ==
  LET stale == {q \in Owners : Expired(q, now + err[p])}
  IN /\ alive[p]
     /\ \A o \in Owners : ProcessOf[o] = p => pc[o] = "idle"
     /\ stale # {}
     /\ Deleted(stale)
     /\ UNCHANGED <<now, err, alive, lastFence, spare, pc, call, lease, lost, renewal, exposed, faults, syncs>>

\* What is left of a dead process is in the database, or on its way there.
Crash(p) ==
  LET gone == {o \in Owners : ProcessOf[o] = p /\ pc[o] \notin {"insert", "releasing"}}
  IN /\ Fault
     /\ alive[p]
     /\ alive' = [alive EXCEPT ![p] = FALSE]
     /\ spare' = [spare EXCEPT ![p] = << >>]
     /\ pc' = [o \in Owners |-> IF o \in gone THEN "done" ELSE pc[o]]
     /\ call' = [o \in Owners |-> IF o \in gone THEN None ELSE call[o]]
     /\ lease' = [o \in Owners |-> IF o \in gone THEN None ELSE lease[o]]
     /\ UNCHANGED <<now, err, row, lastFence, lost, renewal, exposed, syncs>>

Tick ==
  /\ now < MaxTime
  /\ now' = now + 1
  /\ UNCHANGED <<err, alive, row, lastFence, spare, pc, call, lease, lost, renewal, exposed, faults, syncs>>

Acquire(o) ==
  \/ TryAcquireAll(o) \/ Insert(o) \/ InsertUnheard(o) \/ KeyConflict(o)
  \/ Reclaim(o) \/ AcquireUnavailable(o) \/ GiveUp(o)

Execute(o) ==
  \/ Verify(o) \/ AbandonGrant(o) \/ SendLeg(o) \/ SettleClean(o) \/ SettleUncertain(o)
  \/ Release(o) \/ ReleaseFails(o)

Heartbeat(o) ==
  \/ RenewTick(o) \/ RenewApplied(o) \/ RenewAnswered(o) \/ RenewRefused(o)
  \/ RenewUnavailable(o) \/ HoldAbandoned(o)

Next ==
  \/ \E o \in Owners : Acquire(o) \/ Execute(o) \/ Heartbeat(o)
  \/ \E p \in Processes : SyncClock(p) \/ ReapExpired(p) \/ Crash(p)
  \/ Tick

Spec == Init /\ [][Next]_vars

-----------------------------------------------------------------------------
(* Properties *)

\* Types, at most MaxSpare fences kept for reuse, a record of a call or of a
\* lease exactly while the execution has one, and a renewal under way only
\* after the grant.
TypeOK ==
  /\ now \in Nat
  /\ err \in [Processes -> ClockErrors]
  /\ alive \in [Processes -> BOOLEAN]
  /\ row \in [Owners -> Row \cup {None}]
  /\ lastFence \in Nat
  /\ spare \in [Processes -> Seq(Nat)]
  /\ \A p \in Processes : Len(spare[p]) <= MaxSpare
  /\ pc \in [Owners -> Phases]
  /\ call \in [Owners -> Call \cup {None}]
  /\ lease \in [Owners -> Lease \cup {None}]
  /\ lost \in [Owners -> BOOLEAN]
  /\ renewal \in [Owners -> Renewal \cup {None}]
  /\ exposed \in [Owners -> BOOLEAN]
  /\ faults \in Nat /\ syncs \in Nat
  /\ \A o \in Owners : /\ call[o] # None <=> pc[o] \in {"insert", "reclaim"}
                       /\ lease[o] # None <=> pc[o] \in {"confirm", "active", "hold", "releasing"}
                       /\ renewal[o] # None => pc[o] \in {"active", "hold", "releasing", "done"}

\* An execution that counts its contracts as its own: it may send a leg, or
\* it protects an uncertain one.
Confident(o) ==
  /\ Alive(o)
  /\ \/ OwnershipGuard(o)
     \/ pc[o] = "hold" /\ now < lease[o].until - Margin

\* No two executions, of one process or of two, believe at one moment that a
\* contract is theirs (durable.ts: "the holder considers itself the owner only
\* while now < expiresAt - grace; a challenger reclaims once now >=
\* expiresAt + grace"), whatever their clocks' errors, with answers late or
\* lost and the offset re-measured while a call is on its way.
GuardExclusive ==
  \A o, q \in Owners : Contends(o, q) => ~(Confident(o) /\ Confident(q))

\* The row of an execution that may have a leg at the broker leaves the table
\* only by expiring, a grace period ago: no release, renewal, reclaim or crash
\* takes it away earlier (the hold of executionCoordinator.ts retain).
ExposureProtected ==
  [][\A o \in Owners :
       exposed[o] /\ row[o] # None /\ row'[o] = None
         => now >= row[o].expires + Grace - ClockError]_vars

\* What the comment at the renewal says of its alarm ("another worker may
\* already own these contracts"): it is raised only for an execution that has
\* not ended and given its contracts back by itself.
AlarmMeansLoss ==
  [][\A o \in Owners :
       ~lost[o] /\ lost'[o] => exposed[o] \/ pc[o] # "done"]_vars

=============================================================================
