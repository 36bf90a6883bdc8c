------------------------- MODULE ReservationsProofs -------------------------
(***************************************************************************)
(* Contract exclusion holds for every number of processes, executions and  *)
(* contracts, every lease time, and every clock error the dead band        *)
(* covers.                                                                 *)
(***************************************************************************)
EXTENDS Reservations, TLAPS

\* No time a call carries is more than one clock error ahead.
CallTime(o) == call[o] # None => call[o].at <= now + ClockError

\* A lease is trusted for at most its time and two errors, one made when the
\* expiry was computed and one when it was read back.
LeaseTime(o) == lease[o] # None => lease[o].until <= now + Ttl + 2 * ClockError

\* A row outlives the trust in it by all but three errors: a renewal may have
\* shortened it without its answer having arrived.
LeaseCovered(o) ==
  lease[o] # None /\ row[o] # None => lease[o].until <= row[o].expires + 3 * ClockError

\* A renewal is asked with a lease in hand, and what it will write covers it.
RenewalTime(o) ==
  renewal[o] # None =>
    /\ renewal[o].at <= now + ClockError
    /\ lease[o] # None => lease[o].until <= renewal[o].at + Ttl + 3 * ClockError
    /\ renewal[o].applied /\ row[o] # None => row[o].expires = renewal[o].at + Ttl

\* A row that is gone under a lease went after the trust in it, and in what a
\* renewal on its way back will say.
Taken(o) ==
  lease[o] # None /\ row[o] = None =>
    /\ now >= lease[o].until - Margin
    /\ renewal[o] # None /\ renewal[o].applied
         => now >= renewal[o].at + Ttl + Grace - ClockError

\* An execution that releases knows how its legs ended.
ReleaseKnown(o) == exposed[o] => pc[o] \in {"active", "hold", "done"}

Sound(o) ==
  CallTime(o) /\ LeaseTime(o) /\ LeaseCovered(o) /\ RenewalTime(o) /\ Taken(o) /\ ReleaseKnown(o)

\* One row per contract.
RowsExclusive == \A o, q \in Owners : Contends(o, q) => row[o] = None \/ row[q] = None

IInv == TypeOK /\ RowsExclusive /\ \A o \in Owners : Sound(o)

-----------------------------------------------------------------------------
(* Types *)

USE TimesAssumption DEF Row, Call, Lease, Renewal, Phases

\* The errors are integers no worse than ClockError.
LEMMA ErrorBound ==
  ASSUME TypeOK, NEW p \in Processes
  PROVE  err[p] \in Int /\ -ClockError <= err[p] /\ err[p] <= ClockError
  <1>1. err[p] \in ClockErrors
    BY DEF TypeOK
  <1>2. err[p] \in -ClockError..ClockError
    BY <1>1
  <1> QED
    BY <1>2

\* A process's own execution computes with its process's error.
LEMMA OwnerError ==
  ASSUME TypeOK, NEW o \in Owners
  PROVE  /\ ProcessOf[o] \in Processes
         /\ Error(o) \in Int /\ -ClockError <= Error(o) /\ Error(o) <= ClockError
         /\ ToAuthority(o) \in Int
         /\ ToAuthority(o) <= now + ClockError /\ now - ClockError <= ToAuthority(o)
BY ErrorBound, OwnersAssumption DEF TypeOK, Error, ToAuthority

LEMMA InitType == Init => TypeOK
BY DEF Init, TypeOK

LEMMA AcquireType ==
  ASSUME TypeOK, NEW o \in Owners, Acquire(o)
  PROVE  TypeOK'
  <1>1. CASE TryAcquireAll(o)
    <2>1. ProcessOf[o] \in Processes /\ ToAuthority(o) \in Int
      BY OwnerError
    <2>2. spare[ProcessOf[o]] \in Seq(Nat) /\ Len(spare[ProcessOf[o]]) <= MaxSpare
      BY <2>1 DEF TypeOK
    <2> DEFINE n == Len(spare[ProcessOf[o]])
               fence == IF n > 0 THEN spare[ProcessOf[o]][n] ELSE lastFence + 1
               rest == SubSeq(spare[ProcessOf[o]], 1, n - 1)
    <2>3. n \in Nat /\ fence \in Nat
      BY <2>2 DEF TypeOK
    <2>4. n > 0 => rest \in Seq(Nat) /\ Len(rest) = n - 1
      BY <2>2, <2>3
    <2>5. /\ spare' \in [Processes -> Seq(Nat)]
          /\ \A p \in Processes : Len(spare'[p]) <= MaxSpare
      BY <1>1, <2>1, <2>2, <2>3, <2>4 DEF TryAcquireAll, TypeOK
    <2>6. [at |-> ToAuthority(o), fence |-> fence, again |-> FALSE,
           waited |-> pc[o] = "waiting"] \in Call
      BY <2>1, <2>3
    <2>7. /\ call' \in [Owners -> Call \cup {None}] /\ lastFence' \in Nat
          /\ pc' \in [Owners -> Phases]
          /\ \A x \in Owners : call'[x] # None <=> pc'[x] \in {"insert", "reclaim"}
      BY <1>1, <2>3, <2>6, NoneAssumption DEF TryAcquireAll, TypeOK
    <2> QED
      BY <1>1, <2>5, <2>7 DEF TryAcquireAll, TypeOK
  <1>2. CASE Insert(o)
    <2>1. call[o] \in Call /\ ToLocal(o, call[o].at + Ttl) \in Int
      BY <1>2, OwnerError DEF Insert, TypeOK, ToLocal
    <2>2. /\ [fence |-> call[o].fence, expires |-> call[o].at + Ttl] \in Row
          /\ [fence |-> call[o].fence, until |-> ToLocal(o, call[o].at + Ttl)] \in Lease
      BY <2>1
    <2> QED
      BY <1>2, <2>2, NoneAssumption DEF Insert, Inserted, TypeOK
  <1>3. CASE InsertUnheard(o)
    <2>1. [fence |-> call[o].fence, expires |-> call[o].at + Ttl] \in Row
      BY <1>3 DEF InsertUnheard, TypeOK
    <2> QED
      BY <1>3, <2>1 DEF InsertUnheard, Inserted, Fault, TypeOK
  <1>4. ASSUME Conflict(o), pc[o] \in {"insert", "reclaim"},
               row' \in [Owners -> Row \cup {None}],
               UNCHANGED <<now, err, alive, lastFence, lease, lost, renewal, exposed, faults, syncs>>
        PROVE  TypeOK'
    <2>1. ProcessOf[o] \in Processes /\ call[o] \in Call
      BY <1>4, OwnerError DEF TypeOK
    <2>2. spare[ProcessOf[o]] \in Seq(Nat) /\ Len(spare[ProcessOf[o]]) <= MaxSpare
      BY <2>1 DEF TypeOK
    <2>3. /\ Append(spare[ProcessOf[o]], call[o].fence) \in Seq(Nat)
          /\ Len(Append(spare[ProcessOf[o]], call[o].fence)) = Len(spare[ProcessOf[o]]) + 1
      BY <2>1, <2>2
    <2>4. /\ spare' \in [Processes -> Seq(Nat)]
          /\ \A p \in Processes : Len(spare'[p]) <= MaxSpare
      BY <1>4, <2>1, <2>2, <2>3 DEF Conflict, RecycleFence, TypeOK
    <2> QED
      BY <1>4, <2>4 DEF Conflict, TypeOK
  <1>5. CASE KeyConflict(o)
    <2>1. CASE call[o].again
      BY <1>4, <1>5, <2>1 DEF KeyConflict, TypeOK
    <2>2. CASE ~call[o].again
      BY <1>5, <2>2 DEF KeyConflict, TypeOK
    <2> QED
      BY <2>1, <2>2
  <1>6. CASE Reclaim(o)
    <2>1. row' \in [Owners -> Row \cup {None}]
      BY <1>6 DEF Reclaim, Deleted, TypeOK
    <2>2. CASE Conflict(o)
      BY <1>4, <1>6, <2>1, <2>2 DEF Reclaim
    <2>3. CASE ~Conflict(o)
      <3>1. call[o] \in Call
        BY <1>6 DEF Reclaim, TypeOK
      <3>2. [call[o] EXCEPT !.again = TRUE] \in Call
        BY <3>1
      <3>3. /\ call' = [call EXCEPT ![o] = [call[o] EXCEPT !.again = TRUE]]
            /\ pc' = [pc EXCEPT ![o] = "insert"]
            /\ pc[o] = "reclaim"
            /\ UNCHANGED <<now, err, alive, spare, lastFence, lease, lost, renewal, exposed, faults, syncs>>
        BY <1>6, <2>3 DEF Reclaim, TypeOK
      <3> QED
        BY <2>1, <3>2, <3>3, NoneAssumption DEF TypeOK
    <2> QED
      BY <2>2, <2>3
  <1>7. CASE AcquireUnavailable(o)
    BY <1>7 DEF AcquireUnavailable, Fault, TypeOK
  <1>8. CASE GiveUp(o)
    BY <1>8 DEF GiveUp, TypeOK
  <1> QED
    BY <1>1, <1>2, <1>3, <1>5, <1>6, <1>7, <1>8 DEF Acquire

LEMMA ExecuteType ==
  ASSUME TypeOK, NEW o \in Owners, Execute(o)
  PROVE  TypeOK'
  <1>1. CASE Verify(o)
    BY <1>1 DEF Verify, TypeOK
  <1>2. CASE AbandonGrant(o)
    BY <1>2 DEF AbandonGrant, TypeOK
  <1>3. CASE SendLeg(o)
    BY <1>3 DEF SendLeg, TypeOK
  <1>4. CASE SettleClean(o)
    BY <1>4 DEF SettleClean, TypeOK
  <1>5. CASE SettleUncertain(o)
    BY <1>5 DEF SettleUncertain, Ended, TypeOK
  <1>6. CASE Release(o)
    BY <1>6 DEF Release, Deleted, Ended, TypeOK
  <1>7. CASE ReleaseFails(o)
    BY <1>7 DEF ReleaseFails, Fault, Ended, TypeOK
  <1> QED
    BY <1>1, <1>2, <1>3, <1>4, <1>5, <1>6, <1>7 DEF Execute

LEMMA HeartbeatType ==
  ASSUME TypeOK, NEW o \in Owners, Heartbeat(o)
  PROVE  TypeOK'
  <1>1. CASE RenewTick(o)
    <2>1. lease[o] \in Lease /\ ToAuthority(o) \in Int
      BY <1>1, OwnerError DEF RenewTick, TypeOK
    <2>2. [at |-> ToAuthority(o), fence |-> lease[o].fence, applied |-> FALSE, of |-> pc[o]] \in Renewal
      BY <1>1, <2>1 DEF RenewTick
    <2> QED
      BY <1>1, <2>2 DEF RenewTick, TypeOK
  <1>2. CASE RenewApplied(o)
    <2>1. renewal[o] \in Renewal /\ row[o] \in Row
      BY <1>2 DEF RenewApplied, Renewable, TypeOK
    <2>2. [row[o] EXCEPT !.expires = renewal[o].at + Ttl] \in Row
      BY <2>1
    <2>4. [renewal[o] EXCEPT !.applied = TRUE] \in Renewal
      BY <2>1
    <2>3. /\ row' = [row EXCEPT ![o] = [row[o] EXCEPT !.expires = renewal[o].at + Ttl]]
          /\ renewal' = [renewal EXCEPT ![o] = [renewal[o] EXCEPT !.applied = TRUE]]
      BY <1>2 DEF RenewApplied, TypeOK
    <2>5. row' \in [Owners -> Row \cup {None}]
      BY <2>2, <2>3 DEF TypeOK
    <2>6. renewal' \in [Owners -> Renewal \cup {None}]
      BY <2>3, <2>4 DEF TypeOK
    <2>7. \A x \in Owners : renewal'[x] # None => renewal[x] # None
      BY <1>2, <2>3 DEF RenewApplied, TypeOK
    <2> QED
      BY <1>2, <2>5, <2>6, <2>7 DEF RenewApplied, TypeOK
  <1>3. CASE RenewAnswered(o)
    <2>1. CASE pc[o] = renewal[o].of
      <3>1. renewal[o] \in Renewal /\ lease[o] \in Lease
        BY <1>3, <2>1 DEF RenewAnswered, TypeOK
      <3>4. ToLocal(o, renewal[o].at + Ttl) \in Int
        BY <3>1, OwnerError DEF ToLocal
      <3>2. [lease[o] EXCEPT !.until = ToLocal(o, renewal[o].at + Ttl)] \in Lease
        BY <3>1, <3>4
      <3>3. lease' = [lease EXCEPT ![o] = [lease[o] EXCEPT !.until = ToLocal(o, renewal[o].at + Ttl)]]
        BY <1>3, <2>1 DEF RenewAnswered, TypeOK
      <3>5. /\ lease' \in [Owners -> Lease \cup {None}]
            /\ \A x \in Owners : lease'[x] # None <=> lease[x] # None
        BY <3>1, <3>2, <3>3, NoneAssumption DEF TypeOK
      <3>6. /\ renewal' \in [Owners -> Renewal \cup {None}]
            /\ \A x \in Owners : renewal'[x] # None => renewal[x] # None
        BY <1>3 DEF RenewAnswered, TypeOK
      <3> QED
        BY <1>3, <3>5, <3>6 DEF RenewAnswered, TypeOK
    <2>2. CASE pc[o] # renewal[o].of
      BY <1>3, <2>2 DEF RenewAnswered, TypeOK
    <2> QED
      BY <2>1, <2>2
  <1>4. CASE RenewRefused(o)
    <2>1. renewal' \in [Owners -> Renewal \cup {None}]
      BY <1>4 DEF RenewRefused, TypeOK
    <2>2. CASE OwnershipLost(o) /\ UNCHANGED <<pc, lease>>
      BY <1>4, <2>1, <2>2 DEF RenewRefused, OwnershipLost, TypeOK
    <2>3. CASE Ended(o) /\ UNCHANGED lost
      BY <1>4, <2>1, <2>3 DEF RenewRefused, Ended, TypeOK
    <2> QED
      BY <1>4, <2>2, <2>3 DEF RenewRefused
  <1>5. CASE RenewUnavailable(o)
    <2>1. renewal' \in [Owners -> Renewal \cup {None}]
      BY <1>5 DEF RenewUnavailable, TypeOK
    <2>2. lost' \in [Owners -> BOOLEAN]
      BY <1>5 DEF RenewUnavailable, OwnershipLost, TypeOK
    <2> QED
      BY <1>5, <2>1, <2>2 DEF RenewUnavailable, Fault, TypeOK
  <1>6. CASE HoldAbandoned(o)
    BY <1>6 DEF HoldAbandoned, Ended, TypeOK
  <1> QED
    BY <1>1, <1>2, <1>3, <1>4, <1>5, <1>6 DEF Heartbeat

LEMMA ProcessType ==
  ASSUME TypeOK, NEW p \in Processes, SyncClock(p) \/ ReapExpired(p) \/ Crash(p)
  PROVE  TypeOK'
  <1>1. CASE SyncClock(p)
    BY <1>1 DEF SyncClock, TypeOK
  <1>2. CASE ReapExpired(p)
    BY <1>2 DEF ReapExpired, Deleted, TypeOK
  <1>3. CASE Crash(p)
    <2>1. << >> \in Seq(Nat) /\ Len(<< >>) = 0
      OBVIOUS
    <2>2. /\ spare' \in [Processes -> Seq(Nat)]
          /\ \A r \in Processes : Len(spare'[r]) <= MaxSpare
      BY <1>3, <2>1 DEF Crash, TypeOK
    <2> QED
      BY <1>3, <2>2 DEF Crash, Fault, TypeOK
  <1> QED
    BY <1>1, <1>2, <1>3

LEMMA TypeStep == TypeOK /\ [Next]_vars => TypeOK'
  <1> SUFFICES ASSUME TypeOK, [Next]_vars PROVE TypeOK'
    OBVIOUS
  <1>1. CASE UNCHANGED vars
    BY <1>1 DEF vars, TypeOK
  <1>2. CASE Tick
    BY <1>2 DEF Tick, TypeOK
  <1> QED
    BY <1>1, <1>2, AcquireType, ExecuteType, HeartbeatType, ProcessType DEF Next

\* Every state's variables have their types, no process keeps more than
\* MaxSpare fences, and the coordinator has a lease exactly for the executions
\* between their grant and their end.
THEOREM ReservationsTypeCorrect == Spec => []TypeOK
  <1> QED
    BY InitType, TypeStep, PTL DEF Spec

-----------------------------------------------------------------------------
(* Exclusion *)

\* Time alone, and other executions' steps, keep an execution sound.
LEMMA OthersSound ==
  ASSUME TypeOK, TypeOK', NEW x \in Owners, Sound(x), now <= now',
         row'[x] = row[x], call'[x] = call[x], lease'[x] = lease[x],
         renewal'[x] = renewal[x], pc'[x] = pc[x], exposed'[x] = exposed[x]
  PROVE  Sound(x)'
  <1>1. /\ now \in Nat /\ now' \in Nat
        /\ row[x] \in Row \cup {None} /\ call[x] \in Call \cup {None}
        /\ lease[x] \in Lease \cup {None} /\ renewal[x] \in Renewal \cup {None}
    BY DEF TypeOK
  <1>2. CallTime(x)' /\ LeaseTime(x)' /\ LeaseCovered(x)' /\ ReleaseKnown(x)'
    BY <1>1 DEF Sound, CallTime, LeaseTime, LeaseCovered, ReleaseKnown
  <1>3. RenewalTime(x)'
    BY <1>1 DEF Sound, RenewalTime
  <1>4. Taken(x)'
    BY <1>1 DEF Sound, Taken
  <1> QED
    BY <1>2, <1>3, <1>4 DEF Sound

\* A row a challenger may remove is no longer trusted by its owner: this is
\* where the dead band is used.
LEMMA ReclaimSound ==
  ASSUME TypeOK, TypeOK', NEW x \in Owners, Sound(x), now' = now,
         NEW t \in Int, t <= now + ClockError, Expired(x, t), row'[x] = None,
         call'[x] = call[x], lease'[x] = lease[x],
         renewal'[x] = renewal[x], pc'[x] = pc[x], exposed'[x] = exposed[x]
  PROVE  Sound(x)'
  <1>1. /\ now \in Nat /\ row[x] \in Row
        /\ call[x] \in Call \cup {None} /\ lease[x] \in Lease \cup {None}
        /\ renewal[x] \in Renewal \cup {None}
    BY DEF TypeOK, Expired
  <1>2. row[x] # None /\ row[x].expires <= now + ClockError - Grace
    BY <1>1 DEF Expired
  <1>3. CallTime(x)' /\ LeaseTime(x)' /\ LeaseCovered(x)' /\ ReleaseKnown(x)'
    BY <1>1 DEF Sound, CallTime, LeaseTime, LeaseCovered, ReleaseKnown
  <1>4. RenewalTime(x)'
    BY <1>1 DEF Sound, RenewalTime
  <1>5. ASSUME lease[x] # None
        PROVE  now >= lease[x].until - Margin
    <2>1. lease[x].until <= row[x].expires + 3 * ClockError
      BY <1>2, <1>5 DEF Sound, LeaseCovered
    <2> QED
      BY <1>1, <1>2, <1>5, <2>1, DeadBandAssumption
  <1>6. ASSUME renewal[x] # None, renewal[x].applied
        PROVE  now >= renewal[x].at + Ttl + Grace - ClockError
    <2>1. row[x].expires = renewal[x].at + Ttl
      BY <1>2, <1>6 DEF Sound, RenewalTime
    <2> QED
      BY <1>1, <1>2, <1>6, <2>1
  <1>7. Taken(x)'
    BY <1>5, <1>6 DEF Taken
  <1> QED
    BY <1>3, <1>4, <1>7 DEF Sound

\* A step that adds no row keeps the rows exclusive.
LEMMA RowsKept ==
  ASSUME RowsExclusive, \A x \in Owners : row'[x] # None => row[x] # None
  PROVE  RowsExclusive'
BY DEF RowsExclusive, Contends

\* A row is added only where no contender has one.
LEMMA RowAdded ==
  ASSUME TypeOK, RowsExclusive, NEW o \in Owners, Vacant(o), Inserted(o)
  PROVE  RowsExclusive'
  <1>1. \A x \in Owners : x # o => row'[x] = row[x]
    BY DEF Inserted, TypeOK
  <1>2. \A x, y \in Owners : Contends(x, y) <=> Contends(y, x)
    BY DEF Contends
  <1>3. ASSUME NEW x \in Owners, NEW y \in Owners, Contends(x, y)
        PROVE  row'[x] = None \/ row'[y] = None
    <2>1. CASE x = o
      BY <1>1, <1>3, <2>1 DEF Vacant, Contends
    <2>2. CASE y = o
      BY <1>1, <1>2, <1>3, <2>2 DEF Vacant, Contends
    <2>3. CASE x # o /\ y # o
      BY <1>1, <1>3, <2>3 DEF RowsExclusive
    <2> QED
      BY <2>1, <2>2, <2>3
  <1> QED
    BY <1>3 DEF RowsExclusive, Contends

LEMMA InitIInv == Init => IInv
  <1> SUFFICES ASSUME Init PROVE IInv
    OBVIOUS
  <1>1. TypeOK
    BY InitType
  <1>2. RowsExclusive
    BY DEF Init, RowsExclusive
  <1>3. \A o \in Owners : Sound(o)
    BY DEF Init, Sound, CallTime, LeaseTime, LeaseCovered, RenewalTime, Taken, ReleaseKnown
  <1> QED
    BY <1>1, <1>2, <1>3 DEF IInv

LEMMA AcquireSafe ==
  ASSUME IInv, TypeOK', NEW o \in Owners, Acquire(o)
  PROVE  IInv'
  <1>1. /\ TypeOK /\ RowsExclusive /\ now \in Nat
        /\ \A x \in Owners : Sound(x)
        /\ row[o] \in Row \cup {None} /\ call[o] \in Call \cup {None}
        /\ lease[o] \in Lease \cup {None}
    BY DEF IInv, TypeOK
  <1>2. ASSUME now' = now,
               \A x \in Owners \ {o} :
                 /\ row'[x] = row[x] /\ call'[x] = call[x] /\ lease'[x] = lease[x]
                 /\ renewal'[x] = renewal[x] /\ pc'[x] = pc[x] /\ exposed'[x] = exposed[x]
        PROVE  \A x \in Owners \ {o} : Sound(x)'
    BY <1>1, <1>2, OthersSound
  <1>3. CASE TryAcquireAll(o)
    <2>1. \A x \in Owners \ {o} : Sound(x)'
      BY <1>1, <1>2, <1>3 DEF TryAcquireAll, TypeOK
    <2>2. /\ call'[o].at = ToAuthority(o) /\ now' = now /\ pc'[o] = "insert"
          /\ row' = row /\ lease' = lease /\ renewal' = renewal /\ exposed' = exposed
          /\ lease[o] = None /\ renewal[o] = None /\ ~exposed[o]
      BY <1>1, <1>3 DEF TryAcquireAll, TypeOK, Sound, ReleaseKnown
    <2>3. Sound(o)'
      BY <1>1, <2>2, OwnerError
         DEF Sound, CallTime, LeaseTime, LeaseCovered, RenewalTime, Taken, ReleaseKnown
    <2> QED
      BY <1>1, <2>1, <2>2, <2>3, RowsKept DEF IInv
  <1>4. CASE Insert(o)
    <2>1. \A x \in Owners \ {o} : Sound(x)'
      BY <1>1, <1>2, <1>4 DEF Insert, Inserted, TypeOK
    <2>2. /\ call[o] \in Call
          /\ call'[o] = None /\ now' = now /\ renewal' = renewal /\ exposed' = exposed
          /\ renewal[o] = None /\ ~exposed[o]
      BY <1>1, <1>4 DEF Insert, TypeOK, Sound, ReleaseKnown
    <2>5. call[o].at <= now + ClockError
      BY <1>1, <2>2, NoneAssumption DEF Sound, CallTime
    <2>6. row'[o] = [fence |-> call[o].fence, expires |-> call[o].at + Ttl]
      BY <1>1, <1>4 DEF Insert, Inserted, TypeOK
    <2>7. lease'[o] = [fence |-> call[o].fence, until |-> ToLocal(o, call[o].at + Ttl)]
      BY <1>1, <1>4 DEF Insert, TypeOK
    <2>8. row'[o] # None /\ row'[o].expires = call[o].at + Ttl
      BY <2>2, <2>6, NoneAssumption
    <2>9. lease'[o].until = call[o].at + Ttl - Error(o)
      BY <2>2, <2>7, <1>1, OwnerError DEF ToLocal
    <2>3. Sound(o)'
      BY <1>1, <2>2, <2>5, <2>8, <2>9, OwnerError
         DEF Sound, CallTime, LeaseTime, LeaseCovered, RenewalTime, Taken, ReleaseKnown
    <2>4. RowsExclusive'
      BY <1>1, <1>4, RowAdded DEF Insert
    <2> QED
      BY <2>1, <2>3, <2>4 DEF IInv
  <1>5. CASE InsertUnheard(o)
    <2>1. \A x \in Owners \ {o} : Sound(x)'
      BY <1>1, <1>2, <1>5 DEF InsertUnheard, Inserted, TypeOK
    <2>2. /\ call'[o] = None /\ now' = now /\ renewal' = renewal /\ exposed' = exposed
          /\ lease' = lease /\ lease[o] = None /\ renewal[o] = None /\ ~exposed[o]
      BY <1>1, <1>5 DEF InsertUnheard, TypeOK, Sound, ReleaseKnown
    <2>3. Sound(o)'
      BY <2>2 DEF Sound, CallTime, LeaseTime, LeaseCovered, RenewalTime, Taken, ReleaseKnown
    <2>4. RowsExclusive'
      BY <1>1, <1>5, RowAdded DEF InsertUnheard
    <2> QED
      BY <2>1, <2>3, <2>4 DEF IInv
  <1>6. ASSUME now' = now, row' = row, lease' = lease, renewal' = renewal, exposed' = exposed,
               pc[o] \in {"insert", "reclaim", "waiting"},
               call'[o] \in {None, call[o]},
               \A x \in Owners \ {o} : call'[x] = call[x] /\ pc'[x] = pc[x]
        PROVE  IInv'
    <2>1. \A x \in Owners \ {o} : Sound(x)'
      BY <1>2, <1>6
    <2>2. lease[o] = None /\ renewal[o] = None /\ ~exposed[o]
      BY <1>1, <1>6 DEF TypeOK, Sound, ReleaseKnown
    <2>3. Sound(o)'
      BY <1>1, <1>6, <2>2
         DEF Sound, CallTime, LeaseTime, LeaseCovered, RenewalTime, Taken, ReleaseKnown
    <2> QED
      BY <1>1, <1>6, <2>1, <2>3, RowsKept DEF IInv
  <1>7. CASE KeyConflict(o)
    BY <1>1, <1>6, <1>7 DEF KeyConflict, Conflict, TypeOK
  <1>8. CASE Reclaim(o)
    <2>1. /\ call[o] \in Call /\ call[o].at <= now + ClockError
          /\ now' = now /\ lease' = lease /\ renewal' = renewal /\ exposed' = exposed
          /\ \A x \in Owners \ {o} : call'[x] = call[x] /\ pc'[x] = pc[x]
          /\ lease[o] = None /\ renewal[o] = None /\ ~exposed[o]
      BY <1>1, <1>8 DEF Reclaim, Conflict, TypeOK, Sound, CallTime, ReleaseKnown
    <2>2. \A x \in Owners : \/ row'[x] = row[x]
                            \/ Expired(x, call[o].at) /\ row'[x] = None
      BY <1>8 DEF Reclaim, Deleted
    <2>3. ASSUME NEW x \in Owners \ {o} PROVE Sound(x)'
      <3>1. CASE row'[x] = row[x]
        BY <1>1, <2>1, <2>3, <3>1, OthersSound
      <3>2. CASE Expired(x, call[o].at) /\ row'[x] = None
        BY <1>1, <2>1, <2>3, <3>2, ReclaimSound
      <3> QED
        BY <2>2, <2>3, <3>1, <3>2
    <2>4. call'[o] = None \/ call'[o].at = call[o].at
      BY <1>1, <1>8, <2>1 DEF Reclaim, Conflict, TypeOK
    <2>5. Sound(o)'
      BY <1>1, <2>1, <2>4
         DEF Sound, CallTime, LeaseTime, LeaseCovered, RenewalTime, Taken, ReleaseKnown
    <2> QED
      BY <1>1, <2>2, <2>3, <2>5, RowsKept DEF IInv
  <1>9. CASE AcquireUnavailable(o)
    BY <1>1, <1>6, <1>9 DEF AcquireUnavailable, TypeOK
  <1>10. CASE GiveUp(o)
    BY <1>1, <1>6, <1>10 DEF GiveUp, TypeOK
  <1> QED
    BY <1>3, <1>4, <1>5, <1>7, <1>8, <1>9, <1>10 DEF Acquire

LEMMA ExecuteSafe ==
  ASSUME IInv, TypeOK', NEW o \in Owners, Execute(o)
  PROVE  IInv'
  <1>1. /\ TypeOK /\ RowsExclusive /\ now \in Nat
        /\ \A x \in Owners : Sound(x)
        /\ row[o] \in Row \cup {None} /\ lease[o] \in Lease \cup {None}
        /\ renewal[o] \in Renewal \cup {None}
    BY DEF IInv, TypeOK
  <1>2. ASSUME now' = now, call' = call, renewal' = renewal,
               \A x \in Owners \ {o} :
                 /\ row'[x] = row[x] /\ lease'[x] = lease[x]
                 /\ pc'[x] = pc[x] /\ exposed'[x] = exposed[x]
        PROVE  \A x \in Owners \ {o} : Sound(x)'
    BY <1>1, <1>2, OthersSound
  <1>3. ASSUME UNCHANGED <<now, row, call, renewal>>,
               lease'[o] \in {lease[o], None},
               exposed'[o] => pc'[o] \in {"active", "hold", "done"}
        PROVE  Sound(o)'
    BY <1>1, <1>3 DEF Sound, CallTime, LeaseTime, LeaseCovered, RenewalTime, Taken, ReleaseKnown
  <1>4. CASE Verify(o) \/ AbandonGrant(o)
    <2>1. UNCHANGED <<now, row, call, lease, renewal, exposed>> /\ ~exposed[o]
      BY <1>1, <1>4 DEF Verify, AbandonGrant, Sound, ReleaseKnown
    <2>2. \A x \in Owners \ {o} : pc'[x] = pc[x]
      BY <1>1, <1>4 DEF Verify, AbandonGrant, TypeOK
    <2> QED
      BY <1>1, <1>2, <1>3, <2>1, <2>2, RowsKept DEF IInv
  <1>5. CASE SendLeg(o)
    <2>1. UNCHANGED <<now, row, call, lease, renewal, pc>> /\ pc[o] = "active"
      BY <1>5 DEF SendLeg, OwnershipGuard
    <2>2. \A x \in Owners \ {o} : exposed'[x] = exposed[x]
      BY <1>1, <1>5 DEF SendLeg, TypeOK
    <2> QED
      BY <1>1, <1>2, <1>3, <2>1, <2>2, RowsKept DEF IInv
  <1>6. CASE SettleClean(o)
    <2>1. UNCHANGED <<now, row, call, lease, renewal>>
      BY <1>6 DEF SettleClean
    <2>2. /\ ~exposed'[o]
          /\ \A x \in Owners \ {o} : pc'[x] = pc[x] /\ exposed'[x] = exposed[x]
      BY <1>1, <1>6 DEF SettleClean, TypeOK
    <2> QED
      BY <1>1, <1>2, <1>3, <2>1, <2>2, RowsKept DEF IInv
  <1>7. CASE SettleUncertain(o) \/ ReleaseFails(o)
    <2>1. UNCHANGED <<now, row, call, renewal, exposed>>
      BY <1>7 DEF SettleUncertain, ReleaseFails
    <2>2. /\ lease'[o] \in {lease[o], None} /\ pc'[o] \in {"hold", "done"}
          /\ \A x \in Owners \ {o} : pc'[x] = pc[x] /\ lease'[x] = lease[x]
      BY <1>1, <1>7 DEF SettleUncertain, ReleaseFails, Ended, TypeOK
    <2> QED
      BY <1>1, <1>2, <1>3, <2>1, <2>2, RowsKept DEF IInv
  <1>8. CASE Release(o)
    <2>1. UNCHANGED <<now, call, renewal, exposed>>
      BY <1>8 DEF Release
    <2>2. /\ lease'[o] = None /\ pc'[o] = "done"
          /\ \A x \in Owners \ {o} : pc'[x] = pc[x] /\ lease'[x] = lease[x]
      BY <1>1, <1>8 DEF Release, Ended, TypeOK
    <2>3. /\ row'[o] \in {row[o], None}
          /\ \A x \in Owners \ {o} : row'[x] = row[x]
      BY <1>8 DEF Release, Deleted
    <2>4. Sound(o)'
      BY <1>1, <2>1, <2>2, <2>3
         DEF Sound, CallTime, LeaseTime, LeaseCovered, RenewalTime, Taken, ReleaseKnown
    <2>5. \A x \in Owners : row'[x] # None => row[x] # None
      BY <2>3
    <2> QED
      BY <1>1, <1>2, <2>1, <2>2, <2>3, <2>4, <2>5, RowsKept DEF IInv
  <1> QED
    BY <1>4, <1>5, <1>6, <1>7, <1>8 DEF Execute

LEMMA HeartbeatSafe ==
  ASSUME IInv, TypeOK', NEW o \in Owners, Heartbeat(o)
  PROVE  IInv'
  <1>1. /\ TypeOK /\ RowsExclusive /\ now \in Nat
        /\ \A x \in Owners : Sound(x)
        /\ row[o] \in Row \cup {None} /\ lease[o] \in Lease \cup {None}
        /\ renewal[o] \in Renewal \cup {None} /\ call[o] \in Call \cup {None}
    BY DEF IInv, TypeOK
  <1>2. ASSUME now' = now, call' = call, exposed' = exposed,
               \A x \in Owners \ {o} :
                 /\ row'[x] = row[x] /\ lease'[x] = lease[x]
                 /\ pc'[x] = pc[x] /\ renewal'[x] = renewal[x]
        PROVE  \A x \in Owners \ {o} : Sound(x)'
    BY <1>1, <1>2, OthersSound
  <1>3. ASSUME now' = now, call' = call, exposed' = exposed, pc'[o] \in {pc[o], "done"}
        PROVE  CallTime(o)' /\ ReleaseKnown(o)'
    BY <1>1, <1>3 DEF Sound, CallTime, ReleaseKnown
  <1>4. CASE RenewTick(o)
    <2>1. /\ UNCHANGED <<now, row, call, lease, exposed, pc>> /\ renewal[o] = None
          /\ renewal' = [renewal EXCEPT ![o] = [at |-> ToAuthority(o), fence |-> lease[o].fence,
                                                applied |-> FALSE, of |-> pc[o]]]
      BY <1>4 DEF RenewTick
    <2>2. renewal'[o].at = ToAuthority(o) /\ ~renewal'[o].applied
      BY <1>1, <2>1 DEF TypeOK
    <2>3. RenewalTime(o)' /\ Taken(o)' /\ LeaseTime(o)' /\ LeaseCovered(o)'
      BY <1>1, <2>1, <2>2, OwnerError DEF Sound, RenewalTime, Taken, LeaseTime, LeaseCovered
    <2>4. Sound(o)'
      BY <1>3, <2>1, <2>3 DEF Sound
    <2>5. \A x \in Owners \ {o} : renewal'[x] = renewal[x]
      BY <1>1, <2>1 DEF TypeOK
    <2> QED
      BY <1>1, <1>2, <2>1, <2>4, <2>5, RowsKept DEF IInv
  <1>5. CASE RenewApplied(o)
    <2>1. /\ UNCHANGED <<now, call, lease, exposed, pc>>
          /\ renewal[o] # None /\ row[o] # None
      BY <1>5 DEF RenewApplied, Renewable
    <2>2. /\ row'[o].expires = renewal[o].at + Ttl
          /\ \A x \in Owners \ {o} : row'[x] = row[x]
      BY <1>1, <1>5, <2>1 DEF RenewApplied, TypeOK
    <2>3. /\ renewal'[o].at = renewal[o].at
          /\ \A x \in Owners \ {o} : renewal'[x] = renewal[x]
      BY <1>1, <1>5, <2>1 DEF RenewApplied, TypeOK
    <2>4. row'[o] # None
      <3>1. row'[o] = [row[o] EXCEPT !.expires = renewal[o].at + Ttl]
        BY <1>1, <1>5 DEF RenewApplied, TypeOK
      <3>2. row[o] \in Row /\ renewal[o] \in Renewal
        BY <1>1, <2>1
      <3>3. [row[o] EXCEPT !.expires = renewal[o].at + Ttl] \in Row
        BY <3>2
      <3> QED
        BY <3>1, <3>3, NoneAssumption
    <2>5. RenewalTime(o)' /\ Taken(o)' /\ LeaseTime(o)' /\ LeaseCovered(o)'
      BY <1>1, <2>1, <2>2, <2>3, <2>4 DEF Sound, RenewalTime, Taken, LeaseTime, LeaseCovered
    <2>6. Sound(o)'
      BY <1>3, <2>1, <2>5 DEF Sound
    <2>7. \A x \in Owners : row'[x] # None => row[x] # None
      BY <2>1, <2>2
    <2> QED
      BY <1>1, <1>2, <2>1, <2>2, <2>3, <2>6, <2>7, RowsKept DEF IInv
  <1>6. CASE RenewAnswered(o)
    <2>1. /\ UNCHANGED <<now, row, call, exposed, pc>>
          /\ renewal[o] # None /\ renewal[o].applied /\ renewal'[o] = None
          /\ \A x \in Owners \ {o} : renewal'[x] = renewal[x]
      BY <1>1, <1>6 DEF RenewAnswered, TypeOK
    <2>2. \A x \in Owners \ {o} : lease'[x] = lease[x]
      BY <1>1, <1>6 DEF RenewAnswered, TypeOK
    <2>3. \/ lease'[o] = lease[o]
          \/ lease[o] # None /\ lease'[o].until = renewal[o].at + Ttl - Error(o)
      <3>1. CASE pc[o] = renewal[o].of
        <4>1. lease[o] \in Lease /\ lease[o] # None
          BY <1>1, <2>1, <3>1 DEF TypeOK
        <4>2. lease' = [lease EXCEPT ![o].until = ToLocal(o, renewal[o].at + Ttl)]
          BY <1>6, <3>1 DEF RenewAnswered
        <4>3. lease'[o].until = ToLocal(o, renewal[o].at + Ttl)
          BY <1>1, <4>1, <4>2 DEF TypeOK
        <4> QED
          BY <1>1, <2>1, <4>1, <4>3, OwnerError DEF ToLocal
      <3>2. CASE pc[o] # renewal[o].of
        BY <1>6, <3>2 DEF RenewAnswered
      <3> QED
        BY <3>1, <3>2
    <2>4. LeaseTime(o)'
      BY <1>1, <2>1, <2>3, OwnerError DEF Sound, LeaseTime, RenewalTime
    <2>5. LeaseCovered(o)'
      BY <1>1, <2>1, <2>3, OwnerError DEF Sound, LeaseCovered, RenewalTime
    <2>6. Taken(o)'
      BY <1>1, <2>1, <2>3, OwnerError, DeadBandAssumption DEF Sound, Taken
    <2>7. RenewalTime(o)'
      BY <2>1 DEF RenewalTime
    <2>8. Sound(o)'
      BY <1>3, <2>1, <2>4, <2>5, <2>6, <2>7 DEF Sound
    <2> QED
      BY <1>1, <1>2, <2>1, <2>2, <2>8, RowsKept DEF IInv
  <1>7. CASE RenewRefused(o) \/ RenewUnavailable(o) \/ HoldAbandoned(o)
    <2>1. UNCHANGED <<now, row, call, exposed>>
      BY <1>7 DEF RenewRefused, RenewUnavailable, HoldAbandoned
    <2>2. /\ renewal'[o] = None
          /\ \A x \in Owners \ {o} : renewal'[x] = renewal[x]
      BY <1>1, <1>7 DEF RenewRefused, RenewUnavailable, HoldAbandoned, TypeOK
    <2>3. /\ lease'[o] \in {lease[o], None} /\ pc'[o] \in {pc[o], "done"}
          /\ \A x \in Owners \ {o} : pc'[x] = pc[x] /\ lease'[x] = lease[x]
      BY <1>1, <1>7 DEF RenewRefused, RenewUnavailable, HoldAbandoned, Ended, TypeOK
    <2>4. LeaseTime(o)' /\ LeaseCovered(o)' /\ RenewalTime(o)' /\ Taken(o)'
      BY <1>1, <2>1, <2>2, <2>3 DEF Sound, LeaseTime, LeaseCovered, RenewalTime, Taken
    <2>5. Sound(o)'
      BY <1>3, <2>1, <2>3, <2>4 DEF Sound
    <2> QED
      BY <1>1, <1>2, <2>1, <2>2, <2>3, <2>5, RowsKept DEF IInv
  <1> QED
    BY <1>4, <1>5, <1>6, <1>7 DEF Heartbeat

LEMMA ProcessSafe ==
  ASSUME IInv, TypeOK', NEW p \in Processes, SyncClock(p) \/ ReapExpired(p) \/ Crash(p)
  PROVE  IInv'
  <1>1. /\ TypeOK /\ RowsExclusive /\ now \in Nat
        /\ \A x \in Owners : Sound(x)
    BY DEF IInv, TypeOK
  <1>2. CASE SyncClock(p)
    <2>1. UNCHANGED <<now, row, call, lease, renewal, pc, exposed>>
      BY <1>2 DEF SyncClock
    <2> QED
      BY <1>1, <2>1, OthersSound, RowsKept DEF IInv
  <1>3. CASE ReapExpired(p)
    <2>1. UNCHANGED <<now, call, lease, renewal, pc, exposed>>
      BY <1>3 DEF ReapExpired
    <2>2. now + err[p] \in Int /\ now + err[p] <= now + ClockError
      BY <1>1, ErrorBound
    <2>3. \A x \in Owners : row'[x] = row[x] \/ (Expired(x, now + err[p]) /\ row'[x] = None)
      <3> DEFINE stale == {q \in Owners : Expired(q, now + err[p])}
      <3>1. row' = [q \in Owners |-> IF q \in stale THEN None ELSE row[q]]
        BY <1>3 DEF ReapExpired, Deleted
      <3> QED
        BY <2>2, <3>1 DEF Expired
    <2>4. ASSUME NEW x \in Owners PROVE Sound(x)'
      <3>1. CASE row'[x] = row[x]
        BY <1>1, <2>1, <3>1, OthersSound
      <3>2. CASE Expired(x, now + err[p]) /\ row'[x] = None
        BY <1>1, <2>1, <2>2, <3>2, ReclaimSound
      <3> QED
        BY <2>3, <3>1, <3>2
    <2> QED
      BY <1>1, <2>3, <2>4, RowsKept DEF IInv
  <1>4. CASE Crash(p)
    <2>1. UNCHANGED <<now, row, renewal, exposed>>
      BY <1>4 DEF Crash
    <2>2. ASSUME NEW x \in Owners PROVE Sound(x)'
      <3>1. CASE call'[x] = call[x] /\ lease'[x] = lease[x] /\ pc'[x] = pc[x]
        BY <1>1, <2>1, <3>1, OthersSound
      <3>2. CASE call'[x] = None /\ lease'[x] = None /\ pc'[x] = "done"
        <4>1. Sound(x) /\ renewal[x] \in Renewal \cup {None} /\ row[x] \in Row \cup {None}
          BY <1>1 DEF TypeOK
        <4> QED
          BY <2>1, <3>2, <4>1
             DEF Sound, CallTime, LeaseTime, LeaseCovered, RenewalTime, Taken, ReleaseKnown
      <3> QED
        BY <1>4, <3>1, <3>2 DEF Crash
    <2> QED
      BY <1>1, <2>1, <2>2, RowsKept DEF IInv
  <1> QED
    BY <1>2, <1>3, <1>4

LEMMA Inductive == IInv /\ [Next]_vars => IInv'
  <1> SUFFICES ASSUME IInv, [Next]_vars PROVE IInv'
    OBVIOUS
  <1>1. /\ TypeOK /\ TypeOK' /\ RowsExclusive /\ now \in Nat
        /\ \A x \in Owners : Sound(x)
    BY TypeStep DEF IInv, TypeOK
  <1>2. CASE UNCHANGED vars \/ Tick
    <2>1. UNCHANGED <<row, call, lease, renewal, pc, exposed>> /\ now <= now'
      BY <1>1, <1>2 DEF vars, Tick
    <2> QED
      BY <1>1, <2>1, OthersSound, RowsKept DEF IInv
  <1> QED
    BY <1>1, <1>2, AcquireSafe, ExecuteSafe, HeartbeatSafe, ProcessSafe DEF Next

\* The times and the rows are always as IInv says.
THEOREM ReservationsInvariant == Spec => []IInv
  <1> QED
    BY InitIInv, Inductive, PTL DEF Spec

\* An execution that counts a contract as its own has its row in the table.
LEMMA ConfidentHasRow ==
  ASSUME IInv, NEW o \in Owners, Confident(o)
  PROVE  row[o] # None
  <1>1. lease[o] \in Lease /\ lease[o] # None /\ now \in Nat /\ now < lease[o].until - Margin
    BY DEF IInv, TypeOK, Confident, OwnershipGuard
  <1>2. row[o] = None => now >= lease[o].until - Margin
    BY <1>1 DEF IInv, Sound, Taken
  <1> QED
    BY <1>1, <1>2

\* For any processes, executions, contracts, lease time and clock errors such
\* that the ownership margin and the skew grace together cover four errors: no
\* two executions that share a contract are ever both confident of it.
THEOREM ContractsAreExclusive == Spec => []GuardExclusive
  <1>1. IInv => GuardExclusive
    BY ConfidentHasRow DEF IInv, RowsExclusive, GuardExclusive
  <1> QED
    BY <1>1, ReservationsInvariant, PTL

\* The reservation of an execution whose legs may be at the broker is removed
\* by nothing but its own expiry, whichever process fails in the meantime.
THEOREM ExposureKeepsItsReservation == Spec => ExposureProtected
  <1>1. ASSUME IInv, Next, NEW o \in Owners,
               exposed[o], row[o] # None, row'[o] = None
        PROVE  now >= row[o].expires + Grace - ClockError
    <2>1. /\ TypeOK /\ now \in Nat /\ row[o] \in Row
          /\ \A x \in Owners : Sound(x)
      BY <1>1 DEF IInv, TypeOK
    <2>2. ASSUME NEW t \in Int, t <= now + ClockError, Expired(o, t)
          PROVE  now >= row[o].expires + Grace - ClockError
      BY <2>1, <2>2 DEF Expired
    <2>3. ASSUME NEW x \in Owners, Acquire(x)
          PROVE  now >= row[o].expires + Grace - ClockError
      <3>1. Reclaim(x)
        <4>1. ~Insert(x) /\ ~InsertUnheard(x)
          <5>1. row' = [row EXCEPT ![x] = [fence |-> call[x].fence, expires |-> call[x].at + Ttl]]
                /\ call[x] \in Call => FALSE
            <6>1. SUFFICES ASSUME row' = [row EXCEPT ![x] = [fence |-> call[x].fence, expires |-> call[x].at + Ttl]],
                                  call[x] \in Call
                           PROVE FALSE
              OBVIOUS
            <6>2. row'[o] = row[o] \/ row'[o] = [fence |-> call[x].fence, expires |-> call[x].at + Ttl]
              BY <2>1, <6>1 DEF TypeOK
            <6> QED
              BY <1>1, <6>1, <6>2, NoneAssumption
          <5> QED
            BY <2>1, <5>1 DEF Insert, InsertUnheard, Inserted, TypeOK
        <4> QED
          BY <1>1, <2>3, <4>1
             DEF Acquire, TryAcquireAll, KeyConflict, AcquireUnavailable, GiveUp
      <3>2. call[x] \in Call /\ call[x].at <= now + ClockError
        BY <2>1, <3>1, NoneAssumption DEF Reclaim, TypeOK, Sound, CallTime
      <3>3. Expired(o, call[x].at)
        BY <1>1, <3>1 DEF Reclaim, Deleted
      <3> QED
        BY <2>2, <3>2, <3>3
    <2>4. ASSUME NEW x \in Owners, Execute(x)
          PROVE  FALSE
      <3>1. Release(x) /\ x = o
        BY <1>1, <2>4
           DEF Execute, Verify, AbandonGrant, SendLeg, SettleClean, SettleUncertain, ReleaseFails,
               Release, Deleted
      <3> QED
        BY <1>1, <2>1, <3>1 DEF Release, Sound, ReleaseKnown
    <2>5. ASSUME NEW x \in Owners, Heartbeat(x)
          PROVE  FALSE
      <3>1. CASE RenewApplied(x)
        <4>1. renewal[x] \in Renewal /\ row[x] \in Row
          BY <2>1, <3>1 DEF RenewApplied, Renewable, TypeOK
        <4>2. [row[x] EXCEPT !.expires = renewal[x].at + Ttl] \in Row
          BY <4>1
        <4>3. row'[o] = row[o] \/ row'[o] = [row[x] EXCEPT !.expires = renewal[x].at + Ttl]
          BY <2>1, <3>1 DEF RenewApplied, TypeOK
        <4> QED
          BY <1>1, <4>2, <4>3, NoneAssumption
      <3>2. CASE ~RenewApplied(x)
        BY <1>1, <2>5, <3>2
           DEF Heartbeat, RenewTick, RenewAnswered, RenewRefused, RenewUnavailable, HoldAbandoned
      <3> QED
        BY <3>1, <3>2
    <2>6. ASSUME NEW p \in Processes, SyncClock(p) \/ ReapExpired(p) \/ Crash(p)
          PROVE  now >= row[o].expires + Grace - ClockError
      <3>1. ReapExpired(p)
        BY <1>1, <2>6 DEF SyncClock, Crash
      <3>2. Expired(o, now + err[p])
        BY <1>1, <3>1 DEF ReapExpired, Deleted
      <3> QED
        BY <2>1, <2>2, <3>2, ErrorBound
    <2>7. ~Tick
      BY <1>1 DEF Tick
    <2> QED
      BY <1>1, <2>3, <2>4, <2>5, <2>6, <2>7 DEF Next
  <1>2. IInv /\ [Next]_vars =>
          [\A o \in Owners :
             exposed[o] /\ row[o] # None /\ row'[o] = None
               => now >= row[o].expires + Grace - ClockError]_vars
    BY <1>1
  <1> QED
    BY <1>2, ReservationsInvariant, PTL DEF Spec, ExposureProtected

=============================================================================
