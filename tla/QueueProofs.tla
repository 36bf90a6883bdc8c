---------------------------- MODULE QueueProofs ----------------------------
(***************************************************************************)
(* Proofs about the two queues between a decision and its effect: Outbox,  *)
(* between a committed row and its document, for every set of events,      *)
(* aggregates and projectors, every batch size and every attempt budget;   *)
(* and TransportPacing, between an adapter's call and the socket, for      *)
(* every set of requests, slots, gaps, window and reserve, and however     *)
(* often the clock is set back.                                            *)
(***************************************************************************)
EXTENDS Outbox, TransportPacing, FiniteSetTheorems, TLAPS

(***************************************************************************)
(* The outbox.                                                             *)
(***************************************************************************)
\* The attempts a row has made, when n replays have run: one below the budget
\* while it may be tried again.
Within(r, n) ==
  /\ r.attempts <= MaxAttempts + n
  /\ r.state = "pending" => r.attempts < MaxAttempts + n

\* The committed row of an id, its fact and its document.
RowInv(e) ==
  /\ row[e].version <= fact[e]
  /\ mongo[e] <= row[e].version
  /\ row[e].state = "published" => mongo[e] = row[e].version
  /\ Within(row[e], replays)

\* While a pass holds the row no writer does, and the pass sees its payload.
HeldInv(e) ==
  lock[e] # None =>
    /\ row[e].state = "pending"
    /\ e \in Snapshot => tx[e] = 0
    /\ work[e].version = row[e].version
    /\ work[e].state = "published" => mongo[e] = work[e].version
    /\ Within(work[e], replays)

\* A row a pass has still to publish is locked by it and pending, as it was claimed.
TodoInv(e) ==
  \A p \in Projector : e \in todo[p] => lock[e] = p /\ work[e].state = "pending"

IInv == TypeOK /\ \A e \in Event : RowInv(e) /\ HeldInv(e) /\ TodoInv(e)

LEMMA NoRowType == NoRow \in Row /\ NoRow.state = "absent" /\ NoRow.attempts = 0
                     /\ NoRow.version = 0
BY OutboxConstants DEF NoRow, Row, States, Attempts

LEMMA FreshRow ==
  ASSUME NEW seq \in Nat, NEW version \in Nat, NEW n \in Nat
  PROVE  /\ Fresh(seq, version) \in Row
         /\ Fresh(seq, version).version = version
         /\ Fresh(seq, version).state = "pending"
         /\ Within(Fresh(seq, version), n)
BY OutboxConstants DEF Fresh, Row, States, Attempts, Within

LEMMA InitInvariant == Init => IInv
<1> SUFFICES ASSUME Init PROVE IInv
  OBVIOUS
<1>1. TypeOK
  BY NoRowType, OutboxConstants DEF Init, TypeOK
<1>2. \A e \in Event : RowInv(e) /\ HeldInv(e) /\ TodoInv(e)
  BY NoRowType, OutboxConstants DEF Init, RowInv, HeldInv, TodoInv, Within
<1> QED BY <1>1, <1>2 DEF IInv

LEMMA BeginWriteStep ==
  ASSUME IInv, NEW e \in Event, BeginWrite(e)
  PROVE  IInv'
<1>1. TypeOK'
  BY OutboxConstants DEF IInv, TypeOK, BeginWrite
<1>2. ASSUME NEW f \in Event PROVE RowInv(f)' /\ HeldInv(f)' /\ TodoInv(f)'
  <2>1. RowInv(f) /\ HeldInv(f) /\ TodoInv(f) /\ tx \in [Event -> 0..MaxSeq]
    BY DEF IInv, TypeOK
  <2> QED BY <2>1 DEF BeginWrite, RowInv, HeldInv, TodoInv, Within
<1> QED BY <1>1, <1>2 DEF IInv

LEMMA EndWriteStep ==
  ASSUME IInv, NEW e \in Event, CommitWrite(e) \/ RollbackWrite(e)
  PROVE  IInv'
<1>0. TypeOK /\ \A f \in Event : RowInv(f) /\ HeldInv(f) /\ TodoInv(f)
  BY DEF IInv
<1>1. CASE RollbackWrite(e)
  <2>1. TypeOK'
    BY <1>0, <1>1, OutboxConstants DEF TypeOK, RollbackWrite
  <2>2. ASSUME NEW f \in Event PROVE RowInv(f)' /\ HeldInv(f)' /\ TodoInv(f)'
    BY <1>0, <1>1 DEF TypeOK, RollbackWrite, RowInv, HeldInv, TodoInv, Within
  <2> QED BY <2>1, <2>2 DEF IInv
<1>2. CASE CommitWrite(e)
  <2> DEFINE r == Enqueued(e, tx[e])
  <2>1. tx[e] \in Nat /\ fact[e] + 1 \in Nat /\ fact[e] \in Nat /\ replays \in Nat
        /\ row[e] \in Row /\ MaxSeq \in Nat
    BY <1>0, OutboxConstants DEF TypeOK
  <2>2. \/ r = row[e] /\ row[e].state # "absent" /\ e \notin Snapshot
        \/ /\ r = Fresh(tx[e], fact[e] + 1)
           /\ row[e].state = "absent" \/ e \in Snapshot
    BY DEF Enqueued
  <2>3. r \in Row
    BY <2>1, <2>2, FreshRow
  <2>4. TypeOK'
    BY <1>0, <1>2, <2>1, <2>3 DEF TypeOK, CommitWrite
  <2>5. ASSUME NEW f \in Event, f # e PROVE RowInv(f)' /\ HeldInv(f)' /\ TodoInv(f)'
    BY <1>0, <1>2, <2>5 DEF TypeOK, CommitWrite, RowInv, HeldInv, TodoInv, Within
  <2>6. fact'[e] = fact[e] + 1 /\ row'[e] = r /\ mongo'[e] = mongo[e] /\ lock' = lock
        /\ work' = work /\ todo' = todo /\ replays' = replays /\ tx'[e] = 0 /\ tx[e] # 0
        /\ mongo[e] \in Nat /\ row[e].version \in Nat
    BY <1>0, <1>2 DEF TypeOK, Row, CommitWrite
  <2>7. ASSUME r = row[e], row[e].state # "absent", e \notin Snapshot
        PROVE  RowInv(e)' /\ HeldInv(e)' /\ TodoInv(e)'
    BY <1>0, <2>1, <2>6, <2>7 DEF RowInv, HeldInv, TodoInv, Within
  <2>8. ASSUME r = Fresh(tx[e], fact[e] + 1), row[e].state = "absent" \/ e \in Snapshot
        PROVE  RowInv(e)' /\ HeldInv(e)' /\ TodoInv(e)'
    <3>1. lock[e] = None
      BY <1>0, <2>6, <2>8 DEF HeldInv
    <3>2. HeldInv(e)' /\ TodoInv(e)'
      BY <1>0, <2>6, <3>1, OutboxConstants DEF HeldInv, TodoInv
    <3>3. r.version = fact[e] + 1 /\ r.state = "pending" /\ Within(r, replays)
      BY <2>1, <2>8, FreshRow
    <3>4. RowInv(e)'
      BY <1>0, <2>1, <2>6, <3>3 DEF RowInv, Within
    <3> QED BY <3>2, <3>4
  <2>9. RowInv(e)' /\ HeldInv(e)' /\ TodoInv(e)'
    BY <2>2, <2>7, <2>8
  <2> QED BY <2>4, <2>5, <2>9 DEF IInv
<1> QED BY <1>1, <1>2

LEMMA ClaimStep ==
  ASSUME IInv, NEW p \in Projector, Claim(p)
  PROVE  IInv'
<1>0. TypeOK /\ \A f \in Event : RowInv(f) /\ HeldInv(f) /\ TodoInv(f)
  BY DEF IInv
<1>1. /\ Batch \subseteq Event
      /\ \A f \in Batch :
           row[f].state = "pending" /\ lock[f] = None /\ (f \in Snapshot => tx[f] = 0)
  BY DEF Batch, Claimable, HoldsRow
<1>2. TypeOK'
  BY <1>0, <1>1 DEF TypeOK, Claim
<1>3. ASSUME NEW f \in Event PROVE RowInv(f)' /\ HeldInv(f)' /\ TodoInv(f)'
  <2>1. RowInv(f)'
    BY <1>0 DEF Claim, RowInv, Within
  <2>2. CASE f \in Batch
    <3>1. lock'[f] = p /\ work'[f] = row[f] /\ row' = row /\ tx' = tx /\ replays' = replays
          /\ mongo' = mongo
      BY <2>2 DEF Claim
    <3>2. row[f].state = "pending" /\ (f \in Snapshot => tx[f] = 0)
      BY <1>1, <2>2
    <3>3. HeldInv(f)'
      BY <1>0, <3>1, <3>2 DEF HeldInv, RowInv, Within
    <3>4. ASSUME NEW q \in Projector, q # p PROVE f \notin todo'[q]
      <4>1. todo'[q] = todo[q]
        BY <1>0, <3>4 DEF TypeOK, Claim
      <4>2. lock[f] # q
        BY <1>1, <2>2, OutboxConstants
      <4> QED BY <1>0, <4>1, <4>2 DEF TodoInv
    <3> QED BY <2>1, <3>1, <3>2, <3>3, <3>4 DEF TodoInv
  <2>3. CASE f \notin Batch
    <3>1. lock'[f] = lock[f] /\ work'[f] = work[f] /\ row' = row /\ tx' = tx
          /\ replays' = replays /\ mongo' = mongo
      BY <2>3 DEF Claim
    <3>2. \A q \in Projector : f \in todo'[q] => f \in todo[q]
      BY <1>0, <2>3 DEF TypeOK, Claim
    <3> QED BY <1>0, <2>1, <3>1, <3>2 DEF HeldInv, TodoInv, Within
  <2> QED BY <2>2, <2>3
<1> QED BY <1>2, <1>3 DEF IInv

\* What a pass does to the row it has next: mongo and its view of the row change,
\* and the rest of the group may be dropped.
LEMMA DeliveryStep ==
  ASSUME IInv, NEW p \in Projector, NEW e \in todo[p], NEW r \in Row, NEW v,
         v = mongo[e] \/ v = row[e].version,
         r.version = row[e].version,
         r.state = "published" => v = r.version,
         Within(r, replays),
         mongo' = [mongo EXCEPT ![e] = v],
         work' = [work EXCEPT ![e] = r],
         NEW S \in SUBSET Event, e \in S,
         todo' = [todo EXCEPT ![p] = @ \ S],
         UNCHANGED <<fact, row, lastSeq, tx, lock, overlong, aborts, replays>>
  PROVE  IInv'
<1>0. TypeOK /\ \A f \in Event : RowInv(f) /\ HeldInv(f) /\ TodoInv(f)
  BY DEF IInv
<1>1. e \in Event /\ lock[e] = p /\ row[e] \in Row /\ row[e].version \in Nat
      /\ mongo[e] \in Nat /\ v \in Nat
  BY <1>0 DEF TypeOK, TodoInv, Row
<1>2. row[e].state = "pending" /\ mongo[e] <= row[e].version /\ lock[e] # None
      /\ (e \in Snapshot => tx[e] = 0)
  BY <1>0, <1>1, OutboxConstants DEF HeldInv, RowInv
<1>3. TypeOK'
  BY <1>0, <1>1 DEF TypeOK
<1>4. \A q \in Projector : todo'[q] \subseteq todo[q] /\ e \notin todo'[q]
  BY <1>0, <1>1 DEF TypeOK, TodoInv
<1>5. RowInv(e)' /\ HeldInv(e)' /\ TodoInv(e)'
  <2>1. mongo'[e] = v /\ work'[e] = r
    BY <1>0, <1>1 DEF TypeOK
  <2>2. v <= row[e].version
    BY <1>1, <1>2
  <2> QED BY <1>0, <1>1, <1>2, <1>4, <2>1, <2>2 DEF RowInv, HeldInv, TodoInv, Within
<1>6. ASSUME NEW f \in Event, f # e PROVE RowInv(f)' /\ HeldInv(f)' /\ TodoInv(f)'
  <2>1. mongo'[f] = mongo[f] /\ work'[f] = work[f]
    BY <1>0, <1>1, <1>6 DEF TypeOK
  <2> QED BY <1>0, <1>4, <2>1 DEF RowInv, HeldInv, TodoInv, Within
<1> QED BY <1>3, <1>5, <1>6 DEF IInv

LEMMA AbortStep ==
  ASSUME IInv, NEW p \in Projector, Abort(p), UNCHANGED mongo, aborts' \in 0..MaxAborts
  PROVE  IInv'
<1>0. TypeOK /\ \A f \in Event : RowInv(f) /\ HeldInv(f) /\ TodoInv(f)
  BY DEF IInv
<1>1. TypeOK'
  BY <1>0, NoRowType DEF TypeOK, Abort
<1>2. ASSUME NEW f \in Event PROVE RowInv(f)' /\ HeldInv(f)' /\ TodoInv(f)'
  <2>1. RowInv(f)'
    BY <1>0 DEF Abort, RowInv, Within
  <2>2. \A q \in Projector : f \in todo'[q] => q # p /\ f \in todo[q]
    BY <1>0 DEF TypeOK, Abort
  <2>3. CASE lock[f] = p
    BY <1>0, <2>1, <2>2, <2>3 DEF Abort, HeldInv, TodoInv
  <2>4. CASE lock[f] # p
    BY <1>0, <2>1, <2>2, <2>4 DEF Abort, HeldInv, TodoInv, Within
  <2> QED BY <2>3, <2>4
<1> QED BY <1>1, <1>2 DEF IInv

LEMMA DeliverStep ==
  ASSUME IInv, NEW p \in Projector, Deliver(p)
  PROVE  IInv'
<1>0. TypeOK /\ \A f \in Event : RowInv(f) /\ HeldInv(f) /\ TodoInv(f)
  BY DEF IInv
<1>1. PICK e \in Event : \/ Publish(p, e)
                         \/ \E applied \in BOOLEAN : Fail(p, e, applied)
                         \/ FailTooLong(p, e)
  BY DEF Deliver
<1>2. e \in todo[p]
  BY <1>1 DEF Publish, Fail, FailTooLong, IsNext
<1>3. /\ lock[e] = p /\ lock[e] # None
      /\ work[e] \in Row /\ work[e].version = row[e].version /\ work[e].state = "pending"
      /\ Within(work[e], replays) /\ replays \in 0..MaxReplays
  BY <1>0, <1>2, OutboxConstants DEF TodoInv, HeldInv, TypeOK
<1>4. CASE Publish(p, e)
  <2> DEFINE r == [work[e] EXCEPT !.state = "published"]
  <2>1. r \in Row /\ r.version = row[e].version /\ r.state = "published"
        /\ Within(r, replays)
    BY <1>3 DEF Row, States, Within
  <2>2. work' = [work EXCEPT ![e] = r] /\ mongo' = [mongo EXCEPT ![e] = row[e].version]
    BY <1>0, <1>3, <1>4 DEF Publish, TypeOK
  <2>3. /\ todo' = [todo EXCEPT ![p] = @ \ {e}]
        /\ UNCHANGED <<fact, row, lastSeq, tx, lock, overlong, aborts, replays>>
    BY <1>4 DEF Publish
  <2> HIDE DEF r
  <2> QED BY <1>2, <2>1, <2>2, <2>3, DeliveryStep
<1>5. ASSUME NEW applied \in BOOLEAN, Fail(p, e, applied) PROVE IInv'
  <2> DEFINE r == Failed(e)
             v == IF applied THEN work[e].version ELSE mongo[e]
             S == Group(p, e)
  <2>1. work[e].attempts \in Nat /\ work[e].attempts + 1 <= MaxAttempts + replays
        /\ MaxAttempts + replays <= MaxAttempts + MaxReplays
        /\ work[e].attempts + 1 \in Attempts /\ MaxAttempts \in Nat /\ replays \in Nat
    BY <1>3, OutboxConstants DEF Row, Within, Attempts
  <2>2. /\ r \in Row /\ r.version = row[e].version
        /\ r.attempts = work[e].attempts + 1
        /\ r.state # "published"
        /\ r.state = "pending" => work[e].attempts + 1 < MaxAttempts
    <3>1. CASE e \in Poison \/ work[e].attempts + 1 >= MaxAttempts
      <4>1. r = [work[e] EXCEPT !.attempts = work[e].attempts + 1, !.state = "dead"]
        BY <3>1 DEF Failed
      <4> QED BY <1>3, <2>1, <4>1 DEF Row, States
    <3>2. CASE ~(e \in Poison \/ work[e].attempts + 1 >= MaxAttempts)
      <4>1. r = [work[e] EXCEPT !.attempts = work[e].attempts + 1, !.due = FALSE]
        BY <3>2 DEF Failed
      <4>2. work[e].attempts + 1 < MaxAttempts
        BY <2>1, <3>2
      <4> QED BY <1>3, <2>1, <4>1, <4>2 DEF Row, States
    <3> QED BY <3>1, <3>2
  <2>3. Within(r, replays)
    BY <2>1, <2>2 DEF Within
  <2>4. mongo' = [mongo EXCEPT ![e] = v]
    BY <1>0, <1>3, <1>5 DEF Fail, TypeOK
  <2>5. S \in SUBSET Event /\ e \in S
    BY <1>2, <1>3, <1>0 DEF Group, Claimed
  <2>6. /\ work' = [work EXCEPT ![e] = r]
        /\ todo' = [todo EXCEPT ![p] = @ \ S]
        /\ UNCHANGED <<fact, row, lastSeq, tx, lock, overlong, aborts, replays>>
    BY <1>5 DEF Fail
  <2>7. v = mongo[e] \/ v = row[e].version
    BY <1>3
  <2> HIDE DEF r, v, S
  <2> QED BY <1>2, <2>2, <2>3, <2>4, <2>5, <2>6, <2>7, DeliveryStep
<1>6. CASE FailTooLong(p, e)
  <2>1. aborts' \in 0..MaxAborts
    BY <1>0, <1>6, OutboxConstants DEF FailTooLong, TypeOK
  <2> QED BY <1>6, <2>1, AbortStep DEF FailTooLong
<1> QED BY <1>1, <1>4, <1>5, <1>6

LEMMA CommitPassStep ==
  ASSUME IInv, NEW p \in Projector, CommitPass(p)
  PROVE  IInv'
<1>0. TypeOK /\ \A f \in Event : RowInv(f) /\ HeldInv(f) /\ TodoInv(f)
  BY DEF IInv
<1>1. TypeOK'
  BY <1>0, NoRowType DEF TypeOK, CommitPass
<1>2. ASSUME NEW f \in Event PROVE RowInv(f)' /\ HeldInv(f)' /\ TodoInv(f)'
  <2>1. CASE lock[f] = p
    <3>1. row'[f] = work[f] /\ lock'[f] = None /\ mongo' = mongo /\ replays' = replays
          /\ fact' = fact /\ todo' = todo
      BY <2>1 DEF CommitPass
    <3>2. lock[f] # None
      BY <2>1, OutboxConstants
    <3>3. RowInv(f)'
      BY <1>0, <3>1, <3>2 DEF RowInv, HeldInv, Within
    <3>4. \A q \in Projector : f \notin todo[q]
      BY <1>0, <2>1 DEF CommitPass, TodoInv
    <3> QED BY <3>1, <3>3, <3>4 DEF HeldInv, TodoInv
  <2>2. CASE lock[f] # p
    BY <1>0, <2>2 DEF CommitPass, RowInv, HeldInv, TodoInv, Within
  <2> QED BY <2>1, <2>2
<1> QED BY <1>1, <1>2 DEF IInv

LEMMA BackoffStep ==
  ASSUME IInv, NEW e \in Event, BackoffElapses(e)
  PROVE  IInv'
<1>0. TypeOK /\ \A f \in Event : RowInv(f) /\ HeldInv(f) /\ TodoInv(f)
  BY DEF IInv
<1>2. row[e] \in Row /\ row'[e] = [row[e] EXCEPT !.due = TRUE]
      /\ \A f \in Event : f # e => row'[f] = row[f]
  BY <1>0 DEF TypeOK, BackoffElapses
<1>3. row'[e] \in Row /\ row'[e].version = row[e].version
      /\ row'[e].state = row[e].state /\ row'[e].attempts = row[e].attempts
  BY <1>2 DEF Row
<1>4. TypeOK'
  BY <1>0, <1>3 DEF TypeOK, BackoffElapses
<1>5. RowInv(e)' /\ HeldInv(e)' /\ TodoInv(e)'
  BY <1>0, <1>3 DEF BackoffElapses, RowInv, HeldInv, TodoInv, Within
<1>6. ASSUME NEW f \in Event, f # e PROVE RowInv(f)' /\ HeldInv(f)' /\ TodoInv(f)'
  BY <1>0, <1>2, <1>6 DEF BackoffElapses, RowInv, HeldInv, TodoInv, Within
<1> QED BY <1>4, <1>5, <1>6 DEF IInv

LEMMA ReplayStep ==
  ASSUME IInv, NEW S \in Selections, NEW resetAttempts \in BOOLEAN, Replay(S, resetAttempts)
  PROVE  IInv'
<1>0. TypeOK /\ \A f \in Event : RowInv(f) /\ HeldInv(f) /\ TodoInv(f)
  BY DEF IInv
<1>1. S \subseteq Event /\ \A f \in S : row[f].state \in {"pending", "dead"}
  <2> DEFINE open == {f \in Event : row[f].state \in {"pending", "dead"}}
  <2>1. S \subseteq open
    BY DEF Selections
  <2> QED BY <2>1
<1>r. /\ replays < MaxReplays /\ replays' = replays + 1
      /\ UNCHANGED <<fact, lastSeq, tx, lock, work, todo, mongo, overlong, aborts>>
  BY DEF Replay
<1>2. replays \in Nat /\ replays + 1 <= MaxReplays /\ replays' = replays + 1
      /\ MaxAttempts \in Nat \ {0} /\ MaxReplays \in Nat
  BY <1>0, <1>r, OutboxConstants DEF TypeOK
<1>3. ASSUME NEW f \in S
      PROVE  /\ lock[f] = None
             /\ row'[f] \in Row /\ row'[f].version = row[f].version
             /\ row'[f].state = "pending"
             /\ row'[f].attempts \in {0, row[f].attempts}
  <2>1. f \in Event /\ row[f] \in Row /\ 0 \in Attempts
    BY <1>0, <1>1, <1>2 DEF TypeOK, Attempts
  <2>2. row'[f] = [row[f] EXCEPT !.state = "pending", !.due = TRUE,
                                 !.attempts = IF resetAttempts THEN 0 ELSE @]
    BY <2>1 DEF Replay
  <2> QED BY <2>1, <2>2 DEF Row, States, Replay
<1>4. ASSUME NEW f \in Event, f \notin S PROVE row'[f] = row[f]
  BY <1>4 DEF Replay
<1>5. TypeOK'
  <2>1. row' \in [Event -> Row]
    <3>1. \A f \in Event : row'[f] \in Row
      BY <1>0, <1>3, <1>4 DEF TypeOK
    <3> QED BY <3>1 DEF Replay
  <2> QED BY <1>0, <1>r, <1>2, <2>1 DEF TypeOK
<1>6. ASSUME NEW f \in Event PROVE RowInv(f)' /\ HeldInv(f)' /\ TodoInv(f)'
  <2>1. row[f].attempts \in Nat /\ work[f].attempts \in Nat
    BY <1>0 DEF TypeOK, Row, Attempts
  <2>2. CASE f \in S
    <3>1. RowInv(f)'
      BY <1>0, <1>r, <1>2, <1>3, <2>1, <2>2 DEF RowInv, Within
    <3>2. HeldInv(f)' /\ TodoInv(f)'
      BY <1>0, <1>r, <1>3, <2>2, OutboxConstants DEF HeldInv, TodoInv
    <3> QED BY <3>1, <3>2
  <2>3. CASE f \notin S
    <3>1. row'[f] = row[f]
      BY <1>4, <2>3
    <3> QED BY <1>0, <1>r, <1>2, <2>1, <3>1 DEF RowInv, HeldInv, TodoInv, Within
  <2> QED BY <2>2, <2>3
<1> QED BY <1>5, <1>6 DEF IInv

LEMMA StutterStep ==
  ASSUME IInv, UNCHANGED vars
  PROVE  IInv'
BY DEF IInv, vars, TypeOK, RowInv, HeldInv, TodoInv, Within

LEMMA NextInvariant == IInv /\ [Next]_vars => IInv'
<1> SUFFICES ASSUME IInv, [Next]_vars PROVE IInv'
  OBVIOUS
<1>1. CASE \E p \in Projector : AbortPass(p)
  <2>1. PICK p \in Projector : AbortPass(p)
    BY <1>1
  <2>2. aborts' \in 0..MaxAborts
    BY <2>1, OutboxConstants DEF IInv, TypeOK, AbortPass
  <2> QED BY <2>1, <2>2, AbortStep DEF AbortPass
<1> QED
  BY <1>1, BeginWriteStep, EndWriteStep, ClaimStep, DeliverStep, CommitPassStep, BackoffStep,
     ReplayStep, StutterStep DEF Next

\* The inductive invariant holds of every behaviour of writers, projectors and
\* replays.
THEOREM OutboxInvariant == Spec => []IInv
<1>1. IInv /\ [Next]_vars => IInv'
  BY NextInvariant
<1> QED BY <1>1, InitInvariant, PTL DEF Spec

\* The state keeps its types; in particular a row is tried at most maxAttempts
\* times and once more for each replay (publishRow).
THEOREM OutboxTypeCorrect == Spec => []TypeOK
<1>1. IInv => TypeOK
  BY DEF IInv
<1> QED BY <1>1, OutboxInvariant, PTL

\* A row marked published has its payload in the replica, whatever the number of
\* projectors and however passes, rewrites, crashes and replays interleave.
THEOREM PublishedRowsAreDelivered == Spec => []PublishedIsInMongo
<1>1. IInv => PublishedIsInMongo
  BY DEF IInv, RowInv, PublishedIsInMongo
<1> QED BY <1>1, OutboxInvariant, PTL

\* The replica never moves back and never holds what was not committed
\* (enqueueOutboxSnapshot, drainBatch).
THEOREM ReplicaNeverMovesBack == Spec => ReplicaFollows
<1> DEFINE Forward == \A e \in Event : mongo[e] <= mongo'[e] /\ mongo'[e] <= fact[e]
<1>1. IInv /\ [Next]_vars => [Forward]_vars
  <2> SUFFICES ASSUME IInv, Next, NEW e \in Event
               PROVE  mongo[e] <= mongo'[e] /\ mongo'[e] <= fact[e]
    OBVIOUS
  <2>1. /\ mongo \in [Event -> Nat] /\ fact[e] \in Nat /\ row[e].version \in Nat
        /\ mongo[e] <= row[e].version /\ row[e].version <= fact[e]
        /\ \A p \in Projector : e \in todo[p] => work[e].version = row[e].version
    BY OutboxConstants DEF IInv, TypeOK, RowInv, TodoInv, HeldInv, Row
  <2>2. CASE UNCHANGED mongo
    BY <2>1, <2>2
  <2>3. ASSUME NEW p \in Projector, NEW f \in todo[p], f \in Event,
               mongo' = [mongo EXCEPT ![f] = work[f].version]
        PROVE  mongo[e] <= mongo'[e] /\ mongo'[e] <= fact[e]
    BY <2>1, <2>3
  <2>4. CASE \E p \in Projector : Deliver(p)
    BY <2>2, <2>3, <2>4 DEF Deliver, Publish, Fail, FailTooLong, IsNext
  <2> QED
    BY <2>2, <2>4 DEF Next, BeginWrite, CommitWrite, RollbackWrite, BackoffElapses, Claim,
                      CommitPass, AbortPass, Replay
<1> QED BY <1>1, OutboxInvariant, PTL DEF Spec, ReplicaFollows

-----------------------------------------------------------------------------
(***************************************************************************)
(* The pacer: numbers.                                                     *)
(***************************************************************************)
\* A non-empty set of natural numbers has a least element.
LEMMA LeastNumber ==
  ASSUME NEW S \in SUBSET Nat, NEW n \in S
  PROVE  First(S) \in S /\ \A j \in S : First(S) <= j
<1> DEFINE low == {j \in S : j <= n}
           below(g) == {h \in low : h < g}
           heads == {below(g) : g \in low}
<1>0. /\ low \in SUBSET Nat /\ n \in low /\ \A j \in low : j <= n
      /\ low \subseteq S /\ \A j \in S \ low : n < j
  <2>1. n \in low /\ \A j \in low : j <= n
    OBVIOUS
  <2>2. low \subseteq S
    OBVIOUS
  <2>3. \A j \in S \ low : n < j
    OBVIOUS
  <2> QED BY <2>1, <2>2, <2>3
<1> HIDE DEF low
<1>1. IsFiniteSet(low)
  BY <1>0, FS_BoundedSetOfNaturals
<1>2. IsWellFoundedOn(StrictSubsetOrdering(low), SUBSET low)
  BY <1>1, FS_StrictSubsetOrderingWellFounded, FS_FiniteSubsetsOfFinite
<1>3. heads \subseteq SUBSET low /\ heads # {}
  BY <1>0
<1> HIDE DEF heads
<1>4. PICK t \in heads : \A u \in heads : ~(<<u, t>> \in StrictSubsetOrdering(low))
  BY <1>2, <1>3, WFMin
<1>5. PICK g \in low : t = below(g)
  BY DEF heads
<1>6. below(g) = {}
  <2> SUFFICES ASSUME NEW h \in low, h < g PROVE FALSE
    OBVIOUS
  <2>0. \A x \in low : x \in Int
    BY <1>0
  <2>1. below(h) \subseteq below(g) /\ h \in below(g) /\ h \notin below(h)
    <3>1. \A x \in low : x < h => x < g
      BY <2>0
    <3>2. ~(h < h)
      BY <2>0
    <3> QED BY <3>1, <3>2
  <2>2. below(h) \in heads /\ below(h) \in SUBSET low /\ below(g) \in SUBSET low
    BY <1>5 DEF heads
  <2> HIDE DEF below
  <2>3. <<below(h), below(g)>> \in StrictSubsetOrdering(low)
    BY <2>1, <2>2 DEF StrictSubsetOrdering
  <2> QED BY <1>4, <1>5, <2>2, <2>3
<1>7. \A j \in low : g <= j
  BY <1>0, <1>5, <1>6
<1>8. g \in S /\ \A j \in S : g <= j
  BY <1>0, <1>5, <1>7
<1> QED BY <1>8 DEF First

-----------------------------------------------------------------------------
(***************************************************************************)
(* What a splice leaves of the queue.                                      *)
(***************************************************************************)
LEMMA KeptFinite ==
  ASSUME NEW n \in Nat, NEW kept \in SUBSET (1 .. n)
  PROVE  IsFiniteSet(kept) /\ Cardinality(kept) \in Nat
<1>1. IsFiniteSet(1 .. n)
  BY FS_Interval
<1> QED BY <1>1, FS_Subset, FS_CardinalityType

LEMMA PlaceFacts ==
  ASSUME NEW n \in Nat, NEW kept \in SUBSET (1 .. n), NEW i \in kept
  PROVE  /\ IsFiniteSet(kept) /\ Cardinality(kept) \in Nat
         /\ Place(kept, i) \in 1 .. Cardinality(kept)
         /\ \A j \in kept : i < j => Place(kept, i) < Place(kept, j)
<1> DEFINE upto(j) == {x \in kept : x <= j}
<1>1. IsFiniteSet(kept) /\ Cardinality(kept) \in Nat
  BY KeptFinite
<1>2. ASSUME NEW j \in kept
      PROVE  /\ upto(j) \in SUBSET kept /\ IsFiniteSet(upto(j)) /\ Cardinality(upto(j)) \in Nat
             /\ Cardinality(upto(j)) <= Cardinality(kept)
  <2>1. upto(j) \in SUBSET kept
    OBVIOUS
  <2> HIDE DEF upto
  <2> QED BY <1>1, <2>1, FS_Subset, FS_CardinalityType
<1>3. i \in upto(i) /\ Cardinality(upto(i)) # 0
  <2>1. i \in upto(i)
    OBVIOUS
  <2> HIDE DEF upto
  <2> QED BY <1>2, <2>1, FS_EmptySet
<1>4. ASSUME NEW j \in kept, i < j
      PROVE  Cardinality(upto(i)) < Cardinality(upto(j))
  <2>1. upto(i) \in SUBSET upto(j) /\ j \in upto(j) /\ j \notin upto(i)
    <3>0. \A x \in kept : x \in Int
      OBVIOUS
    <3>1. \A x \in kept : x <= i => x <= j
      BY <1>4, <3>0
    <3>2. j <= j /\ ~(j <= i)
      BY <1>4, <3>0
    <3> QED BY <3>1, <3>2
  <2> HIDE DEF upto
  <2>2. /\ Cardinality(upto(i)) <= Cardinality(upto(j))
        /\ Cardinality(upto(j)) = Cardinality(upto(i)) => upto(j) = upto(i)
    BY <1>2, <2>1, FS_Subset
  <2> QED BY <1>2, <2>1, <2>2
<1> HIDE DEF upto
<1>5. \A j : Place(kept, j) = Cardinality(upto(j))
  BY DEF Place, upto
<1> QED BY <1>1, <1>2, <1>3, <1>4, <1>5

\* Each place in what is kept is taken by one element.
LEMMA NthFacts ==
  ASSUME NEW n \in Nat, NEW kept \in SUBSET (1 .. n), NEW k \in 1 .. Cardinality(kept)
  PROVE  Nth(kept, k) \in kept /\ Place(kept, Nth(kept, k)) = k
<1> DEFINE place == [i \in kept |-> Place(kept, i)]
           m == Cardinality(kept)
<1>1. IsFiniteSet(kept) /\ m \in Nat
  BY KeptFinite
<1>2. place \in [kept -> 1 .. m]
  BY PlaceFacts
<1>3. \A i, j \in kept : place[i] = place[j] => i = j
  <2> SUFFICES ASSUME NEW i \in kept, NEW j \in kept, Place(kept, i) = Place(kept, j)
               PROVE  i = j
    OBVIOUS
  <2>1. Place(kept, i) \in 1 .. Cardinality(kept) /\ Place(kept, j) \in 1 .. Cardinality(kept)
    BY PlaceFacts
  <2>2. Place(kept, i) \in Int /\ Place(kept, j) \in Int
    BY <1>1, <2>1
  <2>3. i < j => Place(kept, i) < Place(kept, j)
    BY PlaceFacts
  <2>4. j < i => Place(kept, j) < Place(kept, i)
    BY PlaceFacts
  <2>5. i \in Int /\ j \in Int
    OBVIOUS
  <2> QED BY <2>2, <2>3, <2>4, <2>5
<1>4. place \in Injection(kept, 1 .. m)
  BY <1>2, <1>3 DEF Injection, IsInjective
<1>5. IsFiniteSet(1 .. m) /\ Cardinality(1 .. m) = m
  BY <1>1, FS_Interval
<1>6. place \in Surjection(kept, 1 .. m)
  BY <1>4, <1>5, FS_Injection
<1>7. \E i \in kept : Place(kept, i) = k
  BY <1>6 DEF Surjection
<1> QED BY <1>7 DEF Nth

LEMMA WithoutFacts ==
  ASSUME NEW A, NEW q \in Seq(A), NEW S
  PROVE  /\ Without(q, S) \in Seq(A)
         /\ Range(Without(q, S)) = Range(q) \ S
         /\ IsInjective(q) => IsInjective(Without(q, S))
<1> DEFINE kept == {i \in DOMAIN q : q[i] \notin S}
           m == Cardinality(kept)
           w == [k \in 1 .. m |-> q[Nth(kept, k)]]
<1>1. w = Without(q, S)
  BY DEF Without
<1>2. Len(q) \in Nat /\ DOMAIN q = 1 .. Len(q) /\ \A i \in 1 .. Len(q) : q[i] \in A
  OBVIOUS
<1>0. kept \in SUBSET (1 .. Len(q))
  BY <1>2
<1> HIDE DEF kept
<1>3. kept \in SUBSET (1 .. Len(q)) /\ IsFiniteSet(kept) /\ m \in Nat
  BY <1>0, <1>2, KeptFinite
<1> HIDE DEF m
<1>4. \A k \in 1 .. m : Nth(kept, k) \in kept /\ Place(kept, Nth(kept, k)) = k
  BY <1>2, <1>3, NthFacts DEF m
<1>5. \A k \in 1 .. m : q[Nth(kept, k)] \in A
  BY <1>2, <1>3, <1>4
<1>6. w \in Seq(A)
  BY <1>3, <1>5
<1>7. Range(w) \subseteq Range(q) \ S
  BY <1>4, <1>2, <1>3 DEF Range, kept
<1>8. Range(q) \ S \subseteq Range(w)
  <2> SUFFICES ASSUME NEW i \in DOMAIN q, q[i] \notin S
               PROVE  q[i] \in Range(w)
    BY DEF Range
  <2>1. i \in kept
    BY DEF kept
  <2>2. Place(kept, i) \in 1 .. m
    BY <1>2, <1>3, <2>1, PlaceFacts DEF m
  <2> DEFINE k == Place(kept, i)
  <2>3. Nth(kept, k) \in kept /\ Place(kept, Nth(kept, k)) = k
    BY <1>4, <2>2
  <2>4. Nth(kept, k) = i
    <3>1. Nth(kept, k) \in Int /\ i \in Int /\ k \in Int
      BY <1>2, <1>3, <2>1, <2>2, <2>3
    <3>2. i < Nth(kept, k) => Place(kept, i) < Place(kept, Nth(kept, k))
      BY <1>2, <1>3, <2>1, <2>3, PlaceFacts
    <3>3. Nth(kept, k) < i => Place(kept, Nth(kept, k)) < Place(kept, i)
      BY <1>2, <1>3, <2>1, <2>3, PlaceFacts
    <3> QED BY <2>3, <3>1, <3>2, <3>3
  <2> HIDE DEF k
  <2>5. k \in DOMAIN w /\ w[k] = q[i]
    BY <2>2, <2>4 DEF k
  <2> QED BY <2>5 DEF Range
<1>9. IsInjective(q) => IsInjective(w)
  <2> SUFFICES ASSUME IsInjective(q), NEW a \in 1 .. m, NEW b \in 1 .. m, w[a] = w[b]
               PROVE  a = b
    BY DEF IsInjective
  <2>1. Nth(kept, a) = Nth(kept, b)
    BY <1>2, <1>3, <1>4 DEF IsInjective
  <2> QED BY <1>4, <2>1
<1> QED BY <1>1, <1>6, <1>7, <1>8, <1>9

-----------------------------------------------------------------------------
(***************************************************************************)
(* The choice of the pacer.                                                *)
(***************************************************************************)
LEMMA PacingTypes ==
  /\ MaxBack \in Nat /\ Span \in Nat /\ Span > 0 /\ OrderGap \in Nat /\ OrderGap > 0
  /\ GeneralGap \in Nat /\ Grace \in Nat /\ CancelTimeout \in Nat /\ CancelTimeout > 0
  /\ Cooldown \in Nat /\ Limit \in Nat /\ Reserve \in Nat /\ Reserve <= Limit
  /\ \A c \in Classes : Gap(c) \in Nat
  /\ \A o \in Ops : Class(o) \in Classes
  /\ NoOp \notin Ops /\ Metered \in BOOLEAN
BY PacingConstants DEF Gap, Class, Classes

LEMMA PickedFromQueue ==
  ASSUME queue \in Seq(Ops), PickNext # NoOp
  PROVE  PickNext \in Range(queue) /\ ~Expired(PickNext)
<1>1. Candidates # {} /\ Candidates \in SUBSET (1 .. Len(queue)) /\ Len(queue) \in Nat
  BY DEF PickNext, Candidates
<1>2. Candidates \in SUBSET Nat
  BY <1>1
<1>3. Starved \in SUBSET Candidates /\ MostUrgent \in SUBSET Candidates
  BY DEF Starved, MostUrgent
<1>4. MostUrgent # {}
  <2>1. PICK i \in Candidates : TRUE
    BY <1>1
  <2>2. \A j : Rank(queue[j]) \in {0, 1, 2}
    BY DEF Rank
  <2>3. CASE \E j \in Candidates : Rank(queue[j]) = 0
    BY <2>2, <2>3 DEF MostUrgent
  <2>4. CASE ~(\E j \in Candidates : Rank(queue[j]) = 0) /\ \E j \in Candidates : Rank(queue[j]) = 1
    BY <2>2, <2>4 DEF MostUrgent
  <2>5. CASE \A j \in Candidates : Rank(queue[j]) = 2
    BY <2>1, <2>5 DEF MostUrgent
  <2> QED BY <2>2, <2>3, <2>4, <2>5
<1>5. \A S \in SUBSET Candidates : S # {} => First(S) \in S
  BY <1>2, LeastNumber
<1>6. \E i \in Candidates : PickNext = queue[i]
  BY <1>1, <1>3, <1>4, <1>5 DEF PickNext
<1> QED BY <1>6 DEF Candidates, Range

-----------------------------------------------------------------------------
(***************************************************************************)
(* The ledger's sums.                                                      *)
(***************************************************************************)
LEMMA PrunedType ==
  ASSUME NEW A \in SUBSET Int, NEW s \in [Lists -> Seq(A)]
  PROVE  Pruned(s) \in [Lists -> Seq(A)]
<1> SUFFICES ASSUME NEW k \in Lists
             PROVE  SubSeq(s[k], First(Covered(s[k]) \union {Len(s[k]) + 1}), Len(s[k])) \in Seq(A)
  BY DEF Pruned
<1> DEFINE S == Covered(s[k]) \union {Len(s[k]) + 1}
<1>1. s[k] \in Seq(A) /\ Len(s[k]) \in Nat /\ DOMAIN s[k] = 1 .. Len(s[k])
  OBVIOUS
<1>2. S \in SUBSET Nat /\ S # {} /\ \A i \in S : 1 <= i
  BY <1>1 DEF Covered
<1> HIDE DEF S
<1>3. First(S) \in S
  BY <1>2, LeastNumber
<1>4. First(S) \in Nat /\ 1 <= First(S)
  BY <1>2, <1>3
<1>5. SubSeq(s[k], First(S), Len(s[k])) \in Seq(A)
  BY <1>1, <1>4
<1> QED BY <1>5 DEF S

LEMMA CoveredFinite ==
  ASSUME NEW A \in SUBSET Int, NEW times \in Seq(A)
  PROVE  IsFiniteSet(Covered(times)) /\ Cardinality(Covered(times)) \in Nat
<1>1. Covered(times) \in SUBSET (1 .. Len(times)) /\ Len(times) \in Nat
  BY DEF Covered
<1> QED BY <1>1, KeptFinite

\* A request recorded now counts once.
LEMMA RecordCounts ==
  ASSUME NEW A \in SUBSET Int, 0 \in A, NEW p \in [Lists -> Seq(A)], NEW k \in Lists
  PROVE  Used([p EXCEPT ![k] = Append(@, 0)]) = Used(p) + 1
<1> DEFINE t == p[k]
           n == Append(t, 0)
<1>1. t \in Seq(A) /\ Len(t) \in Nat
  OBVIOUS
<1>2. Covered(n) = Covered(t) \union {Len(t) + 1} /\ Len(t) + 1 \notin Covered(t)
  <2>1. DOMAIN n = (1 .. Len(t)) \union {Len(t) + 1} /\ DOMAIN t = 1 .. Len(t)
    BY <1>1
  <2>2. n[Len(t) + 1] = 0 /\ \A i \in 1 .. Len(t) : n[i] = t[i]
    BY <1>1
  <2>3. 0 < Span
    BY PacingTypes
  <2>4. Len(t) + 1 \notin 1 .. Len(t)
    BY <1>1
  <2> HIDE DEF t, n
  <2> QED BY <2>1, <2>2, <2>3, <2>4 DEF Covered
<1>3. IsFiniteSet(Covered(t)) /\ Cardinality(Covered(t)) \in Nat
  BY <1>1, CoveredFinite
<1> HIDE DEF t, n
<1>4. Cardinality(Covered(n)) = Cardinality(Covered(t)) + 1
  BY <1>2, <1>3, FS_AddElement
<1>5. /\ Cardinality(Covered(p.placement)) \in Nat /\ Cardinality(Covered(p.recovery)) \in Nat
  BY CoveredFinite DEF Lists
<1> DEFINE r == [p EXCEPT ![k] = Append(@, 0)]
<1>6. CASE k = "placement"
  <2>1. r.placement = n /\ r.recovery = p.recovery /\ t = p.placement
    BY <1>6 DEF Lists, n, t
  <2> HIDE DEF r
  <2>2. Used(r) = Used(p) + 1
    BY <1>4, <1>5, <2>1 DEF Used
  <2> QED BY <2>2 DEF r
<1>7. CASE k = "recovery"
  <2>1. r.recovery = n /\ r.placement = p.placement /\ t = p.recovery
    BY <1>7 DEF Lists, n, t
  <2> HIDE DEF r
  <2>2. Used(r) = Used(p) + 1
    BY <1>4, <1>5, <2>1 DEF Used
  <2> QED BY <2>2 DEF r
<1> QED BY <1>6, <1>7 DEF Lists

-----------------------------------------------------------------------------
(***************************************************************************)
(* The invariant of the pacer.                                             *)
(***************************************************************************)
\* The queue holds what waits, once each; what hangs is in flight.
QueueInv ==
  /\ st \in [Ops -> {"idle", "queued", "dispatched", "onWire"}]
  /\ queue \in Seq(Ops) /\ IsInjective(queue)
  /\ \A o \in Ops : st[o] = "queued" <=> o \in Range(queue)
  /\ hung \subseteq InFlight \intersect Hanging

\* What the loop sleeps over still waits, unless its caller has given up.
NapInv ==
  /\ loop \in {"idle", "now", "next", "waiting", "ending"}
  /\ nap \in Naps /\ (loop # "waiting" => nap = NoNap)
  /\ loop = "waiting" => nap.gone \/ nap.op \in Range(queue)

\* The clock never says that more has passed since a call than has, unless the
\* whole gap has.
TimeInv ==
  /\ age \in [Ops -> -back .. AgeHorizon]
  /\ patience \in [Cancels -> 0 .. CancelTimeout]
  /\ since \in [Classes -> Int] /\ real \in [Classes -> Int]
  /\ \A c \in Classes : /\ since[c] \in -back .. Horizon(c) /\ real[c] \in 0 .. Gap(c)
                        /\ real[c] = Gap(c) \/ since[c] <= real[c]

\* Without a ledger nothing is recorded and no cooldown begins.
LedgerInv ==
  /\ spent \in [Lists -> Seq(-back .. SpanHorizon)]
  /\ cool \in -Slack .. Cooldown + back /\ back \in 0 .. MaxBack
  /\ ~Metered => cool = -Slack /\ spent = [k \in Lists |-> <<>>]

PacingIInv == QueueInv /\ NapInv /\ TimeInv /\ LedgerInv

LEMMA PacingInitIInv == PacingInit => PacingIInv
<1> SUFFICES ASSUME PacingInit PROVE PacingIInv
  OBVIOUS
<1>1. QueueInv
  BY DEF PacingInit, QueueInv, IsInjective, Range
<1>2. NapInv
  BY DEF PacingInit, NapInv, NoNap, Naps
<1>3. TimeInv
  <2>1. AgeHorizon \in Nat /\ \A c \in Classes : Horizon(c) = Gap(c) + MaxBack
    BY PacingTypes DEF PacingInit, AgeHorizon, Slack, Larger, Horizon
  <2>2. back = 0 /\ age = [o \in Ops |-> 0] /\ patience = [o \in Cancels |-> 0]
    BY DEF PacingInit
  <2>3. /\ age \in [Ops -> -back .. AgeHorizon] /\ patience \in [Cancels -> 0 .. CancelTimeout]
    BY <2>1, <2>2, PacingTypes
  <2>4. \A c \in Classes : since[c] = Gap(c) + MaxBack /\ real[c] = Gap(c)
    BY DEF PacingInit
  <2>5. since \in [Classes -> Int] /\ real \in [Classes -> Int]
    BY PacingTypes DEF PacingInit
  <2> QED BY <2>1, <2>2, <2>3, <2>4, <2>5, PacingTypes DEF TimeInv
<1>4. LedgerInv
  <2>1. spent = [k \in Lists |-> <<>>] /\ cool = -MaxBack /\ back = 0
    BY DEF PacingInit
  <2>2. spent \in [Lists -> Seq(-back .. SpanHorizon)]
    BY <2>1
  <2>3. Slack = MaxBack
    BY <2>1, PacingTypes DEF Slack
  <2> QED BY <2>1, <2>2, <2>3, PacingTypes DEF LedgerInv
<1> QED BY <1>1, <1>2, <1>3, <1>4 DEF PacingIInv

-----------------------------------------------------------------------------
(***************************************************************************)
(* The queue.                                                              *)
(***************************************************************************)
LEMMA RequestsLeave ==
  ASSUME QueueInv, NEW S \in SUBSET Range(queue), queue' = Without(queue, S),
         st' \in [Ops -> {"idle", "queued", "dispatched", "onWire"}], hung' = hung,
         \A x \in S : st'[x] # "queued", \A x \in Ops \ S : st'[x] = st[x]
  PROVE  QueueInv'
<1>1. queue \in Seq(Ops) /\ IsInjective(queue)
  BY DEF QueueInv
<1>2. queue' \in Seq(Ops) /\ IsInjective(queue') /\ Range(queue') = Range(queue) \ S
  BY <1>1, WithoutFacts
<1>3. Range(queue) \subseteq Ops
  BY <1>1 DEF Range
<1>4. \A o \in Ops : st'[o] = "queued" <=> o \in Range(queue')
  BY <1>2, <1>3 DEF QueueInv
<1>5. hung' \subseteq InFlight' \intersect Hanging
  <2> SUFFICES ASSUME NEW o \in hung
               PROVE  o \in Ops /\ st'[o] \in {"dispatched", "onWire"} /\ o \in Hanging
    BY DEF InFlight
  <2>1. o \in Ops /\ st[o] \in {"dispatched", "onWire"} /\ o \in Hanging
    BY DEF QueueInv, InFlight
  <2>2. o \notin S
    BY <2>1 DEF QueueInv
  <2> QED BY <2>1, <2>2
<1> QED BY <1>2, <1>4, <1>5 DEF QueueInv

LEMMA WithdrawnLeave ==
  ASSUME QueueInv, NEW S \in SUBSET Range(queue), Withdraw(S), hung' = hung
  PROVE  QueueInv' /\ Range(queue') = Range(queue) \ S
<1>1. queue' = Without(queue, S) /\ st' = [o \in Ops |-> IF o \in S THEN "idle" ELSE st[o]]
  BY DEF Withdraw
<1>2. S \subseteq Ops /\ queue \in Seq(Ops)
  BY DEF QueueInv, Range
<1>3. /\ st' \in [Ops -> {"idle", "queued", "dispatched", "onWire"}]
      /\ \A x \in S : st'[x] # "queued"
      /\ \A x \in Ops \ S : st'[x] = st[x]
  BY <1>1, <1>2 DEF QueueInv
<1> QED BY <1>1, <1>2, <1>3, RequestsLeave, WithoutFacts

LEMMA SentLeave ==
  ASSUME QueueInv, NEW E \in SUBSET Range(queue), NEW o \in Range(queue), Send(o, E), hung' = hung
  PROVE  QueueInv' /\ Range(queue') = Range(queue) \ (E \union {o})
<1>1. /\ queue' = Without(queue, E \union {o})
      /\ st' = [x \in Ops |-> IF x = o THEN IF o \in Placements THEN "dispatched" ELSE "onWire"
                              ELSE IF x \in E THEN "idle" ELSE st[x]]
  BY DEF Send
<1>2. E \union {o} \in SUBSET Range(queue) /\ Range(queue) \subseteq Ops /\ queue \in Seq(Ops)
  BY DEF QueueInv, Range
<1>3. /\ st' \in [Ops -> {"idle", "queued", "dispatched", "onWire"}]
      /\ \A x \in E \union {o} : st'[x] # "queued"
      /\ \A x \in Ops \ (E \union {o}) : st'[x] = st[x]
  BY <1>1, <1>2 DEF QueueInv
<1> QED BY <1>1, <1>2, <1>3, RequestsLeave, WithoutFacts

LEMMA DispatchLeave ==
  ASSUME QueueInv, NEW E \in SUBSET Range(queue), NEW o \in Range(queue), Dispatch(o, E), hung' = hung
  PROVE  QueueInv'
<1>1. CASE Send(o, E)
  BY <1>1, SentLeave
<1>2. CASE Withdraw(E \union {o})
  BY <1>2, WithdrawnLeave
<1> QED BY <1>1, <1>2 DEF Dispatch

LEMMA QueueKept == PacingIInv /\ [PacingNext]_pacingVars => QueueInv'
<1> SUFFICES ASSUME PacingIInv, [PacingNext]_pacingVars PROVE QueueInv'
  OBVIOUS
<1>0. QueueInv /\ NapInv
  BY DEF PacingIInv
<1>1. ExpiredInQueue \in SUBSET Range(queue)
  BY DEF ExpiredInQueue
<1>2. CASE UNCHANGED <<st, queue, hung>>
  BY <1>0, <1>2 DEF QueueInv, InFlight
<1>3. CASE DrainNothing \/ DrainWait
  BY <1>0, <1>1, <1>3, WithdrawnLeave DEF DrainNothing, DrainWait
<1>4. CASE DrainDispatch
  <2>1. PickNext \in Range(queue)
    BY <1>0, <1>4, PickedFromQueue DEF DrainDispatch, QueueInv
  <2> QED BY <1>0, <1>1, <1>4, <2>1, DispatchLeave DEF DrainDispatch
<1>5. CASE WakeDispatch
  <2>1. nap.op \in Range(queue) /\ {} \in SUBSET Range(queue)
    BY <1>0, <1>5 DEF WakeDispatch, Awake, StillQueued, NapInv
  <2> QED BY <1>0, <1>5, <2>1, DispatchLeave DEF WakeDispatch
<1>6. ASSUME NEW o \in Ops, Submit(o) PROVE QueueInv'
  <2>1. queue' = Append(queue, o) /\ st' = [st EXCEPT ![o] = "queued"] /\ hung' = hung /\ st[o] = "idle"
    BY <1>6 DEF Submit
  <2>2. queue \in Seq(Ops) /\ IsInjective(queue) /\ o \notin Range(queue)
    BY <1>0, <2>1 DEF QueueInv
  <2>3. /\ queue' \in Seq(Ops) /\ Len(queue) \in Nat
        /\ DOMAIN queue' = (1 .. Len(queue)) \union {Len(queue) + 1} /\ DOMAIN queue = 1 .. Len(queue)
        /\ queue'[Len(queue) + 1] = o /\ \A i \in 1 .. Len(queue) : queue'[i] = queue[i]
    BY <2>1, <2>2
  <2>4. Range(queue') = Range(queue) \union {o}
    BY <2>3 DEF Range
  <2>5. IsInjective(queue')
    BY <2>2, <2>3 DEF IsInjective, Range
  <2>6. st' \in [Ops -> {"idle", "queued", "dispatched", "onWire"}]
    BY <1>0, <2>1 DEF QueueInv
  <2>7. \A x \in Ops : st'[x] = "queued" <=> x \in Range(queue')
    BY <1>0, <2>1, <2>4 DEF QueueInv
  <2>8. hung' \subseteq InFlight' \intersect Hanging
    BY <1>0, <2>1 DEF QueueInv, InFlight
  <2> QED BY <2>3, <2>5, <2>6, <2>7, <2>8 DEF QueueInv
<1>7. ASSUME NEW o \in Ops, TokenArrives(o) \/ TokenRefused(o) \/ Answered(o)
      PROVE  QueueInv'
  <2>1. /\ st[o] \in {"dispatched", "onWire"} /\ o \notin hung /\ queue' = queue /\ hung' = hung
        /\ \E s \in {"idle", "onWire"} : st' = [st EXCEPT ![o] = s]
    BY <1>7 DEF TokenArrives, TokenRefused, Answered, Release
  <2> QED BY <1>0, <2>1 DEF QueueInv, InFlight
<1>8. ASSUME NEW o \in Ops, Hangs(o) PROVE QueueInv'
  BY <1>0, <1>8 DEF Hangs, QueueInv, InFlight
<1>9. ASSUME NEW o \in Ops, Abandon(o) PROVE QueueInv'
  <2>1. {o} \in SUBSET Range(queue)
    BY <1>0, <1>9 DEF Abandon, QueueInv
  <2> QED BY <1>0, <1>9, <2>1, WithdrawnLeave DEF Abandon
<1>10. ASSUME NEW o \in Ops, SubmitRefused(o) PROVE QueueInv'
  BY <1>2, <1>10 DEF SubmitRefused
<1>11. CASE WakeAgain \/ LoopEnds \/ Tick \/ \E d \in 1 .. MaxBack : StepBack(d)
  BY <1>2, <1>11 DEF WakeAgain, LoopEnds, Tick, StepBack
<1>12. CASE UNCHANGED pacingVars
  BY <1>2, <1>12 DEF pacingVars
<1> QED BY <1>3, <1>4, <1>5, <1>6, <1>7, <1>8, <1>9, <1>10, <1>11, <1>12 DEF PacingNext, Loop

-----------------------------------------------------------------------------
(***************************************************************************)
(* The sleep of the loop.                                                  *)
(***************************************************************************)
LEMMA SliceType ==
  ASSUME TimeInv, LedgerInv, NEW o \in Ops
  PROVE  Wait(o) \in Nat /\ Slice(o) \in Nat
<1>1. since[Class(o)] \in Int /\ since["any"] \in Int /\ age[o] \in Int /\ Gap(Class(o)) \in Nat
  <2>1. AgeHorizon \in Int
    BY PacingTypes DEF AgeHorizon, Slack, Larger, LedgerInv
  <2>2. back \in Int
    BY PacingTypes DEF LedgerInv
  <2> QED BY <2>1, <2>2, PacingTypes DEF TimeInv, Classes
<1>2. \A gap \in Nat, elapsed \in Int : PacingWait(gap, elapsed) \in Nat
  BY DEF PacingWait, Larger
<1>3. Wait(o) \in Nat
  <2>1. PacingWait(Gap(Class(o)), since[Class(o)]) \in Nat /\ PacingWait(OrderGap, since["any"]) \in Nat
    BY <1>1, <1>2, PacingTypes
  <2> QED BY <2>1 DEF Wait, Larger
<1>4. Slice(o) \in Nat
  BY <1>1, <1>3, PacingTypes DEF Slice, Smaller, Larger
<1> QED BY <1>3, <1>4

LEMMA NapKept == PacingIInv /\ [PacingNext]_pacingVars => NapInv'
<1> SUFFICES ASSUME PacingIInv, [PacingNext]_pacingVars PROVE NapInv'
  OBVIOUS
<1>0. QueueInv /\ NapInv /\ TimeInv /\ LedgerInv
  BY DEF PacingIInv
<1>1. NoNap \in Naps /\ NoNap.op = NoOp /\ NoNap.gone = FALSE
  BY DEF NoNap, Naps
<1>2. CASE UNCHANGED <<nap, queue>> /\ loop' \in {loop, Started}
  BY <1>0, <1>2 DEF NapInv, Started
<1>3. CASE /\ nap' = NoNap /\ loop' \in {"idle", "now", "next", "ending"}
  BY <1>1, <1>3 DEF NapInv
<1>4. CASE DrainNothing \/ DrainDispatch \/ WakeAgain \/ WakeDispatch \/ LoopEnds
  <2>1. nap' = NoNap /\ loop' \in {"idle", "now", "next", "ending"}
    BY <1>0, <1>4 DEF DrainNothing, DrainDispatch, WakeAgain, WakeDispatch, LoopEnds, LoopAgain,
                      AwakeOrStarting, Awake, NapInv
  <2> QED BY <1>3, <2>1
<1>5. CASE DrainWait
  <2>1. PickNext \in Range(queue) /\ ~Expired(PickNext)
    BY <1>0, <1>5, PickedFromQueue DEF DrainWait, QueueInv
  <2>2. PickNext \in Ops
    BY <1>0, <2>1 DEF QueueInv, Range
  <2>3. Range(queue') = Range(queue) \ ExpiredInQueue
    <3>1. ExpiredInQueue \in SUBSET Range(queue)
      BY DEF ExpiredInQueue
    <3> QED BY <1>0, <1>5, <3>1, WithdrawnLeave DEF DrainWait
  <2>4. PickNext \in Range(queue')
    BY <2>1, <2>3 DEF ExpiredInQueue
  <2>5. /\ nap' = [op |-> PickNext, gone |-> FALSE, slice |-> Slice(PickNext), past |-> 0, served |-> 0]
        /\ loop' = "waiting"
    BY <1>5 DEF DrainWait
  <2>6. nap' \in Naps /\ nap'.op = PickNext
    BY <1>0, <2>2, <2>5, SliceType DEF Naps
  <2> QED BY <2>4, <2>5, <2>6 DEF NapInv
<1>6. ASSUME NEW o \in Ops, Submit(o) PROVE NapInv'
  <2>1. queue' = Append(queue, o) /\ nap' = nap /\ loop' = Started
    BY <1>6 DEF Submit
  <2>2. queue \in Seq(Ops)
    BY <1>0 DEF QueueInv
  <2>3. Range(queue) \subseteq Range(queue')
    <3>1. /\ DOMAIN queue' = 1 .. Len(queue) + 1 /\ DOMAIN queue = 1 .. Len(queue) /\ Len(queue) \in Nat
          /\ \A i \in 1 .. Len(queue) : queue'[i] = queue[i]
      BY <2>1, <2>2
    <3>2. DOMAIN queue \subseteq DOMAIN queue'
      BY <3>1
    <3> QED BY <3>1, <3>2 DEF Range
  <2> QED BY <1>0, <2>1, <2>3 DEF NapInv, Started
<1>7. ASSUME NEW o \in Ops,
             SubmitRefused(o) \/ TokenArrives(o) \/ TokenRefused(o) \/ Answered(o) \/ Hangs(o)
      PROVE  NapInv'
  <2>1. UNCHANGED <<nap, queue>> /\ loop' \in {loop, Started}
    BY <1>7 DEF SubmitRefused, TokenArrives, TokenRefused, Answered, Hangs, Release
  <2> QED BY <1>2, <2>1
<1>8. ASSUME NEW o \in Ops, Abandon(o) PROVE NapInv'
  <2>1. /\ nap' = [nap EXCEPT !.gone = @ \/ nap.op = o] /\ loop' = Started /\ nap \in Naps
        /\ st[o] = "queued"
    BY <1>0, <1>8 DEF Abandon, NapInv
  <2>2. Range(queue') = Range(queue) \ {o}
    <3>1. {o} \in SUBSET Range(queue)
      BY <1>0, <2>1 DEF QueueInv
    <3> QED BY <1>0, <1>8, <3>1, WithdrawnLeave DEF Abandon
  <2>3. nap' \in Naps /\ nap'.op = nap.op /\ (nap'.gone <=> nap.gone \/ nap.op = o)
    BY <2>1 DEF Naps
  <2>4. CASE loop = "waiting"
    <3>1. loop' = "waiting"
      BY <2>1, <2>4 DEF Started
    <3>2. nap'.gone \/ nap'.op \in Range(queue')
      BY <1>0, <2>2, <2>3, <2>4 DEF NapInv
    <3> QED BY <2>3, <3>1, <3>2 DEF NapInv
  <2>5. CASE loop # "waiting"
    <3>1. nap = NoNap /\ loop' # "waiting" /\ loop' \in {"idle", "now", "next", "ending"}
      BY <1>0, <2>1, <2>5 DEF NapInv, Started
    <3>2. nap' = NoNap
      <4>1. nap.op # o
        BY <1>1, <3>1, PacingTypes
      <4>2. nap' = [nap EXCEPT !.gone = FALSE]
        BY <1>1, <2>1, <3>1, <4>1
      <4> QED BY <3>1, <4>2 DEF NoNap
    <3> QED BY <1>3, <3>1, <3>2
  <2> QED BY <2>4, <2>5
<1>9. CASE Tick
  <2>1. loop' = loop /\ queue' = queue
        /\ nap' = IF loop = "waiting" THEN [nap EXCEPT !.past = @ + 1, !.served = @ + 1] ELSE nap
    BY <1>9 DEF Tick
  <2>2. nap \in Naps
    BY <1>0 DEF NapInv
  <2>3. [nap EXCEPT !.past = @ + 1, !.served = @ + 1] \in Naps
    <3>1. nap.past + 1 \in Nat /\ nap.served + 1 \in Int
      BY <2>2 DEF Naps
    <3>2. \A m \in Nat, n \in Int : [nap EXCEPT !.past = m, !.served = n] \in Naps
      BY <2>2 DEF Naps
    <3>3. [nap EXCEPT !.past = @ + 1, !.served = @ + 1]
            = [nap EXCEPT !.past = nap.past + 1, !.served = nap.served + 1]
      OBVIOUS
    <3> QED BY <3>1, <3>2, <3>3
  <2>4. nap' \in Naps /\ nap'.op = nap.op /\ nap'.gone = nap.gone
    BY <2>1, <2>2, <2>3 DEF Naps
  <2> QED BY <1>0, <2>1, <2>4 DEF NapInv
<1>10. ASSUME NEW d \in 1 .. MaxBack, StepBack(d) PROVE NapInv'
  <2>1. loop' = loop /\ queue' = queue
        /\ nap' = IF loop = "waiting" THEN [nap EXCEPT !.served = @ - d] ELSE nap
    BY <1>10 DEF StepBack
  <2>2. nap \in Naps /\ d \in Int
    BY <1>0, PacingTypes DEF NapInv
  <2>3. nap' \in Naps /\ nap'.op = nap.op /\ nap'.gone = nap.gone
    BY <2>1, <2>2 DEF Naps
  <2> QED BY <1>0, <2>1, <2>3 DEF NapInv
<1>11. CASE UNCHANGED pacingVars
  BY <1>2, <1>11 DEF pacingVars
<1> QED BY <1>4, <1>5, <1>6, <1>7, <1>8, <1>9, <1>10, <1>11 DEF PacingNext, Loop

-----------------------------------------------------------------------------
(***************************************************************************)
(* The clocks.                                                             *)
(***************************************************************************)
LEMMA Horizons ==
  ASSUME back \in 0 .. MaxBack
  PROVE  /\ back \in Nat /\ Slack \in Nat /\ Slack = MaxBack - back
         /\ AgeHorizon \in Nat /\ SpanHorizon \in Nat
         /\ \A c \in Classes : Horizon(c) \in Nat /\ Horizon(c) = Gap(c) + Slack
BY PacingTypes DEF Slack, AgeHorizon, SpanHorizon, Horizon, Larger

LEMMA ClocksStop ==
  ASSUME TimeInv, back \in 0 .. MaxBack, NEW S, StopClocks(S), UNCHANGED <<since, real, back>>
  PROVE  TimeInv'
<1>1. /\ age' = [o \in Ops |-> IF o \in S THEN 0 ELSE age[o]]
      /\ patience' = [c \in Cancels |-> IF c \in S THEN 0 ELSE patience[c]]
  BY DEF StopClocks
<1>2. 0 \in -back .. AgeHorizon /\ 0 \in 0 .. CancelTimeout
  BY Horizons, PacingTypes
<1>3. /\ age' \in [Ops -> -back .. AgeHorizon] /\ patience' \in [Cancels -> 0 .. CancelTimeout]
  BY <1>1, <1>2 DEF TimeInv
<1>4. AgeHorizon' = AgeHorizon /\ \A c \in Classes : Horizon(c)' = Horizon(c)
  BY DEF AgeHorizon, Horizon, Slack
<1> QED BY <1>3, <1>4 DEF TimeInv

LEMMA CallResets ==
  ASSUME TimeInv, back \in 0 .. MaxBack, NEW o \in Ops, NEW E, Send(o, E), back' = back
  PROVE  TimeInv'
<1>1. /\ age' = [x \in Ops |-> IF x \in E \union {o} THEN 0 ELSE age[x]]
      /\ patience' = [c \in Cancels |-> IF c \in E \union {o} THEN 0 ELSE patience[c]]
      /\ since' = [since EXCEPT !["any"] = 0, ![Class(o)] = 0]
      /\ real' = [real EXCEPT !["any"] = 0, ![Class(o)] = 0]
  BY DEF Send, StopClocks
<1>2. 0 \in -back .. AgeHorizon /\ 0 \in 0 .. CancelTimeout
  BY Horizons, PacingTypes
<1>3. /\ age' \in [Ops -> -back .. AgeHorizon] /\ patience' \in [Cancels -> 0 .. CancelTimeout]
  BY <1>1, <1>2 DEF TimeInv
<1>4. AgeHorizon' = AgeHorizon /\ \A c \in Classes : Horizon(c)' = Horizon(c)
  BY DEF AgeHorizon, Horizon, Slack
<1>5. \A c \in Classes : \/ since'[c] = 0 /\ real'[c] = 0
                         \/ since'[c] = since[c] /\ real'[c] = real[c]
  BY <1>1, PacingTypes DEF TimeInv, Classes
<1>6. since' \in [Classes -> Int] /\ real' \in [Classes -> Int]
  BY <1>1, PacingTypes DEF TimeInv, Classes
<1>7. \A c \in Classes : 0 \in -back .. Horizon(c) /\ 0 \in 0 .. Gap(c)
  BY Horizons, PacingTypes
<1> QED BY <1>3, <1>4, <1>5, <1>6, <1>7 DEF TimeInv

LEMMA DispatchClocks ==
  ASSUME TimeInv, back \in 0 .. MaxBack, NEW o \in Ops, NEW E, Dispatch(o, E), back' = back
  PROVE  TimeInv'
<1>1. CASE Send(o, E)
  BY <1>1, CallResets
<1>2. CASE Withdraw(E \union {o}) /\ UNCHANGED <<since, real>>
  BY <1>2, ClocksStop DEF Withdraw
<1> QED BY <1>1, <1>2 DEF Dispatch

LEMMA TimeKept == PacingIInv /\ [PacingNext]_pacingVars => TimeInv'
<1> SUFFICES ASSUME PacingIInv, [PacingNext]_pacingVars PROVE TimeInv'
  OBVIOUS
<1>0. QueueInv /\ NapInv /\ TimeInv /\ LedgerInv /\ back \in 0 .. MaxBack
  BY DEF PacingIInv, LedgerInv
<1>1. CASE UNCHANGED <<age, patience, since, real, back>>
  BY <1>0, <1>1 DEF TimeInv, AgeHorizon, Horizon, Slack
<1>2. CASE DrainNothing \/ DrainWait
  BY <1>0, <1>2, ClocksStop DEF DrainNothing, DrainWait, Withdraw
<1>3. CASE DrainDispatch
  <2>1. PickNext \in Ops
    BY <1>0, <1>3, PickedFromQueue DEF DrainDispatch, QueueInv, Range
  <2> QED BY <1>0, <1>3, <2>1, DispatchClocks DEF DrainDispatch
<1>4. CASE WakeDispatch
  <2>1. nap.op \in Ops
    BY <1>0, <1>4 DEF WakeDispatch, Awake, StillQueued, NapInv, QueueInv, Range
  <2> QED BY <1>0, <1>4, <2>1, DispatchClocks DEF WakeDispatch
<1>5. ASSUME NEW o \in Ops, Submit(o) PROVE TimeInv'
  <2>1. /\ age' = [age EXCEPT ![o] = 0] /\ UNCHANGED <<since, real, back>>
        /\ patience' = [c \in Cancels |-> IF c = o THEN CancelTimeout ELSE patience[c]]
    BY <1>5 DEF Submit
  <2>2. 0 \in -back .. AgeHorizon /\ CancelTimeout \in 0 .. CancelTimeout
    BY <1>0, Horizons, PacingTypes
  <2>3. age' \in [Ops -> -back .. AgeHorizon] /\ patience' \in [Cancels -> 0 .. CancelTimeout]
    BY <1>0, <2>1, <2>2 DEF TimeInv
  <2>4. AgeHorizon' = AgeHorizon /\ \A c \in Classes : Horizon(c)' = Horizon(c)
    BY <2>1 DEF AgeHorizon, Horizon, Slack
  <2> QED BY <1>0, <2>1, <2>3, <2>4 DEF TimeInv
<1>6. ASSUME NEW o \in Ops, SubmitRefused(o) \/ TokenArrives(o) \/ TokenRefused(o) \/ Answered(o) \/ Hangs(o)
      PROVE  TimeInv'
  BY <1>1, <1>6 DEF SubmitRefused, TokenArrives, TokenRefused, Answered, Hangs
<1>7. ASSUME NEW o \in Ops, Abandon(o) PROVE TimeInv'
  BY <1>0, <1>7, ClocksStop DEF Abandon, Withdraw
<1>8. CASE Tick
  <2>1. /\ age' = [o \in Ops |-> IF st[o] = "queued" THEN Smaller(age[o] + 1, AgeHorizon) ELSE 0]
        /\ patience' = [c \in Cancels |-> Larger(patience[c] - 1, 0)]
        /\ since' = [c \in Classes |-> Smaller(since[c] + 1, Horizon(c))]
        /\ real' = [c \in Classes |-> Smaller(real[c] + 1, Gap(c))] /\ back' = back
    BY <1>8 DEF Tick
  <2>2. AgeHorizon' = AgeHorizon /\ \A c \in Classes : Horizon(c)' = Horizon(c)
    BY <2>1 DEF AgeHorizon, Horizon, Slack
  <2>3. age' \in [Ops -> -back .. AgeHorizon]
    <3>1. \A o \in Ops : age[o] \in -back .. AgeHorizon
      BY <1>0 DEF TimeInv
    <3>2. ASSUME NEW x \in -back .. AgeHorizon PROVE Smaller(x + 1, AgeHorizon) \in -back .. AgeHorizon
      <4>1. back \in Nat /\ AgeHorizon \in Nat
        BY <1>0, Horizons
      <4> QED BY <4>1 DEF Smaller
    <3>3. 0 \in -back .. AgeHorizon
      BY <1>0, Horizons
    <3> QED BY <2>1, <3>1, <3>2, <3>3
  <2>4. patience' \in [Cancels -> 0 .. CancelTimeout]
    <3>1. \A c \in Cancels : patience[c] \in 0 .. CancelTimeout
      BY <1>0 DEF TimeInv
    <3>2. \A x \in 0 .. CancelTimeout : Larger(x - 1, 0) \in 0 .. CancelTimeout
      BY PacingTypes DEF Larger
    <3> QED BY <2>1, <3>1, <3>2
  <2>5. ASSUME NEW c \in Classes
        PROVE  /\ since'[c] \in -back .. Horizon(c) /\ real'[c] \in 0 .. Gap(c)
               /\ real'[c] = Gap(c) \/ since'[c] <= real'[c]
    <3>1. /\ since[c] \in -back .. Horizon(c) /\ real[c] \in 0 .. Gap(c)
          /\ real[c] = Gap(c) \/ since[c] <= real[c]
      BY <1>0 DEF TimeInv
    <3>2. since'[c] = Smaller(since[c] + 1, Horizon(c)) /\ real'[c] = Smaller(real[c] + 1, Gap(c))
      BY <2>1
    <3>3. Horizon(c) \in Nat /\ Gap(c) \in Nat /\ back \in Nat
      BY <1>0, Horizons, PacingTypes
    <3> QED BY <3>1, <3>2, <3>3 DEF Smaller
  <2>6. since' \in [Classes -> Int] /\ real' \in [Classes -> Int]
    <3>1. \A c \in Classes : since'[c] \in Int /\ real'[c] \in Int
      BY <1>0, <2>5, Horizons, PacingTypes
    <3> QED BY <2>1, <3>1
  <2> QED BY <2>1, <2>2, <2>3, <2>4, <2>5, <2>6 DEF TimeInv
<1>9. ASSUME NEW d \in 1 .. MaxBack, StepBack(d) PROVE TimeInv'
  <2>1. /\ age' = [o \in Ops |-> IF st[o] = "queued" THEN age[o] - d ELSE 0]
        /\ since' = [c \in Classes |-> since[c] - d]
        /\ real' = real /\ patience' = patience /\ back' = back + d /\ back + d <= MaxBack
    BY <1>9 DEF StepBack
  <2>2. d \in Nat /\ d > 0 /\ back' \in 0 .. MaxBack
    BY <1>0, <2>1, PacingTypes
  <2>3. /\ AgeHorizon \in Nat /\ AgeHorizon' \in Nat /\ AgeHorizon' = AgeHorizon - d
        /\ \A c \in Classes : Horizon(c) \in Nat /\ Horizon(c)' = Horizon(c) - d
    <3>1. Slack' = Slack - d /\ Slack \in Nat /\ Slack' \in Nat
      BY <1>0, <2>1, <2>2, PacingTypes DEF Slack
    <3>2. AgeHorizon' = AgeHorizon - d /\ AgeHorizon \in Nat /\ AgeHorizon' \in Nat
      BY <2>2, <3>1, PacingTypes DEF AgeHorizon, Larger
    <3>3. ASSUME NEW c \in Classes PROVE Horizon(c) \in Nat /\ Horizon(c)' = Horizon(c) - d
      BY <2>2, <3>1, <3>3, PacingTypes DEF Horizon, Gap
    <3> QED BY <3>2, <3>3
  <2>4. age' \in [Ops -> -back' .. AgeHorizon']
    <3>1. \A o \in Ops : age[o] \in -back .. AgeHorizon
      BY <1>0 DEF TimeInv
    <3>2. ASSUME NEW x \in -back .. AgeHorizon PROVE x - d \in -back' .. AgeHorizon'
      <4>1. back \in Nat /\ AgeHorizon \in Nat /\ AgeHorizon' = AgeHorizon - d /\ back' = back + d
        BY <1>0, <2>1, <2>3, Horizons
      <4>2. x - d \in -(back + d) .. AgeHorizon - d
        BY <2>2, <4>1
      <4> QED BY <4>1, <4>2
    <3>3. 0 \in -back' .. AgeHorizon'
      <4>1. \A b, h \in Nat : 0 \in -b .. h
        OBVIOUS
      <4>2. back' \in Nat
        BY <2>2, PacingTypes
      <4> QED BY <2>3, <4>1, <4>2
    <3> QED BY <2>1, <3>1, <3>2, <3>3
  <2>5. ASSUME NEW c \in Classes
        PROVE  /\ since'[c] \in -back' .. Horizon(c)' /\ real'[c] \in 0 .. Gap(c)
               /\ real'[c] = Gap(c) \/ since'[c] <= real'[c]
    <3>1. /\ since[c] \in -back .. Horizon(c) /\ real[c] \in 0 .. Gap(c)
          /\ real[c] = Gap(c) \/ since[c] <= real[c]
      BY <1>0 DEF TimeInv
    <3>2. since'[c] = since[c] - d /\ real'[c] = real[c]
      BY <2>1
    <3>3. Horizon(c) \in Nat /\ Gap(c) \in Nat /\ back \in Nat /\ Horizon(c)' = Horizon(c) - d
      BY <1>0, <2>3, PacingTypes
    <3> QED BY <2>1, <2>2, <3>1, <3>2, <3>3
  <2>6. since' \in [Classes -> Int]
    <3>1. since \in [Classes -> Int]
      BY <1>0 DEF TimeInv
    <3> QED BY <2>1, <2>2, <3>1
  <2> QED BY <1>0, <2>1, <2>4, <2>5, <2>6 DEF TimeInv
<1>10. CASE WakeAgain \/ LoopEnds
  BY <1>1, <1>10 DEF WakeAgain, LoopEnds
<1>11. CASE UNCHANGED pacingVars
  BY <1>1, <1>11 DEF pacingVars
<1> QED BY <1>2, <1>3, <1>4, <1>5, <1>6, <1>7, <1>8, <1>9, <1>10, <1>11 DEF PacingNext, Loop

-----------------------------------------------------------------------------
(***************************************************************************)
(* The ledger.                                                             *)
(***************************************************************************)
LEMMA PrunedEmpty == Pruned([k \in Lists |-> <<>>]) = [k \in Lists |-> <<>>]
<1>1. Covered(<<>>) = {} /\ Len(<<>>) = 0
  BY DEF Covered
<1>2. {} \union {0 + 1} = {1}
  OBVIOUS
<1>3. First({1}) = 1
  <2>1. First({1}) \in {1}
    BY LeastNumber
  <2> QED BY <2>1
<1>4. SubSeq(<<>>, 1, 0) = <<>>
  OBVIOUS
<1> QED BY <1>1, <1>2, <1>3, <1>4 DEF Pruned

\* Pruning and recording keep the ledger's ages in range.
LEMMA LedgerWrites ==
  ASSUME LedgerInv, NEW o \in Ops, spent' \in {spent, Checked, Recorded(o)}, UNCHANGED <<cool, back>>
  PROVE  LedgerInv'
<1> DEFINE A == -back .. SpanHorizon
<1>1. A \in SUBSET Int /\ 0 \in A
  BY Horizons DEF LedgerInv
<1>2. spent \in [Lists -> Seq(A)]
  BY DEF LedgerInv
<1> HIDE DEF A
<1>3. Pruned(spent) \in [Lists -> Seq(A)]
  BY <1>1, <1>2, PrunedType
<1>4. Recorded(o) \in [Lists -> Seq(A)]
  <2>1. ListOf(o) \in Lists
    BY DEF ListOf, Lists
  <2>2. \A s \in Seq(A) : Append(s, 0) \in Seq(A)
    BY <1>1
  <2>3. [Pruned(spent) EXCEPT ![ListOf(o)] = Append(@, 0)] \in [Lists -> Seq(A)]
    BY <1>3, <2>1, <2>2
  <2> QED BY <1>2, <2>3 DEF Recorded
<1>5. spent' \in [Lists -> Seq(A)]
  BY <1>2, <1>3, <1>4 DEF Checked
<1>6. SpanHorizon' = SpanHorizon /\ Slack' = Slack
  BY DEF SpanHorizon, Slack
<1>7. ASSUME ~Metered PROVE spent' = [k \in Lists |-> <<>>]
  BY <1>7, PrunedEmpty DEF LedgerInv, Checked, Recorded
<1> QED BY <1>5, <1>6, <1>7 DEF LedgerInv, A

LEMMA DispatchSpends ==
  ASSUME LedgerInv, NEW o \in Ops, NEW E, Dispatch(o, E), UNCHANGED <<cool, back>>
  PROVE  LedgerInv'
<1>1. spent' \in {spent, Checked, Recorded(o)}
  BY DEF Dispatch, Send
<1> QED BY <1>1, LedgerWrites

\* A list keeps its length while its ages change.
LEMMA AgesShift ==
  ASSUME NEW A \in SUBSET Int, NEW B \in SUBSET Int, NEW s \in [Lists -> Seq(A)],
         NEW t, t = [k \in Lists |-> [i \in DOMAIN s[k] |-> t[k][i]]],
         \A k \in Lists : \A i \in DOMAIN s[k] : t[k][i] \in B
  PROVE  /\ t \in [Lists -> Seq(B)]
         /\ s = [k \in Lists |-> <<>>] => t = [k \in Lists |-> <<>>]
<1>1. ASSUME NEW k \in Lists
      PROVE  t[k] \in Seq(B) /\ (s[k] = <<>> => t[k] = <<>>)
  <2>1. Len(s[k]) \in Nat /\ DOMAIN s[k] = 1 .. Len(s[k])
    OBVIOUS
  <2>2. t[k] = [i \in 1 .. Len(s[k]) |-> t[k][i]]
    BY <2>1
  <2>3. t[k] \in Seq(B)
    BY <2>1, <2>2
  <2>4. ASSUME s[k] = <<>> PROVE t[k] = <<>>
    <3>1. Len(s[k]) = 0
      BY <2>4
    <3>2. DOMAIN t[k] = 1 .. Len(s[k])
      BY <2>2
    <3>3. Len(t[k]) = 0
      BY <2>3, <3>1, <3>2
    <3> QED BY <2>3, <3>3
  <2> QED BY <2>3, <2>4
<1>2. t = [k \in Lists |-> t[k]]
  OBVIOUS
<1> QED BY <1>1, <1>2

LEMMA LedgerKept == PacingIInv /\ [PacingNext]_pacingVars => LedgerInv'
<1> SUFFICES ASSUME PacingIInv, [PacingNext]_pacingVars PROVE LedgerInv'
  OBVIOUS
<1>0. QueueInv /\ NapInv /\ LedgerInv /\ back \in 0 .. MaxBack
  BY DEF PacingIInv, LedgerInv
<1>1. CASE UNCHANGED <<spent, cool, back>>
  BY <1>0, <1>1 DEF LedgerInv, SpanHorizon, Slack
<1>2. CASE DrainNothing \/ DrainWait \/ WakeAgain \/ LoopEnds
  BY <1>1, <1>2 DEF DrainNothing, DrainWait, WakeAgain, LoopEnds
<1>3. CASE DrainDispatch
  <2>1. PickNext \in Ops
    BY <1>0, <1>3, PickedFromQueue DEF DrainDispatch, QueueInv, Range
  <2> QED BY <1>0, <1>3, <2>1, DispatchSpends DEF DrainDispatch
<1>4. CASE WakeDispatch
  <2>1. nap.op \in Ops
    BY <1>0, <1>4 DEF WakeDispatch, Awake, StillQueued, NapInv, QueueInv, Range
  <2> QED BY <1>0, <1>4, <2>1, DispatchSpends DEF WakeDispatch
<1>5. ASSUME NEW o \in Ops, Submit(o) \/ SubmitRefused(o) \/ TokenArrives(o) PROVE LedgerInv'
  <2>1. spent' \in {spent, Checked, Recorded(o)} /\ UNCHANGED <<cool, back>>
    BY <1>5 DEF Submit, SubmitRefused, TokenArrives
  <2> QED BY <1>0, <2>1, LedgerWrites
<1>6. ASSUME NEW o \in Ops, TokenRefused(o) \/ Hangs(o) \/ Abandon(o) PROVE LedgerInv'
  BY <1>1, <1>6 DEF TokenRefused, Hangs, Abandon
<1>7. ASSUME NEW o \in Ops, Answered(o) PROVE LedgerInv'
  <2>1. cool' \in {cool, Penalised} /\ UNCHANGED <<spent, back>>
    BY <1>7 DEF Answered
  <2>2. cool' \in -Slack .. Cooldown + back /\ (~Metered => cool' = cool)
    <3>1. cool \in -Slack .. Cooldown + back /\ back \in Nat /\ Slack \in Nat
      BY <1>0, Horizons DEF LedgerInv
    <3> QED BY <2>1, <3>1, PacingTypes DEF Penalised, Larger
  <2> QED BY <1>0, <2>1, <2>2 DEF LedgerInv, SpanHorizon, Slack
<1>8. CASE Tick
  <2> DEFINE older(x) == Smaller(x + 1, SpanHorizon)
             A == -back .. SpanHorizon
  <2>1. /\ spent' = [k \in Lists |-> [i \in DOMAIN spent[k] |-> older(spent[k][i])]]
        /\ cool' = Larger(cool - 1, -Slack) /\ back' = back
    BY <1>8 DEF Tick
  <2>2. back \in Nat /\ Slack \in Nat /\ SpanHorizon \in Nat
    BY <1>0, Horizons
  <2>3. A \in SUBSET Int /\ \A x \in A : older(x) \in A
    BY <2>2 DEF Smaller
  <2>4. spent \in [Lists -> Seq(A)]
    BY <1>0 DEF LedgerInv
  <2> HIDE DEF older, A
  <2>5. /\ spent' = [k \in Lists |-> [i \in DOMAIN spent[k] |-> spent'[k][i]]]
        /\ \A k \in Lists : \A i \in DOMAIN spent[k] : spent'[k][i] \in A
    <3>1. \A k \in Lists : spent'[k] = [i \in DOMAIN spent[k] |-> older(spent[k][i])]
      BY <2>1
    <3>2. \A k \in Lists : \A i \in DOMAIN spent[k] : spent'[k][i] = older(spent[k][i])
      BY <3>1
    <3>3. \A k \in Lists : \A i \in DOMAIN spent[k] : spent[k][i] \in A
      BY <2>4
    <3>4. \A k \in Lists : spent'[k] = [i \in DOMAIN spent[k] |-> spent'[k][i]]
      BY <3>1
    <3> QED BY <2>1, <2>3, <3>2, <3>3, <3>4
  <2>6. /\ spent' \in [Lists -> Seq(A)]
        /\ spent = [k \in Lists |-> <<>>] => spent' = [k \in Lists |-> <<>>]
    BY <2>3, <2>4, <2>5, AgesShift
  <2>7. cool' \in -Slack .. Cooldown + back /\ (cool = -Slack => cool' = -Slack)
    <3>1. cool \in -Slack .. Cooldown + back
      BY <1>0 DEF LedgerInv
    <3> QED BY <2>1, <2>2, <3>1, PacingTypes DEF Larger
  <2>8. SpanHorizon' = SpanHorizon /\ Slack' = Slack
    BY <2>1 DEF SpanHorizon, Slack
  <2> QED BY <1>0, <2>1, <2>6, <2>7, <2>8 DEF LedgerInv, A
<1>9. ASSUME NEW d \in 1 .. MaxBack, StepBack(d) PROVE LedgerInv'
  <2> DEFINE older(x) == x - d
             A == -back .. SpanHorizon
             B == -(back + d) .. SpanHorizon - d
  <2>1. /\ spent' = [k \in Lists |-> [i \in DOMAIN spent[k] |-> older(spent[k][i])]]
        /\ cool' = cool + d /\ back' = back + d /\ back + d <= MaxBack
    BY <1>9 DEF StepBack
  <2>2. back \in Nat /\ Slack \in Nat /\ SpanHorizon \in Nat /\ d \in Nat /\ d > 0
    BY <1>0, Horizons, PacingTypes
  <2>3. A \in SUBSET Int /\ B \in SUBSET Int /\ \A x \in A : older(x) \in B
    BY <2>2
  <2>4. spent \in [Lists -> Seq(A)]
    BY <1>0 DEF LedgerInv
  <2> HIDE DEF older, A, B
  <2>5. /\ spent' = [k \in Lists |-> [i \in DOMAIN spent[k] |-> spent'[k][i]]]
        /\ \A k \in Lists : \A i \in DOMAIN spent[k] : spent'[k][i] \in B
    <3>1. \A k \in Lists : spent'[k] = [i \in DOMAIN spent[k] |-> older(spent[k][i])]
      BY <2>1
    <3>2. \A k \in Lists : \A i \in DOMAIN spent[k] : spent'[k][i] = older(spent[k][i])
      BY <3>1
    <3>3. \A k \in Lists : \A i \in DOMAIN spent[k] : spent[k][i] \in A
      BY <2>4
    <3>4. \A k \in Lists : spent'[k] = [i \in DOMAIN spent[k] |-> spent'[k][i]]
      BY <3>1
    <3> QED BY <2>1, <2>3, <3>2, <3>3, <3>4
  <2>6. /\ spent' \in [Lists -> Seq(B)]
        /\ spent = [k \in Lists |-> <<>>] => spent' = [k \in Lists |-> <<>>]
    BY <2>3, <2>4, <2>5, AgesShift
  <2>7. back' \in 0 .. MaxBack /\ Slack' = Slack - d /\ SpanHorizon' = SpanHorizon - d
    BY <1>0, <2>1, <2>2, PacingTypes DEF SpanHorizon, Slack
  <2>8. cool' \in -(Slack - d) .. Cooldown + (back + d) /\ (cool = -Slack => cool' = -(Slack - d))
    <3>1. cool \in -Slack .. Cooldown + back
      BY <1>0 DEF LedgerInv
    <3> QED BY <2>1, <2>2, <3>1, PacingTypes
  <2>9. spent' \in [Lists -> Seq(-back' .. SpanHorizon')]
    BY <2>1, <2>6, <2>7 DEF B
  <2> QED BY <1>0, <2>1, <2>6, <2>7, <2>8, <2>9 DEF LedgerInv
<1>10. CASE UNCHANGED pacingVars
  BY <1>1, <1>10 DEF pacingVars
<1> QED BY <1>2, <1>3, <1>4, <1>5, <1>6, <1>7, <1>8, <1>9, <1>10 DEF PacingNext, Loop

\* What the code keeps between two steps of the pacer and of the ledger: queue
\* and states agree, the pick of a sleeping loop still waits or has been
\* withdrawn, and no watermark claims a longer gap than the broker was given.
THEOREM PacingInvariance == PacingSpec => []PacingIInv
<1>1. PacingIInv /\ [PacingNext]_pacingVars => PacingIInv'
  BY QueueKept, NapKept, TimeKept, LedgerKept DEF PacingIInv
<1> QED BY PacingInitIInv, <1>1, PTL DEF PacingSpec

\* Every field of the pacer and of the ledger keeps its type, and the queue
\* holds each request once.
THEOREM PacingTypeCorrect == PacingSpec => []PacingTypeOK
<1>1. PacingIInv => PacingTypeOK
  <2> SUFFICES ASSUME PacingIInv PROVE PacingTypeOK
    OBVIOUS
  <2>1. QueueInv /\ NapInv /\ TimeInv /\ LedgerInv
    BY DEF PacingIInv
  <2>2. \A c \in Classes : since[c] \in -back .. Horizon(c) /\ real[c] \in 0 .. Gap(c)
    BY <2>1 DEF TimeInv
  <2>3. since \in [Classes -> Int] /\ real \in [Classes -> Int]
    BY <2>1 DEF TimeInv
  <2>4. age \in [Ops -> -back .. AgeHorizon] /\ patience \in [Cancels -> 0 .. CancelTimeout]
    BY <2>1 DEF TimeInv
  <2>5. /\ spent \in [Lists -> Seq(-back .. SpanHorizon)]
        /\ cool \in -Slack .. Cooldown + back /\ back \in 0 .. MaxBack
    BY <2>1 DEF LedgerInv
  <2>6. /\ loop \in {"idle", "now", "next", "waiting", "ending"}
        /\ nap \in Naps /\ (loop # "waiting" => nap = NoNap)
    BY <2>1 DEF NapInv
  <2>7. /\ st \in [Ops -> {"idle", "queued", "dispatched", "onWire"}]
        /\ queue \in Seq(Ops) /\ IsInjective(queue)
        /\ \A o \in Ops : st[o] = "queued" <=> o \in Range(queue)
        /\ hung \subseteq InFlight \intersect Hanging
    BY <2>1 DEF QueueInv
  <2> QED BY <2>2, <2>3, <2>4, <2>5, <2>6, <2>7 DEF PacingTypeOK
<1> QED BY PacingInvariance, <1>1, PTL

-----------------------------------------------------------------------------
(***************************************************************************)
(* What is sent.                                                           *)
(***************************************************************************)
\* Only the loop hands a request over: the one it has just picked, or the one
\* it slept over.
LEMMA LeavesBy ==
  ASSUME PacingIInv, [PacingNext]_pacingVars, NEW o \in Ops, Leaves(o)
  PROVE  \/ o = PickNext /\ o # NoOp /\ Wait(o) = 0 /\ Send(o, ExpiredInQueue)
         \/ loop = "waiting" /\ nap.served = 0 /\ ~nap.gone /\ o = nap.op /\ Send(o, {})
<1>0. st \in [Ops -> {"idle", "queued", "dispatched", "onWire"}]
  BY DEF PacingIInv, QueueInv
<1>1. ASSUME NEW x, NEW E, Dispatch(x, E)
      PROVE  o = x /\ Send(x, E)
  <2>1. CASE Withdraw(E \union {x})
    <3>1. st' = [y \in Ops |-> IF y \in E \union {x} THEN "idle" ELSE st[y]]
      BY <2>1 DEF Withdraw
    <3> QED BY <1>0, <3>1 DEF Leaves
  <2>2. CASE Send(x, E)
    <3>1. st' = [y \in Ops |-> IF y = x THEN IF x \in Placements THEN "dispatched" ELSE "onWire"
                               ELSE IF y \in E THEN "idle" ELSE st[y]]
      BY <2>2 DEF Send
    <3>2. o = x
      BY <1>0, <3>1 DEF Leaves
    <3> QED BY <2>2, <3>2
  <2> QED BY <1>1, <2>1, <2>2 DEF Dispatch
<1>2. CASE st' = st
  BY <1>0, <1>2 DEF Leaves
<1>3. CASE DrainDispatch
  <2> DEFINE next == PickNext
  <2>1. next # NoOp /\ Wait(next) = 0 /\ Dispatch(next, ExpiredInQueue)
    BY <1>3 DEF DrainDispatch
  <2> HIDE DEF next
  <2>2. o = next /\ Send(next, ExpiredInQueue)
    BY <1>1, <2>1
  <2> QED BY <2>1, <2>2 DEF next
<1>4. CASE WakeDispatch
  <2>1. Dispatch(nap.op, {}) /\ loop = "waiting" /\ nap.served = 0 /\ ~nap.gone
    BY <1>4 DEF WakeDispatch, Awake, StillQueued, Frozen
  <2>2. o = nap.op /\ Send(nap.op, {})
    BY <1>1, <2>1
  <2> QED BY <2>1, <2>2
<1>5. CASE DrainNothing \/ DrainWait
  <2>1. st' = [x \in Ops |-> IF x \in ExpiredInQueue THEN "idle" ELSE st[x]]
    BY <1>5 DEF DrainNothing, DrainWait, Withdraw
  <2> QED BY <1>0, <2>1 DEF Leaves
<1>6. ASSUME NEW x \in Ops, Abandon(x) PROVE FALSE
  <2>1. st' = [y \in Ops |-> IF y \in {x} THEN "idle" ELSE st[y]]
    BY <1>6 DEF Abandon, Withdraw
  <2> QED BY <1>0, <2>1 DEF Leaves
<1>7. ASSUME NEW x \in Ops, Submit(x) \/ TokenArrives(x) \/ TokenRefused(x) \/ Answered(x)
      PROVE  FALSE
  <2>1. \/ st' = [st EXCEPT ![x] = "queued"]
        \/ st' = [st EXCEPT ![x] = "idle"]
        \/ st[x] = "dispatched" /\ st' = [st EXCEPT ![x] = "onWire"]
    BY <1>7 DEF Submit, TokenArrives, TokenRefused, Answered, Release
  <2> QED BY <1>0, <2>1 DEF Leaves
<1>8. ASSUME NEW x \in Ops, SubmitRefused(x) \/ Hangs(x) PROVE st' = st
  BY <1>8 DEF SubmitRefused, Hangs
<1>9. CASE WakeAgain \/ LoopEnds \/ Tick \/ (\E d \in 1 .. MaxBack : StepBack(d)) \/ UNCHANGED pacingVars
  BY <1>2, <1>9 DEF WakeAgain, LoopEnds, Tick, StepBack, pacingVars
<1> QED BY <1>2, <1>3, <1>4, <1>5, <1>6, <1>7, <1>8, <1>9 DEF PacingNext, Loop

\* Nothing is sent whose caller was told that it was not (abandon()).
THEOREM WithdrawnStaysUnsent == PacingSpec => WithdrawnNeverSent
<1>1. ASSUME PacingIInv, [PacingNext]_pacingVars, NEW o \in Ops, Leaves(o)
      PROVE  st[o] = "queued"
  <2>1. QueueInv /\ NapInv
    BY <1>1 DEF PacingIInv
  <2>2. CASE o = PickNext /\ o # NoOp
    BY <2>1, <2>2, PickedFromQueue DEF QueueInv
  <2>3. CASE loop = "waiting" /\ ~nap.gone /\ o = nap.op
    BY <2>1, <2>3 DEF QueueInv, NapInv
  <2> QED BY <1>1, <2>2, <2>3, LeavesBy
<1>2. PacingIInv /\ [PacingNext]_pacingVars => [\A o \in Ops : Leaves(o) => st[o] = "queued"]_pacingVars
  BY <1>1
<1> QED BY PacingInvariance, <1>2, PTL DEF PacingSpec, WithdrawnNeverSent

\* Two calls are as far apart as the published intervals ask (pacingWaitMs()).
THEOREM CallsSpaced == PacingSpec => Spaced
<1>1. ASSUME PacingIInv, [PacingNext]_pacingVars, NEW o \in Ops, Leaves(o),
             ~(loop = "waiting" /\ nap.served = 0)
      PROVE  real["any"] >= OrderGap /\ real[Class(o)] >= Gap(Class(o))
  <2>1. Wait(o) = 0
    BY <1>1, LeavesBy
  <2>2. \A c \in Classes : /\ since[c] \in Int /\ real[c] \in Int /\ Gap(c) \in Nat
                           /\ real[c] = Gap(c) \/ since[c] <= real[c]
                           /\ real[c] >= 0
    BY <1>1, PacingTypes DEF PacingIInv, TimeInv
  <2>3. Class(o) \in Classes /\ "any" \in Classes /\ Gap("any") = OrderGap
    BY PacingTypes DEF Classes, Gap
  <2>4. ASSUME NEW c \in Classes, PacingWait(Gap(c), since[c]) <= 0
        PROVE  real[c] >= Gap(c)
    <3>1. since[c] >= Gap(c) \/ Gap(c) = 0
      BY <2>2, <2>4 DEF PacingWait, Larger
    <3> QED BY <2>2, <3>1
  <2>5. /\ PacingWait(Gap(Class(o)), since[Class(o)]) <= 0
        /\ PacingWait(Gap("any"), since["any"]) <= 0
    <3>1. \A c \in Classes : PacingWait(Gap(c), since[c]) \in Nat
      BY <2>2 DEF PacingWait, Larger
    <3>2. Wait(o) = Larger(PacingWait(Gap(Class(o)), since[Class(o)]), PacingWait(Gap("any"), since["any"]))
      BY <2>3 DEF Wait
    <3>3. \A x, y \in Nat : Larger(x, y) = 0 => x <= 0 /\ y <= 0
      BY DEF Larger
    <3>4. /\ PacingWait(Gap(Class(o)), since[Class(o)]) \in Nat
          /\ PacingWait(Gap("any"), since["any"]) \in Nat
      BY <2>3, <3>1
    <3> QED BY <2>1, <3>2, <3>3, <3>4
  <2> QED BY <2>3, <2>4, <2>5
<1>2. PacingIInv /\ [PacingNext]_pacingVars
        => [\A o \in Ops : Leaves(o) /\ ~(loop = "waiting" /\ nap.served = 0) =>
              real["any"] >= OrderGap /\ real[Class(o)] >= Gap(Class(o))]_pacingVars
  BY <1>1
<1> QED BY PacingInvariance, <1>2, PTL DEF PacingSpec, Spaced

-----------------------------------------------------------------------------
(***************************************************************************)
(* What is spent.                                                          *)
(***************************************************************************)
\* Only a cancel the loop sends and a placement with its token reach the wire;
\* both asked the budget in that step and are recorded in it.
LEMMA TransmittedBy ==
  ASSUME PacingIInv, [PacingNext]_pacingVars, NEW o \in Orders, Transmitted(o)
  PROVE  WithinBudget(o) /\ spent' = Recorded(o)
<1>0. st \in [Ops -> {"idle", "queued", "dispatched", "onWire"}] /\ o \in Ops
  BY DEF PacingIInv, QueueInv, Ops
<1>1. ASSUME NEW x, NEW E, Dispatch(x, E)
      PROVE  WithinBudget(o) /\ spent' = Recorded(o)
  <2>1. CASE Withdraw(E \union {x})
    <3>1. st' = [y \in Ops |-> IF y \in E \union {x} THEN "idle" ELSE st[y]]
      BY <2>1 DEF Withdraw
    <3> QED BY <1>0, <3>1 DEF Transmitted
  <2>2. CASE (x \in Cancels => WithinBudget(x)) /\ Send(x, E)
    <3>1. st' = [y \in Ops |-> IF y = x THEN IF x \in Placements THEN "dispatched" ELSE "onWire"
                               ELSE IF y \in E THEN "idle" ELSE st[y]]
      BY <2>2 DEF Send
    <3>2. o = x /\ x \notin Placements
      BY <1>0, <3>1 DEF Transmitted
    <3>3. x \in Cancels
      BY <3>2 DEF Placements, Orders, Recovery
    <3> QED BY <2>2, <3>2, <3>3 DEF Send
  <2> QED BY <1>1, <2>1, <2>2 DEF Dispatch
<1>2. CASE st' = st
  BY <1>0, <1>2 DEF Transmitted
<1>3. CASE DrainDispatch
  BY <1>1, <1>3 DEF DrainDispatch
<1>4. CASE WakeDispatch
  BY <1>1, <1>4 DEF WakeDispatch
<1>5. CASE DrainNothing \/ DrainWait
  <2>1. st' = [x \in Ops |-> IF x \in ExpiredInQueue THEN "idle" ELSE st[x]]
    BY <1>5 DEF DrainNothing, DrainWait, Withdraw
  <2> QED BY <1>0, <2>1 DEF Transmitted
<1>6. ASSUME NEW x \in Ops, Abandon(x) PROVE FALSE
  <2>1. st' = [y \in Ops |-> IF y \in {x} THEN "idle" ELSE st[y]]
    BY <1>6 DEF Abandon, Withdraw
  <2> QED BY <1>0, <2>1 DEF Transmitted
<1>7. ASSUME NEW x \in Ops, Submit(x) \/ TokenRefused(x) \/ Answered(x)
      PROVE  FALSE
  <2>1. st' = [st EXCEPT ![x] = "queued"] \/ st' = [st EXCEPT ![x] = "idle"]
    BY <1>7 DEF Submit, TokenRefused, Answered, Release
  <2> QED BY <1>0, <2>1 DEF Transmitted
<1>8. ASSUME NEW x \in Ops, TokenArrives(x) PROVE WithinBudget(o) /\ spent' = Recorded(o)
  <2>1. \/ WithinBudget(x) /\ st' = [st EXCEPT ![x] = "onWire"] /\ spent' = Recorded(x)
        \/ st' = [st EXCEPT ![x] = "idle"]
    BY <1>8 DEF TokenArrives, Release
  <2>2. x = o
    BY <1>0, <2>1 DEF Transmitted
  <2>3. st' # [st EXCEPT ![x] = "idle"]
    BY <1>0, <2>2 DEF Transmitted
  <2> QED BY <2>1, <2>2, <2>3
<1>9. ASSUME NEW x \in Ops, SubmitRefused(x) \/ Hangs(x) PROVE st' = st
  BY <1>9 DEF SubmitRefused, Hangs
<1>10. CASE WakeAgain \/ LoopEnds \/ Tick \/ (\E d \in 1 .. MaxBack : StepBack(d)) \/ UNCHANGED pacingVars
  BY <1>2, <1>10 DEF WakeAgain, LoopEnds, Tick, StepBack, pacingVars
<1> QED BY <1>2, <1>3, <1>4, <1>5, <1>6, <1>7, <1>8, <1>9, <1>10 DEF PacingNext, Loop

LEMMA UsedType ==
  ASSUME NEW A \in SUBSET Int, NEW s \in [Lists -> Seq(A)]
  PROVE  Used(s) \in Nat
<1>1. Cardinality(Covered(s.placement)) \in Nat /\ Cardinality(Covered(s.recovery)) \in Nat
  BY CoveredFinite DEF Lists
<1> QED BY <1>1 DEF Used

\* What is within the budget when it is asked is within it once recorded.
LEMMA RecordedWithin ==
  ASSUME LedgerInv, NEW o \in Ops, WithinBudget(o)
  PROVE  cool <= 0 /\ Used(Recorded(o)) <= Ceiling(o)
<1> DEFINE A == -back .. SpanHorizon
<1>1. A \in SUBSET Int /\ 0 \in A /\ Slack \in Nat /\ spent \in [Lists -> Seq(A)]
  BY Horizons DEF LedgerInv
<1>2. Ceiling(o) \in Nat
  BY PacingTypes DEF Ceiling
<1> HIDE DEF A
<1>3. CASE Metered
  <2>1. Pruned(spent) \in [Lists -> Seq(A)]
    BY <1>1, PrunedType
  <2>2. ListOf(o) \in Lists
    BY DEF ListOf, Lists
  <2>3. Used(Recorded(o)) = Used(Pruned(spent)) + 1
    BY <1>1, <1>3, <2>1, <2>2, RecordCounts DEF Recorded
  <2>4. cool <= 0 /\ Used(Pruned(spent)) < Ceiling(o)
    BY <1>3 DEF WithinBudget
  <2>5. Used(Pruned(spent)) \in Nat
    BY <1>1, <2>1, UsedType
  <2> QED BY <1>2, <2>3, <2>4, <2>5
<1>4. CASE ~Metered
  <2>1. cool = -Slack /\ Recorded(o) = [k \in Lists |-> <<>>]
    BY <1>4 DEF LedgerInv, Recorded
  <2>2. Covered(<<>>) = {}
    BY DEF Covered
  <2>3. Used([k \in Lists |-> <<>>]) = 0
    BY <2>2, FS_EmptySet DEF Used, Lists
  <2> QED BY <1>1, <1>2, <2>1, <2>3
<1> QED BY <1>3, <1>4

\* What goes out is outside a cooldown and inside the window, and an entry
\* outside the reserve (RateBudgetLedger.check() and record()).
THEOREM BudgetKept == PacingSpec => BudgetHeld
<1>1. ASSUME PacingIInv, [PacingNext]_pacingVars, NEW o \in Orders, Transmitted(o)
      PROVE  /\ cool <= 0
             /\ Used(spent') <= Limit
             /\ o \in Entries => Used(spent') <= Limit - Reserve
  <2>1. WithinBudget(o) /\ spent' = Recorded(o)
    BY <1>1, TransmittedBy
  <2>2. LedgerInv /\ LedgerInv' /\ o \in Ops
    BY <1>1, LedgerKept DEF PacingIInv, Ops
  <2>3. cool <= 0 /\ Used(spent') <= Ceiling(o)
    BY <2>1, <2>2, RecordedWithin
  <2>4. Used(spent') \in Nat
    <3>1. \A b, h \in Int : b .. h \in SUBSET Int
      OBVIOUS
    <3>2. (-back .. SpanHorizon)' \in SUBSET Int /\ spent' \in [Lists -> Seq((-back .. SpanHorizon)')]
      BY <2>2, <3>1 DEF LedgerInv
    <3> QED BY <3>2, UsedType
  <2>5. Ceiling(o) <= Limit /\ Ceiling(o) \in Nat
    BY PacingTypes DEF Ceiling
  <2>6. o \in Entries => Ceiling(o) = Limit - Reserve
    BY PacingConstants DEF Ceiling
  <2>7. Used(spent') <= Limit
    BY <2>3, <2>4, <2>5, PacingTypes
  <2>8. o \in Entries => Used(spent') <= Limit - Reserve
    BY <2>3, <2>6
  <2> QED BY <2>3, <2>7, <2>8
<1>2. PacingIInv /\ [PacingNext]_pacingVars
        => [\A o \in Orders : Transmitted(o) =>
              /\ cool <= 0
              /\ Used(spent') <= Limit
              /\ o \in Entries => Used(spent') <= Limit - Reserve]_pacingVars
  BY <1>1
<1> QED BY PacingInvariance, <1>2, PTL DEF PacingSpec, BudgetHeld
=============================================================================
