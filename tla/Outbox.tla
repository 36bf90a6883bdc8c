------------------------------- MODULE Outbox -------------------------------
(***************************************************************************)
(* The transactional outbox: the writers that enqueue a projection inside  *)
(* the operational transaction (src/src/outbox/writer.ts), the projector   *)
(* that drains the rows into MongoDB (src/src/outbox/projector.ts) and the *)
(* hand-run replay (src/src/scripts/outboxReplay.ts).                      *)
(*                                                                         *)
(* An operational fact is a version number: fact[e] counts the committed   *)
(* writes of the fact that event id e projects, and a payload is the       *)
(* version it was taken from.  A drain pass is ONE PostgreSQL transaction: *)
(* the rows it claims stay locked, and its updates stay invisible, until   *)
(* it commits; the Mongo writes it makes on the way are not undone.        *)
(*                                                                         *)
(* Assumed of the driver: when a pass gives up its row locks, the Mongo    *)
(* write it was waiting for has landed or never will.                      *)
(***************************************************************************)
EXTENDS Naturals, FiniteSetsExt

CONSTANTS Event,        \* event ids: the primary key of mongo_outbox, the Mongo _id
          Snapshot,     \* the ids enqueued by enqueueOutboxSnapshot
          Poison,       \* ids no retry can deliver: no collection, or a secret in the payload
          LongError,    \* ids whose delivery error may always be longer than last_error
          Aggregate,    \* the aggregate of each id
          After,        \* the ids whose facts must be committed before this one's
          Server,       \* the projector of the server's loop
          Hands,        \* the one-pass projectors of `outbox:replay --drain`
          None,         \* no projector
          BatchSize,    \* batchSize
          MaxAttempts,  \* maxAttempts
          MaxVersion,   \* bound: writes of each fact
          MaxSeq,       \* bound: sequence numbers drawn
          MaxAborts,    \* bound: drain passes lost to a crash, a failed query or a long error
          MaxReplays    \* bound: hand replays

Projector == Hands \cup {Server}

ASSUME OutboxConstants ==
  /\ Snapshot \subseteq Event
  /\ Poison \subseteq Event
  /\ LongError \subseteq Event
  /\ After \in [Event -> SUBSET Event]
  /\ None \notin Projector
  /\ BatchSize \in Nat \ {0}
  /\ MaxAttempts \in Nat \ {0}
  /\ MaxVersion \in [Event -> Nat]
  /\ MaxSeq \in Nat
  /\ MaxAborts \in Nat
  /\ MaxReplays \in Nat

VARIABLES
  fact,     \* the operational tables: committed writes of each fact
  row,      \* mongo_outbox, as committed
  lastSeq,  \* mongo_outbox_sequence_seq
  tx,       \* the open operational transaction on each fact: its sequence, or 0
  lock,     \* the drain pass that holds the row's FOR UPDATE lock
  work,     \* the row as the pass that holds its lock sees it
  todo,     \* the claimed rows each pass has still to publish
  mongo,    \* the replica: the version in the document of each id, 0 for none
  overlong, \* the ids whose delivery error is longer than last_error, a choice of LongError
  aborts, replays

vars == <<fact, row, lastSeq, tx, lock, work, todo, mongo, overlong, aborts, replays>>

States == {"absent", "pending", "published", "dead"}
(* A hand replay may leave the attempts as they are: one more each. *)
Attempts == 0..(MaxAttempts + MaxReplays)
Row    == [state : States, seq : Nat, version : Nat, attempts : Attempts, due : BOOLEAN]
NoRow  == [state |-> "absent", seq |-> 0, version |-> 0, attempts |-> 0, due |-> FALSE]

TypeOK ==
  /\ fact \in [Event -> Nat]
  /\ row \in [Event -> Row]
  /\ lastSeq \in 0..MaxSeq
  /\ tx \in [Event -> 0..MaxSeq]
  /\ lock \in [Event -> Projector \cup {None}]
  /\ work \in [Event -> Row]
  /\ todo \in [Projector -> SUBSET Event]
  /\ mongo \in [Event -> Nat]
  /\ overlong \subseteq LongError
  /\ aborts \in 0..MaxAborts
  /\ replays \in 0..MaxReplays

Init ==
  /\ fact = [e \in Event |-> 0]
  /\ row = [e \in Event |-> NoRow]
  /\ lastSeq = 0
  /\ tx = [e \in Event |-> 0]
  /\ lock = [e \in Event |-> None]
  /\ work = [e \in Event |-> NoRow]
  /\ todo = [p \in Projector |-> {}]
  /\ mongo = [e \in Event |-> 0]
  /\ overlong \in SUBSET LongError
  /\ aborts = 0
  /\ replays = 0

-----------------------------------------------------------------------------
(* Writers.  The operational row is locked by the write of the fact, so at *)
(* most one transaction is open on a fact.                                 *)

(* A fresh row: what the INSERT stores, and what DO UPDATE resets. *)
Fresh(seq, version) ==
  [state |-> "pending", seq |-> seq, version |-> version, attempts |-> 0, due |-> TRUE]

(* Mutant of Enqueued: the snapshot is enqueued like an event. *)
EnqueuedOnce(e, seq) ==
  IF row[e].state = "absent" THEN Fresh(seq, fact[e] + 1) ELSE row[e]

(* Mutant of Enqueued: the payload is replaced and the row is not revived. *)
EnqueuedNotRevived(e, seq) ==
  IF row[e].state = "absent" THEN Fresh(seq, fact[e] + 1)
  ELSE IF e \in Snapshot THEN [row[e] EXCEPT !.version = fact[e] + 1, !.seq = seq]
  ELSE row[e]

(* ON CONFLICT (event_id): DO NOTHING for an event, DO UPDATE for a snapshot. *)
Enqueued(e, seq) ==
  IF row[e].state = "absent" \/ e \in Snapshot THEN Fresh(seq, fact[e] + 1) ELSE row[e]

(* The upsert of an existing row waits for the row lock and then holds it. *)
HoldsRow(e) == tx[e] # 0 /\ e \in Snapshot /\ row[e].state # "absent"

(* Mutant of BeginWrite: the enqueue runs outside the transaction of the fact. *)
BeginWriteOutside(e) ==
  /\ tx[e] = 0
  /\ \A f \in After[e] : fact[f] > 0
  /\ e \in Snapshot => lock[e] = None
  /\ fact[e] < MaxVersion[e]
  /\ lastSeq < MaxSeq
  /\ lastSeq' = lastSeq + 1
  /\ tx' = [tx EXCEPT ![e] = lastSeq']
  /\ row' = [row EXCEPT ![e] = Enqueued(e, lastSeq')]
  /\ UNCHANGED <<fact, lock, work, todo, mongo, overlong, aborts, replays>>

(* BEGIN, the write of the fact, and the enqueue, which draws the sequence. *)
BeginWrite(e) ==
  /\ tx[e] = 0
  /\ \A f \in After[e] : fact[f] > 0
  /\ e \in Snapshot => lock[e] = None
  /\ fact[e] < MaxVersion[e]
  /\ lastSeq < MaxSeq
  /\ lastSeq' = lastSeq + 1
  /\ tx' = [tx EXCEPT ![e] = lastSeq']
  /\ UNCHANGED <<fact, row, lock, work, todo, mongo, overlong, aborts, replays>>

(* The fact and its projection become durable together. *)
CommitWrite(e) ==
  /\ tx[e] # 0
  /\ fact' = [fact EXCEPT ![e] = @ + 1]
  /\ row' = [row EXCEPT ![e] = Enqueued(e, tx[e])]
  /\ tx' = [tx EXCEPT ![e] = 0]
  /\ UNCHANGED <<lastSeq, lock, work, todo, mongo, overlong, aborts, replays>>

(* The transaction fails, or its process dies: the sequence number is lost. *)
RollbackWrite(e) ==
  /\ tx[e] # 0
  /\ tx' = [tx EXCEPT ![e] = 0]
  /\ UNCHANGED <<fact, row, lastSeq, lock, work, todo, mongo, overlong, aborts, replays>>

-----------------------------------------------------------------------------
(* The drain pass: drainBatch, claim, groupByAggregate, publishRow.        *)

Claimed(p)  == {e \in Event : lock[e] = p}

(* published_at IS NULL, dead_lettered_at IS NULL, due, SKIP LOCKED. *)
Claimable ==
  {e \in Event : /\ row[e].state = "pending"
                 /\ row[e].due
                 /\ lock[e] = None
                 /\ ~HoldsRow(e)}

(* ORDER BY sequence LIMIT batchSize. *)
Batch == {e \in Claimable :
            Cardinality({f \in Claimable : row[f].seq < row[e].seq}) < BatchSize}

(* runOnce does not enter a second pass (`draining`): a pass in progress     *)
(* holds at least one row.  A pass that claims nothing changes nothing.      *)
Claim(p) ==
  /\ Claimed(p) = {}
  /\ Batch # {}
  /\ lock' = [e \in Event |-> IF e \in Batch THEN p ELSE lock[e]]
  /\ work' = [e \in Event |-> IF e \in Batch THEN row[e] ELSE work[e]]
  /\ todo' = [todo EXCEPT ![p] = Batch]
  /\ UNCHANGED <<fact, row, lastSeq, tx, mongo, overlong, aborts, replays>>

Group(p, e) == {f \in Claimed(p) : Aggregate[f] = Aggregate[e]}

(* groupByAggregate: a Map keeps its keys in the order of their first row. *)
GroupRank(p, e) == Min({row[f].seq : f \in Group(p, e)})

(* The groups one after the other, each in sequence order. *)
IsNext(p, e) ==
  /\ e \in todo[p]
  /\ \A f \in todo[p] \ {e} :
       \/ GroupRank(p, e) < GroupRank(p, f)
       \/ Aggregate[e] = Aggregate[f] /\ row[e].seq < row[f].seq

(* replaceOne by _id and the UPDATE that marks the row published. *)
Publish(p, e) ==
  /\ IsNext(p, e)
  /\ e \notin Poison
  /\ mongo' = [mongo EXCEPT ![e] = work[e].version]
  /\ work' = [work EXCEPT ![e].state = "published"]
  /\ todo' = [todo EXCEPT ![p] = @ \ {e}]
  /\ UNCHANGED <<fact, row, lastSeq, tx, lock, overlong, aborts, replays>>

(* Mutant of Failed: the attempt budget is never exhausted. *)
FailedForever(e) ==
  LET attempts == work[e].attempts + 1 IN
  IF e \in Poison
  THEN [work[e] EXCEPT !.attempts = attempts, !.state = "dead"]
  ELSE [work[e] EXCEPT !.due = FALSE]

(* Poison, or a spent budget: dead letter.  Else a retry after the backoff. *)
Failed(e) ==
  LET attempts == work[e].attempts + 1 IN
  IF e \in Poison \/ attempts >= MaxAttempts
  THEN [work[e] EXCEPT !.attempts = attempts, !.state = "dead"]
  ELSE [work[e] EXCEPT !.attempts = attempts, !.due = FALSE]

(* ROLLBACK, or the loss of the connection: locks and updates are gone. *)
Abort(p) ==
  /\ lock' = [e \in Event |-> IF lock[e] = p THEN None ELSE lock[e]]
  /\ work' = [e \in Event |-> IF lock[e] = p THEN NoRow ELSE work[e]]
  /\ todo' = [todo EXCEPT ![p] = {}]
  /\ UNCHANGED <<fact, row, lastSeq, tx, overlong, replays>>

(* The delivery fails; the write may have been applied all the same.  The   *)
(* failure is recorded and the rest of the row's group is left for a later  *)
(* pass.                                                                    *)
Fail(p, e, applied) ==
  /\ IsNext(p, e)
  /\ e \notin overlong
  /\ applied => e \notin Poison
  /\ mongo' = IF applied THEN [mongo EXCEPT ![e] = work[e].version] ELSE mongo
  /\ work' = [work EXCEPT ![e] = Failed(e)]
  /\ todo' = [todo EXCEPT ![p] = @ \ Group(p, e)]
  /\ UNCHANGED <<fact, row, lastSeq, tx, lock, overlong, aborts, replays>>

(* boundedProjectorError cuts at 500 characters and then appends one more:   *)
(* the UPDATE that records the failure breaks mongo_outbox_last_error_bounded *)
(* and takes the whole pass with it.  The bound applies to the ids that fail *)
(* so now and then, not to those that always do.                             *)
FailTooLong(p, e) ==
  /\ IsNext(p, e)
  /\ e \notin Poison
  /\ aborts' = IF e \in overlong THEN aborts ELSE aborts + 1
  /\ aborts' <= MaxAborts
  /\ Abort(p)
  /\ UNCHANGED mongo

CommitPass(p) ==
  /\ Claimed(p) # {}
  /\ todo[p] = {}
  /\ row' = [e \in Event |-> IF lock[e] = p THEN work[e] ELSE row[e]]
  /\ lock' = [e \in Event |-> IF lock[e] = p THEN None ELSE lock[e]]
  /\ work' = [e \in Event |-> IF lock[e] = p THEN NoRow ELSE work[e]]
  /\ UNCHANGED <<fact, lastSeq, tx, todo, mongo, overlong, aborts, replays>>

(* The process dies or a query of the pass fails, anywhere in the pass. *)
AbortPass(p) ==
  /\ Claimed(p) # {}
  /\ aborts < MaxAborts
  /\ aborts' = aborts + 1
  /\ Abort(p)
  /\ UNCHANGED mongo

BackoffElapses(e) ==
  /\ row[e].state = "pending"
  /\ ~row[e].due
  /\ row' = [row EXCEPT ![e].due = TRUE]
  /\ UNCHANGED <<fact, lastSeq, tx, lock, work, todo, mongo, overlong, aborts, replays>>

-----------------------------------------------------------------------------
(* Hand replay.                                                            *)

(* --dead-letters, --aggregate or --event-id; only unpublished rows. *)
Selections ==
  LET open == {e \in Event : row[e].state \in {"pending", "dead"}} IN
  {{e \in open : row[e].state = "dead"}}
    \cup {{e \in open : Aggregate[e] = Aggregate[f]} : f \in Event}
    \cup {{e} : e \in open}

(* The UPDATE waits for the locks of the rows it selects. *)
Replay(S, resetAttempts) ==
  /\ S # {}
  /\ \A e \in S : lock[e] = None /\ ~HoldsRow(e)
  /\ replays < MaxReplays
  /\ replays' = replays + 1
  /\ row' = [e \in Event |->
               IF e \in S
               THEN [row[e] EXCEPT !.state = "pending", !.due = TRUE,
                                   !.attempts = IF resetAttempts THEN 0 ELSE @]
               ELSE row[e]]
  /\ UNCHANGED <<fact, lastSeq, tx, lock, work, todo, mongo, overlong, aborts>>

-----------------------------------------------------------------------------
Deliver(p) ==
  \E e \in Event : \/ Publish(p, e)
                   \/ \E applied \in BOOLEAN : Fail(p, e, applied)
                   \/ FailTooLong(p, e)

Next ==
  \/ \E e \in Event : \/ BeginWrite(e)
                      \/ CommitWrite(e)
                      \/ RollbackWrite(e)
                      \/ BackoffElapses(e)
  \/ \E p \in Projector : \/ Claim(p)
                          \/ Deliver(p)
                          \/ CommitPass(p)
                          \/ AbortPass(p)
  \/ \E S \in Selections, resetAttempts \in BOOLEAN : Replay(S, resetAttempts)

Spec == Init /\ [][Next]_vars

(* A transaction ends; time passes; the server's timer fires again after   *)
(* every pass; a call to Mongo or PostgreSQL is answered.  No fairness is  *)
(* assumed of a successful delivery, of the hand-run drain or of replays.  *)
FairSpec ==
  /\ Spec
  /\ \A e \in Event : WF_vars(CommitWrite(e) \/ RollbackWrite(e))
  /\ \A e \in Event : WF_vars(BackoffElapses(e))
  /\ WF_vars(Claim(Server))
  /\ \A p \in Projector : WF_vars(Deliver(p)) /\ WF_vars(CommitPass(p))

-----------------------------------------------------------------------------
\* A row marked published has its own payload in the replica: neither a pass
\* rolled back after its Mongo writes, nor the other projector, nor a snapshot
\* rewritten while it was being delivered leaves an older document behind a
\* settled row ("one Mongo document per aggregate, latest value wins",
\* enqueueOutboxSnapshot).
PublishedIsInMongo ==
  \A e \in Event : row[e].state = "published" => mongo[e] = row[e].version

\* The replica only moves forward, and never to anything that is not committed: a
\* redelivery after a crash or a replay writes the same document again, never an
\* older one, and no payload of a rolled-back transaction is delivered.
ReplicaFollows ==
  [][\A e \in Event : mongo[e] <= mongo'[e] /\ mongo'[e] <= fact[e]]_vars

\* A row stays pending whose error is longer than last_error admits (boundedProjectorError): the
\* record of its failure takes the whole pass with it, so nothing else need be delivered.
PassesFailForGood ==
  \E f \in LongError : <>[](f \in overlong /\ row[f].state = "pending")

\* Every committed fact is delivered or dead-lettered, whatever crashes, and a row that fails
\* holds up no other row ("never blocking the rows behind it", Projector), with one exception:
\* a row whose error is overlong, for as long as it is pending.
EveryRowSettles ==
  \A e \in Event : \/ []<>(row[e].state \in {"absent", "published", "dead"})
                   \/ PassesFailForGood

\* Once the figures stop moving, the snapshot's document holds the last of them or
\* its row is in the dead letters: an update that comes while the previous one is
\* being delivered, or after it was dead-lettered, is not lost.  The same exception.
SnapshotConverges ==
  \A e \in Snapshot : \/ <>[](row[e].state = "dead" \/ mongo[e] = fact[e])
                      \/ PassesFailForGood

\* EveryRowSettles without the exception; an overlong error refutes it.
NoRowHeldUp ==
  \A e \in Event : e \notin overlong => []<>(row[e].state \in {"absent", "published", "dead"})

\* "The FIRST failure in a group STOPS that group, so a trade's CLOSED projection
\* can never land before its OPENED projection" (Projector, guarantee 2).
OpenedBeforeClosed ==
  \A e \in Event : mongo[e] > 0 =>
    \A f \in After[e] : mongo[f] > 0 \/ row[f].state = "dead"
=============================================================================
