------------------------ MODULE TradingSessionProofs ------------------------
(***************************************************************************)
(* Proofs about TradingSession: for any number of sessions, entries,       *)
(* crashes, failed calls and overlapping managers.                         *)
(*                                                                         *)
(* First what holds without a condition.  A save writes every cycle the    *)
(* row counts for its session and leaves its attempts alone, unless it     *)
(* claims the row for a session nobody used before (IInv); so nothing      *)
(* spent is handed back.                                                   *)
(*                                                                         *)
(* Then the attempts.  Memory never knows a session other than the row's,  *)
(* but for those it was undone to after another's arming had landed        *)
(* unheard (InStep); so no save puts any other old session in the place of *)
(* a newer one, and every attempt such a session started is in the counter *)
(* of the row.                                                             *)
(*                                                                         *)
(* Last the cycles, for one box at a time.  The chain is first in, first   *)
(* out: an entry is claimed when no other is at work, its attempt is spent *)
(* behind the establishment of the box before it, and nothing that counts  *)
(* a cycle waits behind a spent attempt (OneAtATime); so the room found    *)
(* when the attempt was spent is still there when its box is counted       *)
(* (Roomy).                                                                *)
(***************************************************************************)
EXTENDS TradingSession, FiniteSetTheorems, TLAPS

(* A record is of a session in use, and a record of no session is idle.    *)
OfSession(r) ==
  /\ r.session_id \in minted \cup {None}
  /\ r.session_id = None => ~r.armed /\ r.established = {}

(* The cycles the row counts are counted in r, if r is of the row's session. *)
Counts(r) == row # None /\ r.session_id = row.session_id => row.established \subseteq r.established

(* What the save under way writes, and what it would be undone to.         *)
Claiming ==
  /\ saving.rollback
  /\ mem.session_id \in Sessions
  /\ mem.session_id # saving.before.session_id
  /\ row # None => mem.session_id # row.session_id
  /\ started[mem.session_id] = 0

Keeping ==
  /\ mem.session_id = saving.before.session_id
  /\ saving.rollback => mem.established = saving.before.established

SaveSound ==
  saving # None =>
    /\ up
    /\ OfSession(saving.before) /\ Counts(saving.before)
    /\ IF saving.claims THEN Claiming ELSE Keeping

(* The rows and records of a session carry what it has spent.              *)
Recorded ==
  /\ OfSession(mem) /\ Counts(mem)
  /\ row # None => OfSession(row)
  /\ SaveSound
  /\ \A s \in Sessions \ minted : started[s] = 0

IInv == TypeOK /\ Recorded

(* The durable session, None before the first save.                        *)
RowSession == IF row = None THEN None ELSE row.session_id

(* Memory knows no session but the row's and the revived ones.             *)
InStep ==
  /\ saving = None \/ ~saving.claims => mem.session_id \in {None, RowSession} \cup revived
  /\ saving # None => saving.before.session_id \in {None, RowSession} \cup revived
  /\ \A s \in Sessions \ revived : RowSession = s => started[s] <= row.entry_attempts

Metered == InStep /\ AttemptsWithinBudget

-----------------------------------------------------------------------------
(* Nothing is recorded, in use or started yet.                             *)
LEMMA InitIInv == Init => IInv /\ Metered
  <1> SUFFICES ASSUME Init PROVE IInv /\ Metered
    OBVIOUS
  <1>1. Idle \in Record
    BY DEF Idle, Record
  <1>2. TypeOK
    <2>1. queue = <<>> /\ saving = None /\ row = None
      BY DEF Init
    <2>2. phase \in [Entries -> Phases] /\ auth \in [Entries -> Sessions \cup {None}]
      BY DEF Init, Phases
    <2>3. started \in [Sessions -> Nat] /\ minted \subseteq Sessions
      BY DEF Init
    <2>4. <<>> \in Seq([kind : {"arm", "disarm", "establish", "retry", "complete", "reconcile",
                               "abort", "consume"}, of : SUBSET Entries])
      OBVIOUS
    <2> QED
      BY <1>1, <2>1, <2>2, <2>3, <2>4 DEF Init, TypeOK
  <1>3. Recorded
    BY DEF Init, Recorded, OfSession, Counts, SaveSound, Idle
  <1>4. Metered
    BY SessionLimits DEF Init, Metered, InStep, RowSession, AttemptsWithinBudget, Idle
  <1> QED
    BY <1>2, <1>3, <1>4 DEF IInv

(* The records the pure state machine computes are records.                *)
LEMMA RecordTypes ==
  ASSUME NEW r \in Record
  PROVE  /\ \A s \in Sessions : ArmSession(s) \in Record
         /\ DisarmSession(r) \in Record
         /\ \A e \in Entries : RecordEstablishedBox(r, e) \in Record
         /\ \A boxes \in SUBSET Entries : RecordCompletedBoxes(r, boxes) \in Record
         /\ \A n \in Nat : [r EXCEPT !.entry_attempts = n] \in Record
  BY DEF Record, ArmSession, DisarmSession, RecordEstablishedBox, RecordCompletedBoxes, Idle

(* What a save writes is a record.                                         *)
LEMMA SavedType == TypeOK => Saved \in Record
  BY RecordTypes DEF TypeOK, Saved, Record

Requests ==
  [kind : {"arm", "disarm", "establish", "retry", "complete", "reconcile", "abort", "consume"},
   of : SUBSET Entries]

(* The chain stays a sequence of requests.                                 *)
LEMMA ChainTypes ==
  ASSUME queue \in Seq(Requests)
  PROVE  /\ queue # <<>> => Head(queue) \in Requests /\ Tail(queue) \in Seq(Requests)
         /\ \A kind, boxes :
              Request(kind, boxes) \in Requests => Append(queue, Request(kind, boxes)) \in Seq(Requests)
  OBVIOUS

(* A mutation that runs keeps the types.                                   *)
LEMMA MutationType == TypeOK /\ Mutation => TypeOK'
  <1> SUFFICES ASSUME TypeOK, Mutation PROVE TypeOK'
    OBVIOUS
  <1>0. mem \in Record /\ queue \in Seq(Requests) /\ minted \subseteq Sessions
    BY DEF TypeOK, Requests
  <1>1. queue # <<>> /\ Mutates
    BY DEF Mutation, Arm, Disarm, RecordEstablished, RetryPendingWrite, RecordCompleted,
           ReconcileCompletions, RecordAborted, Runs
  <1>2. Head(queue).of \subseteq Entries /\ Tail(queue) \in Seq(Requests)
    BY <1>0, <1>1, ChainTypes DEF Requests
  <1>3. minted' \subseteq Sessions
    BY <1>0 DEF Mutation, Arm, Disarm, RecordEstablished, RetryPendingWrite, RecordCompleted,
           ReconcileCompletions, RecordAborted
  <1>4. \/ Skip
        \/ \E next \in Record, rollback \in BOOLEAN, claims \in BOOLEAN :
             Commit(next, rollback, claims)
    <2>1. CASE Arm
      BY <2>1, <1>0, RecordTypes DEF Arm
    <2>2. CASE Disarm
      BY <2>2, <1>0, RecordTypes DEF Disarm
    <2>3. CASE RecordEstablished
      BY <2>3, <1>0, <1>2, RecordTypes DEF RecordEstablished
    <2>4. CASE RetryPendingWrite
      BY <2>4, <1>0 DEF RetryPendingWrite
    <2>5. CASE RecordCompleted
      BY <2>5, <1>0, <1>2, RecordTypes DEF RecordCompleted
    <2>6. CASE ReconcileCompletions
      BY <2>6, <1>0, <1>2, RecordTypes DEF ReconcileCompletions
    <2>7. CASE RecordAborted
      BY <2>7, <1>0 DEF RecordAborted
    <2> QED
      BY <2>1, <2>2, <2>3, <2>4, <2>5, <2>6, <2>7 DEF Mutation
  <1>5. /\ mem' \in Record
        /\ saving' \in Saves \cup {None}
        /\ queue' \in Seq(Requests)
        /\ writeFailed' \in BOOLEAN
    <2>1. CASE Skip
      BY <2>1, <1>0, <1>2 DEF TypeOK, Skip
    <2>2. CASE \E next \in Record, rollback \in BOOLEAN, claims \in BOOLEAN :
                 Commit(next, rollback, claims)
      BY <2>2, <1>0, <1>2 DEF TypeOK, Commit, Saves
    <2> QED
      BY <1>4, <2>1, <2>2
  <1> QED
    BY <1>1, <1>3, <1>5 DEF TypeOK, Requests, Mutates, entryVars, otherVars

(* So does the answer of a save.                                           *)
LEMMA SaveType ==
  TypeOK /\ (SaveLands \/ \E lost \in BOOLEAN : SaveFails(lost)) => TypeOK'
  <1> SUFFICES ASSUME TypeOK, SaveLands \/ \E lost \in BOOLEAN : SaveFails(lost) PROVE TypeOK'
    OBVIOUS
  <1>1. saving # None /\ Saved \in Record
    BY SavedType DEF SaveLands, SaveFails
  <1>2. saving.before \in Record /\ saving.rollback \in BOOLEAN
    BY <1>1 DEF TypeOK, Saves
  <1>3. row' \in Record \cup {None} /\ mem' \in Record /\ saving' = None
    BY <1>1, <1>2 DEF TypeOK, SaveLands, SaveFails
  <1>4. writeFailed' \in BOOLEAN
    BY <1>2 DEF TypeOK, SaveLands, SaveFails
  <1>5. faults' \in Nat
    BY DEF TypeOK, SaveLands, SaveFails, otherVars
  <1>6. revived' \subseteq Sessions \cup {None}
    <2>1. saving.before.session_id \in Sessions \cup {None}
      BY <1>2 DEF Record
    <2> QED
      BY <2>1 DEF TypeOK, SaveLands, SaveFails, otherVars
  <1> QED
    BY <1>3, <1>4, <1>5, <1>6 DEF TypeOK, SaveLands, SaveFails, entryVars, otherVars

(* A spent row is a record, a started session is counted.                  *)
LEMMA SpentTypes ==
  ASSUME TypeOK
  PROVE  /\ row # None => row \in Record /\ Spent \in Record
         /\ \A s \in Sessions : [started EXCEPT ![s] = @ + 1] \in [Sessions -> Nat]
  <1>1. ASSUME row # None PROVE row \in Record /\ Spent \in Record
    <2>1. row \in Record
      BY <1>1 DEF TypeOK
    <2>2. row.entry_attempts + 1 \in Nat
      BY <2>1 DEF Record
    <2> QED
      BY <2>1, <2>2, RecordTypes DEF Spent
  <1>2. ASSUME NEW s \in Sessions PROVE [started EXCEPT ![s] = @ + 1] \in [Sessions -> Nat]
    <2>1. started \in [Sessions -> Nat] /\ started[s] + 1 \in Nat
      BY DEF TypeOK
    <2> QED
      BY <2>1
  <1> QED
    BY <1>1, <1>2

(* Spending an attempt, or being refused it, keeps the types.              *)
LEMMA ConsumeType ==
  ASSUME TypeOK, NEW e \in Entries, Consume(e)
  PROVE  TypeOK'
  <1>0. mem \in Record /\ queue \in Seq(Requests)
    BY DEF TypeOK, Requests
  <1>1. \A s : Spendable(s) => row \in Record /\ Spent \in Record
    BY SpentTypes DEF Spendable
  <1>2. queue # <<>>
    BY DEF Consume, ConsumeRefusedInMemory, ConsumeOk, ConsumeRefused, ConsumeFails,
                Consuming, Runs
  <1>3. queue' \in Seq(Requests)
    BY <1>0, <1>2, ChainTypes
       DEF Consume, ConsumeRefusedInMemory, ConsumeOk, ConsumeRefused, ConsumeFails, Skip
  <1>4. CASE ConsumeRefusedInMemory(e)
    BY <1>3, <1>4 DEF TypeOK, Requests, ConsumeRefusedInMemory, Skip, Phases, otherVars
  <1>5. CASE ConsumeOk(e)
    <2>1. row' = Spent /\ Spent \in Record /\ Spent.entry_attempts \in Nat
      BY <1>1, <1>5 DEF ConsumeOk, Record
    <2>2. mem' \in Record
      BY <1>0, <1>5, <2>1, RecordTypes DEF ConsumeOk
    <2>3. phase' \in [Entries -> Phases] /\ auth' \in [Entries -> Sessions \cup {None}]
      BY <1>0, <1>5 DEF TypeOK, ConsumeOk, Phases, Record
    <2>4. started' \in [Sessions -> Nat]
      <3>1. started' = [started EXCEPT ![mem.session_id] = @ + 1]
        BY <1>5 DEF ConsumeOk
      <3>2. CASE mem.session_id \in Sessions
        BY <3>1, <3>2, SpentTypes
      <3>3. CASE mem.session_id \notin Sessions
        BY <3>1, <3>3 DEF TypeOK
      <3> QED
        BY <3>2, <3>3
    <2> QED
      BY <1>3, <1>5, <2>1, <2>2, <2>3, <2>4 DEF TypeOK, Requests, ConsumeOk, otherVars
  <1>6. CASE ConsumeRefused(e)
    <2>1. mem' \in Record
      BY <1>0, <1>6, RecordTypes DEF TypeOK, ConsumeRefused, Record
    <2> QED
      BY <1>3, <1>6, <2>1 DEF TypeOK, Requests, ConsumeRefused, Phases, otherVars
  <1>7. CASE \E lost \in BOOLEAN : ConsumeFails(e, lost)
    <2>1. row' \in Record \cup {None}
      BY <1>1, <1>7 DEF TypeOK, ConsumeFails
    <2> QED
      BY <1>3, <1>7, <2>1 DEF TypeOK, Requests, ConsumeFails, Phases
  <1> QED
    BY <1>4, <1>5, <1>6, <1>7 DEF Consume

(* So does an attempt another manager spends.                              *)
LEMMA OtherType == TypeOK /\ OtherConsumes => TypeOK'
  <1> SUFFICES ASSUME TypeOK, OtherConsumes PROVE TypeOK'
    OBVIOUS
  <1>1. row \in Record /\ row' = Spent
    BY DEF TypeOK, OtherConsumes, Spendable
  <1>2. row' \in Record /\ started' \in [Sessions -> Nat]
    BY <1>1, SpentTypes DEF OtherConsumes, Spendable
  <1> QED
    BY <1>2 DEF TypeOK, OtherConsumes, chainVars, otherVars

(* The life of an entry leaves the record, its save and the row alone.     *)
LEMMA EntryType ==
  ASSUME TypeOK, NEW e \in Entries, Entry(e)
  PROVE  TypeOK' /\ UNCHANGED <<row, mem, saving, minted, started, up>>
  <1>0. queue \in Seq(Requests) /\ mem.session_id \in Sessions \cup {None}
    BY DEF TypeOK, Requests, Record
  <1>1. \A kind \in {"consume", "abort", "establish", "complete"} :
          Append(queue, Request(kind, {e})) \in Seq(Requests)
    BY <1>0, ChainTypes DEF Requests, Request
  <1>2. queue' \in Seq(Requests)
    BY <1>0, <1>1 DEF Entry, CoordinateEntry, Admitted, Post, AbortEntry, InsertTrade,
       RetainOwnedExecution, DrainOwnedExecution, OpenPosition, CloseTrade, RemovePosition,
       Enqueue, chainVars
  <1>3. phase' \in [Entries -> Phases]
    BY DEF TypeOK, Entry, CoordinateEntry, Admitted, Post, AbortEntry, InsertTrade,
       RetainOwnedExecution, DrainOwnedExecution, OpenPosition, CloseTrade, RemovePosition, Phases
  <1>4. authorised' \in Sessions \cup {None}
    BY <1>0 DEF TypeOK, Entry, CoordinateEntry, Admitted, Post, AbortEntry, InsertTrade,
       RetainOwnedExecution, DrainOwnedExecution, OpenPosition, CloseTrade, RemovePosition
  <1>5. UNCHANGED <<row, mem, saving, minted, started, up, writeFailed, loaded, auth, revived, crashes, faults>>
    BY DEF Entry, CoordinateEntry, Admitted, Post, AbortEntry, InsertTrade,
       RetainOwnedExecution, DrainOwnedExecution, OpenPosition, CloseTrade, RemovePosition,
       Enqueue, chainVars, otherVars
  <1> QED
    BY <1>2, <1>3, <1>4, <1>5 DEF TypeOK, Requests

(* So does a request of the operator.                                      *)
LEMMA OperatorType ==
  ASSUME TypeOK, ArmTradingSession \/ DisarmTradingSession \/ ReconcileLive
  PROVE  TypeOK' /\ UNCHANGED <<row, mem, saving, minted, started, up>>
  <1>0. queue \in Seq(Requests)
    BY DEF TypeOK, Requests
  <1>1. \A kind \in {"arm", "disarm", "retry"} :
          Append(queue, Request(kind, {})) \in Seq(Requests)
    BY <1>0, ChainTypes DEF Requests, Request
  <1>2. queue' \in Seq(Requests)
    BY <1>1 DEF ArmTradingSession, DisarmTradingSession, ReconcileLive, Operator, Enqueue
  <1> QED
    BY <1>2 DEF TypeOK, Requests, ArmTradingSession, DisarmTradingSession, ReconcileLive, Operator,
                Enqueue, entryVars, otherVars

(* A crash and a boot keep the types.                                      *)
LEMMA BootType == TypeOK /\ (Crash \/ Initialise \/ InitialiseFails) => TypeOK'
  <1> SUFFICES ASSUME TypeOK, Crash \/ Initialise \/ InitialiseFails PROVE TypeOK'
    OBVIOUS
  <1>0. Idle \in Record /\ <<>> \in Seq(Requests)
    BY DEF Idle, Record
  <1>1. CASE Crash
    <2>1. row' \in Record \cup {None}
      BY <1>1, SavedType DEF TypeOK, Crash
    <2>2. phase' \in [Entries -> Phases]
      <3>1. \A e \in Entries : Surviving(phase[e]) \in Phases
        BY DEF TypeOK, Surviving, Phases
      <3> QED
        BY <1>1, <3>1 DEF Crash
    <2>3. crashes' \in Nat /\ UNCHANGED <<auth, minted, started, revived, faults>>
      BY <1>1 DEF TypeOK, Crash
    <2>4. /\ up' = FALSE /\ loaded' = FALSE /\ writeFailed' = FALSE /\ mem' = Idle
          /\ queue' = <<>> /\ saving' = None /\ authorised' = None
      BY <1>1 DEF Crash
    <2> QED
      BY <1>0, <2>1, <2>2, <2>3, <2>4 DEF TypeOK, Requests
  <1>2. CASE Initialise
    <2>1. mem' \in Record
      BY <1>0, <1>2 DEF TypeOK, Initialise
    <2>2. queue' \in Seq(Requests)
      <3> DEFINE flat == {e \in mem'.established \ mem'.completed : phase[e] = "closed"}
      <3>1. flat \subseteq Entries
        BY <2>1 DEF Record
      <3>2. queue' = <<>> \/ queue' = <<Request("reconcile", flat)>>
        BY <1>2 DEF Initialise
      <3>3. Request("reconcile", flat) \in Requests
        BY <3>1 DEF Requests, Request
      <3> QED
        <4>1. CASE queue' = <<>>
          BY <4>1, <1>0
        <4>2. CASE queue' = <<Request("reconcile", flat)>>
          BY <4>2, <3>3
        <4> QED
          BY <3>2, <4>1, <4>2
    <2> QED
      BY <1>2, <2>1, <2>2 DEF TypeOK, Requests, Initialise, entryVars, otherVars
  <1>3. CASE InitialiseFails
    <2>1. mem' \in Record
      BY <1>0, <1>3 DEF TypeOK, InitialiseFails
    <2>2. loaded' \in BOOLEAN
      BY <1>3 DEF InitialiseFails
    <2>3. faults' \in Nat
      BY <1>3 DEF TypeOK, InitialiseFails
    <2> QED
      BY <1>3, <2>1, <2>2, <2>3 DEF TypeOK, InitialiseFails, entryVars
  <1> QED
    BY <1>1, <1>2, <1>3

LEMMA TypeStep == TypeOK /\ [Next]_vars => TypeOK'
  <1> SUFFICES ASSUME TypeOK, [Next]_vars PROVE TypeOK'
    OBVIOUS
  <1>1. CASE UNCHANGED vars
    BY <1>1 DEF TypeOK, vars
  <1>2. CASE Next
    BY <1>2, MutationType, SaveType, ConsumeType, EntryType, OperatorType, BootType,
       OtherType DEF Next
  <1> QED
    BY <1>1, <1>2

-----------------------------------------------------------------------------
(* What neither record nor save touches leaves the account as it is.       *)
LEMMA RecordedFrame ==
  ASSUME Recorded, UNCHANGED <<row, mem, saving, minted, started, up>>
  PROVE  Recorded'
  BY DEF Recorded, OfSession, Counts, SaveSound, Claiming, Keeping

(* A save of the session in memory, which takes no cycle back, keeps the   *)
(* account, and so does the memory that shows it already.                  *)
LEMMA KeepingCommit ==
  ASSUME IInv, up, NEW next \in Record, NEW rollback \in BOOLEAN,
         next.session_id = mem.session_id,
         mem.established \subseteq next.established,
         rollback => next.established = mem.established,
         next.session_id = None => ~next.armed /\ next.established = {},
         Commit(next, rollback, FALSE), Mutates, UNCHANGED minted
  PROVE  Recorded'
  <1>0. /\ mem' = next
        /\ saving' = [before |-> mem, rollback |-> rollback, claims |-> FALSE]
        /\ UNCHANGED <<row, up, minted, started>>
    BY DEF Commit, Mutates, entryVars
  <1>1. OfSession(mem)' /\ Counts(mem)'
    BY <1>0 DEF IInv, Recorded, OfSession, Counts
  <1>2. row' # None => OfSession(row)'
    BY <1>0 DEF IInv, Recorded, OfSession
  <1>3. SaveSound'
    BY <1>0 DEF IInv, Recorded, OfSession, Counts, SaveSound, Keeping
  <1> QED
    BY <1>0, <1>1, <1>2, <1>3 DEF IInv, Recorded

(* A mutation that leaves the record alone keeps the account.              *)
LEMMA SkippedMutation ==
  ASSUME Recorded, Skip, Mutates, UNCHANGED minted
  PROVE  Recorded'
  BY RecordedFrame DEF Skip, Mutates, entryVars

(* An arming claims the row for a session that spent nothing.              *)
LEMMA ArmRecorded ==
  ASSUME IInv, Arm
  PROVE  Recorded'
  <1>1. CASE ~CanArm(mem) /\ Skip /\ UNCHANGED minted
    BY <1>1, SkippedMutation DEF Arm, IInv
  <1>2. ASSUME NEW s \in Sessions \ minted,
               minted' = minted \cup {s}, Commit(ArmSession(s), TRUE, TRUE)
        PROVE  Recorded'
    <2>0. /\ mem' = ArmSession(s)
          /\ saving' = [before |-> mem, rollback |-> TRUE, claims |-> TRUE]
          /\ UNCHANGED <<row, up, started>> /\ up
      BY <1>2 DEF Arm, Runs, Commit, Mutates, entryVars
    <2>1. /\ mem'.session_id = s /\ s # None /\ s \notin minted
          /\ mem'.armed /\ mem'.established = {}
      BY <2>0, SessionLimits DEF ArmSession, Idle
    <2>2. s # mem.session_id /\ (row # None => s # row.session_id) /\ started[s] = 0
      BY <2>1 DEF IInv, Recorded, OfSession
    <2>3. OfSession(mem)' /\ Counts(mem)'
      BY <1>2, <2>0, <2>1, <2>2 DEF OfSession, Counts
    <2>4. row' # None => OfSession(row)'
      BY <1>2, <2>0 DEF IInv, Recorded, OfSession
    <2>5. SaveSound'
      <3>1. saving'.before = mem /\ saving'.claims /\ saving'.rollback
        BY <2>0
      <3>2. Claiming'
        BY <2>0, <2>1, <2>2, <3>1 DEF Claiming
      <3>3. OfSession(saving.before)' /\ Counts(saving.before)'
        BY <1>2, <2>0, <3>1 DEF IInv, Recorded, OfSession, Counts
      <3> QED
        BY <2>0, <3>1, <3>2, <3>3 DEF SaveSound
    <2>6. \A t \in Sessions \ minted' : started'[t] = 0
      BY <1>2, <2>0 DEF IInv, Recorded
    <2> QED
      BY <2>3, <2>4, <2>5, <2>6 DEF Recorded
  <1> QED
    BY <1>1, <1>2 DEF Arm

LEMMA MutationRecorded ==
  ASSUME IInv, Mutation
  PROVE  Recorded'
  <1>0. /\ mem \in Record /\ up /\ OfSession(mem) /\ Recorded
        /\ \A boxes : \A r \in Record :
             /\ RecordCompletedBoxes(r, boxes).session_id = r.session_id
             /\ RecordCompletedBoxes(r, boxes).established = r.established
             /\ RecordCompletedBoxes(r, boxes).armed = r.armed
    BY DEF IInv, TypeOK, Recorded, Mutation, Arm, Disarm, RecordEstablished, RetryPendingWrite,
           RecordCompleted, ReconcileCompletions, RecordAborted, Runs, RecordCompletedBoxes, Record
  <1>1. queue # <<>> => Head(queue).of \subseteq Entries
    <2>1. queue \in Seq(Requests)
      BY DEF IInv, TypeOK, Requests
    <2> QED
      BY <2>1, ChainTypes DEF Requests
  <1>2. ASSUME Skip, Mutates, UNCHANGED minted PROVE Recorded'
    BY <1>0, <1>2, SkippedMutation
  <1>3. ASSUME NEW rollback \in BOOLEAN, Commit(mem, rollback, FALSE), Mutates, UNCHANGED minted
        PROVE  Recorded'
    BY <1>0, <1>3, KeepingCommit DEF OfSession
  <1>4. ASSUME NEW boxes \in SUBSET Entries,
               Commit(RecordCompletedBoxes(mem, boxes), TRUE, FALSE), Mutates, UNCHANGED minted
        PROVE  Recorded'
    <2>1. RecordCompletedBoxes(mem, boxes) \in Record
      BY <1>0, RecordTypes
    <2> QED
      BY <1>0, <1>4, <2>1, KeepingCommit DEF OfSession
  <1>5. CASE Arm
    BY <1>5, ArmRecorded
  <1>6. CASE Disarm
    <2>1. /\ DisarmSession(mem) \in Record
          /\ DisarmSession(mem).session_id = mem.session_id
          /\ DisarmSession(mem).established = mem.established
          /\ DisarmSession(mem).armed = FALSE
      BY <1>0, RecordTypes DEF DisarmSession, Record
    <2>2. Commit(DisarmSession(mem), TRUE, FALSE) /\ Mutates /\ UNCHANGED minted
      BY <1>6 DEF Disarm
    <2> QED
      BY <1>0, <2>1, <2>2, KeepingCommit DEF OfSession
  <1>7. CASE RecordEstablished
    <2>1. PICK e \in Head(queue).of :
            \/ mem.armed /\ Commit(RecordEstablishedBox(mem, e), FALSE, FALSE)
            \/ Skip
      BY <1>7 DEF RecordEstablished
    <2>2. CASE mem.armed /\ Commit(RecordEstablishedBox(mem, e), FALSE, FALSE)
      <3>1. e \in Entries
        BY <1>1, <1>7 DEF RecordEstablished, Runs
      <3>2. /\ RecordEstablishedBox(mem, e) \in Record
            /\ RecordEstablishedBox(mem, e).session_id = mem.session_id
            /\ mem.established \subseteq RecordEstablishedBox(mem, e).established
        BY <1>0, <3>1, RecordTypes DEF RecordEstablishedBox, Record
      <3>3. mem.session_id # None
        BY <1>0, <2>2 DEF OfSession
      <3>4. Mutates /\ UNCHANGED minted
        BY <1>7 DEF RecordEstablished
      <3> QED
        BY <1>0, <2>2, <3>2, <3>3, <3>4, KeepingCommit
    <2> QED
      BY <1>2, <1>7, <2>1, <2>2 DEF RecordEstablished
  <1>8. CASE RetryPendingWrite
    BY <1>2, <1>3, <1>8 DEF RetryPendingWrite
  <1>9. CASE RecordCompleted
    BY <1>1, <1>2, <1>4, <1>9 DEF RecordCompleted, Runs
  <1>10. CASE ReconcileCompletions
    BY <1>1, <1>4, <1>10 DEF ReconcileCompletions, Runs
  <1>11. CASE RecordAborted
    BY <1>2, <1>3, <1>11 DEF RecordAborted
  <1> QED
    BY <1>5, <1>6, <1>7, <1>8, <1>9, <1>10, <1>11 DEF Mutation

(* What a save writes is the record in memory, but for the attempts of a   *)
(* session the row knows already; it takes nothing back from that session. *)
LEMMA SavedKeeps ==
  ASSUME IInv, saving # None
  PROVE  /\ Saved \in Record
         /\ Saved.session_id = mem.session_id
         /\ Saved.established = mem.established
         /\ Saved.armed = mem.armed
         /\ row # None /\ Saved.session_id = row.session_id =>
              /\ row.established \subseteq Saved.established
              /\ row.entry_attempts = Saved.entry_attempts
  <1>1. mem \in Record /\ (row # None => row \in Record) /\ Saved \in Record
    BY SavedType DEF IInv, TypeOK
  <1>2. /\ Saved.session_id = mem.session_id
        /\ Saved.established = mem.established
        /\ Saved.armed = mem.armed
    BY <1>1 DEF Saved, Record
  <1>3. ASSUME row # None, Saved.session_id = row.session_id
        PROVE  /\ row.established \subseteq Saved.established
               /\ row.entry_attempts = Saved.entry_attempts
    <2>1. row.established \subseteq Saved.established
      BY <1>2, <1>3 DEF IInv, Recorded, Counts
    <2>2. ~saving.claims
      BY <1>2, <1>3 DEF IInv, Recorded, SaveSound, Claiming
    <2> QED
      BY <1>1, <1>3, <2>1, <2>2 DEF Saved, Record
  <1> QED
    BY <1>1, <1>2, <1>3

(* Nothing the row says of its session is taken back by the step.          *)
NotTakenBack ==
  row # None /\ row'.session_id = row.session_id =>
    /\ row.established \subseteq row'.established
    /\ row.entry_attempts <= row'.entry_attempts

(* A row that stays, or that a save replaces, takes nothing back.          *)
LEMMA RowKept ==
  ASSUME IInv, row' = row \/ (saving # None /\ row' = Saved)
  PROVE  /\ NotTakenBack
         /\ row' # None => OfSession(row')
  <1>0. row # None => row \in Record /\ row.entry_attempts \in Nat
    BY DEF IInv, TypeOK, Record
  <1>1. CASE row' = row
    BY <1>0, <1>1 DEF NotTakenBack, IInv, Recorded
  <1>2. CASE saving # None /\ row' = Saved
    BY <1>0, <1>2, SavedKeeps DEF NotTakenBack, IInv, Recorded, OfSession
  <1> QED
    BY <1>1, <1>2

(* The answer of a save, or the loss of it, keeps the account.             *)
LEMMA SaveRecorded ==
  ASSUME IInv, SaveLands \/ \E lost \in BOOLEAN : SaveFails(lost)
  PROVE  Recorded' /\ NotTakenBack
  <1>0. /\ saving # None /\ saving' = None
        /\ row' = row \/ row' = Saved
        /\ \/ mem' = mem
           \/ saving.rollback /\ mem' = saving.before
        /\ UNCHANGED <<minted, started, up>>
    BY DEF SaveLands, SaveFails, entryVars
  <1>1. NotTakenBack /\ (row' # None => OfSession(row)')
    BY <1>0, RowKept DEF OfSession
  <1>2. OfSession(mem)'
    BY <1>0 DEF IInv, Recorded, SaveSound, OfSession
  <1>3. Counts(mem)'
    <2>1. CASE row' = row
      BY <1>0, <2>1 DEF IInv, Recorded, SaveSound, Counts
    <2>2. CASE row' = Saved /\ mem' = mem
      BY <1>0, <2>2, SavedKeeps DEF Counts
    <2>3. CASE row' = Saved /\ saving.rollback /\ mem' = saving.before
      <3>1. CASE saving.claims
        BY <1>0, <2>3, <3>1, SavedKeeps DEF IInv, Recorded, SaveSound, Claiming, Counts
      <3>2. CASE ~saving.claims
        BY <1>0, <2>3, <3>2, SavedKeeps DEF IInv, Recorded, SaveSound, Keeping, Counts
      <3> QED
        BY <3>1, <3>2
    <2> QED
      BY <1>0, <2>1, <2>2, <2>3
  <1> QED
    BY <1>0, <1>1, <1>2, <1>3 DEF IInv, Recorded, SaveSound

(* A spent row differs from the row by one attempt.                        *)
LEMMA SpentKeeps ==
  ASSUME IInv, row # None
  PROVE  /\ row \in Record /\ Spent \in Record
         /\ Spent.session_id = row.session_id
         /\ Spent.established = row.established
         /\ Spent.armed = row.armed
         /\ Spent.entry_attempts = row.entry_attempts + 1
         /\ row.entry_attempts \in Nat
  BY SpentTypes DEF IInv, TypeOK, Spent, Record

(* An attempt is spent on the row only.                                    *)
LEMMA ConsumeRecorded ==
  ASSUME IInv, NEW e \in Entries, Consume(e)
  PROVE  Recorded' /\ NotTakenBack
  <1>0. /\ saving = None /\ UNCHANGED <<saving, minted, up>>
        /\ mem \in Record
        /\ row # None => row \in Record
    BY DEF IInv, TypeOK, Consume, ConsumeRefusedInMemory, ConsumeOk, ConsumeRefused, ConsumeFails,
           Consuming, Runs, Skip
  <1>1. row' = row \/ (row # None /\ row' = Spent)
    BY DEF Consume, ConsumeRefusedInMemory, ConsumeOk, ConsumeRefused, ConsumeFails, Spendable
  <1>2. /\ mem'.session_id = mem.session_id
        /\ mem'.established = mem.established
        /\ mem'.armed = mem.armed
    BY <1>0 DEF Consume, ConsumeRefusedInMemory, ConsumeOk, ConsumeRefused, ConsumeFails, Skip, Record
  <1>3. NotTakenBack
    BY <1>0, <1>1, SpentKeeps DEF NotTakenBack, Record
  <1>4. OfSession(mem)' /\ Counts(mem)' /\ (row' # None => OfSession(row)')
    BY <1>0, <1>1, <1>2, SpentKeeps DEF IInv, Recorded, OfSession, Counts
  <1>5. \A s \in Sessions \ minted : started'[s] = 0
    <2>1. CASE UNCHANGED started
      BY <2>1 DEF IInv, Recorded
    <2>2. CASE ConsumeOk(e)
      <3>1. mem.session_id \in minted
        BY <2>2 DEF IInv, Recorded, OfSession, ConsumeOk, MemoryAllows, SessionAllows
      <3> QED
        BY <2>2, <3>1 DEF IInv, TypeOK, Recorded, ConsumeOk
    <2> QED
      BY <2>1, <2>2 DEF Consume, ConsumeRefusedInMemory, ConsumeRefused, ConsumeFails
  <1> QED
    BY <1>0, <1>3, <1>4, <1>5 DEF Recorded, SaveSound

(* So does the other manager, even while a save is under way.              *)
LEMMA OtherRecorded ==
  ASSUME IInv, OtherConsumes
  PROVE  Recorded' /\ NotTakenBack
  <1>0. /\ row # None /\ row' = Spent
        /\ UNCHANGED <<mem, saving, minted, up>>
    BY DEF OtherConsumes, Spendable, chainVars
  <1>1. /\ row'.session_id = row.session_id
        /\ row'.established = row.established
        /\ row'.armed = row.armed
    BY <1>0, SpentKeeps
  <1>2. PICK s \in Sessions : s = row.session_id /\ started' = [started EXCEPT ![s] = @ + 1]
    BY DEF OtherConsumes, Spendable
  <1>3. s \in minted
    BY <1>0, <1>2, SessionLimits DEF IInv, Recorded, OfSession
  <1>4. NotTakenBack
    BY <1>0, SpentKeeps DEF NotTakenBack
  <1>5. OfSession(mem)' /\ Counts(mem)' /\ (row' # None => OfSession(row)')
    BY <1>0, <1>1 DEF IInv, Recorded, OfSession, Counts
  <1>6. \A t \in Sessions : t # s => started'[t] = started[t]
    BY <1>2 DEF IInv, TypeOK
  <1>7. \A t \in Sessions \ minted : started'[t] = 0
    BY <1>3, <1>6 DEF IInv, Recorded
  <1>8. SaveSound'
    <2>1. CASE saving # None
      <3>1. OfSession(saving.before)' /\ Counts(saving.before)'
        BY <1>0, <1>1, <2>1 DEF IInv, Recorded, SaveSound, OfSession, Counts
      <3>2. Keeping => Keeping'
        BY <1>0 DEF Keeping
      <3>3. Claiming => Claiming'
        BY <1>0, <1>1, <1>2, <1>6 DEF Claiming
      <3> QED
        BY <1>0, <2>1, <3>1, <3>2, <3>3 DEF IInv, Recorded, SaveSound
    <2> QED
      BY <1>0, <2>1 DEF SaveSound
  <1> QED
    BY <1>0, <1>4, <1>5, <1>7, <1>8 DEF Recorded

(* Memory starts from the row, or from nothing.                            *)
LEMMA BootRecorded ==
  ASSUME IInv, Crash \/ Initialise \/ InitialiseFails
  PROVE  Recorded' /\ NotTakenBack
  <1>1. saving' = None /\ UNCHANGED <<minted, started>>
    BY DEF IInv, Recorded, SaveSound, Crash, Initialise, InitialiseFails, entryVars
  <1>2. row' = row \/ (saving # None /\ row' = Saved)
    BY DEF Crash, Initialise, InitialiseFails
  <1>3. NotTakenBack /\ (row' # None => OfSession(row)')
    BY <1>1, <1>2, RowKept DEF OfSession
  <1>4. Crash => mem' = Idle
    BY DEF Crash
  <1>5. ~Crash => row' = row /\ (mem' = mem \/ mem' = Idle \/ (mem' = row /\ row # None))
    <2>1. CASE Initialise
      BY <2>1 DEF Initialise
    <2>2. CASE InitialiseFails
      BY <2>2 DEF InitialiseFails
    <2> QED
      BY <2>1, <2>2
  <1>6. OfSession(mem)' /\ Counts(mem)'
    <2>1. CASE mem' = Idle
      BY <1>3, <2>1 DEF OfSession, Counts, Idle
    <2>2. CASE row' = row /\ mem' = mem
      BY <1>1, <2>2 DEF IInv, Recorded, OfSession, Counts
    <2>3. CASE row' = row /\ mem' = row /\ row # None
      BY <1>1, <1>3, <2>3 DEF OfSession, Counts
    <2> QED
      BY <1>4, <1>5, <2>1, <2>2, <2>3
  <1> QED
    BY <1>1, <1>3, <1>6 DEF IInv, Recorded, SaveSound

(* Every step keeps the account, and takes nothing back.                   *)
LEMMA Step == IInv /\ [Next]_vars => IInv' /\ NotTakenBack
  <1> SUFFICES ASSUME IInv, [Next]_vars PROVE IInv' /\ NotTakenBack
    OBVIOUS
  <1>0. TypeOK' /\ TypeOK
    BY TypeStep DEF IInv
  <1>1. ASSUME UNCHANGED <<row, mem, saving, minted, started, up>>
        PROVE  Recorded' /\ NotTakenBack
    BY <1>1, RecordedFrame, RowKept DEF IInv
  <1>2. CASE UNCHANGED vars
    BY <1>0, <1>1, <1>2 DEF IInv, vars
  <1>3. CASE Mutation
    <2>1. UNCHANGED row
      BY <1>3 DEF Mutation, Arm, Disarm, RecordEstablished, RetryPendingWrite, RecordCompleted,
                  ReconcileCompletions, RecordAborted, Mutates
    <2> QED
      BY <1>0, <1>3, <2>1, MutationRecorded, RowKept DEF IInv
  <1>4. CASE SaveLands \/ \E lost \in BOOLEAN : SaveFails(lost)
    BY <1>0, <1>4, SaveRecorded DEF IInv
  <1>5. ASSUME NEW e \in Entries, Consume(e) PROVE IInv' /\ NotTakenBack
    BY <1>0, <1>5, ConsumeRecorded DEF IInv
  <1>6. ASSUME NEW e \in Entries, Entry(e) PROVE IInv' /\ NotTakenBack
    BY <1>0, <1>1, <1>6, EntryType DEF IInv
  <1>7. CASE OtherConsumes
    BY <1>0, <1>7, OtherRecorded DEF IInv
  <1>8. CASE ArmTradingSession \/ DisarmTradingSession \/ ReconcileLive
    BY <1>0, <1>1, <1>8, OperatorType DEF IInv
  <1>9. CASE Crash \/ Initialise \/ InitialiseFails
    BY <1>0, <1>9, BootRecorded DEF IInv
  <1> QED
    BY <1>2, <1>3, <1>4, <1>5, <1>6, <1>7, <1>8, <1>9 DEF Next

-----------------------------------------------------------------------------
(* Memory knows no session but the durable one and the revived ones, and   *)
(* the row has at least the attempts that were started: a save keeps its   *)
(* counter, a claim begins with none.                                      *)
LEMMA MeterStep == IInv /\ Metered /\ [Next]_vars => Metered'
  <1> SUFFICES ASSUME IInv, Metered, [Next]_vars PROVE Metered'
    OBVIOUS
  <1>0. /\ mem \in Record /\ (row # None => row \in Record /\ row.entry_attempts \in Nat)
        /\ \A s \in Sessions : started[s] \in Nat
        /\ OfSession(mem) /\ (row # None => OfSession(row))
    BY DEF IInv, TypeOK, Recorded, Record
  <1>1. ASSUME row' = row, UNCHANGED <<started, saving, revived>>,
               mem'.session_id = mem.session_id \/ mem'.session_id \in {None, RowSession}
        PROVE  Metered'
    BY <1>1 DEF Metered, InStep, RowSession, AttemptsWithinBudget
  <1>2. CASE UNCHANGED <<row, mem, saving, started, revived>>
    BY <1>1, <1>2
  <1>3. CASE Mutation
    <2>1. row' = row /\ UNCHANGED <<started, revived>> /\ saving = None
      BY <1>3 DEF Mutation, Arm, Disarm, RecordEstablished, RetryPendingWrite, RecordCompleted,
                  ReconcileCompletions, RecordAborted, Mutates, Runs, entryVars, otherVars
    <2>2. mem.session_id \in {None, RowSession} \cup revived
      BY <2>1 DEF Metered, InStep
    <2>3. \/ UNCHANGED <<mem, saving>>
          \/ saving' # None /\ saving'.before = mem /\ (saving'.claims \/ mem'.session_id = mem.session_id)
      <3>1. Skip => UNCHANGED <<mem, saving>>
        BY DEF Skip
      <3>2. ASSUME NEW next \in Record, NEW rollback \in BOOLEAN, NEW claims \in BOOLEAN,
                   Commit(next, rollback, claims)
            PROVE  /\ saving' # None /\ saving'.before = mem
                   /\ saving'.claims = claims /\ mem' = next
        BY <1>0, <3>2, NoneIsNoRecord DEF Commit, Saves
      <3>3. /\ \A s \in Sessions : ArmSession(s) \in Record
            /\ DisarmSession(mem) \in Record
            /\ DisarmSession(mem).session_id = mem.session_id
            /\ \A e \in Entries : /\ RecordEstablishedBox(mem, e) \in Record
                                 /\ RecordEstablishedBox(mem, e).session_id = mem.session_id
            /\ \A boxes \in SUBSET Entries :
                 /\ RecordCompletedBoxes(mem, boxes) \in Record
                 /\ RecordCompletedBoxes(mem, boxes).session_id = mem.session_id
        <4>1. /\ DisarmSession(mem).session_id = mem.session_id
              /\ \A e : RecordEstablishedBox(mem, e).session_id = mem.session_id
              /\ \A boxes : RecordCompletedBoxes(mem, boxes).session_id = mem.session_id
          BY <1>0 DEF DisarmSession, RecordEstablishedBox, RecordCompletedBoxes, Record
        <4> QED
          BY <1>0, <4>1, RecordTypes
      <3>4. Head(queue).of \subseteq Entries
        <4>1. queue \in Seq(Requests) /\ queue # <<>>
          BY <1>3 DEF IInv, TypeOK, Requests, Mutation, Arm, Disarm, RecordEstablished,
             RetryPendingWrite, RecordCompleted, ReconcileCompletions, RecordAborted, Runs
        <4> QED
          BY <4>1, ChainTypes DEF Requests
      <3>5. CASE Arm
        BY <3>1, <3>2, <3>3, <3>5 DEF Arm
      <3>6. CASE Disarm
        BY <3>2, <3>3, <3>6 DEF Disarm
      <3>7. CASE RecordEstablished
        BY <3>1, <3>2, <3>3, <3>4, <3>7 DEF RecordEstablished
      <3>8. CASE RetryPendingWrite \/ RecordAborted
        BY <1>0, <3>1, <3>2, <3>8 DEF RetryPendingWrite, RecordAborted
      <3>9. CASE RecordCompleted \/ ReconcileCompletions
        BY <3>1, <3>2, <3>3, <3>4, <3>9 DEF RecordCompleted, ReconcileCompletions
      <3> QED
        BY <1>3, <3>5, <3>6, <3>7, <3>8, <3>9 DEF Mutation
    <2> QED
      BY <2>1, <2>2, <2>3 DEF Metered, InStep, RowSession, AttemptsWithinBudget
  <1>4. CASE SaveLands \/ \E lost \in BOOLEAN : SaveFails(lost)
    <2>0. saving # None /\ saving' = None /\ UNCHANGED started /\ revived \subseteq revived'
      BY <1>4 DEF SaveLands, SaveFails, entryVars, otherVars
    <2>1. \/ row' = Saved /\ mem'.session_id = mem.session_id
          \/ row' = Saved /\ saving.claims /\ mem' = saving.before
               /\ saving.before.session_id \in revived'
          \/ row' = row /\ mem' = saving.before
          \/ row' = row /\ mem' = mem /\ ~saving.claims
      <3>1. CASE SaveLands
        BY <3>1 DEF SaveLands
      <3>2. ASSUME NEW lost \in BOOLEAN, SaveFails(lost)
            PROVE  \/ row' = Saved /\ mem'.session_id = mem.session_id
                   \/ row' = Saved /\ saving.claims /\ mem' = saving.before
                        /\ saving.before.session_id \in revived'
                   \/ row' = row /\ mem' = saving.before
                   \/ row' = row /\ mem' = mem /\ ~saving.claims
        <4>1. /\ row' = (IF lost THEN Saved ELSE row)
              /\ lost /\ saving.claims => saving.before.session_id \in revived'
          BY <3>2 DEF SaveFails
        <4>2. mem' = IF saving.rollback THEN saving.before ELSE mem
          BY <3>2 DEF SaveFails
        <4>3. saving.claims => saving.rollback
          BY <2>0 DEF IInv, Recorded, SaveSound, Claiming
        <4>4. ~saving.claims => mem.session_id = saving.before.session_id
          BY <2>0 DEF IInv, Recorded, SaveSound, Keeping
        <4> QED
          BY <4>1, <4>2, <4>3, <4>4
      <3> QED
        BY <1>4, <3>1, <3>2
    <2>2. CASE row' = row /\ (mem' = saving.before \/ (mem' = mem /\ ~saving.claims))
      BY <2>0, <2>2 DEF Metered, InStep, RowSession, AttemptsWithinBudget
    <2>3. CASE row' = Saved /\ (\/ mem'.session_id = mem.session_id
                               \/ mem'.session_id \in revived')
      <3>1. row' \in Record /\ row' # None /\ row'.session_id = mem.session_id
        BY <2>0, <2>3, SavedKeeps, NoneIsNoRecord
      <3>2. \A s \in Sessions \ revived' : row'.session_id = s => started[s] <= row'.entry_attempts
        <4>1. CASE saving.claims
          <5>1. started[mem.session_id] = 0 /\ 0 <= row'.entry_attempts
            BY <2>0, <3>1, <4>1 DEF IInv, Recorded, SaveSound, Claiming, Record
          <5> QED
            BY <3>1, <5>1
        <4>2. CASE ~saving.claims
          <5>1. mem.session_id \in {None, RowSession} \cup revived
            BY <4>2 DEF Metered, InStep
          <5>2. row # None => row'.entry_attempts = row.entry_attempts
            BY <1>0, <2>3, <4>2 DEF Saved, Record
          <5> QED
            BY <2>0, <3>1, <5>1, <5>2, SessionLimits DEF Metered, InStep, RowSession
        <4> QED
          BY <4>1, <4>2
      <3> QED
        BY <2>0, <2>3, <3>1, <3>2 DEF Metered, InStep, RowSession, AttemptsWithinBudget
    <2> QED
      BY <2>1, <2>2, <2>3
  <1>5. ASSUME row # None, row' = Spent, mem'.session_id = mem.session_id, UNCHANGED <<saving, revived>>,
               NEW s \in Sessions, s = row.session_id,
               Within(row.entry_attempts, MaxEntryAttempts),
               started' = started \/ started' = [started EXCEPT ![s] = @ + 1]
        PROVE  Metered'
    <2>1. /\ row' \in Record /\ row' # None /\ row'.session_id = row.session_id
          /\ row'.entry_attempts = row.entry_attempts + 1 /\ row.entry_attempts \in Nat
      BY <1>5, SpentKeeps, NoneIsNoRecord
    <2>2. /\ \A t \in Sessions : t # s => started'[t] = started[t]
          /\ started'[s] = started[s] \/ started'[s] = started[s] + 1
      BY <1>5 DEF IInv, TypeOK
    <2>3. s \notin revived => started[s] <= row.entry_attempts
      BY <1>5 DEF Metered, InStep, RowSession
    <2>4. InStep'
      BY <1>0, <1>5, <2>1, <2>2, <2>3 DEF Metered, InStep, RowSession
    <2>5. MaxEntryAttempts > 0 /\ s \notin revived => started'[s] <= MaxEntryAttempts
      BY <1>0, <1>5, <2>1, <2>2, <2>3, SessionLimits DEF Within
    <2> QED
      BY <1>5, <2>2, <2>4, <2>5 DEF Metered, AttemptsWithinBudget
  <1>6. ASSUME NEW e \in Entries, Consume(e) PROVE Metered'
    <2>1. /\ mem'.session_id = mem.session_id /\ UNCHANGED <<saving, revived>>
      BY <1>0, <1>6 DEF Consume, ConsumeRefusedInMemory, ConsumeOk, ConsumeRefused, ConsumeFails,
                        Skip, Record, otherVars
    <2>2. CASE row' = row /\ UNCHANGED started
      BY <1>1, <2>1, <2>2
    <2>3. CASE /\ MemoryAllows /\ Spendable(mem.session_id) /\ row' = Spent
               /\ \/ UNCHANGED started
                  \/ started' = [started EXCEPT ![mem.session_id] = @ + 1]
      <3>1. mem.session_id \in Sessions
        BY <1>0, <2>3 DEF OfSession, MemoryAllows, SessionAllows, IInv, TypeOK, Record
      <3> QED
        BY <1>5, <2>1, <2>3, <3>1 DEF Spendable
    <2>4. \/ row' = row /\ UNCHANGED started
          \/ /\ MemoryAllows /\ Spendable(mem.session_id) /\ row' = Spent
             /\ \/ UNCHANGED started
                \/ started' = [started EXCEPT ![mem.session_id] = @ + 1]
      BY <1>6 DEF Consume, ConsumeRefusedInMemory, ConsumeOk, ConsumeRefused, ConsumeFails
    <2> QED
      BY <2>2, <2>3, <2>4
  <1>7. CASE OtherConsumes
    BY <1>5, <1>7 DEF OtherConsumes, Spendable, chainVars, otherVars
  <1>8. CASE Crash
    <2>1. mem'.session_id = None /\ saving' = None /\ UNCHANGED <<started, revived>>
      BY <1>8 DEF Crash, Idle
    <2>2. row' = row \/ (saving # None /\ row' = Saved)
      BY <1>8 DEF Crash
    <2>3. CASE row' = row
      BY <2>1, <2>3 DEF Metered, InStep, RowSession, AttemptsWithinBudget
    <2>4. CASE saving # None /\ row' = Saved
      <3>1. row' \in Record /\ row' # None /\ row'.session_id = mem.session_id
        BY <2>4, SavedKeeps, NoneIsNoRecord
      <3>2. \A s \in Sessions \ revived : row'.session_id = s => started[s] <= row'.entry_attempts
        <4>1. CASE saving.claims
          <5>1. started[mem.session_id] = 0 /\ 0 <= row'.entry_attempts
            BY <2>4, <3>1, <4>1 DEF IInv, Recorded, SaveSound, Claiming, Record
          <5> QED
            BY <3>1, <5>1
        <4>2. CASE ~saving.claims
          <5>1. mem.session_id \in {None, RowSession} \cup revived
            BY <4>2 DEF Metered, InStep
          <5>2. row # None => row'.entry_attempts = row.entry_attempts
            BY <1>0, <2>4, <4>2 DEF Saved, Record
          <5> QED
            BY <3>1, <5>1, <5>2, SessionLimits DEF Metered, InStep, RowSession
        <4> QED
          BY <4>1, <4>2
      <3> QED
        BY <2>1, <3>1, <3>2 DEF Metered, InStep, RowSession, AttemptsWithinBudget
    <2> QED
      BY <2>2, <2>3, <2>4
  <1>9. CASE Initialise \/ InitialiseFails
    <2>1. row' = row /\ UNCHANGED <<started, saving, revived>>
      BY <1>9 DEF Initialise, InitialiseFails, entryVars, otherVars
    <2>2. mem'.session_id = mem.session_id \/ mem'.session_id \in {None, RowSession}
      <3>1. CASE Initialise
        BY <3>1 DEF Initialise, RowSession, Idle
      <3>2. CASE InitialiseFails
        BY <3>2 DEF InitialiseFails, RowSession, Idle
      <3> QED
        BY <1>9, <3>1, <3>2
    <2> QED
      BY <1>1, <2>1, <2>2
  <1>10. ASSUME NEW e \in Entries, Entry(e) PROVE Metered'
    <2>1. UNCHANGED revived
      BY <1>10 DEF Entry, CoordinateEntry, Admitted, Post, AbortEntry, InsertTrade,
         RetainOwnedExecution, DrainOwnedExecution, OpenPosition, CloseTrade, RemovePosition,
         otherVars
    <2> QED
      BY <1>2, <1>10, <2>1, EntryType DEF IInv
  <1>11. CASE ArmTradingSession \/ DisarmTradingSession \/ ReconcileLive
    <2>1. UNCHANGED revived
      BY <1>11 DEF ArmTradingSession, DisarmTradingSession, ReconcileLive, Operator, otherVars
    <2> QED
      BY <1>2, <1>11, <2>1, OperatorType DEF IInv
  <1>12. CASE UNCHANGED vars
    BY <1>2, <1>12 DEF vars
  <1> QED
    BY <1>3, <1>4, <1>6, <1>7, <1>8, <1>9, <1>10, <1>11, <1>12 DEF Next

-----------------------------------------------------------------------------
(* The account is kept for every number of sessions, entries and faults.   *)
THEOREM SessionAccountKept == Spec => []IInv
  <1>1. Init => IInv
    BY InitIInv
  <1>2. IInv /\ [Next]_vars => IInv'
    BY Step
  <1> QED
    BY <1>1, <1>2, PTL DEF Spec

(* What the row says a session has spent is never handed back under the    *)
(* same session id, arming lost or not: a save under way writes every      *)
(* cycle the row has, and leaves its attempts alone unless it claims the   *)
(* row for a fresh session (saveBoxTradingSession).                        *)
THEOREM SpentNeverHandedBack == Spec => SpentStaysSpent
  <1>1. IInv /\ [Next]_vars => NotTakenBack
    BY Step
  <1>2. IInv /\ [Next]_vars =>
          [row # None /\ row'.session_id = row.session_id =>
             /\ row.established \subseteq row'.established
             /\ row.entry_attempts <= row'.entry_attempts]_vars
    BY <1>1 DEF NotTakenBack
  <1> QED
    BY <1>2, SessionAccountKept, PTL DEF Spec, SpentStaysSpent

(* No session starts more entry attempts than it was armed for, whatever   *)
(* calls fail, processes restart and managers overlap, but for one that    *)
(* memory was undone to after another's arming had landed unheard          *)
(* (consumeBoxTradingSessionEntryAttempt).                                 *)
THEOREM AttemptsNeverExceeded == Spec => []AttemptsWithinBudget
  <1>1. Init => IInv /\ Metered
    BY InitIInv
  <1>2. IInv /\ Metered /\ [Next]_vars => IInv' /\ Metered'
    BY Step, MeterStep
  <1>3. Metered => AttemptsWithinBudget
    BY DEF Metered
  <1> QED
    BY <1>1, <1>2, <1>3, PTL DEF Spec

-----------------------------------------------------------------------------
(* Entries between the start of their claim and their place in the book,   *)
(* and those of them whose attempt is spent.                               *)
Working == {e \in Entries :
              phase[e] \in {"consuming", "consumed", "admitted", "hedged", "filled", "inserted"}}

Owing == {e \in Working : phase[e] # "consuming"}

Waits(q, kind) == \E i \in DOMAIN q : q[i].kind = kind

(* One establishment and one consumption wait at most, in this order.      *)
InTurn(q) ==
  \A i, j \in DOMAIN q : i < j =>
    /\ ~(q[i].kind = "consume" /\ q[j].kind \in {"consume", "establish"})
    /\ ~(q[i].kind = "establish" /\ q[j].kind = "establish")

(* One entry works at a time, and no establishment waits behind a spent    *)
(* attempt: the box of an earlier one is counted before it is asked for.   *)
OneAtATime ==
  /\ \A e, f \in Working : e = f
  /\ ~up => queue = <<>> /\ Working = {}
  /\ InTurn(queue)
  /\ \A i \in DOMAIN queue :
       queue[i].kind = "consume" => \E e \in Working \ Owing : queue[i].of = {e}
  /\ Owing # {} => ~Waits(queue, "establish")
  /\ IsFiniteSet({e \in Entries : phase[e] # "new"})

(* A cycle is still to come, for which there must be room.                 *)
Due == Owing # {} \/ Waits(queue, "establish")

Fits(established, more) ==
  IsFiniteSet(established) /\ Cardinality(established) + more <= MaxCompletedTrades

Roomy ==
  /\ row # None => Fits(row.established, 0)
  /\ Fits(mem.established, IF Due THEN 1 ELSE 0)
  /\ saving # None => Fits(saving.before.established, IF Due THEN 1 ELSE 0)

SingleFile == OneAtATime /\ Roomy

(* The chain behind its head, and the chain with one request more.         *)
LEMMA TailInTurn ==
  ASSUME NEW q \in Seq(Requests), q # <<>>, InTurn(q)
  PROVE  /\ InTurn(Tail(q))
         /\ \A kind : Waits(Tail(q), kind) => Waits(q, kind)
         /\ Waits(q, Head(q).kind)
         /\ Head(q).kind \in {"establish", "consume"} => ~Waits(Tail(q), "establish")
         /\ Head(q).kind = "consume" => ~Waits(Tail(q), "consume")
         /\ \A i \in DOMAIN Tail(q) : i + 1 \in DOMAIN q /\ Tail(q)[i] = q[i + 1]
  <1>1. /\ \A i \in DOMAIN Tail(q) : i \in Nat /\ i + 1 \in DOMAIN q /\ Tail(q)[i] = q[i + 1]
        /\ 1 \in DOMAIN q /\ Head(q) = q[1]
        /\ \A i \in DOMAIN Tail(q) : 1 < i + 1
    OBVIOUS
  <1>2. InTurn(Tail(q))
    <2>1. ASSUME NEW i \in DOMAIN Tail(q), NEW j \in DOMAIN Tail(q), i < j
          PROVE  /\ ~(Tail(q)[i].kind = "consume" /\ Tail(q)[j].kind \in {"consume", "establish"})
                 /\ ~(Tail(q)[i].kind = "establish" /\ Tail(q)[j].kind = "establish")
      <3>1. i + 1 \in DOMAIN q /\ j + 1 \in DOMAIN q /\ i + 1 < j + 1
        BY <1>1, <2>1
      <3> QED
        BY <1>1, <3>1 DEF InTurn
    <2> QED
      BY <2>1 DEF InTurn
  <1>3. \A kind : Waits(Tail(q), kind) => Waits(q, kind)
    BY <1>1 DEF Waits
  <1>4. Waits(q, Head(q).kind)
    BY <1>1 DEF Waits
  <1>5. \A i \in DOMAIN Tail(q) :
          /\ ~(q[1].kind = "consume" /\ Tail(q)[i].kind \in {"consume", "establish"})
          /\ ~(q[1].kind = "establish" /\ Tail(q)[i].kind = "establish")
    BY <1>1 DEF InTurn
  <1> QED
    BY <1>1, <1>2, <1>3, <1>4, <1>5 DEF Waits

LEMMA AppendInTurn ==
  ASSUME NEW q \in Seq(Requests), NEW r \in Requests, InTurn(q),
         r.kind \in {"consume", "establish"} => ~Waits(q, "consume"),
         r.kind = "establish" => ~Waits(q, "establish")
  PROVE  /\ InTurn(Append(q, r))
         /\ \A kind : Waits(Append(q, r), kind) => Waits(q, kind) \/ kind = r.kind
         /\ \A i \in DOMAIN Append(q, r) :
              (i \in DOMAIN q /\ Append(q, r)[i] = q[i]) \/ Append(q, r)[i] = r
  <1> DEFINE a == Append(q, r)
  <1>1. /\ \A i \in DOMAIN a :
             (i \in DOMAIN q /\ a[i] = q[i]) \/ (i = Len(q) + 1 /\ a[i] = r)
        /\ \A i \in DOMAIN q : i < Len(q) + 1
        /\ \A i \in DOMAIN a : i \in 1 .. Len(q) + 1
    <2>1. DOMAIN a = 1 .. Len(q) + 1 /\ DOMAIN q = 1 .. Len(q) /\ Len(q) \in Nat
      OBVIOUS
    <2>2. a[Len(q) + 1] = r /\ \A i \in 1 .. Len(q) : a[i] = q[i]
      OBVIOUS
    <2> HIDE DEF a
    <2>3. ASSUME NEW i \in DOMAIN a
          PROVE  (i \in DOMAIN q /\ a[i] = q[i]) \/ (i = Len(q) + 1 /\ a[i] = r)
      <3>1. i \in 1 .. Len(q) \/ i = Len(q) + 1
        BY <2>1
      <3> QED
        BY <2>1, <2>2, <3>1
    <2>4. \A i \in DOMAIN q : i < Len(q) + 1
      BY <2>1
    <2> QED
      BY <2>1, <2>3, <2>4
  <1> HIDE DEF a
  <1>2. \A kind : Waits(a, kind) => Waits(q, kind) \/ kind = r.kind
    BY <1>1 DEF Waits
  <1>3. ASSUME NEW i \in DOMAIN a, NEW j \in DOMAIN a, i < j
        PROVE  /\ ~(a[i].kind = "consume" /\ a[j].kind \in {"consume", "establish"})
               /\ ~(a[i].kind = "establish" /\ a[j].kind = "establish")
    <2>1. i \in DOMAIN q /\ a[i] = q[i]
      BY <1>1, <1>3
    <2>2. CASE j \in DOMAIN q /\ a[j] = q[j]
      BY <1>3, <2>1, <2>2 DEF InTurn
    <2>3. CASE a[j] = r
      BY <2>1, <2>3 DEF Waits
    <2> QED
      BY <1>1, <2>2, <2>3
  <1>4. InTurn(a)
    BY <1>3 DEF InTurn
  <1> QED
    BY <1>1, <1>2, <1>4 DEF a

-----------------------------------------------------------------------------
(* While an attempt is spent, no other waits to be.                        *)
LEMMA OwingAlone ==
  OneAtATime => (Owing # {} => ~Waits(queue, "consume") /\ ~Waits(queue, "establish"))
  BY DEF OneAtATime, Waits, Owing

(* What a move of an entry does to the sets it counts in.                  *)
LEMMA PhaseMove ==
  ASSUME TypeOK, NEW e \in Entries, NEW p, p # "new", phase' = [phase EXCEPT ![e] = p],
         IsFiniteSet({f \in Entries : phase[f] # "new"})
  PROVE  /\ \A f \in Entries : f # e => phase'[f] = phase[f]
         /\ phase'[e] = p
         /\ IsFiniteSet({f \in Entries : phase'[f] # "new"})
  <1>1. /\ \A f \in Entries : f # e => phase'[f] = phase[f]
        /\ phase'[e] = p
    BY DEF TypeOK
  <1>2. {f \in Entries : phase'[f] # "new"} = {f \in Entries : phase[f] # "new"} \cup {e}
    BY <1>1
  <1> QED
    BY <1>1, <1>2, FS_AddElement

(* Entries that stay where they are keep their order, behind a shorter     *)
(* chain too.                                                              *)
LEMMA OrderFrame ==
  ASSUME TypeOK, OneAtATime, UNCHANGED <<phase, up>>,
         UNCHANGED queue \/ (up /\ queue # <<>> /\ queue' = Tail(queue))
  PROVE  OneAtATime' /\ (Due' => Due)
  <1>0. queue \in Seq(Requests) /\ Working' = Working /\ Owing' = Owing
    BY DEF TypeOK, Requests, Working, Owing
  <1>1. CASE UNCHANGED queue
    BY <1>0, <1>1 DEF OneAtATime, Due
  <1>2. CASE up /\ queue # <<>> /\ queue' = Tail(queue)
    <2>1. InTurn(queue') /\ (\A kind : Waits(queue', kind) => Waits(queue, kind))
      BY <1>0, <1>2, TailInTurn DEF OneAtATime
    <2>2. \A i \in DOMAIN queue' : i + 1 \in DOMAIN queue /\ queue'[i] = queue[i + 1]
      BY <1>0, <1>2, TailInTurn DEF OneAtATime
    <2>3. \A i \in DOMAIN queue' :
            queue'[i].kind = "consume" => \E e \in Working \ Owing : queue'[i].of = {e}
      BY <2>2 DEF OneAtATime
    <2> QED
      BY <1>0, <1>2, <2>1, <2>3 DEF OneAtATime, Due
  <1> QED
    BY <1>1, <1>2

(* The answer of the spending puts one entry to work with nothing behind.  *)
LEMMA OrderConsume ==
  ASSUME TypeOK, OneAtATime, NEW e \in Entries, Consume(e)
  PROVE  OneAtATime' /\ (Due' => ConsumeOk(e)) /\ ~Due
  <1>0. /\ up /\ up' = up /\ queue # <<>> /\ Head(queue).kind = "consume" /\ Head(queue).of = {e}
        /\ queue' = Tail(queue)
        /\ \E p \in {"ended", "consumed"} :
             phase' = [phase EXCEPT ![e] = p] /\ (p = "consumed" => ConsumeOk(e))
    BY DEF Consume, ConsumeRefusedInMemory, ConsumeOk, ConsumeRefused, ConsumeFails, Consuming,
           Runs, Skip
  <1>1. PICK p \in {"ended", "consumed"} :
          phase' = [phase EXCEPT ![e] = p] /\ (p = "consumed" => ConsumeOk(e))
    BY <1>0
  <1>2. queue \in Seq(Requests)
    BY DEF TypeOK, Requests
  <1>3. /\ InTurn(queue') /\ Waits(queue, "consume")
        /\ ~Waits(queue', "consume") /\ ~Waits(queue', "establish")
    BY <1>0, <1>2, TailInTurn DEF OneAtATime
  <1>4. Owing = {}
    BY <1>3, OwingAlone
  <1>5. e \in Working /\ Working \subseteq {e}
    <2>1. 1 \in DOMAIN queue /\ queue[1] = Head(queue)
      BY <1>0, <1>2
    <2>2. PICK f \in Working \ Owing : queue[1].of = {f}
      BY <1>0, <2>1 DEF OneAtATime
    <2>3. f = e
      BY <1>0, <2>1, <2>2
    <2> QED
      BY <2>2, <2>3 DEF OneAtATime
  <1>6. /\ \A f \in Entries : f # e => phase'[f] = phase[f]
        /\ phase'[e] = p
        /\ IsFiniteSet({f \in Entries : phase'[f] # "new"})
    BY <1>1, PhaseMove DEF OneAtATime
  <1>7. Working' \subseteq {e} /\ Owing' \subseteq Working' /\ (Owing' # {} => p = "consumed")
    BY <1>5, <1>6 DEF Working, Owing
  <1>8. ~Waits(queue, "establish")
    <2>1. /\ 1 \in DOMAIN queue /\ queue[1] = Head(queue)
          /\ \A i \in DOMAIN queue : i = 1 \/ 1 < i
      BY <1>0, <1>2
    <2> QED
      BY <1>0, <2>1 DEF Waits, OneAtATime, InTurn
  <1> QED
    BY <1>0, <1>1, <1>3, <1>4, <1>6, <1>7, <1>8 DEF OneAtATime, Due, Waits

(* An entry that moves on, among those at work or out of their number,     *)
(* keeps the order; what it leaves in the chain is a cycle to come only    *)
(* when its own was.                                                       *)
LEMMA OrderMove ==
  ASSUME TypeOK, OneAtATime, UNCHANGED up, up,
         NEW e \in Entries, NEW p, p \notin {"new", "consuming"}, phase' = [phase EXCEPT ![e] = p],
         phase[e] # "consuming", e \notin Owing => e \notin Owing',
         \/ queue' = queue
         \/ \E kind \in {"abort", "complete"} : queue' = Append(queue, Request(kind, {e}))
         \/ e \in Owing /\ e \notin Owing' /\ queue' = Append(queue, Request("establish", {e}))
  PROVE  OneAtATime' /\ (Due' => Due)
  <1>0. queue \in Seq(Requests)
    BY DEF TypeOK, Requests
  <1>1. /\ \A f \in Entries : f # e => phase'[f] = phase[f]
        /\ phase'[e] = p
        /\ IsFiniteSet({f \in Entries : phase'[f] # "new"})
    BY PhaseMove DEF OneAtATime
  <1>2. /\ Working' \subseteq Working /\ Owing' \subseteq Owing
        /\ Working' \ Owing' = Working \ Owing
        /\ Owing \subseteq Working /\ Owing' \subseteq Working'
        /\ \A f \in Owing : f # e => f \in Owing'
    BY <1>1 DEF Working, Owing
  <1>3. CASE queue' = queue
    BY <1>1, <1>2, <1>3 DEF OneAtATime, Due
  <1>4. ASSUME NEW kind \in {"abort", "complete", "establish"},
               queue' = Append(queue, Request(kind, {e})),
               kind = "establish" => e \in Owing /\ e \notin Owing'
        PROVE  OneAtATime' /\ (Due' => Due)
    <2> DEFINE r == Request(kind, {e})
    <2>1. r \in Requests /\ r.kind = kind
      BY DEF Request, Requests
    <2>2. kind = "establish" => ~Waits(queue, "consume") /\ ~Waits(queue, "establish")
      BY <1>4, OwingAlone
    <2> HIDE DEF r
    <2>3. /\ InTurn(queue')
          /\ \A k : Waits(queue', k) => Waits(queue, k) \/ k = kind
          /\ \A i \in DOMAIN queue' :
               (i \in DOMAIN queue /\ queue'[i] = queue[i]) \/ queue'[i] = r
      <3>1. queue' = Append(queue, r)
        BY <1>4 DEF r
      <3> QED
        BY <1>0, <2>1, <2>2, <3>1, AppendInTurn DEF OneAtATime
    <2>4. \A i \in DOMAIN queue' :
            queue'[i].kind = "consume" => \E f \in Working' \ Owing' : queue'[i].of = {f}
      BY <1>2, <2>1, <2>3 DEF OneAtATime
    <2>5. kind = "establish" => Owing' = {}
      BY <1>2, <1>4 DEF OneAtATime
    <2>6. Owing' # {} => ~Waits(queue', "establish")
      BY <1>2, <2>3, <2>5 DEF OneAtATime
    <2>7. Due' => Due
      BY <1>2, <1>4, <2>3 DEF Due
    <2> QED
      BY <1>1, <1>2, <2>3, <2>4, <2>6, <2>7 DEF OneAtATime
  <1> QED
    BY <1>3, <1>4

(* With one box at a time, a claim finds no entry at work.                 *)
LEMMA OrderClaim ==
  ASSUME MaxOpenBoxes = 1, TypeOK, OneAtATime, NEW e \in Entries, CoordinateEntry(e)
  PROVE  OneAtATime' /\ (Due' => Due)
  <1>0. /\ queue \in Seq(Requests) /\ phase' = [phase EXCEPT ![e] = "consuming"] /\ up /\ up' = up
        /\ queue' = Append(queue, Request("consume", {e}))
        /\ Cardinality(BoxInventory) < 1
    BY DEF TypeOK, Requests, CoordinateEntry, Enqueue, Within, Turn
  <1>1. BoxInventory = {}
    <2>1. BoxInventory \subseteq {f \in Entries : phase[f] # "new"}
      BY DEF BoxInventory, InBook
    <2>2. IsFiniteSet(BoxInventory)
      BY <2>1, FS_Subset DEF OneAtATime
    <2> QED
      BY <1>0, <2>2, FS_EmptySet, FS_CardinalityType
  <1>2. Working = {} /\ Owing = {}
    BY <1>1 DEF BoxInventory, Working, Owing
  <1>3. /\ \A f \in Entries : f # e => phase'[f] = phase[f]
        /\ phase'[e] = "consuming"
        /\ IsFiniteSet({f \in Entries : phase'[f] # "new"})
    BY <1>0, PhaseMove DEF OneAtATime
  <1>4. Working' = {e} /\ Owing' = {}
    BY <1>2, <1>3 DEF Working, Owing
  <1>5. ~Waits(queue, "consume")
    BY <1>2 DEF OneAtATime, Waits
  <1>6. Request("consume", {e}) \in Requests /\ Request("consume", {e}).kind = "consume"
        /\ Request("consume", {e}).of = {e}
    BY DEF Request, Requests
  <1>7. /\ InTurn(queue')
        /\ \A k : Waits(queue', k) => Waits(queue, k) \/ k = "consume"
        /\ \A i \in DOMAIN queue' :
             (i \in DOMAIN queue /\ queue'[i] = queue[i]) \/ queue'[i] = Request("consume", {e})
    BY <1>0, <1>5, <1>6, AppendInTurn DEF OneAtATime
  <1>8. \A i \in DOMAIN queue' :
          queue'[i].kind = "consume" => \E f \in Working' \ Owing' : queue'[i].of = {f}
    BY <1>4, <1>5, <1>6, <1>7 DEF Waits
  <1> QED
    BY <1>0, <1>2, <1>3, <1>4, <1>7, <1>8 DEF OneAtATime, Due

(* The rest of the life of an entry.                                       *)
LEMMA OrderEntry ==
  ASSUME MaxOpenBoxes = 1, TypeOK, OneAtATime, NEW e \in Entries, Entry(e)
  PROVE  OneAtATime' /\ (Due' => Due)
  <1>1. CASE CoordinateEntry(e)
    BY <1>1, OrderClaim
  <1>2. ASSUME Entry(e), ~CoordinateEntry(e)
        PROVE  /\ up /\ UNCHANGED up /\ phase[e] # "consuming"
               /\ \E p \in {"admitted", "hedged", "filled", "ended", "inserted", "retained", "open",
                            "shut", "closed"} :
                    /\ phase' = [phase EXCEPT ![e] = p]
                    /\ \/ phase[e] \in {"consumed", "admitted", "hedged", "filled", "inserted"}
                       \/ p \in {"open", "shut", "closed"}
               /\ \/ queue' = queue
                  \/ \E kind \in {"abort", "complete"} : queue' = Append(queue, Request(kind, {e}))
                  \/ /\ phase[e] = "inserted" /\ phase' = [phase EXCEPT ![e] = "open"]
                     /\ queue' = Append(queue, Request("establish", {e}))
    <2>1. CASE Admitted(e)
      BY <2>1 DEF Admitted, chainVars
    <2>2. CASE Post(e)
      BY <2>2 DEF Post, Turn, chainVars
    <2>3. CASE AbortEntry(e)
      BY <2>3 DEF AbortEntry, Turn, Enqueue
    <2>4. CASE InsertTrade(e)
      BY <2>4 DEF InsertTrade, Turn, chainVars
    <2>5. CASE RetainOwnedExecution(e)
      BY <2>5 DEF RetainOwnedExecution, Turn, chainVars
    <2>6. CASE DrainOwnedExecution(e)
      BY <2>6 DEF DrainOwnedExecution, Turn, chainVars
    <2>7. CASE OpenPosition(e)
      BY <2>7 DEF OpenPosition, Turn, Enqueue
    <2>8. CASE CloseTrade(e)
      BY <2>8 DEF CloseTrade, Turn, chainVars
    <2>9. CASE RemovePosition(e)
      BY <2>9 DEF RemovePosition, Turn, Enqueue
    <2> QED
      BY <1>2, <2>1, <2>2, <2>3, <2>4, <2>5, <2>6, <2>7, <2>8, <2>9 DEF Entry
  <1>3. CASE ~CoordinateEntry(e)
    <2>1. PICK p \in {"admitted", "hedged", "filled", "ended", "inserted", "retained", "open",
                      "shut", "closed"} :
            /\ phase' = [phase EXCEPT ![e] = p]
            /\ \/ phase[e] \in {"consumed", "admitted", "hedged", "filled", "inserted"}
               \/ p \in {"open", "shut", "closed"}
      BY <1>2, <1>3
    <2>2. phase'[e] = p
      BY <2>1 DEF TypeOK
    <2>3. e \notin Owing => e \notin Owing'
      BY <2>1, <2>2 DEF Owing, Working
    <2>4. \/ queue' = queue
          \/ \E kind \in {"abort", "complete"} : queue' = Append(queue, Request(kind, {e}))
          \/ e \in Owing /\ e \notin Owing' /\ queue' = Append(queue, Request("establish", {e}))
      <3>1. phase[e] = "inserted" /\ phase' = [phase EXCEPT ![e] = "open"] =>
              e \in Owing /\ e \notin Owing'
        BY DEF TypeOK, Owing, Working
      <3> QED
        BY <1>2, <1>3, <3>1
    <2>5. p \notin {"new", "consuming"}
      OBVIOUS
    <2> QED
      BY <1>2, <1>3, <2>1, <2>3, <2>4, <2>5, OrderMove
  <1> QED
    BY <1>1, <1>3

(* A request of the operator is none of an entry.                          *)
LEMMA OrderOperator ==
  ASSUME TypeOK, OneAtATime, ArmTradingSession \/ DisarmTradingSession \/ ReconcileLive
  PROVE  OneAtATime' /\ (Due' => Due)
  <1>0. /\ queue \in Seq(Requests) /\ up /\ UNCHANGED <<phase, up>>
        /\ \E kind \in {"arm", "disarm", "retry"} : queue' = Append(queue, Request(kind, {}))
    BY DEF TypeOK, Requests, ArmTradingSession, DisarmTradingSession, ReconcileLive, Operator,
           Enqueue, Turn, entryVars
  <1>1. PICK kind \in {"arm", "disarm", "retry"} : queue' = Append(queue, Request(kind, {}))
    BY <1>0
  <1>2. Request(kind, {}) \in Requests /\ Request(kind, {}).kind = kind
    BY DEF Request, Requests
  <1>3. /\ InTurn(queue')
        /\ \A k : Waits(queue', k) => Waits(queue, k) \/ k = kind
        /\ \A i \in DOMAIN queue' :
             (i \in DOMAIN queue /\ queue'[i] = queue[i]) \/ queue'[i] = Request(kind, {})
    BY <1>0, <1>1, <1>2, AppendInTurn DEF OneAtATime
  <1>4. Working' = Working /\ Owing' = Owing
    BY <1>0 DEF Working, Owing
  <1>5. \A i \in DOMAIN queue' :
          queue'[i].kind = "consume" => \E f \in Working \ Owing : queue'[i].of = {f}
    BY <1>2, <1>3 DEF OneAtATime
  <1> QED
    BY <1>0, <1>3, <1>4, <1>5 DEF OneAtATime, Due

(* No entry is at work after a crash.                                      *)
LEMMA OrderBoot ==
  ASSUME TypeOK, OneAtATime, Crash \/ Initialise \/ InitialiseFails
  PROVE  OneAtATime' /\ ~Due'
  <1>1. CASE Crash
    <2>1. /\ phase' = [e \in Entries |-> Surviving(phase[e])]
          /\ queue' = <<>> /\ up' = FALSE
      BY <1>1 DEF Crash
    <2>2. \A e \in Entries : /\ phase'[e] = "new" <=> phase[e] = "new"
                             /\ phase'[e] \in {"new", "open", "closed", "ended"}
      BY <2>1 DEF Surviving
    <2>3. Working' = {} /\ Owing' = {}
      BY <2>2 DEF Working, Owing
    <2>4. {e \in Entries : phase'[e] # "new"} = {e \in Entries : phase[e] # "new"}
      BY <2>2
    <2>5. InTurn(queue') /\ ~Waits(queue', "consume") /\ ~Waits(queue', "establish")
      BY <2>1 DEF InTurn, Waits
    <2> QED
      BY <2>1, <2>3, <2>4, <2>5 DEF OneAtATime, Waits, Due
  <1>2. CASE Initialise \/ InitialiseFails
    <2>1. ~up /\ queue = <<>> /\ Working = {} /\ UNCHANGED phase /\ up'
      BY <1>2 DEF Initialise, InitialiseFails, entryVars, OneAtATime
    <2>2. Working' = {} /\ Owing' = {}
      BY <2>1 DEF Working, Owing
    <2>3. queue' = <<>> \/ \E r : queue' = <<r>> /\ r.kind = "reconcile"
      <3>1. CASE Initialise
        <4> DEFINE flat == {e \in mem'.established \ mem'.completed : phase[e] = "closed"}
        <4>1. queue' = IF flat = {} THEN <<>> ELSE <<Request("reconcile", flat)>>
          BY <3>1 DEF Initialise
        <4>2. Request("reconcile", flat).kind = "reconcile"
          BY DEF Request
        <4> QED
          BY <4>1, <4>2
      <3>2. CASE InitialiseFails
        BY <2>1, <3>2 DEF InitialiseFails
      <3> QED
        BY <1>2, <3>1, <3>2
    <2>4. InTurn(queue') /\ ~Waits(queue', "consume") /\ ~Waits(queue', "establish")
      <3>1. CASE queue' = <<>>
        BY <3>1 DEF InTurn, Waits
      <3>2. ASSUME NEW r, queue' = <<r>>, r.kind = "reconcile"
            PROVE  InTurn(queue') /\ ~Waits(queue', "consume") /\ ~Waits(queue', "establish")
        <4>1. \A i \in DOMAIN queue' : queue'[i].kind = "reconcile"
          BY <3>2
        <4> QED
          BY <4>1 DEF InTurn, Waits
      <3> QED
        BY <2>3, <3>1, <3>2
    <2> QED
      BY <2>1, <2>2, <2>4 DEF OneAtATime, Due, Waits
  <1> QED
    BY <1>1, <1>2

-----------------------------------------------------------------------------
(* Room for one cycle more is room.                                        *)
LEMMA FitsLess ==
  ASSUME NEW s, Fits(s, 1)
  PROVE  Fits(s, 0)
  BY FS_CardinalityType, SessionLimits DEF Fits

LEMMA NothingFits ==
  ASSUME MaxCompletedTrades > 0
  PROVE  Fits({}, 0) /\ Fits({}, 1)
  BY FS_EmptySet, SessionLimits DEF Fits

(* A step that brings no cycle to come and counts none keeps the room.     *)
LEMMA RoomFrame ==
  ASSUME Roomy, Due' => Due,
         \/ mem'.established = mem.established
         \/ saving # None /\ mem'.established = saving.before.established,
         row' # None =>
           \/ row # None /\ row'.established = row.established
           \/ row'.established = mem.established,
         saving' # None => (saving # None /\ saving' = saving) \/ saving'.before = mem
  PROVE  Roomy'
  <1>0. /\ Fits(mem.established, 0) /\ (Due => Fits(mem.established, 1))
        /\ saving # None =>
             /\ Fits(saving.before.established, 0)
             /\ Due => Fits(saving.before.established, 1)
    BY FitsLess DEF Roomy
  <1>1. row' # None => Fits(row'.established, 0)
    BY <1>0 DEF Roomy
  <1>2. Fits(mem'.established, IF Due' THEN 1 ELSE 0)
    BY <1>0
  <1>3. saving' # None => Fits(saving'.before.established, IF Due' THEN 1 ELSE 0)
    BY <1>0
  <1> QED
    BY <1>1, <1>2, <1>3 DEF Roomy, Fits

(* A mutation counts the cycle there was room for, or none.                *)
LEMMA RoomMutation ==
  ASSUME MaxCompletedTrades > 0, IInv, OneAtATime, Roomy, Mutation
  PROVE  OneAtATime' /\ Roomy'
  <1>0. /\ up /\ queue # <<>> /\ UNCHANGED <<phase, up, row>> /\ saving = None
        /\ queue' = Tail(queue)
        /\ TypeOK /\ mem \in Record /\ queue \in Seq(Requests)
    BY DEF IInv, TypeOK, Requests, Mutation, Arm, Disarm, RecordEstablished, RetryPendingWrite,
           RecordCompleted, ReconcileCompletions, RecordAborted, Runs, Mutates, Skip, Commit, entryVars
  <1>1. OneAtATime' /\ (Due' => Due)
    BY <1>0, OrderFrame
  <1>2. ASSUME Skip PROVE Roomy'
    BY <1>0, <1>1, <1>2, RoomFrame DEF Skip
  <1>3. ASSUME NEW next, NEW rollback, NEW claims, Commit(next, rollback, claims),
               next.established = mem.established
        PROVE  Roomy'
    BY <1>0, <1>1, <1>3, RoomFrame DEF Commit
  <1>4. CASE Arm
    <2>1. CASE Skip
      BY <1>1, <1>2, <2>1
    <2>2. ASSUME NEW s, Commit(ArmSession(s), TRUE, TRUE) PROVE Roomy'
      <3>1. mem'.established = {} /\ saving'.before = mem
        BY <2>2 DEF Commit, ArmSession, Idle
      <3>2. Fits(mem'.established, IF Due' THEN 1 ELSE 0)
        BY <3>1, NothingFits
      <3>3. Fits(mem.established, IF Due' THEN 1 ELSE 0)
        BY <1>1, FitsLess DEF Roomy
      <3> QED
        BY <1>0, <3>1, <3>2, <3>3 DEF Roomy, Fits
    <2> QED
      BY <1>1, <1>4, <2>1, <2>2 DEF Arm
  <1>5. CASE RecordEstablished
    <2>1. PICK e \in Head(queue).of : Commit(RecordEstablishedBox(mem, e), FALSE, FALSE) \/ Skip
      BY <1>5 DEF RecordEstablished
    <2>2. CASE Commit(RecordEstablishedBox(mem, e), FALSE, FALSE)
      <3>1. /\ mem'.established = mem.established \cup {e} /\ saving'.before = mem
        BY <1>0, <2>2 DEF Commit, RecordEstablishedBox, Record
      <3>2. Head(queue).kind = "establish"
        BY <1>5 DEF RecordEstablished, Runs
      <3>3. Waits(queue, "establish") /\ ~Waits(queue', "establish")
        BY <1>0, <3>2, TailInTurn DEF OneAtATime
      <3>4. Owing' = {}
        BY <1>0, <3>3 DEF OneAtATime, Owing, Working
      <3>5. ~Due' /\ Fits(mem.established, 1)
        BY <3>3, <3>4 DEF Due, Roomy
      <3>6. Fits(mem.established \cup {e}, 0)
        <4>1. /\ IsFiniteSet(mem.established) /\ Cardinality(mem.established) \in Nat
              /\ Cardinality(mem.established) + 1 <= MaxCompletedTrades
          BY <3>5, FS_CardinalityType DEF Fits
        <4>2. /\ IsFiniteSet(mem.established \cup {e})
              /\ \/ Cardinality(mem.established \cup {e}) = Cardinality(mem.established)
                 \/ Cardinality(mem.established \cup {e}) = Cardinality(mem.established) + 1
          BY <4>1, FS_AddElement
        <4> QED
          BY <4>1, <4>2, SessionLimits DEF Fits
      <3>7. Fits(mem.established, 0)
        BY <3>5, FitsLess
      <3> QED
        BY <1>0, <1>1, <3>1, <3>5, <3>6, <3>7 DEF Roomy, Fits
    <2> QED
      BY <1>1, <1>2, <2>1, <2>2
  <1>6. CASE Mutation /\ ~Arm /\ ~RecordEstablished
    <2>1. /\ DisarmSession(mem).established = mem.established
          /\ \A boxes : RecordCompletedBoxes(mem, boxes).established = mem.established
      BY <1>0 DEF DisarmSession, RecordCompletedBoxes, Record
    <2> QED
      BY <1>1, <1>2, <1>3, <1>6, <2>1 DEF Mutation, Disarm, RetryPendingWrite, RecordCompleted,
         ReconcileCompletions, RecordAborted
  <1> QED
    BY <1>4, <1>5, <1>6

(* An attempt is spent only while there is room for its cycle.             *)
LEMMA RoomConsume ==
  ASSUME MaxCompletedTrades > 0, IInv, OneAtATime, Roomy, NEW e \in Entries, Consume(e)
  PROVE  OneAtATime' /\ Roomy'
  <1>0. /\ TypeOK /\ mem \in Record /\ (row # None => row \in Record)
        /\ saving = None /\ saving' = None
    BY DEF IInv, TypeOK, Consume, ConsumeRefusedInMemory, ConsumeOk, ConsumeRefused, ConsumeFails,
           Consuming, Runs, Skip
  <1>1. OneAtATime' /\ (Due' => ConsumeOk(e))
    BY <1>0, OrderConsume
  <1>2. mem'.established = mem.established
    BY <1>0 DEF Consume, ConsumeRefusedInMemory, ConsumeOk, ConsumeRefused, ConsumeFails, Skip, Record
  <1>3. row' # None => row # None /\ row'.established = row.established
    <2>1. row' = row \/ (row # None /\ row' = Spent)
      BY DEF Consume, ConsumeRefusedInMemory, ConsumeOk, ConsumeRefused, ConsumeFails, Spendable
    <2> QED
      BY <2>1, SpentKeeps
  <1>4. Due' => Fits(mem.established, 1)
    <2>1. ASSUME ConsumeOk(e) PROVE Cardinality(mem.established) < MaxCompletedTrades
      BY <2>1 DEF ConsumeOk, MemoryAllows, SessionAllows, Within
    <2>2. IsFiniteSet(mem.established) /\ Cardinality(mem.established) \in Nat
      BY FS_CardinalityType DEF Roomy, Fits
    <2> QED
      BY <1>1, <2>1, <2>2, SessionLimits DEF Fits
  <1>5. Fits(mem.established, 0)
    BY FitsLess DEF Roomy
  <1> QED
    BY <1>0, <1>1, <1>2, <1>3, <1>4, <1>5 DEF Roomy, Fits

(* Memory starts from a row within its ceiling.                            *)
LEMMA RoomBoot ==
  ASSUME MaxCompletedTrades > 0, IInv, OneAtATime, Roomy, Crash \/ Initialise \/ InitialiseFails
  PROVE  OneAtATime' /\ Roomy'
  <1>1. OneAtATime' /\ ~Due'
    BY OrderBoot DEF IInv
  <1>2. saving' = None
    BY DEF IInv, Recorded, SaveSound, Crash, Initialise, InitialiseFails
  <1>3. row' # None => Fits(row'.established, 0)
    <2>1. Fits(mem.established, 0)
      BY FitsLess DEF Roomy
    <2>2. row' = row \/ (saving # None /\ row' = Saved)
      BY DEF Crash, Initialise, InitialiseFails
    <2> QED
      BY <2>1, <2>2, SavedKeeps DEF Roomy
  <1>4. mem' = Idle \/ mem' = mem \/ (mem' = row' /\ row' # None)
    <2>1. CASE Crash
      BY <2>1 DEF Crash
    <2>2. CASE Initialise
      BY <2>2 DEF Initialise
    <2>3. CASE InitialiseFails
      BY <2>3 DEF InitialiseFails
    <2> QED
      BY <2>1, <2>2, <2>3
  <1>5. Fits(mem'.established, 0)
    <2>1. CASE mem' = Idle
      BY <2>1, NothingFits DEF Idle
    <2>2. CASE mem' = mem
      BY <2>2, FitsLess DEF Roomy
    <2> QED
      BY <1>3, <1>4, <2>1, <2>2
  <1> QED
    BY <1>1, <1>2, <1>3, <1>5 DEF Roomy, Fits

LEMMA FileStep ==
  ASSUME MaxOpenBoxes = 1, MaxCompletedTrades > 0, IInv, SingleFile, [Next]_vars
  PROVE  SingleFile'
  <1>0. TypeOK /\ OneAtATime /\ Roomy
    BY DEF IInv, SingleFile
  <1>1. CASE UNCHANGED vars
    <2>1. OneAtATime' /\ (Due' => Due)
      BY <1>0, <1>1, OrderFrame DEF vars
    <2> QED
      BY <1>0, <1>1, <2>1, RoomFrame DEF vars, SingleFile
  <1>2. CASE Mutation
    BY <1>0, <1>2, RoomMutation DEF SingleFile
  <1>3. CASE SaveLands \/ \E lost \in BOOLEAN : SaveFails(lost)
    <2>1. /\ UNCHANGED <<phase, up, queue>> /\ saving # None /\ saving' = None
          /\ row' = row \/ row' = Saved
          /\ mem' = mem \/ mem' = saving.before
      BY <1>3 DEF SaveLands, SaveFails, entryVars
    <2>2. OneAtATime' /\ (Due' => Due)
      BY <1>0, <2>1, OrderFrame
    <2> QED
      BY <1>0, <2>1, <2>2, SavedKeeps, RoomFrame DEF SingleFile
  <1>4. ASSUME NEW e \in Entries, Consume(e) PROVE SingleFile'
    BY <1>0, <1>4, RoomConsume DEF SingleFile
  <1>5. ASSUME NEW e \in Entries, Entry(e) PROVE SingleFile'
    <2>1. OneAtATime' /\ (Due' => Due)
      BY <1>0, <1>5, OrderEntry
    <2> QED
      BY <1>0, <1>5, <2>1, EntryType, RoomFrame DEF SingleFile
  <1>6. CASE OtherConsumes
    <2>1. UNCHANGED <<phase, up, queue, mem, saving>> /\ row # None /\ row' = Spent
      BY <1>6 DEF OtherConsumes, Spendable, chainVars
    <2>2. OneAtATime' /\ (Due' => Due)
      BY <1>0, <2>1, OrderFrame
    <2> QED
      BY <1>0, <2>1, <2>2, SpentKeeps, RoomFrame DEF SingleFile
  <1>7. CASE ArmTradingSession \/ DisarmTradingSession \/ ReconcileLive
    <2>1. OneAtATime' /\ (Due' => Due)
      BY <1>0, <1>7, OrderOperator
    <2> QED
      BY <1>0, <1>7, <2>1, OperatorType, RoomFrame DEF SingleFile
  <1>8. CASE Crash \/ Initialise \/ InitialiseFails
    BY <1>0, <1>8, RoomBoot DEF SingleFile
  <1> QED
    BY <1>1, <1>2, <1>3, <1>4, <1>5, <1>6, <1>7, <1>8 DEF Next

LEMMA InitSingleFile == MaxCompletedTrades > 0 /\ Init => SingleFile
  <1> SUFFICES ASSUME MaxCompletedTrades > 0, Init PROVE SingleFile
    OBVIOUS
  <1>1. Working = {} /\ Owing = {} /\ {e \in Entries : phase[e] # "new"} = {}
    BY DEF Init, Working, Owing
  <1>2. queue = <<>> /\ ~up /\ row = None /\ saving = None /\ mem.established = {}
    BY DEF Init, Idle
  <1>3. InTurn(queue) /\ ~Waits(queue, "consume") /\ ~Waits(queue, "establish")
    BY <1>2 DEF InTurn, Waits
  <1>4. OneAtATime
    BY <1>1, <1>2, <1>3, FS_EmptySet DEF OneAtATime, Waits
  <1>5. Roomy
    BY <1>1, <1>2, <1>3, NothingFits DEF Roomy, Due
  <1> QED
    BY <1>4, <1>5 DEF SingleFile

(* With one box at a time, no session establishes more boxes than its      *)
(* ceiling: the box of one entry is counted before the attempt of the      *)
(* next is spent, and an attempt is spent only where there is room         *)
(* (recordEstablished, recordAttemptStarted).                              *)
THEOREM CyclesNeverExceeded == MaxOpenBoxes = 1 => (Spec => []CyclesWithinBudget)
  <1> SUFFICES ASSUME MaxOpenBoxes = 1 PROVE Spec => []CyclesWithinBudget
    OBVIOUS
  <1>1. CASE MaxCompletedTrades > 0
    <2>1. Init => IInv /\ SingleFile
      BY <1>1, InitIInv, InitSingleFile
    <2>2. IInv /\ SingleFile /\ [Next]_vars => IInv' /\ SingleFile'
      BY <1>1, Step, FileStep
    <2>3. SingleFile => CyclesWithinBudget
      <3>1. ASSUME SingleFile PROVE Fits(mem.established, 0)
        BY <3>1, FitsLess DEF SingleFile, Roomy
      <3>2. ASSUME Fits(mem.established, 0)
            PROVE  Cardinality(mem.established) <= MaxCompletedTrades
        BY <3>2, FS_CardinalityType DEF Fits
      <3> QED
        BY <3>1, <3>2 DEF CyclesWithinBudget
    <2> QED
      BY <2>1, <2>2, <2>3, PTL DEF Spec
  <1>2. CASE ~(MaxCompletedTrades > 0)
    <2>1. CyclesWithinBudget
      BY <1>2 DEF CyclesWithinBudget
    <2> QED
      BY <2>1, PTL
  <1> QED
    BY <1>1, <1>2
=============================================================================
