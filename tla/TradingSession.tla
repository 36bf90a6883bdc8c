---------------------------- MODULE TradingSession ----------------------------
(***************************************************************************)
(* The armed trading session (src/src/box/tradingSession.ts and            *)
(* tradingSessionStore.ts), its durable row (repository.ts) and the life   *)
(* of the entries it bounds (engine.ts, the admission of                   *)
(* executionCoordinator.ts).                                               *)
(*                                                                         *)
(* One process works on one durable row.  Every mutation of the record in  *)
(* memory runs in a promise chain, one after the other; most write the     *)
(* whole row and wait for the answer with the new record already visible   *)
(* in memory, and are undone in memory, or kept and flagged, when the      *)
(* write fails.  The spending of an entry attempt is one conditional       *)
(* UPDATE instead.  A failed write may have taken effect (its answer was   *)
(* lost), the process may die and restart between any two steps, and       *)
(* another manager of the same row may spend attempts beside this one.     *)
(*                                                                         *)
(* Left out: recoveryActive and the gates of the coordinator that are      *)
(* other components' (they only refuse), the count of aborted attempts,    *)
(* and ceilings that differ from one arming to the next.                   *)
(***************************************************************************)
EXTENDS Integers, Sequences, FiniteSets

CONSTANTS
  Sessions,            \* ids that armings mint
  Entries,             \* entry attempts; a box bears the id of its entry
  None,                \* no session, no row, no save
  MaxCompletedTrades,  \* boxes a session may establish, 0 for no limit
  MaxEntryAttempts,    \* attempts a session may start, 0 for no limit
  MaxOpenBoxes,        \* BOX_MAX_OPEN_BOXES, 0 for no limit
  OtherManagers,       \* whether another manager spends attempts too
  InsertFails,         \* whether the insert of a filled box may fail
  MaxCrashes,          \* bound on crashes
  MaxFaults            \* bound on database calls that fail

ASSUME SessionLimits ==
  /\ MaxCompletedTrades \in Nat
  /\ MaxEntryAttempts \in Nat
  /\ MaxOpenBoxes \in Nat
  /\ {OtherManagers, InsertFails} \subseteq BOOLEAN
  /\ None \notin Sessions

VARIABLES
  row,          \* the durable record, None before the first save
  mem,          \* the manager's record
  loaded,       \* whether the row was read at boot
  writeFailed,  \* a consumption that could not be persisted
  queue,        \* mutations waiting in the chain
  saving,       \* the save under way: what to return to and how
  authorised,   \* entryAuthorizedSessionId of the engine
  phase,        \* where each entry is
  auth,         \* the session whose budget each entry spent
  minted,       \* session ids in use
  started,      \* attempts started under each session, by any manager
  revived,      \* history: sessions memory was undone to after another's arming landed
  up,           \* whether the process runs
  crashes, faults

entryVars == <<phase, auth, authorised, started>>
chainVars == <<mem, writeFailed, queue, saving>>
otherVars == <<revived, crashes, faults>>
vars == <<row, mem, loaded, writeFailed, queue, saving, authorised, phase, auth, minted, started,
          revived, up, crashes, faults>>

Phases ==
  {"new", "consuming", "consumed", "admitted", "hedged", "filled", "inserted", "retained",
   "open", "shut", "closed", "ended"}

Record ==
  [session_id : Sessions \cup {None}, armed : BOOLEAN, established : SUBSET Entries,
   completed : SUBSET Entries, entry_attempts : Nat]

\* A save that awaits its answer: the record it would be undone to, whether it is undone
\* when it fails, and whether it claims the row for a new session.
Saves == [before : Record, rollback : BOOLEAN, claims : BOOLEAN]

ASSUME NoneIsNoRecord == None \notin Record \cup Saves

Idle ==
  [session_id |-> None, armed |-> FALSE, established |-> {}, completed |-> {}, entry_attempts |-> 0]

Init ==
  /\ row = None
  /\ mem = Idle
  /\ loaded = FALSE
  /\ writeFailed = FALSE
  /\ queue = <<>>
  /\ saving = None
  /\ authorised = None
  /\ phase = [e \in Entries |-> "new"]
  /\ auth = [e \in Entries |-> None]
  /\ minted = {}
  /\ started = [s \in Sessions |-> 0]
  /\ revived = {}
  /\ up = FALSE
  /\ crashes = 0
  /\ faults = 0

-----------------------------------------------------------------------------
(* The pure state machine. *)

Within(spent, max) == max = 0 \/ spent < max

\* Mutant of SessionAllows: only the attempt ceiling is asked.
SessionAllowsAttempts(r) ==
  /\ r.armed
  /\ Within(r.entry_attempts, MaxEntryAttempts)

\* evaluateSessionEntry.
SessionAllows(r) ==
  /\ r.armed
  /\ Within(Cardinality(r.established), MaxCompletedTrades)
  /\ Within(r.entry_attempts, MaxEntryAttempts)

CanArm(r) == r.established \subseteq r.completed

ArmSession(s) == [Idle EXCEPT !.session_id = s, !.armed = TRUE]

DisarmSession(r) == [r EXCEPT !.armed = FALSE]

RecordEstablishedBox(r, e) == [r EXCEPT !.established = @ \cup {e}]

RecordCompletedBoxes(r, boxes) == [r EXCEPT !.completed = @ \cup (boxes \cap r.established)]

-----------------------------------------------------------------------------
(* The process: turns, the chain of mutations, saves. *)

\* Between the answer of a spent attempt and its caller only queued mutations get a turn.
Turn == up /\ \A e \in Entries : phase[e] # "consumed"

Request(kind, boxes) == [kind |-> kind, of |-> boxes]

Enqueue(kind, boxes) ==
  /\ queue' = Append(queue, Request(kind, boxes))
  /\ UNCHANGED <<mem, writeFailed, saving>>

\* The head of the chain, when no save is under way.
Runs(kind) == up /\ saving = None /\ queue # <<>> /\ Head(queue).kind = kind

\* A mutation that leaves the record alone.
Skip ==
  /\ queue' = Tail(queue)
  /\ UNCHANGED <<mem, writeFailed, saving>>

\* The first half of commit: the record changes in memory and the save is sent.
Commit(next, rollback, claims) ==
  /\ mem' = next
  /\ saving' = [before |-> mem, rollback |-> rollback, claims |-> claims]
  /\ queue' = Tail(queue)
  /\ UNCHANGED writeFailed

\* Mutant of Saved: every save writes the counter it has in memory.
SavedWhole == mem

\* The row a save writes: the attempt counter stays the durable one unless claimed.
Saved ==
  IF row = None \/ saving.claims THEN mem ELSE [mem EXCEPT !.entry_attempts = row.entry_attempts]

SaveLands ==
  /\ Turn /\ saving # None
  /\ row' = Saved
  /\ saving' = None
  /\ writeFailed' = FALSE
  /\ UNCHANGED <<mem, queue, loaded, minted, up, entryVars, otherVars>>

\* The save throws; when only its answer was lost the row has changed all the same.
SaveFails(lost) ==
  /\ Turn /\ saving # None
  /\ faults < MaxFaults /\ faults' = faults + 1
  /\ row' = IF lost THEN Saved ELSE row
  /\ mem' = IF saving.rollback THEN saving.before ELSE mem
  /\ writeFailed' = (writeFailed \/ ~saving.rollback)
  /\ saving' = None
  /\ revived' = IF lost /\ saving.claims THEN revived \cup {saving.before.session_id} ELSE revived
  /\ UNCHANGED <<queue, loaded, minted, up, crashes, entryVars>>

\* A mutation changes nothing but the record, its flag and the chain.
Mutates == UNCHANGED <<row, loaded, up, entryVars, otherVars>>

Arm ==
  /\ Runs("arm")
  /\ \/ /\ CanArm(mem)
        /\ \E s \in Sessions \ minted :
             /\ minted' = minted \cup {s}
             /\ Commit(ArmSession(s), TRUE, TRUE)
     \/ ~CanArm(mem) /\ Skip /\ UNCHANGED minted
  /\ Mutates

Disarm ==
  /\ Runs("disarm")
  /\ Commit(DisarmSession(mem), TRUE, FALSE)
  /\ Mutates /\ UNCHANGED minted

\* Mutant of RecordEstablished: a failed write is rolled back like any other.
RecordEstablishedRolledBack ==
  /\ Runs("establish")
  /\ \E e \in Head(queue).of :
       LET next == RecordEstablishedBox(mem, e) IN
         \/ /\ loaded /\ mem.armed /\ (next # mem \/ writeFailed)
            /\ Commit(next, TRUE, FALSE)
         \/ /\ ~loaded \/ ~mem.armed \/ (next = mem /\ ~writeFailed)
            /\ Skip
  /\ Mutates /\ UNCHANGED minted

\* No rollback: the box exists whether or not the write lands.
RecordEstablished ==
  /\ Runs("establish")
  /\ \E e \in Head(queue).of :
       LET next == RecordEstablishedBox(mem, e) IN
         \/ /\ loaded /\ mem.armed /\ (next # mem \/ writeFailed)
            /\ Commit(next, FALSE, FALSE)
         \/ /\ ~loaded \/ ~mem.armed \/ (next = mem /\ ~writeFailed)
            /\ Skip
  /\ Mutates /\ UNCHANGED minted

RetryPendingWrite ==
  /\ Runs("retry")
  /\ \/ writeFailed /\ Commit(mem, FALSE, FALSE)
     \/ ~writeFailed /\ Skip
  /\ Mutates /\ UNCHANGED minted

RecordCompleted ==
  /\ Runs("complete")
  /\ LET next == RecordCompletedBoxes(mem, Head(queue).of) IN
       \/ loaded /\ next # mem /\ Commit(next, TRUE, FALSE)
       \/ (~loaded \/ next = mem) /\ Skip
  /\ Mutates /\ UNCHANGED minted

\* The boxes that went flat while the process was down.
ReconcileCompletions ==
  /\ Runs("reconcile")
  /\ Commit(RecordCompletedBoxes(mem, Head(queue).of), TRUE, FALSE)
  /\ Mutates /\ UNCHANGED minted

RecordAborted ==
  /\ Runs("abort")
  /\ \/ loaded /\ mem.armed /\ Commit(mem, TRUE, FALSE)
     \/ (~loaded \/ ~mem.armed) /\ Skip
  /\ Mutates /\ UNCHANGED minted

-----------------------------------------------------------------------------
(* recordAttemptStarted: the attempt is spent in the database. *)

\* The condition of the UPDATE, on the durable row.
Spendable(s) ==
  /\ row # None
  /\ row.session_id = s
  /\ Within(row.entry_attempts, MaxEntryAttempts)

Spent == [row EXCEPT !.entry_attempts = @ + 1]

Consuming(e) == Runs("consume") /\ Head(queue).of = {e}

MemoryAllows == loaded /\ SessionAllows(mem)

ConsumeRefusedInMemory(e) ==
  /\ Consuming(e) /\ ~MemoryAllows
  /\ phase' = [phase EXCEPT ![e] = "ended"]
  /\ Skip
  /\ UNCHANGED <<row, loaded, authorised, auth, minted, started, up, otherVars>>

ConsumeOk(e) ==
  /\ Consuming(e) /\ MemoryAllows /\ Spendable(mem.session_id)
  /\ row' = Spent
  /\ mem' = [mem EXCEPT !.entry_attempts = row'.entry_attempts]
  /\ writeFailed' = FALSE
  /\ queue' = Tail(queue)
  /\ phase' = [phase EXCEPT ![e] = "consumed"]
  /\ auth' = [auth EXCEPT ![e] = mem.session_id]
  /\ started' = [started EXCEPT ![mem.session_id] = @ + 1]
  /\ UNCHANGED <<saving, loaded, authorised, minted, up, otherVars>>

\* Zero rows: another session, or no attempt left. The counter of the row is adopted.
ConsumeRefused(e) ==
  /\ Consuming(e) /\ MemoryAllows /\ ~Spendable(mem.session_id)
  /\ mem' = IF row = None THEN mem ELSE [mem EXCEPT !.entry_attempts = row.entry_attempts]
  /\ queue' = Tail(queue)
  /\ phase' = [phase EXCEPT ![e] = "ended"]
  /\ UNCHANGED <<row, writeFailed, saving, loaded, authorised, auth, minted, started, up, otherVars>>

\* The call throws, perhaps after the row was changed: the entry is refused.
ConsumeFails(e, lost) ==
  /\ Consuming(e) /\ MemoryAllows
  /\ faults < MaxFaults /\ faults' = faults + 1
  /\ row' = IF lost /\ Spendable(mem.session_id) THEN Spent ELSE row
  /\ writeFailed' = TRUE
  /\ queue' = Tail(queue)
  /\ phase' = [phase EXCEPT ![e] = "ended"]
  /\ UNCHANGED <<mem, saving, loaded, authorised, auth, minted, started, revived, up, crashes>>

\* Another manager of the same row.
OtherConsumes ==
  /\ OtherManagers
  /\ \E s \in Sessions :
       /\ Spendable(s) /\ row.armed
       /\ row' = Spent
       /\ started' = [started EXCEPT ![s] = @ + 1]
  /\ UNCHANGED <<chainVars, loaded, authorised, phase, auth, minted, up, otherVars>>

-----------------------------------------------------------------------------
(* The life of an entry and of its box. *)

EntryGate == loaded /\ ~writeFailed /\ SessionAllows(mem)

InBook == {e \in Entries : phase[e] \in {"open", "shut"}}

\* Claims of the coordinator, fills being established, positions.
BoxInventory ==
  {e \in Entries : phase[e] \in {"consuming", "consumed", "admitted", "hedged", "filled", "inserted"}}
    \cup InBook

\* The synchronous prologue of coordinateEntry, up to the claim.
CoordinateEntry(e) ==
  /\ Turn /\ phase[e] = "new"
  /\ EntryGate
  /\ Within(Cardinality(BoxInventory), MaxOpenBoxes)
  /\ phase' = [phase EXCEPT ![e] = "consuming"]
  /\ Enqueue("consume", {e})
  /\ UNCHANGED <<row, loaded, authorised, auth, minted, started, up, otherVars>>

\* sessionConsumeAttempt goes on and remembers the session in memory now.
Admitted(e) ==
  /\ up /\ phase[e] = "consumed"
  /\ phase' = [phase EXCEPT ![e] = "admitted"]
  /\ authorised' = mem.session_id
  /\ UNCHANGED <<row, chainVars, loaded, auth, minted, started, up, otherVars>>

\* entryAuthorizationBlockReason, asked right before each POST.
PostAuthorised == mem.armed /\ (authorised = None \/ mem.session_id = authorised)

\* The hedge legs are sent, then the legs they cover.
Post(e) ==
  /\ Turn /\ PostAuthorised
  /\ \/ phase[e] = "admitted" /\ phase' = [phase EXCEPT ![e] = "hedged"]
     \/ phase[e] = "hedged" /\ phase' = [phase EXCEPT ![e] = "filled"]
  /\ UNCHANGED <<row, chainVars, loaded, auth, authorised, minted, started, up, otherVars>>

\* The entry ends without a box.
AbortEntry(e) ==
  /\ Turn /\ phase[e] \in {"admitted", "hedged"}
  /\ phase' = [phase EXCEPT ![e] = "ended"]
  /\ Enqueue("abort", {e})
  /\ UNCHANGED <<row, loaded, authorised, auth, minted, started, up, otherVars>>

InsertTrade(e) ==
  /\ Turn /\ phase[e] = "filled"
  /\ phase' = [phase EXCEPT ![e] = "inserted"]
  /\ UNCHANGED <<row, chainVars, loaded, auth, authorised, minted, started, up, otherVars>>

\* The inserts that were retried all failed: the fill is kept for a timer to persist.
RetainOwnedExecution(e) ==
  /\ InsertFails
  /\ Turn /\ phase[e] = "filled"
  /\ phase' = [phase EXCEPT ![e] = "retained"]
  /\ UNCHANGED <<row, chainVars, loaded, auth, authorised, minted, started, up, otherVars>>

\* The timer persists it and takes it into the book as a trade found in the database.
DrainOwnedExecution(e) ==
  /\ Turn /\ phase[e] = "retained"
  /\ phase' = [phase EXCEPT ![e] = "open"]
  /\ UNCHANGED <<row, chainVars, loaded, auth, authorised, minted, started, up, otherVars>>

\* The position enters the book and its cycle is recorded.
OpenPosition(e) ==
  /\ Turn /\ phase[e] = "inserted"
  /\ phase' = [phase EXCEPT ![e] = "open"]
  /\ Enqueue("establish", {e})
  /\ UNCHANGED <<row, loaded, authorised, auth, minted, started, up, otherVars>>

CloseTrade(e) ==
  /\ Turn /\ phase[e] = "open"
  /\ phase' = [phase EXCEPT ![e] = "shut"]
  /\ UNCHANGED <<row, chainVars, loaded, auth, authorised, minted, started, up, otherVars>>

\* The position leaves the book and its cycle is completed.
RemovePosition(e) ==
  /\ Turn /\ phase[e] = "shut"
  /\ phase' = [phase EXCEPT ![e] = "closed"]
  /\ Enqueue("complete", {e})
  /\ UNCHANGED <<row, loaded, authorised, auth, minted, started, up, otherVars>>

-----------------------------------------------------------------------------
(* The operator, crashes and boots. *)

\* One request of the operator waits at a time (a bound).
OperatorFree == \A i \in DOMAIN queue : queue[i].kind \notin {"arm", "disarm", "retry"}

Operator(kind) ==
  /\ Turn /\ OperatorFree
  /\ Enqueue(kind, {})
  /\ UNCHANGED <<row, loaded, minted, up, entryVars, otherVars>>

\* armTradingSession reads the book before it queues.
ArmTradingSession == loaded /\ InBook = {} /\ minted # Sessions /\ Operator("arm")

DisarmTradingSession == loaded /\ Operator("disarm")

ReconcileLive == Operator("retry")

\* What is left of an entry when its process dies.
Surviving(p) ==
  CASE p = "inserted" -> "open"
    [] p = "shut" -> "closed"
    [] p \in {"new", "open", "closed"} -> p
    [] OTHER -> "ended"

Crash ==
  /\ up /\ crashes < MaxCrashes
  /\ crashes' = crashes + 1
  /\ up' = FALSE /\ loaded' = FALSE /\ writeFailed' = FALSE
  /\ mem' = Idle /\ queue' = <<>> /\ saving' = None /\ authorised' = None
  /\ phase' = [e \in Entries |-> Surviving(phase[e])]
  /\ row' \in IF saving # None THEN {row, Saved} ELSE {row}
  /\ UNCHANGED <<auth, minted, started, revived, faults>>

\* initialise: the row is read, then the trades of its open cycles.
Initialise ==
  /\ ~up /\ up' = TRUE
  /\ loaded' = TRUE
  /\ mem' = IF row = None THEN Idle ELSE row
  /\ LET flat == {e \in mem'.established \ mem'.completed : phase[e] = "closed"} IN
       queue' = IF flat = {} THEN <<>> ELSE <<Request("reconcile", flat)>>
  /\ UNCHANGED <<row, writeFailed, saving, minted, entryVars, otherVars>>

\* The row cannot be read, or the trades cannot.
InitialiseFails ==
  /\ ~up /\ up' = TRUE
  /\ faults < MaxFaults /\ faults' = faults + 1
  /\ \/ loaded' = FALSE /\ UNCHANGED mem
     \/ loaded' = TRUE /\ mem' = IF row = None THEN Idle ELSE row
  /\ UNCHANGED <<row, writeFailed, queue, saving, minted, revived, crashes, entryVars>>

-----------------------------------------------------------------------------
Mutation ==
  \/ Arm \/ Disarm \/ RecordEstablished \/ RetryPendingWrite
  \/ RecordCompleted \/ ReconcileCompletions \/ RecordAborted

Consume(e) ==
  \/ ConsumeRefusedInMemory(e) \/ ConsumeOk(e) \/ ConsumeRefused(e)
  \/ \E lost \in BOOLEAN : ConsumeFails(e, lost)

Entry(e) ==
  \/ CoordinateEntry(e) \/ Admitted(e) \/ Post(e) \/ AbortEntry(e) \/ InsertTrade(e)
  \/ RetainOwnedExecution(e) \/ DrainOwnedExecution(e) \/ OpenPosition(e)
  \/ CloseTrade(e) \/ RemovePosition(e)

Next ==
  \/ Mutation
  \/ SaveLands \/ \E lost \in BOOLEAN : SaveFails(lost)
  \/ \E e \in Entries : Consume(e) \/ Entry(e)
  \/ OtherConsumes
  \/ ArmTradingSession \/ DisarmTradingSession \/ ReconcileLive
  \/ Crash \/ Initialise \/ InitialiseFails

Spec == Init /\ [][Next]_vars

-----------------------------------------------------------------------------
TypeOK ==
  /\ row \in Record \cup {None}
  /\ mem \in Record
  /\ loaded \in BOOLEAN /\ writeFailed \in BOOLEAN /\ up \in BOOLEAN
  /\ queue \in Seq([kind : {"arm", "disarm", "establish", "retry", "complete", "reconcile",
                            "abort", "consume"}, of : SUBSET Entries])
  /\ saving \in Saves \cup {None}
  /\ authorised \in Sessions \cup {None}
  /\ phase \in [Entries -> Phases]
  /\ auth \in [Entries -> Sessions \cup {None}]
  /\ minted \in SUBSET Sessions
  /\ started \in [Sessions -> Nat]
  /\ revived \subseteq Sessions \cup {None}
  /\ crashes \in Nat /\ faults \in Nat

\* However calls fail, processes restart and managers overlap, no session starts more entry
\* attempts than it was armed for (consumeBoxTradingSessionEntryAttempt), with one exception: a
\* session that another's arming has replaced in the row, unheard, and that the rollback of
\* that arming puts back into memory.  Its next save takes the row with the other's counter.
AttemptsWithinBudget ==
  MaxEntryAttempts > 0 => \A s \in Sessions \ revived : started[s] <= MaxEntryAttempts

\* The same without the exception; an arming that landed unheard refutes it.
NoSessionOverspends ==
  MaxEntryAttempts > 0 => \A s \in Sessions : started[s] <= MaxEntryAttempts

\* What the row says a session has spent, cycles and attempts, is never handed back under the
\* same session id, by whatever save comes later (saveBoxTradingSession).
SpentStaysSpent ==
  [][row # None /\ row'.session_id = row.session_id =>
       /\ row.established \subseteq row'.established
       /\ row.entry_attempts <= row'.entry_attempts]_vars

\* Unless the flag that closes entry is up, no box counted in memory is missing from the row,
\* where a restart would hand its cycle back (writeFailed).
UnsavedCycleClosesEntry ==
  up /\ saving = None /\ ~writeFailed /\ mem.established # {} =>
    row # None /\ mem.established \subseteq row.established

\* While one box is open at a time (MaxOpenBoxes = 1, the trial's envelope), no session
\* establishes more boxes than its ceiling, as far as its record knows (evaluateSessionEntry).
\* With two, both entries are admitted before either box is counted.
CyclesWithinBudget ==
  MaxCompletedTrades > 0 => Cardinality(mem.established) <= MaxCompletedTrades

\* An order of an entry leaves only while the session whose attempt it spent is the armed one
\* (entryAuthorizationBlockReason).
PostedUnderOwnSession ==
  [][\A e \in Entries :
       phase[e] # phase'[e] /\ phase'[e] \in {"hedged", "filled"} =>
         mem.armed /\ mem.session_id = auth[e]]_vars

\* No more boxes are held than BOX_MAX_OPEN_BOXES (boxInventoryCount).
HeldWithinCeiling ==
  MaxOpenBoxes > 0 =>
    Cardinality({e \in Entries :
      phase[e] \in {"hedged", "filled", "inserted", "retained", "open", "shut"}}) <= MaxOpenBoxes
=============================================================================
