--------------------------- MODULE ExecutionLease ---------------------------
(***************************************************************************)
(* Exclusive, account-scoped execution ownership: the lease rows in        *)
(* PostgreSQL (src/src/box/executionLeaseStore.ts), the lease manager every *)
(* process runs (src/src/box/executionLease.ts), and the synchronous guard *)
(* the order manager asks in the last instant before a broker POST         *)
(* (src/src/box/orderManager.ts, checkpoint 5).                            *)
(*                                                                         *)
(* A member of Procs is ONE BOOT of the backend: the owner id is minted    *)
(* per boot, so a restarted process is another member.  A member of Scopes *)
(* is a '<deployment>|<broker>|<account>' key.  Time is kept as what is    *)
(* left of each lifetime and the age of each call; Tick ages them all, so  *)
(* no absolute clock is compared with another.                             *)
(*                                                                         *)
(* Every database call is three steps: issued by the process, executed by  *)
(* PostgreSQL, answered to the process.  Calls of one process run on       *)
(* different pooled connections, so their answers may come in any order.   *)
(***************************************************************************)
EXTENDS Naturals

CONSTANTS Procs,      \* the boots that contend for the accounts
          Scopes,     \* the broker accounts
          None,       \* "no process", "no account"
          TTL,        \* lease lifetime, ttl()
          Margin,     \* guard margin, margin()
          MaxPause,   \* longest pause between the guard and the socket write
          MaxFence,   \* bound: how many fencing tokens are drawn
          MaxUpsets,  \* bound: shutdowns, crashes, failed calls, account changes, other passes
          OtherPasses,\* whether passes begin for other reasons than a takeover
          First       \* bound: the accounts a process may prove first

ASSUME LeaseConstants ==
  /\ None \notin Procs
  /\ None \notin Scopes
  /\ TTL \in Nat
  /\ Margin \in 0..TTL
  /\ MaxPause \in Nat
  /\ MaxFence \in Nat
  /\ MaxUpsets \in Nat
  /\ OtherPasses \in BOOLEAN
  /\ First \subseteq Scopes

(* Condition (b) of the module header: the margin covers the longest pause. *)
ASSUME PauseWithinMargin == MaxPause <= Margin

VARIABLES
  row,      \* box_execution_leases: the row of each scope (owner None: no row)
  seq,      \* box_reservation_fence_seq: last value drawn
  life,     \* life cycle of each process
  account,  \* the account the process's credential proves, or None
  home,     \* history: the first account the process proved
  moved,    \* history: the process's account was replaced by another one
  st,       \* ExecutionLeaseState, with the ObservedLease of a held lease
  cur,      \* currentScope
  call,     \* the single-flighted refresh pass (inFlight)
  stamp,    \* the single-flighted takeover reconciliation (reconcileInFlight)
  passed,   \* history: fence under which the last awaited pass completed
  bye,      \* the release at shutdown
  post,     \* an order between checkpoint 5 and the socket write
  upsets,   \* the upsets so far
  pass,     \* the order manager's pass is running (reconcilePromise)
  missed    \* history: accounts others sent to from its begin until it was joined

vars == <<row, seq, life, account, home, moved, st, cur, call, stamp, passed, bye, post, upsets,
          pass, missed>>

(* What the guard and adoptUnproven() tell apart: "unproven" stands for      *)
(* `inactive` and `unavailable` (cannot tell), "foreign" for `refused` and   *)
(* `lost` (proof of another owner).                                          *)
Kinds == {"unproven", "held", "foreign"}
Uses  == {"new_entry", "exposure_reduction"}
Lives == {"up", "disposed", "released", "dead"}

Some(S) == S \cup {None}

(* A pending call has an age; an answered one has the life it reports less   *)
(* the time the call has taken so far.  What a process may use of a lifetime *)
(* is the part beyond the guard margin, so ages matter up to Usable only.    *)
Usable == TTL - Margin
RowType  == [owner : Some(Procs), fence : Nat, left : 0..TTL, reconciled : BOOLEAN]
StType   == [kind : Kinds, scope : Some(Scopes), fence : Nat, left : 0..Usable,
             reconciled : BOOLEAN]
Ops   == {"idle", "draw", "acquire", "renew", "release", "reconcile", "stamp"}
CallType == [op : Ops, scope : Some(Scopes), goal : Some(Scopes), fence : Nat,
             age : 0..Usable, ans : {"pending", "row", "none"}, left : 0..Usable,
             reconciled : BOOLEAN]
PostType == [scope : Some(Scopes), use : Uses, kind : Kinds, age : 0..MaxPause]

NoRow  == [owner |-> None, fence |-> 0, left |-> 0, reconciled |-> FALSE]
NoCall == [op |-> "idle", scope |-> None, goal |-> None, fence |-> 0, age |-> 0,
           ans |-> "pending", left |-> 0, reconciled |-> FALSE]
NoPost == [scope |-> None, use |-> "exposure_reduction", kind |-> "unproven", age |-> 0]

Unproven == [kind |-> "unproven", scope |-> None, fence |-> 0, left |-> 0,
             reconciled |-> FALSE]
Foreign(s) == [kind |-> "foreign", scope |-> s, fence |-> 0, left |-> 0,
               reconciled |-> FALSE]

TypeOK ==
  /\ row \in [Scopes -> RowType]
  /\ seq \in Nat
  /\ life \in [Procs -> Lives]
  /\ account \in [Procs -> Some(Scopes)]
  /\ home \in [Procs -> Some(Scopes)]
  /\ moved \in [Procs -> BOOLEAN]
  /\ st \in [Procs -> StType]
  /\ cur \in [Procs -> Some(Scopes)]
  /\ call \in [Procs -> CallType]
  /\ stamp \in [Procs -> CallType]
  /\ passed \in [Procs -> Nat]
  /\ bye \in [Procs -> CallType]
  /\ post \in [Procs -> PostType]
  /\ upsets \in 0..MaxUpsets
  /\ pass \in [Procs -> BOOLEAN]
  /\ missed \in [Procs -> SUBSET Some(Scopes)]

Init ==
  /\ row = [s \in Scopes |-> NoRow]
  /\ seq = 0
  /\ life = [p \in Procs |-> "up"]
  /\ account = [p \in Procs |-> None]
  /\ home = [p \in Procs |-> None]
  /\ moved = [p \in Procs |-> FALSE]
  /\ st = [p \in Procs |-> Unproven]
  /\ cur = [p \in Procs |-> None]
  /\ call = [p \in Procs |-> NoCall]
  /\ stamp = [p \in Procs |-> NoCall]
  /\ passed = [p \in Procs |-> 0]
  /\ bye = [p \in Procs |-> NoCall]
  /\ post = [p \in Procs |-> NoPost]
  /\ upsets = 0
  /\ pass = [p \in Procs |-> FALSE]
  /\ missed = [p \in Procs |-> {}]

-----------------------------------------------------------------------------
(* The process side: what may run, how a call is issued, how a state is    *)
(* adopted.  Between the guard and the socket write there is no await, so  *)
(* no other code of that process runs while post[p] is set.                *)

Executing(p) == life[p] # "dead" /\ post[p] = NoPost

(* n less the duration d, floored at 0. *)
Charge(n, d) == IF n > d THEN n - d ELSE 0

Issue(op, s, f) == [op |-> op, scope |-> s, goal |-> None, fence |-> f, age |-> 0,
                    ans |-> "pending", left |-> 0, reconciled |-> FALSE]

(* observe(): the row, with what is left of its life once the duration of   *)
(* the call is charged against it.                                          *)
Observe(c) == [kind |-> "held", scope |-> c.scope, fence |-> c.fence,
               left |-> c.left, reconciled |-> c.reconciled]

Upset == upsets < MaxUpsets /\ upsets' = upsets + 1

Adopt(p, s) == st' = [st EXCEPT ![p] = s]

(* Mutant of AdoptUnproven: a failure to ask erases the evidence. *)
AdoptAlways(p, scope) == Adopt(p, Unproven)

(* adoptUnproven(): "cannot tell" never overwrites proof of a foreign owner *)
(* of the same scope; an unknown scope counts as the same one.              *)
AdoptUnproven(p, scope) ==
  IF /\ st[p].kind = "foreign"
     /\ None \in {st[p].scope, scope} \/ st[p].scope = scope
  THEN UNCHANGED st
  ELSE Adopt(p, Unproven)

(* The tail of runRefresh(): renew the lease we hold for s, or acquire it.  *)
StartLease(held, s) ==
  IF held.kind = "held" /\ held.scope = s
  THEN Issue("renew", s, held.fence)
  ELSE Issue("draw", s, 0)

(* orderManager.reconcile(): single-flighted, so a caller joins the pass    *)
(* that is already running.                                                 *)
JoinPass(p) ==
  /\ pass' = [pass EXCEPT ![p] = TRUE]
  /\ missed' = [missed EXCEPT ![p] = IF pass[p] THEN @ ELSE {}]

(* reconcileTakeover() up to its first await: single-flighted, and only for *)
(* a held lease that is not reconciled yet.                                 *)
StampAfter(p, lease) ==
  IF stamp[p].op = "idle" /\ life[p] = "up" /\ ~lease.reconciled
  THEN /\ stamp' = [stamp EXCEPT ![p] = Issue("reconcile", lease.scope, lease.fence)]
       /\ JoinPass(p)
  ELSE UNCHANGED <<stamp, pass, missed>>

-----------------------------------------------------------------------------
(* Boot, account changes, shutdown, crash.                                 *)

(* The credential behind the adapter names an account, names none any more, *)
(* or (a broker switch, a login under another account) names another one.   *)
SetAccount(p, a) ==
  /\ Executing(p)
  /\ life[p] = "up"
  /\ a # account[p]
  /\ home[p] = None => a \in First
  /\ IF account[p] = None THEN UNCHANGED upsets ELSE Upset
  /\ account' = [account EXCEPT ![p] = a]
  /\ home' = [home EXCEPT ![p] = IF @ = None THEN a ELSE @]
  /\ moved' = [moved EXCEPT ![p] = @ \/ (a # None /\ home[p] \notin {None, a})]
  /\ UNCHANGED <<row, seq, life, st, cur, call, stamp, passed, bye, post, pass, missed>>

(* stopHeartbeat(), from the engine's synchronous dispose(); the order      *)
(* manager is disposed by the same call, so nothing passes the guard later. *)
Dispose(p) ==
  /\ Executing(p)
  /\ life[p] = "up"
  /\ Upset
  /\ life' = [life EXCEPT ![p] = "disposed"]
  /\ UNCHANGED <<row, seq, account, home, moved, st, cur, call, stamp, passed, bye,
                 post, pass, missed>>

(* A statement already issued may still execute when the process is gone,   *)
(* but its answer reaches nobody.                                           *)
OnWire(c) == IF c.op # "reconcile" /\ c.ans = "pending"
             THEN [c EXCEPT !.age = 0] ELSE NoCall

Gone(p) ==
  /\ life' = [life EXCEPT ![p] = "dead"]
  /\ account' = [account EXCEPT ![p] = None]
  /\ home' = [home EXCEPT ![p] = None]
  /\ st' = [st EXCEPT ![p] = Unproven]
  /\ cur' = [cur EXCEPT ![p] = None]
  /\ call' = [call EXCEPT ![p] = OnWire(@)]
  /\ stamp' = [stamp EXCEPT ![p] = OnWire(@)]
  /\ passed' = [passed EXCEPT ![p] = 0]
  /\ post' = [post EXCEPT ![p] = NoPost]
  /\ pass' = [pass EXCEPT ![p] = FALSE]
  /\ missed' = [missed EXCEPT ![p] = {}]
  /\ UNCHANGED <<row, seq, moved>>

(* kill -9 *)
Crash(p) ==
  /\ life[p] # "dead"
  /\ Upset
  /\ bye' = [bye EXCEPT ![p] = OnWire(@)]
  /\ Gone(p)

(* release(), the later shutdown step: releaseCurrent() up to its await.    *)
Release(p) ==
  /\ Executing(p)
  /\ life[p] = "disposed"
  /\ st[p].kind = "held" /\ cur[p] # None
  /\ life' = [life EXCEPT ![p] = "released"]
  /\ bye' = [bye EXCEPT ![p] = Issue("release", cur[p], st[p].fence)]
  /\ UNCHANGED <<row, seq, account, home, moved, st, cur, call, stamp, passed, post,
                 upsets, pass, missed>>

(* The release is answered, or failed (the TTL reaps the row), or there was *)
(* nothing to release: the pool is closed and the process exits.            *)
Exit(p) ==
  /\ Executing(p)
  /\ \/ life[p] = "released"
     \/ life[p] = "disposed" /\ (st[p].kind # "held" \/ cur[p] = None)
  /\ UNCHANGED upsets
  /\ bye' = [bye EXCEPT ![p] = NoCall]
  /\ Gone(p)

-----------------------------------------------------------------------------
(* refresh() / runRefresh(), one action per stretch between awaits.         *)

RefreshIdle(p) == Executing(p) /\ life[p] = "up" /\ call[p].op = "idle"

RefreshNoAccount(p) ==
  /\ RefreshIdle(p)
  /\ account[p] = None
  /\ AdoptUnproven(p, None)
  /\ UNCHANGED <<row, seq, life, account, home, moved, cur, call, stamp, passed, bye,
                 post, upsets, pass, missed>>

(* The scope changed while a lease is held: release the old row first.      *)
RefreshSwitch(p) ==
  /\ RefreshIdle(p)
  /\ account[p] # None
  /\ cur[p] \notin {None, account[p]}
  /\ st[p].kind = "held"
  /\ call' = [call EXCEPT ![p] =
       [Issue("release", cur[p], st[p].fence) EXCEPT !.goal = account[p]]]
  /\ UNCHANGED <<row, seq, life, account, home, moved, st, cur, stamp, passed, bye,
                 post, upsets, pass, missed>>

RefreshLease(p) ==
  /\ RefreshIdle(p)
  /\ account[p] # None
  /\ \/ /\ cur[p] \in {None, account[p]}
        /\ UNCHANGED cur
     \/ /\ cur[p] \notin {None, account[p]}
        /\ st[p].kind # "held"
        /\ cur' = [cur EXCEPT ![p] = None]
  /\ call' = [call EXCEPT ![p] = StartLease(st[p], account[p])]
  /\ UNCHANGED <<row, seq, life, account, home, moved, st, stamp, passed, bye, post,
                 upsets, pass, missed>>

(* The release of the old scope is answered, or failed: the TTL reaps it.   *)
SwitchAnswered(p) ==
  /\ Executing(p)
  /\ call[p].op = "release"
  /\ cur' = [cur EXCEPT ![p] = None]
  /\ Adopt(p, Unproven)
  /\ call' = [call EXCEPT ![p] = StartLease(Unproven, call[p].goal)]
  /\ UNCHANGED <<row, seq, life, account, home, moved, stamp, passed, bye, post,
                 upsets, pass, missed>>

RenewAnswered(p) ==
  /\ Executing(p)
  /\ call[p].op = "renew" /\ call[p].ans # "pending"
  /\ call' = [call EXCEPT ![p] = NoCall]
  /\ \/ /\ call[p].ans = "none"
        /\ Adopt(p, Foreign(call[p].scope))
        /\ UNCHANGED <<stamp, pass, missed>>
     \/ /\ call[p].ans = "row"
        /\ Adopt(p, Observe(call[p]))
        /\ StampAfter(p, call[p])
  /\ UNCHANGED <<row, seq, life, account, home, moved, cur, passed, bye, post, upsets>>

AcquireAnswered(p) ==
  /\ Executing(p)
  /\ call[p].op = "acquire" /\ call[p].ans # "pending"
  /\ call' = [call EXCEPT ![p] = NoCall]
  /\ cur' = [cur EXCEPT ![p] = call[p].scope]
  /\ \/ /\ call[p].ans = "none"
        /\ Adopt(p, Foreign(call[p].scope))
        /\ UNCHANGED <<stamp, pass, missed>>
     \/ /\ call[p].ans = "row"
        /\ Adopt(p, Observe(call[p]))
        /\ StampAfter(p, call[p])
  /\ UNCHANGED <<row, seq, life, account, home, moved, passed, bye, post, upsets>>

(* The driver throws: the statement did not run, or it ran and its answer   *)
(* was lost.  A failed renewal keeps the cached observation.                *)
RenewFails(p) ==
  /\ Executing(p)
  /\ Upset
  /\ call[p].op = "renew"
  /\ call' = [call EXCEPT ![p] = NoCall]
  /\ UNCHANGED <<row, seq, life, account, home, moved, st, cur, stamp, passed, bye,
                 post, pass, missed>>

AcquireFails(p) ==
  /\ Executing(p)
  /\ Upset
  /\ call[p].op \in {"draw", "acquire"}
  /\ call' = [call EXCEPT ![p] = NoCall]
  /\ cur' = [cur EXCEPT ![p] = call[p].scope]
  /\ AdoptUnproven(p, call[p].scope)
  /\ UNCHANGED <<row, seq, life, account, home, moved, stamp, passed, bye, post, pass,
                 missed>>

-----------------------------------------------------------------------------
(* reconcileTakeover() after its awaits.  The order manager's own pass      *)
(* begins, ends and succeeds or not; it also runs at start-up, on a timer   *)
(* and on request, whether or not a lease is held.  Neither continuation    *)
(* looks at the state or at `disposed` again before it adopts the answer.   *)

PassBegins(p) ==
  /\ Executing(p)
  /\ life[p] = "up"
  /\ ~pass[p]
  /\ OtherPasses /\ Upset
  /\ JoinPass(p)
  /\ UNCHANGED <<row, seq, life, account, home, moved, st, cur, call, stamp, passed,
                 bye, post>>

PassEnds(p) ==
  /\ Executing(p)
  /\ pass[p]
  /\ stamp[p].op # "reconcile"
  /\ pass' = [pass EXCEPT ![p] = FALSE]
  /\ missed' = [missed EXCEPT ![p] = {}]
  /\ UNCHANGED <<row, seq, life, account, home, moved, st, cur, call, stamp, passed,
                 bye, post, upsets>>

ReconcileEnds(p) ==
  /\ Executing(p)
  /\ stamp[p].op = "reconcile"
  /\ pass' = [pass EXCEPT ![p] = FALSE]
  /\ \/ /\ stamp' = [stamp EXCEPT ![p] = NoCall]
        /\ UNCHANGED passed
     \/ /\ stamp' = [stamp EXCEPT ![p] = Issue("stamp", @.scope, @.fence)]
        /\ passed' = [passed EXCEPT ![p] = stamp[p].fence]
  /\ UNCHANGED <<row, seq, life, account, home, moved, st, cur, call, bye, post,
                 upsets, missed>>

StampAnswered(p) ==
  /\ Executing(p)
  /\ stamp[p].op = "stamp" /\ stamp[p].ans # "pending"
  /\ stamp' = [stamp EXCEPT ![p] = NoCall]
  /\ \/ stamp[p].ans = "none" /\ Adopt(p, Foreign(stamp[p].scope))
     \/ stamp[p].ans = "row" /\ Adopt(p, Observe(stamp[p]))
  /\ UNCHANGED <<row, seq, life, account, home, moved, cur, call, passed, bye, post,
                 upsets, pass, missed>>

(* The catch of reconcileTakeover(): the state stays as it is.              *)
StampFails(p) ==
  /\ Executing(p)
  /\ Upset
  /\ stamp[p].op = "stamp"
  /\ stamp' = [stamp EXCEPT ![p] = NoCall]
  /\ UNCHANGED <<row, seq, life, account, home, moved, st, cur, call, passed, bye,
                 post, pass, missed>>

-----------------------------------------------------------------------------
(* PostgreSQL executes an issued statement.  Predicates on expires_at use   *)
(* the server's clock, which is what row[s].left is measured on.            *)

Pending(c, op) == c.op = op /\ c.ans = "pending"

(* owner = $2 AND fence = $3 AND expires_at > clock_timestamp()             *)
Holds(p, c) == row[c.scope].owner = p /\ row[c.scope].fence = c.fence
               /\ row[c.scope].left > 0

Reply(c, ans, f, left, reconciled) ==
  [op |-> c.op, scope |-> c.scope, goal |-> c.goal, fence |-> f, age |-> 0,
   ans |-> ans, left |-> left, reconciled |-> reconciled]

(* An answer without a row carries nothing the process will use.            *)
Nothing(c) == Reply(c, "none", 0, 0, FALSE)

Returning(c, r) ==
  Reply(c, "row", r.fence, Charge(r.left, c.age + Margin), r.reconciled)

(* The answer c goes to process p, if it is still there.                    *)
Answer(p, c) == IF life[p] = "dead" THEN NoCall ELSE c

(* nextval(): the upsert that uses the token is issued by the same call.    *)
ExecDraw(p) ==
  /\ Pending(call[p], "draw")
  /\ seq < MaxFence
  /\ seq' = seq + 1
  /\ call' = [call EXCEPT ![p] =
       Answer(p, [Issue("acquire", @.scope, seq + 1) EXCEPT !.age = call[p].age])]
  /\ UNCHANGED <<row, life, account, home, moved, st, cur, stamp, passed, bye, post,
                 upsets, pass, missed>>

(* Mutant of Upsert: a takeover keeps the predecessor's reconciled stamp. *)
UpsertKeepsStamp(p, r, f) ==
  IF r.owner = p
  THEN [r EXCEPT !.left = TTL]
  ELSE [owner |-> p, fence |-> f, left |-> TTL, reconciled |-> r.reconciled]

(* INSERT ... ON CONFLICT DO UPDATE ... WHERE lapsed OR our own row.        *)
Upsert(p, r, f) ==
  IF r.owner = p
  THEN [r EXCEPT !.left = TTL]
  ELSE [owner |-> p, fence |-> f, left |-> TTL, reconciled |-> FALSE]

ExecAcquire(p) ==
  LET c == call[p]
      r == row[c.scope]
      n == Upsert(p, r, c.fence)
  IN  /\ Pending(c, "acquire")
      /\ IF r.owner = None \/ r.left = 0 \/ r.owner = p
         THEN /\ row' = [row EXCEPT ![c.scope] = n]
              /\ call' = [call EXCEPT ![p] = Answer(p, Returning(c, n))]
         ELSE /\ call' = [call EXCEPT ![p] = Answer(p, Nothing(@))]
              /\ UNCHANGED row
      /\ UNCHANGED <<seq, life, account, home, moved, st, cur, stamp, passed, bye,
                     post, upsets, pass, missed>>

ExecRenew(p) ==
  LET c == call[p]
      n == [row[c.scope] EXCEPT !.left = TTL]
  IN  /\ Pending(c, "renew")
      /\ IF Holds(p, c)
         THEN /\ row' = [row EXCEPT ![c.scope] = n]
              /\ call' = [call EXCEPT ![p] = Answer(p, Returning(c, n))]
         ELSE /\ call' = [call EXCEPT ![p] = Answer(p, Nothing(@))]
              /\ UNCHANGED row
      /\ UNCHANGED <<seq, life, account, home, moved, st, cur, stamp, passed, bye,
                     post, upsets, pass, missed>>

ExecStamp(p) ==
  LET c == stamp[p]
      n == [row[c.scope] EXCEPT !.reconciled = TRUE]
  IN  /\ Pending(c, "stamp")
      /\ IF Holds(p, c)
         THEN /\ row' = [row EXCEPT ![c.scope] = n]
              /\ stamp' = [stamp EXCEPT ![p] = Answer(p, Returning(c, n))]
         ELSE /\ stamp' = [stamp EXCEPT ![p] = Answer(p, Nothing(@))]
              /\ UNCHANGED row
      /\ UNCHANGED <<seq, life, account, home, moved, st, cur, call, passed, bye, post,
                     upsets, pass, missed>>

(* Mutant of DeleteRow: only the scope is pinned. *)
DeleteUnpinned(p, c) == row' = [row EXCEPT ![c.scope] = NoRow]

(* DELETE ... WHERE scope AND owner AND fence.                              *)
DeleteRow(p, c) ==
  row' = [row EXCEPT ![c.scope] =
            IF @.owner = p /\ @.fence = c.fence THEN NoRow ELSE @]

ExecSwitchRelease(p) ==
  /\ Pending(call[p], "release")
  /\ DeleteRow(p, call[p])
  /\ call' = [call EXCEPT ![p] = Answer(p, Nothing(@))]
  /\ UNCHANGED <<seq, life, account, home, moved, st, cur, stamp, passed, bye, post,
                 upsets, pass, missed>>

ExecRelease(p) ==
  /\ Pending(bye[p], "release")
  /\ DeleteRow(p, bye[p])
  /\ bye' = [bye EXCEPT ![p] = Answer(p, Nothing(@))]
  /\ UNCHANGED <<seq, life, account, home, moved, st, cur, call, stamp, passed, post,
                 upsets, pass, missed>>

-----------------------------------------------------------------------------
(* The dispatch boundary.                                                   *)

(* dispatchBlockReason() = null, in a live-capable deployment.              *)
MayDispatch(p, use) ==
  \/ /\ st[p].kind = "held"
     /\ st[p].left > 0                       \* remaining > margin()
     /\ use = "new_entry" => st[p].reconciled
  \/ /\ st[p].kind = "unproven"
     /\ use = "exposure_reduction"

(* Checkpoint 5 lets an order for the credential's account through ...      *)
Guard(p, use) ==
  /\ Executing(p)
  /\ life[p] = "up"
  /\ account[p] # None
  /\ MayDispatch(p, use)
  /\ post' = [post EXCEPT ![p] =
       [scope |-> account[p], use |-> use, kind |-> st[p].kind, age |-> 0]]
  /\ UNCHANGED <<row, seq, life, account, home, moved, st, cur, call, stamp, passed,
                 bye, upsets, pass, missed>>

(* ... and the next thing the process does is write it to the socket.       *)
Transmit(p) ==
  /\ post[p] # NoPost
  /\ missed' = [q \in Procs |->
       IF /\ q # p /\ post[p].kind = "held"
          /\ pass[q] /\ stamp[q].op # "reconcile"
       THEN missed[q] \cup {post[p].scope} ELSE missed[q]]
  /\ post' = [post EXCEPT ![p] = NoPost]
  /\ UNCHANGED <<row, seq, life, account, home, moved, st, cur, call, stamp, passed,
                 bye, upsets, pass>>

-----------------------------------------------------------------------------
(* Mutant of Older: the time an answer takes is not charged. *)
OlderUncharged(p, c) ==
  IF life[p] = "dead" \/ c.op \in {"idle", "reconcile", "release"} THEN c
  ELSE IF c.ans = "pending" THEN [c EXCEPT !.age = IF @ < Usable THEN @ + 1 ELSE @]
  ELSE c

(* The time a call takes: charged against the life its answer reports.      *)
Older(p, c) ==
  IF life[p] = "dead" \/ c.op \in {"idle", "reconcile", "release"} THEN c
  ELSE IF c.ans = "pending" THEN [c EXCEPT !.age = IF @ < Usable THEN @ + 1 ELSE @]
  ELSE [c EXCEPT !.left = Charge(@, 1)]

(* One unit of time passes.  Condition (b): no process is stopped between   *)
(* the guard and the wire for longer than MaxPause.                         *)
Tick ==
  /\ \A p \in Procs : post[p].kind = "held" => post[p].age < MaxPause
  /\ row' = [s \in Scopes |-> [row[s] EXCEPT !.left = Charge(@, 1)]]
  /\ st' = [p \in Procs |-> [st[p] EXCEPT !.left = Charge(@, 1)]]
  /\ call' = [p \in Procs |-> Older(p, call[p])]
  /\ stamp' = [p \in Procs |-> Older(p, stamp[p])]
  /\ post' = [p \in Procs |-> IF post[p].kind = "held" THEN [post[p] EXCEPT !.age = @ + 1]
                              ELSE post[p]]
  /\ UNCHANGED <<seq, life, account, home, moved, cur, passed, bye, upsets, pass,
                 missed>>

Step(p) ==
  \/ Dispose(p) \/ Release(p) \/ Exit(p) \/ Crash(p)
  \/ \E a \in Some(Scopes) : SetAccount(p, a)
  \/ RefreshNoAccount(p) \/ RefreshSwitch(p) \/ RefreshLease(p)
  \/ SwitchAnswered(p) \/ RenewAnswered(p) \/ RenewFails(p)
  \/ AcquireAnswered(p) \/ AcquireFails(p)
  \/ PassBegins(p) \/ PassEnds(p) \/ ReconcileEnds(p) \/ StampAnswered(p) \/ StampFails(p)
  \/ ExecDraw(p) \/ ExecAcquire(p) \/ ExecRenew(p) \/ ExecStamp(p)
  \/ ExecSwitchRelease(p) \/ ExecRelease(p)
  \/ \E use \in Uses : Guard(p, use)
  \/ Transmit(p)

Next == Tick \/ \E p \in Procs : Step(p)

Spec == Init /\ [][Next]_vars

-----------------------------------------------------------------------------
(* Correctness.                                                             *)

(* p is past the guard for scope s, and its account was never replaced.     *)
Sending(p, s) == post[p].scope = s /\ ~moved[p]

(* executionLease.ts, "at most one process will BEGIN a new broker mutation *)
(* for a given (deployment, broker, account)": two processes that never had *)
(* their account replaced are never both between the guard and the wire for *)
(* the same account on the strength of a lease.                             *)
SendExclusive ==
  \A p, q \in Procs, s \in Scopes :
    /\ Sending(p, s) /\ post[p].kind = "held"
    /\ Sending(q, s) /\ post[q].kind = "held"
    => p = q

(* A new entry on its way to the broker is covered, until it is written, by *)
(* a live lease row of the sender, and a reconciliation pass completed that *)
(* the sender awaited under that very ownership (the row's fence).          *)
EntryReconciled ==
  \A p \in Procs, s \in Scopes :
    Sending(p, s) /\ post[p].use = "new_entry" =>
      row[s].owner = p /\ row[s].left > 0 /\ passed[p] = row[s].fence

(* adoptUnproven(): a process told that another instance owns its account   *)
(* goes back to sending (reductions included) only by holding the lease     *)
(* again; a failure to ask never erases that evidence.                      *)
ForeignEvidenceKept ==
  [][\A p \in Procs :
       /\ st[p].kind = "foreign" /\ st[p].scope = account[p]
       /\ ~moved'[p] /\ life'[p] = "up"
       => st'[p].kind \in {"foreign", "held"}]_vars

(* A lease that has not expired ends only because its owner shut down or    *)
(* had its account replaced: no renewal, takeover or late release of        *)
(* another process removes it (the owner and fence pins of the SQL).        *)
OnlyOwnerEndsLease ==
  [][\A s \in Scopes :
       row[s].owner # None /\ row[s].left > 0 /\ row'[s].owner # row[s].owner
       => life[row[s].owner] \in {"released", "dead"} \/ moved[row[s].owner]]_vars

(* The unconditional claim of the module header of executionLease.ts, for   *)
(* new entries: also when an account is replaced while the process runs.    *)
OneEntrySenderPerAccount ==
  \A p, q \in Procs :
    /\ post[p] # NoPost /\ post[p].use = "new_entry"
    /\ post[q] # NoPost /\ post[q].use = "new_entry"
    /\ post[p].scope = post[q].scope
    => p = q

(* executionLease.ts, "holding it is what makes the reconciliation safe": a *)
(* new entry is sent only after a pass that overlapped no sending of a      *)
(* predecessor to the account, so that it saw whatever that one sent.       *)
PredecessorSeen ==
  \A p \in Procs, s \in Scopes :
    Sending(p, s) /\ post[p].use = "new_entry" => s \notin missed[p]

(* docs/EXECUTION_OWNERSHIP.md: "every successor's fence is strictly        *)
(* greater than every predecessor's".                                       *)
SuccessorFenceGreater ==
  [][\A s \in Scopes :
       /\ row[s].owner # None /\ row'[s].owner # None
       /\ row'[s].owner # row[s].owner
       => row'[s].fence > row[s].fence]_vars
=============================================================================
