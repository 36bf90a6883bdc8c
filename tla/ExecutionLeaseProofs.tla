------------------------ MODULE ExecutionLeaseProofs ------------------------
(* Theorems about ExecutionLease, for every set of processes and accounts   *)
(* and every lifetime, margin and bound that the assumptions allow.         *)
EXTENDS ExecutionLease, TLAPS

-----------------------------------------------------------------------------
(* The records the model is built from have their types.                    *)

(* The empty records of every kind are well typed. *)
LEMMA EmptyTyped ==
  /\ NoRow \in RowType
  /\ NoCall \in CallType
  /\ NoPost \in PostType
  /\ Unproven \in StType
  /\ \A s \in Some(Scopes) : Foreign(s) \in StType
<1>1. NoRow \in RowType
  BY LeaseConstants DEF NoRow, RowType, Some
<1>2. NoCall \in CallType
  BY LeaseConstants DEF NoCall, CallType, Some, Usable, Ops
<1>3. NoPost \in PostType
  BY LeaseConstants DEF NoPost, PostType, Some, Uses, Kinds
<1>4. Unproven \in StType
  BY LeaseConstants DEF Unproven, StType, Some, Usable, Kinds
<1>5. \A s \in Some(Scopes) : Foreign(s) \in StType
  BY LeaseConstants DEF Foreign, StType, Some, Usable, Kinds
<1> QED
  BY <1>1, <1>2, <1>3, <1>4, <1>5

(* A call that has just been issued is well typed. *)
LEMMA IssueTyped ==
  ASSUME NEW op \in Ops, NEW s \in Some(Scopes), NEW f \in Nat
  PROVE  Issue(op, s, f) \in CallType
  BY LeaseConstants DEF Issue, CallType, Some, Usable, Ops

(* So is a call of which one field was replaced. *)
LEMMA CallUpdated ==
  ASSUME NEW c \in CallType
  PROVE  /\ \A g \in Some(Scopes) : [c EXCEPT !.goal = g] \in CallType
         /\ \A n \in 0..Usable : [c EXCEPT !.age = n] \in CallType
         /\ \A n \in 0..Usable : [c EXCEPT !.left = n] \in CallType
  BY LeaseConstants DEF CallType, Usable

(* What becomes of a call: answered without a row, on the wire of a process *)
(* that is gone, aged by a unit of time, turned into the cached observation. *)
LEMMA CallTyped ==
  ASSUME NEW c \in CallType
  PROVE  /\ Nothing(c) \in CallType
         /\ OnWire(c) \in CallType
         /\ \A p : Older(p, c) \in CallType
         /\ Observe(c) \in StType
         /\ Foreign(c.scope) \in StType
         /\ \A op \in Ops : Issue(op, c.scope, c.fence) \in CallType
<1>0. /\ c.age \in 0..Usable /\ c.left \in 0..Usable /\ 0 \in 0..Usable
      /\ c.scope \in Some(Scopes) /\ c.fence \in Nat
  BY LeaseConstants DEF CallType, Usable
<1>1. Nothing(c) \in CallType
  BY LeaseConstants DEF Nothing, Reply, CallType, Usable
<1>2. OnWire(c) \in CallType
  BY <1>0, EmptyTyped, CallUpdated DEF OnWire
<1>3. ASSUME NEW p PROVE Older(p, c) \in CallType
  <2>1. (IF c.age < Usable THEN c.age + 1 ELSE c.age) \in 0..Usable
    BY <1>0, LeaseConstants DEF Usable
  <2>2. Charge(c.left, 1) \in 0..Usable
    BY <1>0, LeaseConstants DEF Usable, Charge
  <2> QED
    BY <2>1, <2>2, CallUpdated DEF Older
<1>4. Observe(c) \in StType
  BY LeaseConstants DEF Observe, CallType, StType, Kinds
<1> QED
  BY <1>0, <1>1, <1>2, <1>3, <1>4, EmptyTyped, IssueTyped

(* A statement answered with a row. *)
LEMMA ReturningTyped ==
  ASSUME NEW c \in CallType, NEW r \in RowType
  PROVE  Returning(c, r) \in CallType
  BY LeaseConstants DEF Returning, Reply, Charge, RowType, CallType, Usable

(* Rows as PostgreSQL writes them. *)
LEMMA RowTyped ==
  ASSUME NEW r \in RowType
  PROVE  /\ \A p \in Procs, f \in Nat : Upsert(p, r, f) \in RowType
         /\ [r EXCEPT !.left = TTL] \in RowType
         /\ [r EXCEPT !.left = Charge(@, 1)] \in RowType
         /\ [r EXCEPT !.reconciled = TRUE] \in RowType
<1>1. \A p \in Procs, f \in Nat : Upsert(p, r, f) \in RowType
  BY LeaseConstants DEF Upsert, RowType, Some
<1>2. [r EXCEPT !.left = TTL] \in RowType
  BY LeaseConstants DEF RowType
<1>3. [r EXCEPT !.left = Charge(@, 1)] \in RowType
  BY LeaseConstants DEF RowType, Charge
<1>4. [r EXCEPT !.reconciled = TRUE] \in RowType
  BY LeaseConstants DEF RowType
<1> QED
  BY <1>1, <1>2, <1>3, <1>4

(* The cached observation and an order past the guard, a unit of time later. *)
LEMMA AgedTyped ==
  /\ \A x \in StType : [x EXCEPT !.left = Charge(@, 1)] \in StType
  /\ \A x \in PostType : x.age < MaxPause => [x EXCEPT !.age = @ + 1] \in PostType
<1>1. \A x \in StType : [x EXCEPT !.left = Charge(@, 1)] \in StType
  BY LeaseConstants DEF StType, Charge, Usable
<1>2. \A x \in PostType : x.age < MaxPause => [x EXCEPT !.age = @ + 1] \in PostType
  BY LeaseConstants DEF PostType
<1> QED
  BY <1>1, <1>2

(* Time changes nothing of a call but its age and the life left of its answer. *)
LEMMA OlderKeeps ==
  ASSUME NEW c \in CallType, NEW p
  PROVE  /\ Older(p, c).op = c.op /\ Older(p, c).ans = c.ans
         /\ Older(p, c).scope = c.scope /\ Older(p, c).goal = c.goal
         /\ Older(p, c).fence = c.fence /\ Older(p, c).reconciled = c.reconciled
         /\ life[p] = "up" /\ c.ans = "row" /\ c.op \in {"acquire", "renew", "stamp"} =>
              Older(p, c).left = Charge(c.left, 1)
  BY DEF Older, CallType

(* The same of the cached observation ... *)
LEMMA StKeeps ==
  ASSUME NEW x \in StType, NEW y, y = [x EXCEPT !.left = Charge(@, 1)]
  PROVE  /\ y.kind = x.kind /\ y.scope = x.scope /\ y.fence = x.fence
         /\ y.reconciled = x.reconciled /\ y.left = Charge(x.left, 1)
  BY DEF StType

(* ... and of an order past the guard. *)
LEMMA PostKeeps ==
  ASSUME NEW x \in PostType, NEW y, y = [x EXCEPT !.age = @ + 1]
  PROVE  /\ y.scope = x.scope /\ y.use = x.use /\ y.kind = x.kind
         /\ y.age = x.age + 1
  BY DEF PostType

(* Every call names the account it is about. *)
Named ==
  \A p \in Procs :
    /\ call[p].op # "idle" => call[p].scope \in Scopes
    /\ call[p].op = "release" => call[p].goal \in Scopes
    /\ stamp[p].op # "idle" => stamp[p].scope \in Scopes
    /\ bye[p].op # "idle" => bye[p].scope \in Scopes
    /\ st[p].kind = "held" => st[p].scope \in Scopes

(* Every step keeps the types, given that calls name their account. *)
LEMMA TypeNext ==
  TypeOK /\ Named /\ [Next]_vars => TypeOK'
<1> SUFFICES ASSUME TypeOK, Named, [Next]_vars PROVE TypeOK'
  OBVIOUS
<1> USE LeaseConstants, EmptyTyped DEF TypeOK, Lives
<1>0. ASSUME NEW p \in Procs
      PROVE  /\ st[p].fence \in Nat /\ st[p].scope \in Some(Scopes)
             /\ call[p].fence \in Nat /\ call[p].scope \in Some(Scopes)
             /\ call[p].goal \in Some(Scopes) /\ call[p].age \in 0..Usable
             /\ call[p] \in CallType /\ stamp[p] \in CallType /\ bye[p] \in CallType
  BY DEF StType, CallType
<1>1. CASE UNCHANGED vars
  BY <1>1 DEF vars
<1>2. CASE Tick
  <2>1. row' \in [Scopes -> RowType]
    BY <1>2, RowTyped DEF Tick
  <2>2. st' \in [Procs -> StType]
    BY <1>2, AgedTyped DEF Tick
  <2>3. call' \in [Procs -> CallType] /\ stamp' \in [Procs -> CallType]
    BY <1>2, CallTyped DEF Tick
  <2>4. post' \in [Procs -> PostType]
    BY <1>2, AgedTyped DEF Tick
  <2> QED
    BY <1>2, <2>1, <2>2, <2>3, <2>4 DEF Tick
<1>3. ASSUME NEW p \in Procs, Dispose(p) PROVE TypeOK'
  BY <1>3, <1>0 DEF Dispose, Upset
<1>4. ASSUME NEW p \in Procs, Release(p) PROVE TypeOK'
  <2>1. Issue("release", cur[p], st[p].fence) \in CallType
    BY <1>4, <1>0, IssueTyped DEF Release, Ops
  <2> QED
    BY <1>4, <2>1, <1>0 DEF Release
<1>5. ASSUME NEW p \in Procs, Exit(p) PROVE TypeOK'
  <2>1. OnWire(call[p]) \in CallType /\ OnWire(stamp[p]) \in CallType
    BY <1>5, <1>0, CallTyped DEF Exit
  <2> QED
    BY <1>5, <2>1, <1>0 DEF Exit, Gone, Some
<1>6. ASSUME NEW p \in Procs, Crash(p) PROVE TypeOK'
  <2>1. OnWire(call[p]) \in CallType /\ OnWire(stamp[p]) \in CallType /\ OnWire(bye[p]) \in CallType
    BY <1>6, <1>0, CallTyped DEF Crash
  <2> QED
    BY <1>6, <2>1, <1>0 DEF Crash, Gone, Upset, Some
<1>7. ASSUME NEW p \in Procs, RefreshNoAccount(p) PROVE TypeOK'
  BY <1>7, <1>0 DEF RefreshNoAccount, AdoptUnproven, Adopt
<1>8. ASSUME NEW p \in Procs, RefreshSwitch(p) PROVE TypeOK'
  <2>1. [Issue("release", cur[p], st[p].fence) EXCEPT !.goal = account[p]] \in CallType
    BY <1>8, <1>0, IssueTyped, CallUpdated DEF RefreshSwitch, Ops
  <2> QED
    BY <1>8, <2>1, <1>0 DEF RefreshSwitch
<1>9. ASSUME NEW p \in Procs, RefreshLease(p) PROVE TypeOK'
  <2>1. StartLease(st[p], account[p]) \in CallType
    BY <1>9, <1>0, IssueTyped DEF RefreshLease, Ops, StartLease
  <2> QED
    BY <1>9, <2>1, <1>0 DEF RefreshLease, Some
<1>10. ASSUME NEW p \in Procs, SwitchAnswered(p) PROVE TypeOK'
  <2>1. StartLease(Unproven, call[p].goal) \in CallType
    BY <1>10, <1>0, IssueTyped DEF SwitchAnswered, Ops, StartLease, Unproven
  <2> QED
    BY <1>10, <2>1, <1>0 DEF SwitchAnswered, Adopt, Some
<1>11. ASSUME NEW p \in Procs, RenewAnswered(p) PROVE TypeOK'
  <2>1. /\ Observe(call[p]) \in StType /\ Foreign(call[p].scope) \in StType
        /\ Issue("reconcile", call[p].scope, call[p].fence) \in CallType
    BY <1>11, <1>0, CallTyped DEF RenewAnswered, Ops
  <2>2. st' \in [Procs -> StType]
    BY <1>11, <2>1 DEF RenewAnswered, Adopt
  <2>3. stamp' \in [Procs -> CallType]
    BY <1>11, <2>1 DEF RenewAnswered, StampAfter
  <2>4. pass' \in [Procs -> BOOLEAN] /\ missed' \in [Procs -> SUBSET Some(Scopes)]
    BY <1>11 DEF RenewAnswered, StampAfter, JoinPass
  <2> QED
    BY <1>11, <1>0, <2>2, <2>3, <2>4 DEF RenewAnswered
<1>12. ASSUME NEW p \in Procs, RenewFails(p) PROVE TypeOK'
  BY <1>12, <1>0 DEF RenewFails, Upset
<1>13. ASSUME NEW p \in Procs, AcquireAnswered(p) PROVE TypeOK'
  <2>1. /\ Observe(call[p]) \in StType /\ Foreign(call[p].scope) \in StType
        /\ Issue("reconcile", call[p].scope, call[p].fence) \in CallType
    BY <1>13, <1>0, CallTyped DEF AcquireAnswered, Ops
  <2>2. st' \in [Procs -> StType]
    BY <1>13, <2>1 DEF AcquireAnswered, Adopt
  <2>3. stamp' \in [Procs -> CallType]
    BY <1>13, <2>1 DEF AcquireAnswered, StampAfter
  <2>4. pass' \in [Procs -> BOOLEAN] /\ missed' \in [Procs -> SUBSET Some(Scopes)]
    BY <1>13 DEF AcquireAnswered, StampAfter, JoinPass
  <2> QED
    BY <1>13, <1>0, <2>2, <2>3, <2>4 DEF AcquireAnswered
<1>14. ASSUME NEW p \in Procs, AcquireFails(p) PROVE TypeOK'
  BY <1>14, <1>0 DEF AcquireFails, Upset, AdoptUnproven, Adopt
<1>15. ASSUME NEW p \in Procs, ReconcileEnds(p) PROVE TypeOK'
  <2>1. Issue("stamp", stamp[p].scope, stamp[p].fence) \in CallType /\ stamp[p].fence \in Nat
    BY <1>15, <1>0, CallTyped DEF ReconcileEnds, Ops, CallType
  <2> QED
    BY <1>15, <2>1, <1>0 DEF ReconcileEnds
<1>16. ASSUME NEW p \in Procs, StampAnswered(p) PROVE TypeOK'
  <2>1. Observe(stamp[p]) \in StType /\ Foreign(stamp[p].scope) \in StType
    BY <1>16, <1>0, CallTyped DEF StampAnswered
  <2> QED
    BY <1>16, <2>1, <1>0 DEF StampAnswered, Adopt
<1>17. ASSUME NEW p \in Procs, StampFails(p) PROVE TypeOK'
  BY <1>17, <1>0 DEF StampFails, Upset
<1>18. ASSUME NEW p \in Procs, ExecDraw(p) PROVE TypeOK'
  <2>0. Issue("acquire", call[p].scope, seq + 1) \in CallType
    BY <1>0, IssueTyped DEF Ops
  <2>1. [Issue("acquire", call[p].scope, seq + 1) EXCEPT !.age = call[p].age] \in CallType
    BY <2>0, <1>0, CallUpdated
  <2> QED
    BY <1>18, <2>1, <1>0 DEF ExecDraw, Answer, Pending
<1>19. ASSUME NEW p \in Procs, ExecAcquire(p) PROVE TypeOK'
  <2> DEFINE c == call[p]
             n == Upsert(p, row[c.scope], c.fence)
  <2>1. c \in CallType /\ row[c.scope] \in RowType /\ c.fence \in Nat
    BY <1>19, <1>0 DEF ExecAcquire, Pending, Named, CallType
  <2>2. n \in RowType
    BY <2>1, RowTyped
  <2>3. Returning(c, n) \in CallType /\ Nothing(c) \in CallType
    BY <2>1, <2>2, CallTyped, ReturningTyped
  <2> QED
    BY <1>19, <2>1, <2>2, <2>3 DEF ExecAcquire, Answer
<1>20. ASSUME NEW p \in Procs, ExecRenew(p) PROVE TypeOK'
  <2> DEFINE c == call[p]
             n == [row[c.scope] EXCEPT !.left = TTL]
  <2>1. c \in CallType /\ row[c.scope] \in RowType /\ c.fence \in Nat
    BY <1>20, <1>0 DEF ExecRenew, Pending, Named, CallType
  <2>2. n \in RowType
    BY <2>1, RowTyped
  <2>3. Returning(c, n) \in CallType /\ Nothing(c) \in CallType
    BY <2>1, <2>2, CallTyped, ReturningTyped
  <2> QED
    BY <1>20, <2>1, <2>2, <2>3 DEF ExecRenew, Answer
<1>21. ASSUME NEW p \in Procs, ExecStamp(p) PROVE TypeOK'
  <2> DEFINE c == stamp[p]
             n == [row[c.scope] EXCEPT !.reconciled = TRUE]
  <2>1. c \in CallType /\ row[c.scope] \in RowType /\ c.fence \in Nat
    BY <1>21, <1>0 DEF ExecStamp, Pending, Named, CallType
  <2>2. n \in RowType
    BY <2>1, RowTyped
  <2>3. Returning(c, n) \in CallType /\ Nothing(c) \in CallType
    BY <2>1, <2>2, CallTyped, ReturningTyped
  <2> QED
    BY <1>21, <2>1, <2>2, <2>3 DEF ExecStamp, Answer
<1>22. ASSUME NEW p \in Procs, ExecSwitchRelease(p) PROVE TypeOK'
  <2>1. Nothing(call[p]) \in CallType
    BY <1>0, CallTyped
  <2> QED
    BY <1>22, <2>1 DEF ExecSwitchRelease, Answer, DeleteRow
<1>23. ASSUME NEW p \in Procs, ExecRelease(p) PROVE TypeOK'
  <2>1. Nothing(bye[p]) \in CallType
    BY <1>0, CallTyped
  <2> QED
    BY <1>23, <2>1 DEF ExecRelease, Answer, DeleteRow
<1>24. ASSUME NEW p \in Procs, Transmit(p) PROVE TypeOK'
  <2>1. missed' \in [Procs -> SUBSET Some(Scopes)]
    BY <1>24 DEF Transmit, PostType
  <2> QED
    BY <1>24, <2>1, <1>0 DEF Transmit
<1>25. ASSUME NEW p \in Procs, NEW a \in Some(Scopes), SetAccount(p, a) PROVE TypeOK'
  BY <1>25 DEF SetAccount, Upset
<1>26. ASSUME NEW p \in Procs, NEW use \in Uses, Guard(p, use) PROVE TypeOK'
  BY <1>26 DEF Guard, PostType, StType
<1>27. ASSUME NEW p \in Procs, PassBegins(p) PROVE TypeOK'
  BY <1>27 DEF PassBegins, JoinPass, Upset
<1>28. ASSUME NEW p \in Procs, PassEnds(p) PROVE TypeOK'
  BY <1>28 DEF PassEnds
<1> QED
  BY <1>1, <1>2, <1>3, <1>4, <1>5, <1>6, <1>7, <1>8, <1>9, <1>10, <1>11, <1>12, <1>13, <1>14, <1>15, <1>16, <1>17, <1>18, <1>19, <1>20, <1>21, <1>22, <1>23, <1>24, <1>25, <1>26,
     <1>27, <1>28 DEF Next, Step
-----------------------------------------------------------------------------
(* The inductive invariant.  It speaks of the processes whose account was   *)
(* never replaced and that have not begun to shut down.                     *)

Settled(p) == life[p] = "up" /\ ~moved[p]

(* Everything such a process knows and does is about its one account. *)
AtHome(p) ==
  /\ account[p] \in {None, home[p]}
  /\ cur[p] \in {None, home[p]}
  /\ call[p].op # "idle" => call[p].scope = home[p] /\ call[p].op # "release"
  /\ stamp[p].op # "idle" => stamp[p].scope = home[p]
  /\ st[p].kind = "held" => st[p].scope = home[p]
  /\ post[p] # NoPost => post[p].scope = home[p] /\ home[p] # None

(* Provable life is backed by the row: still this owner, still this fence,  *)
(* and the row outlives the belief by the guard margin.                     *)
Backed(p, b) ==
  b.left > 0 => /\ row[b.scope].owner = p
                /\ row[b.scope].fence = b.fence
                /\ row[b.scope].left >= b.left + Margin
                /\ b.reconciled => row[b.scope].reconciled

(* The cached observation is backed, and so is every answer under way.      *)
Believes(p) ==
  /\ st[p].kind = "held" => Backed(p, st[p])
  /\ call[p].ans = "row" => Backed(p, call[p]) /\ call[p].op \in {"acquire", "renew"}
  /\ stamp[p].ans = "row" => Backed(p, stamp[p]) /\ stamp[p].op = "stamp"

(* An order past the guard is covered by the row for the rest of its pause. *)
Covered(p) ==
  /\ post[p].use = "new_entry" => post[p].kind = "held"
  /\ post[p].kind = "held" =>
       /\ row[post[p].scope].owner = p
       /\ row[post[p].scope].left + post[p].age > Margin
       /\ post[p].use = "new_entry" => row[post[p].scope].reconciled

(* A stamp on the row means a pass completed under the row's fence.         *)
Fenced(p) ==
  /\ \A s \in Scopes : row[s].owner = p => s = home[p]
  /\ home[p] # None /\ row[home[p]].owner = p =>
       /\ call[p].ans = "row" => call[p].fence = row[home[p]].fence
       /\ row[home[p]].reconciled =>
            /\ passed[p] = row[home[p]].fence
            /\ stamp[p].op = "reconcile" => stamp[p].fence = row[home[p]].fence
  /\ stamp[p].op = "stamp" /\ stamp[p].ans = "pending" => stamp[p].fence = passed[p]

Good(p) == AtHome(p) /\ Believes(p) /\ Covered(p) /\ Fenced(p)

LifeOrder ==
  \A p \in Procs :
    /\ post[p] # NoPost => life[p] = "up"
    /\ bye[p].op # "idle" => life[p] \in {"released", "dead"}

IInv ==
  /\ TypeOK
  /\ Named
  /\ LifeOrder
  /\ \A p \in Procs : Settled(p) => Good(p)
(* What a unit of time leaves as it was, and what it takes, at one process. *)
LEMMA TickKeeps ==
  ASSUME TypeOK, Tick, NEW p \in Procs
  PROVE  /\ call'[p].op = call[p].op /\ call'[p].ans = call[p].ans
         /\ call'[p].scope = call[p].scope /\ call'[p].goal = call[p].goal
         /\ call'[p].fence = call[p].fence /\ call'[p].reconciled = call[p].reconciled
         /\ life[p] = "up" /\ call[p].ans = "row" /\ call[p].op \in {"acquire", "renew"} =>
              call'[p].left = Charge(call[p].left, 1)
         /\ stamp'[p].op = stamp[p].op /\ stamp'[p].ans = stamp[p].ans
         /\ stamp'[p].scope = stamp[p].scope
         /\ stamp'[p].fence = stamp[p].fence /\ stamp'[p].reconciled = stamp[p].reconciled
         /\ life[p] = "up" /\ stamp[p].ans = "row" /\ stamp[p].op = "stamp" =>
              stamp'[p].left = Charge(stamp[p].left, 1)
         /\ st'[p].kind = st[p].kind /\ st'[p].scope = st[p].scope
         /\ st'[p].fence = st[p].fence /\ st'[p].reconciled = st[p].reconciled
         /\ st'[p].left = Charge(st[p].left, 1)
<1>1. /\ call[p] \in CallType /\ stamp[p] \in CallType /\ st[p] \in StType
  BY DEF TypeOK
<1>2. /\ call'[p] = Older(p, call[p]) /\ stamp'[p] = Older(p, stamp[p])
      /\ st'[p] = [st[p] EXCEPT !.left = Charge(@, 1)]
  BY DEF Tick
<1>3. /\ call'[p].op = call[p].op /\ call'[p].ans = call[p].ans
      /\ call'[p].scope = call[p].scope /\ call'[p].goal = call[p].goal
      /\ call'[p].fence = call[p].fence /\ call'[p].reconciled = call[p].reconciled
      /\ life[p] = "up" /\ call[p].ans = "row" /\ call[p].op \in {"acquire", "renew"} =>
           call'[p].left = Charge(call[p].left, 1)
  BY <1>1, <1>2, OlderKeeps
<1>4. /\ stamp'[p].op = stamp[p].op /\ stamp'[p].ans = stamp[p].ans
      /\ stamp'[p].scope = stamp[p].scope
      /\ stamp'[p].fence = stamp[p].fence /\ stamp'[p].reconciled = stamp[p].reconciled
      /\ life[p] = "up" /\ stamp[p].ans = "row" /\ stamp[p].op = "stamp" =>
           stamp'[p].left = Charge(stamp[p].left, 1)
  BY <1>1, <1>2, OlderKeeps
<1>5. /\ st'[p].kind = st[p].kind /\ st'[p].scope = st[p].scope
      /\ st'[p].fence = st[p].fence /\ st'[p].reconciled = st[p].reconciled
      /\ st'[p].left = Charge(st[p].left, 1)
  BY <1>1, <1>2, StKeeps
<1> QED
  BY <1>3, <1>4, <1>5

-----------------------------------------------------------------------------
(* Preservation of the invariant.                                          *)

(* Every step keeps calls named. *)
LEMMA NamedNext ==
  TypeOK /\ Named /\ [Next]_vars => Named'
<1> SUFFICES ASSUME TypeOK, Named, [Next]_vars PROVE Named'
  OBVIOUS
<1>2. CASE Tick
  <2>1. bye' = bye
    BY <1>2 DEF Tick
  <2> QED
    BY <1>2, <2>1, TickKeeps DEF Named
<1> USE LeaseConstants DEF TypeOK, Named, Some
<1>1. CASE UNCHANGED vars
  BY <1>1 DEF vars
<1>3. ASSUME NEW p \in Procs, Dispose(p) PROVE Named'
  BY <1>3 DEF Dispose
<1>4. ASSUME NEW p \in Procs, Release(p) PROVE Named'
  BY <1>4 DEF Release, Issue, Executing
<1>5. ASSUME NEW p \in Procs, Exit(p) PROVE Named'
  BY <1>5 DEF Exit, Gone, OnWire, NoCall, Unproven
<1>6. ASSUME NEW p \in Procs, Crash(p) PROVE Named'
  BY <1>6 DEF Crash, Gone, OnWire, NoCall, Unproven
<1>7. ASSUME NEW p \in Procs, RefreshNoAccount(p) PROVE Named'
  BY <1>7 DEF RefreshNoAccount, AdoptUnproven, Adopt, Unproven
<1>8. ASSUME NEW p \in Procs, RefreshSwitch(p) PROVE Named'
  BY <1>8 DEF RefreshSwitch, Issue
<1>9. ASSUME NEW p \in Procs, RefreshLease(p) PROVE Named'
  BY <1>9 DEF RefreshLease, StartLease, Issue
<1>10. ASSUME NEW p \in Procs, SwitchAnswered(p) PROVE Named'
  BY <1>10 DEF SwitchAnswered, StartLease, Issue, Adopt, Unproven
<1>11. ASSUME NEW p \in Procs, RenewAnswered(p) PROVE Named'
  BY <1>11 DEF RenewAnswered, Adopt, Foreign, Observe, StampAfter, Issue, NoCall
<1>12. ASSUME NEW p \in Procs, RenewFails(p) PROVE Named'
  BY <1>12 DEF RenewFails, NoCall
<1>13. ASSUME NEW p \in Procs, AcquireAnswered(p) PROVE Named'
  BY <1>13 DEF AcquireAnswered, Adopt, Foreign, Observe, StampAfter, Issue, NoCall
<1>14. ASSUME NEW p \in Procs, AcquireFails(p) PROVE Named'
  BY <1>14 DEF AcquireFails, AdoptUnproven, Adopt, Unproven, NoCall
<1>15. ASSUME NEW p \in Procs, ReconcileEnds(p) PROVE Named'
  BY <1>15 DEF ReconcileEnds, Issue, NoCall
<1>16. ASSUME NEW p \in Procs, StampAnswered(p) PROVE Named'
  BY <1>16 DEF StampAnswered, Adopt, Foreign, Observe, NoCall
<1>17. ASSUME NEW p \in Procs, StampFails(p) PROVE Named'
  BY <1>17 DEF StampFails, NoCall
<1>18. ASSUME NEW p \in Procs, ExecDraw(p) PROVE Named'
  BY <1>18 DEF ExecDraw, Pending, Answer, Issue, NoCall
<1>19. ASSUME NEW p \in Procs, ExecAcquire(p) PROVE Named'
  <2>1. /\ call' = [call EXCEPT ![p] = call'[p]]
        /\ stamp' = stamp /\ bye' = bye /\ st' = st
    BY <1>19 DEF ExecAcquire
  <2>2. \/ call'[p].op = "idle"
        \/ /\ call'[p].op = call[p].op /\ call'[p].scope = call[p].scope
           /\ call'[p].goal = call[p].goal
    BY <1>19 DEF ExecAcquire, Answer, Returning, Nothing, Reply, NoCall
  <2> QED
    BY <2>1, <2>2
<1>20. ASSUME NEW p \in Procs, ExecRenew(p) PROVE Named'
  <2>1. /\ call' = [call EXCEPT ![p] = call'[p]]
        /\ stamp' = stamp /\ bye' = bye /\ st' = st
    BY <1>20 DEF ExecRenew
  <2>2. \/ call'[p].op = "idle"
        \/ /\ call'[p].op = call[p].op /\ call'[p].scope = call[p].scope
           /\ call'[p].goal = call[p].goal
    BY <1>20 DEF ExecRenew, Answer, Returning, Nothing, Reply, NoCall
  <2> QED
    BY <2>1, <2>2
<1>21. ASSUME NEW p \in Procs, ExecStamp(p) PROVE Named'
  <2>1. /\ stamp' = [stamp EXCEPT ![p] = stamp'[p]]
        /\ call' = call /\ bye' = bye /\ st' = st
    BY <1>21 DEF ExecStamp
  <2>2. \/ stamp'[p].op = "idle"
        \/ /\ stamp'[p].op = stamp[p].op /\ stamp'[p].scope = stamp[p].scope
           /\ stamp'[p].goal = stamp[p].goal
    BY <1>21 DEF ExecStamp, Answer, Returning, Nothing, Reply, NoCall
  <2> QED
    BY <2>1, <2>2
<1>22. ASSUME NEW p \in Procs, ExecSwitchRelease(p) PROVE Named'
  BY <1>22 DEF ExecSwitchRelease, Pending, Answer, Nothing, Reply, NoCall
<1>23. ASSUME NEW p \in Procs, ExecRelease(p) PROVE Named'
  BY <1>23 DEF ExecRelease, Pending, Answer, Nothing, Reply, NoCall
<1>24. ASSUME NEW p \in Procs, Transmit(p) PROVE Named'
  BY <1>24 DEF Transmit
<1>25. ASSUME NEW p \in Procs, NEW a \in Some(Scopes), SetAccount(p, a) PROVE Named'
  BY <1>25 DEF SetAccount
<1>26. ASSUME NEW p \in Procs, NEW use \in Uses, Guard(p, use) PROVE Named'
  BY <1>26 DEF Guard
<1>27. ASSUME NEW p \in Procs, PassBegins(p) PROVE Named'
  BY <1>27 DEF PassBegins, JoinPass
<1>28. ASSUME NEW p \in Procs, PassEnds(p) PROVE Named'
  BY <1>28 DEF PassEnds
<1> QED
  BY <1>1, <1>2, <1>3, <1>4, <1>5, <1>6, <1>7, <1>8, <1>9, <1>10, <1>11, <1>12, <1>13, <1>14, <1>15, <1>16, <1>17, <1>18, <1>19, <1>20, <1>21, <1>22, <1>23, <1>24, <1>25, <1>26,
     <1>27, <1>28 DEF Next, Step

(* An order past the guard keeps the process up; a release is its last call. *)
LEMMA LifeOrderNext ==
  TypeOK /\ LifeOrder /\ [Next]_vars => LifeOrder'
<1> SUFFICES ASSUME TypeOK, LifeOrder, [Next]_vars PROVE LifeOrder'
  OBVIOUS
<1>2. CASE Tick
  <2>1. ASSUME NEW p \in Procs, post'[p] # NoPost PROVE post[p] # NoPost
    <3>1. CASE post[p].kind = "held"
      BY <3>1 DEF NoPost
    <3>2. CASE post[p].kind # "held"
      BY <1>2, <2>1, <3>2 DEF Tick
    <3> QED
      BY <3>1, <3>2
  <2> QED
    BY <1>2, <2>1 DEF Tick, LifeOrder
<1> USE DEF TypeOK, LifeOrder, Lives
<1>1. CASE UNCHANGED vars
  BY <1>1 DEF vars
<1>3. ASSUME NEW p \in Procs, Dispose(p) PROVE LifeOrder'
  BY <1>3 DEF Dispose, Executing
<1>4. ASSUME NEW p \in Procs, Release(p) PROVE LifeOrder'
  BY <1>4 DEF Release, Executing, Issue
<1>5. ASSUME NEW p \in Procs, Exit(p) PROVE LifeOrder'
  BY <1>5 DEF Exit, Gone, NoCall
<1>6. ASSUME NEW p \in Procs, Crash(p) PROVE LifeOrder'
  BY <1>6 DEF Crash, Gone, OnWire, NoCall
<1>7. ASSUME NEW p \in Procs, RefreshNoAccount(p) PROVE LifeOrder'
  BY <1>7 DEF RefreshNoAccount
<1>8. ASSUME NEW p \in Procs, RefreshSwitch(p) PROVE LifeOrder'
  BY <1>8 DEF RefreshSwitch
<1>9. ASSUME NEW p \in Procs, RefreshLease(p) PROVE LifeOrder'
  BY <1>9 DEF RefreshLease
<1>10. ASSUME NEW p \in Procs, SwitchAnswered(p) PROVE LifeOrder'
  BY <1>10 DEF SwitchAnswered
<1>11. ASSUME NEW p \in Procs, RenewAnswered(p) PROVE LifeOrder'
  BY <1>11 DEF RenewAnswered
<1>12. ASSUME NEW p \in Procs, RenewFails(p) PROVE LifeOrder'
  BY <1>12 DEF RenewFails
<1>13. ASSUME NEW p \in Procs, AcquireAnswered(p) PROVE LifeOrder'
  BY <1>13 DEF AcquireAnswered
<1>14. ASSUME NEW p \in Procs, AcquireFails(p) PROVE LifeOrder'
  BY <1>14 DEF AcquireFails
<1>15. ASSUME NEW p \in Procs, ReconcileEnds(p) PROVE LifeOrder'
  BY <1>15 DEF ReconcileEnds
<1>16. ASSUME NEW p \in Procs, StampAnswered(p) PROVE LifeOrder'
  BY <1>16 DEF StampAnswered
<1>17. ASSUME NEW p \in Procs, StampFails(p) PROVE LifeOrder'
  BY <1>17 DEF StampFails
<1>18. ASSUME NEW p \in Procs, ExecDraw(p) PROVE LifeOrder'
  BY <1>18 DEF ExecDraw
<1>19. ASSUME NEW p \in Procs, ExecAcquire(p) PROVE LifeOrder'
  BY <1>19 DEF ExecAcquire
<1>20. ASSUME NEW p \in Procs, ExecRenew(p) PROVE LifeOrder'
  BY <1>20 DEF ExecRenew
<1>21. ASSUME NEW p \in Procs, ExecStamp(p) PROVE LifeOrder'
  BY <1>21 DEF ExecStamp
<1>22. ASSUME NEW p \in Procs, ExecSwitchRelease(p) PROVE LifeOrder'
  BY <1>22 DEF ExecSwitchRelease
<1>23. ASSUME NEW p \in Procs, ExecRelease(p) PROVE LifeOrder'
  BY <1>23 DEF ExecRelease, Pending, Answer, Nothing, Reply, NoCall
<1>24. ASSUME NEW p \in Procs, Transmit(p) PROVE LifeOrder'
  BY <1>24 DEF Transmit
<1>25. ASSUME NEW p \in Procs, NEW a \in Some(Scopes), SetAccount(p, a) PROVE LifeOrder'
  BY <1>25 DEF SetAccount
<1>26. ASSUME NEW p \in Procs, NEW use \in Uses, Guard(p, use) PROVE LifeOrder'
  BY <1>26 DEF Guard
<1>27. ASSUME NEW p \in Procs, PassBegins(p) PROVE LifeOrder'
  BY <1>27 DEF PassBegins, JoinPass
<1>28. ASSUME NEW p \in Procs, PassEnds(p) PROVE LifeOrder'
  BY <1>28 DEF PassEnds
<1> QED
  BY <1>1, <1>2, <1>3, <1>4, <1>5, <1>6, <1>7, <1>8, <1>9, <1>10, <1>11, <1>12, <1>13, <1>14, <1>15, <1>16, <1>17, <1>18, <1>19, <1>20, <1>21, <1>22, <1>23, <1>24, <1>25, <1>26,
     <1>27, <1>28 DEF Next, Step

(* Statements of other processes leave a live row of p alone, and never make *)
(* p an owner.                                                              *)
RowKept(p) ==
  \A s \in Scopes :
    /\ row[s].owner = p /\ row[s].left > 0 => row'[s] = row[s]
    /\ row'[s].owner = p => row'[s] = row[s]

LEMMA RowOfOthers ==
  ASSUME TypeOK, Named, NEW q \in Procs, NEW p \in Procs, p # q,
         \/ ExecAcquire(q) \/ ExecRenew(q) \/ ExecStamp(q)
         \/ ExecSwitchRelease(q) \/ ExecRelease(q)
  PROVE  RowKept(p)
<1> USE LeaseConstants DEF RowKept, TypeOK, Named
<1>1. CASE ExecAcquire(q)
  BY <1>1 DEF ExecAcquire, Pending, Upsert, RowType
<1>2. CASE ExecRenew(q)
  BY <1>2 DEF ExecRenew, Pending, Holds, RowType
<1>3. CASE ExecStamp(q)
  BY <1>3 DEF ExecStamp, Pending, Holds, RowType
<1>4. CASE ExecSwitchRelease(q)
  BY <1>4 DEF ExecSwitchRelease, Pending, DeleteRow, NoRow
<1>5. CASE ExecRelease(q)
  BY <1>5 DEF ExecRelease, Pending, DeleteRow, NoRow
<1> QED
  BY <1>1, <1>2, <1>3, <1>4, <1>5

(* What a process knows stays good while others act.                        *)
SameAt(p) ==
  /\ life'[p] = life[p] /\ moved'[p] = moved[p] /\ account'[p] = account[p]
  /\ home'[p] = home[p] /\ cur'[p] = cur[p] /\ call'[p] = call[p]
  /\ stamp'[p] = stamp[p] /\ st'[p] = st[p] /\ passed'[p] = passed[p]
  /\ post'[p] = post[p]

LEMMA GoodKept ==
  ASSUME IInv, NEW p \in Procs, Settled(p)', SameAt(p), RowKept(p)
  PROVE  Good(p)'
<1> USE LeaseConstants, PauseWithinMargin
<1>0. /\ Good(p) /\ st[p] \in StType /\ call[p] \in CallType
      /\ stamp[p] \in CallType /\ post[p] \in PostType
      /\ home[p] \in Some(Scopes)
  BY DEF IInv, Settled, SameAt, TypeOK
<1>1. AtHome(p)'
  BY <1>0 DEF Good, AtHome, SameAt
<1>2. ASSUME NEW b, b.scope \in Scopes, b.left \in Nat, Backed(p, b)
      PROVE  b.left > 0 => /\ row'[b.scope].owner = p
                           /\ row'[b.scope].fence = b.fence
                           /\ row'[b.scope].left >= b.left + Margin
                           /\ b.reconciled => row'[b.scope].reconciled
  <2>1. row[b.scope] \in RowType
    BY <1>2 DEF IInv, TypeOK
  <2> QED
    BY <1>2, <2>1 DEF Backed, RowKept, RowType
<1>3. Believes(p)'
  <2>1. /\ st[p].kind = "held" => st[p].scope \in Scopes /\ st[p].left \in Nat
        /\ call[p].ans = "row" => call[p].scope \in Scopes /\ call[p].left \in Nat
        /\ stamp[p].ans = "row" => stamp[p].scope \in Scopes /\ stamp[p].left \in Nat
    BY <1>0 DEF IInv, Named, Good, Believes, StType, CallType, Usable
  <2> QED
    BY <1>0, <1>2, <2>1 DEF Good, Believes, Backed, SameAt
<1>4. Covered(p)'
  <2>1. post[p].kind = "held" => /\ post[p].scope \in Scopes
                         /\ row[post[p].scope].left > 0 /\ row[post[p].scope].owner = p
    BY <1>0 DEF IInv, Good, Covered, PostType, TypeOK, RowType, AtHome, NoPost, Some
  <2> QED
    BY <1>0, <2>1 DEF Good, Covered, SameAt, RowKept
<1>5. Fenced(p)'
  BY <1>0 DEF Good, Fenced, SameAt, RowKept, Some
<1> QED
  BY <1>1, <1>3, <1>4, <1>5 DEF Good

(* A process that adopts an answer, drops a call or starts a pass: the rows  *)
(* are as they were, and what it believes now was backed before.            *)
Adopts(p) ==
  /\ row' = row
  /\ life'[p] = life[p] /\ moved'[p] = moved[p] /\ account'[p] = account[p]
  /\ home'[p] = home[p] /\ passed'[p] = passed[p] /\ post'[p] = post[p]
  /\ cur'[p] \in {None, home[p]}
  /\ call'[p] \in {call[p], NoCall}
  /\ \/ stamp'[p] \in {stamp[p], NoCall}
     \/ /\ call[p].ans = "row"
        /\ stamp'[p] = Issue("reconcile", call[p].scope, call[p].fence)
  /\ \/ st'[p] = st[p]
     \/ st'[p].kind # "held"
     \/ call[p].ans = "row" /\ st'[p] = Observe(call[p])
     \/ stamp[p].ans = "row" /\ st'[p] = Observe(stamp[p])

LEMMA GoodAdopts ==
  ASSUME IInv, NEW p \in Procs, Settled(p), Adopts(p)
  PROVE  Good(p)'
<1>0. Good(p)
  BY DEF IInv
<1>1. AtHome(p)'
  BY <1>0 DEF Good, AtHome, Believes, Adopts, NoCall, Issue, Observe
<1>2. Believes(p)'
  BY <1>0 DEF Good, Believes, Backed, Adopts, NoCall, Issue, Observe
<1>3. Covered(p)'
  BY <1>0 DEF Good, Covered, Adopts
<1>4. Fenced(p)'
  <2>1. call[p].ans = "row" => call[p].scope = home[p] /\ call[p].op # "idle"
    BY <1>0 DEF Good, Believes, AtHome
  <2> QED
    BY <1>0, <2>1 DEF Good, Fenced, Adopts, NoCall, Issue
<1> QED
  BY <1>1, <1>2, <1>3, <1>4 DEF Good

(* A statement of p that PostgreSQL refuses changes only the answer.        *)
LEMMA GoodRefused ==
  ASSUME IInv, NEW p \in Procs, Settled(p),
         row' = row, st' = st, account' = account, home' = home, cur' = cur,
         post' = post, passed' = passed,
         \/ call'[p] = Nothing(call[p]) /\ call[p].op # "idle" /\ stamp' = stamp
         \/ stamp'[p] = Nothing(stamp[p]) /\ stamp[p].op = "stamp" /\ call' = call
  PROVE  Good(p)'
<1>0. Good(p)
  BY DEF IInv
<1>1. AtHome(p)'
  BY <1>0 DEF Good, AtHome, Nothing, Reply
<1>2. Believes(p)'
  BY <1>0 DEF Good, Believes, Backed, Nothing, Reply
<1>3. Covered(p)'
  BY <1>0 DEF Good, Covered
<1>4. Fenced(p)'
  BY <1>0 DEF Good, Fenced, Nothing, Reply
<1> QED
  BY <1>1, <1>2, <1>3, <1>4 DEF Good

(* A statement of p writes the row n of its account: n is p's, it is no     *)
(* worse than a live row p already had there, and a stamp on it is earned.  *)
Writes(p, n) ==
  LET s == home[p]
  IN  /\ s \in Scopes
      /\ row' = [row EXCEPT ![s] = n]
      /\ n.owner = p
      /\ row[s].owner = p /\ row[s].left > 0 =>
           /\ n.fence = row[s].fence /\ n.left >= row[s].left
           /\ row[s].reconciled => n.reconciled
      /\ n.reconciled =>
           /\ passed[p] = n.fence
           /\ stamp[p].op = "reconcile" => stamp[p].fence = n.fence
      /\ st' = st /\ account' = account /\ home' = home /\ cur' = cur
      /\ post' = post /\ passed' = passed
      /\ \/ /\ call[p].op \in {"acquire", "renew"} /\ call[p].scope = s
            /\ call'[p] = Returning(call[p], n)
            /\ stamp' = stamp
         \/ /\ stamp[p].op = "stamp" /\ stamp[p].scope = s
            /\ stamp'[p] = Returning(stamp[p], n)
            /\ call' = call
            /\ row[s].owner = p /\ n.fence = row[s].fence

LEMMA GoodWrites ==
  ASSUME IInv, NEW p \in Procs, Settled(p), NEW n \in RowType, Writes(p, n)
  PROVE  Good(p)'
<1> USE LeaseConstants
<1> DEFINE s == home[p]
<1>0. /\ Good(p) /\ st[p] \in StType /\ call[p] \in CallType
      /\ stamp[p] \in CallType /\ post[p] \in PostType
      /\ s \in Scopes /\ row[s] \in RowType /\ row'[s] = n
      /\ n.left \in Nat /\ n.left <= TTL
      /\ \A x \in Scopes : x # s => row'[x] = row[x]
  BY DEF IInv, TypeOK, Writes, RowType
<1>1. AtHome(p)'
  BY <1>0 DEF Good, AtHome, Writes, Returning, Reply
<1>2. ASSUME NEW b, b.scope = s, b.left \in Nat, Backed(p, b)
      PROVE  b.left > 0 => /\ n.fence = b.fence
                           /\ n.left >= b.left + Margin
                           /\ b.reconciled => n.reconciled
  BY <1>0, <1>2 DEF Backed, Writes, RowType
<1>3. ASSUME NEW c \in CallType, c.scope = s
      PROVE  LET d == Returning(c, n)
             IN  /\ d.ans = "row" /\ d.op = c.op /\ d.scope = s /\ d.fence = n.fence
                 /\ d.reconciled = n.reconciled
                 /\ d.left > 0 => n.left >= d.left + Margin
  BY <1>0, <1>3 DEF Returning, Reply, Charge, CallType, Usable
<1>4. Believes(p)'
  <2>1. /\ st[p].kind = "held" => st[p].scope = s /\ st[p].left \in Nat
        /\ call[p].ans = "row" => call[p].scope = s /\ call[p].left \in Nat
        /\ stamp[p].ans = "row" => stamp[p].scope = s /\ stamp[p].left \in Nat
    BY <1>0 DEF Good, Believes, AtHome, StType, CallType, Usable
  <2>2. st'[p].kind = "held" => Backed(p, st[p])'
    BY <1>0, <1>2, <2>1 DEF Writes, Good, Believes, Backed
  <2>3. CASE /\ call[p].op \in {"acquire", "renew"} /\ call[p].scope = s
             /\ call'[p] = Returning(call[p], n)
             /\ stamp' = stamp
    BY <1>0, <1>2, <1>3, <2>1, <2>2, <2>3 DEF Writes, Good, Believes, Backed
  <2>4. CASE /\ stamp[p].op = "stamp" /\ stamp[p].scope = s
             /\ stamp'[p] = Returning(stamp[p], n)
             /\ call' = call
    BY <1>0, <1>2, <1>3, <2>1, <2>2, <2>4 DEF Writes, Good, Believes, Backed
  <2> QED
    BY <2>3, <2>4 DEF Writes
<1>5. Covered(p)'
  <2>1. post[p].kind = "held" =>
          post[p].scope = s /\ row[s].left > 0 /\ row[s].owner = p /\ post[p].age \in Nat
    BY <1>0, PauseWithinMargin DEF Good, Covered, AtHome, PostType, RowType, NoPost
  <2> QED
    BY <1>0, <2>1 DEF Good, Covered, Writes, RowType
<1>6. Fenced(p)'
  BY <1>0, <1>3 DEF Good, Fenced, Writes
<1> QED
  BY <1>1, <1>4, <1>5, <1>6 DEF Good

(* What the acting process knows stays good. *)
LEMMA GoodSelf ==
  ASSUME IInv, NEW p \in Procs, Settled(p)', Step(p)
  PROVE  Good(p)'
<1> USE LeaseConstants
<1>0. /\ TypeOK /\ Named /\ LifeOrder
      /\ st[p] \in StType /\ call[p] \in CallType
      /\ stamp[p] \in CallType /\ bye[p] \in CallType /\ post[p] \in PostType
      /\ home[p] \in Some(Scopes) /\ account[p] \in Some(Scopes) /\ cur[p] \in Some(Scopes)
      /\ row \in [Scopes -> RowType]
  BY DEF IInv, TypeOK
<1>1. Settled(p) /\ Good(p)
  <2>1. life[p] = "up"
    BY <1>0 DEF Settled, Step, TypeOK, Dispose, Release, Exit, Crash, Gone, SetAccount,
       RefreshNoAccount, RefreshSwitch, RefreshLease, SwitchAnswered, RenewAnswered,
       RenewFails, AcquireAnswered, AcquireFails, PassBegins, PassEnds, ReconcileEnds, StampAnswered,
       StampFails, ExecDraw, ExecAcquire, ExecRenew, ExecStamp, ExecSwitchRelease,
       ExecRelease, Guard, Transmit
  <2>2. ~moved[p]
    BY <1>0 DEF Settled, Step, TypeOK, Dispose, Release, Exit, Crash, Gone, SetAccount,
       RefreshNoAccount, RefreshSwitch, RefreshLease, SwitchAnswered, RenewAnswered,
       RenewFails, AcquireAnswered, AcquireFails, PassBegins, PassEnds, ReconcileEnds, StampAnswered,
       StampFails, ExecDraw, ExecAcquire, ExecRenew, ExecStamp, ExecSwitchRelease,
       ExecRelease, Guard, Transmit
  <2> QED
    BY <2>1, <2>2 DEF Settled, IInv
<1>2. ~Dispose(p) /\ ~Release(p) /\ ~Exit(p) /\ ~Crash(p)
  BY <1>0 DEF Settled, TypeOK, Dispose, Release, Exit, Crash, Gone
<1>3. ~RefreshSwitch(p) /\ ~SwitchAnswered(p) /\ ~ExecSwitchRelease(p) /\ ~ExecRelease(p)
  <2>1. ~RefreshSwitch(p)
    BY <1>1 DEF RefreshSwitch, Good, AtHome
  <2>2. call[p].op # "release"
    BY <1>1 DEF Good, AtHome
  <2>3. bye[p].op # "release"
    BY <1>0, <1>1 DEF LifeOrder, Settled
  <2> QED
    BY <2>1, <2>2, <2>3 DEF SwitchAnswered, ExecSwitchRelease, ExecRelease, Pending
<1>4. CASE RefreshNoAccount(p)
  <2>1. Adopts(p)
    BY <1>0, <1>1, <1>4
    DEF RefreshNoAccount, AdoptUnproven, Adopt, Unproven, Adopts, Good, AtHome, TypeOK
  <2> QED
    BY <1>1, <2>1, GoodAdopts
<1>5. CASE RenewAnswered(p)
  <2>1. Adopts(p)
    BY <1>0, <1>1, <1>5
    DEF RenewAnswered, StampAfter, Adopt, Foreign, Adopts, Good, AtHome, TypeOK
  <2> QED
    BY <1>1, <2>1, GoodAdopts
<1>6. CASE RenewFails(p)
  <2>1. Adopts(p)
    BY <1>0, <1>1, <1>6 DEF RenewFails, Adopts, Good, AtHome, TypeOK
  <2> QED
    BY <1>1, <2>1, GoodAdopts
<1>7. CASE AcquireAnswered(p)
  <2>1. cur'[p] \in {None, home[p]}
    BY <1>0, <1>1, <1>7 DEF AcquireAnswered, Good, AtHome, TypeOK
  <2>2. Adopts(p)
    BY <1>0, <1>1, <1>7, <2>1
    DEF AcquireAnswered, StampAfter, Adopt, Foreign, Adopts, TypeOK
  <2> QED
    BY <1>1, <2>2, GoodAdopts
<1>8. CASE AcquireFails(p)
  <2>1. cur'[p] \in {None, home[p]}
    BY <1>0, <1>1, <1>8 DEF AcquireFails, Good, AtHome, TypeOK
  <2>2. Adopts(p)
    BY <1>0, <1>1, <1>8, <2>1
    DEF AcquireFails, AdoptUnproven, Adopt, Unproven, Adopts, TypeOK
  <2> QED
    BY <1>1, <2>2, GoodAdopts
<1>9. CASE StampAnswered(p)
  <2>1. Adopts(p)
    BY <1>0, <1>1, <1>9 DEF StampAnswered, Adopt, Foreign, Adopts, Good, AtHome, TypeOK
  <2> QED
    BY <1>1, <2>1, GoodAdopts
<1>10. CASE StampFails(p)
  <2>1. Adopts(p)
    BY <1>0, <1>1, <1>10 DEF StampFails, Adopts, Good, AtHome, TypeOK
  <2> QED
    BY <1>1, <2>1, GoodAdopts
<1>11. CASE ReconcileEnds(p)
  <2>1. CASE stamp'[p] = NoCall /\ passed' = passed
    <3>1. Adopts(p)
      BY <1>0, <1>1, <1>11, <2>1 DEF ReconcileEnds, Adopts, Good, AtHome, TypeOK
    <3> QED
      BY <1>1, <3>1, GoodAdopts
  <2>2. CASE /\ stamp'[p] = Issue("stamp", stamp[p].scope, stamp[p].fence)
             /\ passed'[p] = stamp[p].fence
    <3>1. /\ row' = row /\ account' = account /\ home' = home /\ st' = st
          /\ cur' = cur /\ call' = call /\ post' = post /\ stamp[p].op = "reconcile"
      BY <1>11 DEF ReconcileEnds
    <3>2. AtHome(p)'
      BY <1>1, <2>2, <3>1 DEF Good, AtHome, Issue
    <3>3. Believes(p)'
      BY <1>1, <2>2, <3>1 DEF Good, Believes, Backed, Issue
    <3>4. Covered(p)'
      BY <1>1, <3>1 DEF Good, Covered
    <3>5. Fenced(p)'
      BY <1>1, <2>2, <3>1 DEF Good, Fenced, Issue
    <3> QED
      BY <3>2, <3>3, <3>4, <3>5 DEF Good
  <2> QED
    BY <1>0, <1>11, <2>1, <2>2 DEF ReconcileEnds, TypeOK
<1>12. CASE RefreshLease(p)
  <2>1. /\ call'[p] = StartLease(st[p], account[p]) /\ cur'[p] \in {None, cur[p]}
        /\ row' = row /\ account' = account /\ home' = home /\ st' = st
        /\ stamp' = stamp /\ post' = post /\ passed' = passed /\ account[p] # None
    BY <1>0, <1>12 DEF RefreshLease, TypeOK
  <2>2. AtHome(p)'
    BY <1>1, <2>1 DEF Good, AtHome, StartLease, Issue
  <2>3. Believes(p)'
    BY <1>1, <2>1 DEF Good, Believes, Backed, StartLease, Issue
  <2>4. Covered(p)'
    BY <1>1, <2>1 DEF Good, Covered
  <2>5. Fenced(p)'
    BY <1>1, <2>1 DEF Good, Fenced, StartLease, Issue
  <2> QED
    BY <2>2, <2>3, <2>4, <2>5 DEF Good
<1>13. CASE ExecDraw(p)
  <2>1. /\ call'[p] = [Issue("acquire", call[p].scope, seq + 1) EXCEPT !.age = call[p].age]
        /\ call[p].op = "draw"
        /\ row' = row /\ account' = account /\ home' = home /\ st' = st /\ cur' = cur
        /\ stamp' = stamp /\ post' = post /\ passed' = passed
    BY <1>0, <1>1, <1>13 DEF ExecDraw, TypeOK, Answer, Settled, Pending
  <2>2. call'[p].scope = call[p].scope /\ call'[p].ans = "pending" /\ call'[p].op = "acquire"
    BY <2>1 DEF Issue
  <2>3. AtHome(p)'
    BY <1>1, <2>1, <2>2 DEF Good, AtHome
  <2>4. Believes(p)'
    BY <1>1, <2>1, <2>2 DEF Good, Believes, Backed
  <2>5. Covered(p)'
    BY <1>1, <2>1 DEF Good, Covered
  <2>6. Fenced(p)'
    BY <1>1, <2>1, <2>2 DEF Good, Fenced
  <2> QED
    BY <2>3, <2>4, <2>5, <2>6 DEF Good
<1>14. CASE Transmit(p)
  <2>1. /\ post'[p] = NoPost
        /\ row' = row /\ account' = account /\ home' = home /\ st' = st /\ cur' = cur
        /\ call' = call /\ stamp' = stamp /\ passed' = passed
    BY <1>0, <1>14 DEF Transmit, TypeOK
  <2> QED
    BY <1>1, <2>1 DEF Good, AtHome, Believes, Backed, Covered, Fenced, NoPost
<1>20. CASE PassBegins(p) \/ PassEnds(p)
  <2>1. Adopts(p)
    BY <1>0, <1>1, <1>20 DEF PassBegins, PassEnds, Adopts, Good, AtHome, TypeOK
  <2> QED
    BY <1>1, <2>1, GoodAdopts
<1>15. ASSUME NEW use \in Uses, Guard(p, use) PROVE Good(p)'
  <2>1. /\ post'[p] = [scope |-> account[p], use |-> use,
                       kind |-> st[p].kind, age |-> 0]
        /\ account[p] # None /\ MayDispatch(p, use)
        /\ row' = row /\ account' = account /\ home' = home /\ st' = st /\ cur' = cur
        /\ call' = call /\ stamp' = stamp /\ passed' = passed
    BY <1>0, <1>15 DEF Guard, TypeOK
  <2>2. account[p] = home[p]
    BY <1>1, <2>1 DEF Good, AtHome
  <2>3. AtHome(p)'
    BY <1>1, <2>1, <2>2 DEF Good, AtHome
  <2>4. Believes(p)' /\ Fenced(p)'
    BY <1>1, <2>1 DEF Good, Believes, Backed, Fenced
  <2>5. Covered(p)'
    <3>1. CASE st[p].kind = "held"
      <4>1. /\ st[p].scope = account[p] /\ st[p].left > 0
            /\ use = "new_entry" => st[p].reconciled
        BY <1>1, <2>1, <2>2, <3>1 DEF MayDispatch, Good, AtHome
      <4>2. row[account[p]] \in RowType /\ st[p].left \in Nat
        BY <1>0, <2>1 DEF StType, Usable, Some
      <4>3. /\ row[account[p]].owner = p /\ row[account[p]].left > Margin
            /\ use = "new_entry" => row[account[p]].reconciled
        BY <1>1, <3>1, <4>1, <4>2 DEF Good, Believes, Backed, RowType
      <4>4. post'[p].age = 0 /\ post'[p].scope = account[p] /\ post'[p].use = use
            /\ post'[p].kind = "held"
        BY <2>1, <3>1
      <4>5. row[account[p]].left + 0 = row[account[p]].left
        BY <4>2 DEF RowType
      <4> QED
        BY <2>1, <4>3, <4>4, <4>5 DEF Covered
    <3>2. CASE st[p].kind # "held"
      <4>1. use # "new_entry"
        BY <2>1, <3>2 DEF MayDispatch
      <4>2. post'[p].kind # "held" /\ post'[p].use = use
        BY <2>1, <3>2
      <4> QED
        BY <4>1, <4>2 DEF Covered
    <3> QED
      BY <3>1, <3>2
  <2> QED
    BY <2>3, <2>4, <2>5 DEF Good
<1>16. ASSUME NEW a \in Some(Scopes), SetAccount(p, a) PROVE Good(p)'
  <2>1. /\ account'[p] = a /\ home'[p] = IF home[p] = None THEN a ELSE home[p]
        /\ (a = None \/ home[p] \in {None, a}) /\ post[p] = NoPost
        /\ row' = row /\ st' = st /\ cur' = cur /\ post' = post
        /\ call' = call /\ stamp' = stamp /\ passed' = passed
    BY <1>0, <1>16 DEF SetAccount, TypeOK, Settled, Executing
  <2>2. CASE home[p] # None
    <3>1. home'[p] = home[p] /\ a \in {None, home[p]}
      BY <2>1, <2>2
    <3> QED
      BY <1>1, <2>1, <3>1 DEF Good, AtHome, Believes, Backed, Covered, Fenced
  <2>3. CASE home[p] = None
    <3>1. /\ call[p].op = "idle" /\ stamp[p].op = "idle" /\ st[p].kind # "held"
          /\ cur[p] = None /\ post[p] = NoPost /\ \A s \in Scopes : row[s].owner # p
      BY <1>0, <1>1, <2>3 DEF Good, AtHome, Fenced, Named
    <3>2. call[p].ans # "row" /\ stamp[p].ans # "row"
      BY <1>1, <3>1 DEF Good, Believes
    <3>3. AtHome(p)'
      BY <2>1, <2>3, <3>1 DEF AtHome
    <3>4. Believes(p)' /\ Covered(p)'
      BY <2>1, <3>1, <3>2 DEF Believes, Covered, NoPost
    <3>5. Fenced(p)'
      BY <2>1, <2>3, <3>1, <3>2 DEF Fenced, Some
    <3> QED
      BY <3>3, <3>4, <3>5 DEF Good
  <2> QED
    BY <2>2, <2>3
<1>17. CASE ExecAcquire(p)
  <2> DEFINE c == call[p]
             r == row[c.scope]
             n == Upsert(p, r, c.fence)
  <2>1. /\ c.op = "acquire" /\ c.scope \in Scopes /\ c.scope = home[p] /\ c.fence \in Nat
        /\ r \in RowType
    BY <1>0, <1>1, <1>17 DEF ExecAcquire, Pending, Named, Good, AtHome, CallType
  <2>2. CASE r.owner = None \/ r.left = 0 \/ r.owner = p
    <3>1. /\ row' = [row EXCEPT ![c.scope] = n] /\ call'[p] = Returning(c, n)
          /\ st' = st /\ account' = account /\ home' = home /\ cur' = cur
          /\ stamp' = stamp /\ post' = post /\ passed' = passed
      BY <1>0, <1>1, <1>17, <2>2 DEF ExecAcquire, Answer, Settled, TypeOK
    <3>2. n \in RowType
      BY <2>1, RowTyped
    <3>3. /\ n.owner = p /\ n.left = TTL
          /\ r.owner = p => n.fence = r.fence /\ n.reconciled = r.reconciled
          /\ r.owner # p => ~n.reconciled
      BY <2>1 DEF Upsert, RowType
    <3> HIDE DEF n
    <3>4. Writes(p, n)
      BY <1>1, <2>1, <3>1, <3>2, <3>3 DEF Writes, Good, Fenced, Returning, Reply, Some, RowType
    <3> QED
      BY <1>1, <3>2, <3>4, GoodWrites
  <2>3. CASE ~(r.owner = None \/ r.left = 0 \/ r.owner = p)
    <3>1. /\ row' = row /\ call'[p] = Nothing(call[p]) /\ stamp' = stamp
          /\ st' = st /\ account' = account /\ home' = home /\ cur' = cur
          /\ post' = post /\ passed' = passed
      BY <1>0, <1>1, <1>17, <2>3 DEF ExecAcquire, Answer, Settled, TypeOK
    <3> QED
      BY <1>1, <2>1, <3>1, GoodRefused
  <2> QED
    BY <2>2, <2>3
<1>18. CASE ExecRenew(p)
  <2> DEFINE c == call[p]
             r == row[c.scope]
             n == [r EXCEPT !.left = TTL]
  <2>1. /\ c.op = "renew" /\ c.scope \in Scopes /\ c.scope = home[p]
        /\ r \in RowType
    BY <1>0, <1>1, <1>18 DEF ExecRenew, Pending, Named, Good, AtHome, CallType
  <2>2. CASE Holds(p, c)
    <3>1. /\ row' = [row EXCEPT ![c.scope] = n] /\ call'[p] = Returning(c, n)
          /\ st' = st /\ account' = account /\ home' = home /\ cur' = cur
          /\ stamp' = stamp /\ post' = post /\ passed' = passed
      BY <1>0, <1>1, <1>18, <2>2 DEF ExecRenew, Answer, Settled, TypeOK
    <3>2. n \in RowType
      BY <2>1, RowTyped
    <3>3. /\ r.owner = p /\ n.owner = p /\ n.left = TTL
          /\ n.fence = r.fence /\ n.reconciled = r.reconciled
      BY <2>1, <2>2 DEF Holds, RowType
    <3> HIDE DEF n
    <3>4. Writes(p, n)
      BY <1>1, <2>1, <3>1, <3>2, <3>3 DEF Writes, Good, Fenced, Returning, Reply, Some, RowType
    <3> QED
      BY <1>1, <3>2, <3>4, GoodWrites
  <2>3. CASE ~Holds(p, c)
    <3>1. /\ row' = row /\ call'[p] = Nothing(call[p]) /\ stamp' = stamp
          /\ st' = st /\ account' = account /\ home' = home /\ cur' = cur
          /\ post' = post /\ passed' = passed
      BY <1>0, <1>1, <1>18, <2>3 DEF ExecRenew, Answer, Settled, TypeOK
    <3> QED
      BY <1>1, <2>1, <3>1, GoodRefused
  <2> QED
    BY <2>2, <2>3
<1>19. CASE ExecStamp(p)
  <2> DEFINE c == stamp[p]
             r == row[c.scope]
             n == [r EXCEPT !.reconciled = TRUE]
  <2>1. /\ c.op = "stamp" /\ c.ans = "pending" /\ c.scope \in Scopes /\ c.scope = home[p]
        /\ r \in RowType
    BY <1>0, <1>1, <1>19 DEF ExecStamp, Pending, Named, Good, AtHome, CallType
  <2>2. CASE Holds(p, c)
    <3>1. /\ row' = [row EXCEPT ![c.scope] = n] /\ stamp'[p] = Returning(c, n)
          /\ st' = st /\ account' = account /\ home' = home /\ cur' = cur
          /\ call' = call /\ post' = post /\ passed' = passed
      BY <1>0, <1>1, <1>19, <2>2 DEF ExecStamp, Answer, Settled, TypeOK
    <3>2. n \in RowType
      BY <2>1, RowTyped
    <3>3. /\ r.owner = p /\ n.owner = p /\ n.left = r.left
          /\ n.fence = r.fence /\ n.reconciled /\ r.fence = c.fence
      BY <2>1, <2>2 DEF Holds, RowType
    <3> HIDE DEF n
    <3>4. Writes(p, n)
      BY <1>1, <2>1, <3>1, <3>2, <3>3 DEF Writes, Good, Fenced, Returning, Reply, Some, RowType
    <3> QED
      BY <1>1, <3>2, <3>4, GoodWrites
  <2>3. CASE ~Holds(p, c)
    <3>1. /\ row' = row /\ stamp'[p] = Nothing(stamp[p]) /\ call' = call
          /\ st' = st /\ account' = account /\ home' = home /\ cur' = cur
          /\ post' = post /\ passed' = passed
      BY <1>0, <1>1, <1>19, <2>3 DEF ExecStamp, Answer, Settled, TypeOK
    <3> QED
      BY <1>1, <2>1, <3>1, GoodRefused
  <2> QED
    BY <2>2, <2>3
<1> QED
  BY <1>2, <1>3, <1>4, <1>5, <1>6, <1>7, <1>8, <1>9, <1>10, <1>11, <1>12, <1>13,
     <1>14, <1>15, <1>16, <1>17, <1>18, <1>19, <1>20 DEF Step

(* Time passes: beliefs, answers under way and rows lose the same amount.   *)
LEMMA GoodTick ==
  ASSUME IInv, NEW p \in Procs, Settled(p)', Tick
  PROVE  Good(p)'
<1> USE LeaseConstants, PauseWithinMargin
<1>0. /\ TypeOK /\ Settled(p) /\ Good(p)
      /\ st[p] \in StType /\ call[p] \in CallType
      /\ stamp[p] \in CallType /\ post[p] \in PostType
      /\ home[p] \in Some(Scopes)
  BY DEF IInv, TypeOK, Settled, Tick
<1>1. /\ account' = account /\ home' = home /\ cur' = cur /\ passed' = passed
      /\ life' = life
  BY DEF Tick
<1>2. ASSUME NEW s \in Scopes
      PROVE  /\ row[s] \in RowType
             /\ row'[s].owner = row[s].owner /\ row'[s].fence = row[s].fence
             /\ row'[s].reconciled = row[s].reconciled
             /\ row'[s].left = Charge(row[s].left, 1)
  <2>1. row[s] \in RowType /\ row'[s] = [row[s] EXCEPT !.left = Charge(@, 1)]
    BY <1>0 DEF TypeOK, Tick
  <2> QED
    BY <2>1 DEF RowType
<1>3. ASSUME NEW b, NEW d, Backed(p, b), b.scope \in Scopes, b.left \in Nat,
             d.scope = b.scope, d.fence = b.fence, d.reconciled = b.reconciled,
             d.left = Charge(b.left, 1)
      PROVE  d.left > 0 => /\ row'[d.scope].owner = p
                           /\ row'[d.scope].fence = d.fence
                           /\ row'[d.scope].left >= d.left + Margin
                           /\ d.reconciled => row'[d.scope].reconciled
  <2>1. b.left > 1 => row[b.scope].left >= b.left + Margin /\ row[b.scope].left > 1
    BY <1>2, <1>3 DEF Backed, RowType
  <2> QED
    BY <1>2, <1>3, <2>1 DEF Backed, RowType, Charge
<1>4. AtHome(p)'
  <2>1. post'[p] # NoPost => post[p] # NoPost /\ post'[p].scope = post[p].scope
    <3>1. CASE post[p].kind = "held"
      <4>1. post'[p] = [post[p] EXCEPT !.age = @ + 1]
        BY <3>1 DEF Tick
      <4> QED
        BY <1>0, <3>1, <4>1, PostKeeps DEF NoPost
    <3>2. CASE post[p].kind # "held"
      BY <3>2 DEF Tick
    <3> QED
      BY <3>1, <3>2
  <2> QED
    BY <1>0, <1>1, <2>1, TickKeeps DEF Good, AtHome
<1>5. Believes(p)'
  <2>1. /\ st[p].kind = "held" => st[p].scope \in Scopes /\ st[p].left \in Nat
        /\ call[p].ans = "row" => call[p].scope \in Scopes /\ call[p].left \in Nat
        /\ stamp[p].ans = "row" => stamp[p].scope \in Scopes /\ stamp[p].left \in Nat
    BY <1>0 DEF IInv, Named, Good, Believes, StType, CallType, Usable
  <2>2. life[p] = "up"
    BY <1>0 DEF Settled
  <2>3. st'[p].kind = "held" => Backed(p, st[p])'
    BY <1>0, <1>3, <2>1, TickKeeps DEF Good, Believes, Backed
  <2>4. call'[p].ans = "row" => Backed(p, call[p])' /\ call'[p].op \in {"acquire", "renew"}
    BY <1>0, <1>3, <2>1, <2>2, TickKeeps DEF Good, Believes, Backed
  <2>5. stamp'[p].ans = "row" => Backed(p, stamp[p])' /\ stamp'[p].op = "stamp"
    BY <1>0, <1>3, <2>1, <2>2, TickKeeps DEF Good, Believes, Backed
  <2> QED
    BY <2>3, <2>4, <2>5 DEF Believes
<1>6. Covered(p)'
  <2>1. CASE post[p].kind = "held"
    <3>1. post'[p] = [post[p] EXCEPT !.age = @ + 1] /\ post[p].age < MaxPause
      BY <2>1 DEF Tick
    <3>2. /\ post'[p].scope = post[p].scope /\ post'[p].use = post[p].use
          /\ post'[p].age = post[p].age + 1 /\ post[p].age \in Nat
      BY <1>0, <3>1, PostKeeps DEF PostType
    <3>3. post[p].scope \in Scopes
      BY <1>0, <2>1 DEF Good, AtHome, NoPost, Some
    <3> QED
      BY <1>0, <1>2, <2>1, <3>1, <3>2, <3>3 DEF Good, Covered, Charge, RowType
  <2>2. CASE post[p].kind # "held"
    BY <1>0, <2>2 DEF Good, Covered, Tick
  <2> QED
    BY <2>1, <2>2
<1>7. Fenced(p)'
  BY <1>0, <1>1, <1>2, TickKeeps DEF Good, Fenced, Some
<1> QED
  BY <1>4, <1>5, <1>6, <1>7 DEF Good

(* A step of another process keeps what p knows. *)
LEMMA GoodOther ==
  ASSUME IInv, NEW p \in Procs, NEW q \in Procs, p # q, Settled(p)', Step(q)
  PROVE  Good(p)'
<1>0. TypeOK /\ Named
  BY DEF IInv
<1>1. SameAt(p)
  BY <1>0 DEF TypeOK, SameAt, Step, Dispose, Release, Exit, Crash, Gone, SetAccount,
     RefreshNoAccount, RefreshSwitch, RefreshLease, SwitchAnswered, RenewAnswered,
     RenewFails, AcquireAnswered, AcquireFails, PassBegins, PassEnds, ReconcileEnds, StampAnswered,
     StampFails, StampAfter, Adopt, AdoptUnproven, ExecDraw, ExecAcquire, ExecRenew,
     ExecStamp, ExecSwitchRelease, ExecRelease, Guard, Transmit
<1>2. RowKept(p)
  <2>1. CASE row' = row
    BY <2>1 DEF RowKept
  <2>2. CASE \/ ExecAcquire(q) \/ ExecRenew(q) \/ ExecStamp(q)
             \/ ExecSwitchRelease(q) \/ ExecRelease(q)
    BY <1>0, <2>2, RowOfOthers
  <2> QED
    BY <2>1, <2>2 DEF Step, Dispose, Release, Exit, Crash, Gone, SetAccount,
       RefreshNoAccount, RefreshSwitch, RefreshLease, SwitchAnswered, RenewAnswered,
       RenewFails, AcquireAnswered, AcquireFails, PassBegins, PassEnds, ReconcileEnds, StampAnswered,
       StampFails, ExecDraw, Guard, Transmit
<1> QED
  BY <1>1, <1>2, GoodKept

(* IInv holds initially and is kept by every step. *)
LEMMA Inductive ==
  /\ Init => IInv
  /\ IInv /\ [Next]_vars => IInv'
<1>1. Init => IInv
  <2> SUFFICES ASSUME Init PROVE IInv
    OBVIOUS
  <2>1. TypeOK
    BY EmptyTyped, LeaseConstants DEF Init, TypeOK, Lives, Some
  <2>2. Named /\ LifeOrder
    BY DEF Init, Named, LifeOrder, NoCall, Unproven
  <2>3. ASSUME NEW p \in Procs PROVE Good(p)
    BY LeaseConstants DEF Init, Good, AtHome, Believes, Covered, Fenced, NoCall,
       Unproven, NoPost, NoRow
  <2> QED
    BY <2>1, <2>2, <2>3 DEF IInv
<1>2. IInv /\ [Next]_vars => IInv'
  <2> SUFFICES ASSUME IInv, [Next]_vars PROVE IInv'
    OBVIOUS
  <2>1. TypeOK' /\ Named' /\ LifeOrder'
    BY TypeNext, NamedNext, LifeOrderNext DEF IInv
  <2>2. ASSUME NEW p \in Procs, Settled(p)' PROVE Good(p)'
    <3>1. CASE UNCHANGED vars
      BY <2>2, <3>1, GoodKept DEF vars, SameAt, RowKept
    <3>2. CASE Tick
      BY <2>2, <3>2, GoodTick
    <3>3. ASSUME NEW q \in Procs, Step(q) PROVE Good(p)'
      BY <2>2, <3>3, GoodSelf, GoodOther
    <3> QED
      BY <3>1, <3>2, <3>3 DEF Next
  <2> QED
    BY <2>1, <2>2 DEF IInv
<1> QED
  BY <1>1, <1>2

LEMMA Invariance == Spec => []IInv
  BY Inductive, PTL DEF Spec

(* What the two safety properties say follows from the invariant. *)
LEMMA Implied ==
  IInv => SendExclusive /\ EntryReconciled
<1> SUFFICES ASSUME IInv PROVE SendExclusive /\ EntryReconciled
  OBVIOUS
<1> USE LeaseConstants, PauseWithinMargin
<1>1. ASSUME NEW p \in Procs, NEW s \in Scopes, Sending(p, s)
      PROVE  /\ Good(p) /\ home[p] = s /\ post[p] \in PostType /\ row[s] \in RowType
  BY <1>1 DEF IInv, TypeOK, LifeOrder, Sending, Settled, NoPost, Good, AtHome
<1>2. SendExclusive
  BY <1>1 DEF SendExclusive, Good, Covered, Sending
<1>3. EntryReconciled
  <2> SUFFICES ASSUME NEW p \in Procs, NEW s \in Scopes,
                      Sending(p, s), post[p].use = "new_entry"
               PROVE  row[s].owner = p /\ row[s].left > 0 /\ passed[p] = row[s].fence
    BY DEF EntryReconciled
  <2>1. /\ row[s].owner = p /\ row[s].left + post[p].age > Margin /\ row[s].reconciled
    BY <1>1 DEF Good, Covered, Sending
  <2>2. row[s].left > 0
    BY <1>1, <2>1 DEF PostType, RowType
  <2>3. passed[p] = row[s].fence
    BY <1>1, <2>1 DEF Good, Fenced
  <2> QED
    BY <2>1, <2>2, <2>3
<1> QED
  BY <1>2, <1>3

-----------------------------------------------------------------------------
(* The theorems.                                                            *)

(* The state of rows, processes and calls is always well typed. *)
THEOREM TypeCorrect == Spec => []TypeOK
<1>1. IInv => TypeOK
  BY DEF IInv
<1> QED
  BY <1>1, Invariance, PTL

(* However many processes contend, for any lifetimes, and however their     *)
(* statements, answers, crashes and pauses interleave: two processes whose  *)
(* account was never replaced are never both between checkpoint 5 and the   *)
(* socket write for one account on the strength of a lease.                 *)
THEOREM ExclusiveSending == Spec => []SendExclusive
  BY Implied, Invariance, PTL

(* A new entry leaves only under a live lease of the sender, once a         *)
(* reconciliation pass it awaited under that lease has completed            *)
(* (dispatchBlockReason("new_entry"), markExecutionLeaseReconciled).        *)
THEOREM ReconciledEntry == Spec => []EntryReconciled
  BY Implied, Invariance, PTL

-----------------------------------------------------------------------------
(* What a step may never do to a row or to the evidence of a foreign owner. *)

(* Only a process whose account was replaced releases a row while it runs.  *)
SwitchMeansMoved == \A p \in Procs : call[p].op = "release" => moved[p]

(* The account of a settled process is its first one, so it switches none.  *)
LEMMA SwitchNext ==
  ASSUME IInv, SwitchMeansMoved, [Next]_vars
  PROVE  SwitchMeansMoved'
<1>0. TypeOK
  BY DEF IInv
<1>1. CASE UNCHANGED vars
  BY <1>1 DEF vars, SwitchMeansMoved
<1>2. CASE Tick
  <2>1. moved' = moved
    BY <1>2 DEF Tick
  <2> QED
    BY <1>0, <1>2, <2>1, TickKeeps DEF SwitchMeansMoved
<1>3. ASSUME NEW p \in Procs, Step(p)
      PROVE  SwitchMeansMoved'
  <2>1. /\ \A q \in Procs \ {p} : call'[q] = call[q]
        /\ \A q \in Procs : moved[q] => moved'[q]
    BY <1>0, <1>3 DEF TypeOK, Step, Dispose, Release, Exit, Crash, Gone, SetAccount,
       RefreshNoAccount, RefreshSwitch, RefreshLease, SwitchAnswered, RenewAnswered,
       RenewFails, AcquireAnswered, AcquireFails, PassBegins, PassEnds, ReconcileEnds,
       StampAnswered, StampFails, ExecDraw, ExecAcquire, ExecRenew, ExecStamp,
       ExecSwitchRelease, ExecRelease, Guard, Transmit
  <2>2. CASE RefreshSwitch(p)
    <3>1. life[p] = "up" /\ account[p] # None /\ cur[p] \notin {None, account[p]}
      BY <2>2 DEF RefreshSwitch, RefreshIdle
    <3>2. moved[p]
      BY <3>1 DEF IInv, Settled, Good, AtHome
    <3> QED
      BY <2>1, <3>2 DEF SwitchMeansMoved
  <2>3. CASE ~RefreshSwitch(p)
    <3>1. call[p] \in CallType /\ call \in [Procs -> CallType]
      BY <1>0 DEF TypeOK
    <3>2. CASE \/ ExecDraw(p) \/ ExecAcquire(p) \/ ExecRenew(p) \/ ExecSwitchRelease(p)
      <4>1. \/ call'[p] = NoCall
            \/ call'[p].op = "acquire"
            \/ call'[p].op = call[p].op
        BY <3>1, <3>2 DEF ExecDraw, ExecAcquire, ExecRenew, ExecSwitchRelease, Answer, Returning,
           Nothing, Reply, Issue, CallType
      <4> QED
        BY <2>1, <4>1 DEF SwitchMeansMoved, NoCall
    <3>3. CASE RefreshLease(p) \/ SwitchAnswered(p)
      <4>1. call'[p].op \in {"renew", "draw"}
        BY <3>1, <3>3 DEF RefreshLease, SwitchAnswered, StartLease, Issue
      <4> QED
        BY <2>1, <4>1 DEF SwitchMeansMoved
    <3>4. CASE Exit(p) \/ Crash(p)
      <4>1. call'[p] = NoCall \/ call'[p].op = call[p].op
        BY <3>1, <3>4 DEF Exit, Crash, Gone, OnWire, CallType
      <4> QED
        BY <2>1, <4>1 DEF SwitchMeansMoved, NoCall
    <3>5. CASE call'[p] \in {call[p], NoCall}
      BY <2>1, <3>5 DEF SwitchMeansMoved, NoCall
    <3> QED
      BY <1>3, <2>3, <3>1, <3>2, <3>3, <3>4, <3>5 DEF Step, Dispose, Release, SetAccount,
         RefreshNoAccount, RenewAnswered, RenewFails, AcquireAnswered, AcquireFails, PassBegins,
         PassEnds, ReconcileEnds, StampAnswered, StampFails, ExecStamp, ExecRelease, Guard,
         Transmit
  <2> QED
    BY <2>2, <2>3
<1> QED
  BY <1>1, <1>2, <1>3 DEF Next

(* No statement takes a live row from its owner but the owner's release.    *)
LEMMA LiveRowEnds ==
  ASSUME IInv, SwitchMeansMoved, [Next]_vars, NEW s \in Scopes,
         row[s].owner # None, row[s].left > 0, row'[s].owner # row[s].owner
  PROVE  life[row[s].owner] \in {"released", "dead"} \/ moved[row[s].owner]
<1>0. TypeOK /\ Named /\ LifeOrder /\ row[s] \in RowType
  BY DEF IInv, TypeOK
<1>1. row'[s] = row[s] => FALSE
  OBVIOUS
<1>2. CASE Tick
  <2>1. row'[s] = [row[s] EXCEPT !.left = Charge(@, 1)]
    BY <1>2 DEF Tick
  <2> QED
    BY <1>0, <2>1 DEF RowType
<1>3. ASSUME NEW p \in Procs, ExecAcquire(p) \/ ExecRenew(p) \/ ExecStamp(p)
      PROVE  FALSE
  <2>1. CASE ExecAcquire(p)
    <3> DEFINE c == call[p]
    <3>1. CASE s # c.scope
      BY <1>0, <2>1, <3>1 DEF ExecAcquire, TypeOK
    <3>2. CASE s = c.scope /\ row[s].owner = p
      <4>1. row'[s] = [row[s] EXCEPT !.left = TTL]
        BY <1>0, <2>1, <3>2 DEF ExecAcquire, Upsert, TypeOK
      <4> QED
        BY <1>0, <4>1 DEF RowType
    <3>3. CASE s = c.scope /\ row[s].owner # p
      BY <1>0, <2>1, <3>3 DEF ExecAcquire, TypeOK
    <3> QED
      BY <3>1, <3>2, <3>3
  <2>2. CASE ExecRenew(p)
    BY <1>0, <2>2 DEF ExecRenew, TypeOK, RowType
  <2>3. CASE ExecStamp(p)
    BY <1>0, <2>3 DEF ExecStamp, TypeOK, RowType
  <2> QED
    BY <1>3, <2>1, <2>2, <2>3
<1>4. ASSUME NEW p \in Procs, ExecSwitchRelease(p)
      PROVE  row[s].owner = p /\ moved[p]
  BY <1>0, <1>4 DEF ExecSwitchRelease, DeleteRow, Pending, SwitchMeansMoved, TypeOK
<1>5. ASSUME NEW p \in Procs, ExecRelease(p)
      PROVE  row[s].owner = p /\ life[p] \in {"released", "dead"}
  BY <1>0, <1>5 DEF ExecRelease, DeleteRow, Pending, LifeOrder, TypeOK
<1>6. ASSUME NEW p \in Procs, Step(p)
      PROVE  \/ UNCHANGED row
             \/ ExecAcquire(p) \/ ExecRenew(p) \/ ExecStamp(p)
             \/ ExecSwitchRelease(p) \/ ExecRelease(p)
  BY <1>6 DEF Step, Dispose, Release, Exit, Crash, Gone, SetAccount, RefreshNoAccount,
     RefreshSwitch, RefreshLease, SwitchAnswered, RenewAnswered, RenewFails, AcquireAnswered,
     AcquireFails, PassBegins, PassEnds, ReconcileEnds, StampAnswered, StampFails, ExecDraw,
     Guard, Transmit
<1>7. UNCHANGED vars => UNCHANGED row
  BY DEF vars
<1> QED
  BY <1>1, <1>2, <1>3, <1>4, <1>5, <1>6, <1>7 DEF Next

(* A settled process that was told of a foreign owner of its account keeps  *)
(* that, or holds the lease again.                                          *)
LEMMA EvidenceStep ==
  ASSUME IInv, [Next]_vars, NEW p \in Procs, st[p].kind = "foreign", st[p].scope = account[p],
         ~moved'[p], life'[p] = "up"
  PROVE  st'[p].kind \in {"foreign", "held"}
<1>0. TypeOK /\ Named
  BY DEF IInv
<1>1. CASE UNCHANGED vars
  BY <1>1 DEF vars
<1>2. CASE Tick
  BY <1>0, <1>2, TickKeeps
<1>3. ASSUME NEW q \in Procs, q # p, Step(q)
      PROVE  st'[p] = st[p]
  BY <1>0, <1>3 DEF TypeOK, Step, Dispose, Release, Exit, Crash, Gone, SetAccount,
     RefreshNoAccount, RefreshSwitch, RefreshLease, SwitchAnswered, RenewAnswered,
     RenewFails, AcquireAnswered, AcquireFails, PassBegins, PassEnds, ReconcileEnds,
     StampAnswered, StampFails, Adopt, AdoptUnproven, ExecDraw, ExecAcquire, ExecRenew,
     ExecStamp, ExecSwitchRelease, ExecRelease, Guard, Transmit
<1>4. CASE Step(p)
  <2>1. life[p] = "up" /\ ~moved[p]
    BY <1>0, <1>4 DEF TypeOK, Step, Dispose, Release, Exit, Crash, Gone, SetAccount,
       RefreshNoAccount, RefreshSwitch, RefreshLease, SwitchAnswered, RenewAnswered,
       RenewFails, AcquireAnswered, AcquireFails, PassBegins, PassEnds, ReconcileEnds,
       StampAnswered, StampFails, ExecDraw, ExecAcquire, ExecRenew,
       ExecStamp, ExecSwitchRelease, ExecRelease, Guard, Transmit
  <2>2. AtHome(p)
    BY <2>1 DEF IInv, Settled, Good
  <2>3. CASE SwitchAnswered(p)
    BY <2>2, <2>3 DEF SwitchAnswered, AtHome
  <2>4. CASE RefreshNoAccount(p)
    BY <2>4 DEF RefreshNoAccount, AdoptUnproven
  <2>5. CASE AcquireFails(p)
    <3>1. call[p].op # "idle" /\ AdoptUnproven(p, call[p].scope)
      BY <2>5 DEF AcquireFails
    <3>2. call[p].scope = home[p] /\ st[p].scope \in {None, home[p]}
      BY <2>2, <3>1 DEF AtHome
    <3>3. UNCHANGED st
      BY <3>1, <3>2 DEF AdoptUnproven
    <3> QED
      BY <3>3
  <2>6. CASE RenewAnswered(p) \/ AcquireAnswered(p) \/ StampAnswered(p)
    BY <1>0, <2>6 DEF RenewAnswered, AcquireAnswered, StampAnswered, Adopt, Foreign, Observe,
       TypeOK
  <2>7. CASE Exit(p) \/ Crash(p)
    BY <1>0, <2>7 DEF Exit, Crash, Gone, TypeOK
  <2>8. CASE UNCHANGED st
    BY <2>8
  <2> QED
    BY <1>4, <2>3, <2>4, <2>5, <2>6, <2>7, <2>8 DEF Step, Dispose, Release, SetAccount,
       RefreshSwitch, RefreshLease, RenewFails, PassBegins, PassEnds, ReconcileEnds, StampFails,
       ExecDraw, ExecAcquire, ExecRenew, ExecStamp, ExecSwitchRelease, ExecRelease, Guard,
       Transmit
<1> QED
  BY <1>1, <1>2, <1>3, <1>4 DEF Next

(* A live lease ends only by its owner's shutdown or account change: no      *)
(* renewal, takeover, stamp or late release of another process removes it   *)
(* (the owner and fence pins of the SQL), whatever the delays and crashes.  *)
THEOREM LeaseEndsByOwner == Spec => OnlyOwnerEndsLease
<1>1. Init => SwitchMeansMoved
  BY DEF Init, SwitchMeansMoved, NoCall
<1>2. IInv /\ SwitchMeansMoved /\ [Next]_vars => SwitchMeansMoved'
  BY SwitchNext
<1>3. IInv /\ SwitchMeansMoved /\ [Next]_vars =>
        [\A s \in Scopes :
           row[s].owner # None /\ row[s].left > 0 /\ row'[s].owner # row[s].owner
           => life[row[s].owner] \in {"released", "dead"} \/ moved[row[s].owner]]_vars
  BY LiveRowEnds
<1> QED
  BY <1>1, <1>2, <1>3, Invariance, PTL DEF Spec, OnlyOwnerEndsLease

(* Proof of a foreign owner is never erased by a failure to ask             *)
(* (adoptUnproven), as long as the process keeps its account and runs.      *)
THEOREM EvidenceKept == Spec => ForeignEvidenceKept
<1>1. IInv /\ [Next]_vars =>
        [\A p \in Procs :
           /\ st[p].kind = "foreign" /\ st[p].scope = account[p]
           /\ ~moved'[p] /\ life'[p] = "up"
           => st'[p].kind \in {"foreign", "held"}]_vars
  BY EvidenceStep
<1> QED
  BY <1>1, Invariance, PTL DEF Spec, ForeignEvidenceKept

=============================================================================
