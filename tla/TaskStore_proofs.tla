-------------------------- MODULE TaskStore_proofs --------------------------
(***************************************************************************)
(* Theorems of TaskStore, for any number of tasks, of callers, of attempts *)
(* and of failures, and their proofs.                                      *)
(***************************************************************************)
EXTENDS TaskStore, Machine_proofs, Foundations, SequenceTheorems

-----------------------------------------------------------------------------
(***************************************************************************)
(* What drive does to the copy of the envelope                             *)
(***************************************************************************)
\* The envelopes a row may hold: what the theorems on the machine say of them.
Rows == {t \in TaskStates : HoldsItsCall(t) /\ WellFormed(t)}

\* One branch of drive runs one call at most, that of the iteration it found.
OneRun(t, u) ==
  \/ RunBetween(t, u) = {} /\ u.iteration = t.iteration
  \/ /\ \E r \in Requests, c \in Cents :
          RunBetween(t, u) =
            {CallEvent("tool_call_completed", r, t.iteration, c, "")}
     /\ u.iteration = t.iteration + 1
     /\ t.iteration < MaxIterations

Wealth(t) == t.budget.consumed + t.budget.org_balance

LEMMA RunBetweenIs == \A t, u : RunBetween(t, u) = RunsOf(t, u)
BY DEF RunBetween, RunsOf, NewEvents

\* A charge moves money, it makes none.
LEMMA ChargeMovesMoney ==
  ASSUME NEW b \in Budgets, NEW c \in Cents
  PROVE  Charge(b, c).consumed + Charge(b, c).org_balance = b.consumed + b.org_balance
<1>1. CASE SpendDecision(b, c) = "proceed"
  <2>1. Charge(b, c) =
          [b EXCEPT !.consumed = b.consumed + c, !.org_balance = b.org_balance - c]
    BY <1>1 DEF Charge
  <2> QED
    BY <2>1, MaxCentsAssumption DEF Budgets, Cents, Amounts
<1>2. CASE SpendDecision(b, c) # "proceed"
  BY <1>2 DEF Charge
<1> QED
  BY <1>1, <1>2

LEMMA NewTaskRow ==
  ASSUME NEW b \in Amounts
  PROVE  NewTask(Ceiling, b) \in Rows /\ Wealth(NewTask(Ceiling, b)) = b
         /\ NewTask(Ceiling, b).budget.consumed = 0
<1> DEFINE t == NewTask(Ceiling, b)
<1>1. /\ t.status = "pending" /\ t.iteration = 0 /\ t.audit = <<>>
      /\ t.pending = NoPending
      /\ t.budget = NewBudget(Ceiling, b)
  BY DEF NewTask
<1>2. NewBudget(Ceiling, b) \in Budgets
  BY TaskStoreAssumption, MaxCentsAssumption DEF NewBudget, Budgets, Amounts
<1>3. t \in TaskStates
  <2>1. "pending" \in Statuses /\ <<>> \in Seq(Events) /\ 0 \in Nat
    BY DEF Statuses
  <2> QED
    BY <1>2, <2>1, NoPendingType DEF NewTask, TaskStates
<1>4. DOMAIN t.audit = {} /\ 0 .. t.iteration - 1 = {}
  BY <1>1
<1>5. UntoldIn(t, t.iteration)
  BY <1>4 DEF UntoldIn, CallPositions
<1>6. WellFormed(t) /\ HoldsItsCall(t)
  BY <1>1, <1>4, <1>5 DEF WellFormed, HoldsItsCall
<1>7. Wealth(t) = b /\ t.budget.consumed = 0
  BY <1>1 DEF Wealth, NewBudget, Amounts
<1> QED
  BY <1>3, <1>6, <1>7 DEF Rows

LEMMA RefreshedRow ==
  ASSUME NEW t \in Rows, NEW b \in Amounts
  PROVE  LET u == [t EXCEPT !.budget = Refreshed(@, b)] IN
         /\ u \in Rows
         /\ u.budget.consumed = t.budget.consumed
         /\ u.budget.org_balance = b
         /\ u.status = t.status /\ u.iteration = t.iteration
         /\ u.audit = t.audit /\ u.pending = t.pending
<1> DEFINE u == [t EXCEPT !.budget = Refreshed(@, b)]
<1>1. t \in TaskStates /\ t.budget \in Budgets
  BY DEF Rows, TaskStates
<1>2. /\ u.status = t.status /\ u.iteration = t.iteration
      /\ u.audit = t.audit /\ u.pending = t.pending
      /\ u.budget = Refreshed(t.budget, b)
  BY <1>1 DEF TaskStates
<1>3. Refreshed(t.budget, b) \in Budgets
  BY <1>1, RefreshedType
<1>4. u \in TaskStates
  BY <1>1, <1>3 DEF TaskStates
<1>5. HoldsItsCall(u)
  BY <1>2 DEF Rows, HoldsItsCall
<1>6. WellFormed(u)
  <2>1. \A i : CallPositions(u, i) = CallPositions(t, i)
    BY <1>2 DEF CallPositions
  <2> HIDE DEF u
  <2> QED
    BY <1>2, <2>1 DEF Rows, WellFormed, UntoldIn, OpenIn, ClosedIn
<1>7. u.budget.consumed = t.budget.consumed /\ u.budget.org_balance = b
  BY <1>1, <1>2 DEF Refreshed, Budgets
<1> QED
  BY <1>2, <1>4, <1>5, <1>6, <1>7 DEF Rows

\* A branch leaves the wealth it found: the budget it leaves is the one it
\* found, or that one charged.
LEMMA WealthIsKept ==
  ASSUME NEW t \in TaskStates, NEW u,
         u.budget \in {t.budget} \cup {Charge(t.budget, c) : c \in Cents}
  PROVE  Wealth(u) = Wealth(t)
BY ChargeMovesMoney DEF Wealth, TaskStates

\* The entry of drive, on any row and with any decision.
LEMMA EnteredRow ==
  ASSUME NEW t \in Rows, NEW a \in Approvals, NEW u \in Entered(t, a)
  PROVE  /\ u \in Rows
         /\ Wealth(u) = Wealth(t)
         /\ OneRun(t, u)
<1>1. t \in TaskStates /\ HoldsItsCall(t) /\ WellFormed(t)
  BY DEF Rows
<1>2. PICK rs \in RuleSets : TRUE
  <2>1. [r \in Requests |-> "deny"] \in RuleSets
    BY DEF RuleSets, Verdicts
  <2> QED
    BY <2>1
<1>3. RunsOf(t, t) = {}
  BY DEF RunsOf, NewEvents
<1>4. CASE \/ t.status \in Terminal \cup {"running"}
           \/ t.status = "waiting_approval" /\ a = "none"
  <2>1. Entered(t, a) = {t}
    BY <1>4 DEF Entered, Terminal
  <2> QED
    BY <1>3, <2>1, RunBetweenIs DEF OneRun
<1>5. CASE t.status = "pending"
  <2>1. u = Started(t)
    BY <1>5 DEF Entered, Terminal
  <2>2. u \in TaskStates
    BY <1>1, <2>1, StartedType
  <2>3. HoldsItsCall(u)
    <3>1. t.pending = NoPending /\ t.status # "waiting_approval"
      BY <1>1, <1>5 DEF HoldsItsCall
    <3> QED
      BY <1>1, <1>2, <2>1, <3>1, NoCallIsMade DEF HoldsItsCall
  <2>4. WellFormed(u)
    BY <1>1, <1>5, <2>1, EntryWellFormed
  <2>5. Wealth(u) = Wealth(t)
    BY <1>1, <1>2, <2>1, BudgetOfBranches, WealthIsKept
  <2>6. OneRun(t, u)
    BY <1>1, <2>1, RunBetweenIs, CallsOfEntry, EntryMoves DEF OneRun
  <2> QED
    BY <2>2, <2>3, <2>4, <2>5, <2>6 DEF Rows
<1>6. CASE t.status = "waiting_approval" /\ a # "none"
  <2>1. ~Incoherent(t) /\ t.pending.request \in Requests /\ t.pending.iteration = t.iteration
        /\ t.iteration < MaxIterations
    BY <1>1, <1>6, MachineAssumption DEF HoldsItsCall, Incoherent
  <2>2. u \in {Rejected(t), ApprovedButStopped(t), Approved(t)}
    BY <1>6, <2>1 DEF Entered, Terminal, Approvals
  <2>3. u \in TaskStates
    <3>1. Total(t.pending) \in Cents
      BY <1>1, TotalType DEF TaskStates
    <3>2. ApprovedButStopped(t) \in TaskStates
      BY <1>1, <3>1, TakenType, StoppedType DEF ApprovedButStopped
    <3>3. Rejected(t) \in TaskStates /\ Approved(t) \in TaskStates
      BY <1>1, <2>1, RejectedType, ApprovedType
    <3> QED
      BY <2>2, <3>2, <3>3
  <2>4. HoldsItsCall(u)
    BY <1>1, <1>2, <1>6, <2>2, NoCallIsKept DEF HoldsItsCall
  <2>5. WellFormed(u)
    BY <1>1, <1>6, <2>2, EntryWellFormed
  <2>6. Wealth(u) = Wealth(t)
    BY <1>1, <1>2, <2>2, BudgetOfBranches, WealthIsKept
  <2>7. OneRun(t, u)
    <3>1. Total(t.pending) \in Cents
      BY <1>1, TotalType DEF TaskStates, PendingCalls
    <3> QED
      BY <1>1, <2>1, <2>2, <3>1, RunBetweenIs, CallsOfEntry, EntryMoves DEF OneRun
  <2> QED
    BY <2>3, <2>4, <2>5, <2>6, <2>7 DEF Rows
<1> QED
  BY <1>1, <1>4, <1>5, <1>6 DEF TaskStates, Statuses

\* One pass of the loop, on any row about to plan and with any rules.
LEMMA PassedRow ==
  ASSUME NEW t \in Rows, t.status = "running", NEW rs \in RuleSets, NEW u \in Passed(t, rs)
  PROVE  /\ u \in Rows
         /\ Wealth(u) = Wealth(t)
         /\ OneRun(t, u)
<1>1. t \in TaskStates /\ HoldsItsCall(t) /\ WellFormed(t) /\ t.pending = NoPending
  BY DEF Rows, HoldsItsCall
<1> DEFINE Quiet == {Exhausted(t)} \cup Conclusions(t) \cup StoppedConclusions(t)
                      \cup Denials(t, rs) \cup StoppedExecutions(t, rs)
<1>2. \/ u \in Quiet
      \/ u \in Suspensions(t, rs) /\ ~Spent(t)
      \/ u \in Executions(t, rs) /\ ~Spent(t)
  BY DEF Passed
<1>3. u \in TaskStates
  BY <1>1, <1>2, PassTypes
<1>4. WellFormed(u)
  BY <1>1, <1>2, PassWellFormed
<1>5. Wealth(u) = Wealth(t)
  BY <1>1, <1>2, BudgetOfBranches, WealthIsKept
<1>6. HoldsItsCall(u)
  <2>1. CASE u \in Suspensions(t, rs) /\ ~Spent(t)
    <3>1. PICK p \in ToolPlans : u = Suspend(t, p)
      BY <2>1 DEF Suspensions, Judged
    <3> QED
      BY <1>1, <2>1, <3>1, SuspendHoldsItsCall, MachineAssumption
  <2>2. CASE u \in Quiet \cup Executions(t, rs)
    <3>1. u.status # "waiting_approval" /\ u.pending = NoPending
      BY <1>1, <2>2, NoCallIsMade
    <3> QED
      BY <3>1 DEF HoldsItsCall
  <2> QED
    BY <1>2, <2>1, <2>2
<1>7. OneRun(t, u)
  <2>1. CASE u \in Quiet \cup Suspensions(t, rs)
    <3>1. RunsOf(t, u) = {}
      BY <1>1, <2>1, CallsOfPass
    <3>2. u.iteration = t.iteration
      BY <1>1, <2>1, LoopMoves
    <3> QED
      BY <3>1, <3>2, RunBetweenIs DEF OneRun
  <2>2. CASE u \in Executions(t, rs) /\ ~Spent(t)
    <3>1. PICK p \in Judged(rs, "allow") :
            RunsOf(t, u) = {CallEvent("tool_call_completed", p.request, t.iteration,
                                      Total(p), "")}
      BY <1>1, <2>2, CallsOfExecutions
    <3>2. p.request \in Requests /\ Total(p) \in Cents
      BY TotalType, MachineAssumption DEF Judged, Plans
    <3>3. u.iteration = t.iteration + 1
      BY <1>1, <2>2, LoopMoves
    <3>4. t.iteration < MaxIterations
      BY <1>1, <2>2, MachineAssumption DEF Spent, TaskStates
    <3> QED
      BY <3>1, <3>2, <3>3, <3>4, RunBetweenIs DEF OneRun
  <2> QED
    BY <1>2, <2>1, <2>2
<1> QED
  BY <1>3, <1>4, <1>5, <1>6, <1>7 DEF Rows

\* The sequence of a set of one element, or of none.
LEMMA SeqOfOne ==
  /\ SetToSeq({}) = <<>>
  /\ \A x : SetToSeq({x}) = <<x>>
<1>1. SetToSeq({}) = <<>>
  <2>1. Cardinality({}) = 0 /\ 1 .. 0 = {}
    BY FS_EmptySet
  <2>2. <<>> \in [1 .. 0 -> {}] /\ IsInjective(<<>>)
    BY <2>1 DEF IsInjective
  <2>3. \A f \in [1 .. 0 -> {}] : f = <<>>
    BY <2>1
  <2> QED
    BY <2>1, <2>2, <2>3 DEF SetToSeq
<1>2. ASSUME NEW x PROVE SetToSeq({x}) = <<x>>
  <2>1. Cardinality({x}) = 1 /\ 1 .. 1 = {1}
    BY FS_Singleton
  <2>2. <<x>> \in [1 .. 1 -> {x}] /\ IsInjective(<<x>>)
    BY <2>1 DEF IsInjective
  <2>3. \A f \in [1 .. 1 -> {x}] : f = <<x>>
    BY <2>1
  <2> QED
    BY <2>1, <2>2, <2>3 DEF SetToSeq
<1> QED
  BY <1>1, <1>2

-----------------------------------------------------------------------------
(***************************************************************************)
(* The shape of the database, of the transactions and of the callers       *)
(***************************************************************************)
Memory == [call : Calls, tool : Requests]

Traces == [iteration : 0 .. MaxIterations, tool : Requests]

Callers ==
  [pc : Labels, task : Tasks \cup {NoTask}, approval : Approvals, rules : RuleSets,
   phase : {"step", "abandonment"}, attempt : 0 .. ChainRetries - 1,
   tries : 0 .. ChainRetries - 1, state : TaskStates \cup {NoTask}, next : Nat,
   known : SUBSET Nat, performed : Seq(Traces)]

TxOK(t) ==
  t = [puts |-> t.puts, deleted |-> t.deleted, entries |-> t.entries,
       traces |-> t.traces, tail |-> t.tail]

\* A caller and what its transaction wrote.
CallerOK(c, t) ==
  /\ c \in Callers
  /\ TxOK(t)
  /\ t.deleted = {}
  /\ c.pc # "idle" => c.task \in Tasks
  /\ c.phase = "abandonment" =>
       c.pc \in {"put", "tail", "insert"} /\ t.traces = {} /\ t.entries = {}
  /\ c.phase = "step" /\ c.pc \notin {"idle", "lock_task"} => c.state \in Rows
  /\ c.pc = "loop" => c.state.status = "running"
  /\ c.pc \in {"idle", "lock_task", "lock_credits", "entry", "loop"} => t = NoTx
  /\ c.pc \notin {"loop", "effects"} => c.performed = <<>>
  /\ \A e \in t.traces : e \in Memory /\ e.call[1] = c.task

CallersOK(ws, xs) ==
  /\ ws = [w \in Workers |-> ws[w]]
  /\ xs = [x \in Transactions |-> xs[x]]
  /\ \A w \in Workers : CallerOK(ws[w], xs[w])

PurgerOK(label, t) ==
  /\ label \in {"idle", "tail", "insert"}
  /\ TxOK(t)
  /\ label = "idle" => t = NoTx
  /\ t.entries = {} /\ t.traces = {}

TablesOK ==
  /\ tasks \in [Tasks -> Rows \cup {NoTask}]
  /\ previous \in [Tasks -> Rows \cup {NoTask}]
  /\ credits \in Amounts
  /\ effects \subseteq Memory
  /\ world \in [Calls -> Nat]
  /\ fuel \in [invocations : Nat, purges : Nat, crashes : Nat, restores : 0 .. MaxRestores]

Shape ==
  /\ TablesOK
  /\ CallersOK(worker, tx)
  /\ PurgerOK(purge, tx[Purger])

\* One caller moves.
LEMMA CallerMoves ==
  ASSUME NEW ws, NEW xs, CallersOK(ws, xs), NEW w \in Workers, NEW c, NEW t, CallerOK(c, t)
  PROVE  /\ CallersOK([ws EXCEPT ![w] = c], [xs EXCEPT ![w] = t])
         /\ [xs EXCEPT ![w] = t][Purger] = xs[Purger]
<1> DEFINE ws2 == [ws EXCEPT ![w] = c]
           xs2 == [xs EXCEPT ![w] = t]
<1>1. Workers \subseteq Transactions /\ Purger \in Transactions /\ Purger \notin Workers
  BY TaskStoreAssumption DEF Transactions
<1>2. DOMAIN ws = Workers /\ DOMAIN xs = Transactions
  BY DEF CallersOK
<1>3. /\ ws2 = [v \in Workers |-> ws2[v]]
      /\ xs2 = [x \in Transactions |-> xs2[x]]
  BY <1>2
<1>4. /\ ws2[w] = c /\ xs2[w] = t
      /\ \A v \in Workers : v # w => ws2[v] = ws[v] /\ xs2[v] = xs[v]
      /\ xs2[Purger] = xs[Purger]
  BY <1>1, <1>2
<1> HIDE DEF ws2, xs2
<1>5. \A v \in Workers : CallerOK(ws2[v], xs2[v])
  BY <1>4 DEF CallersOK
<1>6. CallersOK(ws2, xs2)
  BY <1>3, <1>5 DEF CallersOK
<1> QED
  BY <1>4, <1>6 DEF ws2, xs2

\* The purger moves.
LEMMA PurgerMoves ==
  ASSUME NEW ws, NEW xs, CallersOK(ws, xs), NEW t
  PROVE  /\ CallersOK(ws, [xs EXCEPT ![Purger] = t])
         /\ [xs EXCEPT ![Purger] = t][Purger] = t
<1> DEFINE xs2 == [xs EXCEPT ![Purger] = t]
<1>1. Workers \subseteq Transactions /\ Purger \in Transactions /\ Purger \notin Workers
  BY TaskStoreAssumption DEF Transactions
<1>2. DOMAIN xs = Transactions
  BY DEF CallersOK
<1>3. xs2 = [x \in Transactions |-> xs2[x]]
  BY <1>2
<1>4. xs2[Purger] = t /\ \A v \in Workers : xs2[v] = xs[v]
  BY <1>1, <1>2
<1> HIDE DEF xs2
<1>5. CallersOK(ws, xs2)
  BY <1>3, <1>4 DEF CallersOK
<1> QED
  BY <1>4, <1>5 DEF xs2
\* A step of one caller: the other callers and their transactions do not move.
Moves(ws, xs, ws2, xs2, w) ==
  /\ ws2 = [ws EXCEPT ![w] = ws2[w]]
  /\ xs2 = [xs EXCEPT ![w] = xs2[w]]

LEMMA CallerStep ==
  ASSUME NEW ws, NEW xs, NEW ws2, NEW xs2, CallersOK(ws, xs), NEW w \in Workers,
         Moves(ws, xs, ws2, xs2, w), CallerOK(ws2[w], xs2[w])
  PROVE  CallersOK(ws2, xs2) /\ xs2[Purger] = xs[Purger]
<1> DEFINE c == ws2[w]
           t == xs2[w]
<1>1. ws2 = [ws EXCEPT ![w] = c] /\ xs2 = [xs EXCEPT ![w] = t] /\ CallerOK(c, t)
  BY DEF Moves
<1> HIDE DEF c, t
<1>2. CallerOK(c, t) =>
        /\ CallersOK([ws EXCEPT ![w] = c], [xs EXCEPT ![w] = t])
        /\ [xs EXCEPT ![w] = t][Purger] = xs[Purger]
  BY CallerMoves
<1> QED
  BY <1>1, <1>2

LEMMA StepMoves ==
  ASSUME CallersOK(worker, tx), NEW w \in Workers
  PROVE  /\ Step(w) => Moves(worker, tx, worker', tx', w) /\ purge' = purge /\ fuel' = fuel
         /\ Crash(w) \/ AbortStep(w) =>
              Moves(worker, tx, worker', tx', w) /\ purge' = purge
         /\ \A t \in Tasks, a \in Approvals, r \in CallRules :
              Invoke(w, t, a, r) => Moves(worker, tx, worker', tx', w) /\ purge' = purge
<1>1. worker = [v \in Workers |-> worker[v]] /\ tx = [x \in Transactions |-> tx[x]]
  BY DEF CallersOK
<1>2. Workers \subseteq Transactions
  BY DEF Transactions
<1> USE <1>1, <1>2 DEF Moves, Leave, Rollback, Goto, Attested
<1>3. ASSUME Step(w)
      PROVE  Moves(worker, tx, worker', tx', w) /\ purge' = purge /\ fuel' = fuel
  <2>1. CASE TaskNotFound(w) \/ LockTask(w) \/ LockCredits(w) \/ ResultPurged(w)
    BY <2>1 DEF TaskNotFound, LockTask, LockCredits, ResultPurged
  <2>2. CASE Enter(w) \/ Loop(w)
    <3>1. PICK state : DriveTo(w, state)
      BY <2>2 DEF Enter, Loop
    <3> QED
      BY <3>1 DEF DriveTo
  <2>3. CASE KeepTrace(w) \/ TracesKept(w)
    BY <2>3 DEF KeepTrace, TracesKept
  <2>4. CASE PutContent(w) \/ FindTail(w) \/ InsertEvent(w) \/ SkipEvent(w) \/ LoseHeight(w)
    BY <2>4 DEF PutContent, FindTail, InsertEvent, SkipEvent, LoseHeight
  <2>5. CASE Commit(w) \/ AttestAbandonment(w) \/ RetryAbandonment(w)
             \/ GiveUpAbandonment(w)
    BY <2>5 DEF Commit, AttestAbandonment, RetryAbandonment, GiveUpAbandonment
  <2> QED
    BY <1>3, <2>1, <2>2, <2>3, <2>4, <2>5 DEF Step
<1>4. ASSUME Crash(w) \/ AbortStep(w)
      PROVE  Moves(worker, tx, worker', tx', w) /\ purge' = purge
  BY <1>4 DEF Crash, AbortStep
<1>5. ASSUME NEW t \in Tasks, NEW a \in Approvals, NEW r \in CallRules, Invoke(w, t, a, r)
      PROVE  Moves(worker, tx, worker', tx', w) /\ purge' = purge
  BY <1>5 DEF Invoke
<1> QED
  BY <1>3, <1>4, <1>5

LEMMA IdleOK ==
  /\ CallerOK(Idle, NoTx)
  /\ PurgerOK("idle", NoTx)
  /\ Idle.attempt = 0 /\ Idle.phase = "step" /\ Idle.pc = "idle"
<1>1. TxOK(NoTx)
  BY DEF TxOK, NoTx
<1>2. NoRules \in RuleSets
  BY DEF NoRules, RuleSets, Verdicts
<1>3. Idle \in Callers
  <2>1. 0 \in 0 .. ChainRetries - 1 /\ 0 \in Nat
    BY TaskStoreAssumption
  <2> QED
    BY <1>2, <2>1 DEF Idle, Callers, Labels, Approvals
<1> QED
  BY <1>1, <1>3 DEF CallerOK, PurgerOK, Idle, NoTx

LEMMA AttemptOK ==
  ASSUME NEW c \in Callers, c.task \in Tasks, NEW n \in 0 .. ChainRetries - 1
  PROVE  /\ CallerOK(Attempt(c, n), NoTx)
         /\ CallerOK([Attempt(c, n) EXCEPT !.pc = "put", !.phase = "abandonment"], NoTx)
<1>1. /\ c.approval \in Approvals /\ c.rules \in RuleSets /\ c.task \in Tasks \cup {NoTask}
  BY DEF Callers
<1>2. /\ Idle \in Callers /\ TxOK(NoTx) /\ Idle.performed = <<>> /\ Idle.phase = "step"
      /\ NoTx.deleted = {} /\ NoTx.traces = {} /\ NoTx.entries = {}
  BY IdleOK DEF CallerOK, Idle, NoTx
<1>3. /\ Attempt(c, n) \in Callers
      /\ Attempt(c, n).pc = "lock_task" /\ Attempt(c, n).phase = "step"
      /\ Attempt(c, n).task = c.task /\ Attempt(c, n).performed = <<>>
  <2> HIDE DEF Idle
  <2> QED
    BY <1>1, <1>2 DEF Attempt, Callers, Labels
<1> DEFINE a == Attempt(c, n)
           d == [a EXCEPT !.pc = "put", !.phase = "abandonment"]
<1> HIDE DEF a
<1>4. /\ d \in Callers /\ d.pc = "put" /\ d.phase = "abandonment"
      /\ d.task = c.task /\ d.performed = <<>>
  BY <1>3 DEF Callers, Labels, a
<1> HIDE DEF d
<1>5. CallerOK(a, NoTx)
  BY <1>2, <1>3 DEF CallerOK, a
<1>6. CallerOK(d, NoTx)
  BY <1>2, <1>4 DEF CallerOK
<1> QED
  BY <1>5, <1>6 DEF a, d
\* The calls a branch performs, those whose effect is not known, and the traces
\* it adds to those to be kept.
PerformedBy(t, u, known) == Unknown(RunBetween(t, u), known)

TracesOf(events) == SetToSeq({Trace(e) : e \in events})

LEMMA NewTraces ==
  ASSUME NEW t \in TaskStates, NEW u, OneRun(t, u), NEW known
  PROVE  \/ /\ PerformedBy(t, u, known) = {}
            /\ TracesOf(PerformedBy(t, u, known)) = <<>>
            /\ \/ u.iteration = t.iteration
               \/ u.iteration = t.iteration + 1 /\ t.iteration \in known
         \/ \E e \in Events, p \in Traces :
              /\ PerformedBy(t, u, known) = {e}
              /\ TracesOf(PerformedBy(t, u, known)) = <<p>>
              /\ e.iteration = t.iteration
              /\ p = Trace(e) /\ p.iteration = t.iteration
              /\ t.iteration \notin known
              /\ u.iteration = t.iteration + 1
              /\ t.iteration < MaxIterations
<1> DEFINE new == PerformedBy(t, u, known)
<1>1. ASSUME new = {} PROVE TracesOf(new) = <<>>
  <2>1. {Trace(e) : e \in new} = {}
    BY <1>1
  <2> QED
    BY <2>1, SeqOfOne DEF TracesOf
<1>2. CASE RunBetween(t, u) = {} /\ u.iteration = t.iteration
  BY <1>1, <1>2 DEF PerformedBy, Unknown
<1>3. ASSUME NEW r \in Requests, NEW x \in Cents,
             RunBetween(t, u) = {CallEvent("tool_call_completed", r, t.iteration, x, "")},
             u.iteration = t.iteration + 1, t.iteration < MaxIterations
      PROVE  \/ new = {} /\ t.iteration \in known /\ u.iteration = t.iteration + 1
             \/ \E e \in Events, p \in Traces :
                  /\ new = {e}
                  /\ TracesOf(new) = <<p>>
                  /\ e.iteration = t.iteration
                  /\ p = Trace(e) /\ p.iteration = t.iteration
                  /\ t.iteration \notin known
                  /\ u.iteration = t.iteration + 1
                  /\ t.iteration < MaxIterations
  <2> DEFINE e == CallEvent("tool_call_completed", r, t.iteration, x, "")
             p == Trace(e)
  <2>1. e.iteration = t.iteration /\ e.tool = r
    BY DEF CallEvent
  <2>2. e \in Events
    BY EventTypes DEF TaskStates, Actions, CallActions, Notes
  <2> HIDE DEF e
  <2>3. t.iteration \in Nat
    BY DEF TaskStates
  <2>4. t.iteration \in 0 .. MaxIterations
    <3>1. MaxIterations \in Nat
      BY MachineAssumption
    <3>2. t.iteration < MaxIterations
      BY <1>3
    <3> QED
      BY <2>3, <3>1, <3>2
  <2>5. p \in Traces /\ p.iteration = t.iteration
    BY <2>1, <2>4 DEF Trace, Traces
  <2>6. CASE t.iteration \in known
    <3>1. new = {}
      BY <1>3, <2>1, <2>6 DEF PerformedBy, Unknown, e
    <3> QED
      BY <1>3, <2>6, <3>1
  <2>7. CASE t.iteration \notin known
    <3>1. new = {e}
      BY <1>3, <2>1, <2>7 DEF PerformedBy, Unknown, e
    <3>2. {Trace(f) : f \in new} = {p}
      BY <3>1
    <3>3. TracesOf(new) = <<p>>
      BY <3>2, SeqOfOne DEF TracesOf
    <3> HIDE DEF p, new
    <3>4. p = Trace(e)
      BY DEF p
    <3> QED
      BY <1>3, <2>1, <2>2, <2>5, <2>7, <3>1, <3>3, <3>4
  <2> QED
    BY <2>6, <2>7
<1> QED
  BY <1>1, <1>2, <1>3 DEF OneRun

\* What drive changes, in one caller and in the world.
Driven(c, state) ==
  [c EXCEPT !.state = state,
            !.pc = IF state.status = "running" THEN "loop" ELSE "effects",
            !.performed = @ \o TracesOf(PerformedBy(c.state, state, c.known))]

LEMMA DriveDoes ==
  ASSUME CallersOK(worker, tx), NEW w \in Workers, NEW state, DriveTo(w, state)
  PROVE  LET c == worker[w]
             new == PerformedBy(c.state, state, c.known)
         IN  /\ worker'[w] = Driven(c, state)
             /\ UNCHANGED <<tx, purge, tasks, previous, credits, chain, content, effects, fuel>>
             /\ world' = [k \in Calls |->
                  world[k] + IF \E e \in new : k = Call(c.task, e.iteration) THEN 1 ELSE 0]
BY DEF DriveTo, Driven, PerformedBy, TracesOf, CallersOK, database

\* drive keeps its caller in shape.
LEMMA DriveShape ==
  ASSUME TablesOK, CallersOK(worker, tx), NEW w \in Workers, NEW state \in Rows,
         OneRun(worker[w].state, state), worker[w].pc \in {"entry", "loop"},
         DriveTo(w, state)
  PROVE  CallerOK(worker'[w], tx'[w]) /\ TablesOK'
<1> DEFINE c == worker[w]
           new == PerformedBy(c.state, state, c.known)
           done == TracesOf(new)
           d == Driven(c, state)
<1>1. CallerOK(c, tx[w]) /\ c \in Callers
  BY DEF CallersOK, CallerOK
<1>2. /\ worker'[w] = d
      /\ tx' = tx
      /\ world' = [k \in Calls |->
                     world[k] + IF \E e \in new : k = Call(c.task, e.iteration) THEN 1 ELSE 0]
      /\ UNCHANGED <<tasks, previous, credits, effects, fuel>>
  BY DriveDoes
<1>3. c.state \in Rows /\ c.phase = "step" /\ c.task \in Tasks /\ tx[w] = NoTx
  BY <1>1 DEF CallerOK, Callers
<1>4. done \in Seq(Traces)
  <2> DEFINE s == c.state
             k == c.known
  <2>1. s \in TaskStates
    BY <1>3 DEF Rows
  <2>2. OneRun(s, state)
    OBVIOUS
  <2> HIDE DEF s, k
  <2>3. \/ TracesOf(PerformedBy(s, state, k)) = <<>>
        \/ \E p \in Traces : TracesOf(PerformedBy(s, state, k)) = <<p>>
    BY <2>1, <2>2, NewTraces
  <2>4. TracesOf(PerformedBy(s, state, k)) \in Seq(Traces)
    <3>1. <<>> \in Seq(Traces) /\ \A p \in Traces : <<p>> \in Seq(Traces)
      OBVIOUS
    <3> QED
      BY <2>3, <3>1
  <2> QED
    BY <2>4 DEF s, k
<1> HIDE DEF new
<1>5. d = [c EXCEPT !.state = state,
                    !.pc = IF state.status = "running" THEN "loop" ELSE "effects",
                    !.performed = @ \o done]
  BY DEF Driven, new
<1> HIDE DEF done, d, c
<1>6. /\ d \in Callers
      /\ d.pc = IF state.status = "running" THEN "loop" ELSE "effects"
      /\ d.phase = "step" /\ d.task = c.task /\ d.state = state
  <2>1. c.performed \o done \in Seq(Traces)
    BY <1>1, <1>4 DEF Callers
  <2>2. /\ state \in TaskStates \cup {NoTask}
        /\ (IF state.status = "running" THEN "loop" ELSE "effects") \in Labels
    BY DEF Rows, Labels
  <2> QED
    BY <1>1, <1>3, <1>5, <2>1, <2>2 DEF Callers
<1>7. CallerOK(d, NoTx)
  <2>1. TxOK(NoTx) /\ NoTx.deleted = {} /\ NoTx.traces = {} /\ NoTx.entries = {}
    BY IdleOK DEF CallerOK, NoTx
  <2> QED
    BY <1>3, <1>6, <2>1 DEF CallerOK
<1>8. TablesOK'
  <2>1. world' \in [Calls -> Nat]
    BY <1>2 DEF TablesOK
  <2> QED
    BY <1>2, <2>1 DEF TablesOK
<1> QED
  BY <1>2, <1>3, <1>7, <1>8 DEF c
\* The calls of the other actions on the caller: each leaves one in shape.
LEMMA ReadShape ==
  ASSUME TablesOK, CallersOK(worker, tx), NEW w \in Workers
  PROVE  /\ Leave(w) => /\ CallerOK(worker'[w], tx'[w])
                        /\ UNCHANGED database
         /\ LockTask(w) => CallerOK(worker'[w], tx'[w])
         /\ LockCredits(w) => CallerOK(worker'[w], tx'[w])
<1> DEFINE c == worker[w]
<1>1. CallerOK(c, tx[w]) /\ c \in Callers /\ Workers \subseteq Transactions
  BY DEF CallersOK, CallerOK, Transactions
<1>2. DOMAIN worker = Workers /\ DOMAIN tx = Transactions
  BY DEF CallersOK
<1>3. ASSUME Leave(w) PROVE CallerOK(worker'[w], tx'[w]) /\ UNCHANGED database
  <2>1. worker'[w] = Idle /\ tx'[w] = NoTx
    BY <1>1, <1>2, <1>3 DEF Leave, Rollback
  <2> QED
    BY <1>3, <2>1, IdleOK DEF Leave
<1>4. ASSUME LockTask(w) PROVE CallerOK(worker'[w], tx'[w])
  <2> DEFINE s == tasks[c.task]
             d == [c EXCEPT !.pc = "lock_credits", !.state = s]
  <2>1. worker'[w] = d /\ tx' = tx /\ c.pc = "lock_task"
    BY <1>2, <1>4 DEF LockTask, At
  <2>2. s \in Rows /\ s \in TaskStates \cup {NoTask}
    BY <1>1, <1>4, <2>1 DEF LockTask, TablesOK, CallerOK, Rows
  <2> HIDE DEF s, c
  <2>3. /\ d \in Callers /\ d.pc = "lock_credits" /\ d.state = s /\ d.phase = c.phase
        /\ d.task = c.task /\ d.performed = c.performed
    BY <1>1, <2>2 DEF Callers, Labels
  <2> HIDE DEF d
  <2>4. CallerOK(d, tx[w])
    BY <1>1, <2>1, <2>2, <2>3 DEF CallerOK, c
  <2> QED
    BY <2>1, <2>4
<1>5. ASSUME LockCredits(w) PROVE CallerOK(worker'[w], tx'[w])
  <2> DEFINE s == [c.state EXCEPT !.budget = Refreshed(@, credits)]
             n == Len(c.state.audit) + 1
             d == [c EXCEPT !.pc = "entry", !.state = s, !.next = n, !.known = Loaded(c.task)]
  <2>1. c.pc = "lock_credits" /\ c.state \in Rows /\ c.task \in Tasks
    BY <1>1, <1>2, <1>5 DEF LockCredits, At, CallerOK, Callers
  <2>2. worker'[w] = d /\ tx' = tx
    <3>1. worker' = [worker EXCEPT ![w].pc = "entry",
                                   ![w].state.budget = Refreshed(@, credits),
                                   ![w].next = Len(c.state.audit) + 1,
                                   ![w].known = Loaded(c.task)]
          /\ tx' = tx
      BY <1>5 DEF LockCredits
    <3> QED
      BY <1>1, <1>2, <3>1 DEF Callers
  <2>3. s \in Rows /\ s \in TaskStates \cup {NoTask}
    BY <2>1, RefreshedRow DEF TablesOK, Rows
  <2>4. n \in Nat
    BY <2>1 DEF Rows, TaskStates
  <2>5. Loaded(c.task) \in SUBSET Nat
    <3>1. \A e \in effects : e.call[2] \in Nat
      BY DEF TablesOK, Memory, Calls
    <3> QED
      BY <3>1 DEF Loaded, Recorded
  <2> DEFINE k == Loaded(c.task)
  <2> HIDE DEF s, n, c, k
  <2>6. /\ d \in Callers /\ d.pc = "entry" /\ d.state = s /\ d.phase = c.phase
        /\ d.task = c.task /\ d.performed = c.performed
    BY <1>1, <2>3, <2>4, <2>5 DEF Callers, Labels, k
  <2> HIDE DEF d
  <2>7. CallerOK(d, tx[w])
    BY <1>1, <2>1, <2>3, <2>6 DEF CallerOK, c
  <2> QED
    BY <2>2, <2>7
<1> QED
  BY <1>3, <1>4, <1>5

\* Putting a content touches nothing else of the transaction.
LEMMA PutInKeeps ==
  ASSUME NEW t, TxOK(t), NEW x
  PROVE  /\ TxOK(PutIn(t, x))
         /\ PutIn(t, x).deleted = t.deleted /\ PutIn(t, x).entries = t.entries
         /\ PutIn(t, x).traces = t.traces /\ PutIn(t, x).tail = t.tail
         /\ PutIn(t, x).puts \subseteq t.puts \cup {x}
         /\ t.puts \subseteq PutIn(t, x).puts
         /\ x \in (content \ t.deleted) \cup PutIn(t, x).puts
BY DEF PutIn, TxOK

LEMMA InsertInKeeps ==
  ASSUME NEW t, TxOK(t), NEW e
  PROVE  /\ TxOK(InsertIn(t, e))
         /\ InsertIn(t, e).deleted = t.deleted
         /\ InsertIn(t, e).entries = t.entries \cup {e}
         /\ InsertIn(t, e).traces = t.traces /\ InsertIn(t, e).tail = t.tail
         /\ InsertIn(t, e).puts = t.puts
BY DEF InsertIn, TxOK

\* A caller goes on, to another statement or to another event.
Moved(c, label, n) == [c EXCEPT !.pc = label, !.next = n]

LEMMA WriteShape ==
  ASSUME TablesOK, CallersOK(worker, tx), NEW w \in Workers
  PROVE  /\ KeepTrace(w) => CallerOK(worker'[w], tx'[w])
         /\ TracesKept(w) => CallerOK(worker'[w], tx'[w])
         /\ PutContent(w) => CallerOK(worker'[w], tx'[w])
         /\ FindTail(w) => CallerOK(worker'[w], tx'[w])
         /\ InsertEvent(w) => CallerOK(worker'[w], tx'[w])
         /\ SkipEvent(w) => CallerOK(worker'[w], tx'[w])
<1> DEFINE c == worker[w]
<1>1. CallerOK(c, tx[w]) /\ c \in Callers /\ Workers \subseteq Transactions
  BY DEF CallersOK, CallerOK, Transactions
<1>2. DOMAIN worker = Workers /\ DOMAIN tx = Transactions
  BY DEF CallersOK
<1>3. TxOK(tx[w]) /\ tx[w].deleted = {}
  BY <1>1 DEF CallerOK
<1>4. ASSUME NEW label \in {"put", "tail", "insert", "commit"}, NEW n \in Nat, NEW t,
             TxOK(t), t.deleted = {}, t.traces = tx[w].traces,
             c.phase = "abandonment" => label # "commit" /\ t.entries = {},
             c.pc \in {"effects", "put", "tail", "insert"},
             c.performed = <<>>
      PROVE  CallerOK(Moved(c, label, n), t)
  <2> DEFINE d == [c EXCEPT !.pc = label, !.next = n]
  <2> HIDE DEF c
  <2>1. /\ d \in Callers /\ d.pc = label /\ d.phase = c.phase
        /\ d.task = c.task /\ d.performed = c.performed /\ d.state = c.state
    BY <1>1 DEF Callers, Labels
  <2> HIDE DEF d
  <2>2. CallerOK(d, t)
    BY <1>1, <1>4, <2>1 DEF CallerOK
  <2> QED
    BY <2>2 DEF d, Moved
<1>5. c.pc \in {"put", "tail", "insert"} => c.performed = <<>>
  BY <1>1 DEF CallerOK
<1>6. c.phase = "abandonment" => tx[w].entries = {} /\ c.pc # "effects"
  BY <1>1 DEF CallerOK
<1>7. c.next \in Nat /\ c.next + 1 \in Nat
  BY <1>1 DEF Callers
<1>8. \A l : [c EXCEPT !.pc = l] = Moved(c, l, c.next)
  <2> HIDE DEF c
  <2> QED
    BY <1>1 DEF Callers, Moved
<1>9. ASSUME KeepTrace(w) PROVE CallerOK(worker'[w], tx'[w])
  <2> DEFINE p == Head(c.performed)
             t == PutIn(tx[w], ResultContent(p.tool))
             e == EffectOf(c.task, p)
             d == [c EXCEPT !.performed = Tail(@)]
             u == IF \E f \in effects \cup t.traces : f.call = e.call
                  THEN t ELSE [t EXCEPT !.traces = @ \cup {e}]
  <2>1. /\ worker'[w] = d /\ tx'[w] = u
        /\ c.pc = "effects" /\ c.performed # <<>>
    BY <1>1, <1>2, <1>9 DEF KeepTrace, At
  <2>2. /\ TxOK(t) /\ t.deleted = {} /\ t.entries = tx[w].entries
        /\ t.traces = tx[w].traces
    BY <1>3, PutInKeeps
  <2>3. p \in Traces /\ Tail(c.performed) \in Seq(Traces)
    BY <1>1, <2>1 DEF Callers
  <2>4. e \in Memory /\ e.call[1] = c.task
    BY <1>1, <2>1, <2>3 DEF CallerOK, EffectOf, Memory, Calls, Call, Traces
  <2> HIDE DEF t, e, p
  <2>5. TxOK(u) /\ u.deleted = {} /\ u.entries = tx[w].entries /\ u.traces \subseteq tx[w].traces \cup {e}
    BY <2>2 DEF TxOK
  <2> HIDE DEF u, c
  <2>6. /\ d \in Callers /\ d.pc = "effects" /\ d.phase = c.phase
        /\ d.task = c.task /\ d.state = c.state
    BY <1>1, <2>1, <2>3 DEF Callers, Labels
  <2> HIDE DEF d
  <2>7. CallerOK(d, u)
    BY <1>1, <1>6, <2>1, <2>4, <2>5, <2>6 DEF CallerOK
  <2> QED
    BY <2>1, <2>7
<1>10. ASSUME TracesKept(w) PROVE CallerOK(worker'[w], tx'[w])
  <2>1. /\ worker'[w] = [c EXCEPT !.pc = AfterEvent(c)] /\ tx' = tx
        /\ c.pc = "effects" /\ c.performed = <<>>
    BY <1>2, <1>10 DEF TracesKept, At, Goto
  <2>2. AfterEvent(c) \in {"put", "tail", "insert", "commit"}
    BY DEF AfterEvent
  <2> QED
    BY <1>3, <1>4, <1>6, <1>7, <1>8, <2>1, <2>2
<1>11. ASSUME PutContent(w) PROVE CallerOK(worker'[w], tx'[w])
  <2>1. /\ worker'[w] = [c EXCEPT !.pc = "tail"] /\ tx'[w] = PutIn(tx[w], Writing(w).content)
        /\ c.pc = "put"
    BY <1>1, <1>2, <1>11 DEF PutContent, At, Goto
  <2> DEFINE t == PutIn(tx[w], Writing(w).content)
  <2>2. TxOK(t) /\ t.deleted = {} /\ t.traces = tx[w].traces /\ t.entries = tx[w].entries
    BY <1>3, PutInKeeps
  <2> HIDE DEF t
  <2> QED
    BY <1>4, <1>5, <1>6, <1>7, <1>8, <2>1, <2>2 DEF t
<1>12. ASSUME FindTail(w) PROVE CallerOK(worker'[w], tx'[w])
  <2> DEFINE t == [tx[w] EXCEPT !.tail = ReadTail(w)]
  <2>1. /\ worker'[w] = [c EXCEPT !.pc = "insert"] /\ tx'[w] = t
        /\ c.pc = "tail"
    BY <1>1, <1>2, <1>12 DEF FindTail, At, Goto
  <2>2. TxOK(t) /\ t.deleted = {} /\ t.traces = tx[w].traces /\ t.entries = tx[w].entries
    BY <1>3 DEF TxOK
  <2> HIDE DEF t
  <2> QED
    BY <1>4, <1>5, <1>6, <1>7, <1>8, <2>1, <2>2
<1>14. ASSUME Attested(w)
       PROVE  \E l \in {"put", "commit"} : worker'[w] = Moved(c, l, c.next + 1)
  <2> DEFINE b == [c EXCEPT !.next = @ + 1]
  <2>1. worker'[w] = [b EXCEPT !.pc = AfterEvent(b)]
    BY <1>2, <1>14 DEF Attested
  <2>2. AfterEvent(b) \in {"put", "commit"}
    BY DEF AfterEvent
  <2> DEFINE l == AfterEvent(b)
  <2> HIDE DEF c, l
  <2>3. [b EXCEPT !.pc = l] = Moved(c, l, c.next + 1)
    BY <1>1 DEF Callers, Moved
  <2> QED
    BY <2>1, <2>2, <2>3 DEF l
<1>15. ASSUME InsertEvent(w) PROVE CallerOK(worker'[w], tx'[w])
  <2> DEFINE t == InsertIn(tx[w], Entry(w, Writing(w)))
  <2>1. tx'[w] = t /\ c.pc = "insert" /\ c.phase = "step" /\ Attested(w)
    BY <1>1, <1>2, <1>15 DEF InsertEvent, At
  <2>2. TxOK(t) /\ t.deleted = {} /\ t.traces = tx[w].traces
    BY <1>3, InsertInKeeps
  <2> HIDE DEF t
  <2> QED
    BY <1>4, <1>5, <1>7, <1>14, <2>1, <2>2
<1>16. ASSUME SkipEvent(w) PROVE CallerOK(worker'[w], tx'[w])
  <2>1. tx' = tx /\ c.pc = "insert" /\ c.phase = "step" /\ Attested(w)
    BY <1>1, <1>2, <1>16 DEF SkipEvent, At
  <2> QED
    BY <1>3, <1>4, <1>5, <1>7, <1>14, <2>1
<1> QED
  BY <1>9, <1>10, <1>11, <1>12, <1>15, <1>16
LEMMA LoseShape ==
  ASSUME TablesOK, CallersOK(worker, tx), NEW w \in Workers
  PROVE  /\ LoseHeight(w) => CallerOK(worker'[w], tx'[w])
         /\ RetryAbandonment(w) => CallerOK(worker'[w], tx'[w])
         /\ AttestAbandonment(w) => CallerOK(worker'[w], tx'[w]) /\ effects' = effects
         /\ Commit(w) => CallerOK(worker'[w], tx'[w]) /\ TablesOK'
         /\ \A t \in Tasks, a \in Approvals, r \in CallRules :
              Invoke(w, t, a, r) => CallerOK(worker'[w], tx'[w])
<1> DEFINE c == worker[w]
<1>1. CallerOK(c, tx[w]) /\ c \in Callers /\ Workers \subseteq Transactions
  BY DEF CallersOK, CallerOK, Transactions
<1>2. DOMAIN worker = Workers /\ DOMAIN tx = Transactions
  BY DEF CallersOK
<1>3. c.attempt \in 0 .. ChainRetries - 1 /\ c.tries \in 0 .. ChainRetries - 1
      /\ ChainRetries \in Nat \ {0}
  BY <1>1, TaskStoreAssumption DEF Callers
<1>4. ASSUME LoseHeight(w) PROVE CallerOK(worker'[w], tx'[w])
  <2>1. /\ worker'[w] = [Attempt(c, c.attempt) EXCEPT !.pc = "put", !.phase = "abandonment"]
        /\ tx'[w] = NoTx /\ c.pc = "insert"
    BY <1>1, <1>2, <1>4 DEF LoseHeight, Rollback, At
  <2>2. c.task \in Tasks
    BY <1>1, <2>1 DEF CallerOK
  <2> QED
    BY <1>1, <1>3, <2>1, <2>2, AttemptOK
<1>5. ASSUME RetryAbandonment(w) PROVE CallerOK(worker'[w], tx'[w])
  <2> DEFINE d == [c EXCEPT !.pc = "put", !.tries = @ + 1]
  <2>1. worker'[w] = d /\ tx'[w] = NoTx /\ c.pc = "insert" /\ c.tries + 1 < ChainRetries
        /\ c.phase = "abandonment"
    BY <1>1, <1>2, <1>5 DEF RetryAbandonment, Rollback, At
  <2>2. c.tries + 1 \in 0 .. ChainRetries - 1
    BY <1>3, <2>1
  <2> HIDE DEF c
  <2>3. /\ d \in Callers /\ d.pc = "put" /\ d.phase = "abandonment" /\ d.task = c.task
        /\ d.performed = c.performed
    BY <1>1, <2>1, <2>2 DEF Callers, Labels
  <2>4. TxOK(NoTx) /\ NoTx.deleted = {} /\ NoTx.traces = {} /\ NoTx.entries = {}
    BY IdleOK DEF CallerOK, NoTx
  <2> HIDE DEF d
  <2> QED
    BY <1>1, <2>1, <2>3, <2>4 DEF CallerOK
<1>6. ASSUME AttestAbandonment(w)
      PROVE  CallerOK(worker'[w], tx'[w]) /\ effects' = effects
  <2> DEFINE d == IF c.attempt + 1 < ChainRetries THEN Attempt(c, c.attempt + 1) ELSE Idle
  <2>1. worker'[w] = d /\ tx'[w] = NoTx /\ c.pc = "insert" /\ c.phase = "abandonment"
    BY <1>1, <1>2, <1>6 DEF AttestAbandonment, Rollback, At
  <2>2. c.task \in Tasks /\ TxOK(tx[w]) /\ tx[w].traces = {}
    BY <1>1, <2>1 DEF CallerOK
  <2>3. CallerOK(d, NoTx)
    <3>1. CASE c.attempt + 1 < ChainRetries
      <4>1. c.attempt + 1 \in 0 .. ChainRetries - 1
        BY <1>3, <3>1
      <4> QED
        BY <1>1, <2>2, <3>1, <4>1, AttemptOK
    <3>2. CASE ~(c.attempt + 1 < ChainRetries)
      BY <3>2, IdleOK
    <3> QED
      BY <3>1, <3>2
  <2>4. effects' = effects
    <3>1. effects' = effects \cup InsertIn(tx[w], Entry(w, Writing(w))).traces
      BY <1>6 DEF AttestAbandonment, Publish
    <3> QED
      BY <2>2, <3>1, InsertInKeeps
  <2> QED
    BY <2>1, <2>3, <2>4
<1>7. ASSUME Commit(w) PROVE CallerOK(worker'[w], tx'[w]) /\ TablesOK'
  <2>1. /\ worker'[w] = Idle /\ tx'[w] = NoTx /\ c.pc = "commit"
        /\ tasks' = [tasks EXCEPT ![c.task] = c.state]
        /\ previous' = [previous EXCEPT ![c.task] = tasks[c.task]]
        /\ credits' = c.state.budget.org_balance
        /\ effects' = effects \cup tx[w].traces
        /\ world' = world /\ fuel' = fuel
    BY <1>1, <1>2, <1>7 DEF Commit, Rollback, At, Publish
  <2>2. c.state \in Rows /\ c.task \in Tasks
    BY <1>1, <2>1 DEF CallerOK, Callers
  <2>3. c.state.budget.org_balance \in Amounts
    BY <2>2 DEF Rows, TaskStates, Budgets
  <2>4. tx[w].traces \subseteq Memory
    BY <1>1 DEF CallerOK
  <2>5. TablesOK'
    BY <2>1, <2>2, <2>3, <2>4 DEF TablesOK
  <2> QED
    BY <2>1, <2>5, IdleOK
<1>8. ASSUME NEW t \in Tasks, NEW a \in Approvals, NEW r \in CallRules, Invoke(w, t, a, r)
      PROVE  CallerOK(worker'[w], tx'[w])
  <2> DEFINE b == [task |-> t, approval |-> a, rules |-> r]
  <2>1. worker'[w] = Attempt(b, 0) /\ tx' = tx /\ tx[w] = NoTx
    BY <1>1, <1>2, <1>8 DEF Invoke, At, CallerOK
  <2> DEFINE i == [Idle EXCEPT !.task = t, !.approval = a, !.rules = r]
  <2>2. Attempt(b, 0) = Attempt(i, 0) /\ i.task = t
    BY IdleOK DEF Attempt, Idle
  <2>3. i \in Callers
    BY IdleOK, TaskStoreAssumption DEF CallerOK, Callers
  <2>4. 0 \in 0 .. ChainRetries - 1
    BY <1>3
  <2> HIDE DEF i, b
  <2> QED
    BY <2>1, <2>2, <2>3, <2>4, AttemptOK
<1> QED
  BY <1>4, <1>5, <1>6, <1>7, <1>8

LEMMA PurgeShape ==
  ASSUME Shape
  PROVE  /\ DeleteContent => Shape'
         /\ Purging \/ CrashPurge \/ AbortPurge => Shape'
<1>1. TxOK(tx[Purger]) /\ tx[Purger].entries = {} /\ tx[Purger].traces = {}
  BY DEF Shape, PurgerOK
<1>2. CallersOK(worker, tx) /\ TablesOK /\ DOMAIN tx = Transactions /\ Purger \in Transactions
  BY DEF Shape, CallersOK, Transactions
<1>3. ASSUME NEW p, NEW r, TxOK(p)
      PROVE  LET t == [p EXCEPT !.tail = r] IN
             TxOK(t) /\ t.entries = p.entries /\ t.traces = p.traces
  BY <1>3 DEF TxOK
<1>4. ASSUME DeleteContent PROVE Shape'
  <2> DEFINE t == [tx[Purger] EXCEPT !.deleted = content,
                                     !.puts = {PurgeContent(Cardinality(content))}]
  <2>1. tx' = [tx EXCEPT ![Purger] = t] /\ worker' = worker /\ purge' = "tail"
    BY <1>2, <1>4 DEF DeleteContent
  <2>2. TxOK(t) /\ t.entries = {} /\ t.traces = {}
    <3> DEFINE p == tx[Purger]
               q == {PurgeContent(Cardinality(content))}
               r == [p EXCEPT !.deleted = content]
    <3>1. TxOK(p) /\ p.entries = {} /\ p.traces = {}
      BY <1>1
    <3> HIDE DEF p, q
    <3>2. TxOK(r) /\ r.entries = {} /\ r.traces = {}
      BY <3>1 DEF TxOK
    <3> HIDE DEF r
    <3>3. TxOK([r EXCEPT !.puts = q]) /\ [r EXCEPT !.puts = q].entries = {}
          /\ [r EXCEPT !.puts = q].traces = {}
      BY <3>2 DEF TxOK
    <3>4. t = [r EXCEPT !.puts = q]
      BY DEF r, p, q
    <3> QED
      BY <3>3, <3>4
  <2>3. TablesOK'
    <3>1. /\ UNCHANGED <<tasks, previous, credits, effects, world>>
          /\ fuel' = [fuel EXCEPT !.purges = @ - 1] /\ fuel.purges > 0
      BY <1>4 DEF DeleteContent, database
    <3> QED
      BY <1>2, <3>1 DEF TablesOK
  <2>4. CallersOK(worker', tx') /\ tx'[Purger] = t
    <3>1. CallersOK(worker, [tx EXCEPT ![Purger] = t]) /\ [tx EXCEPT ![Purger] = t][Purger] = t
      BY <1>2, PurgerMoves
    <3> QED
      BY <2>1, <3>1
  <2> HIDE DEF t
  <2> QED
    BY <2>1, <2>2, <2>3, <2>4 DEF Shape, PurgerOK
<1>5. ASSUME PurgeFindTail PROVE Shape'
  <2> DEFINE t == [tx[Purger] EXCEPT !.tail = ReadTail(Purger)]
  <2>1. tx' = [tx EXCEPT ![Purger] = t] /\ worker' = worker /\ purge' = "insert"
    BY <1>2, <1>5 DEF PurgeFindTail
  <2>2. TxOK(t) /\ t.entries = {} /\ t.traces = {}
    BY <1>1, <1>3
  <2>3. TablesOK'
    BY <1>2, <1>5 DEF PurgeFindTail, database, TablesOK
  <2>4. CallersOK(worker', tx') /\ tx'[Purger] = t
    <3>1. CallersOK(worker, [tx EXCEPT ![Purger] = t]) /\ [tx EXCEPT ![Purger] = t][Purger] = t
      BY <1>2, PurgerMoves
    <3> QED
      BY <2>1, <3>1
  <2> HIDE DEF t
  <2> QED
    BY <2>1, <2>2, <2>3, <2>4 DEF Shape, PurgerOK
<1>6. ASSUME AttestPurge \/ LosePurge \/ CrashPurge \/ AbortPurge PROVE Shape'
  <2>1. tx' = [tx EXCEPT ![Purger] = NoTx] /\ worker' = worker /\ purge' = "idle"
    BY <1>6 DEF AttestPurge, LosePurge, CrashPurge, AbortPurge, Rollback
  <2>2. effects' = effects
    <3>1. CASE AttestPurge
      <4>1. effects' = effects \cup
               InsertIn(tx[Purger], Entry(Purger, PurgeAttestation)).traces
        BY <3>1 DEF AttestPurge, Publish
      <4> QED
        BY <1>1, <4>1, InsertInKeeps
    <3>2. CASE LosePurge \/ CrashPurge \/ AbortPurge
      BY <3>2 DEF LosePurge, CrashPurge, AbortPurge, database
    <3> QED
      BY <1>6, <3>1, <3>2
  <2>3. UNCHANGED <<tasks, previous, credits, world>>
    BY <1>6 DEF AttestPurge, LosePurge, CrashPurge, AbortPurge, database
  <2>4. fuel' = fuel \/ (fuel' = [fuel EXCEPT !.crashes = @ - 1] /\ fuel.crashes > 0)
    BY <1>6 DEF AttestPurge, LosePurge, CrashPurge, AbortPurge
  <2>5. TablesOK'
    <3>1. fuel' \in [invocations : Nat, purges : Nat, crashes : Nat, restores : 0 .. MaxRestores]
      BY <1>2, <2>4 DEF TablesOK
    <3> QED
      BY <1>2, <2>2, <2>3, <3>1 DEF TablesOK
  <2>6. CallersOK(worker', tx') /\ tx'[Purger] = NoTx
    <3>1. CallersOK(worker, [tx EXCEPT ![Purger] = NoTx])
          /\ [tx EXCEPT ![Purger] = NoTx][Purger] = NoTx
      BY <1>2, PurgerMoves
    <3> QED
      BY <2>1, <3>1
  <2> QED
    BY <2>1, <2>5, <2>6, IdleOK DEF Shape
<1> QED
  BY <1>4, <1>5, <1>6 DEF Purging
LEMMA ShapeInit == Init => Shape
<1> SUFFICES ASSUME Init PROVE Shape
  OBVIOUS
<1>1. Workers \subseteq Transactions /\ Purger \in Transactions
  BY DEF Transactions
<1>2. \A w \in Workers : worker[w] = Idle /\ tx[w] = NoTx
  BY <1>1 DEF Init
<1>3. CallersOK(worker, tx)
  BY <1>2, IdleOK DEF Init, CallersOK
<1>4. PurgerOK(purge, tx[Purger])
  BY <1>1, IdleOK DEF Init
<1>5. TablesOK
  <2>1. /\ tasks = [t \in Tasks |-> NoTask] /\ previous = [t \in Tasks |-> NoTask]
        /\ credits = InitialBalance /\ effects = {} /\ world = [c \in Calls |-> 0]
        /\ fuel = [invocations |-> MaxInvocations, purges |-> MaxPurges,
                   crashes |-> MaxCrashes, restores |-> MaxRestores]
    BY DEF Init
  <2>2. /\ MaxInvocations \in Nat /\ MaxPurges \in Nat /\ MaxCrashes \in Nat
        /\ MaxRestores \in 0 .. MaxRestores
    BY TaskStoreAssumption
  <2> QED
    BY <2>1, <2>2, TaskStoreAssumption DEF TablesOK
<1> QED
  BY <1>3, <1>4, <1>5 DEF Shape

\* A step of a caller keeps the shape.
LEMMA StepShape ==
  ASSUME Shape, NEW w \in Workers, Step(w)
  PROVE  CallerOK(worker'[w], tx'[w]) /\ TablesOK'
<1>1. TablesOK /\ CallersOK(worker, tx) /\ CallerOK(worker[w], tx[w])
  BY DEF Shape, CallersOK
<1>2. ASSUME UNCHANGED <<tasks, previous, credits, effects, world, fuel>> PROVE TablesOK'
  BY <1>1, <1>2 DEF TablesOK
<1>3. CASE TaskNotFound(w) \/ ResultPurged(w) \/ GiveUpAbandonment(w)
  <2>1. Leave(w) /\ UNCHANGED <<world, fuel>>
    BY <1>3 DEF TaskNotFound, ResultPurged, GiveUpAbandonment
  <2> QED
    BY <1>1, <1>2, <2>1, ReadShape DEF database
<1>4. CASE LockTask(w) \/ LockCredits(w)
  <2>1. UNCHANGED <<tasks, previous, credits, effects, world, fuel>>
    BY <1>4 DEF LockTask, LockCredits, database
  <2> QED
    BY <1>1, <1>2, <1>4, <2>1, ReadShape
<1>5. CASE Enter(w)
  <2>1. PICK state \in Entered(worker[w].state, worker[w].approval) : DriveTo(w, state)
    BY <1>5 DEF Enter
  <2>2. worker[w].pc = "entry" /\ worker[w].state \in Rows /\ worker[w].approval \in Approvals
    BY <1>1, <1>5 DEF Enter, At, CallerOK, Callers
  <2>3. state \in Rows /\ OneRun(worker[w].state, state)
    BY <2>2, EnteredRow
  <2> QED
    BY <1>1, <2>1, <2>2, <2>3, DriveShape
<1>6. CASE Loop(w)
  <2>1. PICK state \in Passed(worker[w].state, worker[w].rules) : DriveTo(w, state)
    BY <1>6 DEF Loop
  <2>2. /\ worker[w].pc = "loop" /\ worker[w].state \in Rows /\ worker[w].rules \in RuleSets
        /\ worker[w].state.status = "running"
    BY <1>1, <1>6 DEF Loop, At, CallerOK, Callers
  <2>3. state \in Rows /\ OneRun(worker[w].state, state)
    BY <2>2, PassedRow
  <2> QED
    BY <1>1, <2>1, <2>2, <2>3, DriveShape
<1>7. CASE KeepTrace(w) \/ TracesKept(w) \/ PutContent(w) \/ FindTail(w) \/ InsertEvent(w)
           \/ SkipEvent(w)
  <2>1. UNCHANGED <<tasks, previous, credits, effects, world, fuel>>
    BY <1>7 DEF KeepTrace, TracesKept, PutContent, FindTail, InsertEvent, SkipEvent, database
  <2>2. CallerOK(worker'[w], tx'[w])
    BY <1>1, <1>7, WriteShape
  <2> QED
    BY <1>2, <2>1, <2>2
<1>8. CASE LoseHeight(w) \/ RetryAbandonment(w) \/ AttestAbandonment(w)
  <2>1. UNCHANGED <<tasks, previous, credits, effects, world, fuel>>
    <3>1. CASE LoseHeight(w) \/ RetryAbandonment(w)
      BY <3>1 DEF LoseHeight, RetryAbandonment, database
    <3>2. CASE AttestAbandonment(w)
      BY <1>1, <3>2, LoseShape DEF AttestAbandonment
    <3> QED
      BY <1>8, <3>1, <3>2
  <2>2. CallerOK(worker'[w], tx'[w])
    BY <1>1, <1>8, LoseShape
  <2> QED
    BY <1>2, <2>1, <2>2
<1>9. CASE Commit(w)
  BY <1>1, <1>9, LoseShape
<1> QED
  BY <1>3, <1>4, <1>5, <1>6, <1>7, <1>8, <1>9 DEF Step

LEMMA ShapeNext == Shape /\ [Next]_vars => Shape'
<1> SUFFICES ASSUME Shape, [Next]_vars PROVE Shape'
  OBVIOUS
<1>1. TablesOK /\ CallersOK(worker, tx) /\ PurgerOK(purge, tx[Purger])
  BY DEF Shape
<1>2. ASSUME NEW w \in Workers, CallerOK(worker'[w], tx'[w]), TablesOK',
             Moves(worker, tx, worker', tx', w), purge' = purge
      PROVE  Shape'
  <2>1. CallersOK(worker', tx') /\ tx'[Purger] = tx[Purger]
    BY <1>1, <1>2, CallerStep
  <2> QED
    BY <1>1, <1>2, <2>1 DEF Shape
<1>3. ASSUME UNCHANGED <<tx, worker, purge>>, TablesOK' PROVE Shape'
  BY <1>1, <1>3 DEF Shape
<1>4. ASSUME NEW t \in Tasks, CreateTask(t) PROVE Shape'
  <2>1. NewTask(Ceiling, credits) \in Rows
    BY <1>1, NewTaskRow DEF TablesOK
  <2>2. TablesOK'
    BY <1>1, <1>4, <2>1 DEF CreateTask, TablesOK
  <2> QED
    BY <1>3, <1>4, <2>2 DEF CreateTask
<1>5. ASSUME NEW t \in Tasks, RestoreTask(t) PROVE Shape'
  <2>1. fuel' \in [invocations : Nat, purges : Nat, crashes : Nat, restores : 0 .. MaxRestores]
    BY <1>1, <1>5, TaskStoreAssumption DEF RestoreTask, TablesOK
  <2>2. TablesOK'
    BY <1>1, <1>5, <2>1 DEF RestoreTask, TablesOK
  <2> QED
    BY <1>3, <1>5, <2>2 DEF RestoreTask
<1>6. ASSUME NEW w \in Workers, NEW t \in Tasks, NEW a \in Approvals, NEW r \in CallRules,
             Invoke(w, t, a, r)
      PROVE  Shape'
  <2>1. fuel' \in [invocations : Nat, purges : Nat, crashes : Nat, restores : 0 .. MaxRestores]
    BY <1>1, <1>6 DEF Invoke, TablesOK
  <2>2. TablesOK'
    BY <1>1, <1>6, <2>1 DEF Invoke, TablesOK, database
  <2>3. CallerOK(worker'[w], tx'[w])
    BY <1>1, <1>6, LoseShape
  <2>4. Moves(worker, tx, worker', tx', w) /\ purge' = purge
    BY <1>1, <1>6, StepMoves
  <2> QED
    BY <1>2, <2>2, <2>3, <2>4
<1>7. ASSUME NEW w \in Workers, Step(w) PROVE Shape'
  BY <1>1, <1>2, <1>7, StepShape, StepMoves
<1>8. ASSUME NEW w \in Workers, Crash(w) \/ AbortStep(w) PROVE Shape'
  <2>1. Leave(w) /\ UNCHANGED world
    BY <1>8 DEF Crash, AbortStep
  <2>2. fuel' \in [invocations : Nat, purges : Nat, crashes : Nat, restores : 0 .. MaxRestores]
    BY <1>1, <1>8 DEF Crash, AbortStep, TablesOK
  <2>3. TablesOK'
    BY <1>1, <2>1, <2>2 DEF Leave, TablesOK, database
  <2>4. CallerOK(worker'[w], tx'[w])
    BY <1>1, <2>1, ReadShape
  <2>5. Moves(worker, tx, worker', tx', w) /\ purge' = purge
    BY <1>1, <1>8, StepMoves
  <2> QED
    BY <1>2, <2>3, <2>4, <2>5
<1>9. CASE DeleteContent \/ Purging \/ CrashPurge \/ AbortPurge
  BY <1>9, PurgeShape
<1>10. CASE UNCHANGED vars
  BY <1>1, <1>3, <1>10 DEF vars, database, TablesOK
<1> QED
  BY <1>4, <1>5, <1>6, <1>7, <1>8, <1>9, <1>10 DEF Next, Deadlock

LEMMA ShapeCorrect == Spec => []Shape
BY ShapeInit, ShapeNext, PTL DEF Spec

LEMMA ShapeTypes == Shape => TypeOK
<1> SUFFICES ASSUME Shape PROVE TypeOK
  OBVIOUS
<1>1. \A t \in Created : tasks[t] \in TaskStates
  BY DEF Shape, TablesOK, Created, Rows
<1>2. credits \in Amounts /\ \A c \in Calls : world[c] \in Nat
  BY DEF Shape, TablesOK
<1>3. \A e \in effects : e.call \in Calls /\ e.tool \in Requests
  BY DEF Shape, TablesOK, Memory
<1>4. purge \in {"idle", "tail", "insert"}
  BY DEF Shape, PurgerOK
<1>5. ASSUME NEW w \in Workers
      PROVE  /\ worker[w].pc \in Labels
             /\ worker[w].attempt \in 0 .. ChainRetries - 1
             /\ worker[w].tries \in 0 .. ChainRetries - 1
             /\ worker[w].pc \notin {"idle", "lock_task"} /\ worker[w].phase = "step" =>
                  worker[w].state \in TaskStates
  <2>1. CallerOK(worker[w], tx[w])
    BY DEF Shape, CallersOK
  <2> QED
    BY <2>1 DEF CallerOK, Callers, Rows
<1> QED
  BY <1>1, <1>2, <1>3, <1>4, <1>5 DEF TypeOK

\* Whatever the callers, the failures and the retries, the rows, the callers
\* and the memory of the effects keep their types: every row is an envelope
\* drive can be called on again.
THEOREM StoreTypeCorrect == Spec => []TypeOK
BY ShapeCorrect, ShapeTypes, PTL
-----------------------------------------------------------------------------
(***************************************************************************)
(* What each step of a caller changes of it                                *)
(***************************************************************************)
Same(c, d) ==
  d.task = c.task /\ d.phase = c.phase /\ d.attempt = c.attempt /\ d.known = c.known

Locking(w) ==
  /\ LockTask(w) =>
       /\ worker[w].pc = "lock_task" /\ worker'[w].pc = "lock_credits"
       /\ worker'[w].state = tasks[worker[w].task]
       /\ Same(worker[w], worker'[w]) /\ worker[w].phase = "step"
       /\ tx'[w] = tx[w]
  /\ LockCredits(w) =>
       /\ worker[w].pc = "lock_credits" /\ worker'[w].pc = "entry"
       /\ worker'[w].state = [worker[w].state EXCEPT !.budget = Refreshed(@, credits)]
       /\ worker'[w].known = Loaded(worker[w].task)
       /\ worker'[w].next = Len(worker[w].state.audit) + 1
       /\ worker'[w].task = worker[w].task /\ worker'[w].phase = worker[w].phase
       /\ worker'[w].attempt = worker[w].attempt
       /\ worker[w].phase = "step"
       /\ tx'[w] = tx[w]

Keeping(w) ==
  /\ KeepTrace(w) =>
       /\ worker[w].pc = "effects" /\ worker'[w].pc = "effects"
       /\ worker'[w].state = worker[w].state /\ worker'[w].next = worker[w].next
       /\ worker[w].performed # <<>> /\ worker'[w].performed = Tail(worker[w].performed)
       /\ Same(worker[w], worker'[w])
  /\ TracesKept(w) =>
       /\ worker[w].pc = "effects" /\ worker'[w].pc = AfterEvent(worker[w])
       /\ worker'[w].state = worker[w].state /\ worker'[w].next = worker[w].next
       /\ worker[w].performed = <<>>
       /\ Same(worker[w], worker'[w]) /\ tx'[w] = tx[w]

Writes(w) ==
  /\ PutContent(w) =>
       /\ worker[w].pc = "put" /\ worker'[w].pc = "tail"
       /\ worker'[w].state = worker[w].state /\ worker'[w].next = worker[w].next
       /\ Same(worker[w], worker'[w]) /\ tx'[w] = PutIn(tx[w], Writing(w).content)
  /\ FindTail(w) =>
       /\ worker[w].pc = "tail" /\ worker'[w].pc = "insert"
       /\ worker'[w].state = worker[w].state /\ worker'[w].next = worker[w].next
       /\ Same(worker[w], worker'[w]) /\ tx'[w] = [tx[w] EXCEPT !.tail = ReadTail(w)]
  /\ InsertEvent(w) \/ SkipEvent(w) =>
       /\ worker[w].pc = "insert" /\ worker'[w].pc \in {"put", "commit"}
       /\ worker'[w].pc = "put" <=> worker[w].next + 1 <= Len(worker[w].state.audit)
       /\ worker'[w].state = worker[w].state /\ worker'[w].next = worker[w].next + 1
       /\ worker[w].phase = "step"
       /\ Same(worker[w], worker'[w])
  /\ InsertEvent(w) => tx'[w] = InsertIn(tx[w], Entry(w, Writing(w)))
  /\ SkipEvent(w) => tx'[w] = tx[w]

Losing(w) ==
  /\ LoseHeight(w) =>
       /\ worker[w].pc = "insert" /\ worker'[w].pc = "put"
       /\ worker[w].phase = "step" /\ worker'[w].phase = "abandonment"
       /\ worker'[w].task = worker[w].task /\ worker'[w].attempt = worker[w].attempt
       /\ tx'[w] = NoTx
  /\ RetryAbandonment(w) =>
       /\ worker[w].pc = "insert" /\ worker'[w].pc = "put"
       /\ worker[w].phase = "abandonment" /\ Same(worker[w], worker'[w])
       /\ tx'[w] = NoTx
  /\ AttestAbandonment(w) =>
       /\ worker[w].pc = "insert" /\ worker[w].phase = "abandonment"
       /\ \/ /\ worker'[w].pc = "lock_task" /\ worker'[w].phase = "step"
             /\ worker'[w].task = worker[w].task
             /\ worker'[w].attempt = worker[w].attempt + 1
          \/ worker'[w] = Idle
       /\ tx'[w] = NoTx
  /\ Commit(w) =>
       /\ worker[w].pc = "commit" /\ worker'[w] = Idle /\ tx'[w] = NoTx

Abandoning(c, n) == [Attempt(c, n) EXCEPT !.pc = "put", !.phase = "abandonment"]

LEMMA StepFields ==
  ASSUME CallersOK(worker, tx), NEW w \in Workers
  PROVE  /\ Locking(w) /\ Keeping(w) /\ Writes(w) /\ Losing(w)
         /\ Leave(w) => worker'[w] = Idle /\ tx'[w] = NoTx
         /\ \A t \in Tasks, a \in Approvals, r \in CallRules :
              Invoke(w, t, a, r) =>
                /\ worker[w].pc = "idle" /\ worker'[w].pc = "lock_task"
                /\ worker'[w].phase = "step" /\ worker'[w].attempt = 0
                /\ tx'[w] = tx[w]
<1> DEFINE c == worker[w]
<1>1. CallerOK(c, tx[w]) /\ c \in Callers /\ Workers \subseteq Transactions
  BY DEF CallersOK, CallerOK, Transactions
<1>2. DOMAIN worker = Workers /\ DOMAIN tx = Transactions
  BY DEF CallersOK
<1>3. c.phase = "abandonment" => c.pc \in {"put", "tail", "insert"}
  BY <1>1 DEF CallerOK
<1>4. c.phase \in {"step", "abandonment"}
  BY <1>1 DEF Callers
<1>5. ASSUME Leave(w) PROVE worker'[w] = Idle /\ tx'[w] = NoTx
  BY <1>1, <1>2, <1>5 DEF Leave, Rollback
<1>6. Locking(w)
  <2>1. ASSUME LockTask(w)
        PROVE  /\ c.pc = "lock_task"
               /\ worker'[w] = [c EXCEPT !.pc = "lock_credits", !.state = tasks[c.task]]
               /\ tx' = tx
    BY <1>1, <1>2, <2>1 DEF LockTask, At
  <2>2. ASSUME LockTask(w)
        PROVE  /\ worker'[w].pc = "lock_credits" /\ worker'[w].state = tasks[c.task]
               /\ Same(c, worker'[w])
    BY <1>1, <2>1, <2>2 DEF Callers, Same
  <2> DEFINE s == [c.state EXCEPT !.budget = Refreshed(@, credits)]
             n == Len(c.state.audit) + 1
             k == Loaded(c.task)
             d == [c EXCEPT !.pc = "entry", !.state = s, !.next = n, !.known = k]
  <2>3. ASSUME LockCredits(w) PROVE worker'[w] = d
    <3>1. worker' = [worker EXCEPT ![w].pc = "entry",
                                   ![w].state.budget = Refreshed(@, credits),
                                   ![w].next = Len(c.state.audit) + 1,
                                   ![w].known = Loaded(c.task)]
      BY <2>3 DEF LockCredits
    <3> QED
      BY <1>1, <1>2, <3>1 DEF Callers
  <2>4. ASSUME LockCredits(w) PROVE tx' = tx /\ c.pc = "lock_credits"
    BY <2>4 DEF LockCredits, At
  <2>5. /\ d.pc = "entry" /\ d.state = s /\ d.next = n /\ d.known = k
        /\ d.task = c.task /\ d.phase = c.phase /\ d.attempt = c.attempt
    <3> HIDE DEF s, n, k, c
    <3> QED
      BY <1>1 DEF Callers
  <2>6. LockTask(w) => /\ c.pc = "lock_task" /\ c.phase = "step" /\ tx' = tx
    BY <1>1, <1>3, <1>4, <2>1
  <2>7. LockCredits(w) => c.pc = "lock_credits" /\ c.phase = "step" /\ tx' = tx
    BY <1>1, <1>3, <1>4, <2>4
  <2> HIDE DEF d
  <2>8. LockCredits(w) =>
          /\ worker'[w].pc = "entry" /\ worker'[w].state = s /\ worker'[w].next = n
          /\ worker'[w].known = k /\ worker'[w].task = c.task
          /\ worker'[w].phase = c.phase /\ worker'[w].attempt = c.attempt
    BY <2>3, <2>5
  <2> QED
    BY <2>2, <2>6, <2>7, <2>8 DEF Locking
<1>7. Keeping(w)
  BY <1>1, <1>2 DEF Keeping, KeepTrace, TracesKept, At, Goto, Same, Callers
<1>8. Writes(w)
  <2>1. ASSUME PutContent(w)
        PROVE  /\ c.pc = "put" /\ worker'[w] = Moved(c, "tail", c.next)
               /\ tx'[w] = PutIn(tx[w], Writing(w).content)
    BY <1>1, <1>2, <2>1 DEF PutContent, At, Goto, Moved, Callers
  <2>2. ASSUME FindTail(w)
        PROVE  /\ c.pc = "tail" /\ worker'[w] = Moved(c, "insert", c.next)
               /\ tx'[w] = [tx[w] EXCEPT !.tail = ReadTail(w)]
    BY <1>1, <1>2, <2>2 DEF FindTail, At, Goto, Moved, Callers
  <2>3. ASSUME InsertEvent(w) \/ SkipEvent(w)
        PROVE  /\ c.pc = "insert" /\ c.phase = "step" /\ Attested(w)
               /\ InsertEvent(w) => tx'[w] = InsertIn(tx[w], Entry(w, Writing(w)))
               /\ SkipEvent(w) => tx'[w] = tx[w]
    BY <1>1, <1>2, <2>3 DEF InsertEvent, SkipEvent, At
  <2>4. ASSUME Attested(w)
        PROVE  \E l \in {"put", "commit"} :
                 /\ worker'[w] = Moved(c, l, c.next + 1)
                 /\ l = "put" <=> c.next + 1 <= Len(c.state.audit)
    <3> DEFINE b == [c EXCEPT !.next = @ + 1]
               l == AfterEvent(b)
    <3>1. worker'[w] = [b EXCEPT !.pc = l]
      BY <1>2, <2>4 DEF Attested
    <3>2. b.next = c.next + 1 /\ b.state = c.state
      BY <1>1 DEF Callers
    <3>3. l \in {"put", "commit"} /\ (l = "put" <=> c.next + 1 <= Len(c.state.audit))
      BY <3>2 DEF AfterEvent
    <3> HIDE DEF l
    <3>4. [b EXCEPT !.pc = l] = Moved(c, l, c.next + 1)
      BY <1>1 DEF Callers, Moved
    <3> QED
      BY <3>1, <3>3, <3>4
  <2>5. \A l, n : /\ Moved(c, l, n).pc = l /\ Same(c, Moved(c, l, n))
                  /\ Moved(c, l, n).state = c.state /\ Moved(c, l, n).next = n
    BY <1>1 DEF Callers, Same, Moved
  <2> QED
    BY <2>1, <2>2, <2>3, <2>4, <2>5 DEF Writes
<1>9. Losing(w)
  <2>1. ASSUME LoseHeight(w)
        PROVE  /\ c.pc = "insert" /\ c.phase = "step"
               /\ worker'[w] = Abandoning(c, c.attempt)
               /\ tx'[w] = NoTx
    BY <1>1, <1>2, <2>1 DEF LoseHeight, At, Rollback, Abandoning
  <2>2. \A n : /\ Attempt(c, n).pc = "lock_task" /\ Attempt(c, n).phase = "step"
               /\ Attempt(c, n).task = c.task /\ Attempt(c, n).attempt = n
    BY DEF Attempt, Idle
  <2>3. \A n : /\ Abandoning(c, n).pc = "put" /\ Abandoning(c, n).phase = "abandonment"
               /\ Abandoning(c, n).task = c.task /\ Abandoning(c, n).attempt = n
    BY DEF Attempt, Idle, Abandoning
  <2>4. ASSUME RetryAbandonment(w)
        PROVE  /\ c.pc = "insert" /\ c.phase = "abandonment"
               /\ worker'[w].pc = "put" /\ Same(c, worker'[w])
               /\ tx'[w] = NoTx
    BY <1>1, <1>2, <2>4 DEF RetryAbandonment, At, Rollback, Callers, Same
  <2>5. ASSUME AttestAbandonment(w)
        PROVE  /\ c.pc = "insert" /\ c.phase = "abandonment"
               /\ worker'[w] = Attempt(c, c.attempt + 1) \/ worker'[w] = Idle
               /\ tx'[w] = NoTx
    BY <1>1, <1>2, <2>5 DEF AttestAbandonment, At, Rollback
  <2>6. ASSUME Commit(w)
        PROVE  c.pc = "commit" /\ worker'[w] = Idle /\ tx'[w] = NoTx
    BY <1>1, <1>2, <2>6 DEF Commit, At, Rollback
  <2>7. LoseHeight(w) =>
          /\ c.pc = "insert" /\ worker'[w].pc = "put"
          /\ c.phase = "step" /\ worker'[w].phase = "abandonment"
          /\ worker'[w].task = c.task /\ worker'[w].attempt = c.attempt
          /\ tx'[w] = NoTx
    BY <2>1, <2>3
  <2>8. AttestAbandonment(w) =>
          /\ c.pc = "insert" /\ c.phase = "abandonment"
          /\ \/ /\ worker'[w].pc = "lock_task" /\ worker'[w].phase = "step"
                /\ worker'[w].task = c.task
                /\ worker'[w].attempt = c.attempt + 1
             \/ worker'[w] = Idle
          /\ tx'[w] = NoTx
    BY <2>2, <2>5
  <2> QED
    BY <2>4, <2>6, <2>7, <2>8 DEF Losing
<1>10. ASSUME NEW t \in Tasks, NEW a \in Approvals, NEW r \in CallRules, Invoke(w, t, a, r)
       PROVE  /\ c.pc = "idle" /\ worker'[w].pc = "lock_task"
              /\ worker'[w].phase = "step" /\ worker'[w].attempt = 0
              /\ tx'[w] = tx[w]
  BY <1>1, <1>2, <1>10 DEF Invoke, At, Attempt, Idle
<1> QED
  BY <1>5, <1>6, <1>7, <1>8, <1>9, <1>10
\* drive: the two actions on the copy of the envelope.
DriveFields(w) ==
  /\ worker[w].pc \in {"entry", "loop"} /\ worker'[w].pc \in {"loop", "effects"}
  /\ worker[w].phase = "step"
  /\ worker[w].state \in Rows /\ worker'[w].state \in Rows
  /\ OneRun(worker[w].state, worker'[w].state)
  /\ Wealth(worker'[w].state) = Wealth(worker[w].state)
  /\ worker'[w] = Driven(worker[w], worker'[w].state)
  /\ Same(worker[w], worker'[w]) /\ worker'[w].next = worker[w].next
  /\ UNCHANGED <<tx, purge, tasks, previous, credits, chain, content, effects, fuel>>
  /\ world' = [k \in Calls |-> world[k] +
                 IF \E e \in PerformedBy(worker[w].state, worker'[w].state, worker[w].known) :
                      k = Call(worker[w].task, e.iteration)
                 THEN 1 ELSE 0]

LEMMA DriveSteps ==
  ASSUME Shape, NEW w \in Workers, Enter(w) \/ Loop(w)
  PROVE  DriveFields(w)
<1> DEFINE c == worker[w]
<1>1. CallersOK(worker, tx) /\ CallerOK(c, tx[w]) /\ c \in Callers
  BY DEF Shape, CallersOK, CallerOK
<1>2. c.pc \in {"entry", "loop"} /\ c.state \in Rows /\ c.phase = "step"
  BY <1>1 DEF Enter, Loop, At, CallerOK, Callers
<1>3. PICK state \in Rows :
        /\ DriveTo(w, state) /\ OneRun(c.state, state) /\ Wealth(state) = Wealth(c.state)
  <2>1. CASE Enter(w)
    <3>1. PICK state \in Entered(c.state, c.approval) : DriveTo(w, state)
      BY <2>1 DEF Enter
    <3>2. c.approval \in Approvals
      BY <1>1 DEF Callers
    <3>3. state \in Rows /\ OneRun(c.state, state) /\ Wealth(state) = Wealth(c.state)
      BY <1>2, <3>2, EnteredRow
    <3> QED
      BY <3>1, <3>3
  <2>2. CASE Loop(w)
    <3>1. PICK state \in Passed(c.state, c.rules) : DriveTo(w, state)
      BY <2>2 DEF Loop
    <3>2. c.rules \in RuleSets /\ c.state.status = "running"
      BY <1>1, <2>2 DEF Callers, Loop, At, CallerOK
    <3>3. state \in Rows /\ OneRun(c.state, state) /\ Wealth(state) = Wealth(c.state)
      BY <1>2, <3>2, PassedRow
    <3> QED
      BY <3>1, <3>3
  <2> QED
    BY <2>1, <2>2
<1>4. /\ worker'[w] = Driven(c, state)
      /\ UNCHANGED <<tx, purge, tasks, previous, credits, chain, content, effects, fuel>>
      /\ world' = [k \in Calls |-> world[k] +
                     IF \E e \in PerformedBy(c.state, state, c.known) :
                          k = Call(c.task, e.iteration)
                     THEN 1 ELSE 0]
  BY <1>1, <1>3, DriveDoes
<1> HIDE DEF c
<1>5. /\ Driven(c, state).state = state
      /\ Driven(c, state).pc \in {"loop", "effects"}
      /\ Same(c, Driven(c, state)) /\ Driven(c, state).next = c.next
  BY <1>1 DEF Driven, Callers, Same
<1>6. worker'[w].state = state
  BY <1>4, <1>5
<1> QED
  BY <1>2, <1>3, <1>4, <1>5, <1>6 DEF DriveFields, c

\* A caller gives up: its transaction is rolled back.
Quits(w) == Leave(w) /\ UNCHANGED <<purge, world>>

\* A caller begins.
Called(w) ==
  /\ worker[w].pc = "idle" /\ worker'[w].pc = "lock_task"
  /\ worker'[w].phase = "step" /\ worker'[w].attempt = 0
  /\ tx'[w] = tx[w]
  /\ UNCHANGED <<database, purge, world>>

\* Nobody that runs a step moves.
Aside ==
  /\ worker' = worker
  /\ \A v \in Workers : tx'[v] = tx[v]

Others(w) == \A v \in Workers \ {w} : worker'[v] = worker[v] /\ tx'[v] = tx[v]

LEMMA WhoMoves ==
  ASSUME Shape, [Next]_vars
  PROVE  \/ Aside /\ (\E t \in Tasks : CreateTask(t) \/ RestoreTask(t)) /\ tx' = tx
         \/ Aside /\ (DeleteContent \/ Purging \/ CrashPurge \/ AbortPurge)
         \/ UNCHANGED vars
         \/ \E w \in Workers :
              /\ Others(w) /\ tx'[Purger] = tx[Purger] /\ purge' = purge
              /\ \/ Step(w) /\ fuel' = fuel
                 \/ Quits(w) /\ (Crash(w) \/ AbortStep(w))
                 \/ Called(w) /\ fuel'.restores = fuel.restores
<1>1. CallersOK(worker, tx) /\ Workers \subseteq Transactions /\ Purger \notin Workers
      /\ Purger \in Transactions
  BY TaskStoreAssumption DEF Shape, Transactions
<1>2. ASSUME NEW w \in Workers, Moves(worker, tx, worker', tx', w)
      PROVE  Others(w) /\ tx'[Purger] = tx[Purger]
  BY <1>1, <1>2 DEF Moves, CallersOK, Others
<1>3. CASE \E t \in Tasks : CreateTask(t) \/ RestoreTask(t)
  BY <1>3 DEF CreateTask, RestoreTask, Aside
<1>4. CASE DeleteContent \/ Purging \/ CrashPurge \/ AbortPurge
  <2>1. worker' = worker
    BY <1>4 DEF DeleteContent, Purging, PurgeFindTail, AttestPurge, LosePurge, CrashPurge,
                AbortPurge
  <2>2. \A v \in Workers : tx'[v] = tx[v]
    <3>1. \/ tx' = [tx EXCEPT ![Purger].deleted = content,
                              ![Purger].puts = {PurgeContent(Cardinality(content))}]
          \/ tx' = [tx EXCEPT ![Purger].tail = ReadTail(Purger)]
          \/ tx' = [tx EXCEPT ![Purger] = NoTx]
      BY <1>4 DEF DeleteContent, Purging, PurgeFindTail, AttestPurge, LosePurge, CrashPurge,
                  AbortPurge, Rollback
    <3>2. \A v \in Workers : v # Purger /\ v \in DOMAIN tx
      BY <1>1 DEF CallersOK
    <3> QED
      BY <3>1, <3>2
  <2> QED
    BY <1>4, <2>1, <2>2 DEF Aside
<1>5. ASSUME NEW w \in Workers, NEW t \in Tasks, NEW a \in Approvals, NEW r \in CallRules,
             Invoke(w, t, a, r)
      PROVE  /\ Others(w) /\ tx'[Purger] = tx[Purger]
             /\ Called(w) /\ fuel'.restores = fuel.restores
             /\ purge' = purge
  <2>1. Moves(worker, tx, worker', tx', w)
    BY <1>1, <1>5, StepMoves
  <2>2. /\ worker[w].pc = "idle" /\ worker'[w].pc = "lock_task"
        /\ worker'[w].phase = "step" /\ worker'[w].attempt = 0
        /\ tx'[w] = tx[w]
    BY <1>1, <1>5, StepFields
  <2>3. UNCHANGED <<database, purge, world>>
    BY <1>5 DEF Invoke
  <2>4. fuel'.restores = fuel.restores
    BY <1>5 DEF Invoke, Shape, TablesOK
  <2> QED
    BY <1>2, <2>1, <2>2, <2>3, <2>4 DEF Called
<1>6. ASSUME NEW w \in Workers, Step(w)
      PROVE  Others(w) /\ tx'[Purger] = tx[Purger] /\ purge' = purge /\ fuel' = fuel
  BY <1>1, <1>2, <1>6, StepMoves
<1>7. ASSUME NEW w \in Workers, Crash(w) \/ AbortStep(w)
      PROVE  /\ Others(w) /\ tx'[Purger] = tx[Purger]
             /\ Quits(w) /\ purge' = purge
  <2>1. Moves(worker, tx, worker', tx', w)
    BY <1>1, <1>7, StepMoves
  <2>2. Quits(w)
    BY <1>7 DEF Crash, AbortStep, Quits
  <2> QED
    BY <1>2, <2>1, <2>2 DEF Quits
<1> QED
  BY <1>3, <1>4, <1>5, <1>6, <1>7 DEF Next, Deadlock
-----------------------------------------------------------------------------
(***************************************************************************)
(* The locks: one caller owns the row of a task, one that of the credits   *)
(***************************************************************************)
OneOwner ==
  \A v, w \in Workers :
    v # w => /\ ~(OwnsTask(v) /\ OwnsTask(w) /\ worker[v].task = worker[w].task)
             /\ ~(OwnsCredits(v) /\ OwnsCredits(w))

\* A step keeps the locks it holds, or takes one that was free.
LEMMA LocksAreTaken ==
  ASSUME Shape, NEW w \in Workers, Step(w)
  PROVE  /\ OwnsTask(w)' => /\ worker'[w].task = worker[w].task
                            /\ OwnsTask(w) \/ TaskRowFree(worker[w].task)
         /\ OwnsCredits(w)' => OwnsCredits(w) \/ CreditsFree
<1>1. CallersOK(worker, tx) /\ CallerOK(worker[w], tx[w])
  BY DEF Shape, CallersOK
<1>2. Idle.pc = "idle"
  BY DEF Idle
<1> USE DEF OwnsTask, OwnsCredits
<1>3. CASE \/ TaskNotFound(w) \/ ResultPurged(w) \/ GiveUpAbandonment(w)
  <2>1. worker'[w] = Idle
    BY <1>1, <1>3, StepFields DEF TaskNotFound, ResultPurged, GiveUpAbandonment
  <2> QED
    BY <1>2, <2>1
<1>4. CASE LockTask(w)
  <2>1. TaskRowFree(worker[w].task)
    BY <1>4 DEF LockTask
  <2> QED
    BY <1>1, <1>4, <2>1, StepFields DEF Locking, Same
<1>5. CASE LockCredits(w)
  <2>1. CreditsFree
    BY <1>5 DEF LockCredits
  <2> QED
    BY <1>1, <1>5, <2>1, StepFields DEF Locking
<1>6. CASE Enter(w) \/ Loop(w)
  BY <1>6, DriveSteps DEF DriveFields, Same
<1>7. CASE KeepTrace(w) \/ TracesKept(w)
  <2>1. worker[w].phase = "step" /\ worker[w].pc = "effects"
    BY <1>1, <1>7, StepFields DEF Keeping, CallerOK, Callers
  <2> QED
    BY <1>1, <1>7, <2>1, StepFields DEF Keeping, Same
<1>8. CASE PutContent(w) \/ FindTail(w) \/ InsertEvent(w) \/ SkipEvent(w)
  <2>1. Same(worker[w], worker'[w]) /\ worker[w].pc \in {"put", "tail", "insert"}
    BY <1>1, <1>8, StepFields DEF Writes
  <2> QED
    BY <2>1 DEF Same
<1>9. CASE LoseHeight(w) \/ RetryAbandonment(w) \/ AttestAbandonment(w) \/ Commit(w)
  <2>1. ~OwnsTask(w)'
    BY <1>1, <1>2, <1>9, StepFields DEF Losing, Same
  <2> QED
    BY <2>1
<1> QED
  BY <1>3, <1>4, <1>5, <1>6, <1>7, <1>8, <1>9 DEF Step

LEMMA OwnersNext == Shape /\ OneOwner /\ [Next]_vars => OneOwner'
<1> SUFFICES ASSUME Shape, OneOwner, [Next]_vars PROVE OneOwner'
  OBVIOUS
<1>1. ASSUME worker' = worker PROVE OneOwner'
  BY <1>1 DEF OneOwner, OwnsTask, OwnsCredits
<1>2. ASSUME NEW w \in Workers, Others(w), ~OwnsTask(w)' PROVE OneOwner'
  BY <1>2 DEF OneOwner, OwnsTask, OwnsCredits, Others
<1>3. ASSUME NEW w \in Workers, Others(w), Step(w) PROVE OneOwner'
  <2>1. /\ OwnsTask(w)' => /\ worker'[w].task = worker[w].task
                           /\ OwnsTask(w) \/ TaskRowFree(worker[w].task)
        /\ OwnsCredits(w)' => OwnsCredits(w) \/ CreditsFree
    BY <1>3, LocksAreTaken
  <2>2. \A v \in Workers \ {w} :
           /\ worker'[v] = worker[v]
           /\ OwnsTask(v)' = OwnsTask(v) /\ OwnsCredits(v)' = OwnsCredits(v)
    BY <1>3 DEF Others, OwnsTask, OwnsCredits
  <2>3. \A v \in Workers \ {w} :
           /\ ~(OwnsTask(v)' /\ OwnsTask(w)' /\ worker'[v].task = worker'[w].task)
           /\ ~(OwnsCredits(v)' /\ OwnsCredits(w)')
    BY <2>1, <2>2 DEF OneOwner, TaskRowFree, CreditsFree
  <2>4. \A u, v \in Workers \ {w} :
           u # v => /\ ~(OwnsTask(u)' /\ OwnsTask(v)' /\ worker'[u].task = worker'[v].task)
                    /\ ~(OwnsCredits(u)' /\ OwnsCredits(v)')
    BY <2>2 DEF OneOwner
  <2> QED
    BY <2>3, <2>4 DEF OneOwner
<1>4. Idle.pc = "idle"
  BY DEF Idle
<1>5. CASE Aside \/ UNCHANGED vars
  BY <1>1, <1>5 DEF Aside, vars
<1>6. ASSUME NEW w \in Workers, Others(w), Quits(w) PROVE OneOwner'
  <2>1. worker'[w] = Idle
    BY <1>6, StepFields DEF Quits, Shape
  <2> QED
    BY <1>2, <1>4, <1>6, <2>1 DEF OwnsTask
<1>7. ASSUME NEW w \in Workers, Others(w), Called(w) PROVE OneOwner'
  BY <1>2, <1>7 DEF OwnsTask, Called
<1> QED
  BY <1>3, <1>5, <1>6, <1>7, WhoMoves

LEMMA LocksAreExclusive == Spec => [](Shape /\ OneOwner)
<1>1. Init => OneOwner
  BY DEF Init, OneOwner, OwnsTask, OwnsCredits, Idle
<1> QED
  BY <1>1, ShapeInit, ShapeNext, OwnersNext, PTL DEF Spec
-----------------------------------------------------------------------------
(***************************************************************************)
(* The tables a step writes                                                *)
(***************************************************************************)
LEMMA StepWrites ==
  ASSUME Shape, NEW w \in Workers, Step(w)
  PROVE  /\ Commit(w) \/ UNCHANGED <<tasks, previous, credits, effects>>
         /\ Commit(w) \/ AttestAbandonment(w) \/ UNCHANGED <<chain, content>>
         /\ Enter(w) \/ Loop(w) \/ UNCHANGED world
<1>1. CASE TaskNotFound(w) \/ ResultPurged(w) \/ GiveUpAbandonment(w)
  BY <1>1 DEF TaskNotFound, ResultPurged, GiveUpAbandonment, Leave, database
<1>2. CASE LockTask(w) \/ LockCredits(w)
  BY <1>2 DEF LockTask, LockCredits, database
<1>3. CASE Enter(w) \/ Loop(w)
  BY <1>3, DriveSteps DEF DriveFields
<1>4. CASE KeepTrace(w) \/ TracesKept(w) \/ PutContent(w) \/ FindTail(w)
  BY <1>4 DEF KeepTrace, TracesKept, PutContent, FindTail, database
<1>5. CASE InsertEvent(w) \/ SkipEvent(w) \/ LoseHeight(w) \/ RetryAbandonment(w)
  BY <1>5 DEF InsertEvent, SkipEvent, LoseHeight, RetryAbandonment, database
<1>6. CASE AttestAbandonment(w)
  BY <1>6, LoseShape DEF AttestAbandonment, Shape
<1>7. CASE Commit(w)
  BY <1>7 DEF Commit
<1> QED
  BY <1>1, <1>2, <1>3, <1>4, <1>5, <1>6, <1>7 DEF Step

\* The envelopes put back are counted.
LEMMA RestoresAreCounted ==
  ASSUME Shape, [Next]_vars, NeverRestored'
  PROVE  NeverRestored /\ \A t \in Tasks : ~RestoreTask(t)
<1>1. fuel \in [invocations : Nat, purges : Nat, crashes : Nat, restores : 0 .. MaxRestores]
      /\ MaxRestores \in Nat
  BY TaskStoreAssumption DEF Shape, TablesOK
<1>2. \A t \in Tasks : ~RestoreTask(t)
  BY <1>1 DEF RestoreTask, NeverRestored
<1>3. ASSUME fuel'.restores = fuel.restores PROVE NeverRestored
  BY <1>3 DEF NeverRestored
<1>4. ASSUME NEW w \in Workers, Crash(w) \/ AbortStep(w) PROVE fuel'.restores = fuel.restores
  BY <1>1, <1>4 DEF Crash, AbortStep
<1>5. CASE DeleteContent \/ Purging \/ CrashPurge \/ AbortPurge
  <2>1. fuel'.restores = fuel.restores
    BY <1>1, <1>5 DEF DeleteContent, Purging, PurgeFindTail, AttestPurge, LosePurge,
                      CrashPurge, AbortPurge
  <2> QED
    BY <1>2, <1>3, <2>1
<1>6. CASE \E t \in Tasks : CreateTask(t) \/ RestoreTask(t)
  <2>1. fuel'.restores = fuel.restores
    BY <1>2, <1>6 DEF CreateTask
  <2> QED
    BY <1>2, <1>3, <2>1
<1>7. CASE UNCHANGED vars
  BY <1>2, <1>3, <1>7 DEF vars
<1>8. CASE \E w \in Workers : \/ Step(w) /\ fuel' = fuel
                              \/ Quits(w) /\ (Crash(w) \/ AbortStep(w))
                              \/ Called(w) /\ fuel'.restores = fuel.restores
  BY <1>2, <1>3, <1>4, <1>8
<1> QED
  BY <1>5, <1>6, <1>7, <1>8, WhoMoves

-----------------------------------------------------------------------------
(***************************************************************************)
(* The money                                                               *)
(***************************************************************************)
\* What a caller holds of the money: the row as it is, then the row and the
\* credits as they are, moved inside the copy it works on.
Funds(w) ==
  OwnsTask(w) =>
    /\ tasks[worker[w].task] # NoTask
    /\ worker[w].pc = "lock_credits" => worker[w].state = tasks[worker[w].task]
    /\ OwnsCredits(w) =>
         Wealth(worker[w].state) = tasks[worker[w].task].budget.consumed + credits

Balanced ==
  /\ IsFiniteSet(Created)
  /\ NeverRestored =>
       /\ credits + SumOf(SpentBy, Created) = InitialBalance
       /\ \A w \in Workers : Funds(w)

LEMMA SpentIs ==
  ASSUME Shape
  PROVE  /\ \A t \in Tasks : SpentBy[t] \in Int
         /\ \A t \in Created : SpentBy[t] = tasks[t].budget.consumed
         /\ \A t \in Tasks \ Created : SpentBy[t] = 0
BY MaxCentsAssumption DEF SpentBy, Created, Shape, TablesOK, Rows, TaskStates, Budgets, Amounts

\* A step that does not commit keeps what its caller holds.
LEMMA FundsAreHeld ==
  ASSUME Shape, NEW w \in Workers, Step(w), ~Commit(w), Funds(w)
  PROVE  Funds(w)'
<1> DEFINE c == worker[w]
<1>1. CallersOK(worker, tx) /\ CallerOK(c, tx[w]) /\ credits \in Amounts
  BY DEF Shape, CallersOK, TablesOK
<1>2. UNCHANGED <<tasks, credits>>
  BY StepWrites
<1>3. Idle.pc = "idle"
  BY DEF Idle
<1> USE DEF OwnsTask, OwnsCredits
<1>4. CASE TaskNotFound(w) \/ ResultPurged(w) \/ GiveUpAbandonment(w)
  <2>1. worker'[w] = Idle
    BY <1>1, <1>4, StepFields DEF TaskNotFound, ResultPurged, GiveUpAbandonment
  <2> QED
    BY <1>3, <2>1 DEF Funds
<1>5. CASE LockTask(w)
  <2>1. tasks[c.task] # NoTask
    BY <1>5 DEF LockTask
  <2> QED
    BY <1>1, <1>2, <1>5, <2>1, StepFields DEF Locking, Same, Funds
<1>6. CASE LockCredits(w)
  <2>1. /\ c.pc = "lock_credits" /\ worker'[w].pc = "entry" /\ worker'[w].task = c.task
        /\ worker'[w].state = [c.state EXCEPT !.budget = Refreshed(@, credits)]
        /\ c.phase = "step"
    BY <1>1, <1>6, StepFields DEF Locking
  <2>2. c.state \in Rows /\ c.state = tasks[c.task] /\ tasks[c.task] # NoTask
    BY <1>1, <2>1 DEF CallerOK, Funds
  <2>3. Wealth(worker'[w].state) = c.state.budget.consumed + credits
    BY <1>1, <2>1, <2>2, RefreshedRow DEF Wealth
  <2> QED
    BY <1>2, <2>1, <2>2, <2>3 DEF Funds
<1>7. CASE Enter(w) \/ Loop(w)
  BY <1>2, <1>7, DriveSteps DEF DriveFields, Same, Funds
<1>8. CASE KeepTrace(w) \/ TracesKept(w)
  <2>1. /\ worker[w].phase = "step" /\ worker[w].pc = "effects"
        /\ worker'[w].state = worker[w].state /\ Same(worker[w], worker'[w])
        /\ worker'[w].pc # "lock_credits"
    BY <1>1, <1>8, StepFields DEF Keeping, CallerOK, Callers, AfterEvent
  <2> QED
    BY <1>2, <2>1 DEF Funds, Same
<1>9. CASE PutContent(w) \/ FindTail(w) \/ InsertEvent(w) \/ SkipEvent(w)
  <2>1. /\ Same(worker[w], worker'[w]) /\ worker[w].pc \in {"put", "tail", "insert"}
        /\ worker'[w].state = worker[w].state /\ worker'[w].pc # "lock_credits"
    BY <1>1, <1>9, StepFields DEF Writes
  <2> QED
    BY <1>2, <2>1 DEF Same, Funds
<1>10. CASE LoseHeight(w) \/ RetryAbandonment(w) \/ AttestAbandonment(w)
  <2>1. ~OwnsTask(w)'
    BY <1>1, <1>3, <1>10, StepFields DEF Losing, Same
  <2> QED
    BY <2>1 DEF Funds
<1> QED
  BY <1>4, <1>5, <1>6, <1>7, <1>8, <1>9, <1>10 DEF Step
\* A commit writes the row and the credits its caller holds: what the others
\* hold is other rows.
LEMMA CommitBalances ==
  ASSUME Shape, OneOwner, Balanced, NeverRestored, NEW w \in Workers, Commit(w), Others(w)
  PROVE  /\ IsFiniteSet(Created)'
         /\ credits' + SumOf(SpentBy', Created') = InitialBalance
         /\ \A v \in Workers : Funds(v)'
<1> DEFINE c == worker[w]
           t == c.task
           m == SpentBy
           n == SpentBy'
<1>1. /\ c.pc = "commit" /\ worker'[w] = Idle
      /\ tasks' = [tasks EXCEPT ![t] = c.state] /\ credits' = c.state.budget.org_balance
  BY StepFields DEF Commit, Losing, Shape
<1>2. CallerOK(c, tx[w]) /\ t \in Tasks /\ c.phase = "step" /\ c.state \in Rows
  BY <1>1 DEF Shape, CallersOK, CallerOK, Callers
<1>3. OwnsTask(w) /\ OwnsCredits(w)
  BY <1>1, <1>2 DEF OwnsTask, OwnsCredits
<1>4. tasks[t] # NoTask /\ Wealth(c.state) = tasks[t].budget.consumed + credits
  BY <1>3 DEF Balanced, Funds
<1>5. c.state # NoTask /\ tasks' \in [Tasks -> Rows \cup {NoTask}] /\ DOMAIN tasks = Tasks
  BY <1>1, <1>2, TaskStoreAssumption DEF Rows, Shape, TablesOK
<1>6. Created' = Created /\ t \in Created
  BY <1>1, <1>2, <1>4, <1>5 DEF Created
<1>7. /\ \A u \in Tasks \ {t} : n[u] = m[u]
      /\ n[t] = c.state.budget.consumed /\ m[t] = tasks[t].budget.consumed
  <2>1. /\ n = [u \in Tasks |-> IF u \in Created' THEN tasks'[u].budget.consumed ELSE 0]
        /\ m = [u \in Tasks |-> IF u \in Created THEN tasks[u].budget.consumed ELSE 0]
    BY DEF SpentBy
  <2>2. \A u \in Tasks \ {t} : tasks'[u] = tasks[u]
    BY <1>1
  <2>3. tasks'[t] = c.state
    BY <1>1, <1>2, <1>5
  <2> QED
    BY <1>2, <1>6, <2>1, <2>2, <2>3
<1>8. /\ \A u \in Created : m[u] \in Int
      /\ c.state.budget.consumed \in Int /\ c.state.budget.org_balance \in Int
      /\ credits \in Int
  <2>1. \A u \in Created : m[u] \in Int
    BY SpentIs DEF Created
  <2>2. c.state.budget \in Budgets /\ credits \in Amounts
    BY <1>2 DEF Rows, TaskStates, Shape, TablesOK
  <2> QED
    BY <2>1, <2>2, MaxCentsAssumption DEF Budgets, Amounts
<1>9. IsFiniteSet(Created) /\ credits + SumOf(m, Created) = InitialBalance
  BY DEF Balanced
<1>10. SumOf(n, Created) = SumOf(m, Created) - m[t] + n[t] /\ SumOf(m, Created) \in Int
  <2>1. \A u \in Created : m[u] \in Int /\ n[u] \in Int
    BY <1>7, <1>8 DEF Created
  <2>2. \A u \in Created \ {t} : m[u] = n[u]
    BY <1>7 DEF Created
  <2>3. t \in Created /\ IsFiniteSet(Created)
    BY <1>6, <1>9
  <2> HIDE DEF m, n, t
  <2>4. SumOf(n, Created) = SumOf(m, Created) - m[t] + n[t]
    BY <2>1, <2>2, <2>3, SumOfChanged
  <2>5. SumOf(m, Created) \in Int
    BY <2>1, <2>3, SumType
  <2> QED
    BY <2>4, <2>5
<1>11. credits' + SumOf(n, Created) = InitialBalance
  <2>1. c.state.budget.consumed + c.state.budget.org_balance = m[t] + credits
    BY <1>4, <1>7 DEF Wealth
  <2> HIDE DEF m, n
  <2> QED
    BY <1>1, <1>6, <1>7, <1>8, <1>9, <1>10, <2>1
<1>12. ASSUME NEW v \in Workers PROVE Funds(v)'
  <2>1. CASE v = w
    BY <1>1, <2>1 DEF Funds, OwnsTask, Idle
  <2>2. CASE v # w
    <3>1. worker'[v] = worker[v] /\ Funds(v)
      BY <2>2 DEF Others, Balanced
    <3>2. ~OwnsCredits(v) /\ (OwnsTask(v) => worker[v].task # t)
      BY <1>3, <2>2 DEF OneOwner
    <3>3. OwnsTask(v) => worker[v].task \in Tasks
      BY DEF OwnsTask, Shape, CallersOK, CallerOK
    <3> QED
      BY <1>1, <3>1, <3>2, <3>3 DEF Funds, OwnsTask, OwnsCredits
  <2> QED
    BY <2>1, <2>2
<1> QED
  BY <1>6, <1>9, <1>11, <1>12

LEMMA BalancedNext == Shape /\ OneOwner /\ Balanced /\ [Next]_vars => Balanced'
<1> SUFFICES ASSUME Shape, OneOwner, Balanced, [Next]_vars PROVE Balanced'
  OBVIOUS
<1>1. IsFiniteSet(Created)
  BY DEF Balanced
<1>2. ASSUME UNCHANGED <<tasks, credits>>,
             NeverRestored' => \A w \in Workers : Funds(w)'
      PROVE  Balanced'
  <2>1. Created' = Created /\ SpentBy' = SpentBy
    BY <1>2 DEF Created, SpentBy
  <2>2. NeverRestored' => NeverRestored
    BY RestoresAreCounted
  <2> QED
    BY <1>1, <1>2, <2>1, <2>2 DEF Balanced
<1>3. ASSUME UNCHANGED <<tasks, credits>>, NEW w \in Workers, worker'[w] = worker[w], Funds(w)
      PROVE  Funds(w)'
  BY <1>3 DEF Funds, OwnsTask, OwnsCredits
<1>4. NeverRestored' => NeverRestored /\ \A w \in Workers : Funds(w)
  BY RestoresAreCounted DEF Balanced
<1>5. ASSUME NEW w \in Workers, Others(w), UNCHANGED <<tasks, credits>>, Funds(w) => Funds(w)'
      PROVE  Balanced'
  <2>1. ASSUME NEW v \in Workers, NeverRestored' PROVE Funds(v)'
    BY <1>3, <1>4, <1>5, <2>1 DEF Others
  <2> QED
    BY <1>2, <1>5, <2>1
<1>6. CASE Aside /\ (DeleteContent \/ Purging \/ CrashPurge \/ AbortPurge)
  <2>1. UNCHANGED <<tasks, credits>>
    BY <1>6 DEF DeleteContent, Purging, PurgeFindTail, AttestPurge, LosePurge, CrashPurge,
                AbortPurge, database
  <2> QED
    BY <1>2, <1>3, <1>4, <1>6, <2>1 DEF Aside
<1>7. CASE UNCHANGED vars
  BY <1>2, <1>3, <1>4, <1>7 DEF vars, database
<1>8. ASSUME NEW w \in Workers, Others(w), Quits(w) PROVE Balanced'
  <2>1. worker'[w] = Idle /\ UNCHANGED <<tasks, credits>>
    BY <1>8, StepFields DEF Quits, Leave, Shape, database
  <2> QED
    BY <1>5, <1>8, <2>1 DEF Funds, OwnsTask, Idle
<1>9. ASSUME NEW w \in Workers, Others(w), Called(w) PROVE Balanced'
  <2>1. UNCHANGED <<tasks, credits>>
    BY <1>9 DEF Called, database
  <2> QED
    BY <1>5, <1>9, <2>1 DEF Funds, OwnsTask, Called
<1>10. ASSUME NEW w \in Workers, Others(w), Step(w) PROVE Balanced'
  <2>1. CASE ~Commit(w)
    <3>1. UNCHANGED <<tasks, credits>>
      BY <1>10, <2>1, StepWrites
    <3> QED
      BY <1>5, <1>10, <2>1, <3>1, FundsAreHeld
  <2>2. CASE Commit(w)
    <3>1. IsFiniteSet(Created)'
      <4>1. DOMAIN tasks = Tasks /\ tasks' = [tasks EXCEPT ![worker[w].task] = worker[w].state]
        BY <2>2 DEF Commit, Shape, TablesOK
      <4>2. Created' \subseteq Created \cup {worker[w].task}
        BY <4>1 DEF Created
      <4>3. IsFiniteSet(Created \cup {worker[w].task})
        BY <1>1, FS_AddElement
      <4> QED
        BY <4>2, <4>3, FS_Subset
    <3>2. NeverRestored' => NeverRestored
      BY RestoresAreCounted
    <3> QED
      BY <1>10, <2>2, <3>1, <3>2, CommitBalances DEF Balanced
  <2> QED
    BY <2>1, <2>2
<1>11. ASSUME NEW t \in Tasks, CreateTask(t), Aside PROVE Balanced'
  <2> DEFINE m == SpentBy
             n == SpentBy'
  <2>1. /\ tasks[t] = NoTask /\ tasks' = [tasks EXCEPT ![t] = NewTask(Ceiling, credits)]
        /\ credits' = credits /\ fuel' = fuel
    BY <1>11 DEF CreateTask
  <2>2. /\ NewTask(Ceiling, credits) # NoTask
        /\ NewTask(Ceiling, credits).budget.consumed = 0
    BY NewTaskRow, TaskStoreAssumption DEF Rows, Shape, TablesOK
  <2>3. Created' = Created \cup {t} /\ t \notin Created
    BY <2>1, <2>2 DEF Created, Shape, TablesOK
  <2>4. (\A u \in Created : n[u] = m[u]) /\ n[t] = 0
    <3>1. /\ n = [u \in Tasks |-> IF u \in Created' THEN tasks'[u].budget.consumed ELSE 0]
          /\ m = [u \in Tasks |-> IF u \in Created THEN tasks[u].budget.consumed ELSE 0]
      BY DEF SpentBy
    <3>2. DOMAIN tasks = Tasks /\ Created \subseteq Tasks
      BY DEF Shape, TablesOK, Created
    <3> QED
      BY <2>1, <2>2, <2>3, <3>1, <3>2
  <2>5. IsFiniteSet(Created')
    BY <1>1, <2>3, FS_AddElement
  <2>6. \A u \in Created : m[u] \in Int
    BY SpentIs DEF Created
  <2>7. SumOf(n, Created \cup {t}) = SumOf(m, Created) + n[t]
    <3> HIDE DEF m, n
    <3> QED
      BY <1>1, <2>3, <2>4, <2>6, SumOfMore
  <2>8. SumOf(n, Created') = SumOf(m, Created)
    <3>1. SumOf(m, Created) \in Int
      BY <1>1, <2>6, SumType
    <3> HIDE DEF m, n
    <3> QED
      BY <2>3, <2>4, <2>7, <3>1
  <2>9. ASSUME NEW w \in Workers, Funds(w) PROVE Funds(w)'
    <3>1. worker'[w] = worker[w]
      BY <1>11 DEF Aside
    <3>2. OwnsTask(w) => worker[w].task # t
      BY <2>1, <2>9 DEF Funds
    <3> QED
      BY <2>1, <2>9, <3>1, <3>2 DEF Funds, OwnsTask, OwnsCredits
  <2> QED
    BY <1>4, <2>1, <2>5, <2>8, <2>9 DEF Balanced, NeverRestored
<1>12. ASSUME NEW t \in Tasks, RestoreTask(t) PROVE Balanced'
  <2>1. ~NeverRestored'
    BY <1>12, RestoresAreCounted
  <2>2. DOMAIN tasks = Tasks /\ tasks' = [tasks EXCEPT ![t] = previous[t]]
    BY <1>12 DEF RestoreTask, Shape, TablesOK
  <2>3. Created' \subseteq Created \cup {t}
    BY <2>2 DEF Created
  <2>4. IsFiniteSet(Created \cup {t})
    BY <1>1, FS_AddElement
  <2> QED
    BY <2>1, <2>3, <2>4, FS_Subset DEF Balanced
<1> QED
  BY <1>6, <1>7, <1>8, <1>9, <1>10, <1>11, <1>12, WhoMoves

LEMMA BalancedInit == Init => Balanced
<1> SUFFICES ASSUME Init PROVE Balanced
  OBVIOUS
<1>1. Created = {}
  BY DEF Init, Created
<1>2. credits = InitialBalance /\ InitialBalance \in Int /\ SumOf(SpentBy, {}) = 0
  BY SumOfNothing, TaskStoreAssumption, MaxCentsAssumption DEF Init, Amounts
<1>3. \A w \in Workers : Funds(w)
  BY DEF Init, Funds, OwnsTask, Idle
<1> QED
  BY <1>1, <1>2, <1>3, FS_EmptySet DEF Balanced

\* As long as no envelope went back in time: whatever the number of concurrent
\* steps, of steps that lose their height, crash or are refused, what the tasks
\* consumed and what is left of the credits is what there was.
THEOREM MoneyIsConserved == Spec => [](NeverRestored => MoneyConserved)
<1>1. Balanced => (NeverRestored => MoneyConserved)
  <2>1. MapThenSumSet(LAMBDA t : SpentBy[t], Created) = SumOf(SpentBy, Created)
    BY SumIsFold
  <2> QED
    BY <2>1 DEF Balanced, MoneyConserved
<1> QED
  BY <1>1, LocksAreExclusive, BalancedInit, BalancedNext, PTL DEF Spec
-----------------------------------------------------------------------------
(***************************************************************************)
(* The attempts that were lost                                             *)
(***************************************************************************)
\* Nothing leaves the chain.
LEMMA ChainGrows ==
  ASSUME Shape, [Next]_vars
  PROVE  chain \subseteq chain'
<1>1. CASE UNCHANGED chain
  BY <1>1
<1>2. ASSUME NEW w \in Workers, Step(w) PROVE chain \subseteq chain'
  BY <1>2, StepWrites DEF Commit, AttestAbandonment, Publish
<1>3. CASE DeleteContent \/ Purging \/ CrashPurge \/ AbortPurge
  BY <1>3 DEF DeleteContent, Purging, PurgeFindTail, AttestPurge, LosePurge, CrashPurge,
              AbortPurge, database, Publish
<1>4. CASE \E t \in Tasks : CreateTask(t) \/ RestoreTask(t)
  BY <1>4 DEF CreateTask, RestoreTask
<1>5. CASE \E w \in Workers : Quits(w) \/ Called(w)
  BY <1>5 DEF Quits, Called, Leave, database
<1> QED
  BY <1>1, <1>2, <1>3, <1>4, <1>5, WhoMoves DEF vars, database

LEMMA LostNext ==
  Shape /\ LostAttemptsAreAttested /\ [Next]_vars => LostAttemptsAreAttested'
<1> SUFFICES ASSUME Shape, LostAttemptsAreAttested, [Next]_vars, NEW w \in Workers,
                    worker'[w].pc # "idle", NEW n \in 0 .. worker'[w].attempt - 1
             PROVE  \E e \in chain' : /\ e.actor = worker'[w].task
                                      /\ e.action = "step_abandoned"
                                      /\ e.content = AbandonContent(n)
  BY DEF LostAttemptsAreAttested
<1> DEFINE c == worker[w]
<1>1. CallersOK(worker, tx) /\ c.attempt \in Nat
  <2>1. CallersOK(worker, tx) /\ c.attempt \in 0 .. ChainRetries - 1
    BY DEF Shape, CallersOK, CallerOK, Callers
  <2> QED
    BY <2>1
<1>2. chain \subseteq chain'
  BY ChainGrows
<1>3. CASE worker'[w].task = c.task /\ worker'[w].attempt = c.attempt /\ c.pc # "idle"
  BY <1>2, <1>3 DEF LostAttemptsAreAttested
<1>4. CASE worker'[w] = c
  BY <1>3, <1>4
<1>5. worker'[w] # Idle
  BY DEF Idle
<1>6. CASE Called(w)
  BY <1>6 DEF Called
<1>7. CASE AttestAbandonment(w)
  <2>1. /\ worker'[w].task = c.task /\ worker'[w].attempt = c.attempt + 1
        /\ c.phase = "abandonment" /\ c.pc = "insert"
    BY <1>1, <1>5, <1>7, StepFields DEF Losing
  <2>2. n \in 0 .. c.attempt - 1 \/ n = c.attempt
    BY <1>1, <2>1
  <2>3. CASE n \in 0 .. c.attempt - 1
    BY <1>2, <2>1, <2>3 DEF LostAttemptsAreAttested
  <2>4. CASE n = c.attempt
    <3> DEFINE e == Entry(w, Writing(w))
    <3>1. e.actor = c.task /\ e.action = "step_abandoned" /\ e.content = AbandonContent(n)
      BY <2>1, <2>4 DEF Entry, Writing, Attestation
    <3>2. e \in chain'
      <4>1. TxOK(tx[w])
        BY DEF Shape, CallersOK, CallerOK
      <4>2. InsertIn(tx[w], e).entries = tx[w].entries \cup {e}
        BY <4>1, InsertInKeeps
      <4>3. chain' = chain \cup InsertIn(tx[w], e).entries
        BY <1>7 DEF AttestAbandonment, Publish
      <4> QED
        BY <4>2, <4>3
    <3> QED
      BY <2>1, <3>1, <3>2
  <2> QED
    BY <2>2, <2>3, <2>4
<1>8. CASE Step(w) /\ ~AttestAbandonment(w)
  <2>1. CASE TaskNotFound(w) \/ ResultPurged(w) \/ GiveUpAbandonment(w) \/ Commit(w)
    BY <1>1, <1>5, <2>1, StepFields DEF TaskNotFound, ResultPurged, GiveUpAbandonment, Losing
  <2>2. CASE Enter(w) \/ Loop(w)
    BY <1>3, <2>2, DriveSteps DEF DriveFields, Same
  <2>3. CASE LockTask(w) \/ LockCredits(w)
    BY <1>1, <1>3, <2>3, StepFields DEF Locking, Same
  <2>4. CASE KeepTrace(w) \/ TracesKept(w)
    BY <1>1, <1>3, <2>4, StepFields DEF Keeping, Same
  <2>5. CASE PutContent(w) \/ FindTail(w) \/ InsertEvent(w) \/ SkipEvent(w)
    BY <1>1, <1>3, <2>5, StepFields DEF Writes, Same
  <2>6. CASE LoseHeight(w) \/ RetryAbandonment(w)
    BY <1>1, <1>3, <2>6, StepFields DEF Losing, Same
  <2> QED
    BY <1>8, <2>1, <2>2, <2>3, <2>4, <2>5, <2>6 DEF Step
<1>9. CASE Quits(w)
  BY <1>1, <1>5, <1>9, StepFields DEF Quits
<1> QED
  BY <1>4, <1>6, <1>7, <1>8, <1>9, WhoMoves DEF Aside, Others, vars

\* Whatever conflicts, crashes and retries: when an attempt is made again, the
\* abandonment of every attempt lost before it is already in the chain.
THEOREM LostAttemptsAreKnown == Spec => []LostAttemptsAreAttested
<1>1. Init => LostAttemptsAreAttested
  BY DEF Init, LostAttemptsAreAttested, Idle
<1> QED
  BY <1>1, ShapeCorrect, LostNext, PTL DEF Spec
-----------------------------------------------------------------------------
(***************************************************************************)
(* The memory of the effects                                               *)
(***************************************************************************)
Iterations(s) == {s[k].iteration : k \in DOMAIN s}

LEMMA IterationsMove ==
  /\ Iterations(<<>>) = {}
  /\ \A s \in Seq(Traces), p \in Traces :
       Iterations(s \o <<p>>) = Iterations(s) \cup {p.iteration}
  /\ \A s \in Seq(Traces) :
       s # <<>> => Iterations(s) = {Head(s).iteration} \cup Iterations(Tail(s))
  /\ \A s \in Seq(Traces) : Iterations(s) \subseteq 0 .. MaxIterations
<1>1. Iterations(<<>>) = {}
  BY DEF Iterations
<1>2. ASSUME NEW s \in Seq(Traces), NEW p \in Traces
      PROVE  Iterations(s \o <<p>>) = Iterations(s) \cup {p.iteration}
  <2> DEFINE r == s \o <<p>>
  <2>1. /\ DOMAIN s = 1 .. Len(s) /\ DOMAIN r = 1 .. Len(s) + 1 /\ Len(s) \in Nat
        /\ \A k \in 1 .. Len(s) : r[k] = s[k]
        /\ r[Len(s) + 1] = p
    OBVIOUS
  <2> HIDE DEF r
  <2>2. 1 .. Len(s) + 1 = 1 .. Len(s) \cup {Len(s) + 1}
    BY <2>1
  <2> QED
    BY <2>1, <2>2 DEF Iterations, r
<1>3. ASSUME NEW s \in Seq(Traces), s # <<>>
      PROVE  Iterations(s) = {Head(s).iteration} \cup Iterations(Tail(s))
  <2> DEFINE r == Tail(s)
  <2>1. /\ DOMAIN s = 1 .. Len(s) /\ DOMAIN r = 1 .. Len(s) - 1 /\ Len(s) \in Nat \ {0}
        /\ \A k \in 1 .. Len(s) - 1 : r[k] = s[k + 1]
        /\ Head(s) = s[1]
    BY <1>3
  <2> HIDE DEF r
  <2>2. \A k \in 1 .. Len(s) : k = 1 \/ k - 1 \in 1 .. Len(s) - 1
    BY <2>1
  <2>3. \A k \in 1 .. Len(s) : k # 1 => s[k] = r[k - 1]
    BY <2>1
  <2>4. 1 \in 1 .. Len(s) /\ \A k \in 1 .. Len(s) - 1 : k + 1 \in 1 .. Len(s)
    BY <2>1
  <2>5. Iterations(s) \subseteq {Head(s).iteration} \cup Iterations(r)
    BY <2>1, <2>2, <2>3 DEF Iterations
  <2>6. {Head(s).iteration} \cup Iterations(r) \subseteq Iterations(s)
    BY <2>1, <2>4 DEF Iterations
  <2> QED
    BY <2>5, <2>6 DEF r
<1>4. ASSUME NEW s \in Seq(Traces) PROVE Iterations(s) \subseteq 0 .. MaxIterations
  <2>1. \A k \in DOMAIN s : s[k] \in Traces
    OBVIOUS
  <2> QED
    BY <2>1 DEF Iterations, Traces
<1> QED
  BY <1>1, <1>2, <1>3, <1>4

\* The iterations whose effect a caller has in its transaction, and those whose
\* effect it still has to write.
Held(w) == {e.call[2] : e \in tx[w].traces}

Owed(w) == Iterations(worker[w].performed)

\* A caller wrote or owes nothing that did not happen; past the lock of the
\* credits it knows every effect of its task, and together with what it wrote
\* and owes they are those of the iterations of its copy.
Remembers(w) ==
  /\ \A e \in tx[w].traces : world[e.call] > 0
  /\ \A i \in Owed(w) : world[Call(worker[w].task, i)] > 0
  /\ OwnsCredits(w) => worker[w].known = Loaded(worker[w].task)
  /\ NeverRestored /\ OwnsCredits(w) =>
       Loaded(worker[w].task) \cup Held(w) \cup Owed(w) = 0 .. worker[w].state.iteration - 1

EffectsKept ==
  /\ \A e \in effects : world[e.call] > 0
  /\ \A t \in Tasks \ Created : Loaded(t) = {}
  /\ NeverRestored => \A t \in Created : Loaded(t) = 0 .. tasks[t].iteration - 1
  /\ \A w \in Workers : Remembers(w)

\* What happened in the world is never undone.
LEMMA WorldGrows ==
  ASSUME Shape, [Next]_vars
  PROVE  \A c \in Calls : world[c] > 0 => world'[c] > 0
<1>1. world \in [Calls -> Nat]
  BY DEF Shape, TablesOK
<1>2. CASE UNCHANGED world
  BY <1>1, <1>2
<1>3. ASSUME NEW w \in Workers, Enter(w) \/ Loop(w)
      PROVE  \A c \in Calls : world[c] > 0 => world'[c] > 0
  BY <1>1, <1>3, DriveSteps DEF DriveFields
<1>4. ASSUME NEW w \in Workers, Step(w) PROVE Enter(w) \/ Loop(w) \/ UNCHANGED world
  BY <1>4, StepWrites
<1>5. CASE (DeleteContent \/ Purging \/ CrashPurge \/ AbortPurge)
  BY <1>2, <1>5 DEF DeleteContent, Purging, PurgeFindTail, AttestPurge, LosePurge, CrashPurge,
                    AbortPurge
<1>6. CASE \E t \in Tasks : CreateTask(t) \/ RestoreTask(t)
  BY <1>2, <1>6 DEF CreateTask, RestoreTask
<1>7. CASE UNCHANGED vars \/ \E w \in Workers : Quits(w) \/ Called(w)
  BY <1>2, <1>7 DEF Quits, Called, vars
<1> QED
  BY <1>2, <1>3, <1>4, <1>5, <1>6, <1>7, WhoMoves
\* What KeepTrace writes: the result, and the trace unless the call has one.
LEMMA TraceIsKept ==
  ASSUME Shape, NEW w \in Workers, KeepTrace(w)
  PROVE  LET c == worker[w]
             e == EffectOf(c.task, Head(c.performed))
         IN  /\ \/ /\ tx'[w].traces = tx[w].traces
                   /\ \E f \in effects \cup tx[w].traces : f.call = e.call
                \/ tx'[w].traces = tx[w].traces \cup {e}
             /\ tx'[w].entries = tx[w].entries /\ tx'[w].deleted = tx[w].deleted
             /\ tx[w].puts \subseteq tx'[w].puts
             /\ ResultContent(Head(c.performed).tool) \in
                  (content \ tx[w].deleted) \cup tx'[w].puts
<1> DEFINE c == worker[w]
           p == Head(c.performed)
           t == PutIn(tx[w], ResultContent(p.tool))
           e == EffectOf(c.task, p)
           u == IF \E f \in effects \cup t.traces : f.call = e.call
                THEN t ELSE [t EXCEPT !.traces = @ \cup {e}]
<1>1. TxOK(tx[w]) /\ DOMAIN tx = Transactions /\ w \in Transactions
  BY DEF Shape, CallersOK, CallerOK, Transactions
<1>2. tx'[w] = u
  BY <1>1 DEF KeepTrace
<1>3. /\ TxOK(t) /\ t.deleted = tx[w].deleted /\ t.entries = tx[w].entries
      /\ t.traces = tx[w].traces /\ tx[w].puts \subseteq t.puts
      /\ ResultContent(p.tool) \in (content \ tx[w].deleted) \cup t.puts
  BY <1>1, PutInKeeps
<1> HIDE DEF t, e, p, c
<1>4. /\ \/ u.traces = t.traces /\ \E f \in effects \cup t.traces : f.call = e.call
         \/ u.traces = t.traces \cup {e}
      /\ u.entries = t.entries /\ u.deleted = t.deleted /\ u.puts = t.puts
  BY <1>3 DEF TxOK
<1> HIDE DEF u
<1> QED
  BY <1>2, <1>3, <1>4 DEF c, e, p

\* A step that does not commit keeps what its caller remembers.
LEMMA StepRemembers ==
  ASSUME Shape, NEW w \in Workers, Step(w), ~Commit(w), fuel' = fuel,
         NeverRestored => Funds(w), EffectsKept, Shape',
         \A c \in Calls : world[c] > 0 => world'[c] > 0
  PROVE  Remembers(w)'
<1> DEFINE c == worker[w]
           d == worker'[w]
<1>1. /\ CallersOK(worker, tx) /\ CallerOK(c, tx[w]) /\ CallerOK(d, tx'[w])
      /\ c.performed \in Seq(Traces) /\ d.performed \in Seq(Traces)
  BY DEF Shape, CallersOK, CallerOK, Callers
<1>2. /\ UNCHANGED <<tasks, effects>> /\ NeverRestored' = NeverRestored
      /\ Created' = Created
      /\ \A t : Loaded(t)' = Loaded(t)
  BY StepWrites DEF NeverRestored, Created, Loaded, Recorded
<1>3. Remembers(w)
  BY DEF EffectsKept
<1>4. NoTx.traces = {} /\ Idle.performed = <<>> /\ Idle.pc = "idle"
  BY DEF NoTx, Idle
<1>5. ASSUME tx'[w].traces = {}, d.performed = <<>>, ~OwnsCredits(w)' PROVE Remembers(w)'
  BY <1>5, IterationsMove DEF Remembers, Owed
<1>6. ASSUME tx'[w].traces = tx[w].traces, d.performed = c.performed, Same(c, d),
             c.pc # "idle",
             d.state = c.state, OwnsCredits(w)' => OwnsCredits(w)
      PROVE  Remembers(w)'
  <2>1. \A e \in tx[w].traces : e.call \in Calls
    BY <1>1 DEF CallerOK, Memory
  <2>2. \A i \in Owed(w) : Call(c.task, i) \in Calls
    <3>1. \A i \in Owed(w) : i \in 0 .. MaxIterations
      BY <1>1, IterationsMove DEF Owed
    <3>2. c.task \in Tasks
      BY <1>1, <1>6 DEF CallerOK
    <3> QED
      BY <3>1, <3>2 DEF Calls, Call
  <2>3. /\ Owed(w)' = Owed(w) /\ Held(w)' = Held(w)
        /\ d.task = c.task /\ d.known = c.known /\ d.state = c.state
    BY <1>6 DEF Owed, Held, Same
  <2>4. \A e \in tx'[w].traces : world'[e.call] > 0
    BY <1>3, <1>6, <2>1 DEF Remembers
  <2>5. \A i \in Owed(w)' : world'[Call(d.task, i)] > 0
    BY <1>3, <2>2, <2>3 DEF Remembers
  <2> QED
    BY <1>2, <1>3, <1>6, <2>3, <2>4, <2>5 DEF Remembers
<1>7. CASE TaskNotFound(w) \/ ResultPurged(w) \/ GiveUpAbandonment(w)
  <2>1. d = Idle /\ tx'[w] = NoTx
    BY <1>1, <1>7, StepFields DEF TaskNotFound, ResultPurged, GiveUpAbandonment
  <2> QED
    BY <1>4, <1>5, <2>1 DEF OwnsCredits, OwnsTask
<1>8. CASE LockTask(w)
  <2>1. d.pc = "lock_credits" /\ tx'[w] = NoTx /\ d.performed = <<>>
    BY <1>1, <1>8, StepFields DEF Locking, CallerOK
  <2> QED
    BY <1>4, <1>5, <2>1 DEF OwnsCredits
<1>9. CASE LockCredits(w)
  <2>1. /\ c.pc = "lock_credits" /\ d.pc = "entry" /\ d.task = c.task /\ c.phase = "step"
        /\ d.state = [c.state EXCEPT !.budget = Refreshed(@, credits)]
        /\ d.known = Loaded(c.task)
    BY <1>1, <1>9, StepFields DEF Locking
  <2>2. tx'[w] = NoTx /\ d.performed = <<>> /\ c.state \in Rows /\ c.task \in Tasks
    BY <1>1, <2>1 DEF CallerOK
  <2>3. d.state.iteration = c.state.iteration
    BY <2>1, <2>2 DEF Rows, TaskStates
  <2>4. NeverRestored => Loaded(c.task) = 0 .. c.state.iteration - 1
    BY <2>1, <2>2 DEF Funds, OwnsTask, EffectsKept, Created
  <2>5. Held(w)' = {} /\ Owed(w)' = {}
    BY <1>4, <2>2, IterationsMove DEF Held, Owed
  <2> QED
    BY <1>2, <1>4, <2>1, <2>2, <2>3, <2>4, <2>5 DEF Remembers
<1>10. CASE Enter(w) \/ Loop(w)
  <2>1. DriveFields(w)
    BY <1>10, DriveSteps
  <2>2. /\ OwnsCredits(w) /\ c.pc \in {"entry", "loop"} /\ c.task \in Tasks
        /\ tx[w] = NoTx /\ tx'[w] = NoTx
        /\ d.task = c.task /\ d.known = c.known
    BY <1>1, <2>1 DEF OwnsCredits, OwnsTask, DriveFields, CallerOK, Same
  <2> DEFINE s == c.state
             u == d.state
             k == c.known
             new == PerformedBy(s, u, k)
  <2>3. /\ s \in TaskStates /\ OneRun(s, u)
        /\ d.performed = c.performed \o TracesOf(new)
        /\ world' = [x \in Calls |-> world[x] +
                       IF \E e \in new : x = Call(c.task, e.iteration) THEN 1 ELSE 0]
    <3>1. Driven(c, u).performed = c.performed \o TracesOf(new)
      <4> HIDE DEF u
      <4> QED
        BY <1>1 DEF Driven, CallerOK, Callers
    <3>2. d = Driven(c, u)
      BY <2>1 DEF DriveFields
    <3> QED
      BY <2>1, <3>1, <3>2 DEF DriveFields, Rows
  <2>4. s.iteration \in Nat
    BY <2>3 DEF TaskStates
  <2>5. Held(w)' = {} /\ Held(w) = {}
    BY <1>4, <2>2 DEF Held
  <2>6. \A i \in Owed(w) : /\ world[Call(c.task, i)] > 0 /\ world'[Call(c.task, i)] > 0
    <3>1. \A i \in Owed(w) : i \in 0 .. MaxIterations
      BY <1>1, IterationsMove DEF Owed
    <3>2. \A i \in Owed(w) : Call(c.task, i) \in Calls
      BY <2>2, <3>1 DEF Calls, Call
    <3> QED
      BY <1>3, <3>2 DEF Remembers
  <2>7. k = Loaded(c.task)
        /\ (NeverRestored => Loaded(c.task) \cup Owed(w) = 0 .. s.iteration - 1)
    BY <1>3, <2>2, <2>5 DEF Remembers
  <2>8. OneRun(s, u) =>
          \/ new = {} /\ TracesOf(new) = <<>>
             /\ (u.iteration = s.iteration \/ (u.iteration = s.iteration + 1 /\ s.iteration \in k))
          \/ \E e \in Events, p \in Traces :
               /\ new = {e} /\ TracesOf(new) = <<p>>
               /\ e.iteration = s.iteration /\ p.iteration = s.iteration
               /\ s.iteration \notin k /\ u.iteration = s.iteration + 1
    <3> HIDE DEF s, u, k
    <3> QED
      BY <2>3, NewTraces
  <2>9. CASE new = {} /\ TracesOf(new) = <<>>
             /\ (u.iteration = s.iteration \/ (u.iteration = s.iteration + 1 /\ s.iteration \in k))
    <3>1. d.performed = c.performed
      BY <1>1, <2>3, <2>9
    <3>2. Owed(w)' = Owed(w)
      BY <3>1 DEF Owed
    <3>3. NeverRestored => u.iteration = s.iteration
      BY <2>4, <2>7, <2>9
    <3> HIDE DEF new
    <3> QED
      BY <1>2, <1>4, <2>2, <2>5, <2>6, <2>7, <3>2, <3>3 DEF Remembers
  <2>10. ASSUME NEW e \in Events, NEW p \in Traces,
                new = {e}, TracesOf(new) = <<p>>,
                e.iteration = s.iteration, p.iteration = s.iteration,
                u.iteration = s.iteration + 1
         PROVE  Remembers(w)'
    <3>1. Owed(w)' = Owed(w) \cup {s.iteration}
      <4>1. Iterations(c.performed \o <<p>>) = Iterations(c.performed) \cup {p.iteration}
        BY <1>1, IterationsMove
      <4>2. d.performed = c.performed \o <<p>>
        BY <2>3, <2>10
      <4> QED
        BY <2>10, <4>1, <4>2 DEF Owed
    <3>2. world'[Call(c.task, s.iteration)] > 0
      <4>1. Call(c.task, s.iteration) \in Calls
        BY <2>2, <2>10 DEF Calls, Call, Traces
      <4>2. world'[Call(c.task, s.iteration)] = world[Call(c.task, s.iteration)] + 1
        BY <2>3, <2>10, <4>1
      <4>3. world[Call(c.task, s.iteration)] \in Nat
        BY <4>1 DEF Shape, TablesOK
      <4> QED
        BY <4>2, <4>3
    <3>3. 0 .. u.iteration - 1 = 0 .. s.iteration - 1 \cup {s.iteration}
      BY <2>4, <2>10
    <3> HIDE DEF new
    <3>4. NeverRestored => Loaded(c.task) \cup Owed(w)' = 0 .. u.iteration - 1
      BY <2>7, <3>1, <3>3
    <3> QED
      BY <1>2, <1>4, <2>2, <2>5, <2>6, <2>7, <3>1, <3>2, <3>4 DEF Remembers
  <2> QED
    BY <2>3, <2>8, <2>9, <2>10
<1>11. CASE KeepTrace(w)
  <2> DEFINE p == Head(c.performed)
             e == EffectOf(c.task, p)
  <2>1. /\ c.pc = "effects" /\ d.pc = "effects" /\ c.performed # <<>>
        /\ d.performed = Tail(c.performed) /\ Same(c, d) /\ d.state = c.state
    BY <1>1, <1>11, StepFields DEF Keeping
  <2>2. c.phase = "step" /\ c.task \in Tasks /\ p \in Traces
    BY <1>1, <2>1 DEF CallerOK, Callers
  <2>3. OwnsCredits(w)
    BY <2>1, <2>2 DEF OwnsCredits, OwnsTask
  <2>4. Owed(w) = {p.iteration} \cup Owed(w)'
    BY <1>1, <2>1, IterationsMove DEF Owed
  <2>5. e.call = Call(c.task, p.iteration) /\ e.call[2] = p.iteration /\ e.call \in Calls
    BY <2>2 DEF EffectOf, Call, Calls, Traces
  <2>6. \/ /\ tx'[w].traces = tx[w].traces
           /\ \E f \in effects \cup tx[w].traces : f.call = e.call
        \/ tx'[w].traces = tx[w].traces \cup {e}
    BY <1>11, TraceIsKept
  <2>7. world' = world
    BY <1>11 DEF KeepTrace
  <2>8. Loaded(c.task) \cup Held(w)' \cup Owed(w)' = Loaded(c.task) \cup Held(w) \cup Owed(w)
    <3>1. Held(w) \subseteq Held(w)' /\ Held(w)' \subseteq Held(w) \cup {p.iteration}
      BY <2>5, <2>6 DEF Held
    <3>2. p.iteration \in Loaded(c.task) \cup Held(w)'
      <4>1. \A f \in effects : f.call = e.call => f.call[2] = p.iteration /\ f.call[1] = c.task
        BY <2>5 DEF Call
      <4>2. CASE \E f \in effects : f.call = e.call
        BY <4>1, <4>2 DEF Loaded, Recorded
      <4>3. CASE \E f \in tx[w].traces : f.call = e.call
        BY <2>5, <2>6, <4>3 DEF Held
      <4>4. CASE tx'[w].traces = tx[w].traces \cup {e}
        BY <2>5, <4>4 DEF Held
      <4> QED
        BY <2>6, <4>2, <4>3, <4>4
    <3> QED
      BY <2>4, <3>1, <3>2
  <2>9. world[e.call] > 0
    BY <1>3, <2>4, <2>5 DEF Remembers
  <2>10. \A f \in tx'[w].traces : world'[f.call] > 0
    BY <1>3, <2>6, <2>7, <2>9 DEF Remembers
  <2>11. \A i \in Owed(w)' : world'[Call(c.task, i)] > 0
    BY <1>3, <2>4, <2>7 DEF Remembers
  <2> HIDE DEF p, e
  <2> QED
    BY <1>2, <1>3, <2>1, <2>3, <2>8, <2>10, <2>11 DEF Remembers, Same
<1>12. CASE TracesKept(w) \/ PutContent(w) \/ FindTail(w) \/ InsertEvent(w) \/ SkipEvent(w)
  <2>1. TxOK(tx[w])
    BY <1>1 DEF CallerOK
  <2>2. tx'[w].traces = tx[w].traces
    <3>1. CASE TracesKept(w) \/ SkipEvent(w)
      BY <1>1, <3>1, StepFields DEF Keeping, Writes
    <3>2. CASE PutContent(w)
      <4>1. tx'[w] = PutIn(tx[w], Writing(w).content)
        BY <1>1, <3>2, StepFields DEF Writes
      <4> QED
        BY <2>1, <4>1, PutInKeeps
    <3>3. CASE InsertEvent(w)
      <4>1. tx'[w] = InsertIn(tx[w], Entry(w, Writing(w)))
        BY <1>1, <3>3, StepFields DEF Writes
      <4> QED
        BY <2>1, <4>1, InsertInKeeps
    <3>4. CASE FindTail(w)
      <4>1. tx'[w] = [tx[w] EXCEPT !.tail = ReadTail(w)]
        BY <1>1, <3>4, StepFields DEF Writes
      <4> QED
        BY <2>1, <4>1 DEF TxOK
    <3> QED
      BY <1>12, <3>1, <3>2, <3>3, <3>4
  <2>3. /\ c.pc \in {"effects", "put", "tail", "insert"} /\ Same(c, d) /\ d.state = c.state
        /\ d.pc \in {"put", "tail", "insert", "commit"}
    BY <1>1, <1>12, StepFields DEF Keeping, Writes, AfterEvent
  <2>4. c.performed = <<>> /\ d.performed = <<>>
    <3>1. TracesKept(w) => c.performed = <<>>
      BY <1>1, StepFields DEF Keeping
    <3>2. ~TracesKept(w) => c.pc # "effects"
      BY <1>1, <1>12, StepFields DEF Writes
    <3> QED
      BY <1>1, <2>3, <3>1, <3>2 DEF CallerOK
  <2>5. OwnsCredits(w)' => OwnsCredits(w)
    BY <2>3 DEF OwnsCredits, OwnsTask, Same
  <2> QED
    BY <1>6, <2>2, <2>3, <2>4, <2>5
<1>13. CASE LoseHeight(w) \/ RetryAbandonment(w) \/ AttestAbandonment(w)
  <2>1. /\ tx'[w] = NoTx /\ ~OwnsCredits(w)'
        /\ d.pc \in {"put", "lock_task", "idle"}
    BY <1>1, <1>4, <1>13, StepFields DEF Losing, OwnsCredits, OwnsTask, Same
  <2>2. d.performed = <<>>
    BY <1>1, <2>1 DEF CallerOK
  <2> QED
    BY <1>4, <1>5, <2>1, <2>2
<1> QED
  BY <1>7, <1>8, <1>9, <1>10, <1>11, <1>12, <1>13 DEF Step
\* The tables a purge writes: of those, only the chain and the contents.
LEMMA PurgeWrites ==
  ASSUME Shape, DeleteContent \/ Purging \/ CrashPurge \/ AbortPurge
  PROVE  /\ UNCHANGED <<tasks, previous, credits, effects, world>>
         /\ AttestPurge \/ UNCHANGED <<chain, content>>
<1>1. CASE AttestPurge
  <2>1. TxOK(tx[Purger]) /\ tx[Purger].traces = {}
    BY DEF Shape, PurgerOK
  <2>2. effects' = effects \cup InsertIn(tx[Purger], Entry(Purger, PurgeAttestation)).traces
    BY <1>1 DEF AttestPurge, Publish
  <2>3. effects' = effects
    BY <2>1, <2>2, InsertInKeeps
  <2> QED
    BY <1>1, <2>3 DEF AttestPurge
<1>2. CASE DeleteContent \/ PurgeFindTail \/ LosePurge \/ CrashPurge \/ AbortPurge
  BY <1>2 DEF DeleteContent, PurgeFindTail, LosePurge, CrashPurge, AbortPurge, database
<1> QED
  BY <1>1, <1>2 DEF Purging

\* Callers that do not move keep what they remember, as long as the effects of
\* their task do not move.
LEMMA OthersRemember ==
  ASSUME Shape, NEW v \in Workers, Remembers(v), worker'[v] = worker[v], tx'[v] = tx[v],
         NeverRestored' => NeverRestored,
         OwnsCredits(v) => Loaded(worker[v].task)' = Loaded(worker[v].task),
         \A c \in Calls : world[c] > 0 => world'[c] > 0
  PROVE  Remembers(v)'
<1> DEFINE c == worker[v]
<1>1. CallerOK(c, tx[v]) /\ c.performed \in Seq(Traces)
  BY DEF Shape, CallersOK, CallerOK, Callers
<1>2. /\ Owed(v)' = Owed(v) /\ Held(v)' = Held(v) /\ OwnsCredits(v)' = OwnsCredits(v)
  BY DEF Owed, Held, OwnsCredits, OwnsTask
<1>3. \A e \in tx[v].traces : e.call \in Calls
  BY <1>1 DEF CallerOK, Memory
<1>4. \A i \in Owed(v) : i \in 0 .. MaxIterations
  BY <1>1, IterationsMove DEF Owed
<1>5. CASE c.pc = "idle"
  <2>1. tx[v].traces = {} /\ c.performed = <<>> /\ ~OwnsCredits(v)
    BY <1>1, <1>5 DEF CallerOK, NoTx, OwnsCredits, OwnsTask
  <2>2. Owed(v) = {}
    BY <2>1, IterationsMove DEF Owed
  <2> QED
    BY <1>2, <2>1, <2>2 DEF Remembers
<1>6. CASE c.pc # "idle"
  <2>1. \A i \in Owed(v) : Call(c.task, i) \in Calls
    BY <1>1, <1>4, <1>6 DEF CallerOK, Call, Calls
  <2>2. (\A e \in tx'[v].traces : world'[e.call] > 0)
        /\ (\A i \in Owed(v)' : world'[Call(worker'[v].task, i)] > 0)
    BY <1>2, <1>3, <2>1 DEF Remembers
  <2> QED
    BY <1>2, <2>2 DEF Remembers
<1> QED
  BY <1>5, <1>6

\* A commit writes the effects of its task, and of it alone.
LEMMA CommitRemembers ==
  ASSUME Shape, OneOwner, EffectsKept, NEW w \in Workers, Commit(w), Others(w),
         fuel' = fuel
  PROVE  EffectsKept'
<1> DEFINE c == worker[w]
           t == c.task
<1>1. /\ c.pc = "commit" /\ worker'[w] = Idle /\ tx'[w] = NoTx
      /\ tasks' = [tasks EXCEPT ![t] = c.state]
      /\ effects' = effects \cup tx[w].traces /\ world' = world
  BY StepFields DEF Commit, Losing, Shape, Publish
<1>2. /\ CallerOK(c, tx[w]) /\ t \in Tasks /\ c.phase = "step" /\ c.state \in Rows
      /\ c.performed = <<>>
  BY <1>1 DEF Shape, CallersOK, CallerOK, Callers
<1>3. OwnsCredits(w) /\ Remembers(w) /\ Owed(w) = {}
  BY <1>1, <1>2, IterationsMove DEF OwnsTask, OwnsCredits, EffectsKept, Owed
<1>4. \A e \in tx[w].traces : e.call[1] = t /\ world[e.call] > 0
  BY <1>2, <1>3 DEF CallerOK, Remembers
<1>5. \A u \in Tasks \ {t} : Loaded(u)' = Loaded(u)
  <2>1. \A u \in Tasks \ {t} : Recorded(u)' = Recorded(u)
    BY <1>1, <1>4 DEF Recorded
  <2> QED
    BY <2>1 DEF Loaded
<1>6. \A u \in {t} : Loaded(u)' = Loaded(u) \cup Held(w)
  <2>1. \A u \in {t} : Recorded(u)' = Recorded(u) \cup tx[w].traces
    BY <1>1, <1>4 DEF Recorded
  <2> QED
    BY <2>1 DEF Loaded, Held
<1>7. c.state # NoTask /\ DOMAIN tasks = Tasks
  BY <1>2, TaskStoreAssumption DEF Rows, Shape, TablesOK
<1>8. /\ tasks'[t] = c.state /\ \A u \in Tasks \ {t} : tasks'[u] = tasks[u]
      /\ Created' = Created \cup {t}
  BY <1>1, <1>2, <1>7 DEF Created
<1>9. \A e \in effects' : world'[e.call] > 0
  BY <1>1, <1>4 DEF EffectsKept
<1>10. \A u \in Tasks \ Created' : Loaded(u)' = {}
  BY <1>5, <1>8 DEF EffectsKept
<1>11. NeverRestored' = NeverRestored
  BY DEF NeverRestored
<1>12. NeverRestored => \A u \in Created' : Loaded(u)' = 0 .. tasks'[u].iteration - 1
  <2>1. NeverRestored => \A u \in {t} : Loaded(u)' = 0 .. c.state.iteration - 1
    BY <1>3, <1>6 DEF Remembers
  <2>2. NeverRestored => \A u \in Created \ {t} : Loaded(u)' = 0 .. tasks[u].iteration - 1
    BY <1>5 DEF EffectsKept, Created
  <2>3. Created \subseteq Tasks
    BY DEF Created
  <2> QED
    BY <1>8, <2>1, <2>2, <2>3
<1>13. ASSUME NEW v \in Workers PROVE Remembers(v)'
  <2>1. CASE v = w
    <3>1. /\ NoTx.traces = {} /\ Idle.performed = <<>> /\ Idle.pc = "idle"
      BY DEF NoTx, Idle
    <3>2. Owed(w)' = {} /\ ~OwnsCredits(w)'
      BY <1>1, <3>1, IterationsMove DEF Owed, OwnsCredits, OwnsTask
    <3> QED
      BY <1>1, <2>1, <3>1, <3>2 DEF Remembers
  <2>2. CASE v # w
    <3>1. worker'[v] = worker[v] /\ tx'[v] = tx[v] /\ Remembers(v) /\ ~OwnsCredits(v)
      BY <1>3, <2>2 DEF Others, EffectsKept, OneOwner
    <3> QED
      BY <1>1, <1>11, <3>1, OthersRemember
  <2> QED
    BY <2>1, <2>2
<1> QED
  BY <1>9, <1>10, <1>11, <1>12, <1>13 DEF EffectsKept

LEMMA EffectsNext ==
  Shape /\ Shape' /\ OneOwner /\ Balanced /\ EffectsKept /\ [Next]_vars => EffectsKept'
<1> SUFFICES ASSUME Shape, Shape', OneOwner, Balanced, EffectsKept, [Next]_vars
             PROVE  EffectsKept'
  OBVIOUS
<1>1. \A c \in Calls : world[c] > 0 => world'[c] > 0
  BY WorldGrows
<1>2. NeverRestored' => NeverRestored /\ \A t \in Tasks : ~RestoreTask(t)
  BY RestoresAreCounted
<1>3. \A e \in effects : e.call \in Calls /\ world[e.call] > 0
  BY DEF EffectsKept, Shape, TablesOK, Memory
<1>4. ASSUME effects' = effects PROVE \A t : Loaded(t)' = Loaded(t)
  BY <1>4 DEF Loaded, Recorded
<1>5. ASSUME effects' = effects, NEW v \in Workers, worker'[v] = worker[v], tx'[v] = tx[v]
      PROVE  Remembers(v)'
  BY <1>1, <1>2, <1>4, <1>5, OthersRemember DEF EffectsKept
<1>6. ASSUME UNCHANGED <<tasks, effects>>, \A v \in Workers : Remembers(v)'
      PROVE  EffectsKept'
  <2>1. Created' = Created /\ \A t : Loaded(t)' = Loaded(t)
    BY <1>4, <1>6 DEF Created
  <2> QED
    BY <1>1, <1>2, <1>3, <1>6, <2>1 DEF EffectsKept
<1>7. ASSUME NEW w \in Workers, Others(w), UNCHANGED <<tasks, effects>>, Remembers(w)'
      PROVE  EffectsKept'
  BY <1>5, <1>6, <1>7 DEF Others
<1>8. CASE Aside /\ (DeleteContent \/ Purging \/ CrashPurge \/ AbortPurge)
  BY <1>5, <1>6, <1>8, PurgeWrites DEF Aside
<1>9. CASE UNCHANGED vars
  BY <1>5, <1>6, <1>9 DEF vars, database
<1>10. ASSUME NEW w \in Workers, Others(w), Quits(w) PROVE EffectsKept'
  <2>1. worker'[w] = Idle /\ tx'[w] = NoTx /\ UNCHANGED <<tasks, effects>>
    BY <1>10, StepFields DEF Quits, Leave, Shape, database
  <2>2. NoTx.traces = {} /\ Idle.performed = <<>> /\ Idle.pc = "idle"
    BY DEF NoTx, Idle
  <2>3. Owed(w)' = {} /\ ~OwnsCredits(w)'
    BY <2>1, <2>2, IterationsMove DEF Owed, OwnsCredits, OwnsTask
  <2>4. Remembers(w)'
    BY <2>1, <2>2, <2>3 DEF Remembers
  <2> QED
    BY <1>7, <1>10, <2>1, <2>4
<1>11. ASSUME NEW w \in Workers, Others(w), Called(w) PROVE EffectsKept'
  <2>1. worker[w].pc = "idle" /\ worker'[w].pc = "lock_task" /\ tx'[w] = tx[w]
        /\ UNCHANGED <<tasks, effects>>
    BY <1>11 DEF Called, database
  <2>2. tx'[w] = NoTx /\ worker'[w].performed = <<>>
    BY <2>1 DEF Shape, CallersOK, CallerOK
  <2>3. Owed(w)' = {} /\ ~OwnsCredits(w)' /\ NoTx.traces = {}
    BY <2>1, <2>2, IterationsMove DEF Owed, OwnsCredits, OwnsTask, NoTx
  <2>4. Remembers(w)'
    BY <2>2, <2>3 DEF Remembers
  <2> QED
    BY <1>7, <1>11, <2>1, <2>4
<1>12. ASSUME NEW w \in Workers, Others(w), Step(w), fuel' = fuel PROVE EffectsKept'
  <2>1. CASE ~Commit(w)
    <3>1. UNCHANGED <<tasks, effects>>
      BY <1>12, <2>1, StepWrites
    <3>2. Remembers(w)'
      BY <1>1, <1>12, <2>1, StepRemembers DEF Balanced
    <3> QED
      BY <1>7, <1>12, <3>1, <3>2
  <2>2. CASE Commit(w)
    BY <1>12, <2>2, CommitRemembers
  <2> QED
    BY <2>1, <2>2
<1>13. ASSUME NEW t \in Tasks, CreateTask(t), Aside, tx' = tx PROVE EffectsKept'
  <2>1. /\ tasks[t] = NoTask /\ tasks' = [tasks EXCEPT ![t] = NewTask(Ceiling, credits)]
        /\ effects' = effects
    BY <1>13 DEF CreateTask
  <2>2. NewTask(Ceiling, credits) # NoTask /\ NewTask(Ceiling, credits).iteration = 0
    BY NewTaskRow, TaskStoreAssumption DEF Rows, Shape, TablesOK, NewTask
  <2>3. /\ Created' = Created \cup {t} /\ t \notin Created
        /\ tasks'[t].iteration = 0 /\ \A u \in Created : tasks'[u] = tasks[u]
    BY <2>1, <2>2 DEF Created, Shape, TablesOK
  <2>4. Loaded(t) = {} /\ 0 .. 0 - 1 = {}
    BY <2>3 DEF EffectsKept
  <2>5. \A v \in Workers : Remembers(v)'
    BY <1>5, <1>13, <2>1 DEF Aside
  <2>6. \A u : Loaded(u)' = Loaded(u)
    BY <1>4, <2>1
  <2>7. NeverRestored' => \A u \in Created' : Loaded(u)' = 0 .. tasks'[u].iteration - 1
    BY <1>2, <2>3, <2>4, <2>6 DEF EffectsKept
  <2>8. \A u \in Tasks \ Created' : Loaded(u)' = {}
    BY <2>3, <2>6 DEF EffectsKept
  <2> QED
    BY <1>1, <1>3, <2>1, <2>5, <2>7, <2>8 DEF EffectsKept
<1>14. ASSUME NEW t \in Tasks, RestoreTask(t), Aside, tx' = tx PROVE EffectsKept'
  <2>1. /\ previous[t] # NoTask /\ tasks' = [tasks EXCEPT ![t] = previous[t]]
        /\ effects' = effects /\ ~NeverRestored'
    BY <1>2, <1>14 DEF RestoreTask
  <2>2. Created \subseteq Created'
    BY <2>1 DEF Created, Shape, TablesOK
  <2>3. \A v \in Workers : Remembers(v)'
    BY <1>5, <1>14, <2>1 DEF Aside
  <2>4. \A u : Loaded(u)' = Loaded(u)
    BY <1>4, <2>1
  <2>5. \A u \in Tasks \ Created' : Loaded(u)' = {}
    BY <2>2, <2>4 DEF EffectsKept
  <2> QED
    BY <1>1, <1>3, <2>1, <2>3, <2>5 DEF EffectsKept
<1> QED
  BY <1>8, <1>9, <1>10, <1>11, <1>12, <1>13, <1>14, WhoMoves

LEMMA EffectsInit == Init => EffectsKept
<1> SUFFICES ASSUME Init PROVE EffectsKept
  OBVIOUS
<1>1. effects = {} /\ Created = {} /\ \A t : Loaded(t) = {}
  BY DEF Init, Created, Loaded, Recorded
<1>2. NoTx.traces = {} /\ Idle.performed = <<>> /\ Idle.pc = "idle"
  BY DEF NoTx, Idle
<1>3. \A w \in Workers : worker[w] = Idle /\ tx[w] = NoTx
  BY DEF Init, Transactions
<1>4. ASSUME NEW w \in Workers PROVE Remembers(w)
  <2>1. Owed(w) = {} /\ ~OwnsCredits(w)
    BY <1>2, <1>3, IterationsMove DEF Owed, OwnsCredits, OwnsTask
  <2> QED
    BY <1>2, <1>3, <2>1 DEF Remembers
<1> QED
  BY <1>1, <1>4 DEF EffectsKept

LEMMA EffectsAreKept == Spec => [](Shape /\ OneOwner /\ Balanced /\ EffectsKept)
<1>1. Init => OneOwner
  BY DEF Init, OneOwner, OwnsTask, OwnsCredits, Idle
<1> QED
  BY <1>1, ShapeInit, ShapeNext, OwnersNext, BalancedInit, BalancedNext, EffectsInit,
     EffectsNext, PTL DEF Spec

\* An effect in memory did happen; as long as no envelope went back in time, the
\* memory of a task is that of the calls its envelope knows as executed, no more
\* and no less, whichever transactions were lost on the way.
THEOREM MemoryIsExact == Spec => []EffectsAreRemembered
<1>1. EffectsKept => EffectsAreRemembered
  BY DEF EffectsKept, EffectsAreRemembered, Loaded, Created
<1> QED
  BY <1>1, EffectsAreKept, PTL

\* A call whose effect is in memory is never performed again: the caller that
\* would perform it holds the row of the task, so it knows all its effects.
THEOREM RecordedEffectsStay == Spec => RecordedEffectNeverReplayed
<1>1. ASSUME Shape, EffectsKept, [Next]_vars
      PROVE  \A e \in effects : world'[e.call] = world[e.call]
  <2>1. CASE UNCHANGED world
    BY <2>1
  <2>2. ASSUME NEW w \in Workers, Enter(w) \/ Loop(w), NEW e \in effects
        PROVE  world'[e.call] = world[e.call]
    <3> DEFINE c == worker[w]
               new == PerformedBy(c.state, worker'[w].state, c.known)
    <3>1. DriveFields(w)
      BY <1>1, <2>2, DriveSteps
    <3>2. e.call \in Calls /\ world[e.call] \in Nat
      BY <1>1 DEF Shape, TablesOK, Memory
    <3>3. c.known = Loaded(c.task)
      BY <1>1, <3>1 DEF DriveFields, EffectsKept, Remembers, OwnsCredits, OwnsTask
    <3>4. ASSUME NEW f \in new PROVE e.call # Call(c.task, f.iteration)
      <4>1. f.iteration \notin c.known
        BY <3>4 DEF PerformedBy, Unknown
      <4>2. e.call = Call(c.task, f.iteration) => f.iteration \in Loaded(c.task)
        BY DEF Loaded, Recorded, Call
      <4> QED
        BY <3>3, <4>1, <4>2
    <3>5. world' = [k \in Calls |-> world[k] +
                      IF \E f \in new : k = Call(c.task, f.iteration) THEN 1 ELSE 0]
      BY <3>1 DEF DriveFields
    <3> HIDE DEF new
    <3> QED
      BY <3>2, <3>4, <3>5
  <2>3. ASSUME NEW w \in Workers, Step(w) PROVE Enter(w) \/ Loop(w) \/ UNCHANGED world
    BY <1>1, <2>3, StepWrites
  <2>4. CASE DeleteContent \/ Purging \/ CrashPurge \/ AbortPurge
    BY <1>1, <2>1, <2>4, PurgeWrites
  <2>5. CASE \E t \in Tasks : CreateTask(t) \/ RestoreTask(t)
    BY <2>1, <2>5 DEF CreateTask, RestoreTask
  <2>6. CASE UNCHANGED vars \/ \E w \in Workers : Quits(w) \/ Called(w)
    BY <2>1, <2>6 DEF Quits, Called, vars
  <2> QED
    BY <1>1, <2>1, <2>2, <2>3, <2>4, <2>5, <2>6, WhoMoves
<1> QED
  BY <1>1, EffectsAreKept, PTL DEF Spec, RecordedEffectNeverReplayed
-----------------------------------------------------------------------------
(***************************************************************************)
(* The heights of the chain                                                *)
(***************************************************************************)
Heights(S) == {e.height : e \in S}

\* A finite set of entries of consecutive heights from n on.
Run(S, n) ==
  /\ IsFiniteSet(S) /\ Cardinality(S) \in Nat
  /\ Heights(S) = n .. n + Cardinality(S) - 1

\* The largest of the numbers below n, or -1.
LEMMA TopHeight ==
  ASSUME NEW n \in Nat
  PROVE  Max({-1} \cup 0 .. n - 1) = n - 1
<1> DEFINE S == {-1} \cup 0 .. n - 1
<1>1. n - 1 \in S /\ \A y \in S : y <= n - 1 /\ y \in Int
  OBVIOUS
<1> HIDE DEF S
<1>2. \A x \in S : (\A y \in S : x >= y) => x = n - 1
  BY <1>1
<1>3. \E x \in S : \A y \in S : x >= y
  BY <1>1
<1>4. Max(S) \in S /\ \A y \in S : Max(S) >= y
  BY <1>3 DEF Max
<1> QED
  BY <1>2, <1>4 DEF S

\* The lowest height of a run that is not empty.
LEMMA LowHeight ==
  ASSUME NEW n \in Nat, NEW m \in Nat \ {0}
  PROVE  Min(n .. n + m - 1) = n
<1> DEFINE S == n .. n + m - 1
<1>1. n \in S /\ \A y \in S : n <= y /\ y \in Int
  OBVIOUS
<1> HIDE DEF S
<1>2. Min(S) \in S /\ \A y \in S : Min(S) <= y
  BY <1>1 DEF Min
<1> QED
  BY <1>1, <1>2 DEF S

\* A run that continues another makes one run with it.
LEMMA RunsJoin ==
  ASSUME NEW S, NEW n \in Nat, Run(S, n), NEW E, Run(E, n + Cardinality(S))
  PROVE  Run(S \cup E, n) /\ Cardinality(S \cup E) = Cardinality(S) + Cardinality(E)
<1> DEFINE k == Cardinality(S)
           m == Cardinality(E)
<1>1. /\ IsFiniteSet(S) /\ IsFiniteSet(E) /\ k \in Nat /\ m \in Nat
      /\ Heights(S) = n .. n + k - 1 /\ Heights(E) = n + k .. n + k + m - 1
  BY DEF Run
<1> HIDE DEF k, m
<1>2. S \cap E = {}
  <2>1. \A e \in S : e.height \in n .. n + k - 1
    BY <1>1 DEF Heights
  <2>2. \A e \in E : e.height \in n + k .. n + k + m - 1
    BY <1>1 DEF Heights
  <2>3. \A h \in n .. n + k - 1 : h \notin n + k .. n + k + m - 1
    BY <1>1
  <2> QED
    BY <2>1, <2>2, <2>3
<1>3. IsFiniteSet(S \cup E) /\ Cardinality(S \cup E) = k + m
  <2>1. /\ IsFiniteSet(S \cup E)
        /\ Cardinality(S \cup E) = Cardinality(S) + Cardinality(E) - Cardinality(S \cap E)
    BY <1>1, FS_Union
  <2>2. Cardinality({}) = 0
    BY FS_EmptySet
  <2> QED
    <3>1. Cardinality(S \cap E) = 0
      BY <1>2, <2>2
    <3>2. k = Cardinality(S) /\ m = Cardinality(E)
      BY DEF k, m
    <3> QED
      BY <1>1, <2>1, <3>1, <3>2
<1>4. Heights(S \cup E) = n .. n + (k + m) - 1
  <2>1. Heights(S \cup E) = Heights(S) \cup Heights(E)
    BY DEF Heights
  <2>2. n .. n + k - 1 \cup (n + k .. n + k + m - 1) = n .. n + (k + m) - 1
    BY <1>1
  <2> QED
    BY <1>1, <2>1, <2>2
<1> QED
  BY <1>1, <1>3, <1>4 DEF Run, k, m

\* One entry is a run, and nothing is one.
LEMMA RunsOfOne ==
  ASSUME NEW n \in Nat
  PROVE  /\ Run({}, n) /\ Cardinality({}) = 0
         /\ \A e : e.height = n => Run({e}, n) /\ Cardinality({e}) = 1
<1>1. Run({}, n)
  <2>1. Heights({}) = {} /\ n .. n + 0 - 1 = {}
    BY DEF Heights
  <2>2. IsFiniteSet({}) /\ Cardinality({}) = 0
    BY FS_EmptySet
  <2>3. Heights({}) = n .. n + Cardinality({}) - 1
    BY <2>1, <2>2
  <2>4. Cardinality({}) \in Nat
    BY <2>2
  <2> QED
    BY <2>2, <2>3, <2>4, Zenon DEF Run
<1>2. ASSUME NEW e, e.height = n PROVE Run({e}, n) /\ Cardinality({e}) = 1
  <2>1. Heights({e}) = {n} /\ n .. n + 1 - 1 = {n}
    BY <1>2 DEF Heights
  <2>2. IsFiniteSet({e}) /\ Cardinality({e}) = 1
    BY FS_Singleton
  <2>3. n .. n + Cardinality({e}) - 1 = {n} /\ Cardinality({e}) \in Nat
    BY <2>2
  <2> QED
    BY <2>1, <2>2, <2>3, Zenon DEF Run
<1> QED
  BY <1>1, <1>2, FS_EmptySet

\* What a transaction appended continues the chain, and a tail it read is that
\* of the chain at some time, or its own.
Continues(t, ins) ==
  /\ Run(t.entries, Cardinality(chain))
  /\ ins /\ t.entries = {} => t.tail \in -1 .. Cardinality(chain) - 1
  /\ ins /\ t.entries # {} => t.tail = Cardinality(chain) + Cardinality(t.entries) - 1

Linear ==
  /\ Run(chain, 0)
  /\ \A w \in Workers : Continues(tx[w], worker[w].pc = "insert")
  /\ Continues(tx[Purger], purge = "insert")
  /\ \A v, w \in Workers : v # w => tx[v].entries = {} \/ tx[w].entries = {}

\* The tail a statement reads.
LEMMA TailRead ==
  ASSUME Linear, NEW x \in Transactions
  PROVE  /\ ReadTail(x) = Cardinality(chain) + Cardinality(tx[x].entries) - 1
         /\ Cardinality(chain) \in Nat /\ Cardinality(tx[x].entries) \in Nat
<1> DEFINE n == Cardinality(chain)
           m == Cardinality(tx[x].entries)
           U == chain \cup tx[x].entries
<1>1. Run(chain, 0) /\ Run(tx[x].entries, n) /\ n \in Nat /\ m \in Nat
  BY DEF Linear, Continues, Transactions, Run
<1>2. Run(U, 0) /\ Cardinality(U) = n + m
  <2>1. Run(tx[x].entries, 0 + n)
    BY <1>1
  <2> QED
    BY <1>1, <2>1, RunsJoin
<1>3. {e.height : e \in U} = 0 .. (n + m) - 1
  <2>1. Heights(U) = 0 .. 0 + Cardinality(U) - 1
    BY <1>2 DEF Run
  <2>2. 0 + Cardinality(U) - 1 = (n + m) - 1
    <3> HIDE DEF n, m, U
    <3> QED
      BY <1>1, <1>2
  <2> QED
    BY <2>1, <2>2 DEF Heights
<1>4. ReadTail(x) = Max({-1} \cup 0 .. (n + m) - 1)
  BY <1>3 DEF ReadTail, EmptyTail
<1>5. n + m \in Nat
  BY <1>1
<1> HIDE DEF n, m
<1>6. ReadTail(x) = (n + m) - 1
  BY <1>4, <1>5, TopHeight
<1> QED
  BY <1>1, <1>6 DEF n, m

\* A height that is neither taken nor held is the next one, and nobody else has
\* appended anything.
LEMMA HeightIsNext ==
  ASSUME Linear, Shape, NEW x \in Transactions,
         Continues(tx[x], TRUE), ~HeightTaken(x), ~HeightHeld(x)
  PROVE  /\ NextHeight(x) = Cardinality(chain) + Cardinality(tx[x].entries)
         /\ \A y \in Transactions \ {x} : tx[y].entries = {}
<1> DEFINE n == Cardinality(chain)
           m == Cardinality(tx[x].entries)
<1>1. n \in Nat /\ m \in Nat /\ Heights(chain) = 0 .. n - 1
  BY DEF Linear, Continues, Run
<1>2. NextHeight(x) \notin 0 .. n - 1
  BY <1>1 DEF HeightTaken, Heights
<1>3. NextHeight(x) = n + m
  <2>1. CASE tx[x].entries = {}
    <3>1. tx[x].tail \in -1 .. n - 1 /\ m = 0
      BY <2>1, FS_EmptySet DEF Continues
    <3> HIDE DEF n, m
    <3> QED
      BY <1>1, <1>2, <3>1 DEF NextHeight
  <2>2. CASE tx[x].entries # {}
    <3>1. tx[x].tail = n + m - 1
      BY <2>2 DEF Continues
    <3> HIDE DEF n, m
    <3> QED
      BY <1>1, <3>1 DEF NextHeight
  <2> QED
    BY <2>1, <2>2
<1>4. ASSUME NEW y \in Transactions \ {x}, tx[y].entries # {} PROVE FALSE
  <2> DEFINE k == Cardinality(tx[y].entries)
  <2>1. y # Purger /\ y \in Workers
    BY <1>4 DEF Shape, PurgerOK, Transactions
  <2>2. /\ IsFiniteSet(tx[y].entries) /\ k \in Nat
        /\ Heights(tx[y].entries) = n .. n + k - 1
    BY <2>1 DEF Linear, Continues, Run
  <2>3. tx[x].entries = {}
    BY <1>4, <2>1 DEF Linear, Shape, PurgerOK, Transactions
  <2>4. m = 0
    BY <2>3, FS_EmptySet
  <2>5. k # 0
    BY <1>4, <2>2, FS_EmptySet
  <2>6. n \in Heights(tx[y].entries)
    <3> HIDE DEF n, k
    <3> QED
      BY <1>1, <2>2, <2>5
  <2>7. NextHeight(x) = n
    <3> HIDE DEF n, m
    <3> QED
      BY <1>1, <1>3, <2>4
  <2> QED
    BY <1>4, <2>6, <2>7 DEF HeightHeld, Heights
<1> QED
  BY <1>3, <1>4
\* Publishing what one transaction appended, nobody else having appended
\* anything: the chain stays linear.
LEMMA Published ==
  ASSUME Linear, Shape, NEW x \in Transactions, NEW E,
         Run(E, Cardinality(chain)),
         E = {} \/ (\A y \in Transactions \ {x} : tx[y].entries = {}),
         chain' = chain \cup E,
         tx'[x].entries = {},
         x = Purger => purge' # "insert",
         x # Purger => worker'[x].pc # "insert",
         \A y \in Workers \ {x} : tx'[y] = tx[y] /\ worker'[y] = worker[y],
         x # Purger => tx'[Purger] = tx[Purger] /\ purge' = purge
  PROVE  Linear'
<1> DEFINE n == Cardinality(chain)
           p == Cardinality(chain')
<1>1. Run(chain', 0) /\ n \in Nat /\ p \in Nat /\ n <= p /\ (E = {} => p = n)
  <2>1. Run(chain, 0) /\ Run(E, 0 + n) /\ n \in Nat /\ Cardinality(E) \in Nat
    BY DEF Linear, Run
  <2>2. Run(chain', 0) /\ p = n + Cardinality(E)
    BY <2>1, RunsJoin
  <2>3. E = {} => Cardinality(E) = 0
    BY FS_EmptySet
  <2> HIDE DEF n, p
  <2> QED
    BY <2>1, <2>2, <2>3
<1>2. ASSUME NEW y \in Transactions, y # x, NEW ins, Continues(tx[y], ins), tx'[y] = tx[y]
      PROVE  Continues(tx[y], ins)'
  <2>1. CASE E = {}
    BY <1>1, <1>2, <2>1 DEF Continues
  <2>2. CASE E # {}
    <3>1. tx[y].entries = {}
      BY <1>2, <2>2
    <3>2. Run({}, p)
      BY <1>1, RunsOfOne
    <3>3. ins => tx[y].tail \in -1 .. p - 1
      <4>1. ins => tx[y].tail \in -1 .. n - 1
        BY <1>2, <3>1 DEF Continues
      <4> HIDE DEF n, p
      <4> QED
        BY <1>1, <4>1
    <3> QED
      BY <1>2, <3>1, <3>2, <3>3 DEF Continues
  <2> QED
    BY <2>1, <2>2
<1>3. Continues(tx[x], FALSE)'
  <2>1. Run({}, p)
    BY <1>1, RunsOfOne
  <2> QED
    BY <2>1 DEF Continues
<1>4. ASSUME NEW y \in Workers PROVE Continues(tx[y], worker[y].pc = "insert")'
  <2>1. CASE y = x
    BY <1>3, <2>1, TaskStoreAssumption DEF Continues
  <2>2. CASE y # x
    <3>1. Continues(tx[y], worker[y].pc = "insert") /\ y \in Transactions
      BY DEF Linear, Transactions
    <3> QED
      BY <1>2, <2>2, <3>1 DEF Continues
  <2> QED
    BY <2>1, <2>2
<1>5. Continues(tx[Purger], purge = "insert")'
  <2>1. CASE Purger = x
    BY <1>3, <2>1 DEF Continues
  <2>2. CASE Purger # x
    <3>1. Continues(tx[Purger], purge = "insert") /\ Purger \in Transactions
      BY DEF Linear, Transactions
    <3> QED
      BY <1>2, <2>2, <3>1 DEF Continues
  <2> QED
    BY <2>1, <2>2
<1>6. \A v, w \in Workers : v # w => tx'[v].entries = {} \/ tx'[w].entries = {}
  BY DEF Linear
<1> QED
  BY <1>1, <1>4, <1>5, <1>6 DEF Linear

\* One caller moves and the chain does not.
LEMMA StaysLinear ==
  ASSUME Linear, NEW w \in Workers, Others(w), chain' = chain,
         tx'[Purger] = tx[Purger], purge' = purge,
         Continues(tx'[w], worker'[w].pc = "insert"),
         \/ tx'[w].entries = {}
         \/ tx[w].entries # {}
         \/ \A y \in Workers \ {w} : tx[y].entries = {}
  PROVE  Linear'
<1>1. \A y \in Workers : Continues(tx'[y], worker'[y].pc = "insert")
  BY DEF Linear, Others
<1>2. \A t, ins : Continues(t, ins)' = Continues(t, ins)
  BY DEF Continues, Run
<1>3. \A u, v \in Workers : u # v => tx'[u].entries = {} \/ tx'[v].entries = {}
  BY DEF Linear, Others
<1> QED
  BY <1>1, <1>3 DEF Linear, Continues, Run, Heights

\* The steps of a caller, by what they do to the entries.
LEMMA EntriesMove ==
  ASSUME Shape, NEW w \in Workers, Step(w)
  PROVE  \/ /\ worker'[w].pc # "insert" /\ chain' = chain
            /\ tx'[w].entries \in {tx[w].entries, {}}
         \/ FindTail(w)
         \/ InsertEvent(w)
         \/ Commit(w)
         \/ AttestAbandonment(w)
<1> DEFINE c == worker[w]
<1>1. CallersOK(worker, tx) /\ CallerOK(c, tx[w]) /\ TxOK(tx[w])
  BY DEF Shape, CallersOK, CallerOK
<1>2. NoTx.entries = {} /\ Idle.pc = "idle"
  BY DEF NoTx, Idle
<1>3. Commit(w) \/ AttestAbandonment(w) \/ chain' = chain
  BY StepWrites
<1>4. CASE TaskNotFound(w) \/ ResultPurged(w) \/ GiveUpAbandonment(w)
  <2>1. worker'[w] = Idle /\ tx'[w] = NoTx
    BY <1>1, <1>4, StepFields DEF TaskNotFound, ResultPurged, GiveUpAbandonment
  <2> QED
    BY <1>2, <1>3, <2>1
<1>5. CASE LockTask(w) \/ LockCredits(w)
  BY <1>1, <1>3, <1>5, StepFields DEF Locking
<1>6. CASE Enter(w) \/ Loop(w)
  BY <1>3, <1>6, DriveSteps DEF DriveFields
<1>7. CASE KeepTrace(w)
  BY <1>1, <1>3, <1>7, StepFields, TraceIsKept DEF Keeping
<1>8. CASE TracesKept(w)
  BY <1>1, <1>3, <1>8, StepFields DEF Keeping, AfterEvent
<1>9. CASE PutContent(w)
  <2>1. tx'[w] = PutIn(tx[w], Writing(w).content) /\ worker'[w].pc = "tail"
    BY <1>1, <1>9, StepFields DEF Writes
  <2> QED
    BY <1>1, <1>3, <2>1, PutInKeeps
<1>10. CASE SkipEvent(w)
  BY <1>1, <1>3, <1>10, StepFields DEF Writes
<1>11. CASE LoseHeight(w) \/ RetryAbandonment(w)
  BY <1>1, <1>2, <1>3, <1>11, StepFields DEF Losing
<1> QED
  BY <1>3, <1>4, <1>5, <1>6, <1>7, <1>8, <1>9, <1>10, <1>11 DEF Step
LEMMA LinearStep ==
  ASSUME Shape, Linear, NEW w \in Workers, Step(w), Others(w),
         tx'[Purger] = tx[Purger], purge' = purge
  PROVE  Linear'
<1> DEFINE c == worker[w]
           n == Cardinality(chain)
           m == Cardinality(tx[w].entries)
<1>1. CallersOK(worker, tx) /\ CallerOK(c, tx[w]) /\ TxOK(tx[w]) /\ w \in Transactions
      /\ w # Purger
  BY TaskStoreAssumption DEF Shape, CallersOK, CallerOK, Transactions
<1>2. /\ Continues(tx[w], c.pc = "insert") /\ Run(tx[w].entries, n)
      /\ n \in Nat /\ m \in Nat
  BY DEF Linear, Continues, Run
<1>3. CASE /\ worker'[w].pc # "insert" /\ chain' = chain
           /\ tx'[w].entries \in {tx[w].entries, {}}
  <2>1. Run({}, n)
    BY <1>2, RunsOfOne
  <2>2. Continues(tx'[w], worker'[w].pc = "insert")
    BY <1>2, <1>3, <2>1 DEF Continues
  <2> QED
    BY <1>3, <2>2, StaysLinear
<1>4. CASE FindTail(w)
  <2>1. tx'[w] = [tx[w] EXCEPT !.tail = ReadTail(w)] /\ chain' = chain
    BY <1>1, <1>4, StepFields DEF Writes, FindTail, database
  <2>2. tx'[w].entries = tx[w].entries /\ tx'[w].tail = n + m - 1
    BY <1>1, <2>1, TailRead DEF TxOK
  <2>3. tx[w].entries = {} => m = 0
    BY FS_EmptySet
  <2>4. n + m - 1 \in -1 .. n - 1 \/ m # 0
    <3> HIDE DEF n, m
    <3> QED
      BY <1>2
  <2>5. Continues(tx'[w], worker'[w].pc = "insert")
    <3> HIDE DEF n
    <3> QED
      BY <1>2, <2>2, <2>3, <2>4 DEF Continues, n
  <2> QED
    BY <2>1, <2>2, <2>5, StaysLinear
<1>5. CASE InsertEvent(w)
  <2> DEFINE e == Entry(w, Writing(w))
             E == tx[w].entries \cup {e}
  <2>1. /\ tx'[w] = InsertIn(tx[w], e) /\ chain' = chain /\ c.pc = "insert"
        /\ worker'[w].pc # "insert" /\ ~HeightTaken(w) /\ ~HeightHeld(w)
    BY <1>1, <1>5, StepFields DEF Writes, InsertEvent, database
  <2>2. Continues(tx[w], TRUE)
    BY <1>2, <2>1 DEF Continues
  <2>3. /\ NextHeight(w) = n + m
        /\ \A y \in Transactions \ {w} : tx[y].entries = {}
    BY <1>1, <2>1, <2>2, HeightIsNext
  <2>4. e.height = n + m
    BY <2>3 DEF Entry
  <2>5. tx'[w].entries = E
    BY <1>1, <2>1, InsertInKeeps
  <2>6. Run(E, n)
    <3> HIDE DEF e
    <3>1. Run({e}, n + m)
      BY <1>2, <2>4, RunsOfOne
    <3> QED
      BY <1>2, <3>1, RunsJoin
  <2>7. Continues(tx'[w], worker'[w].pc = "insert")
    <3> HIDE DEF E
    <3> QED
      BY <2>1, <2>5, <2>6 DEF Continues
  <2> QED
    BY <2>1, <2>3, <2>7, StaysLinear DEF Transactions
<1>6. CASE Commit(w)
  <2>1. worker'[w] = Idle /\ tx'[w] = NoTx /\ chain' = chain \cup tx[w].entries
    BY <1>1, <1>6, StepFields DEF Losing, Commit, Publish
  <2>2. NoTx.entries = {} /\ Idle.pc # "insert"
    BY DEF NoTx, Idle
  <2>3. tx[w].entries = {} \/ (\A y \in Transactions \ {w} : tx[y].entries = {})
    BY DEF Linear, Transactions, Shape, PurgerOK
  <2>4. \A y \in Workers \ {w} : tx'[y] = tx[y] /\ worker'[y] = worker[y]
    BY DEF Others
  <2> QED
    BY <1>1, <1>2, <2>1, <2>2, <2>3, <2>4, Published
<1>7. CASE AttestAbandonment(w)
  <2> DEFINE e == Entry(w, Writing(w))
  <2>1. /\ c.pc = "insert" /\ worker'[w].pc # "insert" /\ tx'[w] = NoTx
        /\ c.phase = "abandonment" /\ ~HeightTaken(w) /\ ~HeightHeld(w)
        /\ chain' = chain \cup InsertIn(tx[w], e).entries
    <3>1. Idle.pc # "insert"
      BY DEF Idle
    <3> QED
      BY <1>1, <1>7, <3>1, StepFields DEF Losing, AttestAbandonment, Publish
  <2>2. tx[w].entries = {} /\ NoTx.entries = {}
    BY <1>1, <2>1 DEF CallerOK, NoTx
  <2>3. Continues(tx[w], TRUE)
    BY <1>2, <2>1 DEF Continues
  <2>4. /\ NextHeight(w) = n + m
        /\ \A y \in Transactions \ {w} : tx[y].entries = {}
    BY <1>1, <2>1, <2>3, HeightIsNext
  <2>5. m = 0
    BY <2>2, FS_EmptySet
  <2>6. e.height = n
    <3> HIDE DEF n, m
    <3> QED
      BY <1>2, <2>4, <2>5 DEF Entry
  <2>7. chain' = chain \cup {e}
    BY <1>1, <2>1, <2>2, InsertInKeeps
  <2>8. Run({e}, n)
    <3> HIDE DEF e
    <3> QED
      BY <1>2, <2>6, RunsOfOne
  <2>9. \A y \in Workers \ {w} : tx'[y] = tx[y] /\ worker'[y] = worker[y]
    BY DEF Others
  <2> HIDE DEF e
  <2> QED
    BY <1>1, <2>1, <2>2, <2>4, <2>7, <2>8, <2>9, Published
<1> QED
  BY <1>3, <1>4, <1>5, <1>6, <1>7, EntriesMove

LEMMA LinearPurge ==
  ASSUME Shape, Shape', Linear, Aside, DeleteContent \/ Purging \/ CrashPurge \/ AbortPurge
  PROVE  Linear'
<1> DEFINE n == Cardinality(chain)
<1>1. TxOK(tx[Purger]) /\ tx[Purger].entries = {} /\ tx'[Purger].entries = {}
      /\ Purger \in Transactions /\ Purger \notin Workers /\ DOMAIN tx = Transactions
  BY TaskStoreAssumption DEF Shape, PurgerOK, Transactions, CallersOK
<1>2. Run({}, n) /\ n \in Nat
  BY RunsOfOne DEF Linear, Run
<1>3. \A y \in Workers \ {Purger} : tx'[y] = tx[y] /\ worker'[y] = worker[y]
  BY DEF Aside
<1>4. ASSUME chain' = chain, purge' = "insert" => tx'[Purger].tail = n - 1
      PROVE  Linear'
  <2>1. purge' = "insert" => tx'[Purger].tail \in -1 .. n - 1
    <3> HIDE DEF n
    <3> QED
      BY <1>2, <1>4
  <2>2. Continues(tx'[Purger], purge' = "insert")
    BY <1>1, <1>2, <2>1 DEF Continues
  <2>3. \A y \in Workers : Continues(tx'[y], worker'[y].pc = "insert")
    BY DEF Linear, Aside
  <2>4. \A t, ins : Continues(t, ins)' = Continues(t, ins)
    BY <1>4 DEF Continues, Run
  <2>5. \A u, v \in Workers : u # v => tx'[u].entries = {} \/ tx'[v].entries = {}
    BY DEF Linear, Aside
  <2> QED
    BY <1>4, <2>2, <2>3, <2>5 DEF Linear, Continues, Run, Heights
<1>5. CASE DeleteContent \/ LosePurge \/ CrashPurge \/ AbortPurge
  <2>1. chain' = chain /\ purge' # "insert"
    BY <1>5 DEF DeleteContent, LosePurge, CrashPurge, AbortPurge, database
  <2> QED
    BY <1>4, <2>1
<1>6. CASE PurgeFindTail
  <2>1. chain' = chain /\ tx' = [tx EXCEPT ![Purger].tail = ReadTail(Purger)]
    BY <1>6 DEF PurgeFindTail, database
  <2>2. tx'[Purger].tail = ReadTail(Purger)
    BY <1>1, <2>1 DEF TxOK
  <2>3. ReadTail(Purger) = n + 0 - 1
    BY <1>1, TailRead, FS_EmptySet
  <2>4. n + 0 - 1 = n - 1
    BY <1>2
  <2> QED
    BY <1>4, <2>1, <2>2, <2>3, <2>4
<1>7. CASE AttestPurge
  <2> DEFINE e == Entry(Purger, PurgeAttestation)
  <2>1. /\ purge = "insert" /\ purge' # "insert" /\ ~HeightTaken(Purger) /\ ~HeightHeld(Purger)
        /\ chain' = chain \cup InsertIn(tx[Purger], e).entries
    BY <1>7 DEF AttestPurge, Publish
  <2>2. Continues(tx[Purger], TRUE)
    BY <2>1 DEF Linear, Continues
  <2>3. /\ NextHeight(Purger) = n + Cardinality(tx[Purger].entries)
        /\ \A y \in Transactions \ {Purger} : tx[y].entries = {}
    BY <1>1, <2>1, <2>2, HeightIsNext
  <2>4. e.height = n
    <3>1. Cardinality(tx[Purger].entries) = 0
      BY <1>1, FS_EmptySet
    <3> HIDE DEF n
    <3> QED
      BY <1>2, <2>3, <3>1 DEF Entry
  <2>5. chain' = chain \cup {e}
    BY <1>1, <2>1, InsertInKeeps
  <2>6. Run({e}, n)
    <3> HIDE DEF e
    <3> QED
      BY <1>2, <2>4, RunsOfOne
  <2> HIDE DEF e
  <2> QED
    BY <1>1, <1>3, <2>1, <2>3, <2>5, <2>6, Published
<1> QED
  BY <1>5, <1>6, <1>7 DEF Purging

LEMMA LinearNext == Shape /\ Shape' /\ Linear /\ [Next]_vars => Linear'
<1> SUFFICES ASSUME Shape, Shape', Linear, [Next]_vars PROVE Linear'
  OBVIOUS
<1>1. ASSUME UNCHANGED <<tx, worker, chain, purge>> PROVE Linear'
  BY <1>1 DEF Linear, Continues, Run, Heights
<1>2. CASE UNCHANGED vars
  BY <1>1, <1>2 DEF vars, database
<1>3. CASE Aside /\ (\E t \in Tasks : CreateTask(t) \/ RestoreTask(t))
  BY <1>1, <1>3 DEF CreateTask, RestoreTask
<1>4. CASE Aside /\ (DeleteContent \/ Purging \/ CrashPurge \/ AbortPurge)
  BY <1>4, LinearPurge
<1>5. ASSUME NEW w \in Workers, Others(w), tx'[Purger] = tx[Purger], purge' = purge,
             Quits(w) \/ Called(w)
      PROVE  Linear'
  <2>1. chain' = chain
    BY <1>5 DEF Quits, Called, Leave, database
  <2>2. worker'[w].pc # "insert" /\ tx'[w].entries \in {tx[w].entries, {}}
    <3>1. NoTx.entries = {} /\ Idle.pc = "idle"
      BY DEF NoTx, Idle
    <3>2. Quits(w) => worker'[w] = Idle /\ tx'[w] = NoTx
      BY StepFields DEF Quits, Shape
    <3> QED
      BY <1>5, <3>1, <3>2 DEF Called
  <2>3. Run({}, Cardinality(chain))
    BY RunsOfOne DEF Linear, Run
  <2>4. Continues(tx'[w], worker'[w].pc = "insert")
    BY <2>2, <2>3 DEF Linear, Continues
  <2> QED
    BY <1>5, <2>1, <2>2, <2>4, StaysLinear
<1>6. ASSUME NEW w \in Workers, Others(w), tx'[Purger] = tx[Purger], purge' = purge, Step(w)
      PROVE  Linear'
  BY <1>6, LinearStep
<1> QED
  BY <1>2, <1>3, <1>4, <1>5, <1>6, WhoMoves

LEMMA LinearInit == Init => Linear
<1> SUFFICES ASSUME Init PROVE Linear
  OBVIOUS
<1>1. /\ chain = {} /\ purge = "idle"
      /\ \A x \in Transactions : tx[x] = NoTx
      /\ \A w \in Workers : worker[w] = Idle
  BY DEF Init
<1>2. NoTx.entries = {} /\ Idle.pc = "idle" /\ Workers \subseteq Transactions
      /\ Purger \in Transactions
  BY DEF NoTx, Idle, Transactions
<1>3. Run({}, 0) /\ Cardinality({}) = 0
  BY RunsOfOne
<1> QED
  BY <1>1, <1>2, <1>3 DEF Linear, Continues

LEMMA StaysLinearForever == Spec => [](Shape /\ Linear)
BY ShapeInit, ShapeNext, LinearInit, LinearNext, PTL DEF Spec

\* Whoever appends, in whatever order: the heights of the chain are those from
\* 0 on, each once, and what an open transaction appended has consecutive
\* heights.
THEOREM ChainNeverForks == Spec => []ChainIsLinear
<1>1. ASSUME Linear PROVE ChainIsLinear
  <2>1. {e.height : e \in chain} = 0 .. Cardinality(chain) - 1 /\ Cardinality(chain) \in Nat
    <3>1. Heights(chain) = 0 .. 0 + Cardinality(chain) - 1 /\ Cardinality(chain) \in Nat
      BY <1>1 DEF Linear, Run
    <3>2. 0 + Cardinality(chain) - 1 = Cardinality(chain) - 1
      BY <3>1
    <3> QED
      BY <3>1, <3>2 DEF Heights
  <2>2. ASSUME NEW w \in Workers, tx[w].entries # {}
        PROVE  LET h == {e.height : e \in tx[w].entries}
               IN  h = Min(h) .. Min(h) + Cardinality(tx[w].entries) - 1
    <3> DEFINE n == Cardinality(chain)
               m == Cardinality(tx[w].entries)
               h == {e.height : e \in tx[w].entries}
    <3>1. h = n .. n + m - 1 /\ m \in Nat /\ IsFiniteSet(tx[w].entries)
      BY <1>1 DEF Linear, Continues, Run, Heights
    <3>2. m # 0
      BY <2>2, <3>1, FS_EmptySet
    <3>3. Min(h) = n
      <4> HIDE DEF n, m, h
      <4>1. n \in Nat
        BY <2>1 DEF n
      <4> QED
        BY <3>1, <3>2, <4>1, LowHeight
    <3> HIDE DEF n, m, h
    <3>4. h = Min(h) .. Min(h) + m - 1
      BY <3>1, <3>3
    <3> QED
      BY <3>4 DEF h, m
  <2> QED
    BY <2>1, <2>2 DEF ChainIsLinear
<1> QED
  BY <1>1, StaysLinearForever, PTL
-----------------------------------------------------------------------------
(***************************************************************************)
(* The originals of what is attested                                       *)
(***************************************************************************)
Unpurged == \A e \in chain : e.action # "content_purged"

\* What the transaction of a caller will publish has its content, in the table
\* or beside it.
Backed(w) ==
  /\ \A e \in tx[w].entries : e.content \in content \cup tx[w].puts
  /\ \A e \in tx[w].traces : ResultContent(e.tool) \in content \cup tx[w].puts
  /\ worker[w].pc \in {"tail", "insert"} => Writing(w).content \in content \cup tx[w].puts

Present ==
  Unpurged =>
    /\ \A e \in chain : e.content \in content
    /\ \A e \in effects : ResultContent(e.tool) \in content
    /\ \A w \in Workers : Backed(w)

\* What is written depends on the caller alone.
LEMMA WritingStays ==
  ASSUME NEW w, Same(worker[w], worker'[w]),
         worker'[w].state = worker[w].state, worker'[w].next = worker[w].next
  PROVE  Writing(w)' = Writing(w)
BY DEF Same, Writing

LEMMA StepBacks ==
  ASSUME Shape, NEW w \in Workers, Step(w), Backed(w), ~Commit(w), ~AttestAbandonment(w)
  PROVE  content' = content /\ Backed(w)'
<1>1. CallersOK(worker, tx) /\ CallerOK(worker[w], tx[w]) /\ TxOK(tx[w]) /\ tx[w].deleted = {}
  BY DEF Shape, CallersOK, CallerOK
<1>2. content' = content
  BY StepWrites
<1>3. Idle.pc = "idle" /\ NoTx.entries = {} /\ NoTx.traces = {}
  BY DEF Idle, NoTx
<1>4. ASSUME tx'[w] = NoTx, worker'[w].pc \notin {"tail", "insert"} PROVE Backed(w)'
  BY <1>3, <1>4 DEF Backed
<1>5. ASSUME tx'[w] = tx[w], worker'[w].pc \notin {"tail", "insert"} PROVE Backed(w)'
  BY <1>2, <1>5 DEF Backed
<1>6. CASE TaskNotFound(w) \/ ResultPurged(w) \/ GiveUpAbandonment(w)
  <2>1. worker'[w] = Idle /\ tx'[w] = NoTx
    BY <1>1, <1>6, StepFields DEF TaskNotFound, ResultPurged, GiveUpAbandonment
  <2> QED
    BY <1>2, <1>3, <1>4, <2>1
<1>7. CASE LockTask(w) \/ LockCredits(w)
  BY <1>1, <1>2, <1>5, <1>7, StepFields DEF Locking
<1>8. CASE Enter(w) \/ Loop(w)
  BY <1>2, <1>5, <1>8, DriveSteps DEF DriveFields
<1>9. CASE KeepTrace(w)
  <2>1. /\ tx'[w].entries = tx[w].entries
        /\ tx[w].puts \subseteq tx'[w].puts
        /\ \A e \in tx'[w].traces :
             e \in tx[w].traces \/ ResultContent(e.tool) \in content \cup tx'[w].puts
    <3> DEFINE p == Head(worker[w].performed)
               e == EffectOf(worker[w].task, p)
    <3>1. e.tool = p.tool
      BY DEF EffectOf
    <3>2. /\ tx'[w].traces = tx[w].traces \/ tx'[w].traces = tx[w].traces \cup {e}
          /\ tx'[w].entries = tx[w].entries
          /\ tx[w].puts \subseteq tx'[w].puts
          /\ ResultContent(p.tool) \in content \cup tx'[w].puts
      BY <1>1, <1>9, TraceIsKept
    <3> HIDE DEF e, p
    <3> QED
      BY <3>1, <3>2
  <2>2. worker'[w].pc = "effects"
    BY <1>1, <1>9, StepFields DEF Keeping
  <2> QED
    BY <1>2, <2>1, <2>2 DEF Backed
<1>10. CASE TracesKept(w)
  BY <1>1, <1>2, <1>5, <1>10, StepFields DEF Keeping, AfterEvent
<1>11. CASE PutContent(w)
  <2>1. /\ tx'[w] = PutIn(tx[w], Writing(w).content)
        /\ Writing(w)' = Writing(w)
    BY <1>1, <1>11, StepFields, WritingStays DEF Writes
  <2> DEFINE t == PutIn(tx[w], Writing(w).content)
  <2>2. /\ t.entries = tx[w].entries /\ t.traces = tx[w].traces
        /\ tx[w].puts \subseteq t.puts
        /\ Writing(w).content \in content \cup t.puts
    BY <1>1, PutInKeeps
  <2> HIDE DEF t
  <2>3. tx'[w] = t
    BY <2>1 DEF t
  <2> QED
    BY <1>2, <2>1, <2>2, <2>3 DEF Backed
<1>12. CASE FindTail(w)
  <2>1. /\ tx'[w] = [tx[w] EXCEPT !.tail = ReadTail(w)]
        /\ Writing(w)' = Writing(w) /\ worker[w].pc = "tail"
    BY <1>1, <1>12, StepFields, WritingStays DEF Writes
  <2>2. tx'[w].entries = tx[w].entries /\ tx'[w].traces = tx[w].traces
        /\ tx'[w].puts = tx[w].puts
    BY <1>1, <2>1 DEF TxOK
  <2> QED
    BY <1>2, <2>1, <2>2 DEF Backed
<1>13. CASE InsertEvent(w)
  <2> DEFINE e == Entry(w, Writing(w))
  <2>1. /\ tx'[w] = InsertIn(tx[w], e) /\ worker[w].pc = "insert"
        /\ worker'[w].pc \notin {"tail", "insert"}
    BY <1>1, <1>13, StepFields DEF Writes
  <2>2. e.content = Writing(w).content
    BY DEF Entry
  <2> HIDE DEF e
  <2>3. /\ tx'[w].entries = tx[w].entries \cup {e} /\ tx'[w].traces = tx[w].traces
        /\ tx'[w].puts = tx[w].puts
    BY <1>1, <2>1, InsertInKeeps
  <2> QED
    BY <1>2, <2>1, <2>2, <2>3 DEF Backed
<1>14. CASE SkipEvent(w)
  BY <1>1, <1>2, <1>5, <1>14, StepFields DEF Writes
<1>15. CASE LoseHeight(w) \/ RetryAbandonment(w)
  BY <1>1, <1>2, <1>4, <1>15, StepFields DEF Losing
<1> QED
  BY <1>6, <1>7, <1>8, <1>9, <1>10, <1>11, <1>12, <1>13, <1>14, <1>15 DEF Step

\* Callers that do not move lose no content as long as none is deleted.
LEMMA OthersBacked ==
  ASSUME NEW v \in Workers, Backed(v), worker'[v] = worker[v], tx'[v] = tx[v],
         content \subseteq content'
  PROVE  Backed(v)'
<1>1. Writing(v)' = Writing(v)
  BY DEF Writing
<1> QED
  BY <1>1 DEF Backed

LEMMA PresentNext == Shape /\ Present /\ [Next]_vars => Present'
<1> SUFFICES ASSUME Shape, Present, [Next]_vars, Unpurged'
             PROVE  /\ \A e \in chain' : e.content \in content'
                    /\ \A e \in effects' : ResultContent(e.tool) \in content'
                    /\ \A w \in Workers : Backed(w)'
  BY DEF Present
<1>1. chain \subseteq chain'
  BY ChainGrows
<1>2. /\ \A e \in chain : e.content \in content
      /\ \A e \in effects : ResultContent(e.tool) \in content
      /\ \A w \in Workers : Backed(w)
  BY <1>1 DEF Present, Unpurged
<1>3. ASSUME UNCHANGED <<chain, content, effects>>,
             \A w \in Workers : worker'[w] = worker[w] /\ tx'[w] = tx[w]
      PROVE  /\ \A e \in chain' : e.content \in content'
             /\ \A e \in effects' : ResultContent(e.tool) \in content'
             /\ \A w \in Workers : Backed(w)'
  BY <1>2, <1>3, OthersBacked
<1>4. CASE UNCHANGED vars
  BY <1>3, <1>4 DEF vars, database
<1>5. CASE Aside /\ (\E t \in Tasks : CreateTask(t) \/ RestoreTask(t))
  <2>1. UNCHANGED <<chain, content, effects>>
    BY <1>5 DEF CreateTask, RestoreTask
  <2> QED
    BY <1>3, <1>5, <2>1 DEF Aside
<1>6. CASE Aside /\ (DeleteContent \/ Purging \/ CrashPurge \/ AbortPurge)
  <2>1. ~AttestPurge
    <3>1. SUFFICES ASSUME AttestPurge PROVE FALSE
      OBVIOUS
    <3> DEFINE e == Entry(Purger, PurgeAttestation)
    <3>2. chain' = chain \cup InsertIn(tx[Purger], e).entries
      BY <3>1 DEF AttestPurge, Publish
    <3>3. e \in InsertIn(tx[Purger], e).entries
      BY InsertInKeeps DEF Shape, PurgerOK
    <3>4. e.action = "content_purged"
      BY DEF Entry, PurgeAttestation, Attestation
    <3> HIDE DEF e
    <3> QED
      BY <3>2, <3>3, <3>4 DEF Unpurged
  <2>2. UNCHANGED <<chain, content, effects>>
    BY <1>6, <2>1, PurgeWrites
  <2> QED
    BY <1>3, <1>6, <2>2 DEF Aside
<1>7. ASSUME NEW w \in Workers, Others(w), Quits(w) \/ Called(w)
      PROVE  /\ \A e \in chain' : e.content \in content'
             /\ \A e \in effects' : ResultContent(e.tool) \in content'
             /\ \A v \in Workers : Backed(v)'
  <2>1. UNCHANGED <<chain, content, effects>>
    BY <1>7 DEF Quits, Called, Leave, database
  <2>2. Backed(w)'
    <3>1. CASE Quits(w)
      <4>1. worker'[w] = Idle /\ tx'[w] = NoTx
        BY <3>1, StepFields DEF Quits, Shape
      <4>2. Idle.pc = "idle" /\ NoTx.entries = {} /\ NoTx.traces = {}
        BY DEF Idle, NoTx
      <4> QED
        BY <4>1, <4>2 DEF Backed
    <3>2. CASE Called(w)
      BY <1>2, <2>1, <3>2 DEF Called, Backed
    <3> QED
      BY <1>7, <3>1, <3>2
  <2>3. \A v \in Workers \ {w} : Backed(v)'
    BY <1>2, <1>7, <2>1, OthersBacked DEF Others
  <2> QED
    BY <1>2, <2>1, <2>2, <2>3
<1>8. ASSUME NEW w \in Workers, Others(w), Step(w)
      PROVE  /\ \A e \in chain' : e.content \in content'
             /\ \A e \in effects' : ResultContent(e.tool) \in content'
             /\ \A v \in Workers : Backed(v)'
  <2>1. CallersOK(worker, tx) /\ CallerOK(worker[w], tx[w]) /\ TxOK(tx[w]) /\ tx[w].deleted = {}
    BY DEF Shape, CallersOK, CallerOK
  <2>2. CASE ~Commit(w) /\ ~AttestAbandonment(w)
    <3>1. UNCHANGED <<chain, content, effects>>
      BY <1>8, <2>2, StepWrites
    <3>2. Backed(w)'
      BY <1>2, <1>8, <2>2, StepBacks
    <3>3. \A v \in Workers \ {w} : Backed(v)'
      BY <1>2, <1>8, <3>1, OthersBacked DEF Others
    <3> QED
      BY <1>2, <3>1, <3>2, <3>3
  <2>3. CASE Commit(w)
    <3>1. /\ chain' = chain \cup tx[w].entries
          /\ content' = content \cup tx[w].puts
          /\ effects' = effects \cup tx[w].traces
      BY <2>1, <2>3 DEF Commit, Publish
    <3>2. worker'[w] = Idle /\ tx'[w] = NoTx
      BY <2>1, <2>3, StepFields DEF Losing
    <3>3. Backed(w)'
      <4>1. Idle.pc = "idle" /\ NoTx.entries = {} /\ NoTx.traces = {}
        BY DEF Idle, NoTx
      <4> QED
        BY <3>2, <4>1 DEF Backed
    <3>4. \A v \in Workers \ {w} : Backed(v)'
      BY <1>2, <1>8, <3>1, OthersBacked DEF Others
    <3> QED
      BY <1>2, <3>1, <3>3, <3>4 DEF Backed
  <2>4. CASE AttestAbandonment(w)
    <3> DEFINE e == Entry(w, Writing(w))
               t == InsertIn(tx[w], e)
    <3>1. /\ chain' = chain \cup t.entries
          /\ content' = (content \ t.deleted) \cup t.puts
          /\ effects' = effects \cup t.traces
      BY <2>4 DEF AttestAbandonment, Publish
    <3>2. t.entries = tx[w].entries \cup {e} /\ t.puts = tx[w].puts
          /\ t.traces = tx[w].traces /\ t.deleted = {}
      BY <2>1, InsertInKeeps
    <3>3. e.content = Writing(w).content
      BY DEF Entry
    <3> HIDE DEF t, e
    <3>4. /\ worker[w].pc = "insert" /\ tx'[w] = NoTx
          /\ worker'[w].pc \in {"lock_task", "idle"}
      <4>1. Idle.pc = "idle"
        BY DEF Idle
      <4> QED
        BY <2>1, <2>4, <4>1, StepFields DEF Losing
    <3>5. Backed(w)'
      <4>1. NoTx.entries = {} /\ NoTx.traces = {}
        BY DEF NoTx
      <4> QED
        BY <3>4, <4>1 DEF Backed
    <3>6. \A v \in Workers \ {w} : Backed(v)'
      BY <1>2, <1>8, <3>1, <3>2, OthersBacked DEF Others
    <3> QED
      BY <1>2, <3>1, <3>2, <3>3, <3>4, <3>5, <3>6 DEF Backed
  <2> QED
    BY <2>2, <2>3, <2>4
<1> QED
  BY <1>4, <1>5, <1>6, <1>7, <1>8, WhoMoves

LEMMA PresentInit == Init => Present
<1> SUFFICES ASSUME Init PROVE Present
  OBVIOUS
<1>1. /\ chain = {} /\ effects = {}
      /\ \A w \in Workers : tx[w] = NoTx /\ worker[w] = Idle
  BY DEF Init, Transactions
<1>2. NoTx.entries = {} /\ NoTx.traces = {} /\ Idle.pc = "idle"
  BY DEF NoTx, Idle
<1> QED
  BY <1>1, <1>2 DEF Present, Backed

\* As long as nothing was purged, the original of every digest of the chain,
\* and the result of every effect that is remembered, are in the table of the
\* contents, whatever was lost on the way.
THEOREM OriginalsAreKept == Spec => []NothingIsMissingBeforeAPurge
<1>1. Present => NothingIsMissingBeforeAPurge
  BY DEF Present, Unpurged, NothingIsMissingBeforeAPurge
<1> QED
  BY <1>1, ShapeInit, ShapeNext, PresentInit, PresentNext, PTL DEF Spec

-----------------------------------------------------------------------------
(***************************************************************************)
(* Entries that list the events of a journal                               *)
(***************************************************************************)
Untag(e) == Attestation(e.actor, e.action, e.call, e.content)

\* x is the entry of each of the events m + 1 to n of the journal b of t, in
\* the order of the heights, and S the set of these entries.
Listing(x, S, t, b, m, n) ==
  /\ S = {x[k] : k \in m + 1 .. n}
  /\ \A k \in m + 1 .. n : x[k].height \in Nat /\ Untag(x[k]) = EventAttestation(t, b[k])
  /\ \A j, k \in m + 1 .. n : j < k => x[j].height < x[k].height

Lists(S, t, b, m, n) == \E x : Listing(x, S, t, b, m, n)

LEMMA ListsNothing ==
  ASSUME NEW m \in Nat, NEW t, NEW b
  PROVE  Lists({}, t, b, m, m)
<1>1. m + 1 .. m = {}
  OBVIOUS
<1>2. Listing(<<>>, {}, t, b, m, m)
  BY <1>1 DEF Listing
<1> QED
  BY <1>2 DEF Lists

LEMMA ListsOne ==
  ASSUME NEW n \in Nat, NEW t, NEW b, NEW e, e.height \in Nat,
         Untag(e) = EventAttestation(t, b[n + 1])
  PROVE  Lists({e}, t, b, n, n + 1)
<1> DEFINE x == [k \in {n + 1} |-> e]
<1>1. n + 1 .. n + 1 = {n + 1}
  OBVIOUS
<1>2. Listing(x, {e}, t, b, n, n + 1)
  BY <1>1 DEF Listing
<1> HIDE DEF x
<1> QED
  BY <1>2 DEF Lists

\* Two journals with the same events have the same listings.
LEMMA ListsSame ==
  ASSUME NEW S, NEW t, NEW a, NEW b, NEW m, NEW n, Lists(S, t, a, m, n),
         \A k \in m + 1 .. n : a[k] = b[k]
  PROVE  Lists(S, t, b, m, n)
<1>1. PICK x : Listing(x, S, t, a, m, n)
  BY DEF Lists
<1>2. Listing(x, S, t, b, m, n)
  BY <1>1 DEF Listing
<1> QED
  BY <1>2 DEF Lists

\* A listing that begins where another ends, and above it, continues it.
LEMMA ListsJoin ==
  ASSUME NEW S, NEW T, NEW t, NEW b, NEW m \in Nat, NEW n \in Nat, NEW p \in Nat,
         m <= n, n <= p, Lists(S, t, b, m, n), Lists(T, t, b, n, p),
         \A e \in S, f \in T : e.height < f.height
  PROVE  Lists(S \cup T, t, b, m, p)
<1>1. PICK x : Listing(x, S, t, b, m, n)
  BY DEF Lists
<1>2. PICK y : Listing(y, T, t, b, n, p)
  BY DEF Lists
<1> DEFINE z == [k \in m + 1 .. p |-> IF k <= n THEN x[k] ELSE y[k]]
<1>3. \A k \in m + 1 .. n : k \in m + 1 .. p /\ z[k] = x[k] /\ x[k] \in S
  BY <1>1 DEF Listing
<1>4. \A k \in n + 1 .. p : k \in m + 1 .. p /\ z[k] = y[k] /\ y[k] \in T
  BY <1>2 DEF Listing
<1>5. \A k \in m + 1 .. p : k \in m + 1 .. n \/ k \in n + 1 .. p
  OBVIOUS
<1> HIDE DEF z
<1>6. S \cup T = {z[k] : k \in m + 1 .. p}
  <2>1. \A e \in S : \E k \in m + 1 .. n : e = x[k]
    BY <1>1 DEF Listing
  <2>2. \A e \in T : \E k \in n + 1 .. p : e = y[k]
    BY <1>2 DEF Listing
  <2>3. ASSUME NEW e \in S \cup T PROVE e \in {z[k] : k \in m + 1 .. p}
    BY <1>3, <1>4, <2>1, <2>2
  <2>4. ASSUME NEW k \in m + 1 .. p PROVE z[k] \in S \cup T
    BY <1>3, <1>4, <1>5
  <2> QED
    BY <2>3, <2>4
<1>7. ASSUME NEW k \in m + 1 .. p
      PROVE  z[k].height \in Nat /\ Untag(z[k]) = EventAttestation(t, b[k])
  BY <1>1, <1>2, <1>3, <1>4, <1>5 DEF Listing
<1>8. ASSUME NEW j \in m + 1 .. p, NEW k \in m + 1 .. p, j < k
      PROVE  z[j].height < z[k].height
  <2>1. CASE j \in m + 1 .. n /\ k \in m + 1 .. n
    BY <1>1, <1>3, <1>8, <2>1 DEF Listing
  <2>2. CASE j \in n + 1 .. p /\ k \in n + 1 .. p
    BY <1>2, <1>4, <1>8, <2>2 DEF Listing
  <2>3. CASE j \in m + 1 .. n /\ k \in n + 1 .. p
    BY <1>3, <1>4, <2>3
  <2>4. ~(j \in n + 1 .. p /\ k \in m + 1 .. n)
    BY <1>8
  <2> QED
    BY <1>5, <2>1, <2>2, <2>3, <2>4
<1>9. Listing(z, S \cup T, t, b, m, p)
  BY <1>6, <1>7, <1>8 DEF Listing
<1> QED
  BY <1>9 DEF Lists

\* The entries below one of a listing are those of the events before its own.
LEMMA ListingRank ==
  ASSUME NEW x, NEW S, NEW t, NEW b, NEW n \in Nat, Listing(x, S, t, b, 0, n)
  PROVE  /\ Cardinality(S) = n
         /\ \A k \in 1 .. n : x[k] \in S /\ Rank(x[k], S) = k
<1>1. /\ S = {x[k] : k \in 1 .. n}
      /\ \A k \in 1 .. n : x[k].height \in Nat
      /\ \A j, k \in 1 .. n : j < k => x[j].height < x[k].height
  BY DEF Listing
<1>2. ASSUME NEW k \in 0 .. n PROVE Cardinality({x[j] : j \in 1 .. k}) = k
  <2> DEFINE T == {x[j] : j \in 1 .. k}
             f == [j \in 1 .. k |-> x[j]]
  <2>1. \A i, j \in 1 .. k : i \in 1 .. n /\ j \in 1 .. n /\ (i < j \/ j < i \/ i = j)
    OBVIOUS
  <2>2. \A i, j \in 1 .. k : f[i] = f[j] => i = j
    BY <1>1, <2>1
  <2>3. f \in Bijection(1 .. k, T)
    BY <2>2 DEF Bijection, Injection, Surjection, IsInjective
  <2>4. ExistsBijection(1 .. k, T)
    BY <2>3 DEF ExistsBijection
  <2> HIDE DEF T
  <2> QED
    BY <2>4, FS_CountingElements DEF T
<1>3. Cardinality(S) = n
  BY <1>1, <1>2
<1>4. ASSUME NEW k \in 1 .. n PROVE x[k] \in S /\ Rank(x[k], S) = k
  <2>1. {f \in S : f.height <= x[k].height} = {x[j] : j \in 1 .. k}
    <3>1. \A j \in 1 .. n : x[j].height <= x[k].height <=> j <= k
      <4>1. \A j \in 1 .. n : j < k \/ k < j \/ j = k
        OBVIOUS
      <4> QED
        BY <1>1, <4>1
    <3>2. \A j \in 1 .. n : j <= k <=> j \in 1 .. k
      OBVIOUS
    <3>3. \A j \in 1 .. k : j \in 1 .. n
      OBVIOUS
    <3>4. ASSUME NEW f \in S, f.height <= x[k].height PROVE f \in {x[j] : j \in 1 .. k}
      BY <1>1, <3>1, <3>2, <3>4
    <3>5. ASSUME NEW j \in 1 .. k PROVE x[j] \in S /\ x[j].height <= x[k].height
      BY <1>1, <3>1, <3>2, <3>3
    <3> QED
      BY <3>4, <3>5
  <2> QED
    BY <1>1, <1>2, <2>1 DEF Rank
<1> QED
  BY <1>3, <1>4

\* The entry of each rank is that of its event.
LEMMA ListsAreRanked ==
  ASSUME NEW S, NEW t, NEW b, NEW n \in Nat, Lists(S, t, b, 0, n)
  PROVE  /\ Cardinality(S) = n
         /\ \A k \in 1 .. n :
              Untag(CHOOSE e \in S : Rank(e, S) = k) = EventAttestation(t, b[k])
<1>1. PICK x : Listing(x, S, t, b, 0, n)
  BY DEF Lists
<1>2. Cardinality(S) = n /\ \A k \in 1 .. n : x[k] \in S /\ Rank(x[k], S) = k
  BY <1>1, ListingRank
<1>3. ASSUME NEW k \in 1 .. n PROVE (CHOOSE e \in S : Rank(e, S) = k) = x[k]
  <2>1. \A e \in S : \E j \in 1 .. n : e = x[j]
    BY <1>1 DEF Listing
  <2>2. \A e \in S : Rank(e, S) = k => e = x[k]
    BY <1>2, <2>1
  <2>3. x[k] \in S /\ Rank(x[k], S) = k
    BY <1>2
  <2> QED
    BY <2>2, <2>3
<1>4. \A k \in 1 .. n : Untag(x[k]) = EventAttestation(t, b[k])
  BY <1>1 DEF Listing
<1> QED
  BY <1>2, <1>3, <1>4

\* Each entry of a listing is that of an event.
LEMMA ListedIsEvent ==
  ASSUME NEW S, NEW t, NEW b, NEW m, NEW n, Lists(S, t, b, m, n), NEW e \in S
  PROVE  \E k \in m + 1 .. n : Untag(e) = EventAttestation(t, b[k])
BY DEF Lists, Listing
-----------------------------------------------------------------------------
(***************************************************************************)
(* The branches of drive only add to a journal                             *)
(***************************************************************************)
\* From t to u the journal is continued, and nothing moves that it does not
\* tell; a finished task does not move.
Grows(t, u) ==
  /\ Len(t.audit) <= Len(u.audit)
  /\ \A k \in 1 .. Len(t.audit) : u.audit[k] = t.audit[k]
  /\ Len(t.audit) = Len(u.audit) \/ t.status \in Terminal =>
       /\ Len(t.audit) = Len(u.audit)
       /\ u.status = t.status /\ u.budget.consumed = t.budget.consumed

LEMMA GrowsAgain ==
  ASSUME NEW s \in TaskStates, NEW t \in TaskStates, NEW u \in TaskStates,
         Grows(s, t), Grows(t, u)
  PROVE  Grows(s, u)
<1>1. Len(s.audit) \in Nat /\ Len(t.audit) \in Nat /\ Len(u.audit) \in Nat
  BY DEF TaskStates
<1>2. \A k \in 1 .. Len(s.audit) : k \in 1 .. Len(t.audit)
  BY <1>1 DEF Grows
<1>3. Len(s.audit) <= Len(u.audit) /\ \A k \in 1 .. Len(s.audit) : u.audit[k] = s.audit[k]
  BY <1>1, <1>2 DEF Grows
<1>4. Len(s.audit) = Len(u.audit) => Len(s.audit) = Len(t.audit) /\ Len(t.audit) = Len(u.audit)
  BY <1>1 DEF Grows
<1> QED
  BY <1>3, <1>4 DEF Grows

\* A branch that tells something is a growth.
LEMMA TellsGrows ==
  ASSUME NEW t \in TaskStates, NEW u, NEW e, NEW f, NEW g, t.status \notin Terminal,
         Tells(t, u, <<e>>) \/ Tells(t, u, <<e, f>>) \/ Tells(t, u, <<e, f, g>>)
  PROVE  Grows(t, u)
<1>1. Len(t.audit) \in Nat
  BY DEF TaskStates
<1>2. Len(u.audit) \in {Len(t.audit) + 1, Len(t.audit) + 2, Len(t.audit) + 3}
      /\ \A k \in 1 .. Len(t.audit) : u.audit[k] = t.audit[k]
  BY DEF Tells
<1> QED
  BY <1>1, <1>2 DEF Grows

\* What a branch charges is taken from the balance.
LEMMA BalanceFalls ==
  ASSUME NEW t \in TaskStates, NEW u,
         u.budget \in {t.budget} \cup {Charge(t.budget, c) : c \in Cents}
  PROVE  u.budget.org_balance <= t.budget.org_balance
<1>1. t.budget \in Budgets /\ t.budget.org_balance \in Int
  BY MaxCentsAssumption DEF TaskStates, Budgets, Amounts
<1>2. ASSUME NEW b \in Budgets, NEW c \in Cents
      PROVE  Charge(b, c).org_balance <= b.org_balance
  <2>1. b.org_balance \in Int /\ c \in Int
    BY MaxCentsAssumption DEF Budgets, Amounts, Cents
  <2>2. CASE SpendDecision(b, c) = "proceed"
    <3>1. Charge(b, c) = [b EXCEPT !.consumed = @ + c, !.org_balance = @ - c]
      BY <2>2 DEF Charge
    <3>2. Charge(b, c).org_balance = b.org_balance - c
      BY <3>1 DEF Budgets
    <3>3. c >= 0
      BY <2>1, <2>2 DEF SpendDecision
    <3> QED
      BY <2>1, <3>2, <3>3
  <2>3. CASE SpendDecision(b, c) # "proceed"
    <3>1. Charge(b, c) = b
      BY <2>3 DEF Charge
    <3> QED
      BY <2>1, <3>1
  <2> QED
    BY <2>2, <2>3
<1> QED
  BY <1>1, <1>2

LEMMA EnteredGrows ==
  ASSUME NEW t \in Rows, NEW a \in Approvals, NEW u \in Entered(t, a)
  PROVE  Grows(t, u) /\ u.budget.org_balance <= t.budget.org_balance
<1>1. t \in TaskStates /\ HoldsItsCall(t)
  BY DEF Rows
<1>2. PICK rs \in RuleSets : TRUE
  <2>1. [r \in Requests |-> "deny"] \in RuleSets
    BY DEF RuleSets, Verdicts
  <2> QED
    BY <2>1
<1>3. CASE \/ t.status \in Terminal \cup {"running"}
           \/ t.status = "waiting_approval" /\ a = "none"
  <2>1. u = t
    BY <1>3 DEF Entered, Terminal
  <2>2. Len(t.audit) \in Nat
    BY <1>1 DEF TaskStates
  <2> QED
    BY <1>1, <2>1, <2>2, BalanceFalls DEF Grows
<1>4. CASE t.status = "pending"
  <2>1. u = Started(t)
    BY <1>4 DEF Entered, Terminal
  <2>2. u.budget = t.budget
    BY <1>1, <1>2, <2>1, BudgetsLeft
  <2>3. Tells(t, u, <<TaskEvent("task_started", "")>>)
    BY <1>1, <2>1, EntryTells
  <2>4. Grows(t, u)
    BY <1>1, <1>4, <2>3, TellsGrows DEF Terminal
  <2> QED
    BY <1>1, <2>2, <2>4, BalanceFalls
<1>5. CASE t.status = "waiting_approval" /\ a # "none"
  <2>1. ~Incoherent(t)
    BY <1>1, <1>5, MachineAssumption DEF HoldsItsCall, Incoherent
  <2>2. u \in {Rejected(t), ApprovedButStopped(t), Approved(t)}
    BY <1>5, <2>1 DEF Entered, Terminal, Approvals
  <2>3. Total(t.pending) \in Cents
    BY <1>1, TotalType DEF TaskStates, PendingCalls
  <2>4. u.budget \in {t.budget} \cup {Charge(t.budget, c) : c \in Cents}
    BY <1>1, <1>2, <2>2, <2>3, BudgetsLeft
  <2>5. \E e, f, g : \/ Tells(t, u, <<e>>) \/ Tells(t, u, <<e, f>>)
                     \/ Tells(t, u, <<e, f, g>>)
    <3>1. CASE u = Rejected(t)
      BY <1>1, <3>1, EntryTells
    <3>2. CASE u = ApprovedButStopped(t)
      BY <1>1, <3>2, EntryTells
    <3>3. CASE u = Approved(t)
      BY <1>1, <3>3, EntryTells
    <3> QED
      BY <2>2, <3>1, <3>2, <3>3
  <2>6. Grows(t, u)
    BY <1>1, <1>5, <2>5, TellsGrows DEF Terminal
  <2> QED
    BY <1>1, <2>4, <2>6, BalanceFalls
<1> QED
  BY <1>1, <1>3, <1>4, <1>5 DEF TaskStates, Statuses

LEMMA PassedGrows ==
  ASSUME NEW t \in Rows, t.status = "running", NEW rs \in RuleSets, NEW u \in Passed(t, rs)
  PROVE  Grows(t, u) /\ u.budget.org_balance <= t.budget.org_balance
<1>1. t \in TaskStates
  BY DEF Rows
<1>2. u \in {Exhausted(t)} \cup Conclusions(t) \cup StoppedConclusions(t) \cup Denials(t, rs)
             \cup StoppedExecutions(t, rs) \cup Suspensions(t, rs) \cup Executions(t, rs)
  BY DEF Passed
<1>3. \E e, f, g : \/ Tells(t, u, <<e>>) \/ Tells(t, u, <<e, f>>)
                   \/ Tells(t, u, <<e, f, g>>)
  <2>1. CASE u \in {Exhausted(t)} \cup Conclusions(t) \cup StoppedConclusions(t)
    <3>1. \E s : Tells(t, u, <<Finished(s)>>)
      BY <1>1, <2>1, PassTells
    <3> QED
      BY <3>1
  <2>2. CASE u \in Denials(t, rs)
    BY <1>1, <2>2, PassTells
  <2>3. CASE u \in StoppedExecutions(t, rs)
    BY <1>1, <2>3, PassTells
  <2>4. CASE u \in Suspensions(t, rs)
    BY <1>1, <2>4, PassTells
  <2>5. CASE u \in Executions(t, rs)
    BY <1>1, <2>5, PassTells
  <2> QED
    BY <1>2, <2>1, <2>2, <2>3, <2>4, <2>5
<1>4. Grows(t, u)
  BY <1>1, <1>3, TellsGrows DEF Terminal
<1>5. u.budget \in {t.budget} \cup {Charge(t.budget, c) : c \in Cents}
  <2>1. CASE u \in Conclusions(t)
    BY <1>1, <2>1, BudgetsLeft, MachineAssumption
  <2>2. CASE u \in Executions(t, rs)
    <3>1. PICK p \in Judged(rs, "allow") : u.budget = Charge(t.budget, Total(p))
      BY <1>1, <2>2, PassTells
    <3>2. Total(p) \in Cents
      BY TotalType, MachineAssumption DEF Judged, Plans
    <3> QED
      BY <3>1, <3>2
  <2>3. CASE u \notin Conclusions(t) \cup Executions(t, rs)
    BY <1>1, <1>2, <2>3, BudgetsLeft
  <2> QED
    BY <2>1, <2>2, <2>3
<1> QED
  BY <1>1, <1>4, <1>5, BalanceFalls

\* Both, as an action of a caller.
LEMMA DriveGrows ==
  ASSUME Shape, NEW w \in Workers, Enter(w) \/ Loop(w)
  PROVE  /\ Grows(worker[w].state, worker'[w].state)
         /\ worker'[w].state.budget.org_balance <= worker[w].state.budget.org_balance
<1> DEFINE c == worker[w]
<1>1. CallersOK(worker, tx) /\ CallerOK(c, tx[w]) /\ c \in Callers
  BY DEF Shape, CallersOK, CallerOK
<1>2. c.pc \in {"entry", "loop"} /\ c.state \in Rows /\ c.phase = "step"
  BY <1>1 DEF Enter, Loop, At, CallerOK, Callers
<1>3. ASSUME NEW state, DriveTo(w, state) PROVE worker'[w].state = state
  <2>1. worker'[w] = Driven(c, state)
    BY <1>1, <1>3, DriveDoes
  <2> HIDE DEF c
  <2>2. Driven(c, state).state = state
    BY <1>1 DEF Driven, Callers
  <2> QED
    BY <2>1, <2>2
<1>4. CASE Enter(w)
  <2>1. PICK state \in Entered(c.state, c.approval) : DriveTo(w, state)
    BY <1>4 DEF Enter
  <2>2. c.approval \in Approvals
    BY <1>1 DEF Callers
  <2> QED
    BY <1>2, <1>3, <2>1, <2>2, EnteredGrows
<1>5. CASE Loop(w)
  <2>1. PICK state \in Passed(c.state, c.rules) : DriveTo(w, state)
    BY <1>5 DEF Loop
  <2>2. c.rules \in RuleSets /\ c.state.status = "running"
    BY <1>1, <1>5 DEF Callers, Loop, At, CallerOK
  <2> QED
    BY <1>2, <1>3, <2>1, <2>2, PassedGrows
<1> QED
  BY <1>4, <1>5
-----------------------------------------------------------------------------
(***************************************************************************)
(* What the chain tells, and what a caller is about to add to it           *)
(***************************************************************************)
EventsOf(t) == IF t \in Created THEN tasks[t].audit ELSE <<>>

\* A caller adds to the journal of its row: it has put the events of its copy
\* that the row does not have, from the first to the one before `next`.
Reciting(c, row, entries, balance) ==
  /\ Grows(row, c.state)
  /\ c.state.budget.org_balance <= balance
  /\ c.next \in Len(row.audit) + 1 .. Len(c.state.audit) + 1
  /\ c.pc \in {"entry", "loop", "effects"} => c.next = Len(row.audit) + 1
  /\ c.pc \in {"put", "tail", "insert"} => c.next <= Len(c.state.audit)
  /\ c.pc = "commit" => c.next = Len(c.state.audit) + 1
  /\ Lists(entries, c.task, c.state.audit, Len(row.audit), c.next - 1)

Recites(w) ==
  OwnsCredits(w) =>
    Reciting(worker[w], tasks[worker[w].task], tx[w].entries, credits)

\* The chain identifies a call by its task, and the abandonments and the
\* purges are of no call.
Named ==
  \A e \in chain : e.call # NoCall =>
    e.actor \in Tasks /\ e.call[1] = e.actor /\ e.action # "step_abandoned"

ToldAll == \A t \in Tasks : Lists(Told(t), t, EventsOf(t), 0, Len(EventsOf(t)))

Recited == NeverRestored => Named /\ ToldAll /\ \A w \in Workers : Recites(w)

LEMMA AttestationIs ==
  ASSUME NEW t, NEW event
  PROVE  /\ EventAttestation(t, event).actor = t
         /\ EventAttestation(t, event).action = event.action
         /\ EventAttestation(t, event).content = EventContent(event)
         /\ event.action \in CallActions =>
              EventAttestation(t, event).call = Call(t, event.iteration)
         /\ event.action \notin CallActions => EventAttestation(t, event).call = NoCall
         /\ Call(t, event.iteration) # NoCall
         /\ Call(t, event.iteration)[1] = t /\ Call(t, event.iteration)[2] = event.iteration
BY DEF EventAttestation, Attestation, Call, NoCall

LEMMA UntagIs ==
  ASSUME NEW e, NEW t, NEW event, Untag(e) = EventAttestation(t, event)
  PROVE  /\ e.actor = t /\ e.action = event.action /\ e.content = EventContent(event)
         /\ e.call = EventAttestation(t, event).call
<1>1. /\ Untag(e).actor = e.actor /\ Untag(e).action = e.action
      /\ Untag(e).call = e.call /\ Untag(e).content = e.content
  BY DEF Untag, Attestation
<1> QED
  BY <1>1, AttestationIs

\* No call is told of twice by the same action.
LEMMA NeverToldTwice ==
  ASSUME NEW t \in Rows, NEW j \in 1 .. Len(t.audit), NEW k \in 1 .. Len(t.audit), j < k,
         t.audit[j].action \in CallActions,
         t.audit[j].action = t.audit[k].action,
         t.audit[j].iteration = t.audit[k].iteration
  PROVE  FALSE
<1> DEFINE i == t.audit[j].iteration
<1>1. t \in TaskStates /\ WellFormed(t) /\ t.audit \in Seq(Events) /\ t.iteration \in Nat
  BY DEF Rows, TaskStates
<1>2. i \in Nat /\ i <= t.iteration
  <2>1. j \in DOMAIN t.audit /\ t.audit[j] \in Events
    BY <1>1
  <2>2. t.audit[j].iteration <= t.iteration
    BY <1>1, <2>1 DEF WellFormed
  <2> QED
    BY <2>1, <2>2 DEF Events
<1>3. j \in CallPositions(t, i) /\ k \in CallPositions(t, i) /\ j # k
  BY <1>1 DEF CallPositions, IsOfCall
<1>4. ~UntoldIn(t, i) /\ ~OpenIn(t, i)
  BY <1>3 DEF UntoldIn, OpenIn
<1>5. ~ClosedIn(t, i, "tool_call_completed") /\ ~ClosedIn(t, i, "tool_call_denied")
  BY <1>3 DEF ClosedIn
<1> HIDE DEF i
<1>6. i \in 0 .. t.iteration - 1 \/ i = t.iteration
  BY <1>1, <1>2
<1> QED
  BY <1>1, <1>4, <1>5, <1>6 DEF WellFormed

\* What the caller of a step is about to attest has not been attested.
LEMMA NeverAttestedTwice ==
  ASSUME Shape, NEW w \in Workers, worker[w].pc = "insert", worker[w].phase = "step",
         tasks[worker[w].task] # NoTask, Named, ToldAll, Recites(w)
  PROVE  /\ Writing(w) = EventAttestation(worker[w].task, worker[w].state.audit[worker[w].next])
         /\ ~AlreadyAttested(w, Writing(w))
<1> DEFINE c == worker[w]
           a == tasks[c.task].audit
           b == c.state.audit
<1>1. /\ CallerOK(c, tx[w]) /\ c.state \in Rows /\ c.task \in Tasks
      /\ c.task \in Created /\ tasks[c.task] \in Rows
  BY DEF Shape, CallersOK, CallerOK, TablesOK, Created
<1>2. Writing(w) = EventAttestation(c.task, b[c.next])
  BY DEF Writing
<1>3. OwnsCredits(w)
  BY DEF OwnsCredits, OwnsTask
<1>4. /\ Grows(tasks[c.task], c.state)
      /\ c.next \in Len(a) + 1 .. Len(b) + 1 /\ c.next <= Len(b)
      /\ Lists(tx[w].entries, c.task, b, Len(a), c.next - 1)
  BY <1>3 DEF Recites, Reciting
<1>5. Lists(Told(c.task), c.task, a, 0, Len(a))
  BY <1>1 DEF ToldAll, EventsOf
<1>6. Len(a) \in Nat /\ Len(b) \in Nat
  BY <1>1 DEF Rows, TaskStates
<1>7. ASSUME AlreadyAttested(w, Writing(w)) PROVE FALSE
  <2>1. PICK e \in chain \cup tx[w].entries :
          e.call = Writing(w).call /\ e.action = Writing(w).action
    BY <1>7 DEF AlreadyAttested
  <2>2. Writing(w).call # NoCall
    BY <1>7 DEF AlreadyAttested
  <2>3. /\ b[c.next].action \in CallActions /\ e.action = b[c.next].action
        /\ e.call = Call(c.task, b[c.next].iteration)
    BY <1>2, <2>1, <2>2, AttestationIs
  <2>4. \E k \in 1 .. c.next - 1 : Untag(e) = EventAttestation(c.task, b[k])
    <3>1. CASE e \in chain
      <4>1. e.actor = c.task /\ e.action # "step_abandoned"
        <5>1. e.call # NoCall
          BY <2>1, <2>2
        <5>2. e.call[1] = c.task
          BY <2>3 DEF Call
        <5> HIDE DEF c
        <5> QED
          BY <3>1, <5>1, <5>2 DEF Named
      <4>2. e \in Told(c.task)
        BY <3>1, <4>1 DEF Told
      <4>3. PICK k \in 0 + 1 .. Len(a) : Untag(e) = EventAttestation(c.task, a[k])
        BY <1>5, <4>2, ListedIsEvent
      <4>4. a[k] = b[k] /\ k \in 1 .. c.next - 1
        BY <1>4, <1>6 DEF Grows
      <4> QED
        BY <4>3, <4>4
    <3>2. CASE e \in tx[w].entries
      <4>1. PICK k \in Len(a) + 1 .. c.next - 1 : Untag(e) = EventAttestation(c.task, b[k])
        BY <1>4, <3>2, ListedIsEvent
      <4>2. k \in 1 .. c.next - 1
        BY <1>4, <1>6
      <4> QED
        BY <4>1, <4>2
    <3> QED
      BY <3>1, <3>2
  <2>5. PICK k \in 1 .. c.next - 1 : Untag(e) = EventAttestation(c.task, b[k])
    BY <2>4
  <2>6. e.action = b[k].action /\ e.call = EventAttestation(c.task, b[k]).call
    BY <2>5, UntagIs
  <2>7. b[k].action = b[c.next].action /\ b[k].action \in CallActions
    BY <2>3, <2>6
  <2>8. Call(c.task, b[k].iteration) = Call(c.task, b[c.next].iteration)
    <3>1. EventAttestation(c.task, b[k]).call = Call(c.task, b[k].iteration)
      BY <2>7, AttestationIs
    <3> QED
      BY <2>3, <2>6, <3>1
  <2>9. b[k].iteration = b[c.next].iteration
    BY <2>8 DEF Call
  <2>10. k \in 1 .. Len(b) /\ c.next \in 1 .. Len(b) /\ k < c.next
    BY <1>4, <1>6
  <2> HIDE DEF c
  <2> QED
    BY <1>1, <2>7, <2>9, <2>10, NeverToldTwice
<1> QED
  BY <1>2, <1>7
\* A caller that keeps its copy and its place keeps what it recites.
LEMMA RecitingOn ==
  ASSUME NEW c, NEW d, NEW row, NEW entries, NEW balance,
         Reciting(c, row, entries, balance),
         d.state = c.state, d.next = c.next, d.task = c.task,
         d.pc \in {"entry", "loop", "effects"} => c.pc \in {"entry", "loop", "effects"},
         d.pc \in {"put", "tail", "insert"} => c.next <= Len(c.state.audit),
         d.pc = "commit" => c.next = Len(c.state.audit) + 1
  PROVE  Reciting(d, row, entries, balance)
BY DEF Reciting

\* The entry a caller inserts is above those of the chain and its own.
LEMMA InsertsAbove ==
  ASSUME Shape, Linear, NEW w \in Workers, worker[w].pc = "insert",
         ~HeightTaken(w), ~HeightHeld(w)
  PROVE  /\ NextHeight(w) \in Nat
         /\ \A e \in chain \cup tx[w].entries : e.height < NextHeight(w)
<1> DEFINE n == Cardinality(chain)
           m == Cardinality(tx[w].entries)
<1>1. /\ Run(chain, 0) /\ Run(tx[w].entries, n) /\ n \in Nat /\ m \in Nat
      /\ Continues(tx[w], TRUE) /\ w \in Transactions
  BY DEF Linear, Continues, Run, Transactions
<1>2. NextHeight(w) = n + m
  BY <1>1, HeightIsNext
<1>3. ASSUME NEW e \in chain PROVE e.height \in 0 .. 0 + n - 1
  BY <1>1 DEF Run, Heights
<1>4. ASSUME NEW e \in tx[w].entries PROVE e.height \in n .. n + m - 1
  BY <1>1 DEF Run, Heights
<1> HIDE DEF n, m
<1> QED
  BY <1>1, <1>2, <1>3, <1>4

LEMMA StepRecites ==
  ASSUME Shape, Linear, NEW w \in Workers, Step(w), ~Commit(w), Funds(w),
         Named, ToldAll, Recites(w)
  PROVE  Recites(w)'
<1> DEFINE c == worker[w]
           d == worker'[w]
           row == tasks[c.task]
           E == tx[w].entries
<1>1. CallersOK(worker, tx) /\ CallerOK(c, tx[w]) /\ TxOK(tx[w]) /\ c \in Callers
      /\ tasks \in [Tasks -> Rows \cup {NoTask}] /\ credits \in Amounts
  BY DEF Shape, CallersOK, CallerOK, TablesOK
<1>2. UNCHANGED <<tasks, credits>>
  BY StepWrites
<1>3. Idle.pc = "idle"
  BY DEF Idle
<1>4. ASSUME d.pc \in {"idle", "lock_task", "lock_credits"} \/ d.phase = "abandonment"
      PROVE  Recites(w)'
  BY <1>4 DEF Recites, OwnsCredits, OwnsTask
<1>5. ASSUME d.task = c.task, Reciting(d, row, tx'[w].entries, credits) PROVE Recites(w)'
  BY <1>2, <1>5 DEF Recites
<1>6. ASSUME c.pc \in {"entry", "loop", "effects", "put", "tail", "insert", "commit"},
             c.phase = "step"
      PROVE  /\ Reciting(c, row, E, credits) /\ row \in Rows /\ c.state \in Rows
             /\ Len(row.audit) \in Nat /\ Len(c.state.audit) \in Nat
  <2>1. OwnsTask(w) /\ OwnsCredits(w)
    BY <1>6 DEF OwnsTask, OwnsCredits
  <2>2. row # NoTask /\ c.task \in Tasks /\ c.state \in Rows
    BY <1>1, <1>6, <2>1 DEF Funds, CallerOK
  <2>3. Len(row.audit) \in Nat /\ Len(c.state.audit) \in Nat
    BY <1>1, <2>2 DEF Rows, TaskStates
  <2> QED
    BY <1>1, <2>1, <2>2, <2>3 DEF Recites
<1>7. CASE TaskNotFound(w) \/ ResultPurged(w) \/ GiveUpAbandonment(w)
  <2>1. d = Idle
    BY <1>1, <1>7, StepFields DEF TaskNotFound, ResultPurged, GiveUpAbandonment
  <2> QED
    BY <1>3, <1>4, <2>1
<1>8. CASE LockTask(w)
  BY <1>1, <1>4, <1>8, StepFields DEF Locking
<1>9. CASE LockCredits(w)
  <2>1. /\ c.pc = "lock_credits" /\ c.phase = "step" /\ d.pc = "entry"
        /\ d.state = [c.state EXCEPT !.budget = Refreshed(@, credits)]
        /\ d.next = Len(c.state.audit) + 1 /\ d.task = c.task
        /\ tx'[w] = tx[w]
    BY <1>1, <1>9, StepFields DEF Locking
  <2>2. c.state = row /\ c.state \in TaskStates /\ tx[w] = NoTx
    BY <1>1, <2>1 DEF Funds, OwnsTask, CallerOK, Rows
  <2>3. /\ d.state.audit = row.audit /\ d.state.status = row.status
        /\ d.state.budget = Refreshed(row.budget, credits)
    BY <2>1, <2>2 DEF TaskStates
  <2>4. d.state.budget.consumed = row.budget.consumed /\ d.state.budget.org_balance = credits
    BY <2>2, <2>3 DEF Refreshed, TaskStates, Budgets
  <2>5. Len(row.audit) \in Nat /\ credits \in Int
    BY <1>1, <2>2, MaxCentsAssumption DEF TaskStates, Amounts
  <2>6. Grows(row, d.state)
    BY <2>3, <2>4, <2>5 DEF Grows
  <2>7. tx'[w].entries = {}
    BY <2>1, <2>2 DEF NoTx
  <2>8. d.next - 1 = Len(row.audit) /\ d.next = Len(row.audit) + 1
    BY <2>1, <2>2, <2>5
  <2>9. Lists({}, d.task, d.state.audit, Len(row.audit), d.next - 1)
    BY <2>5, <2>8, ListsNothing
  <2> HIDE DEF d, row, c
  <2>10. Reciting(d, row, tx'[w].entries, credits)
    BY <2>1, <2>3, <2>4, <2>5, <2>6, <2>7, <2>8, <2>9 DEF Reciting
  <2> QED
    BY <1>5, <2>1, <2>10
<1>10. CASE Enter(w) \/ Loop(w)
  <2>1. /\ c.pc \in {"entry", "loop"} /\ d.pc \in {"loop", "effects"} /\ c.phase = "step"
        /\ d.state \in Rows /\ d.task = c.task /\ d.next = c.next /\ tx'[w] = tx[w]
    BY <1>10, DriveSteps DEF DriveFields, Same
  <2>2. Grows(c.state, d.state) /\ d.state.budget.org_balance <= c.state.budget.org_balance
    BY <1>10, DriveGrows
  <2>3. /\ Reciting(c, row, E, credits) /\ row \in Rows /\ c.state \in Rows
        /\ Len(row.audit) \in Nat /\ Len(c.state.audit) \in Nat
    BY <1>6, <2>1
  <2>4. Grows(row, d.state)
    BY <2>1, <2>2, <2>3, GrowsAgain DEF Reciting, Rows
  <2>5. d.state.budget.org_balance <= credits
    <3>1. /\ d.state.budget.org_balance \in Int /\ c.state.budget.org_balance \in Int
          /\ credits \in Int
      BY <1>1, <2>1, <2>3, MaxCentsAssumption DEF Rows, TaskStates, Budgets, Amounts
    <3> QED
      BY <2>2, <2>3, <3>1 DEF Reciting
  <2>6. c.next = Len(row.audit) + 1 /\ c.next - 1 = Len(row.audit)
    BY <2>1, <2>3 DEF Reciting
  <2>7. Lists(E, c.task, d.state.audit, Len(row.audit), c.next - 1)
    <3>1. Lists(E, c.task, c.state.audit, Len(row.audit), c.next - 1)
      BY <2>3 DEF Reciting
    <3>2. \A k \in Len(row.audit) + 1 .. c.next - 1 : c.state.audit[k] = d.state.audit[k]
      BY <2>3, <2>6
    <3> HIDE DEF E, c, d, row
    <3> QED
      BY <3>1, <3>2, ListsSame
  <2>8. Len(d.state.audit) \in Nat /\ Len(row.audit) <= Len(d.state.audit)
    BY <2>1, <2>4 DEF Grows, Rows, TaskStates
  <2> HIDE DEF d, row, c
  <2>9. Reciting(d, row, tx'[w].entries, credits)
    BY <2>1, <2>3, <2>4, <2>5, <2>6, <2>7, <2>8 DEF Reciting, E
  <2> QED
    BY <1>5, <2>1, <2>9
<1>11. CASE KeepTrace(w)
  <2>1. /\ c.pc = "effects" /\ d.pc = "effects" /\ d.state = c.state /\ d.next = c.next
        /\ d.task = c.task
    BY <1>1, <1>11, StepFields DEF Keeping, Same
  <2>2. tx'[w].entries = E
    BY <1>11, TraceIsKept
  <2>3. c.phase = "step"
    BY <1>1, <2>1 DEF CallerOK, Callers
  <2>4. Reciting(c, row, E, credits)
    BY <1>6, <2>1, <2>3
  <2> HIDE DEF d, row, c, E
  <2>5. Reciting(d, row, E, credits)
    BY <2>1, <2>4, RecitingOn
  <2> QED
    BY <1>5, <2>1, <2>2, <2>5
<1>12. CASE TracesKept(w)
  <2>1. /\ c.pc = "effects" /\ d.pc = AfterEvent(c) /\ d.state = c.state /\ d.next = c.next
        /\ d.task = c.task /\ tx'[w] = tx[w]
    BY <1>1, <1>12, StepFields DEF Keeping, Same
  <2>2. c.phase = "step"
    BY <1>1, <2>1 DEF CallerOK, Callers
  <2>3. Reciting(c, row, E, credits) /\ Len(row.audit) \in Nat /\ Len(c.state.audit) \in Nat
    BY <1>6, <2>1, <2>2
  <2> HIDE DEF d, row, c
  <2>4. /\ d.pc \in {"put", "commit"}
        /\ d.pc = "put" => c.next <= Len(c.state.audit)
        /\ d.pc = "commit" => c.next = Len(c.state.audit) + 1
    BY <2>1, <2>3 DEF AfterEvent, Reciting
  <2>5. Reciting(d, row, E, credits)
    BY <2>1, <2>3, <2>4, RecitingOn
  <2> QED
    BY <1>5, <2>1, <2>5 DEF E
<1>13. CASE (PutContent(w) \/ FindTail(w)) /\ c.phase = "step"
  <2>1. /\ c.pc \in {"put", "tail"} /\ d.pc \in {"tail", "insert"}
        /\ d.state = c.state /\ d.next = c.next /\ d.task = c.task
        /\ \/ tx'[w] = PutIn(tx[w], Writing(w).content)
           \/ tx'[w] = [tx[w] EXCEPT !.tail = ReadTail(w)]
    BY <1>1, <1>13, StepFields DEF Writes, Same
  <2>2. tx'[w].entries = E
    <3>1. PutIn(tx[w], Writing(w).content).entries = E
      BY <1>1, PutInKeeps
    <3>2. [tx[w] EXCEPT !.tail = ReadTail(w)].entries = E
      BY <1>1 DEF TxOK
    <3> QED
      BY <2>1, <3>1, <3>2
  <2>3. Reciting(c, row, E, credits)
    BY <1>6, <1>13, <2>1
  <2> HIDE DEF d, row, c, E
  <2>4. c.next <= Len(c.state.audit)
    BY <2>1, <2>3 DEF Reciting
  <2>5. Reciting(d, row, E, credits)
    BY <2>1, <2>3, <2>4, RecitingOn
  <2> QED
    BY <1>5, <2>1, <2>2, <2>5
<1>14. CASE (PutContent(w) \/ FindTail(w)) /\ c.phase = "abandonment"
  BY <1>1, <1>4, <1>14, StepFields DEF Writes, Same
<1>15. CASE InsertEvent(w) \/ SkipEvent(w)
  <2>1. /\ c.pc = "insert" /\ c.phase = "step" /\ d.pc \in {"put", "commit"}
        /\ d.pc = "put" <=> c.next + 1 <= Len(c.state.audit)
        /\ d.state = c.state /\ d.next = c.next + 1 /\ d.task = c.task
    BY <1>1, <1>15, StepFields DEF Writes, Same
  <2>2. /\ Reciting(c, row, E, credits) /\ row \in Rows
        /\ Len(row.audit) \in Nat /\ Len(c.state.audit) \in Nat
    BY <1>6, <2>1
  <2>3. /\ Writing(w) = EventAttestation(c.task, c.state.audit[c.next])
        /\ ~AlreadyAttested(w, Writing(w))
    <3>1. tasks[c.task] # NoTask
      BY <2>1 DEF Funds, OwnsTask
    <3> QED
      BY <2>1, <3>1, NeverAttestedTwice
  <2>4. InsertEvent(w)
    BY <1>15, <2>3 DEF SkipEvent
  <2> DEFINE e == Entry(w, Writing(w))
  <2>5. tx'[w] = InsertIn(tx[w], e) /\ ~HeightTaken(w) /\ ~HeightHeld(w)
    BY <1>1, <2>4, StepFields DEF Writes, InsertEvent
  <2>6. tx'[w].entries = E \cup {e}
    BY <1>1, <2>5, InsertInKeeps
  <2>7. /\ e.height = NextHeight(w) /\ NextHeight(w) \in Nat
        /\ \A f \in E : f.height < e.height
    BY <2>1, <2>5, InsertsAbove DEF Entry
  <2>8. Untag(e) = Writing(w)
    <3>1. Untag(e) = Attestation(Writing(w).actor, Writing(w).action, Writing(w).call,
                                 Writing(w).content)
      BY DEF Untag, Entry
    <3>2. \A t, event : LET att == EventAttestation(t, event) IN
            att = Attestation(att.actor, att.action, att.call, att.content)
      BY DEF EventAttestation, Attestation
    <3> QED
      BY <2>3, <3>1, <3>2
  <2> HIDE DEF e, d, row, c, E
  <2>9. c.next \in Nat /\ c.next >= 1 /\ Len(row.audit) <= c.next - 1
        /\ c.next <= Len(c.state.audit) /\ c.next - 1 \in Nat /\ (c.next - 1) + 1 = c.next
    BY <2>1, <2>2 DEF Reciting
  <2>10. Lists({e}, c.task, c.state.audit, c.next - 1, c.next)
    <3>1. e.height \in Nat /\ Untag(e) = EventAttestation(c.task, c.state.audit[(c.next - 1) + 1])
      BY <2>3, <2>7, <2>8, <2>9
    <3>2. Lists({e}, c.task, c.state.audit, c.next - 1, (c.next - 1) + 1)
      BY <2>9, <3>1, ListsOne
    <3> QED
      BY <2>9, <3>2
  <2>11. Lists(E \cup {e}, c.task, c.state.audit, Len(row.audit), c.next)
    <3>1. Lists(E, c.task, c.state.audit, Len(row.audit), c.next - 1)
      BY <2>2 DEF Reciting
    <3>2. \A f \in E, g \in {e} : f.height < g.height
      BY <2>7
    <3>3. c.next - 1 <= c.next
      BY <2>9
    <3> QED
      BY <2>2, <2>9, <2>10, <3>1, <3>2, <3>3, ListsJoin
  <2>12. d.next - 1 = c.next /\ d.next \in Len(row.audit) + 1 .. Len(d.state.audit) + 1
         /\ (d.pc = "put" => d.next <= Len(d.state.audit))
         /\ (d.pc = "commit" => d.next = Len(d.state.audit) + 1)
    <3> DEFINE k == Len(c.state.audit)
               m == Len(row.audit)
    <3>1. Len(d.state.audit) = k /\ d.next = c.next + 1
      BY <2>1
    <3>2. /\ k \in Nat /\ m \in Nat /\ c.next \in Nat /\ m <= c.next - 1 /\ c.next <= k
          /\ d.pc = "put" <=> c.next + 1 <= k
      BY <2>1, <2>2, <2>9
    <3>3. d.pc = "commit" => c.next = k
      BY <3>2
    <3> HIDE DEF k, m
    <3>4. d.next - 1 = c.next /\ d.next \in m + 1 .. k + 1
      BY <3>1, <3>2
    <3> QED
      BY <3>1, <3>2, <3>3, <3>4 DEF k, m
  <2>13. Lists(E \cup {e}, d.task, d.state.audit, Len(row.audit), d.next - 1)
    BY <2>1, <2>11, <2>12
  <2>14. Reciting(d, row, E \cup {e}, credits)
    BY <2>1, <2>2, <2>12, <2>13 DEF Reciting
  <2> QED
    BY <1>5, <2>1, <2>6, <2>14
<1>16. CASE LoseHeight(w) \/ RetryAbandonment(w)
  BY <1>1, <1>4, <1>16, StepFields DEF Losing, Same
<1>17. CASE AttestAbandonment(w)
  BY <1>1, <1>3, <1>4, <1>17, StepFields DEF Losing
<1>18. c.phase \in {"step", "abandonment"}
  BY <1>1 DEF Callers
<1> QED
  BY <1>7, <1>8, <1>9, <1>10, <1>11, <1>12, <1>13, <1>14, <1>15, <1>16, <1>17, <1>18 DEF Step
\* What the entries of a listing are of.
LEMMA ListedIsOfTask ==
  ASSUME NEW E, NEW t, NEW b, NEW m, NEW n, Lists(E, t, b, m, n),
         \A k \in m + 1 .. n : b[k] \in Events, NEW e \in E
  PROVE  /\ e.actor = t /\ e.action # "step_abandoned"
         /\ e.call # NoCall => e.call[1] = t
<1>1. PICK k \in m + 1 .. n : Untag(e) = EventAttestation(t, b[k])
  BY ListedIsEvent
<1>2. b[k].action \in Actions
  BY DEF Events
<1>3. b[k].action # "step_abandoned"
  BY <1>2 DEF Actions, CallActions
<1> QED
  BY <1>1, <1>3, UntagIs, AttestationIs

\* Entries that tell nothing of a task.
LEMMA UntoldEntries ==
  ASSUME Named, ToldAll, NEW e, e.call = NoCall,
         e.action = "step_abandoned" \/ e.actor \notin Tasks,
         chain' = chain \cup {e}, tasks' = tasks
  PROVE  Named' /\ ToldAll'
<1>1. \A t \in Tasks : Told(t)' = Told(t)
  BY DEF Told
<1>2. \A t \in Tasks : EventsOf(t)' = EventsOf(t)
  BY DEF EventsOf, Created
<1> QED
  BY <1>1, <1>2 DEF Named, ToldAll

LEMMA CommitTells ==
  ASSUME Shape, Linear, NEW w \in Workers, Commit(w), Funds(w), Named, ToldAll, Recites(w)
  PROVE  Named' /\ ToldAll'
<1> DEFINE c == worker[w]
           t == c.task
           a == tasks[t].audit
           b == c.state.audit
           E == tx[w].entries
<1>1. /\ CallerOK(c, tx[w]) /\ c \in Callers /\ c.pc = "commit"
      /\ tasks \in [Tasks -> Rows \cup {NoTask}]
  BY DEF Shape, CallersOK, CallerOK, TablesOK, Commit, At
<1>2. c.phase = "step" /\ OwnsTask(w) /\ OwnsCredits(w)
  BY <1>1 DEF CallerOK, Callers, OwnsTask, OwnsCredits
<1>3. /\ t \in Tasks /\ t \in Created /\ tasks[t] \in Rows /\ c.state \in Rows
      /\ NoTask \notin Rows
  BY <1>1, <1>2, TaskStoreAssumption DEF CallerOK, Funds, Created, Rows
<1>4. /\ chain' = chain \cup E
      /\ tasks' = [tasks EXCEPT ![t] = c.state]
  BY DEF Commit, Publish
<1>5. /\ Len(a) \in Nat /\ Len(b) \in Nat
      /\ \A k \in 1 .. Len(b) : b[k] \in Events
  BY <1>3 DEF Rows, TaskStates
<1>6. /\ Len(a) <= Len(b) /\ \A k \in 1 .. Len(a) : b[k] = a[k]
      /\ Lists(E, t, b, Len(a), Len(b))
  <2>1. Reciting(c, tasks[t], E, credits) /\ c.next = Len(b) + 1
    BY <1>1, <1>2 DEF Recites, Reciting
  <2>2. c.next - 1 = Len(b)
    BY <1>5, <2>1
  <2>3. Lists(E, t, b, Len(a), c.next - 1)
    BY <2>1 DEF Reciting
  <2> QED
    BY <2>1, <2>2, <2>3 DEF Reciting, Grows
<1>7. ASSUME NEW e \in E
      PROVE  /\ e.actor = t /\ e.action # "step_abandoned"
             /\ e.call # NoCall => e.call[1] = t
  <2>1. \A k \in Len(a) + 1 .. Len(b) : b[k] \in Events
    BY <1>5
  <2> HIDE DEF t, b, a, E
  <2> QED
    BY <1>6, <2>1, ListedIsOfTask
<1> HIDE DEF E
<1>8. Named'
  BY <1>3, <1>4, <1>7 DEF Named
<1>9. ASSUME NEW u \in Tasks, u # t
      PROVE  Lists(Told(u), u, EventsOf(u), 0, Len(EventsOf(u)))'
  <2>1. Told(u)' = Told(u)
    BY <1>4, <1>7, <1>9 DEF Told
  <2>2. tasks'[u] = tasks[u]
    BY <1>1, <1>4, <1>9
  <2>3. EventsOf(u)' = EventsOf(u)
    BY <2>2 DEF EventsOf, Created
  <2> QED
    BY <2>1, <2>3 DEF ToldAll
<1>10. ASSUME NEW u \in Tasks, u = t
       PROVE  Lists(Told(u), u, EventsOf(u), 0, Len(EventsOf(u)))'
  <2>1. Told(u)' = Told(u) \cup E
    BY <1>4, <1>7, <1>10 DEF Told
  <2>2. tasks'[u] = c.state
    BY <1>1, <1>3, <1>4, <1>10
  <2>3. EventsOf(u)' = b
    BY <1>3, <2>2 DEF EventsOf, Created, Rows
  <2>4. EventsOf(u) = a
    BY <1>3, <1>10 DEF EventsOf
  <2>5. Lists(Told(u), u, a, 0, Len(a))
    BY <2>4 DEF ToldAll
  <2>6. \A e \in Told(u), f \in E : e.height < f.height
    <3> DEFINE n == Cardinality(chain)
               m == Cardinality(E)
    <3>1. Run(chain, 0) /\ Run(E, n) /\ n \in Nat /\ m \in Nat
      BY DEF Linear, Continues, Run, E
    <3>2. \A e \in chain : e.height \in 0 .. 0 + n - 1
      BY <3>1 DEF Run, Heights
    <3>3. \A f \in E : f.height \in n .. n + m - 1
      BY <3>1 DEF Run, Heights
    <3>4. Told(u) \subseteq chain
      BY DEF Told
    <3> HIDE DEF n, m
    <3> QED
      BY <3>1, <3>2, <3>3, <3>4
  <2> HIDE DEF t, a, b, c
  <2>7. Lists(Told(u), u, b, 0, Len(a))
    <3>1. \A k \in 0 + 1 .. Len(a) : a[k] = b[k]
      BY <1>6
    <3> QED
      BY <2>5, <3>1, ListsSame
  <2>8. Lists(Told(u) \cup E, u, b, 0, Len(b))
    <3>1. 0 \in Nat /\ 0 <= Len(a)
      BY <1>5
    <3>2. Lists(E, u, b, Len(a), Len(b))
      BY <1>6, <1>10
    <3> QED
      BY <1>5, <1>6, <2>6, <2>7, <3>1, <3>2, ListsJoin
  <2> QED
    BY <2>1, <2>3, <2>8
<1>11. ToldAll'
  BY <1>9, <1>10 DEF ToldAll
<1> QED
  BY <1>8, <1>11
\* Callers that do not move keep what they recite, as long as their row and
\* the credits do not move.
LEMMA OthersRecite ==
  ASSUME NEW v \in Workers, Recites(v), worker'[v] = worker[v], tx'[v] = tx[v],
         OwnsCredits(v) =>
           tasks'[worker[v].task] = tasks[worker[v].task] /\ credits' = credits
  PROVE  Recites(v)'
<1>1. OwnsCredits(v)' = OwnsCredits(v)
  BY DEF OwnsCredits, OwnsTask
<1> QED
  BY <1>1 DEF Recites

LEMMA RecitedNext ==
  Shape /\ OneOwner /\ Balanced /\ Linear /\ Recited /\ [Next]_vars => Recited'
<1> SUFFICES ASSUME Shape, OneOwner, Balanced, Linear, Recited, [Next]_vars, NeverRestored'
             PROVE  Named' /\ ToldAll' /\ \A w \in Workers : Recites(w)'
  BY DEF Recited
<1>1. NeverRestored /\ \A t \in Tasks : ~RestoreTask(t)
  BY RestoresAreCounted
<1>2. /\ Named /\ ToldAll
      /\ \A w \in Workers : Recites(w) /\ Funds(w)
  BY <1>1 DEF Recited, Balanced
<1>3. ASSUME UNCHANGED <<tasks, chain>> PROVE Named' /\ ToldAll'
  BY <1>2, <1>3 DEF Named, ToldAll, Told, EventsOf, Created
<1>4. CASE UNCHANGED vars
  <2>1. UNCHANGED <<tasks, chain, credits, worker, tx>>
    BY <1>4 DEF vars, database
  <2> QED
    BY <1>2, <1>3, <2>1, OthersRecite
<1>5. CASE Aside /\ (\E t \in Tasks : CreateTask(t) \/ RestoreTask(t))
  <2>1. PICK t \in Tasks : CreateTask(t)
    BY <1>1, <1>5
  <2>2. /\ tasks[t] = NoTask /\ tasks' = [tasks EXCEPT ![t] = NewTask(Ceiling, credits)]
        /\ UNCHANGED <<chain, credits>>
    BY <2>1 DEF CreateTask
  <2>3. tasks \in [Tasks -> Rows \cup {NoTask}]
    BY DEF Shape, TablesOK
  <2>4. NewTask(Ceiling, credits).audit = <<>>
    BY DEF NewTask
  <2>5. tasks'[t] = NewTask(Ceiling, credits)
    BY <2>2, <2>3
  <2>6. EventsOf(t)' = <<>> /\ EventsOf(t) = <<>>
    BY <2>2, <2>4, <2>5 DEF EventsOf, Created
  <2>7. \A u \in Tasks \ {t} : tasks'[u] = tasks[u]
    BY <2>2, <2>3
  <2>8. \A u \in Tasks : EventsOf(u)' = EventsOf(u)
    BY <2>6, <2>7 DEF EventsOf, Created
  <2>9. Named' /\ ToldAll'
    BY <1>2, <2>2, <2>8 DEF Named, ToldAll, Told
  <2>10. ASSUME NEW v \in Workers PROVE Recites(v)'
    <3>1. OwnsCredits(v) => worker[v].task # t /\ worker[v].task \in Tasks
      BY <1>2, <2>2 DEF Funds, OwnsCredits, OwnsTask, Shape, CallersOK, CallerOK
    <3> QED
      BY <1>2, <1>5, <2>2, <2>7, <3>1, OthersRecite DEF Aside
  <2> QED
    BY <2>9, <2>10
<1>6. CASE Aside /\ (DeleteContent \/ Purging \/ CrashPurge \/ AbortPurge)
  <2>1. UNCHANGED <<tasks, credits>> /\ (AttestPurge \/ chain' = chain)
    BY <1>6, PurgeWrites
  <2>2. \A v \in Workers : Recites(v)'
    BY <1>2, <1>6, <2>1, OthersRecite DEF Aside
  <2>3. ASSUME AttestPurge PROVE Named' /\ ToldAll'
    <3> DEFINE e == Entry(Purger, PurgeAttestation)
    <3>1. chain' = chain \cup InsertIn(tx[Purger], e).entries
      BY <2>3 DEF AttestPurge, Publish
    <3>2. TxOK(tx[Purger]) /\ tx[Purger].entries = {}
      BY DEF Shape, PurgerOK
    <3>3. InsertIn(tx[Purger], e).entries = {e}
      BY <3>2, InsertInKeeps
    <3>4. e.call = NoCall /\ e.actor = Purger /\ Purger \notin Tasks
      BY TaskStoreAssumption DEF Entry, PurgeAttestation, Attestation
    <3> HIDE DEF e
    <3> QED
      BY <1>2, <2>1, <3>1, <3>3, <3>4, UntoldEntries
  <2> QED
    BY <1>3, <2>1, <2>2, <2>3
<1>7. ASSUME NEW w \in Workers, Others(w), Quits(w) \/ Called(w)
      PROVE  Named' /\ ToldAll' /\ \A v \in Workers : Recites(v)'
  <2>1. UNCHANGED <<tasks, chain, credits>>
    BY <1>7 DEF Quits, Called, Leave, database
  <2>2. Recites(w)'
    <3>1. Quits(w) => worker'[w] = Idle
      BY StepFields DEF Quits, Shape
    <3>2. Idle.pc = "idle"
      BY DEF Idle
    <3>3. worker'[w].pc \in {"idle", "lock_task"}
      BY <1>7, <3>1, <3>2 DEF Called
    <3> QED
      BY <3>3 DEF Recites, OwnsCredits, OwnsTask
  <2>3. \A v \in Workers \ {w} : Recites(v)'
    BY <1>2, <1>7, <2>1, OthersRecite DEF Others
  <2> QED
    BY <1>3, <2>1, <2>2, <2>3
<1>8. ASSUME NEW w \in Workers, Others(w), Step(w)
      PROVE  Named' /\ ToldAll' /\ \A v \in Workers : Recites(v)'
  <2>1. CASE Commit(w)
    <3>1. Named' /\ ToldAll'
      BY <1>2, <2>1, CommitTells
    <3>2. Recites(w)'
      <4>1. worker'[w] = Idle
        BY <2>1, StepFields DEF Losing, Shape
      <4>2. Idle.pc = "idle"
        BY DEF Idle
      <4> QED
        BY <4>1, <4>2 DEF Recites, OwnsCredits, OwnsTask
    <3>3. ASSUME NEW v \in Workers \ {w} PROVE Recites(v)'
      <4>1. OwnsCredits(w)
        BY <2>1 DEF Commit, At, OwnsCredits, OwnsTask, Shape, CallersOK, CallerOK, Callers
      <4>2. ~OwnsCredits(v)
        BY <4>1 DEF OneOwner
      <4> QED
        BY <1>2, <1>8, <4>2, OthersRecite DEF Others
    <3> QED
      BY <3>1, <3>2, <3>3
  <2>2. CASE ~Commit(w)
    <3>1. UNCHANGED <<tasks, credits>> /\ (AttestAbandonment(w) \/ chain' = chain)
      BY <1>8, <2>2, StepWrites
    <3>2. Recites(w)'
      BY <1>2, <1>8, <2>2, StepRecites
    <3>3. \A v \in Workers \ {w} : Recites(v)'
      BY <1>2, <1>8, <3>1, OthersRecite DEF Others
    <3>4. ASSUME AttestAbandonment(w) PROVE Named' /\ ToldAll'
      <4> DEFINE e == Entry(w, Writing(w))
      <4>1. chain' = chain \cup InsertIn(tx[w], e).entries /\ worker[w].phase = "abandonment"
        BY <3>4 DEF AttestAbandonment, Publish
      <4>2. TxOK(tx[w]) /\ tx[w].entries = {}
        BY <4>1 DEF Shape, CallersOK, CallerOK
      <4>3. InsertIn(tx[w], e).entries = {e}
        BY <4>2, InsertInKeeps
      <4>4. e.call = NoCall /\ e.action = "step_abandoned"
        BY <4>1 DEF Entry, Writing, Attestation
      <4> HIDE DEF e
      <4> QED
        BY <1>2, <3>1, <4>1, <4>3, <4>4, UntoldEntries
    <3> QED
      BY <1>3, <3>1, <3>2, <3>3, <3>4
  <2> QED
    BY <2>1, <2>2
<1> QED
  BY <1>4, <1>5, <1>6, <1>7, <1>8, WhoMoves

LEMMA RecitedInit == Init => Recited
<1> SUFFICES ASSUME Init PROVE Recited
  OBVIOUS
<1>1. /\ chain = {} /\ \A t \in Tasks : tasks[t] = NoTask
      /\ \A w \in Workers : worker[w] = Idle
  BY DEF Init
<1>2. \A w \in Workers : Recites(w)
  BY <1>1 DEF Recites, OwnsCredits, OwnsTask, Idle
<1>3. ASSUME NEW t \in Tasks PROVE Lists(Told(t), t, EventsOf(t), 0, Len(EventsOf(t)))
  <2>1. Told(t) = {} /\ EventsOf(t) = <<>>
    BY <1>1 DEF Told, EventsOf, Created
  <2>2. Len(<<>>) = 0 /\ Lists({}, t, <<>>, 0, 0)
    BY ListsNothing
  <2> QED
    BY <2>1, <2>2
<1> QED
  BY <1>1, <1>2, <1>3 DEF Recited, Named, ToldAll

LEMMA RecitedForever == Spec => [](Shape /\ OneOwner /\ Balanced /\ Linear /\ Recited)
<1>1. Init => Balanced /\ OneOwner
  BY BalancedInit DEF Init, OneOwner, OwnsTask, OwnsCredits, Idle
<1> QED
  BY <1>1, ShapeInit, ShapeNext, OwnersNext, BalancedNext, LinearInit, LinearNext,
     RecitedInit, RecitedNext, PTL DEF Spec

\* What Journal gives, from what the chain lists.
LEMMA JournalIs ==
  ASSUME Shape, ToldAll, NEW t \in Tasks
  PROVE  /\ EventsOf(t) \in Seq(Events)
         /\ DOMAIN Journal(t) = 1 .. Len(EventsOf(t))
         /\ Journal(t) = [k \in 1 .. Len(EventsOf(t)) |-> Journal(t)[k]]
         /\ \A k \in 1 .. Len(EventsOf(t)) :
              Untag(Journal(t)[k]) = EventAttestation(t, EventsOf(t)[k])
<1>1. EventsOf(t) \in Seq(Events)
  <2>1. t \in Created => tasks[t] \in TaskStates
    BY DEF Shape, TablesOK, Created, Rows
  <2> QED
    BY <2>1 DEF EventsOf, TaskStates
<1> DEFINE n == Len(EventsOf(t))
<1>2. n \in Nat
  BY <1>1
<1>3. Lists(Told(t), t, EventsOf(t), 0, n)
  BY DEF ToldAll
<1>4. /\ Cardinality(Told(t)) = n
      /\ \A k \in 1 .. n :
           Untag(CHOOSE e \in Told(t) : Rank(e, Told(t)) = k) = EventAttestation(t, EventsOf(t)[k])
  BY <1>2, <1>3, ListsAreRanked
<1> HIDE DEF n
<1>5. Journal(t) = [k \in 1 .. n |-> CHOOSE e \in Told(t) : Rank(e, Told(t)) = k]
  BY <1>4 DEF Journal
<1>6. /\ DOMAIN Journal(t) = 1 .. n
      /\ \A k \in 1 .. n : Untag(Journal(t)[k]) = EventAttestation(t, EventsOf(t)[k])
  BY <1>4, <1>5
<1> QED
  BY <1>1, <1>5, <1>6 DEF n

\* Of every task the chain tells exactly what the envelope tells, event by
\* event and in the same order, however many attempts were lost and whoever
\* else was appending.
THEOREM JournalsAgree == Spec => []JournalTellsTheState
<1>1. ASSUME Shape, Recited PROVE JournalTellsTheState
  <2>1. SUFFICES ASSUME NeverRestored, NEW t \in Tasks
                 PROVE  /\ Len(Journal(t)) = Len(EventsOf(t))
                        /\ \A k \in DOMAIN Journal(t) :
                             Untag(Journal(t)[k]) = EventAttestation(t, EventsOf(t)[k])
    BY DEF JournalTellsTheState, EventsOf, Untag
  <2>2. ToldAll
    BY <1>1, <2>1 DEF Recited
  <2>3. /\ EventsOf(t) \in Seq(Events)
        /\ DOMAIN Journal(t) = 1 .. Len(EventsOf(t))
        /\ Journal(t) = [k \in 1 .. Len(EventsOf(t)) |-> Journal(t)[k]]
        /\ \A k \in 1 .. Len(EventsOf(t)) :
             Untag(Journal(t)[k]) = EventAttestation(t, EventsOf(t)[k])
    BY <1>1, <2>2, JournalIs
  <2>4. Len(EventsOf(t)) \in Nat
    BY <2>3
  <2>5. Len(Journal(t)) = Len(EventsOf(t))
    BY <2>3, <2>4
  <2> QED
    BY <2>3, <2>5
<1> QED
  BY <1>1, RecitedForever, PTL

-----------------------------------------------------------------------------
(***************************************************************************)
(* What the verifier is given                                              *)
(***************************************************************************)
\* The places of the chain, from 1, whose entries bear a call.
CallPlaces == {h \in DOMAIN InOrder : InOrder[h].call # NoCall}

\* The record of an entry, among those the query keeps.
RecordPlace(e) == Place(CallPlaces, e.height + 1)

\* The query lists the entries that bear a call, in the order of their heights.
LEMMA RecordsAre ==
  ASSUME Linear
  PROVE  /\ Cardinality(CallPlaces) \in Nat
         /\ DOMAIN ChainRecords = 1 .. Cardinality(CallPlaces)
         /\ \A e \in chain : e.call # NoCall =>
              /\ RecordPlace(e) \in DOMAIN ChainRecords
              /\ ChainRecords[RecordPlace(e)] = Record(KindOf[e.action], e.call)
         /\ \A p \in DOMAIN ChainRecords :
              \E e \in chain : e.call # NoCall /\ p = RecordPlace(e)
         /\ \A e \in chain : \A f \in chain :
              e.call # NoCall /\ f.call # NoCall /\ e.height < f.height
                => RecordPlace(e) < RecordPlace(f)
<1> DEFINE n == Cardinality(chain)
           K == CallPlaces
           m == Cardinality(K)
<1>1. n \in Nat /\ IsFiniteSet(chain) /\ Heights(chain) = 0 .. n - 1
  BY DEF Linear, Run
<1>2. \A e \in chain : e.height \in 0 .. n - 1
  BY <1>1 DEF Heights
<1>3. \A h \in 0 .. n - 1 : \E e \in chain : e.height = h
  BY <1>1 DEF Heights
<1>4. \A e \in chain : \A f \in chain : e.height = f.height => e = f
  <2> DEFINE g == [e \in chain |-> e.height]
  <2>1. g \in Surjection(chain, 0 .. n - 1)
    BY <1>2, <1>3 DEF Surjection
  <2>2. IsFiniteSet(0 .. n - 1) /\ Cardinality(0 .. n - 1) = n
    BY <1>1, FS_Interval
  <2>3. g \in Injection(chain, 0 .. n - 1)
    <3> HIDE DEF g
    <3> QED
      BY <1>1, <2>1, <2>2, FS_Surjection
  <2> QED
    BY <2>3 DEF Injection, IsInjective
<1>5. /\ DOMAIN InOrder = 1 .. n
      /\ \A h \in 1 .. n : InOrder[h] \in chain /\ InOrder[h].height = h - 1
  <2>1. \A h \in 1 .. n : InOrder[h] = CHOOSE e \in chain : e.height = h - 1
    BY DEF InOrder
  <2>2. \A h \in 1 .. n : h - 1 \in 0 .. n - 1
    BY <1>1
  <2>3. DOMAIN InOrder = 1 .. n
    BY DEF InOrder
  <2> QED
    BY <1>3, <2>1, <2>2, <2>3
<1>6. ASSUME NEW e \in chain
      PROVE  e.height + 1 \in 1 .. n /\ InOrder[e.height + 1] = e
  <2>1. e.height + 1 \in 1 .. n /\ (e.height + 1) - 1 = e.height
    BY <1>1, <1>2
  <2> QED
    BY <1>4, <1>5, <2>1
<1>7. K \in SUBSET (1 .. n) /\ IsFiniteSet(1 .. n)
  BY <1>1, <1>5, FS_Interval DEF CallPlaces
<1>8. IsFiniteSet(K) /\ m \in Nat /\ \A x \in K : x \in Int
  <2>1. \A x \in K : x \in Int
    BY <1>7
  <2> HIDE DEF K
  <2>2. IsFiniteSet(K)
    BY <1>7, FS_Subset
  <2> QED
    BY <2>1, <2>2, FS_CardinalityType
<1>9. \A h \in K : h \in 1 .. n /\ InOrder[h] \in chain /\ InOrder[h].call # NoCall
                   /\ InOrder[h].height + 1 = h
  BY <1>5, <1>7 DEF CallPlaces
<1>10. \A e \in chain : e.call # NoCall => e.height + 1 \in K
  BY <1>5, <1>6 DEF CallPlaces
<1>11. /\ DOMAIN Increasing(K) = 1 .. m
       /\ \A q \in 1 .. m : Increasing(K)[q] \in K /\ Place(K, Increasing(K)[q]) = q
       /\ \A k \in K : Increasing(K)[Place(K, k)] = k
       /\ \A k \in K : Place(K, k) \in 1 .. m
       /\ \A k \in K : \A l \in K : k < l => Place(K, k) < Place(K, l)
  BY <1>8, IncreasingIs, PlaceIs
<1>12. ChainRecords =
         [q \in DOMAIN Increasing(K) |->
            Record(KindOf[InOrder[Increasing(K)[q]].action], InOrder[Increasing(K)[q]].call)]
  BY DEF ChainRecords, CallPlaces
<1> HIDE DEF K, m, n
<1>13. DOMAIN ChainRecords = 1 .. m
  BY <1>11, <1>12
<1>14. ASSUME NEW e \in chain, e.call # NoCall
       PROVE  /\ RecordPlace(e) \in 1 .. m
              /\ ChainRecords[RecordPlace(e)] = Record(KindOf[e.action], e.call)
  <2>1. RecordPlace(e) = Place(K, e.height + 1) /\ e.height + 1 \in K
    BY <1>10, <1>14 DEF RecordPlace, K
  <2>2. RecordPlace(e) \in 1 .. m /\ Increasing(K)[RecordPlace(e)] = e.height + 1
    BY <1>11, <2>1
  <2> QED
    BY <1>6, <1>11, <1>12, <2>2
<1>15. ASSUME NEW p \in 1 .. m
       PROVE  \E e \in chain : e.call # NoCall /\ p = RecordPlace(e)
  <2> DEFINE e == InOrder[Increasing(K)[p]]
  <2>1. e \in chain /\ e.call # NoCall /\ e.height + 1 = Increasing(K)[p]
    BY <1>9, <1>11
  <2>2. RecordPlace(e) = p
    BY <1>11, <2>1 DEF RecordPlace, K
  <2> QED
    BY <2>1, <2>2
<1>16. ASSUME NEW e \in chain, NEW f \in chain,
              e.call # NoCall, f.call # NoCall, e.height < f.height
       PROVE  RecordPlace(e) < RecordPlace(f)
  <2>1. e.height + 1 \in K /\ f.height + 1 \in K /\ e.height + 1 < f.height + 1
    BY <1>1, <1>2, <1>10, <1>16
  <2> QED
    BY <1>11, <2>1 DEF RecordPlace, K
<1> QED
  BY <1>8, <1>13, <1>14, <1>15, <1>16 DEF K, m

LEMMA RecordIs == \A k, c : Record(k, c).call = c /\ Record(k, c).kind = k
BY DEF Record

\* Of each call a record bears, the records are those of the events of a task:
\* as many, in the same order, of the same kinds.
LEMMA CallIsTold ==
  ASSUME Shape, Linear, Named, ToldAll, NEW p \in DOMAIN ChainRecords
  PROVE  LET c == ChainRecords[p].call
             t == tasks[c[1]]
         IN  /\ c[1] \in Created /\ t \in Rows
             /\ c[2] \in Nat /\ c[2] <= t.iteration /\ CallPositions(t, c[2]) # {}
             /\ \E at :
                  /\ {q \in DOMAIN ChainRecords : ChainRecords[q].call = c}
                       = {at[k] : k \in CallPositions(t, c[2])}
                  /\ \A k \in CallPositions(t, c[2]) :
                       ChainRecords[at[k]] = Record(KindOf[t.audit[k].action], c)
                  /\ \A j \in CallPositions(t, c[2]) : \A k \in CallPositions(t, c[2]) :
                       j < k => at[j] < at[k]
<1> DEFINE R == ChainRecords
           c == R[p].call
           u == c[1]
           i == c[2]
           t == tasks[u]
           own == {q \in DOMAIN R : R[q].call = c}
           P == CallPositions(t, i)
<1>1. \A e \in chain : e.call # NoCall =>
        RecordPlace(e) \in DOMAIN R /\ R[RecordPlace(e)] = Record(KindOf[e.action], e.call)
  BY RecordsAre
<1>2. PICK e0 \in chain : e0.call # NoCall /\ p = RecordPlace(e0)
  BY RecordsAre
<1>3. e0.call = c
  BY <1>1, <1>2, RecordIs
<1>4. u \in Tasks /\ c # NoCall
  BY <1>2, <1>3 DEF Named
<1>5. \A e \in chain : e.call = c => e \in Told(u)
  BY <1>4 DEF Named, Told
<1> DEFINE a == EventsOf(u)
           n == Len(a)
<1>6. PICK x : Listing(x, Told(u), u, a, 0, n)
  BY <1>4 DEF ToldAll, Lists
<1>7. /\ Told(u) = {x[k] : k \in 0 + 1 .. n}
      /\ \A k \in 0 + 1 .. n : x[k].height \in Nat /\ Untag(x[k]) = EventAttestation(u, a[k])
      /\ \A j, k \in 0 + 1 .. n : j < k => x[j].height < x[k].height
  BY <1>6 DEF Listing
<1>8. e0 \in Told(u)
  BY <1>2, <1>3, <1>5
<1>9. u \in Created
  <2>1. CASE u \notin Created
    <3>1. n = 0
      BY <2>1 DEF EventsOf
    <3>2. 0 + 1 .. n = {}
      BY <3>1
    <3> QED
      BY <1>7, <1>8, <3>2
  <2> QED
    BY <2>1
<1>10. t \in Rows /\ a = t.audit /\ t \in TaskStates /\ WellFormed(t)
  BY <1>9 DEF Shape, TablesOK, Created, EventsOf, Rows
<1>11. n \in Nat /\ DOMAIN a = 1 .. n /\ \A k \in 1 .. n : a[k] \in Events
  BY <1>10 DEF TaskStates
<1>12. \A k \in 1 .. n : /\ x[k] \in Told(u) /\ x[k] \in chain /\ x[k].height \in Nat
                         /\ Untag(x[k]) = EventAttestation(u, a[k])
  <2>1. \A k \in 1 .. n : k \in 0 + 1 .. n
    OBVIOUS
  <2> QED
    BY <1>7, <2>1 DEF Told
<1> HIDE DEF R, a, n, t
<1>13. ASSUME NEW k \in 1 .. n
       PROVE  /\ x[k].call = c <=> k \in P
              /\ x[k].action = a[k].action
  <2>1. /\ x[k].action = a[k].action
        /\ x[k].call = EventAttestation(u, a[k]).call
    BY <1>12, UntagIs
  <2>2. CASE a[k].action \in CallActions
    <3>1. x[k].call = Call(u, a[k].iteration)
      BY <2>1, <2>2, AttestationIs
    <3>2. c = Call(u, i)
      <4>1. PICK l \in 0 + 1 .. n : e0 = x[l]
        BY <1>7, <1>8
      <4>2. l \in 1 .. n
        BY <4>1
      <4>3. e0.call = EventAttestation(u, a[l]).call
        BY <1>12, <4>1, <4>2, UntagIs
      <4>4. e0.call = Call(u, a[l].iteration)
        BY <1>3, <1>4, <4>3, AttestationIs
      <4> QED
        BY <1>3, <4>4 DEF Call
    <3>3. x[k].call = c <=> a[k].iteration = i
      BY <3>1, <3>2 DEF Call
    <3> QED
      BY <1>10, <1>11, <2>1, <2>2, <3>3 DEF CallPositions, IsOfCall
  <2>3. CASE a[k].action \notin CallActions
    <3>1. x[k].call = NoCall
      BY <2>1, <2>3, AttestationIs
    <3> QED
      BY <1>4, <1>10, <2>1, <2>3, <3>1 DEF CallPositions, IsOfCall
  <2> QED
    BY <2>2, <2>3
<1>14. P \subseteq 1 .. n
  BY <1>10, <1>11 DEF CallPositions
<1> DEFINE at == [k \in P |-> RecordPlace(x[k])]
<1>15. ASSUME NEW k \in P
       PROVE  at[k] \in own /\ R[at[k]] = Record(KindOf[t.audit[k].action], c)
  <2>1. k \in 1 .. n /\ x[k].call = c /\ x[k].action = t.audit[k].action /\ x[k] \in chain
    BY <1>10, <1>12, <1>13, <1>14
  <2>2. RecordPlace(x[k]) \in DOMAIN R /\ R[RecordPlace(x[k])] = Record(KindOf[x[k].action], c)
    BY <1>1, <1>4, <2>1
  <2> QED
    BY <2>1, <2>2, RecordIs
<1>16. ASSUME NEW q \in own PROVE \E k \in P : q = at[k]
  <2>1. PICK e \in chain : e.call # NoCall /\ q = RecordPlace(e)
    BY RecordsAre DEF R
  <2>2. e.call = c
    BY <1>1, <2>1, RecordIs
  <2>3. PICK k \in 0 + 1 .. n : e = x[k]
    BY <1>5, <1>7, <2>2
  <2>4. k \in P
    BY <1>13, <2>2, <2>3
  <2> QED
    BY <2>1, <2>3, <2>4
<1>17. ASSUME NEW j \in P, NEW k \in P, j < k PROVE at[j] < at[k]
  <2>1. /\ j \in 1 .. n /\ k \in 1 .. n /\ x[j] \in chain /\ x[k] \in chain
        /\ x[j].call # NoCall /\ x[k].call # NoCall
    BY <1>4, <1>12, <1>13, <1>14
  <2>2. x[j].height < x[k].height
    BY <1>7, <1>17, <2>1
  <2> QED
    BY <2>1, <2>2, RecordsAre
<1>18. P # {}
  <2>1. p \in own
    BY DEF R
  <2> QED
    BY <1>16, <2>1
<1>19. i \in Nat /\ i <= t.iteration
  <2>1. PICK k \in P : TRUE
    BY <1>18
  <2>2. k \in DOMAIN t.audit /\ t.audit[k].iteration = i /\ t.audit[k] \in Events
    BY <1>10, <1>11, <1>14, <2>1 DEF CallPositions, IsOfCall
  <2> QED
    BY <1>10, <2>2 DEF WellFormed, Events
<1>20. own = {at[k] : k \in P}
  BY <1>15, <1>16
<1>21. \E f : /\ own = {f[k] : k \in P}
              /\ \A k \in P : R[f[k]] = Record(KindOf[t.audit[k].action], c)
              /\ \A j \in P : \A k \in P : j < k => f[j] < f[k]
  <2> HIDE DEF at, own, P, c
  <2> QED
    BY <1>15, <1>17, <1>20
<1> QED
  BY <1>9, <1>10, <1>18, <1>19, <1>21 DEF R, t

\* What the records tell of a call is what the events of its task tell.
LEMMA CallIsToldOnce ==
  ASSUME Shape, Linear, Named, ToldAll, NEW p \in DOMAIN ChainRecords
  PROVE  LET c == ChainRecords[p].call
             t == tasks[c[1]]
         IN  /\ ToldOnce(ChainRecords, c)
             /\ \/ ClosedCall(ChainRecords, DOMAIN ChainRecords, c)
                \/ c[2] = t.iteration /\ OpenIn(t, c[2]) /\ t \in Rows
<1> DEFINE R == ChainRecords
           c == R[p].call
           t == tasks[c[1]]
           i == c[2]
           P == CallPositions(t, i)
           own == {q \in DOMAIN R : R[q].call = c}
<1>1. /\ t \in Rows /\ i \in Nat /\ i <= t.iteration /\ P # {}
      /\ \E at : /\ own = {at[k] : k \in P}
                 /\ \A k \in P : R[at[k]] = Record(KindOf[t.audit[k].action], c)
                 /\ \A j \in P : \A k \in P : j < k => at[j] < at[k]
  BY CallIsTold
<1>2. PICK at : /\ own = {at[k] : k \in P}
                /\ \A k \in P : R[at[k]] = Record(KindOf[t.audit[k].action], c)
                /\ \A j \in P : \A k \in P : j < k => at[j] < at[k]
  BY <1>1
<1>3. WellFormed(t) /\ t.iteration \in Nat
  BY <1>1 DEF Rows, TaskStates
<1>4. /\ KindOf["tool_call_intended"] = "intent"
      /\ KindOf["tool_call_completed"] # "intent"
      /\ KindOf["tool_call_denied"] # "intent"
  BY DEF KindOf
<1>5. own \subseteq DOMAIN R
  OBVIOUS
<1> HIDE DEF R, c, t, i, P, own
<1>6. \A k \in P : /\ at[k] \in own /\ at[k] \in DOMAIN R
                   /\ t.audit[k].action = "tool_call_intended" => Opens(R[at[k]], c)
                   /\ t.audit[k].action \in {"tool_call_completed", "tool_call_denied"}
                        => Closes(R[at[k]], c)
  <2> TAKE k \in P
  <2>1. at[k] \in own /\ at[k] \in DOMAIN R
    BY <1>2, <1>5
  <2>2. R[at[k]].call = c /\ R[at[k]].kind = KindOf[t.audit[k].action]
    BY <1>2, RecordIs
  <2> QED
    BY <1>4, <2>1, <2>2 DEF Opens, Closes
<1>7. ToldOnce(R, c) <=>
        \/ own = {}
        \/ \E q \in own : own = {q} /\ Opens(R[q], c)
        \/ \E q, r \in own : q < r /\ own = {q, r} /\ Opens(R[q], c) /\ Closes(R[r], c)
  BY DEF ToldOnce, own
<1>8. ASSUME NEW d \in {"tool_call_completed", "tool_call_denied"}, ClosedIn(t, i, d)
      PROVE  ToldOnce(R, c) /\ ClosedCall(R, DOMAIN R, c)
  <2>1. PICK a \in P, b \in P : /\ a < b /\ P = {a, b}
                                /\ t.audit[a].action = "tool_call_intended"
                                /\ t.audit[b].action = d
    BY <1>8 DEF ClosedIn, P
  <2>2. /\ own = {at[a], at[b]} /\ at[a] < at[b]
        /\ Opens(R[at[a]], c) /\ Closes(R[at[b]], c)
        /\ at[a] \in own /\ at[b] \in own /\ at[a] \in DOMAIN R /\ at[b] \in DOMAIN R
    BY <1>2, <1>6, <2>1
  <2>3. ToldOnce(R, c)
    BY <1>7, <2>2
  <2>4. ClosedCall(R, DOMAIN R, c)
    BY <2>2 DEF ClosedCall
  <2> QED
    BY <2>3, <2>4
<1>9. ASSUME OpenIn(t, i) PROVE ToldOnce(R, c)
  <2>1. PICK a \in P : P = {a} /\ t.audit[a].action = "tool_call_intended"
    BY <1>9 DEF OpenIn, P
  <2>2. own = {at[a]} /\ Opens(R[at[a]], c) /\ at[a] \in own
    BY <1>2, <1>6, <2>1
  <2> QED
    BY <1>7, <2>2
<1>10. \/ ClosedIn(t, i, "tool_call_completed") \/ ClosedIn(t, i, "tool_call_denied")
       \/ i = t.iteration /\ OpenIn(t, i)
  <2>1. i \in 0 .. t.iteration - 1 \/ i = t.iteration
    BY <1>1, <1>3
  <2>2. ~UntoldIn(t, i)
    BY <1>1 DEF UntoldIn, P
  <2> QED
    BY <1>3, <2>1, <2>2 DEF WellFormed
<1>11. /\ ToldOnce(R, c)
       /\ \/ ClosedCall(R, DOMAIN R, c)
          \/ i = t.iteration /\ OpenIn(t, i) /\ t \in Rows
  BY <1>1, <1>8, <1>9, <1>10
<1> QED
  BY <1>11 DEF R, c, t, i

\* verify_sequence finds no fault in the chain of an organisation, however many
\* tasks and callers there are and whatever they lost, and the calls it reports
\* open are those of suspended tasks and of tasks stopped before the execution.
THEOREM VerifierAccepts == Spec => []VerifierAcceptsTheChain
<1>1. ASSUME Shape, Linear, Recited PROVE VerifierAcceptsTheChain
  <2> DEFINE R == ChainRecords
             m == Cardinality(CallPlaces)
  <2>1. SUFFICES ASSUME NeverRestored
                 PROVE  /\ Violations(R) = {}
                        /\ \A c \in OpenCalls(R) :
                             LET t == tasks[c[1]]
                             IN  /\ c[2] = t.iteration
                                 /\ t.status \in {"waiting_approval", "failed", "aborted_cost_ceiling"}
    BY DEF VerifierAcceptsTheChain
  <2>2. Named /\ ToldAll
    BY <1>1, <2>1 DEF Recited
  <2>3. m \in Nat /\ DOMAIN R = 1 .. m
    BY <1>1, RecordsAre
  <2>4. ASSUME NEW p \in DOMAIN R
        PROVE  /\ ToldOnce(R, R[p].call)
               /\ \/ ClosedCall(R, DOMAIN R, R[p].call)
                  \/ /\ R[p].call[2] = tasks[R[p].call[1]].iteration
                     /\ OpenIn(tasks[R[p].call[1]], R[p].call[2])
                     /\ tasks[R[p].call[1]] \in Rows
    BY <1>1, <2>2, <2>4, CallIsToldOnce
  <2> HIDE DEF R, m
  <2>5. ASSUME NEW c PROVE ToldOnce(R, c)
    <3>1. CASE \E p \in DOMAIN R : R[p].call = c
      BY <2>4, <3>1
    <3>2. CASE ~\E p \in DOMAIN R : R[p].call = c
      BY <3>2 DEF ToldOnce
    <3> QED
      BY <3>1, <3>2
  <2>6. Violations(R) = {}
    BY <2>3, <2>5, AcceptedIs
  <2>7. ASSUME NEW c \in OpenCalls(R)
        PROVE  /\ c[2] = tasks[c[1]].iteration
               /\ tasks[c[1]].status \in {"waiting_approval", "failed", "aborted_cost_ceiling"}
    <3>1. Opened(R, DOMAIN R, c) /\ ~ClosedCall(R, DOMAIN R, c)
      BY <2>3, <2>7, VerdictIs
    <3>2. PICK p \in DOMAIN R : R[p].call = c
      BY <3>1 DEF Opened, Opens
    <3> DEFINE t == tasks[c[1]]
    <3>3. c[2] = t.iteration /\ OpenIn(t, t.iteration) /\ t \in Rows
      BY <2>4, <3>1, <3>2
    <3>4. ~UntoldIn(t, t.iteration)
      BY <3>3 DEF OpenIn, UntoldIn
    <3>5. t.status \in Statuses /\ t.status \notin {"pending", "running", "succeeded"}
      BY <3>3, <3>4 DEF Rows, WellFormed, TaskStates
    <3> QED
      BY <3>3, <3>5 DEF Statuses, Terminal
  <2> QED
    BY <2>6, <2>7
<1> QED
  BY <1>1, RecitedForever, PTL

-----------------------------------------------------------------------------
(***************************************************************************)
(* The persisted steps implement the ledger                                *)
(***************************************************************************)
ContentsOf(events) == [k \in 1 .. Len(events) |-> EventContent(events[k])]

LedgerJournal == [t \in Tasks |-> Contents(Journal(t))]

ClosedTasks == {t \in Created : tasks[t].status \in Terminal}

LEMMA LedgerIs ==
  /\ Ledger!Init <=>
       /\ credits = InitialBalance
       /\ SpentBy = [t \in Tasks |-> 0]
       /\ LedgerJournal = [t \in Tasks |-> <<>>]
       /\ ClosedTasks = {}
  /\ \A t : Ledger!Advance(t) <=>
       /\ t \notin ClosedTasks
       /\ Ledger!IsStrictPrefix(LedgerJournal[t], LedgerJournal'[t])
       /\ LedgerJournal' = [LedgerJournal EXCEPT ![t] = LedgerJournal'[t]]
       /\ credits' \in 0 .. credits
       /\ SpentBy' = [SpentBy EXCEPT ![t] = @ + (credits - credits')]
       /\ ClosedTasks' \in {ClosedTasks, ClosedTasks \cup {t}}
  /\ Ledger!vars = <<credits, SpentBy, LedgerJournal, ClosedTasks>>
BY DEF Ledger!Init, Ledger!Advance, Ledger!vars, LedgerJournal, ClosedTasks

\* The journal of the ledger is that of the envelope.
LEMMA LedgerJournalIs ==
  ASSUME Shape, ToldAll, NEW t \in Tasks
  PROVE  LedgerJournal[t] = ContentsOf(EventsOf(t))
<1> DEFINE n == Len(EventsOf(t))
<1>1. /\ DOMAIN Journal(t) = 1 .. n
      /\ \A k \in 1 .. n : Untag(Journal(t)[k]) = EventAttestation(t, EventsOf(t)[k])
  BY JournalIs
<1> HIDE DEF n
<1>2. \A k \in 1 .. n : Journal(t)[k].content = EventContent(EventsOf(t)[k])
  BY <1>1, UntagIs
<1>3. Contents(Journal(t)) = [k \in 1 .. n |-> EventContent(EventsOf(t)[k])]
  BY <1>1, <1>2 DEF Contents
<1> QED
  BY <1>3 DEF LedgerJournal, ContentsOf, n

\* A journal continued is a strict prefix of what continues it.
LEMMA ContentsGrow ==
  ASSUME NEW a \in Seq(Events), NEW b \in Seq(Events), Len(a) < Len(b),
         \A k \in 1 .. Len(a) : b[k] = a[k]
  PROVE  Ledger!IsStrictPrefix(ContentsOf(a), ContentsOf(b))
<1> DEFINE S == {EventContent(e) : e \in Events}
           m == Len(a)
           n == Len(b)
           s == ContentsOf(a)
           u == ContentsOf(b)
<1>1. m \in Nat /\ n \in Nat /\ m < n
  OBVIOUS
<1>2. s \in Seq(S) /\ Len(s) = m /\ \A k \in 1 .. m : s[k] = EventContent(a[k])
  <2>1. \A k \in 1 .. m : a[k] \in Events
    OBVIOUS
  <2>2. s \in [1 .. m -> S]
    BY <2>1 DEF ContentsOf
  <2> QED
    BY <1>1, <2>2 DEF ContentsOf
<1>3. u \in Seq(S) /\ Len(u) = n /\ \A k \in 1 .. n : u[k] = EventContent(b[k])
  <2>1. \A k \in 1 .. n : b[k] \in Events
    OBVIOUS
  <2>2. u \in [1 .. n -> S]
    BY <2>1 DEF ContentsOf
  <2> QED
    BY <1>1, <2>2 DEF ContentsOf
<1>4. \A k \in 1 .. m : s[k] = u[k]
  BY <1>1, <1>2, <1>3
<1> HIDE DEF S, m, n, s, u
<1>5. SubSeq(s, 1, m) = SubSeq(u, 1, m)
  <2>1. /\ SubSeq(s, 1, m) \in Seq(S) /\ Len(SubSeq(s, 1, m)) = m
        /\ \A k \in 1 .. m : SubSeq(s, 1, m)[k] = s[k]
    BY <1>1, <1>2
  <2>2. /\ SubSeq(u, 1, m) \in Seq(S) /\ Len(SubSeq(u, 1, m)) = m
        /\ \A k \in 1 .. m : SubSeq(u, 1, m)[k] = u[k]
    BY <1>1, <1>3
  <2>3. \A k \in 1 .. m : SubSeq(s, 1, m)[k] = SubSeq(u, 1, m)[k]
    BY <1>4, <2>1, <2>2
  <2> QED
    BY <2>1, <2>2, <2>3, SeqEqual
<1>6. s # u
  BY <1>1, <1>2, <1>3
<1>7. Ledger!IsStrictPrefix(s, u)
  BY <1>1, <1>2, <1>3, <1>5, <1>6 DEF Ledger!IsStrictPrefix, Ledger!IsPrefix
<1> QED
  BY <1>7 DEF s, u

Mirrored == \A t \in Tasks : LedgerJournal[t] = ContentsOf(EventsOf(t))

\* A step that moves neither the money nor a journal nor a status is none of
\* the ledger.
LEMMA LedgerStutters ==
  ASSUME Mirrored, Mirrored', credits' = credits,
         \A t \in Tasks : /\ EventsOf(t)' = EventsOf(t)
                          /\ SpentBy'[t] = SpentBy[t]
                          /\ t \in ClosedTasks' <=> t \in ClosedTasks
  PROVE  UNCHANGED Ledger!vars
<1>1. \A t \in Tasks : LedgerJournal'[t] = LedgerJournal[t]
  BY DEF Mirrored
<1>2. LedgerJournal' = LedgerJournal
  BY <1>1 DEF LedgerJournal
<1>3. SpentBy' = SpentBy
  BY DEF SpentBy
<1>4. ClosedTasks' = ClosedTasks
  BY DEF ClosedTasks, Created
<1> HIDE DEF LedgerJournal, ClosedTasks, SpentBy
<1>5. Ledger!vars' = <<credits', SpentBy', LedgerJournal', ClosedTasks'>>
  BY DEF Ledger!vars, LedgerJournal, ClosedTasks
<1> QED
  BY <1>2, <1>3, <1>4, <1>5, LedgerIs

\* A commit is a step of the ledger, or of nothing it tells.
LEMMA CommitAdvances ==
  ASSUME Shape, Mirrored, Mirrored', NEW w \in Workers, Commit(w), Funds(w), Recites(w)
  PROVE  [Ledger!Next]_(Ledger!vars)
<1>1. /\ CallerOK(worker[w], tx[w]) /\ worker[w] \in Callers /\ worker[w].pc = "commit"
      /\ tasks \in [Tasks -> Rows \cup {NoTask}]
  BY DEF Shape, CallersOK, CallerOK, TablesOK, Commit, At
<1>2. worker[w].phase = "step" /\ OwnsTask(w) /\ OwnsCredits(w)
  BY <1>1 DEF CallerOK, Callers, OwnsTask, OwnsCredits
<1>3. /\ worker[w].task \in Tasks /\ worker[w].state \in Rows
      /\ tasks[worker[w].task] \in Rows /\ NoTask \notin Rows
  BY <1>1, <1>2, TaskStoreAssumption DEF CallerOK, Funds, Rows
<1> SUFFICES ASSUME NEW t \in Tasks, NEW a \in Rows, NEW b \in Rows,
                    worker[w].task = t, tasks[t] = a, worker[w].state = b
             PROVE  [Ledger!Next]_(Ledger!vars)
  BY <1>3
<1>4. tasks' = [tasks EXCEPT ![t] = b] /\ credits' = b.budget.org_balance
  BY DEF Commit
<1>5. Grows(a, b) /\ b.budget.org_balance <= credits
  BY <1>2 DEF Recites, Reciting
<1>6. Wealth(b) = a.budget.consumed + credits
  BY <1>2 DEF Funds
<1>7. /\ a.budget.consumed \in Int /\ b.budget.consumed \in Int
      /\ b.budget.org_balance \in Int /\ b.budget.org_balance >= 0
      /\ credits \in Int /\ credits' \in Int
  <2>1. a.budget \in Budgets /\ b.budget \in Budgets /\ credits \in Amounts
    BY DEF Rows, TaskStates, Shape, TablesOK
  <2> QED
    BY <1>4, <2>1, MaxCentsAssumption DEF Budgets, Amounts
<1>8. /\ a.audit \in Seq(Events) /\ b.audit \in Seq(Events)
      /\ Len(a.audit) \in Nat /\ Len(b.audit) \in Nat
  BY DEF Rows, TaskStates
<1>9. tasks'[t] = b /\ \A u \in Tasks \ {t} : tasks'[u] = tasks[u]
  BY <1>1, <1>4
<1>10. t \in Created /\ Created' = Created
  BY <1>3, <1>9 DEF Created
<1>11. /\ EventsOf(t) = a.audit /\ EventsOf(t)' = b.audit
       /\ \A u \in Tasks \ {t} : EventsOf(u)' = EventsOf(u)
  BY <1>9, <1>10 DEF EventsOf
<1>12. /\ SpentBy[t] = a.budget.consumed /\ SpentBy'[t] = b.budget.consumed
       /\ \A u \in Tasks \ {t} : SpentBy'[u] = SpentBy[u]
  BY <1>9, <1>10 DEF SpentBy
<1>13. /\ t \in ClosedTasks <=> a.status \in Terminal
       /\ t \in ClosedTasks' <=> b.status \in Terminal
       /\ \A u \in Tasks \ {t} : u \in ClosedTasks' <=> u \in ClosedTasks
  BY <1>9, <1>10 DEF ClosedTasks
<1>14. b.budget.consumed = a.budget.consumed + (credits - credits')
  BY <1>4, <1>6, <1>7 DEF Wealth
<1>15. CASE Len(a.audit) = Len(b.audit)
  <2>1. b.status = a.status /\ b.budget.consumed = a.budget.consumed
    BY <1>5, <1>15 DEF Grows
  <2>2. credits' = credits
    BY <1>7, <1>14, <2>1
  <2>3. b.audit = a.audit
    <3>1. \A k \in 1 .. Len(a.audit) : a.audit[k] = b.audit[k]
      BY <1>5 DEF Grows
    <3> QED
      BY <1>8, <1>15, <3>1, SeqEqual
  <2>4. ASSUME NEW u \in Tasks
        PROVE  /\ EventsOf(u)' = EventsOf(u)
               /\ SpentBy'[u] = SpentBy[u]
               /\ u \in ClosedTasks' <=> u \in ClosedTasks
    BY <1>11, <1>12, <1>13, <2>1, <2>3
  <2> QED
    BY <2>2, <2>4, LedgerStutters
<1>16. CASE Len(a.audit) < Len(b.audit)
  <2>1. t \notin ClosedTasks
    BY <1>5, <1>8, <1>13, <1>16 DEF Grows
  <2>2. LedgerJournal[t] = ContentsOf(a.audit) /\ LedgerJournal'[t] = ContentsOf(b.audit)
    BY <1>3, <1>11 DEF Mirrored
  <2>3. \A u \in Tasks \ {t} : LedgerJournal'[u] = LedgerJournal[u]
    BY <1>11 DEF Mirrored
  <2>4. Ledger!IsStrictPrefix(LedgerJournal[t], LedgerJournal'[t])
    <3>1. \A k \in 1 .. Len(a.audit) : b.audit[k] = a.audit[k]
      BY <1>5 DEF Grows
    <3> QED
      BY <1>8, <1>16, <2>2, <3>1, ContentsGrow
  <2>5. /\ LedgerJournal = [u \in Tasks |-> LedgerJournal[u]]
        /\ LedgerJournal' = [u \in Tasks |-> LedgerJournal'[u]]
    BY DEF LedgerJournal
  <2>6. /\ SpentBy = [u \in Tasks |-> SpentBy[u]]
        /\ SpentBy' = [u \in Tasks |-> SpentBy'[u]]
    BY DEF SpentBy
  <2>7. LedgerJournal' = [LedgerJournal EXCEPT ![t] = LedgerJournal'[t]]
    BY <2>3, <2>5
  <2>8. SpentBy' = [SpentBy EXCEPT ![t] = @ + (credits - credits')]
    BY <1>12, <1>14, <2>6
  <2>9. credits' \in 0 .. credits
    BY <1>4, <1>5, <1>7
  <2>10. ClosedTasks' \in {ClosedTasks, ClosedTasks \cup {t}}
    <3>1. ClosedTasks \subseteq Tasks /\ ClosedTasks' \subseteq Tasks
      BY DEF ClosedTasks, Created
    <3>2. CASE b.status \in Terminal
      BY <1>13, <3>1, <3>2
    <3>3. CASE b.status \notin Terminal
      BY <1>13, <2>1, <3>1, <3>3
    <3> QED
      BY <3>2, <3>3
  <2>11. Ledger!Advance(t)
    BY <2>1, <2>4, <2>7, <2>8, <2>9, <2>10, LedgerIs
  <2> QED
    BY <2>11 DEF Ledger!Next
<1> QED
  BY <1>5, <1>8, <1>15, <1>16 DEF Grows

LEMMA LedgerNext ==
  ASSUME Shape, Balanced, Recited, Mirrored, Mirrored', NeverRestored', [Next]_vars
  PROVE  [Ledger!Next]_(Ledger!vars)
<1>1. NeverRestored /\ \A t \in Tasks : ~RestoreTask(t)
  BY RestoresAreCounted
<1>2. \A w \in Workers : Recites(w) /\ Funds(w)
  BY <1>1 DEF Recited, Balanced
<1>3. ASSUME UNCHANGED <<tasks, credits>> PROVE [Ledger!Next]_(Ledger!vars)
  <2>1. \A t \in Tasks : /\ EventsOf(t)' = EventsOf(t)
                         /\ SpentBy'[t] = SpentBy[t]
                         /\ t \in ClosedTasks' <=> t \in ClosedTasks
    BY <1>3 DEF EventsOf, SpentBy, ClosedTasks, Created
  <2> QED
    BY <1>3, <2>1, LedgerStutters
<1>4. CASE \E t \in Tasks : CreateTask(t) \/ RestoreTask(t)
  <2>1. PICK t \in Tasks : CreateTask(t)
    BY <1>1, <1>4
  <2>2. /\ tasks[t] = NoTask /\ tasks' = [tasks EXCEPT ![t] = NewTask(Ceiling, credits)]
        /\ credits' = credits
    BY <2>1 DEF CreateTask
  <2>3. tasks \in [Tasks -> Rows \cup {NoTask}]
    BY DEF Shape, TablesOK
  <2>4. /\ NewTask(Ceiling, credits).audit = <<>>
        /\ NewTask(Ceiling, credits).status = "pending"
        /\ NewTask(Ceiling, credits).budget.consumed = 0
    BY DEF NewTask, NewBudget
  <2>5. tasks'[t] = NewTask(Ceiling, credits)
    BY <2>2, <2>3
  <2>6. \A u \in Tasks \ {t} : tasks'[u] = tasks[u]
    BY <2>2, <2>3
  <2>7. "pending" \notin Terminal
    BY DEF Terminal
  <2> HIDE DEF NewTask
  <2>8. ASSUME NEW u \in Tasks
        PROVE  /\ EventsOf(u)' = EventsOf(u)
               /\ SpentBy'[u] = SpentBy[u]
               /\ u \in ClosedTasks' <=> u \in ClosedTasks
    BY <2>2, <2>4, <2>5, <2>6, <2>7 DEF EventsOf, SpentBy, ClosedTasks, Created
  <2> QED
    BY <2>2, <2>8, LedgerStutters
<1>5. CASE UNCHANGED vars
  BY <1>3, <1>5 DEF vars, database
<1>6. CASE DeleteContent \/ Purging \/ CrashPurge \/ AbortPurge
  BY <1>3, <1>6, PurgeWrites
<1>7. CASE \E w \in Workers : Quits(w) \/ Called(w)
  BY <1>3, <1>7 DEF Quits, Called, Leave, database
<1>8. CASE \E w \in Workers : Step(w)
  BY <1>2, <1>3, <1>8, StepWrites, CommitAdvances
<1> QED
  BY <1>4, <1>5, <1>6, <1>7, <1>8, WhoMoves

LEMMA LedgerInit == Init => Ledger!Init
<1> SUFFICES ASSUME Init PROVE Ledger!Init
  OBVIOUS
<1>1. chain = {} /\ credits = InitialBalance /\ \A t \in Tasks : tasks[t] = NoTask
  BY DEF Init
<1>2. Created = {}
  BY <1>1 DEF Created
<1>3. SpentBy = [t \in Tasks |-> 0] /\ ClosedTasks = {}
  BY <1>2 DEF SpentBy, ClosedTasks
<1>4. ASSUME NEW t \in Tasks PROVE Contents(Journal(t)) = <<>>
  <2>1. Told(t) = {}
    BY <1>1 DEF Told
  <2>2. Cardinality(Told(t)) = 0
    BY <2>1, FS_EmptySet
  <2>3. 1 .. 0 = {}
    OBVIOUS
  <2>4. DOMAIN Journal(t) = {}
    BY <2>2, <2>3 DEF Journal
  <2>5. Contents(Journal(t)) = [k \in {} |-> Journal(t)[k].content]
    BY <2>4 DEF Contents
  <2> QED
    BY <2>3, <2>5
<1>5. LedgerJournal = [t \in Tasks |-> <<>>]
  BY <1>4 DEF LedgerJournal
<1> QED
  BY <1>1, <1>3, <1>5, LedgerIs

\* As long as no envelope goes back in time the store implements the ledger:
\* a step of run_task_step, whose writes are spread over many statements among
\* those of its concurrents, is for the organisation one atomic step of one
\* task, or nothing.
THEOREM StoreImplementsTheLedger == Spec /\ []NeverRestored => LedgerSpec
<1>1. Shape /\ Recited /\ NeverRestored => Mirrored
  BY LedgerJournalIs DEF Recited, Mirrored
<1>2. /\ Shape /\ Balanced /\ Recited
      /\ Mirrored /\ Mirrored' /\ NeverRestored'
      /\ [Next]_vars
      => [Ledger!Next]_(Ledger!vars)
  BY LedgerNext
<1> QED
  BY <1>1, <1>2, LedgerInit, RecitedForever, PTL DEF Spec, LedgerSpec, Ledger!Spec
=============================================================================
