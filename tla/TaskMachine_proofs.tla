-------------------------- MODULE TaskMachine_proofs --------------------------
(***************************************************************************)
(* Theorems about TaskMachine, for every value of its constants.           *)
(***************************************************************************)
EXTENDS TaskMachine, Machine_proofs, Foundations

(***************************************************************************)
(* Type correctness                                                        *)
(***************************************************************************)
\* The initial states have their types.
LEMMA InitType == Init => TypeOK
<1> SUFFICES ASSUME Init PROVE TypeOK
  OBVIOUS
<1>1. ASSUME NEW b \in Balances PROVE NewTask(Ceiling, b) \in TaskStates
  <2>1. NewBudget(Ceiling, b) \in Budgets
    BY TaskMachineAssumption, MaxCentsAssumption DEF NewBudget, Budgets, Amounts
  <2>2. <<>> \in Seq(Events)
    OBVIOUS
  <2> QED
    BY <2>1, <2>2, NoPendingType DEF NewTask, TaskStates, Statuses
<1>2. task \in TaskStates
  BY <1>1, TaskMachineAssumption DEF Init
<1> QED
  BY <1>2, TaskMachineAssumption DEF Init, TypeOK, Approvals

\* Every step keeps the types.
LEMMA NextType == TypeOK /\ [Next]_vars => TypeOK'
<1> SUFFICES ASSUME TypeOK, [Next]_vars PROVE TypeOK'
  OBVIOUS
<1> USE DEF TypeOK
<1>1. CASE Call
  <2>1. PICK b \in Balances : task' = [task EXCEPT !.budget = Refreshed(@, b)]
    BY <1>1 DEF Call
  <2>2. Refreshed(task.budget, b) \in Budgets
    BY RefreshedType, TaskMachineAssumption DEF TaskStates
  <2>3. task' \in TaskStates
    BY <2>1, <2>2, FieldTypes
  <2> QED
    BY <1>1, <2>3, TaskMachineAssumption DEF Call
<1>2. CASE Start
  BY <1>2, StartedType DEF Start, Continue
<1>3. CASE AlreadyOver \/ StillSuspended
  BY <1>3 DEF AlreadyOver, StillSuspended, Return
<1>4. CASE CloseIncoherent
  BY <1>4, ClosedIncoherentType DEF CloseIncoherent, Return
<1>5. CASE Reject
  BY <1>5, RejectedType DEF Reject, Return
<1>6. CASE ApproveButStop
  <2>1. Total(task.pending) \in Cents
    BY TotalType DEF TaskStates
  <2>2. ApprovedButStopped(task) \in TaskStates
    BY <2>1, TakenType, StoppedType DEF ApprovedButStopped
  <2> QED
    BY <1>6, <2>2 DEF ApproveButStop, Return
<1>7. CASE Approve
  BY <1>7, ApprovedType DEF Approve, Continue
<1>8. CASE Exhaust \/ Conclude \/ StopConclusion \/ Deny
  BY <1>8, PassTypes DEF Exhaust, Conclude, StopConclusion, Deny, Return
<1>9. CASE AskApproval \/ StopExecution \/ Execute
  BY <1>9, PassTypes DEF AskApproval, StopExecution, Execute, Return, Continue
<1>10. CASE UNCHANGED vars
  BY <1>10 DEF vars
<1> QED
  BY <1>1, <1>2, <1>3, <1>4, <1>5, <1>6, <1>7, <1>8, <1>9, <1>10 DEF Next, Drive

\* The state `drive` works on is a TaskState between any two of its steps.
THEOREM TypeCorrect == Spec => []TypeOK
BY InitType, NextType, PTL DEF Spec

-----------------------------------------------------------------------------
(***************************************************************************)
(* The bounds on what is spent                                             *)
(***************************************************************************)
BudgetOK(b) == /\ b.ceiling = Ceiling
               /\ b.consumed \in 0 .. Ceiling
               /\ b.org_balance >= 0

\* Neither a charge nor a refresh takes a budget out of its bounds.
LEMMA BudgetStaysOK ==
  ASSUME NEW b \in Budgets, BudgetOK(b)
  PROVE  /\ \A c \in Cents : BudgetOK(Charge(b, c))
         /\ \A m \in Amounts : BudgetOK(Refreshed(b, m))
<1>1. ASSUME NEW c \in Cents PROVE BudgetOK(Charge(b, c))
  <2>1. b.consumed <= b.ceiling /\ b.ceiling \in Int
    BY DEF BudgetOK, Budgets, Amounts
  <2>2. Charge(b, c).consumed \in 0 .. b.ceiling /\ Charge(b, c).org_balance >= 0
    BY <2>1, ChargeIsSound DEF Budgets, Amounts
  <2> QED
    BY <2>2, ChargeType DEF BudgetOK
<1>2. ASSUME NEW m \in Amounts PROVE BudgetOK(Refreshed(b, m))
  BY <1>2, RefreshedType, MaxCentsAssumption DEF BudgetOK, Refreshed, Budgets, Amounts
<1> QED
  BY <1>1, <1>2

\* Invariants 5 and 6 for every ceiling, every balance and every cost: the
\* task never spends above its ceiling nor the organisation below zero.
THEOREM SpendingIsBounded ==
  ASSUME \A t \in Torn : BudgetOK(t.budget)
  PROVE  Spec => []WithinBounds
<1>1. Init => WithinBounds
  <2> SUFFICES ASSUME Init PROVE BudgetOK(task.budget)
    BY DEF WithinBounds, BudgetOK
  <2>1. \A b \in Balances : BudgetOK(NewTask(Ceiling, b).budget)
    <3> TAKE b \in Balances
    <3>1. Ceiling \in Nat /\ b \in Nat
      BY TaskMachineAssumption, MaxCentsAssumption DEF Amounts
    <3>2. NewTask(Ceiling, b).budget = NewBudget(Ceiling, b)
      BY DEF NewTask
    <3>3. BudgetOK(NewBudget(Ceiling, b))
      BY <3>1 DEF NewBudget, BudgetOK
    <3> QED
      BY <3>2, <3>3
  <2> QED
    BY <2>1 DEF Init
<1>2. TypeOK /\ WithinBounds /\ [Next]_vars => WithinBounds'
  <2> SUFFICES ASSUME TypeOK, BudgetOK(task.budget), [Next]_vars
               PROVE  BudgetOK(task'.budget)
    BY DEF WithinBounds, BudgetOK
  <2> DEFINE Charges == {task.budget} \cup {Charge(task.budget, c) : c \in Cents}
  <2>1. task.budget \in Budgets /\ task \in TaskStates /\ rules \in RuleSets
    BY DEF TypeOK, TaskStates
  <2>2. \A b \in Charges : BudgetOK(b)
    BY <2>1, BudgetStaysOK
  <2>3. CASE Call
    <3>1. PICK b \in Balances : task' = [task EXCEPT !.budget = Refreshed(@, b)]
      BY <2>3 DEF Call
    <3>2. task'.budget = Refreshed(task.budget, b)
      BY <2>1, <3>1 DEF TaskStates
    <3> QED
      BY <2>1, <3>2, BudgetStaysOK, TaskMachineAssumption
  <2>4. CASE Drive
    <3>1. task'.budget \in Charges
      BY <2>1, <2>4, BudgetOfBranches
         DEF Drive, Start, AlreadyOver, StillSuspended, CloseIncoherent, Reject,
             ApproveButStop, Approve, Exhaust, Conclude, StopConclusion, Deny,
             AskApproval, StopExecution, Execute
    <3> QED
      BY <2>2, <3>1
  <2>5. CASE UNCHANGED vars
    BY <2>5 DEF vars
  <2> QED
    BY <2>3, <2>4, <2>5 DEF Next
<1> QED
  BY <1>1, <1>2, TypeCorrect, PTL DEF Spec

-----------------------------------------------------------------------------
(***************************************************************************)
(* Suspension                                                              *)
(***************************************************************************)

\* A suspended task can be resumed from its own state alone: it holds the
\* call to run, and no other state of the task holds one.
THEOREM SuspensionIsSelfContained ==
  ASSUME Torn = {}
  PROVE  Spec => []SuspensionHoldsItsCall
<1>1. Init => SuspensionHoldsItsCall
  <2>1. \A b : /\ NewTask(Ceiling, b).status = "pending"
               /\ NewTask(Ceiling, b).pending = NoPending
    BY DEF NewTask
  <2> QED
    BY <2>1 DEF Init, SuspensionHoldsItsCall
<1>2. TypeOK /\ SuspensionHoldsItsCall /\ [Next]_vars => SuspensionHoldsItsCall'
  <2> SUFFICES ASSUME TypeOK, HoldsItsCall(task), [Next]_vars
               PROVE  HoldsItsCall(task')
    BY DEF SuspensionHoldsItsCall, HoldsItsCall
  <2>1. task \in TaskStates /\ rules \in RuleSets
    BY DEF TypeOK
  <2>2. CASE Call
    <3>1. /\ task'.status = task.status
          /\ task'.iteration = task.iteration
          /\ task'.audit = task.audit
          /\ task'.pending = task.pending
      BY <2>1, <2>2 DEF Call, TaskStates
    <3> QED
      BY <3>1 DEF HoldsItsCall
  <2>3. CASE Start
    BY <2>1, <2>3, NoCallIsMade DEF Start, At, HoldsItsCall
  <2>4. CASE AlreadyOver \/ StillSuspended \/ UNCHANGED vars
    BY <2>4 DEF AlreadyOver, StillSuspended, vars
  <2>5. CASE CloseIncoherent
    BY <2>5, MachineAssumption
       DEF CloseIncoherent, Resuming, At, Incoherent, HoldsItsCall
  <2>6. CASE Reject \/ ApproveButStop \/ Approve
    BY <2>1, <2>6, NoCallIsKept
       DEF Reject, ApproveButStop, Approve, Resuming, At, HoldsItsCall
  <2>7. CASE AskApproval
    <3>1. PICK p \in ToolPlans : task' = Suspend(task, p)
      BY <2>7 DEF AskApproval, Suspensions, Judged
    <3>2. ~Spent(task)
      BY <2>7 DEF AskApproval, Planning
    <3> QED
      BY <2>1, <3>1, <3>2, SuspendHoldsItsCall, MachineAssumption
  <2>8. CASE \/ Exhaust \/ Conclude \/ StopConclusion \/ Deny \/ StopExecution \/ Execute
    <3>1. task.status = "running" /\ task.pending = NoPending
      BY <2>8 DEF Exhaust, Conclude, StopConclusion, Deny, StopExecution, Execute,
                  Planning, Looping, HoldsItsCall
    <3>2. task' \in {Exhausted(task)} \cup Conclusions(task) \cup
                    StoppedConclusions(task) \cup Denials(task, rules) \cup
                    StoppedExecutions(task, rules) \cup Executions(task, rules)
      BY <2>8 DEF Exhaust, Conclude, StopConclusion, Deny, StopExecution, Execute
    <3>3. task'.status # "waiting_approval" /\ task'.pending = NoPending
      BY <2>1, <3>1, <3>2, NoCallIsMade
    <3> QED
      BY <3>3 DEF HoldsItsCall
  <2> QED
    BY <2>2, <2>3, <2>4, <2>5, <2>6, <2>7, <2>8 DEF Next, Drive
<1> QED
  BY <1>1, <1>2, TypeCorrect, PTL DEF Spec

-----------------------------------------------------------------------------
(***************************************************************************)
(* The end is the end                                                      *)
(***************************************************************************)

\* A finished task does not move again, for as many calls as its caller makes:
\* only the balance it carries follows the one of the organisation.
THEOREM FinishedIsFinished == Spec => TerminalIsForever
<1>1. TypeOK /\ [Next]_vars =>
        [task.status \in Terminal =>
           task' = [task EXCEPT !.budget = Refreshed(@, task'.budget.org_balance)]]_task
  <2> SUFFICES ASSUME TypeOK, [Next]_vars, task' # task, task.status \in Terminal
               PROVE  task' = [task EXCEPT
                                 !.budget = Refreshed(@, task'.budget.org_balance)]
    OBVIOUS
  <2>1. Call
    BY DEF Next, Drive, Start, AlreadyOver, StillSuspended, CloseIncoherent, Reject,
           ApproveButStop, Approve, Exhaust, Conclude, StopConclusion, Deny, AskApproval,
           StopExecution, Execute, Resuming, Planning, Looping, At, Terminal, vars
  <2>2. PICK b \in Balances : task' = [task EXCEPT !.budget = Refreshed(@, b)]
    BY <2>1 DEF Call
  <2>3. task'.budget.org_balance = b
    <3>1. task'.budget = Refreshed(task.budget, b)
      BY <2>2 DEF TypeOK, TaskStates
    <3> QED
      BY <3>1 DEF Refreshed, TypeOK, TaskStates, Budgets
  <2> QED
    BY <2>2, <2>3
<1> QED
  BY <1>1, TypeCorrect, PTL DEF Spec, TerminalIsForever

-----------------------------------------------------------------------------
(***************************************************************************)
(* drive implements the life of a task                                     *)
(***************************************************************************)

\* Every step of drive is a step of the abstract life, or none: no status is
\* reached along another edge, no call runs beyond the allowance, an approval
\* releases one call, and nothing follows the end.
THEOREM DriveImplementsLifecycle ==
  ASSUME Torn = {}
  PROVE  Spec => LifecycleSpec
<1> DEFINE AbstractNext == [Lifecycle!Next]_<<task.status, task.iteration>>
<1> USE DEF Lifecycle!Next, Lifecycle!Begin, Lifecycle!Execute, Lifecycle!Suspend,
            Lifecycle!End, Lifecycle!Ends
<1>1. Init => Lifecycle!Init
  <2>1. \A b : NewTask(Ceiling, b).status = "pending" /\ NewTask(Ceiling, b).iteration = 0
    BY DEF NewTask
  <2> QED
    BY <2>1 DEF Init, Lifecycle!Init
<1>2. TypeOK /\ SuspensionHoldsItsCall /\ [Next]_vars => AbstractNext
  <2> SUFFICES ASSUME TypeOK, SuspensionHoldsItsCall, [Next]_vars
               PROVE  AbstractNext
    OBVIOUS
  <2>1. task \in TaskStates /\ rules \in RuleSets /\ MaxIterations \in Nat
    BY MachineAssumption DEF TypeOK
  <2>2. CASE Call
    <3>1. task'.status = task.status /\ task'.iteration = task.iteration
      BY <2>1, <2>2 DEF Call, TaskStates
    <3> QED
      BY <3>1
  <2>3. CASE Start
    BY <2>1, <2>3, EntryMoves DEF Start, At
  <2>4. CASE AlreadyOver \/ StillSuspended \/ UNCHANGED vars
    BY <2>4 DEF AlreadyOver, StillSuspended, vars
  <2>5. CASE CloseIncoherent \/ Reject \/ ApproveButStop
    <3>1. task.status = "waiting_approval"
      BY <2>5 DEF CloseIncoherent, Reject, ApproveButStop, Resuming, At
    <3>2. /\ task'.status \in {"failed", "aborted_cost_ceiling"}
          /\ task'.iteration = task.iteration
      BY <2>1, <2>5, EntryMoves DEF CloseIncoherent, Reject, ApproveButStop
    <3> QED
      BY <3>1, <3>2
  <2>6. CASE Approve
    <3>1. task.status = "waiting_approval" /\ task.iteration < MaxIterations
      BY <2>6 DEF Approve, Resuming, At, SuspensionHoldsItsCall
    <3>2. task'.status = "running" /\ task'.iteration = task.iteration + 1
      BY <2>1, <2>6, EntryMoves DEF Approve
    <3> QED
      BY <3>1, <3>2
  <2>7. CASE Exhaust \/ Conclude \/ StopConclusion \/ Deny \/ StopExecution
    <3>1. task.status = "running"
      BY <2>7 DEF Exhaust, Conclude, StopConclusion, Deny, StopExecution, Planning, Looping
    <3>2. task' \in {Exhausted(task)} \cup Conclusions(task) \cup
                    StoppedConclusions(task) \cup Denials(task, rules) \cup
                    StoppedExecutions(task, rules)
      BY <2>7 DEF Exhaust, Conclude, StopConclusion, Deny, StopExecution
    <3>3. task'.status \in Terminal /\ task'.iteration = task.iteration
      BY <2>1, <3>2, LoopMoves
    <3> QED
      BY <3>1, <3>3 DEF Terminal
  <2>8. CASE AskApproval \/ Execute
    <3>1. task.status = "running" /\ task.iteration < MaxIterations
      BY <2>1, <2>8 DEF AskApproval, Execute, Planning, Looping, Spent, TaskStates
    <3> QED
      BY <2>1, <2>8, <3>1, LoopMoves DEF AskApproval, Execute
  <2> QED
    BY <2>2, <2>3, <2>4, <2>5, <2>6, <2>7, <2>8 DEF Next, Drive
<1> QED
  BY <1>1, <1>2, TypeCorrect, SuspensionIsSelfContained, PTL
     DEF Spec, LifecycleSpec, Lifecycle!Spec

-----------------------------------------------------------------------------
(***************************************************************************)
(* No call runs without its intention, nor without what the rules asked    *)
(***************************************************************************)
\* The completion at k was announced: the body of ExecutionsAuthorised.
Authorised(audit, k) ==
  LET done    == audit[k]
      same(e) == e.tool = done.tool /\ e.iteration = done.iteration
      direct  == /\ k > 1
                 /\ audit[k - 1].action = "tool_call_intended"
                 /\ same(audit[k - 1])
      asked   == /\ k > 3
                 /\ audit[k - 3].action = "tool_call_intended"
                 /\ same(audit[k - 3])
                 /\ audit[k - 2].action = "approval_requested"
                 /\ same(audit[k - 2])
                 /\ audit[k - 1].action = "approval_resolved"
                 /\ audit[k - 1].note = "approve"
  IN  direct \/ asked

AllAuthorised(t) ==
  \A k \in DOMAIN t.audit : Ran(t.audit[k]) => Authorised(t.audit, k)

\* A suspended task ends its journal with the intention of the call it holds
\* and the request for its approval.
Announced(t) ==
  t.status = "waiting_approval" =>
    /\ t.pending.request \in Requests
    /\ Len(t.audit) >= 2
    /\ t.audit[Len(t.audit) - 1] =
         CallEvent("tool_call_intended", t.pending.request, t.pending.iteration, 0, "")
    /\ t.audit[Len(t.audit)] =
         CallEvent("approval_requested", t.pending.request, t.pending.iteration, 0, "")

\* Events that complete no call leave the authorised journals authorised; so
\* does a completion behind its own intention, or behind the approval of the
\* call that was announced.
LEMMA AuthorisedGrows ==
  ASSUME NEW t \in TaskStates, NEW u, AllAuthorised(t),
         NEW e \in Events, NEW f \in Events, NEW g \in Events
  PROVE  /\ Tells(t, u, <<e>>) /\ ~Ran(e) => AllAuthorised(u)
         /\ Tells(t, u, <<e, f>>) /\ ~Ran(e) /\ ~Ran(f) => AllAuthorised(u)
         /\ Tells(t, u, <<e, f, g>>) /\ ~Ran(e) /\ ~Ran(f) /\ ~Ran(g) => AllAuthorised(u)
         /\ /\ Tells(t, u, <<e, f>>)
            /\ e.action = "tool_call_intended"
            /\ e.tool = f.tool /\ e.iteration = f.iteration
            => AllAuthorised(u)
         /\ /\ Tells(t, u, <<e, f>>)
            /\ t.status = "waiting_approval" /\ Announced(t)
            /\ e.action = "approval_resolved" /\ e.note = "approve"
            /\ f.tool = t.pending.request /\ f.iteration = t.pending.iteration
            => AllAuthorised(u)
<1> DEFINE a == t.audit
           b == u.audit
           n == Len(a)
<1>1. a \in Seq(Events) /\ n \in Nat
  BY DEF TaskStates
<1>2. ASSUME NEW es \in {<<e>>, <<e, f>>, <<e, f, g>>}, Tells(t, u, es),
             \A k \in n + 1 .. Len(b) : Ran(b[k]) => Authorised(b, k)
      PROVE  AllAuthorised(u)
  <2>1. DOMAIN b = 1 .. Len(b) /\ DOMAIN a = 1 .. n
    BY <1>1, <1>2 DEF Tells
  <2>2. \A k \in 1 .. n : b[k] = a[k]
    BY <1>2 DEF Tells
  <2>3. ASSUME NEW k \in 1 .. n, Ran(b[k]) PROVE Authorised(b, k)
    <3> HIDE DEF a, b, n
    <3>1. Ran(a[k]) /\ b[k] = a[k]
      BY <2>2, <2>3
    <3>2. Authorised(a, k)
      BY <2>1, <3>1 DEF AllAuthorised, a
    <3>3. \A j \in {k - 1, k - 2, k - 3} : j >= 1 => b[j] = a[j]
      BY <1>1, <2>2
    <3> QED
      BY <1>1, <3>1, <3>2, <3>3 DEF Authorised
  <2>4. Len(b) \in Nat
    BY <1>2 DEF Tells
  <2>5. \A k \in DOMAIN b : k \in 1 .. n \/ k \in n + 1 .. Len(b)
    BY <1>1, <2>1, <2>4
  <2> HIDE DEF n, a
  <2> QED
    BY <1>2, <2>3, <2>5 DEF AllAuthorised
<1>3. ASSUME Tells(t, u, <<e>>)
      PROVE  Len(b) = n + 1 /\ b[n + 1] = e
  BY <1>3, <1>1 DEF Tells
<1>4. ASSUME Tells(t, u, <<e, f>>)
      PROVE  Len(b) = n + 2 /\ b[n + 1] = e /\ b[n + 2] = f
  <2>1. \A k \in 1 .. 2 : b[n + k] = <<e, f>>[k]
    BY <1>4 DEF Tells
  <2> QED
    BY <1>4, <2>1, <1>1 DEF Tells
<1>5. ASSUME Tells(t, u, <<e, f, g>>)
      PROVE  Len(b) = n + 3 /\ b[n + 1] = e /\ b[n + 2] = f /\ b[n + 3] = g
  <2>1. \A k \in 1 .. 3 : b[n + k] = <<e, f, g>>[k]
    BY <1>5 DEF Tells
  <2> QED
    BY <1>5, <2>1, <1>1 DEF Tells
<1> HIDE DEF a, b, n
<1>6. ASSUME Tells(t, u, <<e>>), ~Ran(e) PROVE AllAuthorised(u)
  BY <1>1, <1>2, <1>3, <1>6
<1>7. ASSUME Tells(t, u, <<e, f>>), ~Ran(e), ~Ran(f) PROVE AllAuthorised(u)
  <2>1. \A k \in n + 1 .. Len(b) : k = n + 1 \/ k = n + 2
    BY <1>1, <1>4, <1>7
  <2> QED
    BY <1>2, <1>4, <1>7, <2>1
<1>8. ASSUME Tells(t, u, <<e, f, g>>), ~Ran(e), ~Ran(f), ~Ran(g) PROVE AllAuthorised(u)
  <2>1. \A k \in n + 1 .. Len(b) : k = n + 1 \/ k = n + 2 \/ k = n + 3
    BY <1>1, <1>5, <1>8
  <2> QED
    BY <1>2, <1>5, <1>8, <2>1
<1>9. ASSUME Tells(t, u, <<e, f>>), e.action = "tool_call_intended",
             e.tool = f.tool, e.iteration = f.iteration
      PROVE  AllAuthorised(u)
  <2>1. \A k \in n + 1 .. Len(b) : k = n + 1 \/ k = n + 2
    BY <1>1, <1>4, <1>9
  <2>2. ~Ran(b[n + 1])
    BY <1>4, <1>9 DEF Ran
  <2>3. Authorised(b, n + 2)
    <3>1. n + 2 - 1 = n + 1 /\ n + 2 > 1
      BY <1>1
    <3> QED
      BY <1>1, <1>4, <1>9, <3>1 DEF Authorised
  <2> QED
    BY <1>2, <1>9, <2>1, <2>2, <2>3
<1>10. ASSUME Tells(t, u, <<e, f>>), t.status = "waiting_approval", Announced(t),
              e.action = "approval_resolved", e.note = "approve",
              f.tool = t.pending.request, f.iteration = t.pending.iteration
       PROVE  AllAuthorised(u)
  <2>1. \A k \in n + 1 .. Len(b) : k = n + 1 \/ k = n + 2
    BY <1>1, <1>4, <1>10
  <2>2. ~Ran(b[n + 1])
    BY <1>4, <1>10 DEF Ran
  <2>3. /\ n >= 2
        /\ a[n - 1] = CallEvent("tool_call_intended", f.tool, f.iteration, 0, "")
        /\ a[n] = CallEvent("approval_requested", f.tool, f.iteration, 0, "")
    BY <1>10 DEF Announced, a, n
  <2>4. b[n - 1] = a[n - 1] /\ b[n] = a[n]
    <3>1. \A k \in 1 .. n : b[k] = a[k]
      BY <1>10 DEF Tells, a, b, n
    <3>2. n \in Nat /\ n >= 2
      BY <1>1, <2>3
    <3> QED
      BY <3>1, <3>2
  <2>5. Authorised(b, n + 2)
    <3>1. n \in Nat /\ n >= 2
      BY <1>1, <2>3
    <3>2. b[n + 1] = e /\ b[n + 2] = f
      BY <1>4, <1>10
    <3>3. n + 2 - 1 = n + 1 /\ n + 2 - 2 = n /\ n + 2 - 3 = n - 1 /\ n + 2 > 3
      BY <3>1
    <3>4. /\ b[n - 1].action = "tool_call_intended" /\ b[n].action = "approval_requested"
          /\ b[n - 1].tool = f.tool /\ b[n - 1].iteration = f.iteration
          /\ b[n].tool = f.tool /\ b[n].iteration = f.iteration
      <4>1. /\ b[n - 1] = CallEvent("tool_call_intended", f.tool, f.iteration, 0, "")
            /\ b[n] = CallEvent("approval_requested", f.tool, f.iteration, 0, "")
        BY <2>3, <2>4
      <4>2. \A x : /\ CallEvent(x, f.tool, f.iteration, 0, "").action = x
                   /\ CallEvent(x, f.tool, f.iteration, 0, "").tool = f.tool
                   /\ CallEvent(x, f.tool, f.iteration, 0, "").iteration = f.iteration
        BY DEF CallEvent
      <4> QED
        BY <4>1, <4>2
    <3> DEFINE m == n + 2
    <3>5. /\ m - 1 = n + 1 /\ m - 2 = n /\ m - 3 = n - 1 /\ m > 3
      BY <3>1
    <3> HIDE DEF m
    <3>6. b[m] = f
      BY <3>2 DEF m
    <3>7. Authorised(b, m)
      BY <1>10, <3>2, <3>4, <3>5, <3>6 DEF Authorised
    <3> QED
      BY <3>7 DEF m
  <2> QED
    BY <1>2, <1>10, <2>1, <2>2, <2>5
<1> QED
  BY <1>6, <1>7, <1>8, <1>9, <1>10
\* A suspension announces the call it holds.
LEMMA SuspendAnnounces ==
  ASSUME NEW t \in TaskStates, NEW rs \in RuleSets, NEW u \in Suspensions(t, rs)
  PROVE  Announced(u)
<1> DEFINE call(a, p) == CallEvent(a, p.request, t.iteration, 0, "")
<1>1. PICK p \in Judged(rs, "require_approval") :
        /\ u = Suspend(t, p)
        /\ Tells(t, u, <<call("tool_call_intended", p), call("approval_requested", p)>>)
  BY PassTells
<1>2. p \in Plans
  BY MachineAssumption DEF Judged
<1>3. /\ u.pending.request = p.request
      /\ u.pending.iteration = t.iteration
      /\ p.request \in Requests
  BY <1>1, <1>2 DEF Suspend, Log, Intended, TaskStates, Plans
<1>4. Len(t.audit) \in Nat
  BY DEF TaskStates
<1> DEFINE e == call("tool_call_intended", p)
           f == call("approval_requested", p)
           n == Len(t.audit)
<1> HIDE DEF n, e, f
<1>5. /\ Len(u.audit) = n + Len(<<e, f>>)
      /\ \A k \in 1 .. Len(<<e, f>>) : u.audit[n + k] = <<e, f>>[k]
  BY <1>1 DEF Tells, n, e, f
<1>6. Len(u.audit) = n + 2 /\ u.audit[n + 1] = e /\ u.audit[n + 2] = f
  BY <1>5
<1>7. Len(u.audit) >= 2 /\ u.audit[Len(u.audit) - 1] = e /\ u.audit[Len(u.audit)] = f
  <2>1. (n + 2) - 1 = n + 1 /\ n + 2 >= 2
    BY <1>4 DEF n
  <2> QED
    BY <1>6, <2>1
<1>8. /\ e = CallEvent("tool_call_intended", u.pending.request, u.pending.iteration, 0, "")
      /\ f = CallEvent("approval_requested", u.pending.request, u.pending.iteration, 0, "")
  BY <1>3 DEF e, f
<1> QED
  BY <1>3, <1>7, <1>8 DEF Announced

\* One step of drive.
LEMMA DriveAuthorises ==
  TypeOK /\ AllAuthorised(task) /\ Announced(task) /\ [Next]_vars
    => AllAuthorised(task') /\ Announced(task')
<1> SUFFICES ASSUME TypeOK, AllAuthorised(task), Announced(task), [Next]_vars
             PROVE  AllAuthorised(task') /\ Announced(task')
  OBVIOUS
<1>1. task \in TaskStates /\ rules \in RuleSets
  BY DEF TypeOK
<1> DEFINE event(a, n) == TaskEvent(a, n)
           denied(r, i, n) == CallEvent("tool_call_denied", r, i, 0, n)
           intended(p) == CallEvent("tool_call_intended", p.request, task.iteration, 0, "")
<1>2. /\ task.iteration \in Nat
      /\ task.pending.request \in Requests \cup {NoRequest}
      /\ task.pending.iteration \in Nat
      /\ Total(task.pending) \in Cents
  BY <1>1, TotalType DEF TaskStates, PendingCalls
<1>3. /\ \A s \in Terminal : Finished(s) \in Events /\ ~Ran(Finished(s))
      /\ \A d \in {"approve", "reject"} :
           /\ event("approval_resolved", d) \in Events
           /\ ~Ran(event("approval_resolved", d))
           /\ event("approval_resolved", d).action = "approval_resolved"
           /\ event("approval_resolved", d).note = d
      /\ event("task_started", "") \in Events /\ ~Ran(event("task_started", ""))
  BY EventTypes DEF Finished, Actions, Notes, Terminal, Ran, TaskEvent, CallEvent
<1>4. ASSUME NEW r \in Requests \cup {NoRequest}, NEW i \in Nat,
             NEW n \in {"incoherent", "human", "policy"}
      PROVE  denied(r, i, n) \in Events /\ ~Ran(denied(r, i, n))
  BY EventTypes DEF Actions, CallActions, Notes, Ran, CallEvent
<1>5. "failed" \in Terminal /\ "succeeded" \in Terminal
  BY DEF Terminal
<1>6. ASSUME NEW v, NEW p \in Judged(rules, v)
      PROVE  /\ p.request \in Requests /\ Total(p) \in Cents
             /\ intended(p) \in Events /\ ~Ran(intended(p))
             /\ intended(p).action = "tool_call_intended"
  <2>1. p \in Plans
    BY MachineAssumption DEF Judged
  <2>2. p.request \in Requests /\ Total(p) \in Cents
    BY <2>1, TotalType DEF Plans
  <2>3. intended(p) \in Events
    BY <1>2, <2>2, EventTypes DEF Actions, CallActions, Notes
  <2> QED
    BY <2>2, <2>3 DEF Ran, CallEvent
<1>7. task'.status # "waiting_approval" => Announced(task')
  BY DEF Announced
<1>8. CASE Call
  <2>1. /\ task'.status = task.status
        /\ task'.audit = task.audit
        /\ task'.pending = task.pending
    BY <1>1, <1>8 DEF Call, TaskStates
  <2> QED
    BY <2>1 DEF AllAuthorised, Announced
<1>9. CASE Start
  <2>1. task' = Started(task)
    BY <1>9 DEF Start
  <2>2. Tells(task, task', <<event("task_started", "")>>)
    BY <1>1, <2>1, EntryTells
  <2>3. AllAuthorised(task')
    BY <1>1, <1>3, <2>2, AuthorisedGrows
  <2> QED
    BY <1>1, <1>7, <2>1, <2>3, EntryMoves
<1>10. CASE AlreadyOver \/ StillSuspended \/ UNCHANGED vars
  BY <1>10 DEF AlreadyOver, StillSuspended, vars
<1>11. CASE CloseIncoherent
  <2>1. task' = ClosedIncoherent(task)
    BY <1>11 DEF CloseIncoherent
  <2>2. Tells(task, task', <<denied(NoRequest, task.iteration, "incoherent"),
                             Finished("failed")>>)
    BY <1>1, <2>1, EntryTells
  <2>3. AllAuthorised(task')
    BY <1>1, <1>2, <1>3, <1>4, <1>5, <2>2, AuthorisedGrows
  <2> QED
    BY <1>1, <1>7, <2>1, <2>3, EntryMoves
<1>12. CASE Reject
  <2>1. task' = Rejected(task)
    BY <1>12 DEF Reject
  <2>2. Tells(task, task',
              <<event("approval_resolved", "reject"),
                denied(task.pending.request, task.pending.iteration, "human"),
                Finished("failed")>>)
    BY <1>1, <2>1, EntryTells
  <2>3. AllAuthorised(task')
    BY <1>1, <1>2, <1>3, <1>4, <1>5, <2>2, AuthorisedGrows
  <2> QED
    BY <1>1, <1>7, <2>1, <2>3, EntryMoves
<1>13. CASE ApproveButStop
  <2>1. task' = ApprovedButStopped(task)
    BY <1>13 DEF ApproveButStop
  <2>2. PICK s \in Terminal :
          Tells(task, task', <<event("approval_resolved", "approve"), Finished(s)>>)
    BY <1>1, <2>1, EntryTells
  <2>3. AllAuthorised(task')
    BY <1>1, <1>3, <2>2, AuthorisedGrows
  <2>4. task'.status # "waiting_approval"
    BY <1>1, <2>1, EntryMoves
  <2> QED
    BY <1>7, <2>3, <2>4
<1>14. CASE Approve
  <2> DEFINE f == CallEvent("tool_call_completed", task.pending.request,
                            task.pending.iteration, Total(task.pending), "")
             e == event("approval_resolved", "approve")
  <2>1. task' = Approved(task) /\ task.status = "waiting_approval"
    BY <1>14 DEF Approve, Resuming, At
  <2>2. Tells(task, task', <<e, f>>)
    BY <1>1, <2>1, EntryTells
  <2>3. /\ f \in Events
        /\ f.tool = task.pending.request
        /\ f.iteration = task.pending.iteration
    <3>1. f \in Events
      BY <1>2, EventTypes DEF Actions, CallActions, Notes
    <3> QED
      BY <3>1 DEF CallEvent
  <2>4. e \in Events /\ e.action = "approval_resolved" /\ e.note = "approve"
    BY <1>3
  <2> HIDE DEF e, f
  <2>5. AllAuthorised(task')
    BY <1>1, <2>1, <2>2, <2>3, <2>4, AuthorisedGrows
  <2>6. task'.status # "waiting_approval"
    BY <1>1, <2>1, EntryMoves
  <2> QED
    BY <1>7, <2>5, <2>6
<1>15. CASE Exhaust \/ Conclude \/ StopConclusion
  <2>1. task' \in {Exhausted(task)} \cup Conclusions(task) \cup StoppedConclusions(task)
    BY <1>15 DEF Exhaust, Conclude, StopConclusion
  <2>2. \E s \in Terminal : Tells(task, task', <<Finished(s)>>)
    BY <1>1, <1>5, <2>1, PassTells
  <2>3. AllAuthorised(task')
    BY <1>1, <1>3, <2>2, AuthorisedGrows
  <2>4. task'.status # "waiting_approval"
    BY <1>1, <2>1, LoopMoves DEF Terminal
  <2> QED
    BY <1>7, <2>3, <2>4
<1>16. CASE Deny
  <2>1. task' \in Denials(task, rules)
    BY <1>16 DEF Deny
  <2>2. PICK p \in Judged(rules, "deny") :
          Tells(task, task', <<intended(p), denied(p.request, task.iteration, "policy"),
                               Finished("failed")>>)
    BY <1>1, <2>1, PassTells
  <2> DEFINE e == intended(p)
             f == denied(p.request, task.iteration, "policy")
             g == Finished("failed")
  <2>5. /\ e \in Events /\ ~Ran(e)
        /\ f \in Events /\ ~Ran(f)
        /\ g \in Events /\ ~Ran(g)
    BY <1>2, <1>3, <1>4, <1>5, <1>6
  <2>6. Tells(task, task', <<e, f, g>>)
    BY <2>2
  <2> HIDE DEF e, f, g
  <2>3. AllAuthorised(task')
    BY <1>1, <2>5, <2>6, AuthorisedGrows
  <2>4. task'.status # "waiting_approval"
    BY <1>1, <2>1, LoopMoves DEF Terminal
  <2> QED
    BY <1>7, <2>3, <2>4
<1>17. CASE AskApproval
  <2> DEFINE asked(p) == CallEvent("approval_requested", p.request, task.iteration, 0, "")
  <2>1. task' \in Suspensions(task, rules)
    BY <1>17 DEF AskApproval
  <2>2. PICK p \in Judged(rules, "require_approval") :
          Tells(task, task', <<intended(p), asked(p)>>)
    BY <1>1, <2>1, PassTells
  <2>3. asked(p) \in Events /\ ~Ran(asked(p))
    <3>1. asked(p) \in Events
      BY <1>2, <1>6, EventTypes DEF Actions, Notes
    <3> QED
      BY <3>1 DEF Ran, CallEvent
  <2> DEFINE f == asked(p)
  <2> HIDE DEF f
  <2>4. AllAuthorised(task')
    <3>1. Tells(task, task', <<intended(p), f>>) /\ f \in Events /\ ~Ran(f)
      BY <2>2, <2>3 DEF f
    <3> QED
      BY <1>1, <1>6, <3>1, AuthorisedGrows
  <2> QED
    BY <1>1, <2>1, <2>4, SuspendAnnounces
<1>18. CASE StopExecution
  <2>1. task' \in StoppedExecutions(task, rules)
    BY <1>18 DEF StopExecution
  <2>2. PICK p \in Judged(rules, "allow"), s \in Terminal :
          Tells(task, task', <<intended(p), Finished(s)>>)
    BY <1>1, <2>1, PassTells
  <2>3. AllAuthorised(task')
    BY <1>1, <1>3, <1>6, <2>2, AuthorisedGrows
  <2>4. task'.status # "waiting_approval"
    BY <1>1, <2>1, LoopMoves DEF Terminal
  <2> QED
    BY <1>7, <2>3, <2>4
<1>19. CASE Execute
  <2> DEFINE completed(p) ==
               CallEvent("tool_call_completed", p.request, task.iteration, Total(p), "")
  <2>1. task' \in Executions(task, rules) /\ task.status = "running"
    BY <1>19 DEF Execute, Planning, Looping
  <2>2. PICK p \in Judged(rules, "allow") :
          Tells(task, task', <<intended(p), completed(p)>>)
    BY <1>1, <2>1, PassTells
  <2> DEFINE e == intended(p)
             f == completed(p)
  <2>3. e \in Events /\ e.action = "tool_call_intended" /\ f \in Events
    BY <1>2, <1>6, EventTypes DEF Actions, CallActions, Notes
  <2>4. e.tool = f.tool /\ e.iteration = f.iteration
    BY DEF CallEvent
  <2>5. Tells(task, task', <<e, f>>)
    BY <2>2
  <2> HIDE DEF e, f
  <2>6. AllAuthorised(task')
    BY <1>1, <2>3, <2>4, <2>5, AuthorisedGrows
  <2>7. task'.status # "waiting_approval"
    BY <1>1, <2>1, LoopMoves
  <2> QED
    BY <1>7, <2>6, <2>7
<1> QED
  BY <1>8, <1>9, <1>10, <1>11, <1>12, <1>13, <1>14, <1>15, <1>16, <1>17, <1>18, <1>19
     DEF Next, Drive

\* Invariants 2 and 3 of the header of machine.rs, for any rules and any
\* decisions: no tool runs but behind its own intention, alone or with the
\* request for its approval and a human's answer.
THEOREM CallsAreAuthorised ==
  ASSUME Torn = {}
  PROVE  Spec => []ExecutionsAuthorised
<1> DEFINE IInv == AllAuthorised(task) /\ Announced(task)
<1>1. Init => IInv
  <2>1. \A b : NewTask(Ceiling, b).status = "pending" /\ NewTask(Ceiling, b).audit = <<>>
    BY DEF NewTask
  <2>2. Init => task.status = "pending" /\ task.audit = <<>>
    BY <2>1 DEF Init
  <2>3. DOMAIN <<>> = {}
    OBVIOUS
  <2> QED
    BY <2>2, <2>3 DEF AllAuthorised, Announced
<1>2. TypeOK /\ IInv /\ [Next]_vars => IInv'
  BY DriveAuthorises DEF AllAuthorised, Announced
<1>3. IInv => ExecutionsAuthorised
  BY DEF AllAuthorised, ExecutionsAuthorised, Authorised, Ran
<1> HIDE DEF IInv
<1> QED
  BY <1>1, <1>2, <1>3, TypeCorrect, PTL DEF Spec
-----------------------------------------------------------------------------
(***************************************************************************)
(* What a step may run                                                     *)
(***************************************************************************)
\* The calls one step of drive runs: the plan the rules allow, or the call
\* that was suspended and is approved.
LEMMA StepRuns ==
  ASSUME TypeOK, [Next]_vars
  PROVE  \A e \in RunsOf(task, task') :
           \/ task.status = "running" /\ Decide(rules, e.tool) = "allow"
           \/ /\ task.status = "waiting_approval"
              /\ approval = "approve"
              /\ e.tool = task.pending.request
<1>1. task \in TaskStates /\ rules \in RuleSets
  BY DEF TypeOK
<1>2. CASE Call \/ AlreadyOver \/ StillSuspended \/ UNCHANGED vars
  <2>1. task'.audit = task.audit
    BY <1>1, <1>2 DEF Call, AlreadyOver, StillSuspended, vars, TaskStates
  <2> QED
    BY <2>1 DEF RunsOf, NewEvents
<1>3. CASE Start \/ CloseIncoherent \/ Reject \/ ApproveButStop
  <2>1. RunsOf(task, task') = {}
    BY <1>1, <1>3, CallsOfEntry DEF Start, CloseIncoherent, Reject, ApproveButStop
  <2> QED
    BY <2>1
<1>4. CASE Approve
  <2>1. /\ RunsOf(task, task') =
             {CallEvent("tool_call_completed", task.pending.request, task.pending.iteration,
                        Total(task.pending), "")}
        /\ task.status = "waiting_approval"
        /\ approval = "approve"
    BY <1>1, <1>4, CallsOfEntry DEF Approve, Resuming, At
  <2> DEFINE f == CallEvent("tool_call_completed", task.pending.request,
                            task.pending.iteration, Total(task.pending), "")
  <2>3. f.tool = task.pending.request
    BY DEF CallEvent
  <2> HIDE DEF f
  <2>2. \A e \in RunsOf(task, task') : e.tool = task.pending.request
    <3>1. RunsOf(task, task') = {f}
      BY <2>1 DEF f
    <3> QED
      BY <2>3, <3>1
  <2> QED
    BY <2>1, <2>2
<1>5. CASE \/ Exhaust \/ Conclude \/ StopConclusion \/ Deny \/ AskApproval \/ StopExecution
  <2>1. task' \in {Exhausted(task)} \cup Conclusions(task) \cup StoppedConclusions(task)
                    \cup Denials(task, rules) \cup Suspensions(task, rules)
                    \cup StoppedExecutions(task, rules)
    BY <1>5 DEF Exhaust, Conclude, StopConclusion, Deny, AskApproval, StopExecution
  <2>2. RunsOf(task, task') = {}
    BY <1>1, <2>1, CallsOfPass
  <2> QED
    BY <2>2
<1>6. CASE Execute
  <2>1. task' \in Executions(task, rules) /\ task.status = "running"
    BY <1>6 DEF Execute, Planning, Looping
  <2>2. PICK p \in Judged(rules, "allow") :
          RunsOf(task, task') =
            {CallEvent("tool_call_completed", p.request, task.iteration, Total(p), "")}
    BY <1>1, <2>1, CallsOfExecutions
  <2>3. Decide(rules, p.request) = "allow"
    BY DEF Judged
  <2> DEFINE f == CallEvent("tool_call_completed", p.request, task.iteration, Total(p), "")
  <2>5. f.tool = p.request
    BY DEF CallEvent
  <2> HIDE DEF f
  <2>4. \A e \in RunsOf(task, task') : e.tool = p.request
    <3>1. RunsOf(task, task') = {f}
      BY <2>2 DEF f
    <3> QED
      BY <2>5, <3>1
  <2> QED
    BY <2>1, <2>3, <2>4
<1> QED
  BY <1>2, <1>3, <1>4, <1>5, <1>6 DEF Next, Drive

\* Invariants 2 and 3 again, as what a step may never do, whatever the state
\* it starts from: what runs without a human was allowed by the rules of this
\* very call of drive, what a human approved is the call that was suspended.
THEOREM StepsRunWhatWasDecided == Spec => RunsOnlyWhatWasDecided
<1>1. TypeOK /\ [Next]_vars =>
        [\A k \in DOMAIN task'.audit \ DOMAIN task.audit : Ran(task'.audit[k]) =>
           \/ task.status = "running" /\ Decide(rules, task'.audit[k].tool) = "allow"
           \/ /\ task.status = "waiting_approval"
              /\ approval = "approve"
              /\ task'.audit[k].tool = task.pending.request]_task
  <2> SUFFICES ASSUME TypeOK, [Next]_vars,
                      NEW k \in DOMAIN task'.audit \ DOMAIN task.audit, Ran(task'.audit[k])
               PROVE  \/ task.status = "running" /\ Decide(rules, task'.audit[k].tool) = "allow"
                      \/ /\ task.status = "waiting_approval"
                         /\ approval = "approve"
                         /\ task'.audit[k].tool = task.pending.request
    OBVIOUS
  <2>1. task'.audit[k] \in RunsOf(task, task')
    BY DEF RunsOf, NewEvents, Ran
  <2> QED
    BY <2>1, StepRuns
<1> QED
  BY <1>1, TypeCorrect, PTL DEF Spec, RunsOnlyWhatWasDecided

\* A decision on a suspension that lost its call closes it as a failure:
\* whatever the state drive finds and whichever the decision, the task is not
\* left suspended, nothing of it runs and nothing is charged.
THEOREM IncoherentSuspensionsFail == Spec => IncoherenceFails
<1>1. TypeOK /\ [Next]_vars =>
        [/\ At("entry", "waiting_approval")
         /\ approval # "none"
         /\ task.pending.request = NoRequest
         => /\ task'.status = "failed"
            /\ task'.budget = task.budget
            /\ task'.iteration = task.iteration
            /\ \A k \in DOMAIN task'.audit \ DOMAIN task.audit : ~Ran(task'.audit[k])]_vars
  <2> SUFFICES ASSUME TypeOK, Next, At("entry", "waiting_approval"), approval # "none",
                      task.pending.request = NoRequest
               PROVE  /\ task'.status = "failed"
                      /\ task'.budget = task.budget
                      /\ task'.iteration = task.iteration
                      /\ \A k \in DOMAIN task'.audit \ DOMAIN task.audit : ~Ran(task'.audit[k])
    OBVIOUS
  <2>1. task \in TaskStates
    BY DEF TypeOK
  <2>2. CloseIncoherent
    BY DEF Next, Call, Drive, Start, AlreadyOver, StillSuspended, CloseIncoherent, Reject,
           ApproveButStop, Approve, Exhaust, Conclude, StopConclusion, Deny, AskApproval,
           StopExecution, Execute, Resuming, Planning, Looping, At, Incoherent, Terminal
  <2>3. task' = ClosedIncoherent(task)
    BY <2>2 DEF CloseIncoherent
  <2>4. ClosedIncoherent(task).budget = task.budget
    BY <2>1 DEF ClosedIncoherent, Finish, Log, TaskStates
  <2>5. RunsOf(task, task') = {}
    BY <2>1, <2>3, CallsOfEntry
  <2>6. ASSUME NEW k \in DOMAIN task'.audit \ DOMAIN task.audit
        PROVE  ~Ran(task'.audit[k])
    BY <2>5 DEF RunsOf, NewEvents, Ran
  <2> QED
    BY <2>1, <2>3, <2>4, <2>6, EntryMoves
<1> QED
  BY <1>1, TypeCorrect, PTL DEF Spec, IncoherenceFails
-----------------------------------------------------------------------------
(***************************************************************************)
(* Every cent is told                                                      *)
(***************************************************************************)
\* What an event attests, and what a journal does: CompletedCosts.
CostOf(e) == IF e.action = "tool_call_completed" THEN e.cost ELSE 0

Costs(t) == [k \in DOMAIN t.audit |-> CostOf(t.audit[k])]

Attests(t) == SumOf(Costs(t), DOMAIN t.audit)

LEMMA AttestsIsCompletedCosts ==
  ASSUME task \in TaskStates
  PROVE  CompletedCosts = Attests(task)
<1>1. CompletedCosts = SumOf(Attested, DOMAIN task.audit)
  BY SumIsFold DEF CompletedCosts
<1>2. Attested = Costs(task)
  BY DEF Attested, Costs, CostOf
<1> QED
  BY <1>1, <1>2 DEF Attests

\* An amount is an integer.
LEMMA CostOfType == \A e \in Events : CostOf(e) \in Int
BY MaxCentsAssumption DEF CostOf, Events, Cents

\* What a journal attests is an integer.
LEMMA AttestsType ==
  ASSUME NEW t \in TaskStates
  PROVE  Attests(t) \in Int
<1>1. IsFiniteSet(DOMAIN t.audit)
  <2>1. DOMAIN t.audit = 1 .. Len(t.audit) /\ Len(t.audit) \in Int /\ 1 \in Int
    BY DEF TaskStates
  <2> HIDE DEF TaskStates
  <2>2. IsFiniteSet(1 .. Len(t.audit))
    BY <2>1, FS_Interval
  <2> QED
    BY <2>1, <2>2
<1>2. \A k \in DOMAIN t.audit : Costs(t)[k] \in Int
  BY CostOfType DEF Costs, TaskStates
<1> QED
  BY <1>1, <1>2, SumType DEF Attests

\* A journal of n + 1 events attests what its first n do, and the last.
LEMMA AttestsNext ==
  ASSUME NEW n \in Nat, NEW a, NEW b,
         \A k \in 1 .. n : a[k] = b[k], \A k \in 1 .. n + 1 : CostOf(b[k]) \in Int
  PROVE  SumOf([k \in 1 .. n + 1 |-> CostOf(b[k])], 1 .. n + 1)
           = SumOf([k \in 1 .. n |-> CostOf(a[k])], 1 .. n) + CostOf(b[n + 1])
<1> DEFINE m == [k \in 1 .. n + 1 |-> CostOf(b[k])]
           l == [k \in 1 .. n |-> CostOf(a[k])]
<1>1. \A k \in 1 .. n + 1 : m[k] = CostOf(b[k])
  OBVIOUS
<1>2. \A k \in 1 .. n : l[k] = m[k]
  OBVIOUS
<1>3. n + 1 \in 1 .. n + 1
  OBVIOUS
<1> HIDE DEF m, l
<1>4. SumOf(m, 1 .. n + 1) = SumOf(m, 1 .. n) + m[n + 1]
  BY <1>1, SumOfNext
<1>5. SumOf(l, 1 .. n) = SumOf(m, 1 .. n)
  <2> DEFINE S == 1 .. n
  <2>1. IsFiniteSet(S) /\ \A k \in S : l[k] = m[k]
    BY <1>2, FS_Interval
  <2> HIDE DEF S
  <2>2. SumOf(l, S) = SumOf(m, S)
    BY <2>1, SumOfSame
  <2> QED
    BY <2>2 DEF S
<1> QED
  BY <1>1, <1>3, <1>4, <1>5 DEF m, l

\* What the branch tells is added to what the task attests.
LEMMA AttestsGrow ==
  ASSUME NEW t \in TaskStates, NEW u
  PROVE  /\ \A e \in Events :
              Tells(t, u, <<e>>) => Attests(u) = Attests(t) + CostOf(e)
         /\ \A e, f \in Events :
              Tells(t, u, <<e, f>>) => Attests(u) = Attests(t) + CostOf(e) + CostOf(f)
         /\ \A e, f, g \in Events :
              Tells(t, u, <<e, f, g>>) =>
                Attests(u) = Attests(t) + CostOf(e) + CostOf(f) + CostOf(g)
<1> DEFINE a == t.audit
           b == u.audit
           n == Len(a)
           Sum(s, m) == SumOf([k \in 1 .. m |-> CostOf(s[k])], 1 .. m)
<1>1. a \in Seq(Events) /\ n \in Nat /\ DOMAIN a = 1 .. n
  BY DEF TaskStates
<1>2. Attests(t) = Sum(a, n)
  BY <1>1 DEF Attests, Costs
<1>3. ASSUME NEW m \in Nat, NEW es, Len(es) = m, Tells(t, u, es)
      PROVE  /\ Attests(u) = Sum(b, n + m)
             /\ \A k \in 1 .. n + m : CostOf(b[k]) \in Int
             /\ \A k \in 1 .. n : a[k] = b[k]
             /\ \A k \in 1 .. m : b[n + k] = es[k]
  <2>1. b \in Seq(Events) /\ DOMAIN b = 1 .. n + m
    BY <1>3 DEF Tells
  <2>2. Attests(u) = Sum(b, n + m)
    BY <2>1 DEF Attests, Costs
  <2>3. \A k \in 1 .. n + m : CostOf(b[k]) \in Int
    BY <2>1, CostOfType
  <2> QED
    BY <1>3, <2>2, <2>3 DEF Tells
<1> HIDE DEF a, b, n
<1>4. ASSUME NEW i \in Nat, NEW c, NEW d, \A k \in 1 .. i : c[k] = d[k],
             \A k \in 1 .. i + 1 : CostOf(d[k]) \in Int
      PROVE  Sum(d, i + 1) = Sum(c, i) + CostOf(d[i + 1])
  BY <1>4, AttestsNext
<1> HIDE DEF Sum
<1>5. ASSUME NEW e \in Events, Tells(t, u, <<e>>)
      PROVE  Attests(u) = Attests(t) + CostOf(e)
  <2>1. /\ Attests(u) = Sum(b, n + 1)
        /\ \A k \in 1 .. n + 1 : CostOf(b[k]) \in Int
        /\ \A k \in 1 .. n : a[k] = b[k]
        /\ \A k \in 1 .. 1 : b[n + k] = <<e>>[k]
    BY <1>3, <1>5
  <2>2. Sum(b, n + 1) = Sum(a, n) + CostOf(b[n + 1])
    BY <1>1, <1>4, <2>1
  <2> QED
    BY <1>2, <2>1, <2>2
<1>6. ASSUME NEW e \in Events, NEW f \in Events, Tells(t, u, <<e, f>>)
      PROVE  Attests(u) = Attests(t) + CostOf(e) + CostOf(f)
  <2>1. /\ Attests(u) = Sum(b, n + 2)
        /\ \A k \in 1 .. n + 2 : CostOf(b[k]) \in Int
        /\ \A k \in 1 .. n : a[k] = b[k]
        /\ \A k \in 1 .. 2 : b[n + k] = <<e, f>>[k]
    BY <1>3, <1>6
  <2>2. Sum(b, n + 1) = Sum(a, n) + CostOf(b[n + 1])
    BY <1>1, <1>4, <2>1
  <2>3. Sum(b, (n + 1) + 1) = Sum(b, n + 1) + CostOf(b[(n + 1) + 1])
    <3>1. n + 1 \in Nat /\ (n + 1) + 1 = n + 2
      BY <1>1
    <3> QED
      BY <1>4, <2>1, <3>1
  <2>4. (n + 1) + 1 = n + 2
    BY <1>1
  <2>5. b[n + 1] = e /\ b[n + 2] = f
    BY <2>1
  <2> QED
    BY <1>2, <2>1, <2>2, <2>3, <2>4, <2>5
<1>7. ASSUME NEW e \in Events, NEW f \in Events, NEW g \in Events,
             Tells(t, u, <<e, f, g>>)
      PROVE  Attests(u) = Attests(t) + CostOf(e) + CostOf(f) + CostOf(g)
  <2>1. /\ Attests(u) = Sum(b, n + 3)
        /\ \A k \in 1 .. n + 3 : CostOf(b[k]) \in Int
        /\ \A k \in 1 .. n : a[k] = b[k]
        /\ \A k \in 1 .. 3 : b[n + k] = <<e, f, g>>[k]
    BY <1>3, <1>7
  <2>2. Sum(b, n + 1) = Sum(a, n) + CostOf(b[n + 1])
    BY <1>1, <1>4, <2>1
  <2>3. Sum(b, (n + 1) + 1) = Sum(b, n + 1) + CostOf(b[(n + 1) + 1])
    <3>1. n + 1 \in Nat /\ \A k \in 1 .. (n + 1) + 1 : k \in 1 .. n + 3
      BY <1>1
    <3> QED
      BY <1>4, <2>1, <3>1
  <2>4. Sum(b, (n + 2) + 1) = Sum(b, n + 2) + CostOf(b[(n + 2) + 1])
    <3>1. n + 2 \in Nat /\ \A k \in 1 .. (n + 2) + 1 : k \in 1 .. n + 3
      BY <1>1
    <3> QED
      BY <1>4, <2>1, <3>1
  <2>5. (n + 1) + 1 = n + 2 /\ (n + 2) + 1 = n + 3
    BY <1>1
  <2>6. b[n + 1] = e /\ b[n + 2] = f /\ b[n + 3] = g
    BY <2>1
  <2> QED
    BY <1>2, <2>1, <2>2, <2>3, <2>4, <2>5, <2>6
<1> QED
  BY <1>5, <1>6, <1>7
\* The invariant on one task state: all is told but the last model call.
SpentIsTold(t) ==
  IF t.status = "succeeded"
  THEN t.budget.consumed - Attests(t) \in ConclusionCosts
  ELSE t.budget.consumed = Attests(t)

\* A branch that charges nothing tells of no charge.
LEMMA NothingCharged ==
  ASSUME NEW t \in TaskStates, NEW u,
         u.budget = t.budget, u.status # "succeeded", t.status # "succeeded",
         SpentIsTold(t), Attests(u) = Attests(t)
  PROVE  SpentIsTold(u)
BY DEF SpentIsTold

\* What the events of the branches attest.
LEMMA CostsAre ==
  /\ \A a, n : CostOf(TaskEvent(a, n)) = 0
  /\ \A s : CostOf(Finished(s)) = 0
  /\ \A a, r, i, n : CostOf(CallEvent(a, r, i, 0, n)) = 0
  /\ \A r, i, c, n : CostOf(CallEvent("tool_call_completed", r, i, c, n)) = c
BY DEF CostOf, Finished, TaskEvent, CallEvent

\* One, two or three events that cost nothing.
LEMMA FreeEvents ==
  ASSUME NEW t \in TaskStates, NEW u,
         \/ \E e \in Events : CostOf(e) = 0 /\ Tells(t, u, <<e>>)
         \/ \E e, f \in Events : CostOf(e) = 0 /\ CostOf(f) = 0 /\ Tells(t, u, <<e, f>>)
         \/ \E e, f, g \in Events :
              CostOf(e) = 0 /\ CostOf(f) = 0 /\ CostOf(g) = 0 /\ Tells(t, u, <<e, f, g>>)
  PROVE  Attests(u) = Attests(t)
<1>1. Attests(t) \in Int
  BY AttestsType
<1>2. ASSUME NEW e \in Events, CostOf(e) = 0, Tells(t, u, <<e>>)
      PROVE  Attests(u) = Attests(t)
  BY <1>1, <1>2, AttestsGrow
<1>3. ASSUME NEW e \in Events, NEW f \in Events, CostOf(e) = 0, CostOf(f) = 0,
             Tells(t, u, <<e, f>>)
      PROVE  Attests(u) = Attests(t)
  BY <1>1, <1>3, AttestsGrow
<1>4. ASSUME NEW e \in Events, NEW f \in Events, NEW g \in Events,
             CostOf(e) = 0, CostOf(f) = 0, CostOf(g) = 0, Tells(t, u, <<e, f, g>>)
      PROVE  Attests(u) = Attests(t)
  BY <1>1, <1>4, AttestsGrow
<1> QED
  BY <1>2, <1>3, <1>4
\* The branches that run no call attest nothing.
LEMMA FreeBranches ==
  ASSUME NEW t \in TaskStates, NEW rs \in RuleSets
  PROVE  /\ \A u \in {Started(t), ClosedIncoherent(t), Rejected(t), ApprovedButStopped(t)} :
              Attests(u) = Attests(t)
         /\ \A u \in {Exhausted(t)} \cup Conclusions(t) \cup StoppedConclusions(t)
                       \cup Denials(t, rs) \cup Suspensions(t, rs)
                       \cup StoppedExecutions(t, rs) :
              Attests(u) = Attests(t)
<1> DEFINE free(e) == e \in Events /\ CostOf(e) = 0
           denied(r, i, n) == CallEvent("tool_call_denied", r, i, 0, n)
           call(a, p) == CallEvent(a, p.request, t.iteration, 0, "")
<1>1. /\ t.iteration \in Nat
      /\ t.pending.request \in Requests \cup {NoRequest}
      /\ t.pending.iteration \in Nat
      /\ \A v : \A p \in Judged(rs, v) : p.request \in Requests
  BY MachineAssumption DEF TaskStates, PendingCalls, Judged, Plans
<1>2. /\ \A s \in Terminal : free(Finished(s))
      /\ \A d \in {"approve", "reject"} : free(TaskEvent("approval_resolved", d))
      /\ free(TaskEvent("task_started", ""))
  BY EventTypes, CostsAre DEF Finished, Actions, Notes, Terminal
<1>3. ASSUME NEW r \in Requests \cup {NoRequest}, NEW i \in Nat,
             NEW n \in {"incoherent", "human", "policy"}
      PROVE  free(denied(r, i, n))
  <2>1. denied(r, i, n) \in Events
    BY EventTypes DEF Actions, CallActions, Notes
  <2> QED
    BY <2>1 DEF CostOf, CallEvent
<1>4. ASSUME NEW v, NEW p \in Judged(rs, v), NEW a \in {"tool_call_intended", "approval_requested"}
      PROVE  free(call(a, p))
  <2>1. call(a, p) \in Events
    BY <1>1, EventTypes DEF Actions, CallActions, Notes
  <2> QED
    BY <2>1 DEF CostOf, CallEvent
<1>5. "failed" \in Terminal /\ "succeeded" \in Terminal
  BY DEF Terminal
<1> HIDE DEF denied, call
<1>6. ASSUME NEW u, NEW e, NEW f, NEW g, free(e),
             \/ Tells(t, u, <<e>>)
             \/ Tells(t, u, <<e, f>>) /\ free(f)
             \/ Tells(t, u, <<e, f, g>>) /\ free(f) /\ free(g)
      PROVE  Attests(u) = Attests(t)
  BY <1>6, FreeEvents
<1> HIDE DEF free
<1>7. Attests(Started(t)) = Attests(t)
  BY <1>2, <1>6, EntryTells
<1>8. Attests(ClosedIncoherent(t)) = Attests(t)
  <2>1. Tells(t, ClosedIncoherent(t),
              <<denied(NoRequest, t.iteration, "incoherent"), Finished("failed")>>)
    BY EntryTells DEF denied
  <2>2. free(denied(NoRequest, t.iteration, "incoherent")) /\ free(Finished("failed"))
    BY <1>1, <1>2, <1>3, <1>5
  <2> QED
    BY <1>6, <2>1, <2>2
<1>9. Attests(Rejected(t)) = Attests(t)
  <2>1. Tells(t, Rejected(t),
              <<TaskEvent("approval_resolved", "reject"),
                denied(t.pending.request, t.pending.iteration, "human"),
                Finished("failed")>>)
    BY EntryTells DEF denied
  <2> QED
    <3>1. /\ free(TaskEvent("approval_resolved", "reject"))
          /\ free(denied(t.pending.request, t.pending.iteration, "human"))
          /\ free(Finished("failed"))
      BY <1>1, <1>2, <1>3, <1>5
    <3> QED
      BY <1>6, <2>1, <3>1
<1>10. Attests(ApprovedButStopped(t)) = Attests(t)
  BY <1>2, <1>6, EntryTells
<1>11. ASSUME NEW u \in {Exhausted(t)} \cup Conclusions(t) \cup StoppedConclusions(t)
       PROVE  Attests(u) = Attests(t)
  <2>1. \E s \in Terminal : Tells(t, u, <<Finished(s)>>)
    BY <1>5, PassTells
  <2> QED
    BY <1>2, <1>6, <2>1
<1>12. ASSUME NEW u \in Denials(t, rs) PROVE Attests(u) = Attests(t)
  <2>1. PICK p \in Judged(rs, "deny") :
          Tells(t, u, <<call("tool_call_intended", p),
                        denied(p.request, t.iteration, "policy"), Finished("failed")>>)
    BY PassTells DEF call, denied
  <2>2. /\ free(call("tool_call_intended", p))
        /\ free(denied(p.request, t.iteration, "policy"))
        /\ free(Finished("failed"))
    BY <1>1, <1>2, <1>3, <1>4, <1>5
  <2> QED
    BY <1>6, <2>1, <2>2
<1>13. ASSUME NEW u \in Suspensions(t, rs) PROVE Attests(u) = Attests(t)
  <2>1. PICK p \in Judged(rs, "require_approval") :
          Tells(t, u, <<call("tool_call_intended", p), call("approval_requested", p)>>)
    BY PassTells DEF call
  <2>2. free(call("tool_call_intended", p)) /\ free(call("approval_requested", p))
    BY <1>4
  <2> QED
    BY <1>6, <2>1, <2>2
<1>14. ASSUME NEW u \in StoppedExecutions(t, rs) PROVE Attests(u) = Attests(t)
  <2>1. PICK p \in Judged(rs, "allow"), s \in Terminal :
          Tells(t, u, <<call("tool_call_intended", p), Finished(s)>>)
    BY PassTells DEF call
  <2>2. free(call("tool_call_intended", p)) /\ free(Finished(s))
    BY <1>2, <1>4
  <2> QED
    BY <1>6, <2>1, <2>2
<1> QED
  BY <1>7, <1>8, <1>9, <1>10, <1>11, <1>12, <1>13, <1>14

\* The two branches that run a call attest what they charge.
LEMMA RunsAttest ==
  ASSUME NEW t \in TaskStates, NEW rs \in RuleSets
  PROVE  /\ ~Incoherent(t) => Attests(Approved(t)) = Attests(t) + Total(t.pending)
         /\ \A u \in Executions(t, rs) : \E p \in Judged(rs, "allow") :
              /\ Affords(t, Total(p))
              /\ u.budget = Charge(t.budget, Total(p))
              /\ Attests(u) = Attests(t) + Total(p)
<1>1. /\ t.iteration \in Nat
      /\ t.pending.request \in Requests \cup {NoRequest}
      /\ t.pending.iteration \in Nat
      /\ Total(t.pending) \in Cents
  BY TotalType DEF TaskStates, PendingCalls
<1>2. Attests(t) \in Int
  BY AttestsType
<1>3. ASSUME NEW u, NEW e \in Events, NEW f \in Events, NEW c \in Cents,
             CostOf(e) = 0, CostOf(f) = c, Tells(t, u, <<e, f>>)
      PROVE  Attests(u) = Attests(t) + c
  <2>1. Attests(u) = Attests(t) + CostOf(e) + CostOf(f)
    BY <1>3, AttestsGrow
  <2> QED
    BY <1>2, <1>3, <2>1 DEF Cents
<1>4. Attests(Approved(t)) = Attests(t) + Total(t.pending)
  <2> DEFINE e == TaskEvent("approval_resolved", "approve")
             f == CallEvent("tool_call_completed", t.pending.request, t.pending.iteration,
                            Total(t.pending), "")
  <2>1. e \in Events /\ CostOf(e) = 0
    BY EventTypes, CostsAre DEF Actions, Notes
  <2>2. f \in Events /\ CostOf(f) = Total(t.pending)
    <3>1. f \in Events
      BY <1>1, EventTypes DEF Actions, CallActions, Notes
    <3> QED
      BY <3>1 DEF CostOf, CallEvent
  <2>3. Tells(t, Approved(t), <<e, f>>)
    BY EntryTells
  <2> HIDE DEF e, f
  <2> QED
    BY <1>1, <1>3, <2>1, <2>2, <2>3
<1>5. ASSUME NEW u \in Executions(t, rs)
      PROVE  \E p \in Judged(rs, "allow") :
               /\ Affords(t, Total(p))
               /\ u.budget = Charge(t.budget, Total(p))
               /\ Attests(u) = Attests(t) + Total(p)
  <2>1. PICK p \in Judged(rs, "allow") :
          /\ Affords(t, Total(p))
          /\ u.budget = Charge(t.budget, Total(p))
          /\ Tells(t, u, <<CallEvent("tool_call_intended", p.request, t.iteration, 0, ""),
                           CallEvent("tool_call_completed", p.request, t.iteration, Total(p),
                                     "")>>)
    BY PassTells
  <2>2. p.request \in Requests /\ Total(p) \in Cents
    BY TotalType, MachineAssumption DEF Judged, Plans
  <2> DEFINE e == CallEvent("tool_call_intended", p.request, t.iteration, 0, "")
             f == CallEvent("tool_call_completed", p.request, t.iteration, Total(p), "")
  <2>3. e \in Events /\ CostOf(e) = 0
    <3>1. e \in Events
      BY <1>1, <2>2, EventTypes DEF Actions, CallActions, Notes
    <3> QED
      BY <3>1 DEF CostOf, CallEvent
  <2>4. f \in Events /\ CostOf(f) = Total(p)
    <3>1. f \in Events
      BY <1>1, <2>2, EventTypes DEF Actions, CallActions, Notes
    <3> QED
      BY <3>1 DEF CostOf, CallEvent
  <2>5. Tells(t, u, <<e, f>>)
    BY <2>1
  <2> HIDE DEF e, f
  <2>6. Attests(u) = Attests(t) + Total(p)
    BY <1>3, <2>2, <2>3, <2>4, <2>5
  <2> QED
    BY <2>1, <2>6
<1> QED
  BY <1>4, <1>5
\* One step: what is consumed and what is attested move together.
LEMMA StepAttests ==
  TypeOK /\ SpentIsTold(task) /\ [Next]_vars => SpentIsTold(task')
<1> SUFFICES ASSUME TypeOK, SpentIsTold(task), [Next]_vars
             PROVE  SpentIsTold(task')
  OBVIOUS
<1>1. task \in TaskStates /\ rules \in RuleSets
  BY DEF TypeOK
<1>2. Attests(task) \in Int /\ task.budget.consumed \in Int
  BY <1>1, AttestsType, MaxCentsAssumption DEF TaskStates, Budgets, Amounts
<1>3. CASE Call
  <2>1. PICK b \in Balances : task' = [task EXCEPT !.budget = Refreshed(@, b)]
    BY <1>3 DEF Call
  <2>2. task'.status = task.status /\ task'.audit = task.audit
    BY <1>1, <2>1 DEF TaskStates
  <2>3. task'.budget.consumed = task.budget.consumed
    BY <1>1, <2>1, RefreshedType, TaskMachineAssumption DEF TaskStates
  <2> QED
    BY <2>2, <2>3 DEF SpentIsTold, Attests, Costs
<1>4. CASE AlreadyOver \/ StillSuspended \/ UNCHANGED vars
  BY <1>4 DEF AlreadyOver, StillSuspended, vars
<1>5. CASE Start \/ CloseIncoherent \/ Reject \/ ApproveButStop
  <2>1. task' \in {Started(task), ClosedIncoherent(task), Rejected(task),
                   ApprovedButStopped(task)}
    BY <1>5 DEF Start, CloseIncoherent, Reject, ApproveButStop
  <2>2. task.status # "succeeded"
    BY <1>5 DEF Start, CloseIncoherent, Reject, ApproveButStop, Resuming, At
  <2>3. Attests(task') = Attests(task)
    BY <1>1, <2>1, FreeBranches
  <2>4. task'.budget = task.budget /\ task'.status # "succeeded"
    BY <1>1, <2>1, BudgetsLeft
  <2> QED
    BY <1>1, <2>2, <2>3, <2>4, NothingCharged
<1>6. CASE Approve
  <2>1. /\ task' = Approved(task)
        /\ task.status # "succeeded"
        /\ ~Incoherent(task)
        /\ Affords(task, Total(task.pending))
    BY <1>6 DEF Approve, Resuming, At
  <2>2. Total(task.pending) \in Cents
    BY <1>1, TotalType DEF TaskStates
  <2>3. task'.budget.consumed = task.budget.consumed + Total(task.pending)
    BY <1>1, <2>1, <2>2, BudgetsLeft, AffordedIsCharged
  <2>4. Attests(task') = Attests(task) + Total(task.pending)
    BY <1>1, <2>1, RunsAttest
  <2>5. task'.status # "succeeded"
    BY <1>1, <2>1, EntryMoves
  <2> QED
    BY <2>1, <2>3, <2>4, <2>5 DEF SpentIsTold
<1>7. CASE Conclude
  <2>1. task' \in Conclusions(task) /\ task.status # "succeeded"
    BY <1>7 DEF Conclude, Planning, Looping
  <2>2. PICK c \in ConclusionCosts :
          /\ Affords(task, c)
          /\ task'.status = "succeeded"
          /\ task'.budget = Charge(task.budget, c)
    BY <1>1, <2>1, BudgetsLeft
  <2>3. c \in Cents
    BY MachineAssumption
  <2>4. task'.budget.consumed = task.budget.consumed + c
    BY <1>1, <2>2, <2>3, AffordedIsCharged
  <2>5. Attests(task') = Attests(task)
    BY <1>1, <2>1, FreeBranches
  <2>6. task.budget.consumed = Attests(task)
    BY <2>1 DEF SpentIsTold
  <2>7. task'.budget.consumed - Attests(task') = c
    BY <1>2, <2>3, <2>4, <2>5, <2>6 DEF Cents
  <2> QED
    BY <2>2, <2>7 DEF SpentIsTold
<1>8. CASE \/ Exhaust \/ StopConclusion \/ Deny \/ AskApproval \/ StopExecution
  <2>1. task' \in {Exhausted(task)} \cup StoppedConclusions(task) \cup Denials(task, rules)
                    \cup Suspensions(task, rules) \cup StoppedExecutions(task, rules)
    BY <1>8 DEF Exhaust, StopConclusion, Deny, AskApproval, StopExecution
  <2>2. task.status # "succeeded"
    BY <1>8 DEF Exhaust, StopConclusion, Deny, AskApproval, StopExecution, Planning, Looping
  <2>3. Attests(task') = Attests(task)
    BY <1>1, <2>1, FreeBranches
  <2>4. task'.budget = task.budget /\ task'.status # "succeeded"
    BY <1>1, <2>1, BudgetsLeft
  <2> QED
    BY <1>1, <2>2, <2>3, <2>4, NothingCharged
<1>9. CASE Execute
  <2>1. task' \in Executions(task, rules) /\ task.status = "running"
    BY <1>9 DEF Execute, Planning, Looping
  <2>2. PICK p \in Judged(rules, "allow") :
          /\ Affords(task, Total(p))
          /\ task'.budget = Charge(task.budget, Total(p))
          /\ Attests(task') = Attests(task) + Total(p)
    BY <1>1, <2>1, RunsAttest
  <2>3. Total(p) \in Cents
    BY TotalType, MachineAssumption DEF Judged
  <2>4. task'.budget.consumed = task.budget.consumed + Total(p)
    BY <1>1, <2>2, <2>3, AffordedIsCharged
  <2>5. task'.status = "running"
    BY <1>1, <2>1, LoopMoves
  <2> QED
    BY <2>1, <2>2, <2>4, <2>5 DEF SpentIsTold
<1> QED
  BY <1>3, <1>4, <1>5, <1>6, <1>7, <1>8, <1>9 DEF Next, Drive

\* What a task consumed is what its journal attests, to the cent, however the
\* costs saturate and whatever was refused on the way; a task that concluded
\* consumed besides the one model call no event tells of.
THEOREM EveryCentIsTold ==
  ASSUME Torn = {}
  PROVE  Spec => []SpendIsAttested
<1> DEFINE IInv == SpentIsTold(task)
<1>1. Init => IInv
  <2> SUFFICES ASSUME Init PROVE SpentIsTold(task)
    OBVIOUS
  <2>1. PICK b \in Balances : task = NewTask(Ceiling, b)
    BY DEF Init
  <2>2. task.status = "pending" /\ task.audit = <<>> /\ task.budget.consumed = 0
    BY <2>1 DEF NewTask, NewBudget
  <2>3. Attests(task) = 0
    <3>1. DOMAIN <<>> = {}
      OBVIOUS
    <3> QED
      BY <2>2, <3>1, SumOfNothing DEF Attests
  <2> QED
    BY <2>2, <2>3 DEF SpentIsTold
<1>2. TypeOK /\ IInv /\ [Next]_vars => IInv'
  BY StepAttests DEF SpentIsTold, Attests, Costs
<1>3. TypeOK /\ IInv => SpendIsAttested
  BY AttestsIsCompletedCosts DEF SpentIsTold, SpendIsAttested, TypeOK
<1> HIDE DEF IInv
<1> QED
  BY <1>1, <1>2, <1>3, TypeCorrect, PTL DEF Spec
-----------------------------------------------------------------------------
(***************************************************************************)
(* The journal is well formed                                              *)
(***************************************************************************)
\* The status adds to CallsWellFormed what makes it inductive: about to plan
\* or concluded, the task has not told of its own call; suspended, it left it open.
LEMMA WellFormedInit ==
  ASSUME Torn = {}
  PROVE  Init => WellFormed(task)
<1> SUFFICES ASSUME Init PROVE WellFormed(task)
  OBVIOUS
<1>1. PICK b \in Balances : task = NewTask(Ceiling, b)
  BY DEF Init
<1>2. task.status = "pending" /\ task.audit = <<>> /\ task.iteration = 0
  BY <1>1 DEF NewTask
<1>3. DOMAIN task.audit = {}
  BY <1>2
<1>4. UntoldIn(task, task.iteration)
  BY <1>3 DEF UntoldIn, CallPositions
<1>5. 0 .. task.iteration - 1 = {}
  BY <1>2
<1> QED
  BY <1>2, <1>3, <1>4, <1>5 DEF WellFormed

LEMMA WellFormedNext ==
  TypeOK /\ HoldsItsCall(task) /\ WellFormed(task) /\ [Next]_vars => WellFormed(task')
<1> SUFFICES ASSUME TypeOK, HoldsItsCall(task), WellFormed(task), [Next]_vars
             PROVE  WellFormed(task')
  OBVIOUS
<1>1. task \in TaskStates /\ rules \in RuleSets
  BY DEF TypeOK
<1>2. CASE Call
  <2>1. /\ task'.status = task.status
        /\ task'.iteration = task.iteration
        /\ task'.audit = task.audit
    BY <1>1, <1>2 DEF Call, TaskStates
  <2>2. \A i : CallPositions(task', i) = CallPositions(task, i)
    BY <2>1 DEF CallPositions
  <2> QED
    BY <2>1, <2>2 DEF WellFormed, UntoldIn, OpenIn, ClosedIn
<1>3. CASE Start
  BY <1>1, <1>3, EntryWellFormed DEF Start, At
<1>4. CASE AlreadyOver \/ StillSuspended \/ UNCHANGED vars
  BY <1>4 DEF AlreadyOver, StillSuspended, vars
<1>5. CASE CloseIncoherent
  BY <1>5, MachineAssumption DEF CloseIncoherent, Resuming, At, Incoherent, HoldsItsCall
<1>6. CASE Reject \/ ApproveButStop \/ Approve
  BY <1>1, <1>6, EntryWellFormed DEF Reject, ApproveButStop, Approve, Resuming, At
<1>7. CASE \/ Exhaust \/ Conclude \/ StopConclusion \/ Deny \/ AskApproval
           \/ StopExecution \/ Execute
  BY <1>1, <1>7, PassWellFormed
     DEF Exhaust, Conclude, StopConclusion, Deny, AskApproval, StopExecution, Execute,
         Planning, Looping
<1> QED
  BY <1>2, <1>3, <1>4, <1>5, <1>6, <1>7 DEF Next, Drive

\* Whatever the model plans, the rules say and the human decides, the journal
\* tells of each call before the current one that it was intended then
\* completed, of the current one at most that it is open or refused, and of no
\* other: the iteration is an identity of the call.
THEOREM JournalIsWellFormed ==
  ASSUME Torn = {}
  PROVE  Spec => []CallsWellFormed
<1> DEFINE IInv == WellFormed(task)
           HInv == HoldsItsCall(task)
<1>1. Init => IInv
  BY WellFormedInit
<1>2. TypeOK /\ HInv /\ IInv /\ [Next]_vars => IInv'
  <2>1. ASSUME WellFormed(task') PROVE IInv'
    BY <2>1 DEF WellFormed, UntoldIn, OpenIn, ClosedIn, CallPositions, IsOfCall
  <2> QED
    BY <2>1, WellFormedNext
<1>3. IInv => CallsWellFormed
  <2>1. \A i : Positions(i) = CallPositions(task, i)
    BY DEF Positions, CallPositions, IsOfCall
  <2> QED
    BY <2>1 DEF WellFormed, UntoldIn, OpenIn, ClosedIn, CallsWellFormed, Untold, Open, Closed
<1>4. SuspensionHoldsItsCall => HInv
  BY DEF SuspensionHoldsItsCall, HoldsItsCall
<1>5. Spec => []SuspensionHoldsItsCall
  BY SuspensionIsSelfContained
<1> HIDE DEF IInv, HInv
<1> QED
  BY <1>1, <1>2, <1>3, <1>4, <1>5, TypeCorrect, PTL DEF Spec
=============================================================================
