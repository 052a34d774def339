---------------------------- MODULE Machine_proofs ----------------------------
(***************************************************************************)
(* Lemmas about the accounting kernel and the branches of drive, for every *)
(* value of the constants of Machine.  TaskMachine_proofs and              *)
(* TaskStore_proofs both rest on them.                                     *)
(***************************************************************************)
EXTENDS Machine, TLAPS

(***************************************************************************)
(* The accounting kernel                                                   *)
(***************************************************************************)

\* A refreshed budget is a budget.
LEMMA RefreshedType ==
  ASSUME NEW b \in Budgets, NEW m \in Amounts
  PROVE  /\ Refreshed(b, m) \in Budgets
         /\ Refreshed(b, m).ceiling = b.ceiling
         /\ Refreshed(b, m).consumed = b.consumed
BY DEF Refreshed, Budgets

\* saturating_add never leaves the type.
LEMMA SaturatingAddType ==
  ASSUME NEW a \in Cents, NEW c \in Cents
  PROVE  SaturatingAdd(a, c) \in Cents
BY MaxCentsAssumption DEF SaturatingAdd, Cents

\* A charge keeps a budget a budget, whatever the cost.
LEMMA ChargeType ==
  ASSUME NEW b \in Budgets, NEW c \in Cents
  PROVE  Charge(b, c) \in Budgets /\ Charge(b, c).ceiling = b.ceiling
<1>1. CASE SpendDecision(b, c) = "proceed"
  <2>1. c >= 0 /\ b.consumed + c <= b.ceiling /\ c <= b.org_balance
    BY <1>1, MaxCentsAssumption
       DEF SpendDecision, BreaksCeiling, BreaksCredit, Budgets, Cents, Amounts
  <2>2. Charge(b, c) =
          [b EXCEPT !.consumed = b.consumed + c, !.org_balance = b.org_balance - c]
    BY <1>1 DEF Charge
  <2>3. b.consumed + c \in Amounts /\ b.org_balance - c \in Amounts
    BY <2>1, MaxCentsAssumption DEF Budgets, Cents, Amounts
  <2> QED
    BY <2>2, <2>3 DEF Budgets
<1>2. CASE SpendDecision(b, c) # "proceed"
  BY <1>2 DEF Charge
<1> QED
  BY <1>1, <1>2

\* What a charge leaves, when it goes through and when it does not: the task
\* stays under its ceiling, the organisation out of debt, and what the one
\* consumed the other has lost.
THEOREM ChargeIsSound ==
  ASSUME NEW b \in Budgets, NEW c \in Cents, b.consumed <= b.ceiling
  PROVE  /\ Charge(b, c).consumed \in 0 .. b.ceiling
         /\ Charge(b, c).org_balance \in 0 .. b.org_balance
         /\ Charge(b, c).consumed + Charge(b, c).org_balance
              = b.consumed + b.org_balance
<1>1. CASE SpendDecision(b, c) = "proceed"
  <2>1. c >= 0 /\ b.consumed + c <= b.ceiling /\ c <= b.org_balance
    BY <1>1, MaxCentsAssumption
       DEF SpendDecision, BreaksCeiling, BreaksCredit, Budgets, Cents, Amounts
  <2>2. Charge(b, c) =
          [b EXCEPT !.consumed = b.consumed + c, !.org_balance = b.org_balance - c]
    BY <1>1 DEF Charge
  <2> QED
    BY <2>1, <2>2, MaxCentsAssumption DEF Budgets, Cents, Amounts
<1>2. CASE SpendDecision(b, c) # "proceed"
  BY <1>2, MaxCentsAssumption DEF Charge, Budgets, Amounts
<1> QED
  BY <1>1, <1>2

-----------------------------------------------------------------------------
(***************************************************************************)
(* The operators of the machine keep task states task states               *)
(***************************************************************************)
\* The absence of a pending call has the type of one.
LEMMA NoPendingType == NoPending \in PendingCalls
BY MaxCentsAssumption DEF NoPending, PendingCalls, Cents

\* An event of a call has the type of an event.
LEMMA CallEventType ==
  ASSUME NEW a \in Actions, NEW r \in Requests \cup {NoRequest}, NEW i \in Nat,
         NEW c \in Cents, NEW n \in Notes
  PROVE  CallEvent(a, r, i, c, n) \in Events
BY DEF CallEvent, Events

\* So has an event of the task.
LEMMA TaskEventType ==
  ASSUME NEW a \in Actions, NEW n \in Notes
  PROVE  TaskEvent(a, n) \in Events
BY CallEventType, MaxCentsAssumption DEF TaskEvent, Cents

\* The journal of a task takes any event.
LEMMA LogType ==
  ASSUME NEW t \in TaskStates, NEW e \in Events
  PROVE  Log(t, e) \in TaskStates
BY DEF Log, TaskStates

\* A field changed for a value of its type leaves a task state.
LEMMA FieldTypes ==
  ASSUME NEW t \in TaskStates
  PROVE  /\ [t EXCEPT !.iteration = @ + 1] \in TaskStates
         /\ \A s \in Statuses : [t EXCEPT !.status = s] \in TaskStates
         /\ \A s \in Statuses, p \in PendingCalls :
              [t EXCEPT !.status = s, !.pending = p] \in TaskStates
         /\ \A b \in Budgets : [t EXCEPT !.budget = b] \in TaskStates
         /\ \A p \in PendingCalls : [t EXCEPT !.pending = p] \in TaskStates
<1>1. [t EXCEPT !.iteration = @ + 1] \in TaskStates
  BY DEF TaskStates
<1>2. \A s \in Statuses : [t EXCEPT !.status = s] \in TaskStates
  BY DEF TaskStates
<1>3. \A s \in Statuses, p \in PendingCalls :
        [t EXCEPT !.status = s, !.pending = p] \in TaskStates
  BY DEF TaskStates
<1>4. \A b \in Budgets : [t EXCEPT !.budget = b] \in TaskStates
  BY DEF TaskStates
<1>5. \A p \in PendingCalls : [t EXCEPT !.pending = p] \in TaskStates
  BY DEF TaskStates
<1> QED
  BY <1>1, <1>2, <1>3, <1>4, <1>5

\* finish leaves a task state.
LEMMA FinishType ==
  ASSUME NEW t \in TaskStates, NEW s \in Terminal
  PROVE  Finish(t, s) \in TaskStates
<1>1. [t EXCEPT !.status = s] \in TaskStates
  BY FieldTypes DEF Statuses
<1>2. TaskEvent("task_finished", s) \in Events
  BY TaskEventType DEF Actions, Notes
<1> QED
  BY <1>1, <1>2, LogType DEF Finish

\* A charge leaves a task state.
LEMMA ChargedType ==
  ASSUME NEW t \in TaskStates, NEW c \in Cents
  PROVE  Charged(t, c) \in TaskStates
<1>1. t.budget \in Budgets
  BY DEF TaskStates
<1>2. Charge(t.budget, c) \in Budgets
  BY <1>1, ChargeType
<1> QED
  BY <1>2, FieldTypes DEF Charged, TaskStates

\* A charge that is refused leaves a finished task state.
LEMMA StoppedType ==
  ASSUME NEW t \in TaskStates, NEW c \in Cents
  PROVE  Stopped(t, c) \in TaskStates
BY FinishType DEF Stopped, StopStatus, Terminal

\* The total of a call is an amount of the type Cents.
LEMMA TotalType ==
  /\ \A p \in Plans : Total(p) \in Cents
  /\ \A p \in PendingCalls : Total(p) \in Cents
BY SaturatingAddType DEF Total, Plans, PendingCalls

\* An intention leaves a task state.
LEMMA IntendedType ==
  ASSUME NEW t \in TaskStates, NEW p \in Plans
  PROVE  Intended(t, p) \in TaskStates
<1>1. p.request \in Requests /\ t.iteration \in Nat /\ 0 \in Cents
  BY MaxCentsAssumption DEF Plans, TaskStates, Cents
<1>2. CallEvent("tool_call_intended", p.request, t.iteration, 0, "") \in Events
  BY <1>1, CallEventType DEF Actions, CallActions, Notes
<1> QED
  BY <1>2, LogType DEF Intended

\* An executed call leaves a task state.
LEMMA CompletedType ==
  ASSUME NEW t \in TaskStates, NEW r \in Requests, NEW i \in Nat, NEW c \in Cents
  PROVE  Completed(t, r, i, c) \in TaskStates
<1>1. CallEvent("tool_call_completed", r, i, c, "") \in Events
  BY CallEventType DEF Actions, CallActions, Notes
<1>2. Log(t, CallEvent("tool_call_completed", r, i, c, "")) \in TaskStates
  BY <1>1, LogType
<1> QED
  BY <1>2, FieldTypes DEF Completed

\* Taking the pending call leaves a task state.
LEMMA TakenType ==
  ASSUME NEW t \in TaskStates, NEW d \in {"approve", "reject"}
  PROVE  Taken(t, d) \in TaskStates
<1>1. [t EXCEPT !.pending = NoPending] \in TaskStates
  BY NoPendingType, FieldTypes
<1>2. TaskEvent("approval_resolved", d) \in Events
  BY TaskEventType DEF Actions, Notes
<1> QED
  BY <1>1, <1>2, LogType DEF Taken

\* The start leaves a task state.
LEMMA StartedType ==
  ASSUME NEW t \in TaskStates
  PROVE  Started(t) \in TaskStates
<1>1. TaskEvent("task_started", "") \in Events
  BY TaskEventType DEF Actions, Notes
<1>2. Log(t, TaskEvent("task_started", "")) \in TaskStates
  BY <1>1, LogType
<1> QED
  BY <1>2, FieldTypes DEF Started, Statuses

\* The closure of an incoherent suspension leaves a task state.
LEMMA ClosedIncoherentType ==
  ASSUME NEW t \in TaskStates
  PROVE  ClosedIncoherent(t) \in TaskStates
<1>1. t.iteration \in Nat /\ 0 \in Cents
  BY MaxCentsAssumption DEF TaskStates, Cents
<1>2. CallEvent("tool_call_denied", NoRequest, t.iteration, 0, "incoherent") \in Events
  BY <1>1, CallEventType DEF Actions, CallActions, Notes
<1> QED
  BY <1>2, LogType, FinishType DEF ClosedIncoherent, Terminal

\* A rejection leaves a task state.
LEMMA RejectedType ==
  ASSUME NEW t \in TaskStates
  PROVE  Rejected(t) \in TaskStates
<1>1. /\ t.pending.iteration \in Nat
      /\ t.pending.request \in Requests \cup {NoRequest}
      /\ 0 \in Cents
  BY MaxCentsAssumption DEF TaskStates, PendingCalls, Cents
<1>2. CallEvent("tool_call_denied", t.pending.request, t.pending.iteration, 0, "human")
        \in Events
  BY <1>1, CallEventType DEF Actions, CallActions, Notes
<1>3. Taken(t, "reject") \in TaskStates
  BY TakenType
<1> QED
  BY <1>2, <1>3, LogType, FinishType DEF Rejected, Terminal

\* An approval leaves a task state.
LEMMA ApprovedType ==
  ASSUME NEW t \in TaskStates, ~Incoherent(t)
  PROVE  Approved(t) \in TaskStates
<1>1. /\ t.pending \in PendingCalls
      /\ t.pending.request \in Requests
      /\ t.pending.iteration \in Nat
  BY DEF TaskStates, PendingCalls, Incoherent
<1>2. Total(t.pending) \in Cents
  BY <1>1, TotalType
<1>3. Charged(Taken(t, "approve"), Total(t.pending)) \in TaskStates
  BY <1>2, TakenType, ChargedType
<1>4. Completed(Charged(Taken(t, "approve"), Total(t.pending)),
                t.pending.request, t.pending.iteration, Total(t.pending)) \in TaskStates
  BY <1>1, <1>2, <1>3, CompletedType
<1> QED
  BY <1>4, FieldTypes DEF Approved, Statuses

\* A suspension leaves a task state.
LEMMA SuspendType ==
  ASSUME NEW t \in TaskStates, NEW p \in Plans
  PROVE  Suspend(t, p) \in TaskStates
<1>1. /\ t.iteration \in Nat
      /\ p.request \in Requests
      /\ p.model_cost \in Cents
      /\ p.tool_cost \in Cents
      /\ 0 \in Cents
  BY MaxCentsAssumption DEF TaskStates, Plans, Cents
<1>2. CallEvent("approval_requested", p.request, t.iteration, 0, "") \in Events
  BY <1>1, CallEventType DEF Actions, Notes
<1>3. Log(Intended(t, p), CallEvent("approval_requested", p.request, t.iteration, 0, ""))
        \in TaskStates
  BY <1>2, IntendedType, LogType
<1>4. [request |-> p.request, iteration |-> t.iteration,
       model_cost |-> p.model_cost, tool_cost |-> p.tool_cost] \in PendingCalls
  BY <1>1 DEF PendingCalls
<1> QED
  BY <1>3, <1>4, FieldTypes DEF Suspend, Statuses

\* Whatever one pass of the loop does, it leaves a task state.
LEMMA PassTypes ==
  ASSUME NEW t \in TaskStates, NEW rs \in RuleSets
  PROVE  /\ Exhausted(t) \in TaskStates
         /\ Conclusions(t) \subseteq TaskStates
         /\ StoppedConclusions(t) \subseteq TaskStates
         /\ Denials(t, rs) \subseteq TaskStates
         /\ Suspensions(t, rs) \subseteq TaskStates
         /\ StoppedExecutions(t, rs) \subseteq TaskStates
         /\ Executions(t, rs) \subseteq TaskStates
<1>1. ConclusionCosts \subseteq Cents
  BY MachineAssumption
<1>2. \A v : Judged(rs, v) \subseteq Plans
  BY MachineAssumption DEF Judged
<1>3. t.iteration \in Nat /\ 0 \in Cents
  BY MaxCentsAssumption DEF TaskStates, Cents
<1>4. \A p \in Plans : p.request \in Requests /\ Total(p) \in Cents
  BY TotalType DEF Plans
<1>5. Exhausted(t) \in TaskStates
  BY FinishType DEF Exhausted, Terminal
<1>6. Conclusions(t) \subseteq TaskStates
  BY <1>1, ChargedType, FinishType DEF Conclusions, Terminal
<1>7. StoppedConclusions(t) \subseteq TaskStates
  BY <1>1, StoppedType DEF StoppedConclusions
<1>8. Denials(t, rs) \subseteq TaskStates
  <2>1. ASSUME NEW p \in Plans
        PROVE  Finish(Log(Intended(t, p),
                          CallEvent("tool_call_denied", p.request, t.iteration, 0,
                                    "policy")), "failed") \in TaskStates
    <3>1. CallEvent("tool_call_denied", p.request, t.iteration, 0, "policy") \in Events
      BY <1>3, <1>4, CallEventType DEF Actions, CallActions, Notes
    <3> QED
      BY <3>1, IntendedType, LogType, FinishType DEF Terminal
  <2> QED
    BY <1>2, <2>1 DEF Denials
<1>9. Suspensions(t, rs) \subseteq TaskStates
  BY <1>2, SuspendType DEF Suspensions
<1>10. StoppedExecutions(t, rs) \subseteq TaskStates
  BY <1>2, <1>4, IntendedType, StoppedType DEF StoppedExecutions
<1>11. Executions(t, rs) \subseteq TaskStates
  <2>1. ASSUME NEW p \in Plans
        PROVE  Completed(Charged(Intended(t, p), Total(p)), p.request, t.iteration,
                         Total(p)) \in TaskStates
    BY <1>3, <1>4, IntendedType, ChargedType, CompletedType
  <2> QED
    BY <1>2, <2>1 DEF Executions
<1> QED
  BY <1>5, <1>6, <1>7, <1>8, <1>9, <1>10, <1>11

-----------------------------------------------------------------------------
(***************************************************************************)
(* What each branch leaves in the other fields                             *)
(***************************************************************************)
\* The budget a branch leaves is the one it found, or that one charged once.
LEMMA BudgetOfBranches ==
  ASSUME NEW t \in TaskStates, NEW rs \in RuleSets
  PROVE  LET Charges == {t.budget} \cup {Charge(t.budget, c) : c \in Cents}
         IN  /\ Started(t).budget \in Charges
             /\ ClosedIncoherent(t).budget \in Charges
             /\ Rejected(t).budget \in Charges
             /\ ApprovedButStopped(t).budget \in Charges
             /\ Approved(t).budget \in Charges
             /\ Exhausted(t).budget \in Charges
             /\ \A u \in Conclusions(t) : u.budget \in Charges
             /\ \A u \in StoppedConclusions(t) : u.budget \in Charges
             /\ \A u \in Denials(t, rs) : u.budget \in Charges
             /\ \A u \in Suspensions(t, rs) : u.budget \in Charges
             /\ \A u \in StoppedExecutions(t, rs) : u.budget \in Charges
             /\ \A u \in Executions(t, rs) : u.budget \in Charges
<1> DEFINE Charges == {t.budget} \cup {Charge(t.budget, c) : c \in Cents}
<1> USE DEF Log, Finish, Intended, Completed, Charged, Stopped, TaskStates
<1>1. Started(t).budget \in Charges /\ ClosedIncoherent(t).budget \in Charges
  BY DEF Started, ClosedIncoherent
<1>2. Rejected(t).budget \in Charges /\ ApprovedButStopped(t).budget \in Charges
  BY DEF Rejected, ApprovedButStopped, Taken
<1>3. Approved(t).budget \in Charges
  <2>1. Total(t.pending) \in Cents
    BY TotalType
  <2>2. Approved(t).budget = Charge(t.budget, Total(t.pending))
    BY DEF Approved, Taken
  <2> QED
    BY <2>1, <2>2
<1>4. Exhausted(t).budget \in Charges
  BY DEF Exhausted
<1>5. \A u \in Conclusions(t) \cup StoppedConclusions(t) : u.budget \in Charges
  BY MachineAssumption DEF Conclusions, StoppedConclusions
<1>6. \A u \in Denials(t, rs) : u.budget \in Charges
  BY DEF Denials
<1>7. \A u \in Suspensions(t, rs) : u.budget \in Charges
  BY DEF Suspensions, Suspend
<1>8. \A u \in StoppedExecutions(t, rs) : u.budget \in Charges
  BY DEF StoppedExecutions
<1>9. \A u \in Executions(t, rs) : u.budget \in Charges
  <2> TAKE u \in Executions(t, rs)
  <2>1. PICK p \in ToolPlans :
          u = Completed(Charged(Intended(t, p), Total(p)), p.request, t.iteration, Total(p))
    BY DEF Executions, Judged
  <2>2. Total(p) \in Cents
    BY TotalType, MachineAssumption
  <2>3. u.budget = Charge(t.budget, Total(p))
    BY <2>1
  <2> QED
    BY <2>2, <2>3
<1> QED
  BY <1>1, <1>2, <1>3, <1>4, <1>5, <1>6, <1>7, <1>8, <1>9

\* Every branch but Suspend leaves a task that is not suspended and that
\* holds no call, if the one it found held none or was suspended.
LEMMA NoCallIsKept ==
  ASSUME NEW t \in TaskStates, NEW rs \in RuleSets, t.status = "waiting_approval"
  PROVE  \A u \in {Rejected(t), ApprovedButStopped(t), Approved(t)} :
           u.status # "waiting_approval" /\ u.pending = NoPending
<1> USE DEF Taken, Log, Finish, Completed, Charged, Stopped, StopStatus, TaskStates
<1>1. Rejected(t).status = "failed" /\ Rejected(t).pending = NoPending
  BY DEF Rejected
<1>2. /\ ApprovedButStopped(t).status \in {"failed", "aborted_cost_ceiling"}
      /\ ApprovedButStopped(t).pending = NoPending
  BY DEF ApprovedButStopped
<1>3. Approved(t).status = "running" /\ Approved(t).pending = NoPending
  BY DEF Approved
<1> QED
  BY <1>1, <1>2, <1>3

\* No branch of the loop but Suspend makes a pending call.
LEMMA NoCallIsMade ==
  ASSUME NEW t \in TaskStates, NEW rs \in RuleSets, t.pending = NoPending,
         t.status # "waiting_approval"
  PROVE  \A u \in {Started(t), Exhausted(t)} \cup Conclusions(t) \cup
                  StoppedConclusions(t) \cup Denials(t, rs) \cup
                  StoppedExecutions(t, rs) \cup Executions(t, rs) :
           u.status # "waiting_approval" /\ u.pending = NoPending
<1> USE DEF Log, Finish, Intended, Charged, Stopped, StopStatus, TaskStates
<1>1. \A u \in {Started(t), Exhausted(t)} :
        u.status # "waiting_approval" /\ u.pending = NoPending
  BY DEF Started, Exhausted
<1>2. \A u \in Conclusions(t) \cup StoppedConclusions(t) :
        u.status # "waiting_approval" /\ u.pending = NoPending
  BY DEF Conclusions, StoppedConclusions
<1>3. /\ \A u \in Denials(t, rs) :
           u.status # "waiting_approval" /\ u.pending = NoPending
      /\ \A u \in StoppedExecutions(t, rs) :
           u.status # "waiting_approval" /\ u.pending = NoPending
  <2>1. \A u \in Denials(t, rs) :
          u.status # "waiting_approval" /\ u.pending = NoPending
    BY DEF Denials
  <2>2. \A u \in StoppedExecutions(t, rs) :
          u.status # "waiting_approval" /\ u.pending = NoPending
    BY DEF StoppedExecutions
  <2> QED
    BY <2>1, <2>2
<1>4. \A u \in Executions(t, rs) :
        u.status # "waiting_approval" /\ u.pending = NoPending
  <2> TAKE u \in Executions(t, rs)
  <2>1. PICK p \in ToolPlans :
          u = Completed(Charged(Intended(t, p), Total(p)), p.request, t.iteration, Total(p))
    BY DEF Executions, Judged
  <2> QED
    BY <2>1 DEF Completed
<1> QED
  BY <1>1, <1>2, <1>3, <1>4

\* SuspensionHoldsItsCall, read on one task state.
HoldsItsCall(t) ==
  IF t.status = "waiting_approval"
  THEN /\ t.pending.request \in Requests
       /\ t.pending.iteration = t.iteration
       /\ t.iteration < MaxIterations
       /\ t.audit # <<>>
       /\ t.audit[Len(t.audit)] =
            CallEvent("approval_requested", t.pending.request, t.iteration, 0, "")
  ELSE t.pending = NoPending

\* A suspension keeps the call it announces.
LEMMA SuspendHoldsItsCall ==
  ASSUME NEW t \in TaskStates, NEW p \in Plans, ~Spent(t)
  PROVE  HoldsItsCall(Suspend(t, p))
<1> DEFINE u == Suspend(t, p)
           e == CallEvent("approval_requested", p.request, t.iteration, 0, "")
           w == Intended(t, p)
<1>1. /\ u.status = "waiting_approval"
      /\ u.iteration = t.iteration
      /\ u.pending.request = p.request
      /\ u.pending.iteration = t.iteration
      /\ u.audit = Append(w.audit, e)
  BY DEF Suspend, Log, Intended, TaskStates
<1>2. w.audit \in Seq(Events)
  BY IntendedType DEF TaskStates
<1>3. e \in Events
  <2>1. p.request \in Requests /\ t.iteration \in Nat /\ 0 \in Cents
    BY MaxCentsAssumption DEF Plans, TaskStates, Cents
  <2> QED
    BY <2>1, CallEventType DEF Actions, Notes
<1>4. u.audit # <<>> /\ u.audit[Len(u.audit)] = e
  <2> HIDE DEF w, e, u
  <2> QED
    BY <1>1, <1>2, <1>3
<1>5. p.request \in Requests /\ t.iteration < MaxIterations
  BY MachineAssumption DEF Spent, Plans, TaskStates
<1> QED
  BY <1>1, <1>4, <1>5 DEF HoldsItsCall

\* The status and the iteration each branch leaves.
LEMMA EntryMoves ==
  ASSUME NEW t \in TaskStates
  PROVE  /\ Started(t).status = "running" /\ Started(t).iteration = t.iteration
         /\ ClosedIncoherent(t).status = "failed"
         /\ ClosedIncoherent(t).iteration = t.iteration
         /\ Rejected(t).status = "failed" /\ Rejected(t).iteration = t.iteration
         /\ ApprovedButStopped(t).status \in {"failed", "aborted_cost_ceiling"}
         /\ ApprovedButStopped(t).iteration = t.iteration
         /\ Approved(t).status = "running" /\ Approved(t).iteration = t.iteration + 1
<1> USE DEF Taken, Log, Finish, Completed, Charged, Stopped, StopStatus, TaskStates
<1>1. Started(t).status = "running" /\ Started(t).iteration = t.iteration
  BY DEF Started
<1>2. /\ ClosedIncoherent(t).status = "failed"
      /\ ClosedIncoherent(t).iteration = t.iteration
  BY DEF ClosedIncoherent
<1>3. Rejected(t).status = "failed" /\ Rejected(t).iteration = t.iteration
  BY DEF Rejected
<1>4. /\ ApprovedButStopped(t).status \in {"failed", "aborted_cost_ceiling"}
      /\ ApprovedButStopped(t).iteration = t.iteration
  BY DEF ApprovedButStopped
<1>5. Approved(t).status = "running" /\ Approved(t).iteration = t.iteration + 1
  BY DEF Approved
<1> QED
  BY <1>1, <1>2, <1>3, <1>4, <1>5

\* The status and the iteration each pass of the loop leaves.
LEMMA LoopMoves ==
  ASSUME NEW t \in TaskStates, NEW rs \in RuleSets
  PROVE  /\ \A u \in {Exhausted(t)} \cup Conclusions(t) \cup StoppedConclusions(t)
                       \cup Denials(t, rs) \cup StoppedExecutions(t, rs) :
              u.status \in Terminal /\ u.iteration = t.iteration
         /\ \A u \in Denials(t, rs) \cup StoppedExecutions(t, rs) :
              u.status \in {"failed", "aborted_cost_ceiling"}
         /\ \A u \in Suspensions(t, rs) :
              u.status = "waiting_approval" /\ u.iteration = t.iteration
         /\ \A u \in Executions(t, rs) :
              u.status = t.status /\ u.iteration = t.iteration + 1
<1> USE DEF Log, Finish, Intended, Completed, Charged, Stopped, StopStatus, Terminal,
            TaskStates
<1>1. Exhausted(t).status \in Terminal /\ Exhausted(t).iteration = t.iteration
  BY DEF Exhausted
<1>2. \A u \in Conclusions(t) : u.status \in Terminal /\ u.iteration = t.iteration
  BY DEF Conclusions
<1>3. \A u \in StoppedConclusions(t) : u.status \in Terminal /\ u.iteration = t.iteration
  BY DEF StoppedConclusions
<1>4. \A u \in Denials(t, rs) : u.status = "failed" /\ u.iteration = t.iteration
  BY DEF Denials
<1>5. \A u \in StoppedExecutions(t, rs) :
        u.status \in {"failed", "aborted_cost_ceiling"} /\ u.iteration = t.iteration
  BY DEF StoppedExecutions
<1>6. \A u \in Suspensions(t, rs) :
        u.status = "waiting_approval" /\ u.iteration = t.iteration
  BY DEF Suspensions, Suspend
<1>7. \A u \in Executions(t, rs) : u.status = t.status /\ u.iteration = t.iteration + 1
  <2> TAKE u \in Executions(t, rs)
  <2>1. PICK p \in ToolPlans :
          u = Completed(Charged(Intended(t, p), Total(p)), p.request, t.iteration, Total(p))
    BY DEF Executions, Judged
  <2> QED
    BY <2>1
<1> QED
  BY <1>1, <1>2, <1>3, <1>4, <1>5, <1>6, <1>7

-----------------------------------------------------------------------------
(***************************************************************************)
(* The journal each branch leaves                                          *)
(***************************************************************************)
\* u tells what t told, then the events es, and nothing else.
Tells(t, u, es) ==
  /\ u.audit \in Seq(Events)
  /\ Len(u.audit) = Len(t.audit) + Len(es)
  /\ \A k \in 1 .. Len(t.audit) : u.audit[k] = t.audit[k]
  /\ \A k \in 1 .. Len(es) : u.audit[Len(t.audit) + k] = es[k]

\* One, two or three events logged, whatever else the branch changes.
LEMMA LogTells ==
  ASSUME NEW t \in TaskStates, NEW u, NEW e \in Events, NEW f \in Events, NEW g \in Events
  PROVE  /\ u.audit = Append(t.audit, e) => Tells(t, u, <<e>>)
         /\ u.audit = Append(Append(t.audit, e), f) => Tells(t, u, <<e, f>>)
         /\ u.audit = Append(Append(Append(t.audit, e), f), g) => Tells(t, u, <<e, f, g>>)
<1> DEFINE a == t.audit
           n == Len(a)
<1>1. a \in Seq(Events)
  BY DEF TaskStates
<1> HIDE DEF a
<1>2. n \in Nat
  BY <1>1
<1>3. /\ Append(a, e) \in Seq(Events)
      /\ Len(Append(a, e)) = n + 1
      /\ \A k \in 1 .. n : Append(a, e)[k] = a[k]
      /\ Append(a, e)[n + 1] = e
  BY <1>1
<1> DEFINE b == Append(a, e)
<1> HIDE DEF b
<1>4. /\ Append(b, f) \in Seq(Events)
      /\ Len(Append(b, f)) = n + 2
      /\ \A k \in 1 .. n + 1 : Append(b, f)[k] = b[k]
      /\ Append(b, f)[n + 2] = f
  BY <1>2, <1>3 DEF b
<1> DEFINE c == Append(b, f)
<1> HIDE DEF c
<1>5. /\ Append(c, g) \in Seq(Events)
      /\ Len(Append(c, g)) = n + 3
      /\ \A k \in 1 .. n + 2 : Append(c, g)[k] = c[k]
      /\ Append(c, g)[n + 3] = g
  BY <1>2, <1>4 DEF c
<1> HIDE DEF n
<1>6. u.audit = b => Tells(t, u, <<e>>)
  BY <1>2, <1>3 DEF Tells, a, n, b
<1>7. u.audit = c => Tells(t, u, <<e, f>>)
  <2>1. \A k \in 1 .. n : c[k] = a[k]
    BY <1>2, <1>3, <1>4 DEF b, c
  <2>2. c[n + 1] = e /\ c[n + 2] = f /\ Len(c) = n + 2 /\ c \in Seq(Events)
    BY <1>2, <1>3, <1>4 DEF b, c
  <2>3. \A k \in 1 .. 2 : c[n + k] = <<e, f>>[k]
    BY <2>2
  <2> QED
    BY <2>1, <2>2, <2>3 DEF Tells, a, n
<1>8. u.audit = Append(c, g) => Tells(t, u, <<e, f, g>>)
  <2> DEFINE d == Append(c, g)
  <2> HIDE DEF d
  <2>1. \A k \in 1 .. n : d[k] = a[k]
    BY <1>2, <1>3, <1>4, <1>5 DEF b, c, d
  <2>2. /\ d[n + 1] = e /\ d[n + 2] = f /\ d[n + 3] = g
        /\ Len(d) = n + 3 /\ d \in Seq(Events)
    BY <1>2, <1>3, <1>4, <1>5 DEF b, c, d
  <2>3. \A k \in 1 .. 3 : d[n + k] = <<e, f, g>>[k]
    BY <2>2
  <2>4. u.audit = d => Tells(t, u, <<e, f, g>>)
    BY <2>1, <2>2, <2>3 DEF Tells, a, n
  <2> QED
    BY <2>4 DEF d
<1> QED
  BY <1>6, <1>7, <1>8 DEF a, b, c
\* The events of the branches are events.
LEMMA EventTypes ==
  /\ \A a \in Actions, n \in Notes : TaskEvent(a, n) \in Events
  /\ \A a \in Actions, r \in Requests \cup {NoRequest}, i \in Nat, n \in Notes :
       CallEvent(a, r, i, 0, n) \in Events
  /\ \A a \in Actions, r \in Requests \cup {NoRequest}, i \in Nat, c \in Cents, n \in Notes :
       CallEvent(a, r, i, c, n) \in Events
<1>1. 0 \in Cents
  BY MaxCentsAssumption DEF Cents
<1> QED
  BY <1>1, CallEventType, TaskEventType

\* The event a branch ends with.
Finished(s) == TaskEvent("task_finished", s)

\* The charge is refused: the status it decides.
LEMMA StopStatusType ==
  \A t, c : StopStatus(t, c) \in {"failed", "aborted_cost_ceiling"}
BY DEF StopStatus

\* What the entry of drive tells.
LEMMA EntryTells ==
  ASSUME NEW t \in TaskStates
  PROVE  /\ Tells(t, Started(t), <<TaskEvent("task_started", "")>>)
         /\ Tells(t, ClosedIncoherent(t),
                  <<CallEvent("tool_call_denied", NoRequest, t.iteration, 0, "incoherent"),
                    Finished("failed")>>)
         /\ Tells(t, Rejected(t),
                  <<TaskEvent("approval_resolved", "reject"),
                    CallEvent("tool_call_denied", t.pending.request, t.pending.iteration, 0,
                              "human"),
                    Finished("failed")>>)
         /\ \E s \in Terminal :
              Tells(t, ApprovedButStopped(t),
                    <<TaskEvent("approval_resolved", "approve"), Finished(s)>>)
         /\ Tells(t, Approved(t),
                  <<TaskEvent("approval_resolved", "approve"),
                    CallEvent("tool_call_completed", t.pending.request, t.pending.iteration,
                              Total(t.pending), "")>>)
<1> DEFINE resolved(d) == TaskEvent("approval_resolved", d)
           denied(r, i, n) == CallEvent("tool_call_denied", r, i, 0, n)
           completed == CallEvent("tool_call_completed", t.pending.request,
                                  t.pending.iteration, Total(t.pending), "")
           s == StopStatus(Taken(t, "approve"), Total(t.pending))
<1>1. /\ t.iteration \in Nat
      /\ t.pending.request \in Requests \cup {NoRequest}
      /\ t.pending.iteration \in Nat
      /\ Total(t.pending) \in Cents
  BY TotalType DEF TaskStates, PendingCalls
<1>2. s \in {"failed", "aborted_cost_ceiling"} /\ s \in Terminal
  BY StopStatusType DEF Terminal
<1>3. /\ TaskEvent("task_started", "") \in Events
      /\ resolved("approve") \in Events /\ resolved("reject") \in Events
      /\ Finished("failed") \in Events /\ Finished(s) \in Events
  BY <1>2, EventTypes DEF Finished, Actions, Notes, Terminal
<1>4. /\ denied(NoRequest, t.iteration, "incoherent") \in Events
      /\ denied(t.pending.request, t.pending.iteration, "human") \in Events
      /\ completed \in Events
  BY <1>1, EventTypes DEF Actions, CallActions, Notes
<1>5. /\ Started(t).audit = Append(t.audit, TaskEvent("task_started", ""))
      /\ ClosedIncoherent(t).audit =
           Append(Append(t.audit, denied(NoRequest, t.iteration, "incoherent")),
                  Finished("failed"))
  BY DEF Started, ClosedIncoherent, Finish, Log, Finished, TaskStates
<1>6. Rejected(t).audit =
        Append(Append(Append(t.audit, resolved("reject")),
                      denied(t.pending.request, t.pending.iteration, "human")),
               Finished("failed"))
  BY DEF Rejected, Taken, Finish, Log, Finished, TaskStates
<1>7. ApprovedButStopped(t).audit =
        Append(Append(t.audit, resolved("approve")), Finished(s))
  <2> DEFINE v == Taken(t, "approve")
  <2>1. v.audit = Append(t.audit, resolved("approve")) /\ v \in TaskStates
    BY TakenType DEF Taken, Log, TaskStates
  <2>2. \A x : Finish(v, x).audit = Append(v.audit, Finished(x))
    <3> HIDE DEF v
    <3> QED
      BY <2>1 DEF Finish, Log, Finished, TaskStates
  <2> QED
    BY <2>1, <2>2 DEF ApprovedButStopped, Stopped
<1>8. Approved(t).audit = Append(Append(t.audit, resolved("approve")), completed)
  BY DEF Approved, Taken, Completed, Charged, Log, TaskStates
<1> HIDE DEF resolved, denied, completed, s
<1>9. /\ Tells(t, Started(t), <<TaskEvent("task_started", "")>>)
      /\ Tells(t, ClosedIncoherent(t),
               <<denied(NoRequest, t.iteration, "incoherent"), Finished("failed")>>)
  BY <1>3, <1>4, <1>5, LogTells
<1>10. /\ Tells(t, Rejected(t),
                <<resolved("reject"),
                  denied(t.pending.request, t.pending.iteration, "human"),
                  Finished("failed")>>)
       /\ Tells(t, ApprovedButStopped(t), <<resolved("approve"), Finished(s)>>)
       /\ Tells(t, Approved(t), <<resolved("approve"), completed>>)
  BY <1>3, <1>4, <1>6, <1>7, <1>8, LogTells
<1> QED
  BY <1>2, <1>9, <1>10 DEF resolved, denied, completed

\* What one pass of the loop tells.
LEMMA PassTells ==
  ASSUME NEW t \in TaskStates, NEW rs \in RuleSets
  PROVE  LET intended(p) == CallEvent("tool_call_intended", p.request, t.iteration, 0, "")
         IN
         /\ Tells(t, Exhausted(t), <<Finished("failed")>>)
         /\ \A u \in Conclusions(t) : Tells(t, u, <<Finished("succeeded")>>)
         /\ \A u \in StoppedConclusions(t) :
              \E s \in Terminal : Tells(t, u, <<Finished(s)>>)
         /\ \A u \in Denials(t, rs) : \E p \in Judged(rs, "deny") :
              Tells(t, u,
                    <<intended(p),
                      CallEvent("tool_call_denied", p.request, t.iteration, 0, "policy"),
                      Finished("failed")>>)
         /\ \A u \in Suspensions(t, rs) : \E p \in Judged(rs, "require_approval") :
              /\ u = Suspend(t, p)
              /\ Tells(t, u,
                       <<intended(p),
                         CallEvent("approval_requested", p.request, t.iteration, 0, "")>>)
         /\ \A u \in StoppedExecutions(t, rs) :
              \E p \in Judged(rs, "allow"), s \in Terminal :
                Tells(t, u, <<intended(p), Finished(s)>>)
         /\ \A u \in Executions(t, rs) : \E p \in Judged(rs, "allow") :
              /\ Affords(t, Total(p))
              /\ u.budget = Charge(t.budget, Total(p))
              /\ Tells(t, u,
                       <<intended(p),
                         CallEvent("tool_call_completed", p.request, t.iteration, Total(p),
                                   "")>>)
<1> DEFINE call(a, p, c, n) == CallEvent(a, p.request, t.iteration, c, n)
           intended(p) == call("tool_call_intended", p, 0, "")
<1>1. \A v : Judged(rs, v) \subseteq ToolPlans
  BY DEF Judged
<1>2. \A p \in ToolPlans : p \in Plans /\ p.request \in Requests /\ Total(p) \in Cents
  BY TotalType, MachineAssumption DEF Plans
<1>3. t.iteration \in Nat /\ 0 \in Cents
  BY MaxCentsAssumption DEF TaskStates, Cents
<1>4. \A s \in Terminal : Finished(s) \in Events
  BY EventTypes DEF Finished, Actions, Notes
<1>5. \A p \in ToolPlans :
        /\ call("tool_call_intended", p, 0, "") \in Events
        /\ call("tool_call_denied", p, 0, "policy") \in Events
        /\ call("approval_requested", p, 0, "") \in Events
        /\ call("tool_call_completed", p, Total(p), "") \in Events
  BY <1>2, <1>3, EventTypes DEF Actions, CallActions, Notes
<1>6. ASSUME NEW v \in TaskStates, NEW s
      PROVE  Finish(v, s).audit = Append(v.audit, Finished(s))
  BY DEF Finish, Log, Finished, TaskStates
<1>7. ASSUME NEW p \in ToolPlans
      PROVE  /\ Intended(t, p).audit = Append(t.audit, intended(p))
             /\ Intended(t, p) \in TaskStates
             /\ Intended(t, p).budget = t.budget
  <2>1. p \in Plans
    BY <1>2
  <2> QED
    BY <2>1, IntendedType DEF Intended, Log, TaskStates
<1> HIDE DEF intended
<1>8. Tells(t, Exhausted(t), <<Finished("failed")>>)
  <2>1. Exhausted(t).audit = Append(t.audit, Finished("failed"))
    BY <1>6 DEF Exhausted
  <2> QED
    BY <1>4, <2>1, LogTells DEF Terminal
<1>9. ASSUME NEW u \in Conclusions(t) PROVE Tells(t, u, <<Finished("succeeded")>>)
  <2>1. PICK c \in ConclusionCosts : u = Finish(Charged(t, c), "succeeded")
    BY DEF Conclusions
  <2>2. Charged(t, c) \in TaskStates /\ Charged(t, c).audit = t.audit
    BY ChargedType, MachineAssumption DEF Charged, TaskStates
  <2>3. u.audit = Append(t.audit, Finished("succeeded"))
    BY <1>6, <2>1, <2>2
  <2> QED
    BY <1>4, <2>3, LogTells DEF Terminal
<1>10. ASSUME NEW u \in StoppedConclusions(t)
       PROVE  \E s \in Terminal : Tells(t, u, <<Finished(s)>>)
  <2>1. PICK c \in ConclusionCosts : u = Stopped(t, c)
    BY DEF StoppedConclusions
  <2>2. StopStatus(t, c) \in Terminal
    BY StopStatusType DEF Terminal
  <2>3. u.audit = Append(t.audit, Finished(StopStatus(t, c)))
    BY <1>6, <2>1 DEF Stopped
  <2> QED
    BY <1>4, <2>2, <2>3, LogTells
<1>11. ASSUME NEW u \in Denials(t, rs)
       PROVE  \E p \in Judged(rs, "deny") :
                Tells(t, u, <<intended(p), call("tool_call_denied", p, 0, "policy"),
                              Finished("failed")>>)
  <2>1. PICK p \in Judged(rs, "deny") :
          u = Finish(Log(Intended(t, p), call("tool_call_denied", p, 0, "policy")), "failed")
    BY DEF Denials
  <2>2. p \in ToolPlans
    BY <1>1
  <2> DEFINE e == call("tool_call_denied", p, 0, "policy")
             v == Log(Intended(t, p), e)
  <2>3. e \in Events /\ intended(p) \in Events /\ Finished("failed") \in Events
    BY <1>4, <1>5, <2>2 DEF Terminal, intended
  <2> HIDE DEF e
  <2>4. v \in TaskStates /\ v.audit = Append(Intended(t, p).audit, e)
    BY <1>7, <2>2, <2>3, LogType DEF Log, TaskStates
  <2>5. u.audit = Append(Append(Append(t.audit, intended(p)), e), Finished("failed"))
    BY <1>6, <1>7, <2>1, <2>2, <2>4 DEF e
  <2>6. Tells(t, u, <<intended(p), e, Finished("failed")>>)
    BY <2>3, <2>5, LogTells
  <2> QED
    BY <2>6 DEF e
<1>12. ASSUME NEW u \in Suspensions(t, rs)
       PROVE  \E p \in Judged(rs, "require_approval") :
                /\ u = Suspend(t, p)
                /\ Tells(t, u, <<intended(p), call("approval_requested", p, 0, "")>>)
  <2>1. PICK p \in Judged(rs, "require_approval") : u = Suspend(t, p)
    BY DEF Suspensions
  <2>2. p \in ToolPlans
    BY <1>1
  <2> DEFINE e == call("approval_requested", p, 0, "")
  <2>3. e \in Events /\ intended(p) \in Events
    BY <1>5, <2>2 DEF intended
  <2>4. u.audit = Append(Append(t.audit, intended(p)), e)
    BY <1>7, <2>1, <2>2 DEF Suspend, Log, TaskStates
  <2> HIDE DEF e
  <2>5. Tells(t, u, <<intended(p), e>>)
    BY <2>3, <2>4, LogTells
  <2> QED
    BY <2>1, <2>5 DEF e
<1>13. ASSUME NEW u \in StoppedExecutions(t, rs)
       PROVE  \E p \in Judged(rs, "allow"), s \in Terminal :
                Tells(t, u, <<intended(p), Finished(s)>>)
  <2>1. PICK p \in Judged(rs, "allow") : u = Stopped(Intended(t, p), Total(p))
    BY DEF StoppedExecutions
  <2>2. p \in ToolPlans
    BY <1>1
  <2> DEFINE s == StopStatus(Intended(t, p), Total(p))
  <2>3. s \in Terminal
    BY StopStatusType DEF Terminal
  <2>4. u.audit = Append(Append(t.audit, intended(p)), Finished(s))
    BY <1>6, <1>7, <2>1, <2>2 DEF Stopped
  <2>5. intended(p) \in Events /\ Finished(s) \in Events
    BY <1>4, <1>5, <2>2, <2>3 DEF intended
  <2> HIDE DEF s
  <2> QED
    BY <2>3, <2>4, <2>5, LogTells
<1>14. ASSUME NEW u \in Executions(t, rs)
       PROVE  \E p \in Judged(rs, "allow") :
                /\ Affords(t, Total(p))
                /\ u.budget = Charge(t.budget, Total(p))
                /\ Tells(t, u, <<intended(p), call("tool_call_completed", p, Total(p), "")>>)
  <2>1. PICK p \in Judged(rs, "allow") :
          /\ Affords(t, Total(p))
          /\ u = Completed(Charged(Intended(t, p), Total(p)), p.request, t.iteration, Total(p))
    BY DEF Executions
  <2>2. p \in ToolPlans
    BY <1>1
  <2> DEFINE e == call("tool_call_completed", p, Total(p), "")
             v == Intended(t, p)
             c == Charged(v, Total(p))
  <2>3. e \in Events /\ intended(p) \in Events
    BY <1>5, <2>2 DEF intended
  <2>4. /\ v.audit = Append(t.audit, intended(p))
        /\ v \in TaskStates
        /\ v.budget = t.budget
    BY <1>7, <2>2
  <2> HIDE DEF v
  <2>5. c \in TaskStates /\ c.audit = v.audit /\ c.budget = Charge(v.budget, Total(p))
    BY <1>2, <2>2, <2>4, ChargedType DEF Charged, TaskStates
  <2>6. u = Completed(c, p.request, t.iteration, Total(p))
    BY <2>1 DEF v
  <2> HIDE DEF c
  <2>7. u.audit = Append(c.audit, e) /\ u.budget = c.budget
    BY <2>5, <2>6 DEF Completed, Log, TaskStates
  <2> HIDE DEF e
  <2>8. u.audit = Append(Append(t.audit, intended(p)), e)
    BY <2>4, <2>5, <2>7
  <2>9. Tells(t, u, <<intended(p), e>>)
    BY <2>3, <2>8, LogTells
  <2> QED
    BY <2>1, <2>4, <2>5, <2>7, <2>9 DEF e
<1> QED
  BY <1>8, <1>9, <1>10, <1>11, <1>12, <1>13, <1>14 DEF intended
\* The events of u that t does not tell.
NewEvents(t, u) == {u.audit[k] : k \in DOMAIN u.audit \ DOMAIN t.audit}

LEMMA NewEventsAre ==
  ASSUME NEW t \in TaskStates, NEW u, NEW e, NEW f, NEW g
  PROVE  /\ Tells(t, u, <<e>>) => NewEvents(t, u) = {e}
         /\ Tells(t, u, <<e, f>>) => NewEvents(t, u) = {e, f}
         /\ Tells(t, u, <<e, f, g>>) => NewEvents(t, u) = {e, f, g}
<1> DEFINE a == t.audit
           b == u.audit
           n == Len(a)
<1>1. n \in Nat /\ DOMAIN a = 1 .. n
  BY DEF TaskStates
<1>2. ASSUME NEW es, NEW m \in Nat, Len(es) = m, Tells(t, u, es)
      PROVE  NewEvents(t, u) = {b[n + k] : k \in 1 .. m} /\ \A k \in 1 .. m : b[n + k] = es[k]
  <2>1. DOMAIN b = 1 .. n + m
    BY <1>2 DEF Tells
  <2>2. \A k \in 1 .. m : b[n + k] = es[k]
    BY <1>2 DEF Tells
  <2> HIDE DEF n, a, b
  <2>3. DOMAIN b \ DOMAIN a = n + 1 .. n + m
    BY <1>1, <1>2, <2>1
  <2>4. NewEvents(t, u) = {b[k] : k \in n + 1 .. n + m}
    BY <2>3 DEF NewEvents, a, b
  <2>5. ASSUME NEW x PROVE x \in {b[k] : k \in n + 1 .. n + m} <=> x \in {b[n + k] : k \in 1 .. m}
    <3>1. ASSUME NEW k \in n + 1 .. n + m, x = b[k]
          PROVE  x \in {b[n + j] : j \in 1 .. m}
      <4>1. k - n \in 1 .. m /\ n + (k - n) = k
        BY <1>1, <3>1
      <4> QED
        BY <3>1, <4>1
    <3>2. ASSUME NEW k \in 1 .. m, x = b[n + k]
          PROVE  x \in {b[j] : j \in n + 1 .. n + m}
      <4>1. n + k \in n + 1 .. n + m
        BY <1>1
      <4> QED
        BY <3>2, <4>1
    <3> QED
      BY <3>1, <3>2
  <2>6. {b[k] : k \in n + 1 .. n + m} = {b[n + k] : k \in 1 .. m}
    BY <2>5
  <2> QED
    BY <2>2, <2>4, <2>6
<1> HIDE DEF a, b, n
<1>3. ASSUME Tells(t, u, <<e>>) PROVE NewEvents(t, u) = {e}
  <2>1. /\ NewEvents(t, u) = {b[n + k] : k \in 1 .. 1}
        /\ \A k \in 1 .. 1 : b[n + k] = <<e>>[k]
    BY <1>2, <1>3
  <2>2. b[n + 1] = e /\ 1 .. 1 = {1}
    BY <2>1
  <2> QED
    BY <2>1, <2>2
<1>4. ASSUME Tells(t, u, <<e, f>>) PROVE NewEvents(t, u) = {e, f}
  <2>1. /\ NewEvents(t, u) = {b[n + k] : k \in 1 .. 2}
        /\ \A k \in 1 .. 2 : b[n + k] = <<e, f>>[k]
    BY <1>2, <1>4
  <2>2. b[n + 1] = e /\ b[n + 2] = f /\ 1 .. 2 = {1, 2}
    BY <2>1
  <2> QED
    BY <2>1, <2>2
<1>5. ASSUME Tells(t, u, <<e, f, g>>) PROVE NewEvents(t, u) = {e, f, g}
  <2>1. /\ NewEvents(t, u) = {b[n + k] : k \in 1 .. 3}
        /\ \A k \in 1 .. 3 : b[n + k] = <<e, f, g>>[k]
    BY <1>2, <1>5
  <2>2. b[n + 1] = e /\ b[n + 2] = f /\ b[n + 3] = g /\ 1 .. 3 = {1, 2, 3}
    BY <2>1
  <2> QED
    BY <2>1, <2>2
<1> QED
  BY <1>3, <1>4, <1>5

\* The calls run between t and u.
RunsOf(t, u) == {e \in NewEvents(t, u) : e.action = "tool_call_completed"}

LEMMA RunsAre ==
  ASSUME NEW t \in TaskStates, NEW u, NEW e, NEW f, NEW g,
         e.action # "tool_call_completed"
  PROVE  /\ Tells(t, u, <<e>>) => RunsOf(t, u) = {}
         /\ Tells(t, u, <<e, f>>) /\ f.action # "tool_call_completed" => RunsOf(t, u) = {}
         /\ Tells(t, u, <<e, f>>) /\ f.action = "tool_call_completed" => RunsOf(t, u) = {f}
         /\ /\ Tells(t, u, <<e, f, g>>)
            /\ f.action # "tool_call_completed" /\ g.action # "tool_call_completed"
            => RunsOf(t, u) = {}
BY NewEventsAre DEF RunsOf

\* Whether an event is the completion of a call, by the operator it comes from.
LEMMA ActionsAre ==
  /\ \A a, n : TaskEvent(a, n).action = a
  /\ \A a, r, i, c, n : CallEvent(a, r, i, c, n).action = a
  /\ \A s : Finished(s).action = "task_finished"
BY DEF Finished, TaskEvent, CallEvent

\* The calls each branch runs: none but an approved call and an allowed plan.
LEMMA CallsOfEntry ==
  ASSUME NEW t \in TaskStates
  PROVE  /\ RunsOf(t, Started(t)) = {}
         /\ RunsOf(t, ClosedIncoherent(t)) = {}
         /\ RunsOf(t, Rejected(t)) = {}
         /\ RunsOf(t, ApprovedButStopped(t)) = {}
         /\ RunsOf(t, Approved(t)) =
              {CallEvent("tool_call_completed", t.pending.request, t.pending.iteration,
                         Total(t.pending), "")}
<1> DEFINE C == "tool_call_completed"
<1>1. RunsOf(t, Started(t)) = {}
  <2>1. PICK e : e.action # C /\ Tells(t, Started(t), <<e>>)
    BY EntryTells, ActionsAre
  <2> QED
    BY <2>1, RunsAre
<1>2. RunsOf(t, ClosedIncoherent(t)) = {}
  <2> DEFINE d == CallEvent("tool_call_denied", NoRequest, t.iteration, 0, "incoherent")
             s == Finished("failed")
  <2>2. d.action # C /\ s.action # C
    BY DEF CallEvent, TaskEvent, Finished
  <2>3. Tells(t, ClosedIncoherent(t), <<d, s>>)
    BY EntryTells
  <2>1. PICK e, f : e.action # C /\ f.action # C /\ Tells(t, ClosedIncoherent(t), <<e, f>>)
    <3> HIDE DEF d, s
    <3> QED
      BY <2>2, <2>3
  <2> QED
    BY <2>1, RunsAre
<1>3. RunsOf(t, Rejected(t)) = {}
  <2>1. PICK e, f, g : /\ e.action # C /\ f.action # C /\ g.action # C
                       /\ Tells(t, Rejected(t), <<e, f, g>>)
    <3> DEFINE r == TaskEvent("approval_resolved", "reject")
               d == CallEvent("tool_call_denied", t.pending.request, t.pending.iteration, 0,
                              "human")
               s == Finished("failed")
    <3>1. r.action # C /\ d.action # C /\ s.action # C
      BY DEF CallEvent, TaskEvent, Finished
    <3>2. Tells(t, Rejected(t), <<r, d, s>>)
      BY EntryTells
    <3> HIDE DEF r, d, s
    <3> QED
      BY <3>1, <3>2
  <2> QED
    BY <2>1, RunsAre
<1>4. RunsOf(t, ApprovedButStopped(t)) = {}
  <2>1. PICK e, f : e.action # C /\ f.action # C /\ Tells(t, ApprovedButStopped(t), <<e, f>>)
    BY EntryTells, ActionsAre
  <2> QED
    BY <2>1, RunsAre
<1>5. RunsOf(t, Approved(t)) =
        {CallEvent("tool_call_completed", t.pending.request, t.pending.iteration,
                   Total(t.pending), "")}
  <2> DEFINE f == CallEvent("tool_call_completed", t.pending.request, t.pending.iteration,
                            Total(t.pending), "")
  <2>1. f.action = C
    BY DEF CallEvent
  <2>2. PICK e : e.action # C /\ Tells(t, Approved(t), <<e, f>>)
    BY EntryTells, ActionsAre
  <2> HIDE DEF f
  <2>3. RunsOf(t, Approved(t)) = {f}
    BY <2>1, <2>2, RunsAre
  <2> QED
    BY <2>3 DEF f
<1> QED
  BY <1>1, <1>2, <1>3, <1>4, <1>5

LEMMA CallsOfPass ==
  ASSUME NEW t \in TaskStates, NEW rs \in RuleSets
  PROVE  \A u \in {Exhausted(t)} \cup Conclusions(t) \cup StoppedConclusions(t)
                    \cup Denials(t, rs) \cup Suspensions(t, rs)
                    \cup StoppedExecutions(t, rs) :
           RunsOf(t, u) = {}
<1> DEFINE C == "tool_call_completed"
           call(a, p, n) == CallEvent(a, p.request, t.iteration, 0, n)
<1>1. ASSUME NEW u \in {Exhausted(t)} \cup Conclusions(t) \cup StoppedConclusions(t)
      PROVE  RunsOf(t, u) = {}
  <2>1. \E s : Tells(t, u, <<Finished(s)>>)
    BY PassTells
  <2>2. PICK e : e.action # C /\ Tells(t, u, <<e>>)
    BY <2>1, ActionsAre
  <2> QED
    BY <2>2, RunsAre
<1>2. ASSUME NEW u \in Denials(t, rs) PROVE RunsOf(t, u) = {}
  <2>1. PICK e, f, g : /\ e.action # C /\ f.action # C /\ g.action # C
                       /\ Tells(t, u, <<e, f, g>>)
    <3>1. PICK p : Tells(t, u, <<call("tool_call_intended", p, ""),
                                 call("tool_call_denied", p, "policy"),
                                 Finished("failed")>>)
      BY PassTells
    <3> DEFINE i == call("tool_call_intended", p, "")
               d == call("tool_call_denied", p, "policy")
               s == Finished("failed")
    <3>2. i.action # C /\ d.action # C /\ s.action # C
      BY DEF CallEvent, TaskEvent, Finished
    <3>3. Tells(t, u, <<i, d, s>>)
      BY <3>1
    <3> HIDE DEF i, d, s
    <3> QED
      BY <3>2, <3>3
  <2> QED
    BY <2>1, RunsAre
<1>3. ASSUME NEW u \in Suspensions(t, rs) \cup StoppedExecutions(t, rs)
      PROVE  RunsOf(t, u) = {}
  <2>1. PICK e, f : e.action # C /\ f.action # C /\ Tells(t, u, <<e, f>>)
    <3>1. CASE u \in Suspensions(t, rs)
      <4>1. PICK p : Tells(t, u, <<call("tool_call_intended", p, ""),
                                   call("approval_requested", p, "")>>)
        BY <3>1, PassTells
      <4> DEFINE i == call("tool_call_intended", p, "")
                 a == call("approval_requested", p, "")
      <4>2. i.action # C /\ a.action # C
        BY DEF CallEvent
      <4>3. Tells(t, u, <<i, a>>)
        BY <4>1
      <4> HIDE DEF i, a
      <4> QED
        BY <4>2, <4>3
    <3>2. CASE u \in StoppedExecutions(t, rs)
      <4>1. PICK p, x : Tells(t, u, <<call("tool_call_intended", p, ""), Finished(x)>>)
        BY <3>2, PassTells
      <4> DEFINE i == call("tool_call_intended", p, "")
                 s == Finished(x)
      <4>2. i.action # C /\ s.action # C
        BY DEF CallEvent, TaskEvent, Finished
      <4>3. Tells(t, u, <<i, s>>)
        BY <4>1
      <4> HIDE DEF i, s
      <4> QED
        BY <4>2, <4>3
    <3> QED
      BY <1>3, <3>1, <3>2
  <2> QED
    BY <2>1, RunsAre
<1> QED
  BY <1>1, <1>2, <1>3

LEMMA CallsOfExecutions ==
  ASSUME NEW t \in TaskStates, NEW rs \in RuleSets, NEW u \in Executions(t, rs)
  PROVE  \E p \in Judged(rs, "allow") :
           /\ RunsOf(t, u) = {CallEvent("tool_call_completed", p.request, t.iteration,
                                        Total(p), "")}
           /\ Affords(t, Total(p))
           /\ u.budget = Charge(t.budget, Total(p))
<1> DEFINE C == "tool_call_completed"
           f(p) == CallEvent("tool_call_completed", p.request, t.iteration, Total(p), "")
<1>1. PICK p \in Judged(rs, "allow") :
        /\ Affords(t, Total(p))
        /\ u.budget = Charge(t.budget, Total(p))
        /\ Tells(t, u, <<CallEvent("tool_call_intended", p.request, t.iteration, 0, ""),
                         f(p)>>)
  BY PassTells
<1> DEFINE h == f(p)
<1>2. h.action = C
  BY DEF CallEvent
<1>3. PICK e : e.action # C /\ Tells(t, u, <<e, h>>)
  BY <1>1, ActionsAre
<1> HIDE DEF h
<1>4. RunsOf(t, u) = {h}
  BY <1>2, <1>3, RunsAre
<1> QED
  BY <1>1, <1>4 DEF h
-----------------------------------------------------------------------------
(***************************************************************************)
(* What each branch charges                                                *)
(***************************************************************************)
\* A charge that goes through takes its cost, all of it.
LEMMA AffordedIsCharged ==
  ASSUME NEW t \in TaskStates, NEW c \in Cents, Affords(t, c)
  PROVE  /\ Charge(t.budget, c).consumed = t.budget.consumed + c
         /\ Charge(t.budget, c).org_balance = t.budget.org_balance - c
         /\ c >= 0
<1>1. t.budget \in Budgets
  BY DEF TaskStates
<1>2. Charge(t.budget, c) = [t.budget EXCEPT !.consumed = @ + c, !.org_balance = @ - c]
  BY DEF Affords, Charge
<1>3. c >= 0
  BY MaxCentsAssumption DEF Affords, SpendDecision, Cents
<1> QED
  BY <1>1, <1>2, <1>3 DEF Budgets

\* A conclusion and an execution charge what they cost; a stopped one, a
\* denial, a suspension, the end of the allowance charge nothing.
LEMMA BudgetsLeft ==
  ASSUME NEW t \in TaskStates, NEW rs \in RuleSets
  PROVE  /\ Approved(t).budget = Charge(t.budget, Total(t.pending))
         /\ \A u \in Conclusions(t) : \E c \in ConclusionCosts :
              /\ Affords(t, c)
              /\ u.status = "succeeded"
              /\ u.budget = Charge(t.budget, c)
         /\ \A u \in {Started(t), ClosedIncoherent(t), Rejected(t), ApprovedButStopped(t)} :
              u.budget = t.budget /\ u.status # "succeeded"
         /\ \A u \in {Exhausted(t)} \cup StoppedConclusions(t) \cup Denials(t, rs)
                       \cup Suspensions(t, rs) \cup StoppedExecutions(t, rs) :
              u.budget = t.budget /\ u.status # "succeeded"
<1> USE DEF Log, Finish, Intended, Completed, Charged, Taken, TaskStates
<1>1. Approved(t).budget = Charge(t.budget, Total(t.pending))
  BY DEF Approved
<1>2. ASSUME NEW u \in Conclusions(t)
      PROVE  \E c \in ConclusionCosts :
               /\ Affords(t, c)
               /\ u.status = "succeeded"
               /\ u.budget = Charge(t.budget, c)
  BY DEF Conclusions
<1>3. ASSUME NEW x \in TaskStates, NEW c
      PROVE  Stopped(x, c).budget = x.budget /\ Stopped(x, c).status # "succeeded"
  BY StopStatusType DEF Stopped
<1>4. \A u \in {Started(t), ClosedIncoherent(t), Rejected(t)} :
        u.budget = t.budget /\ u.status # "succeeded"
  BY DEF Started, ClosedIncoherent, Rejected
<1>5. /\ ApprovedButStopped(t).budget = t.budget
      /\ ApprovedButStopped(t).status # "succeeded"
  <2>1. Taken(t, "approve") \in TaskStates
    BY TakenType
  <2>2. Taken(t, "approve").budget = t.budget
    OBVIOUS
  <2> QED
    BY <1>3, <2>1, <2>2 DEF ApprovedButStopped
<1>6. \A u \in {Exhausted(t)} \cup StoppedConclusions(t) :
        u.budget = t.budget /\ u.status # "succeeded"
  BY <1>3 DEF Exhausted, StoppedConclusions
<1>7. \A u \in Denials(t, rs) \cup Suspensions(t, rs) :
        u.budget = t.budget /\ u.status # "succeeded"
  BY DEF Denials, Suspensions, Suspend
<1>8. ASSUME NEW u \in StoppedExecutions(t, rs)
      PROVE  u.budget = t.budget /\ u.status # "succeeded"
  <2>1. PICK p \in ToolPlans : u = Stopped(Intended(t, p), Total(p))
    BY DEF StoppedExecutions, Judged
  <2>2. Intended(t, p) \in TaskStates
    BY IntendedType, MachineAssumption
  <2>3. Intended(t, p).budget = t.budget
    OBVIOUS
  <2> QED
    BY <1>3, <2>1, <2>2, <2>3
<1> QED
  BY <1>1, <1>2, <1>4, <1>5, <1>6, <1>7, <1>8
-----------------------------------------------------------------------------
(***************************************************************************)
(* The calls a journal tells of                                            *)
(***************************************************************************)
IsOfCall(e, i) == e.action \in CallActions /\ e.iteration = i

CallPositions(t, i) == {k \in DOMAIN t.audit : IsOfCall(t.audit[k], i)}

UntoldIn(t, i) == CallPositions(t, i) = {}

OpenIn(t, i) ==
  \E a \in CallPositions(t, i) :
    CallPositions(t, i) = {a} /\ t.audit[a].action = "tool_call_intended"

ClosedIn(t, i, action) ==
  \E a, b \in CallPositions(t, i) :
    /\ a < b
    /\ CallPositions(t, i) = {a, b}
    /\ t.audit[a].action = "tool_call_intended"
    /\ t.audit[b].action = action

\* What is new of a call is what the new events tell of it.
LEMMA NewPositions ==
  ASSUME NEW t \in TaskStates, NEW u, NEW es, Len(es) \in Nat, Tells(t, u, es), NEW i
  PROVE  /\ \A k \in CallPositions(t, i) : k \in 1 .. Len(t.audit) /\ u.audit[k] = t.audit[k]
         /\ CallPositions(u, i) =
              CallPositions(t, i) \cup
                {Len(t.audit) + k : k \in {j \in 1 .. Len(es) : IsOfCall(es[j], i)}}
<1> DEFINE a == t.audit
           b == u.audit
           n == Len(a)
           m == Len(es)
<1>1. n \in Nat /\ DOMAIN a = 1 .. n
  BY DEF TaskStates
<1>2. /\ DOMAIN b = 1 .. n + m
      /\ \A k \in 1 .. n : b[k] = a[k]
      /\ \A k \in 1 .. m : b[n + k] = es[k]
  BY DEF Tells
<1>3. m \in Nat
  OBVIOUS
<1> HIDE DEF a, b, n, m
<1>4. \A k \in CallPositions(t, i) : k \in 1 .. n /\ b[k] = a[k]
  BY <1>1, <1>2 DEF CallPositions, a
<1> DEFINE new == {n + k : k \in {j \in 1 .. m : IsOfCall(es[j], i)}}
<1>5. ASSUME NEW k \in CallPositions(u, i) PROVE k \in CallPositions(t, i) \cup new
  <2>1. k \in 1 .. n + m /\ IsOfCall(b[k], i)
    BY <1>2 DEF CallPositions, b
  <2>2. CASE k \in 1 .. n
    BY <1>1, <1>2, <2>1, <2>2 DEF CallPositions, a
  <2>3. CASE k \notin 1 .. n
    <3>1. k - n \in 1 .. m /\ n + (k - n) = k
      BY <1>1, <1>3, <2>1, <2>3
    <3>2. IsOfCall(es[k - n], i)
      BY <1>2, <2>1, <3>1
    <3> QED
      BY <3>1, <3>2
  <2> QED
    BY <2>2, <2>3
<1>6. ASSUME NEW k \in CallPositions(t, i) PROVE k \in CallPositions(u, i)
  <2>1. k \in 1 .. n + m /\ b[k] = a[k] /\ IsOfCall(a[k], i)
    BY <1>1, <1>3, <1>4 DEF CallPositions, a
  <2> QED
    BY <1>2, <2>1 DEF CallPositions, b
<1>7. ASSUME NEW k \in 1 .. m, IsOfCall(es[k], i) PROVE n + k \in CallPositions(u, i)
  <2>1. n + k \in 1 .. n + m /\ b[n + k] = es[k]
    BY <1>1, <1>2, <1>3
  <2> QED
    BY <1>2, <1>7, <2>1 DEF CallPositions, b
<1>8. CallPositions(u, i) = CallPositions(t, i) \cup new
  BY <1>5, <1>6, <1>7
<1> QED
  BY <1>4, <1>8 DEF a, b, n, m

\* A call no new event tells of stays as it was told.
LEMMA KeptCalls ==
  ASSUME NEW t \in TaskStates, NEW u, NEW es, Len(es) \in Nat, Tells(t, u, es), NEW i,
         \A k \in 1 .. Len(es) : ~IsOfCall(es[k], i)
  PROVE  /\ UntoldIn(t, i) => UntoldIn(u, i)
         /\ OpenIn(t, i) => OpenIn(u, i)
         /\ \A x : ClosedIn(t, i, x) => ClosedIn(u, i, x)
<1>1. CallPositions(u, i) = CallPositions(t, i)
  <2> DEFINE S == {j \in 1 .. Len(es) : IsOfCall(es[j], i)}
  <2>1. S = {}
    OBVIOUS
  <2> HIDE DEF S
  <2>2. CallPositions(u, i) = CallPositions(t, i) \cup {Len(t.audit) + k : k \in S}
    BY NewPositions DEF S
  <2> QED
    BY <2>1, <2>2
<1>2. \A k \in CallPositions(t, i) : u.audit[k] = t.audit[k]
  BY NewPositions
<1> QED
  BY <1>1, <1>2 DEF UntoldIn, OpenIn, ClosedIn

\* A call is opened, opened and closed, or closed by the events of a branch.
LEMMA MovedCalls ==
  ASSUME NEW t \in TaskStates, NEW u, NEW es, Len(es) \in Nat, Tells(t, u, es), NEW i
  PROVE  LET new == {j \in 1 .. Len(es) : IsOfCall(es[j], i)} IN
         /\ \A k \in 1 .. Len(es) :
              UntoldIn(t, i) /\ new = {k} /\ es[k].action = "tool_call_intended"
                => OpenIn(u, i)
         /\ \A k, l \in 1 .. Len(es) :
              /\ k < l /\ UntoldIn(t, i) /\ new = {k, l}
              /\ es[k].action = "tool_call_intended"
              => ClosedIn(u, i, es[l].action)
         /\ \A l \in 1 .. Len(es) :
              OpenIn(t, i) /\ new = {l} => ClosedIn(u, i, es[l].action)
<1> DEFINE n == Len(t.audit)
           m == Len(es)
           S == {j \in 1 .. m : IsOfCall(es[j], i)}
           P == CallPositions(t, i)
           Q == CallPositions(u, i)
           b == u.audit
<1>1. n \in Nat
  BY DEF TaskStates
<1>2. Q = P \cup {n + k : k \in S}
  BY NewPositions
<1>3. \A k \in P : k \in 1 .. n /\ b[k] = t.audit[k]
  BY NewPositions
<1>4. \A k \in 1 .. m : b[n + k] = es[k]
  BY DEF Tells
<1>5. /\ P = {} <=> UntoldIn(t, i)
      /\ OpenIn(t, i) <=> \E a \in P : P = {a} /\ t.audit[a].action = "tool_call_intended"
      /\ (\E a \in Q : Q = {a} /\ b[a].action = "tool_call_intended") => OpenIn(u, i)
      /\ \A x : (\E c, d \in Q : /\ c < d /\ Q = {c, d}
                                 /\ b[c].action = "tool_call_intended"
                                 /\ b[d].action = x) => ClosedIn(u, i, x)
  BY DEF UntoldIn, OpenIn, ClosedIn
<1>6. m \in Nat
  OBVIOUS
<1> HIDE DEF n, m, P, Q, S, b
<1>7. ASSUME NEW k \in 1 .. m, P = {}, S = {k}, es[k].action = "tool_call_intended"
      PROVE  OpenIn(u, i)
  <2>1. Q = {n + k} /\ b[n + k].action = "tool_call_intended"
    BY <1>2, <1>4, <1>7
  <2> QED
    BY <1>5, <2>1
<1>8. ASSUME NEW k \in 1 .. m, NEW l \in 1 .. m, k < l, P = {}, S = {k, l},
             es[k].action = "tool_call_intended"
      PROVE  ClosedIn(u, i, es[l].action)
  <2>1. Q = {n + k, n + l} /\ n + k < n + l
    BY <1>1, <1>2, <1>6, <1>8
  <2>2. b[n + k].action = "tool_call_intended" /\ b[n + l].action = es[l].action
    BY <1>4, <1>8
  <2> QED
    BY <1>5, <2>1, <2>2
<1>9. ASSUME NEW l \in 1 .. m, OpenIn(t, i), S = {l}
      PROVE  ClosedIn(u, i, es[l].action)
  <2>1. PICK a \in P : P = {a} /\ t.audit[a].action = "tool_call_intended"
    BY <1>5, <1>9
  <2>2. a \in 1 .. n /\ b[a].action = "tool_call_intended"
    BY <1>3, <2>1
  <2>3. Q = {a, n + l} /\ a < n + l
    BY <1>1, <1>2, <1>6, <1>9, <2>1, <2>2
  <2>4. b[n + l].action = es[l].action
    BY <1>4
  <2> QED
    BY <1>5, <2>2, <2>3, <2>4
<1>10. \A k \in 1 .. m :
          UntoldIn(t, i) /\ S = {k} /\ es[k].action = "tool_call_intended" => OpenIn(u, i)
  BY <1>5, <1>7
<1>11. \A k, l \in 1 .. m :
          /\ k < l /\ UntoldIn(t, i) /\ S = {k, l}
          /\ es[k].action = "tool_call_intended"
          => ClosedIn(u, i, es[l].action)
  <2> SUFFICES ASSUME NEW k \in 1 .. m, NEW l \in 1 .. m, k < l, UntoldIn(t, i), S = {k, l},
                      es[k].action = "tool_call_intended"
               PROVE  ClosedIn(u, i, es[l].action)
    OBVIOUS
  <2>1. P = {}
    BY <1>5
  <2> QED
    BY <1>8, <2>1
<1>12. \A l \in 1 .. m : OpenIn(t, i) /\ S = {l} => ClosedIn(u, i, es[l].action)
  BY <1>9
<1> QED
  BY <1>10, <1>11, <1>12 DEF S, m
\* What each shape of branch does to the call its events tell of.
LEMMA CallsMove ==
  ASSUME NEW t \in TaskStates, NEW u, NEW i
  PROVE  /\ \A e : Tells(t, u, <<e>>) /\ ~IsOfCall(e, i) =>
              /\ UntoldIn(t, i) => UntoldIn(u, i)
              /\ OpenIn(t, i) => OpenIn(u, i)
         /\ \A e, f : Tells(t, u, <<e, f>>) /\ ~IsOfCall(e, i) /\ ~IsOfCall(f, i) =>
              /\ UntoldIn(t, i) => UntoldIn(u, i)
              /\ OpenIn(t, i) => OpenIn(u, i)
         /\ \A e, f : Tells(t, u, <<e, f>>) /\ IsOfCall(e, i) /\ ~IsOfCall(f, i) =>
              (UntoldIn(t, i) /\ e.action = "tool_call_intended" => OpenIn(u, i))
         /\ \A e, f : Tells(t, u, <<e, f>>) /\ IsOfCall(e, i) /\ IsOfCall(f, i) =>
              (UntoldIn(t, i) /\ e.action = "tool_call_intended" => ClosedIn(u, i, f.action))
         /\ \A e, f : Tells(t, u, <<e, f>>) /\ ~IsOfCall(e, i) /\ IsOfCall(f, i) =>
              (OpenIn(t, i) => ClosedIn(u, i, f.action))
         /\ \A e, f, g : Tells(t, u, <<e, f, g>>) /\ IsOfCall(e, i) /\ IsOfCall(f, i)
                           /\ ~IsOfCall(g, i) =>
              (UntoldIn(t, i) /\ e.action = "tool_call_intended" => ClosedIn(u, i, f.action))
         /\ \A e, f, g : Tells(t, u, <<e, f, g>>) /\ ~IsOfCall(e, i) /\ IsOfCall(f, i)
                           /\ ~IsOfCall(g, i) =>
              (OpenIn(t, i) => ClosedIn(u, i, f.action))
<1> DEFINE new(es, m) == {j \in 1 .. m : IsOfCall(es[j], i)}
<1>1. ASSUME NEW e, NEW f
      PROVE  LET es == <<e, f>> IN
             /\ es[1] = e /\ es[2] = f
             /\ IsOfCall(e, i) /\ ~IsOfCall(f, i) => new(es, 2) = {1}
             /\ IsOfCall(e, i) /\ IsOfCall(f, i) => new(es, 2) = {1, 2}
             /\ ~IsOfCall(e, i) /\ IsOfCall(f, i) => new(es, 2) = {2}
  <2> DEFINE es == <<e, f>>
  <2>1. es[1] = e /\ es[2] = f
    OBVIOUS
  <2> HIDE DEF es
  <2>2. \A j : j \in new(es, 2) <=> (j = 1 /\ IsOfCall(e, i)) \/ (j = 2 /\ IsOfCall(f, i))
    BY <2>1
  <2> HIDE DEF new
  <2>3. /\ IsOfCall(e, i) /\ ~IsOfCall(f, i) => new(es, 2) = {1}
        /\ IsOfCall(e, i) /\ IsOfCall(f, i) => new(es, 2) = {1, 2}
        /\ ~IsOfCall(e, i) /\ IsOfCall(f, i) => new(es, 2) = {2}
    BY <2>2
  <2> QED
    BY <2>1, <2>3 DEF es, new
<1>2. ASSUME NEW e, NEW f, NEW g, ~IsOfCall(g, i)
      PROVE  LET es == <<e, f, g>> IN
             /\ es[1] = e /\ es[2] = f
             /\ IsOfCall(e, i) /\ IsOfCall(f, i) => new(es, 3) = {1, 2}
             /\ ~IsOfCall(e, i) /\ IsOfCall(f, i) => new(es, 3) = {2}
  <2> DEFINE es == <<e, f, g>>
  <2>1. es[1] = e /\ es[2] = f /\ es[3] = g
    OBVIOUS
  <2> HIDE DEF es
  <2>2. \A j : j \in new(es, 3) <=> (j = 1 /\ IsOfCall(e, i)) \/ (j = 2 /\ IsOfCall(f, i))
    BY <1>2, <2>1
  <2> HIDE DEF new
  <2>3. /\ IsOfCall(e, i) /\ IsOfCall(f, i) => new(es, 3) = {1, 2}
        /\ ~IsOfCall(e, i) /\ IsOfCall(f, i) => new(es, 3) = {2}
    BY <2>2
  <2> QED
    BY <2>1, <2>3 DEF es, new
<1>3. ASSUME NEW e, Tells(t, u, <<e>>), ~IsOfCall(e, i)
      PROVE  /\ UntoldIn(t, i) => UntoldIn(u, i)
             /\ OpenIn(t, i) => OpenIn(u, i)
  <2>1. Len(<<e>>) \in Nat /\ \A k \in 1 .. Len(<<e>>) : ~IsOfCall(<<e>>[k], i)
    BY <1>3
  <2> QED
    BY <1>3, <2>1, KeptCalls
<1>4. ASSUME NEW e, NEW f, Tells(t, u, <<e, f>>), ~IsOfCall(e, i), ~IsOfCall(f, i)
      PROVE  /\ UntoldIn(t, i) => UntoldIn(u, i)
             /\ OpenIn(t, i) => OpenIn(u, i)
  <2>1. Len(<<e, f>>) \in Nat /\ \A k \in 1 .. Len(<<e, f>>) : ~IsOfCall(<<e, f>>[k], i)
    BY <1>4
  <2> QED
    BY <1>4, <2>1, KeptCalls
<1> HIDE DEF new
<1>5. ASSUME NEW es, NEW m \in Nat, Len(es) = m, Tells(t, u, es),
             NEW k \in 1 .. m, NEW l \in 1 .. m
      PROVE  /\ UntoldIn(t, i) /\ new(es, m) = {k} /\ es[k].action = "tool_call_intended"
                  => OpenIn(u, i)
             /\ k < l /\ UntoldIn(t, i) /\ new(es, m) = {k, l}
                  /\ es[k].action = "tool_call_intended" => ClosedIn(u, i, es[l].action)
             /\ OpenIn(t, i) /\ new(es, m) = {l} => ClosedIn(u, i, es[l].action)
  BY <1>5, MovedCalls DEF new
<1>6. \A e, f, g : Len(<<e, f>>) = 2 /\ Len(<<e, f, g>>) = 3
  OBVIOUS
<1>7. ASSUME NEW e, NEW f, Tells(t, u, <<e, f>>), IsOfCall(e, i), ~IsOfCall(f, i),
             UntoldIn(t, i), e.action = "tool_call_intended"
      PROVE  OpenIn(u, i)
  <2> DEFINE es == <<e, f>>
  <2>1. Len(es) = 2 /\ Tells(t, u, es) /\ es[1] = e /\ new(es, 2) = {1}
    BY <1>1, <1>7
  <2> HIDE DEF es
  <2>2. 2 \in Nat /\ 1 \in 1 .. 2 /\ 2 \in 1 .. 2 /\ 1 < 2
    OBVIOUS
  <2>3. /\ UntoldIn(t, i) /\ new(es, 2) = {1} /\ es[1].action = "tool_call_intended"
             => OpenIn(u, i)
        /\ UntoldIn(t, i) /\ new(es, 2) = {1, 2} /\ es[1].action = "tool_call_intended"
             => ClosedIn(u, i, es[2].action)
        /\ OpenIn(t, i) /\ new(es, 2) = {2} => ClosedIn(u, i, es[2].action)
    BY <1>5, <2>1, <2>2
  <2> QED
    BY <1>7, <2>1, <2>3
<1>8. ASSUME NEW e, NEW f, Tells(t, u, <<e, f>>), IsOfCall(e, i), IsOfCall(f, i),
             UntoldIn(t, i), e.action = "tool_call_intended"
      PROVE  ClosedIn(u, i, f.action)
  <2> DEFINE es == <<e, f>>
  <2>1. Len(es) = 2 /\ Tells(t, u, es) /\ es[1] = e /\ es[2] = f /\ new(es, 2) = {1, 2}
    BY <1>1, <1>8
  <2> HIDE DEF es
  <2>2. 2 \in Nat /\ 1 \in 1 .. 2 /\ 2 \in 1 .. 2 /\ 1 < 2
    OBVIOUS
  <2>3. /\ UntoldIn(t, i) /\ new(es, 2) = {1} /\ es[1].action = "tool_call_intended"
             => OpenIn(u, i)
        /\ UntoldIn(t, i) /\ new(es, 2) = {1, 2} /\ es[1].action = "tool_call_intended"
             => ClosedIn(u, i, es[2].action)
        /\ OpenIn(t, i) /\ new(es, 2) = {2} => ClosedIn(u, i, es[2].action)
    BY <1>5, <2>1, <2>2
  <2> QED
    BY <1>8, <2>1, <2>3
<1>9. ASSUME NEW e, NEW f, Tells(t, u, <<e, f>>), ~IsOfCall(e, i), IsOfCall(f, i),
             OpenIn(t, i)
      PROVE  ClosedIn(u, i, f.action)
  <2> DEFINE es == <<e, f>>
  <2>1. Len(es) = 2 /\ Tells(t, u, es) /\ es[2] = f /\ new(es, 2) = {2}
    BY <1>1, <1>9
  <2> HIDE DEF es
  <2>2. 2 \in Nat /\ 1 \in 1 .. 2 /\ 2 \in 1 .. 2 /\ 1 < 2
    OBVIOUS
  <2>3. /\ UntoldIn(t, i) /\ new(es, 2) = {1} /\ es[1].action = "tool_call_intended"
             => OpenIn(u, i)
        /\ UntoldIn(t, i) /\ new(es, 2) = {1, 2} /\ es[1].action = "tool_call_intended"
             => ClosedIn(u, i, es[2].action)
        /\ OpenIn(t, i) /\ new(es, 2) = {2} => ClosedIn(u, i, es[2].action)
    BY <1>5, <2>1, <2>2
  <2> QED
    BY <1>9, <2>1, <2>3
<1>10. ASSUME NEW e, NEW f, NEW g, Tells(t, u, <<e, f, g>>),
              IsOfCall(e, i), IsOfCall(f, i), ~IsOfCall(g, i),
              UntoldIn(t, i), e.action = "tool_call_intended"
       PROVE  ClosedIn(u, i, f.action)
  <2> DEFINE es == <<e, f, g>>
  <2>1. Len(es) = 3 /\ Tells(t, u, es) /\ es[1] = e /\ es[2] = f /\ new(es, 3) = {1, 2}
    BY <1>2, <1>10
  <2> HIDE DEF es
  <2>2. 3 \in Nat /\ 1 \in 1 .. 3 /\ 2 \in 1 .. 3 /\ 1 < 2
    OBVIOUS
  <2>3. /\ UntoldIn(t, i) /\ new(es, 3) = {1} /\ es[1].action = "tool_call_intended"
             => OpenIn(u, i)
        /\ UntoldIn(t, i) /\ new(es, 3) = {1, 2} /\ es[1].action = "tool_call_intended"
             => ClosedIn(u, i, es[2].action)
        /\ OpenIn(t, i) /\ new(es, 3) = {2} => ClosedIn(u, i, es[2].action)
    BY <1>5, <2>1, <2>2
  <2> QED
    BY <1>10, <2>1, <2>3
<1>11. ASSUME NEW e, NEW f, NEW g, Tells(t, u, <<e, f, g>>),
              ~IsOfCall(e, i), IsOfCall(f, i), ~IsOfCall(g, i), OpenIn(t, i)
       PROVE  ClosedIn(u, i, f.action)
  <2> DEFINE es == <<e, f, g>>
  <2>1. Len(es) = 3 /\ Tells(t, u, es) /\ es[2] = f /\ new(es, 3) = {2}
    BY <1>2, <1>11
  <2> HIDE DEF es
  <2>2. 3 \in Nat /\ 1 \in 1 .. 3 /\ 2 \in 1 .. 3 /\ 1 < 2
    OBVIOUS
  <2>3. /\ UntoldIn(t, i) /\ new(es, 3) = {1} /\ es[1].action = "tool_call_intended"
             => OpenIn(u, i)
        /\ UntoldIn(t, i) /\ new(es, 3) = {1, 2} /\ es[1].action = "tool_call_intended"
             => ClosedIn(u, i, es[2].action)
        /\ OpenIn(t, i) /\ new(es, 3) = {2} => ClosedIn(u, i, es[2].action)
    BY <1>5, <2>1, <2>2
  <2> QED
    BY <1>11, <2>1, <2>3
<1> QED
  BY <1>3, <1>4, <1>7, <1>8, <1>9, <1>10, <1>11
-----------------------------------------------------------------------------
(***************************************************************************)
(* The journal is well formed                                              *)
(***************************************************************************)
\* CallsWellFormed, read on one task state, and what the status adds to it: a
\* task about to plan or that has concluded has not told of its own call, a
\* suspended one left it open.
WellFormed(t) ==
  /\ \A i \in 0 .. t.iteration - 1 : ClosedIn(t, i, "tool_call_completed")
  /\ \/ UntoldIn(t, t.iteration)
     \/ OpenIn(t, t.iteration)
     \/ ClosedIn(t, t.iteration, "tool_call_denied")
  /\ \A k \in DOMAIN t.audit : t.audit[k].iteration <= t.iteration
  /\ t.status \in {"pending", "running", "succeeded"} => UntoldIn(t, t.iteration)
  /\ t.status = "waiting_approval" => OpenIn(t, t.iteration)

\* No event tells of a call to come.
LEMMA NothingAhead ==
  ASSUME NEW t \in TaskStates, WellFormed(t), NEW i \in Nat, i > t.iteration
  PROVE  UntoldIn(t, i)
<1>1. \A k \in DOMAIN t.audit : t.audit[k].iteration # i
  BY DEF WellFormed, TaskStates
<1> QED
  BY <1>1 DEF UntoldIn, CallPositions, IsOfCall

\* Events of the task's own call keep the journal well formed if they leave
\* that call as the state they leave needs it.
LEMMA WellFormedStep ==
  ASSUME NEW t \in TaskStates, NEW u, NEW es, Len(es) \in Nat, Tells(t, u, es),
         WellFormed(t),
         \A k \in 1 .. Len(es) : /\ es[k].iteration <= t.iteration
                                 /\ es[k].action \in CallActions => es[k].iteration = t.iteration,
         \/ /\ u.iteration = t.iteration
            /\ \/ OpenIn(u, t.iteration)
               \/ UntoldIn(u, t.iteration)
               \/ ClosedIn(u, t.iteration, "tool_call_denied")
            /\ u.status \in {"pending", "running", "succeeded"} => UntoldIn(u, t.iteration)
            /\ u.status = "waiting_approval" => OpenIn(u, t.iteration)
         \/ /\ u.iteration = t.iteration + 1
            /\ ClosedIn(u, t.iteration, "tool_call_completed")
            /\ u.status = "running"
  PROVE  WellFormed(u)
<1>1. t.iteration \in Nat
  BY DEF TaskStates
<1>2. ASSUME NEW i \in Nat, i # t.iteration
      PROVE  /\ UntoldIn(t, i) => UntoldIn(u, i)
             /\ ClosedIn(t, i, "tool_call_completed") => ClosedIn(u, i, "tool_call_completed")
  <2>1. \A k \in 1 .. Len(es) : ~IsOfCall(es[k], i)
    BY <1>2 DEF IsOfCall
  <2> QED
    BY <2>1, KeptCalls
<1>3. \A i \in 0 .. t.iteration - 1 : ClosedIn(u, i, "tool_call_completed")
  BY <1>1, <1>2 DEF WellFormed
<1>4. \A k \in DOMAIN u.audit : u.audit[k].iteration <= t.iteration
  <2> DEFINE n == Len(t.audit)
             m == Len(es)
             b == u.audit
  <2>1. n \in Nat /\ m \in Nat /\ DOMAIN b = 1 .. n + m
    BY DEF TaskStates, Tells
  <2>2. \A k \in 1 .. n : b[k].iteration <= t.iteration
    <3>1. \A k \in 1 .. n : b[k] = t.audit[k] /\ k \in DOMAIN t.audit
      BY DEF Tells, TaskStates
    <3> QED
      BY <3>1 DEF WellFormed
  <2>3. \A k \in 1 .. m : b[n + k].iteration <= t.iteration
    BY DEF Tells
  <2> HIDE DEF n, m, b
  <2>4. \A k \in 1 .. n + m : k \in 1 .. n \/ (k - n \in 1 .. m /\ n + (k - n) = k)
    BY <2>1
  <2>5. \A k \in 1 .. n + m : b[k].iteration <= t.iteration
    BY <2>2, <2>3, <2>4
  <2> QED
    BY <2>1, <2>5 DEF b
<1>5. CASE u.iteration = t.iteration + 1
  <2>1. ClosedIn(u, t.iteration, "tool_call_completed") /\ u.status = "running"
    BY <1>1, <1>5
  <2>2. \A i \in 0 .. u.iteration - 1 : ClosedIn(u, i, "tool_call_completed")
    <3>1. \A i \in 0 .. u.iteration - 1 : i \in 0 .. t.iteration - 1 \/ i = t.iteration
      BY <1>1, <1>5
    <3> QED
      BY <1>3, <2>1, <3>1
  <2>3. UntoldIn(u, u.iteration)
    <3>1. t.iteration + 1 \in Nat /\ t.iteration + 1 > t.iteration /\ t.iteration + 1 # t.iteration
      BY <1>1
    <3>2. UntoldIn(t, t.iteration + 1)
      BY <3>1, NothingAhead
    <3> QED
      BY <1>2, <1>5, <3>1, <3>2
  <2>4. \A k \in DOMAIN u.audit : u.audit[k].iteration <= u.iteration
    <3> TAKE k \in DOMAIN u.audit
    <3>1. u.audit[k] \in Events
      BY DEF Tells
    <3>2. u.audit[k].iteration \in Nat /\ u.audit[k].iteration <= t.iteration
      BY <1>4, <3>1 DEF Events
    <3> QED
      BY <1>1, <1>5, <3>2
  <2> QED
    BY <2>1, <2>2, <2>3, <2>4 DEF WellFormed
<1>6. CASE u.iteration = t.iteration
  <2>1. /\ \/ UntoldIn(u, t.iteration)
           \/ OpenIn(u, t.iteration)
           \/ ClosedIn(u, t.iteration, "tool_call_denied")
        /\ u.status \in {"pending", "running", "succeeded"} => UntoldIn(u, t.iteration)
        /\ u.status = "waiting_approval" => OpenIn(u, t.iteration)
    BY <1>1, <1>6
  <2> QED
    BY <1>3, <1>4, <1>6, <2>1 DEF WellFormed
<1> QED
  BY <1>5, <1>6
\* An event of the task's own call, or of none.
Own(t, e) ==
  /\ e.iteration <= t.iteration
  /\ e.action \in CallActions => e.iteration = t.iteration

\* The call of t as u needs it to be told.
Leaves(t, u) ==
  \/ /\ u.iteration = t.iteration
     /\ \/ OpenIn(u, t.iteration)
        \/ UntoldIn(u, t.iteration)
        \/ ClosedIn(u, t.iteration, "tool_call_denied")
     /\ u.status \in {"pending", "running", "succeeded"} => UntoldIn(u, t.iteration)
     /\ u.status = "waiting_approval" => OpenIn(u, t.iteration)
  \/ /\ u.iteration = t.iteration + 1
     /\ ClosedIn(u, t.iteration, "tool_call_completed")
     /\ u.status = "running"

LEMMA OwnEventsKeep ==
  ASSUME NEW t \in TaskStates, NEW u, WellFormed(t), Leaves(t, u)
  PROVE  /\ \A e : Tells(t, u, <<e>>) /\ Own(t, e) => WellFormed(u)
         /\ \A e, f : Tells(t, u, <<e, f>>) /\ Own(t, e) /\ Own(t, f) => WellFormed(u)
         /\ \A e, f, g : /\ Tells(t, u, <<e, f, g>>)
                         /\ Own(t, e) /\ Own(t, f) /\ Own(t, g)
                         => WellFormed(u)
<1>1. ASSUME NEW es, Len(es) \in Nat, Tells(t, u, es), \A k \in 1 .. Len(es) : Own(t, es[k])
      PROVE  WellFormed(u)
  BY <1>1, WellFormedStep DEF Leaves, Own
<1>2. ASSUME NEW e, Tells(t, u, <<e>>), Own(t, e) PROVE WellFormed(u)
  <2>1. Len(<<e>>) \in Nat /\ \A k \in 1 .. Len(<<e>>) : Own(t, <<e>>[k])
    BY <1>2
  <2> QED
    BY <1>1, <1>2, <2>1
<1>3. ASSUME NEW e, NEW f, Tells(t, u, <<e, f>>), Own(t, e), Own(t, f) PROVE WellFormed(u)
  <2>1. Len(<<e, f>>) \in Nat /\ \A k \in 1 .. Len(<<e, f>>) : Own(t, <<e, f>>[k])
    BY <1>3
  <2> QED
    BY <1>1, <1>3, <2>1
<1>4. ASSUME NEW e, NEW f, NEW g, Tells(t, u, <<e, f, g>>),
             Own(t, e), Own(t, f), Own(t, g)
      PROVE  WellFormed(u)
  <2>1. Len(<<e, f, g>>) \in Nat /\ \A k \in 1 .. Len(<<e, f, g>>) : Own(t, <<e, f, g>>[k])
    BY <1>4
  <2> QED
    BY <1>1, <1>4, <2>1
<1> QED
  BY <1>2, <1>3, <1>4

\* The events of tasks are of no call; those of a call are of the call.
LEMMA EventsOwned ==
  ASSUME NEW t \in TaskStates
  PROVE  /\ \A a, n, i : a \notin CallActions => ~IsOfCall(TaskEvent(a, n), i)
         /\ \A a, n : a \notin CallActions => Own(t, TaskEvent(a, n))
         /\ \A s, i : ~IsOfCall(Finished(s), i)
         /\ \A s : Own(t, Finished(s))
         /\ \A a, r, c, n : Own(t, CallEvent(a, r, t.iteration, c, n))
         /\ \A a, r, c, n : a \in CallActions =>
              IsOfCall(CallEvent(a, r, t.iteration, c, n), t.iteration)
         /\ \A a, r, i, c, n : a \notin CallActions => ~IsOfCall(CallEvent(a, r, i, c, n), i)
<1>1. 0 <= t.iteration /\ t.iteration <= t.iteration
  BY DEF TaskStates
<1>2. "task_finished" \notin CallActions
  BY DEF CallActions
<1> QED
  BY <1>1, <1>2 DEF IsOfCall, Own, Finished, TaskEvent, CallEvent

\* The entry of drive keeps the journal well formed.
LEMMA EntryWellFormed ==
  ASSUME NEW t \in TaskStates, WellFormed(t)
  PROVE  /\ t.status = "pending" => WellFormed(Started(t))
         /\ t.status = "waiting_approval" /\ HoldsItsCall(t) =>
              /\ WellFormed(Rejected(t))
              /\ WellFormed(ApprovedButStopped(t))
              /\ WellFormed(Approved(t))
<1> DEFINE i == t.iteration
           completed == CallEvent("tool_call_completed", t.pending.request, i,
                                  Total(t.pending), "")
           denied == CallEvent("tool_call_denied", t.pending.request, i, 0, "human")
           started == TaskEvent("task_started", "")
           resolved(d) == TaskEvent("approval_resolved", d)
<1>1. /\ {"tool_call_completed", "tool_call_denied"} \subseteq CallActions
      /\ "task_started" \notin CallActions /\ "approval_resolved" \notin CallActions
  BY DEF CallActions
<1>2. /\ Own(t, started) /\ ~IsOfCall(started, i)
      /\ \A d : Own(t, resolved(d)) /\ ~IsOfCall(resolved(d), i)
      /\ \A s : Own(t, Finished(s)) /\ ~IsOfCall(Finished(s), i)
  BY <1>1, EventsOwned
<1>3. /\ Own(t, completed) /\ IsOfCall(completed, i)
      /\ Own(t, denied) /\ IsOfCall(denied, i)
  BY <1>1, EventsOwned
<1>4. completed.action = "tool_call_completed" /\ denied.action = "tool_call_denied"
  BY DEF CallEvent
<1>5. ASSUME t.status = "waiting_approval", HoldsItsCall(t)
      PROVE  /\ Tells(t, Rejected(t), <<resolved("reject"), denied, Finished("failed")>>)
             /\ \E s \in Terminal :
                  Tells(t, ApprovedButStopped(t), <<resolved("approve"), Finished(s)>>)
             /\ Tells(t, Approved(t), <<resolved("approve"), completed>>)
  <2>1. t.pending.iteration = i
    BY <1>5 DEF HoldsItsCall
  <2> QED
    BY <2>1, EntryTells
<1>6. Tells(t, Started(t), <<started>>)
  BY EntryTells
<1> HIDE DEF completed, denied, started, resolved
<1>7. ASSUME t.status = "pending" PROVE WellFormed(Started(t))
  <2>1. UntoldIn(t, i)
    BY <1>7 DEF WellFormed
  <2>2. UntoldIn(Started(t), i)
    BY <1>2, <1>6, <2>1, CallsMove
  <2>3. Leaves(t, Started(t))
    BY <2>2, EntryMoves DEF Leaves
  <2> QED
    BY <1>2, <1>6, <2>3, OwnEventsKeep
<1>8. ASSUME t.status = "waiting_approval", HoldsItsCall(t)
      PROVE  WellFormed(Rejected(t)) /\ WellFormed(ApprovedButStopped(t))
             /\ WellFormed(Approved(t))
  <2>1. OpenIn(t, i)
    BY <1>8 DEF WellFormed
  <2>2. WellFormed(Rejected(t))
    <3>1. ClosedIn(Rejected(t), i, "tool_call_denied")
      <4>1. Tells(t, Rejected(t), <<resolved("reject"), denied, Finished("failed")>>)
        BY <1>5, <1>8
      <4>2. OpenIn(t, i) => ClosedIn(Rejected(t), i, denied.action)
        BY <1>2, <1>3, <4>1, CallsMove
      <4> QED
        BY <1>4, <2>1, <4>2
    <3>2. Leaves(t, Rejected(t))
      BY <3>1, EntryMoves DEF Leaves
    <3> QED
      BY <1>2, <1>3, <1>5, <1>8, <3>2, OwnEventsKeep
  <2>3. WellFormed(ApprovedButStopped(t))
    <3>1. PICK s \in Terminal :
             Tells(t, ApprovedButStopped(t), <<resolved("approve"), Finished(s)>>)
      BY <1>5, <1>8
    <3>2. OpenIn(ApprovedButStopped(t), i)
      BY <1>2, <3>1, <2>1, CallsMove
    <3>3. Leaves(t, ApprovedButStopped(t))
      BY <3>2, EntryMoves DEF Leaves
    <3> QED
      BY <1>2, <3>1, <3>3, OwnEventsKeep
  <2>4. WellFormed(Approved(t))
    <3>1. ClosedIn(Approved(t), i, "tool_call_completed")
      BY <1>2, <1>3, <1>4, <1>5, <1>8, <2>1, CallsMove
    <3>2. Leaves(t, Approved(t))
      BY <3>1, EntryMoves DEF Leaves
    <3> QED
      BY <1>2, <1>3, <1>5, <1>8, <3>2, OwnEventsKeep
  <2> QED
    BY <2>2, <2>3, <2>4
<1> QED
  BY <1>7, <1>8

\* A pass of the loop keeps the journal well formed.
LEMMA PassWellFormed ==
  ASSUME NEW t \in TaskStates, NEW rs \in RuleSets, WellFormed(t), t.status = "running"
  PROVE  /\ WellFormed(Exhausted(t))
         /\ \A u \in Conclusions(t) \cup StoppedConclusions(t) : WellFormed(u)
         /\ \A u \in Denials(t, rs) : WellFormed(u)
         /\ \A u \in Suspensions(t, rs) : WellFormed(u)
         /\ \A u \in StoppedExecutions(t, rs) : WellFormed(u)
         /\ \A u \in Executions(t, rs) : WellFormed(u)
<1> DEFINE i == t.iteration
           intended(p) == CallEvent("tool_call_intended", p.request, i, 0, "")
           requested(p) == CallEvent("approval_requested", p.request, i, 0, "")
           denied(p) == CallEvent("tool_call_denied", p.request, i, 0, "policy")
           completed(p) == CallEvent("tool_call_completed", p.request, i, Total(p), "")
<1>1. /\ CallActions = {"tool_call_completed", "tool_call_denied", "tool_call_intended"}
      /\ "approval_requested" \notin CallActions
  BY DEF CallActions
<1>2. /\ \A s : Own(t, Finished(s)) /\ ~IsOfCall(Finished(s), i)
      /\ \A p : Own(t, requested(p)) /\ ~IsOfCall(requested(p), i)
  BY <1>1, EventsOwned
<1>3. /\ \A p : Own(t, intended(p)) /\ IsOfCall(intended(p), i)
      /\ \A p : Own(t, denied(p)) /\ IsOfCall(denied(p), i)
      /\ \A p : Own(t, completed(p)) /\ IsOfCall(completed(p), i)
  BY <1>1, EventsOwned
<1>4. /\ \A p : intended(p).action = "tool_call_intended"
      /\ \A p : denied(p).action = "tool_call_denied"
      /\ \A p : completed(p).action = "tool_call_completed"
  BY DEF CallEvent
<1>5. /\ Tells(t, Exhausted(t), <<Finished("failed")>>)
      /\ \A u \in Conclusions(t) \cup StoppedConclusions(t) :
           \E s : Tells(t, u, <<Finished(s)>>)
      /\ \A u \in Denials(t, rs) : \E p :
           Tells(t, u, <<intended(p), denied(p), Finished("failed")>>)
      /\ \A u \in Suspensions(t, rs) : \E p : Tells(t, u, <<intended(p), requested(p)>>)
      /\ \A u \in StoppedExecutions(t, rs) :
           \E p, s : Tells(t, u, <<intended(p), Finished(s)>>)
      /\ \A u \in Executions(t, rs) : \E p : Tells(t, u, <<intended(p), completed(p)>>)
  BY PassTells
<1>6. UntoldIn(t, i)
  BY DEF WellFormed
<1> HIDE DEF intended, requested, denied, completed
<1>7. \A u \in {Exhausted(t)} \cup Conclusions(t) \cup StoppedConclusions(t) : WellFormed(u)
  <2> TAKE u \in {Exhausted(t)} \cup Conclusions(t) \cup StoppedConclusions(t)
  <2>1. PICK s : Tells(t, u, <<Finished(s)>>)
    BY <1>5
  <2>2. UntoldIn(u, i)
    BY <1>2, <1>6, <2>1, CallsMove
  <2>3. Leaves(t, u)
    BY <2>2, LoopMoves DEF Leaves, Terminal
  <2> QED
    BY <1>2, <2>1, <2>3, OwnEventsKeep
<1>8. ASSUME NEW u \in Denials(t, rs) PROVE WellFormed(u)
  <2>1. PICK p : Tells(t, u, <<intended(p), denied(p), Finished("failed")>>)
    BY <1>5
  <2>2. ClosedIn(u, i, "tool_call_denied")
    <3>1. UntoldIn(t, i) /\ intended(p).action = "tool_call_intended"
             => ClosedIn(u, i, denied(p).action)
      BY <1>2, <1>3, <2>1, CallsMove
    <3> QED
      BY <1>4, <1>6, <3>1
  <2>3. Leaves(t, u)
    BY <2>2, LoopMoves DEF Leaves, Terminal
  <2> QED
    BY <1>2, <1>3, <2>1, <2>3, OwnEventsKeep
<1>9. ASSUME NEW u \in Suspensions(t, rs) PROVE WellFormed(u)
  <2>1. PICK p : Tells(t, u, <<intended(p), requested(p)>>)
    BY <1>5
  <2>2. OpenIn(u, i)
    BY <1>2, <1>3, <1>4, <1>6, <2>1, CallsMove
  <2>3. Leaves(t, u)
    BY <2>2, LoopMoves DEF Leaves
  <2> QED
    BY <1>2, <1>3, <2>1, <2>3, OwnEventsKeep
<1>10. ASSUME NEW u \in StoppedExecutions(t, rs) PROVE WellFormed(u)
  <2>1. PICK p, s : Tells(t, u, <<intended(p), Finished(s)>>)
    BY <1>5
  <2>2. OpenIn(u, i)
    BY <1>2, <1>3, <1>4, <1>6, <2>1, CallsMove
  <2>3. Leaves(t, u)
    BY <2>2, LoopMoves DEF Leaves, Terminal
  <2> QED
    BY <1>2, <1>3, <2>1, <2>3, OwnEventsKeep
<1>11. ASSUME NEW u \in Executions(t, rs) PROVE WellFormed(u)
  <2>1. PICK p : Tells(t, u, <<intended(p), completed(p)>>)
    BY <1>5
  <2>2. ClosedIn(u, i, "tool_call_completed")
    <3>1. UntoldIn(t, i) /\ intended(p).action = "tool_call_intended"
             => ClosedIn(u, i, completed(p).action)
      BY <1>3, <2>1, CallsMove
    <3> QED
      BY <1>4, <1>6, <3>1
  <2>3. Leaves(t, u)
    BY <2>2, LoopMoves DEF Leaves
  <2> QED
    BY <1>2, <1>3, <2>1, <2>3, OwnEventsKeep
<1> QED
  BY <1>7, <1>8, <1>9, <1>10, <1>11
=============================================================================
