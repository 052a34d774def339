------------------------------- MODULE Machine -------------------------------
(***************************************************************************)
(* The agent loop of kollega-runtime/src/machine.rs as pure operators on   *)
(* TaskState: one operator per branch of `drive`, giving the states that   *)
(* branch can leave.  TaskMachine runs them as a state machine on its own, *)
(* TaskStore runs them inside the transaction of a persisted step.         *)
(*                                                                         *)
(* A request stands for a whole ToolCallRequest (tool name, amount,        *)
(* recipients, paths), a rule set for the verdict kollega_policy::decide   *)
(* gives on each request.  What the model plans is any plan of ToolPlans,  *)
(* or a conclusion at any cost of ConclusionCosts, at every iteration.     *)
(***************************************************************************)
EXTENDS Budget, Sequences

CONSTANTS
  Requests,         \* tool calls the model may plan
  NoRequest,        \* the "?" of an incoherent suspension, and no pending call
  ToolPlans,        \* [request, model_cost, tool_cost] of PlannedAction::UseTool
  ConclusionCosts,  \* model costs of PlannedAction::Conclude
  MaxIterations     \* max_iterations of the task, frozen when it is created

Plans == [request : Requests, model_cost : Cents, tool_cost : Cents]

ASSUME MachineAssumption ==
  /\ NoRequest \notin Requests
  /\ ToolPlans \subseteq Plans
  /\ ConclusionCosts \subseteq Cents
  /\ MaxIterations \in Nat

-----------------------------------------------------------------------------
(***************************************************************************)
(* Types                                                                   *)
(***************************************************************************)
Terminal == {"succeeded", "failed", "aborted_cost_ceiling"}

Statuses == {"pending", "running", "waiting_approval"} \cup Terminal

Verdicts == {"allow", "deny", "require_approval"}

RuleSets == [Requests -> Verdicts]

Decide(rules, request) == rules[request]

Approvals == {"none", "approve", "reject"}

(***************************************************************************)
(* AuditEvent.  "note" is the decision of a resolved approval, the final   *)
(* status of a finished task or the author of a denial.                    *)
(***************************************************************************)
CallActions == {"tool_call_intended", "tool_call_completed", "tool_call_denied"}

Actions == CallActions \cup
  {"task_started", "approval_requested", "approval_resolved", "task_finished"}

Notes == Terminal \cup {"", "approve", "reject", "policy", "human", "incoherent"}

Events == [action : Actions, tool : Requests \cup {NoRequest},
           iteration : Nat, cost : Cents, note : Notes]

CallEvent(action, tool, iteration, cost, note) ==
  [action |-> action, tool |-> tool, iteration |-> iteration,
   cost |-> cost, note |-> note]

TaskEvent(action, note) == CallEvent(action, NoRequest, 0, 0, note)

PendingCalls == [request : Requests \cup {NoRequest}, iteration : Nat,
                 model_cost : Cents, tool_cost : Cents]

NoPending == [request |-> NoRequest, iteration |-> 0,
              model_cost |-> 0, tool_cost |-> 0]

TaskStates == [status : Statuses, iteration : Nat, budget : Budgets,
               audit : Seq(Events), pending : PendingCalls]

NewTask(ceiling, balance) ==
  [status |-> "pending", iteration |-> 0, budget |-> NewBudget(ceiling, balance),
   audit |-> <<>>, pending |-> NoPending]

-----------------------------------------------------------------------------
(***************************************************************************)
(* Steps shared by the branches                                            *)
(***************************************************************************)
Log(t, event) == [t EXCEPT !.audit = Append(@, event)]

Finish(t, status) ==
  Log([t EXCEPT !.status = status], TaskEvent("task_finished", status))

\* charge_or_stop: the charge goes through, or it decides the final status.
Affords(t, cost) == SpendDecision(t.budget, cost) = "proceed"

Charged(t, cost) == [t EXCEPT !.budget = Charge(@, cost)]

\* Mutated: the refusal itself as a status, which TaskStatus does not have.
StopStatusRaw(t, cost) == SpendDecision(t.budget, cost)

StopStatus(t, cost) ==
  IF SpendDecision(t.budget, cost) = "aborted_cost_ceiling"
  THEN "aborted_cost_ceiling" ELSE "failed"

Stopped(t, cost) == Finish(t, StopStatus(t, cost))

Total(call) == SaturatingAdd(call.model_cost, call.tool_cost)

\* Mutated: no event before the execution.
IntendedSilently(t, plan) == t

Intended(t, plan) ==
  Log(t, CallEvent("tool_call_intended", plan.request, t.iteration, 0, ""))

\* Mutated: the next call takes the same iteration.
CompletedInPlace(t, request, iteration, cost) ==
  Log(t, CallEvent("tool_call_completed", request, iteration, cost, ""))

\* The call of `request` identified by `iteration` was paid and has run.
Completed(t, request, iteration, cost) ==
  [Log(t, CallEvent("tool_call_completed", request, iteration, cost, ""))
     EXCEPT !.iteration = @ + 1]

-----------------------------------------------------------------------------
(***************************************************************************)
(* Entry of drive                                                          *)
(***************************************************************************)
Started(t) ==
  [Log(t, TaskEvent("task_started", "")) EXCEPT !.status = "running"]

(***************************************************************************)
(* Resumption of a suspended task.  The pending call is taken out of the   *)
(* state first, whatever the decision then is.                             *)
(***************************************************************************)
\* Mutated: the missing call is not noticed.
IncoherentNever(t) == FALSE

Incoherent(t) == t.pending.request = NoRequest

ClosedIncoherent(t) ==
  Finish(Log(t, CallEvent("tool_call_denied", NoRequest, t.iteration, 0, "incoherent")),
         "failed")

\* Mutated: the pending call stays in the state.
TakenByCopy(t, decision) == Log(t, TaskEvent("approval_resolved", decision))

Taken(t, decision) ==
  Log([t EXCEPT !.pending = NoPending], TaskEvent("approval_resolved", decision))

Rejected(t) ==
  Finish(Log(Taken(t, "reject"),
             CallEvent("tool_call_denied", t.pending.request, t.pending.iteration,
                       0, "human")),
         "failed")

ApprovedButStopped(t) == Stopped(Taken(t, "approve"), Total(t.pending))

\* Mutated: the approved call runs without being charged.
ApprovedUncharged(t) ==
  [Completed(Taken(t, "approve"), t.pending.request, t.pending.iteration,
             Total(t.pending)) EXCEPT !.status = "running"]

Approved(t) ==
  [Completed(Charged(Taken(t, "approve"), Total(t.pending)),
             t.pending.request, t.pending.iteration, Total(t.pending))
     EXCEPT !.status = "running"]

-----------------------------------------------------------------------------
(***************************************************************************)
(* One pass of the main loop: the states each branch can leave             *)
(***************************************************************************)
\* Mutated: one iteration too many.
SpentOneLater(t) == t.iteration > MaxIterations

Spent(t) == t.iteration >= MaxIterations

Exhausted(t) == Finish(t, "failed")

\* Mutated: a required approval counts as an authorisation.
JudgedLoosely(rules, verdict) ==
  {p \in ToolPlans : \/ Decide(rules, p.request) = verdict
                     \/ verdict = "allow" /\ Decide(rules, p.request) = "require_approval"}

Judged(rules, verdict) == {p \in ToolPlans : Decide(rules, p.request) = verdict}

Conclusions(t) ==
  {Finish(Charged(t, c), "succeeded") : c \in {k \in ConclusionCosts : Affords(t, k)}}

StoppedConclusions(t) ==
  {Stopped(t, c) : c \in {k \in ConclusionCosts : ~Affords(t, k)}}

Denials(t, rules) ==
  {Finish(Log(Intended(t, p),
              CallEvent("tool_call_denied", p.request, t.iteration, 0, "policy")),
          "failed") : p \in Judged(rules, "deny")}

Suspend(t, p) ==
  [Log(Intended(t, p), CallEvent("approval_requested", p.request, t.iteration, 0, ""))
     EXCEPT !.status = "waiting_approval",
            !.pending = [request |-> p.request, iteration |-> t.iteration,
                         model_cost |-> p.model_cost, tool_cost |-> p.tool_cost]]

Suspensions(t, rules) == {Suspend(t, p) : p \in Judged(rules, "require_approval")}

StoppedExecutions(t, rules) ==
  {Stopped(Intended(t, p), Total(p)) :
     p \in {q \in Judged(rules, "allow") : ~Affords(t, Total(q))}}

Executions(t, rules) ==
  {Completed(Charged(Intended(t, p), Total(p)), p.request, t.iteration, Total(p)) :
     p \in {q \in Judged(rules, "allow") : Affords(t, Total(q))}}

=============================================================================
