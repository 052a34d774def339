----------------------------- MODULE TaskMachine -----------------------------
(***************************************************************************)
(* `drive` of kollega-runtime/src/machine.rs as a state machine: one task, *)
(* driven by successive calls, each with the approval and the rules its    *)
(* caller passes.  Every branch of `drive` is an action; the function is   *)
(* sequential, so its steps interleave with nothing, but between two calls *)
(* anything may happen to what the caller passes: the balance of the       *)
(* organisation, the rules, the decision of the human.                     *)
(***************************************************************************)
EXTENDS Machine, FiniteSetsExt

CONSTANTS
  Ceiling,     \* cost ceiling of the task
  Balances,    \* balances the organisation may have when a call begins
  CallRules,   \* rule sets a caller may pass
  Torn         \* suspended states without their pending call, as a damaged
               \* envelope may hold (the fields are public, serde checks none)

ASSUME TaskMachineAssumption ==
  /\ Ceiling \in Amounts
  /\ Balances \subseteq Amounts
  /\ CallRules \subseteq RuleSets
  /\ Torn \subseteq {t \in TaskStates : t.status = "waiting_approval"}

VARIABLES
  task,        \* TaskState
  pc,          \* where the call to drive is: "idle", "entry", "loop"
  approval,    \* its argument `approval`
  rules        \* its argument `rules`

vars == <<task, pc, approval, rules>>

Init ==
  /\ task \in {NewTask(Ceiling, b) : b \in Balances} \cup Torn
  /\ pc = "idle"
  /\ approval = "none"
  /\ rules \in CallRules

-----------------------------------------------------------------------------
(***************************************************************************)
(* The caller (try_task_step) refreshes the balance, then calls drive.     *)
(***************************************************************************)
Call ==
  /\ pc = "idle"
  /\ \E b \in Balances : task' = [task EXCEPT !.budget = Refreshed(@, b)]
  /\ approval' \in Approvals
  /\ rules' \in CallRules
  /\ pc' = "entry"

At(label, status) == pc = label /\ task.status = status

Continue == pc' = "loop" /\ UNCHANGED <<approval, rules>>

Return == pc' = "idle" /\ UNCHANGED <<approval, rules>>

Start == At("entry", "pending") /\ task' = Started(task) /\ Continue

\* A terminal task: neither of the two `if` nor the loop applies.
AlreadyOver ==
  /\ pc = "entry"
  /\ task.status \in Terminal
  /\ Return
  /\ UNCHANGED task

\* Mutated: the call polls until the decision comes.
StillSuspendedPolling ==
  /\ pc # "idle"
  /\ task.status = "waiting_approval"
  /\ approval = "none"
  /\ pc' = IF pc = "entry" THEN "loop" ELSE "entry"
  /\ UNCHANGED <<task, approval, rules>>

StillSuspended ==
  /\ At("entry", "waiting_approval")
  /\ approval = "none"
  /\ Return
  /\ UNCHANGED task

-----------------------------------------------------------------------------
\* Mutated: the status is not looked at before the approval is applied.
ResumingAnything == pc = "entry" /\ approval # "none"

Resuming == At("entry", "waiting_approval") /\ approval # "none"

CloseIncoherent ==
  Resuming /\ Incoherent(task) /\ task' = ClosedIncoherent(task) /\ Return

Reject ==
  /\ Resuming
  /\ ~Incoherent(task)
  /\ approval = "reject"
  /\ task' = Rejected(task)
  /\ Return

ApproveButStop ==
  /\ Resuming
  /\ ~Incoherent(task)
  /\ approval = "approve"
  /\ ~Affords(task, Total(task.pending))
  /\ task' = ApprovedButStopped(task)
  /\ Return

Approve ==
  /\ Resuming
  /\ ~Incoherent(task)
  /\ approval = "approve"
  /\ Affords(task, Total(task.pending))
  /\ task' = Approved(task)
  /\ Continue

-----------------------------------------------------------------------------
Looping == pc # "idle" /\ task.status = "running"

Exhaust == Looping /\ Spent(task) /\ task' = Exhausted(task) /\ Return

Planning == Looping /\ ~Spent(task)

Conclude == Planning /\ task' \in Conclusions(task) /\ Return

StopConclusion == Planning /\ task' \in StoppedConclusions(task) /\ Return

Deny == Planning /\ task' \in Denials(task, rules) /\ Return

AskApproval == Planning /\ task' \in Suspensions(task, rules) /\ Return

StopExecution == Planning /\ task' \in StoppedExecutions(task, rules) /\ Return

Execute == Planning /\ task' \in Executions(task, rules) /\ Continue

Drive ==
  \/ Start \/ AlreadyOver \/ StillSuspended
  \/ CloseIncoherent \/ Reject \/ ApproveButStop \/ Approve
  \/ Exhaust \/ Conclude \/ StopConclusion
  \/ Deny \/ AskApproval \/ StopExecution \/ Execute

Next == Call \/ Drive

\* drive is a plain function: once called, it runs.  Nobody has to call it.
Spec == Init /\ [][Next]_vars /\ WF_vars(Drive)

-----------------------------------------------------------------------------
(***************************************************************************)
(* Properties                                                              *)
(***************************************************************************)

\* Type invariant of the state and of the arguments of drive.
TypeOK ==
  /\ task \in TaskStates
  /\ pc \in {"idle", "entry", "loop"}
  /\ approval \in Approvals
  /\ rules \in RuleSets

\* Where the journal tells of the call that iteration i identifies.
Positions(i) ==
  {k \in DOMAIN task.audit :
     task.audit[k].action \in CallActions /\ task.audit[k].iteration = i}

\* It does not; it tells that the call was intended; and how it was closed.
Untold(i) == Positions(i) = {}

Open(i) ==
  \E a \in Positions(i) :
    Positions(i) = {a} /\ task.audit[a].action = "tool_call_intended"

Closed(i, action) ==
  \E a, b \in Positions(i) :
    /\ a < b
    /\ Positions(i) = {a, b}
    /\ task.audit[a].action = "tool_call_intended"
    /\ task.audit[b].action = action

\* The iteration counter tells the journal: every call before it was
\* intended, then completed, once; its own call is open or refused; no later
\* call exists.  This is what makes `task_id || iteration` an identity of the
\* call (derive_tool_call_id) and the journal pass verify_sequence.
CallsWellFormed ==
  /\ \A i \in 0 .. task.iteration - 1 : Closed(i, "tool_call_completed")
  /\ \/ Untold(task.iteration)
     \/ Open(task.iteration)
     \/ Closed(task.iteration, "tool_call_denied")
  /\ \A k \in DOMAIN task.audit : task.audit[k].iteration <= task.iteration

\* Invariant 2 and 3 of the module header: an executed call was intended
\* first, for the same tool, and between the two there is nothing (the policy
\* allowed it) or a request for approval of that very call, answered by an
\* approval.
ExecutionsAuthorised ==
  \A k \in DOMAIN task.audit : task.audit[k].action = "tool_call_completed" =>
    LET done    == task.audit[k]
        same(e) == e.tool = done.tool /\ e.iteration = done.iteration
        direct  == /\ k > 1
                   /\ task.audit[k - 1].action = "tool_call_intended"
                   /\ same(task.audit[k - 1])
        asked   == /\ k > 3
                   /\ task.audit[k - 3].action = "tool_call_intended"
                   /\ same(task.audit[k - 3])
                   /\ task.audit[k - 2].action = "approval_requested"
                   /\ same(task.audit[k - 2])
                   /\ task.audit[k - 1].action = "approval_resolved"
                   /\ task.audit[k - 1].note = "approve"
    IN  direct \/ asked

\* What each event of the journal attests of the spending.
Attested ==
  [k \in DOMAIN task.audit |->
     IF task.audit[k].action = "tool_call_completed" THEN task.audit[k].cost ELSE 0]

CompletedCosts == MapThenSumSet(LAMBDA k : Attested[k], DOMAIN task.audit)

\* Every cent of the task is attested by a completed call; only the model
\* call that concludes is charged without an event of its own.
SpendIsAttested ==
  IF task.status = "succeeded"
  THEN task.budget.consumed - CompletedCosts \in ConclusionCosts
  ELSE task.budget.consumed = CompletedCosts

\* Invariants 5 and 6: never above the ceiling, never an overdraft, whatever
\* the balance of each call and however the costs overflow.
WithinBounds ==
  /\ task.budget.consumed \in 0 .. Ceiling
  /\ task.budget.ceiling = Ceiling
  /\ task.budget.org_balance >= 0

\* A suspended task holds the call it waits for, the last one requested, not
\* executed yet; a task that is not suspended holds none.
SuspensionHoldsItsCall ==
  IF task.status = "waiting_approval"
  THEN /\ task.pending.request \in Requests
       /\ task.pending.iteration = task.iteration
       /\ task.iteration < MaxIterations
       /\ task.audit # <<>>
       /\ task.audit[Len(task.audit)] =
            CallEvent("approval_requested", task.pending.request, task.iteration, 0, "")
  ELSE task.pending = NoPending

\* is_terminal: "la tâche ne s'exécutera plus jamais".  A call on a finished
\* task refreshes the balance it carries and changes nothing else.
TerminalIsForever ==
  [][task.status \in Terminal =>
       task' = [task EXCEPT !.budget = Refreshed(@, task'.budget.org_balance)]]_task

Ran(event) == event.action = "tool_call_completed"

\* A call that runs without a human was allowed by the rules of this call of
\* drive; an approval only runs the call that was suspended.
RunsOnlyWhatWasDecided ==
  [][\A k \in DOMAIN task'.audit \ DOMAIN task.audit : Ran(task'.audit[k]) =>
       \/ task.status = "running" /\ Decide(rules, task'.audit[k].tool) = "allow"
       \/ /\ task.status = "waiting_approval"
          /\ approval = "approve"
          /\ task'.audit[k].tool = task.pending.request]_task

\* A suspension that lost its call and receives a decision, whichever it is, is
\* closed as a failure by this very call of drive: it does not stay suspended,
\* the decision is not swallowed, nothing runs and nothing is charged.
IncoherenceFails ==
  [][/\ At("entry", "waiting_approval")
     /\ approval # "none"
     /\ task.pending.request = NoRequest
     => /\ task'.status = "failed"
        /\ task'.budget = task.budget
        /\ task'.iteration = task.iteration
        /\ \A k \in DOMAIN task'.audit \ DOMAIN task.audit : ~Ran(task'.audit[k])]_vars

\* A call to drive always returns: the loop is bounded by max_iterations.
DriveReturns == pc # "idle" ~> pc = "idle"

\* drive implements the life of a task.
Lifecycle ==
  INSTANCE TaskLifecycle WITH
    Allowance <- MaxIterations, status <- task.status, executed <- task.iteration

LifecycleSpec == Lifecycle!Spec

=============================================================================
