--------------------------- MODULE MCTaskMachine ---------------------------
(***************************************************************************)
(* Instances of TaskMachine for TLC, and mutated definitions its           *)
(* properties are tested against.                                          *)
(***************************************************************************)
EXTENDS TaskMachine

CONSTANTS mail, read

MCRequests == {mail, read}

\* A cheap call, one that saturates, and one with a negative cost, which
\* nothing in the type Cents excludes.
MCToolPlans ==
  {[request |-> mail, model_cost |-> 1, tool_cost |-> 1],
   [request |-> read, model_cost |-> 1, tool_cost |-> 0],
   [request |-> read, model_cost |-> MaxCents, tool_cost |-> MaxCents],
   [request |-> mail, model_cost |-> -2, tool_cost |-> 1]}

MCConclusionCosts == {0, 2, -1}

MCCallRules ==
  {[r \in Requests |-> v] : v \in Verdicts}
    \cup {[r \in Requests |-> IF r = mail THEN "require_approval" ELSE "allow"]}

MCBalances == {0, 2, MaxCents}

NoTorn == {}

\* A suspended task whose pending call was lost.
MCTorn ==
  {[NewTask(Ceiling, MaxCents) EXCEPT
      !.status = "waiting_approval",
      !.iteration = i,
      !.audit = <<TaskEvent("task_started", "")>>] : i \in 0 .. MaxIterations}

=============================================================================
