---------------------------- MODULE MCTaskStore ----------------------------
(***************************************************************************)
(* Instances of TaskStore for TLC.                                         *)
(***************************************************************************)
EXTENDS TaskStore

CONSTANT mail

OneRequest == {mail}

\* One call, paid for its execution only.
OnePlan == {[request |-> mail, model_cost |-> 0, tool_cost |-> 1]}

FreeConclusion == {0}

AllAllowed == {[r \in Requests |-> "allow"]}

\* The caller lets the mail go or asks for an approval.
MailAllowedOrApproved ==
  {[r \in Requests |-> v] : v \in {"allow", "require_approval"}}

\* The mail needs an approval.
MailApproved == {[r \in Requests |-> "require_approval"]}

\* Between two calls the rules may change: allowed, approved, denied.
MailDisputed == {[r \in Requests |-> v] : v \in Verdicts}

Symmetric == Permutations(Tasks) \cup Permutations(Workers)

=============================================================================
