--------------------------- MODULE MCAuditCommand ---------------------------
(***************************************************************************)
(* AuditCommand for TLC: one call, its intention and its result, and the   *)
(* conclusion of its task.                                                 *)
(***************************************************************************)
EXTENDS AuditCommand

CONSTANTS call, mail, result, conclusion

Chain ==
  {[action |-> "tool_call_intended", digest |-> mail, call |-> call],
   [action |-> "tool_call_completed", digest |-> result, call |-> call],
   [action |-> "task_finished", digest |-> conclusion, call |-> None]}

Symmetric == Permutations(Orgs)

=============================================================================
