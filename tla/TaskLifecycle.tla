--------------------------- MODULE TaskLifecycle ---------------------------
(***************************************************************************)
(* What the life of a task promises to whoever submitted it, with nothing  *)
(* of how it is kept: the status may only move along these edges, each     *)
(* executed call counts against a fixed allowance, an approval runs the    *)
(* suspended call and no other, and the end is the end.                    *)
(***************************************************************************)
EXTENDS Naturals

CONSTANT Allowance     \* how many calls the task may execute

VARIABLES status, executed

Ends == {"succeeded", "failed", "aborted_cost_ceiling"}

Init == status = "pending" /\ executed = 0

Begin ==
  /\ status = "pending"
  /\ status' = "running"
  /\ UNCHANGED executed

\* A call allowed at once, or the call an approval released.
Execute ==
  /\ status \in {"running", "waiting_approval"}
  /\ executed < Allowance
  /\ executed' = executed + 1
  /\ status' = "running"

Suspend ==
  /\ status = "running"
  /\ executed < Allowance
  /\ status' = "waiting_approval"
  /\ UNCHANGED executed

End ==
  /\ \/ status = "running" /\ status' \in Ends
     \* A suspended task does not succeed without running again.
     \/ status = "waiting_approval" /\ status' \in Ends \ {"succeeded"}
  /\ UNCHANGED executed

Next == Begin \/ Execute \/ Suspend \/ End

Spec == Init /\ [][Next]_<<status, executed>>

=============================================================================
