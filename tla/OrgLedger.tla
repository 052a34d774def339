----------------------------- MODULE OrgLedger -----------------------------
(***************************************************************************)
(* What the store promises an organisation, without transactions, locks or *)
(* retries: a balance, what each task spent of it, the journal of each     *)
(* task, the tasks that are closed.  One task moves at a time, by an       *)
(* atomic step.                                                            *)
(***************************************************************************)
EXTENDS Naturals, Sequences, SequencesExt

CONSTANTS Tasks, Capital

VARIABLES balance, spent, journal, closed

vars == <<balance, spent, journal, closed>>

Init ==
  /\ balance = Capital
  /\ spent = [t \in Tasks |-> 0]
  /\ journal = [t \in Tasks |-> <<>>]
  /\ closed = {}

\* What is spent is taken from the balance and told in the journal, which only
\* grows; the step may close the task.
Advance(t) ==
  /\ t \notin closed
  /\ IsStrictPrefix(journal[t], journal'[t])
  /\ journal' = [journal EXCEPT ![t] = journal'[t]]
  /\ balance' \in 0 .. balance
  /\ spent' = [spent EXCEPT ![t] = @ + (balance - balance')]
  /\ closed' \in {closed, closed \cup {t}}

Next == \E t \in Tasks : Advance(t)

Spec == Init /\ [][Next]_vars

=============================================================================
