------------------------------- MODULE Budget -------------------------------
(***************************************************************************)
(* The accounting kernel of kollega-runtime/src/budget.rs, on the integer  *)
(* type Cents of kollega-core.                                             *)
(*                                                                         *)
(* Cents is an i64 in the code.  MaxCents stands for i64::MAX, so that a   *)
(* small instance reaches the overflow of checked_add and the saturation   *)
(* of saturating_add.  Every operator is a pure function, as the kernel    *)
(* is: the locking of the balance is the affair of module TaskStore.       *)
(***************************************************************************)
EXTENDS Integers

CONSTANT MaxCents      \* i64::MAX

ASSUME MaxCentsAssumption == MaxCents \in Nat

Cents == (-MaxCents - 1) .. MaxCents

\* An amount that may be held: Budget::new and refreshed refuse the others.
Amounts == 0 .. MaxCents

Budgets == [ceiling : Amounts, consumed : Amounts, org_balance : Amounts]

(***************************************************************************)
(* Cents::checked_add gives None when the sum leaves the type;             *)
(* Cents::saturating_add stays at the bound it would cross.                *)
(***************************************************************************)
Overflows(a, b) == a + b \notin Cents

SaturatingAdd(a, b) ==
  IF a + b > MaxCents THEN MaxCents
  ELSE IF a + b < -MaxCents - 1 THEN -MaxCents - 1
  ELSE a + b

NewBudget(ceiling, balance) ==
  [ceiling |-> ceiling, consumed |-> 0, org_balance |-> balance]

\* Mutated: the balance the envelope was serialised with is kept.
RefreshedNot(b, balance) == b

\* The ceiling and what was consumed are kept, the balance is the one just
\* read in the database.
Refreshed(b, balance) == [b EXCEPT !.org_balance = balance]

-----------------------------------------------------------------------------
(***************************************************************************)
(* Budget::charge: the refusals in the order of the code, then the debit.  *)
(***************************************************************************)
\* Mutated: an addition that wraps around instead of checked_add.
BreaksCeilingWrapping(b, cost) ==
  (IF Overflows(b.consumed, cost) THEN b.consumed + cost - 2 * (MaxCents + 1)
   ELSE b.consumed + cost) > b.ceiling

BreaksCeiling(b, cost) ==
  \/ Overflows(b.consumed, cost)
  \/ b.consumed + cost > b.ceiling

BreaksCredit(b, cost) == cost > b.org_balance

SpendDecision(b, cost) ==
  CASE cost < 0                -> "negative_cost"
    [] cost >= 0 /\ BreaksCeiling(b, cost) -> "aborted_cost_ceiling"
    [] cost >= 0 /\ ~BreaksCeiling(b, cost) /\ BreaksCredit(b, cost)
                               -> "aborted_credit"
    [] OTHER                   -> "proceed"

Charge(b, cost) ==
  IF SpendDecision(b, cost) = "proceed"
  THEN [b EXCEPT !.consumed = @ + cost, !.org_balance = @ - cost]
  ELSE b

=============================================================================
