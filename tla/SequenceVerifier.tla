-------------------------- MODULE SequenceVerifier --------------------------
(***************************************************************************)
(* verify_sequence of kollega-audit/src/records.rs: does what the chain    *)
(* tells of the tool calls make sense?  An intention without a closure is  *)
(* an open call, an information; only a closure without intention, a       *)
(* second intention, a second closure and anything after a closure         *)
(* invalidate.                                                             *)
(***************************************************************************)
EXTENDS Naturals, SequencesExt

Kinds == {"intent", "outcome", "abandoned"}

Record(kind, call) == [kind |-> kind, call |-> call]

(***************************************************************************)
(* AuditRecord of an action of the machine, as verify_org_sequence maps    *)
(* the rows of the chain: a denial closes its call without a result.       *)
(***************************************************************************)
KindOf == [tool_call_intended  |-> "intent",
           tool_call_completed |-> "outcome",
           tool_call_denied    |-> "abandoned"]

-----------------------------------------------------------------------------
\* The state of a call in the map `states`; a call never met has none.
StateOf(states, call) ==
  IF call \in DOMAIN states THEN states[call] ELSE "unknown"

\* states.insert: the state of a call, met or not.
Insert(states, call, state) ==
  [c \in DOMAIN states \cup {call} |-> IF c = call THEN state ELSE states[c]]

\* Mutated: a second closure is accepted as the first one.
ViolationTolerant(kind, state) ==
  CASE kind = "intent" /\ state = "open"     -> {"duplicate_intent"}
    [] kind = "intent" /\ state = "closed"   -> {"record_after_closure"}
    [] kind # "intent" /\ state = "unknown"  -> {"closure_without_intent"}
    [] OTHER                                 -> {}

Violation(kind, state) ==
  CASE kind = "intent" /\ state = "open"     -> {"duplicate_intent"}
    [] kind = "intent" /\ state = "closed"   -> {"record_after_closure"}
    [] kind # "intent" /\ state = "closed"   -> {"duplicate_closure"}
    [] kind # "intent" /\ state = "unknown"  -> {"closure_without_intent"}
    [] OTHER                                 -> {}

\* Mutated: a fault moves the state of the call all the same.
ExamineMoving(report, record) ==
  LET faults == Violation(record.kind, StateOf(report.states, record.call))
      moved  == IF record.kind = "intent" THEN "open" ELSE "closed"
  IN  [position   |-> report.position + 1,
       states     |-> Insert(report.states, record.call, moved),
       violations |-> report.violations \cup
                        {[position |-> report.position, call |-> record.call,
                          kind |-> k] : k \in faults}]

\* One record: a fault leaves the state of the call as it was.
Examine(report, record) ==
  LET faults == Violation(record.kind, StateOf(report.states, record.call))
      moved  == IF record.kind = "intent" THEN "open" ELSE "closed"
  IN  [position   |-> report.position + 1,
       states     |-> IF faults = {}
                      THEN Insert(report.states, record.call, moved)
                      ELSE report.states,
       violations |-> report.violations \cup
                        {[position |-> report.position, call |-> record.call,
                          kind |-> k] : k \in faults}]

Examined(records) ==
  FoldLeft(Examine,
           [position |-> 0, states |-> <<>>, violations |-> {}], records)

OpenCalls(records) ==
  LET states == Examined(records).states
  IN  {c \in DOMAIN states : states[c] = "open"}

Violations(records) == Examined(records).violations

\* The members of a set of numbers, in increasing order: the rows a query
\* keeps, in the order of the query.
Increasing(K) ==
  [n \in 1 .. Cardinality(K) |-> CHOOSE k \in K : Cardinality({j \in K : j <= k}) = n]

-----------------------------------------------------------------------------
(***************************************************************************)
(* The rules of the header of records.rs, on what the positions S of a     *)
(* journal hold, never on what a map remembers: what a record is depends   *)
(* on what came before it about the same call.                             *)
(***************************************************************************)
Opens(record, call) == record.call = call /\ record.kind = "intent"
Closes(record, call) == record.call = call /\ record.kind # "intent"

Opened(records, S, call) == \E p \in S : Opens(records[p], call)

ClosedCall(records, S, call) ==
  \E p, q \in S : p < q /\ Opens(records[p], call) /\ Closes(records[q], call)

\* The name of the record at p, after those of S: what it does wrong.
FaultAt(records, S, p) ==
  LET c      == records[p].call
      intent == records[p].kind = "intent"
  IN  CASE intent /\ ClosedCall(records, S, c)   -> "record_after_closure"
        [] intent /\ Opened(records, S, c) /\ ~ClosedCall(records, S, c)
                                                 -> "duplicate_intent"
        [] ~intent /\ ClosedCall(records, S, c)  -> "duplicate_closure"
        [] ~intent /\ ~Opened(records, S, c)     -> "closure_without_intent"
        [] OTHER                                 -> "none"

\* A call is an intention, alone or followed by one closure, or nothing.
ToldOnce(records, call) ==
  LET own == {p \in DOMAIN records : records[p].call = call}
  IN  \/ own = {}
      \/ \E p \in own : own = {p} /\ Opens(records[p], call)
      \/ \E p, q \in own :
           p < q /\ own = {p, q} /\ Opens(records[p], call) /\ Closes(records[q], call)

=============================================================================
