---------------------------- MODULE AuditCommand ----------------------------
(***************************************************************************)
(* `kollega audit verify` (kollega-cli/src/main.rs): is the chain of an    *)
(* organisation intact, then does what it tells make sense?  Two           *)
(* transactions of kollega-store/src/driver.rs, between which the chain    *)
(* grows and its storage may fail.                                         *)
(***************************************************************************)
EXTENDS AuditChain, SequenceVerifier

VARIABLES
  pc,        \* "asked", "intact", after the first transaction, or "exited"
  exit,      \* the code of the process
  intact,    \* what the first transaction read is a chain (history)
  sensible   \* what the second one read tells every call once (history)

audit == <<pc, exit, intact, sensible>>

InitAudit ==
  /\ Init
  /\ pc = "asked" /\ exit = 0 /\ intact = FALSE /\ sensible = FALSE

Exit(code) == pc' = "exited" /\ exit' = code

-----------------------------------------------------------------------------
\* The rows of a table, as ORDER BY height gives them.
Before(j, k) ==
  \/ stored[j].height < stored[k].height
  \/ stored[j].height = stored[k].height /\ j <= k

Rows ==
  [n \in DOMAIN stored |->
     stored[CHOOSE k \in DOMAIN stored : Cardinality({j \in DOMAIN stored : Before(j, k)}) = n]]

\* verify_org_chain
VerifyOrgChain ==
  /\ pc = "asked"
  /\ intact' = (Rows = ChainOf([k \in DOMAIN Rows |-> Rows[k].content]))
  /\ \/ Verify(org, Rows) = "ok" /\ pc' = "intact" /\ UNCHANGED exit
     \/ Verify(org, Rows) # "ok" /\ Exit(1)
  /\ UNCHANGED <<sensible, vars>>

\* The rows of verify_org_sequence: those that bear a call.
CallRows ==
  LET kept == Increasing({k \in DOMAIN Rows : Rows[k].content.call # None})
  IN  [n \in DOMAIN kept |-> Rows[kept[n]].content]

\* CorruptState: a row without digest, or of another action.
Corrupt(rows) ==
  \E k \in DOMAIN rows : rows[k].digest = None \/ rows[k].action \notin DOMAIN KindOf

RecordsOf(rows) == [k \in DOMAIN rows |-> Record(KindOf[rows[k].action], rows[k].call)]

\* Mutated: an open call is a failure.
FailsOnOpenCalls(rows) ==
  Corrupt(rows) \/ Violations(RecordsOf(rows)) # {} \/ OpenCalls(RecordsOf(rows)) # {}

\* The open calls are printed; the violations make the exit code.
Fails(rows) == Corrupt(rows) \/ Violations(RecordsOf(rows)) # {}

\* What an auditor expects of the rows that bear a call: an intention, alone or
\* followed by one result or one refusal.
Sensible(rows, c) ==
  LET own == {k \in DOMAIN rows : rows[k].call = c}
  IN  \/ \E i \in own : own = {i} /\ rows[i].action = "tool_call_intended"
      \/ \E i, j \in own :
           /\ i < j /\ own = {i, j}
           /\ rows[i].action = "tool_call_intended"
           /\ rows[j].action \in {"tool_call_completed", "tool_call_denied"}

VerifyOrgSequence ==
  /\ pc = "intact"
  /\ Exit(IF Fails(CallRows) THEN 1 ELSE 0)
  /\ sensible' = \A k \in DOMAIN CallRows :
                   /\ CallRows[k].digest # None
                   /\ Sensible(CallRows, CallRows[k].call)
  /\ UNCHANGED <<intact, vars>>

\* A transaction fails: the database is not reached, or no longer.
Unreachable ==
  /\ pc \in {"asked", "intact"}
  /\ Exit(1)
  /\ UNCHANGED <<intact, sensible, vars>>

NextAudit ==
  \/ Next /\ UNCHANGED audit
  \/ VerifyOrgChain \/ VerifyOrgSequence \/ Unreachable

SpecAudit == InitAudit /\ [][NextAudit]_<<vars, audit>>

-----------------------------------------------------------------------------
\* A supervision that sees the code 0 knows that the chain of its first reading
\* was the work of append and that every call of its second reading is an
\* intention, alone or with one closure; once the database answered, a broken
\* chain or a story without sense exits with 1, an open call alone never does.
VerdictIsFounded ==
  [][/\ pc' = "exited" /\ exit' = 0 => intact' /\ sensible'
     /\ VerifyOrgChain => (pc' = "intact" <=> intact')
     /\ VerifyOrgSequence => (exit' = 0 <=> sensible')]_audit

=============================================================================
