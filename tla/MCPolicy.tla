------------------------------ MODULE MCPolicy ------------------------------
(***************************************************************************)
(* The engine on the rules and the calls of given domains.  A step makes   *)
(* the call ask for more, or the rules demand more: the decision is        *)
(* compared before and after.                                              *)
(***************************************************************************)
EXTENDS Policy

CONSTANTS
  Tools,           \* names of tools
  Segments,        \* segments of a path
  Amounts,         \* what a call may declare: an amount, a number of
  Counts,          \* recipients
  PathLists,       \* and paths
  MorePaths,       \* paths a call may add to its own
  AmountBounds,    \* what a rule may demand of each
  CountBounds,
  PathBounds

Path == Seq(Segments)

AnyPathBound == [allowed_prefixes : Seq(Path), on_exceed : {"deny", "require_approval"}]

\* Amounts are signed; nothing excludes a negative one.
ASSUME PolicyAssumption ==
  /\ None \notin Int
  /\ Amounts \subseteq Int \cup {None} /\ Counts \subseteq Nat \cup {None}
  /\ PathLists \subseteq Seq(Path) /\ MorePaths \subseteq Path
  /\ AmountBounds \subseteq Bounds(Int) \cup {None}
  /\ CountBounds \subseteq Bounds(Nat) \cup {None}
  /\ PathBounds \subseteq AnyPathBound \cup {None}

Requests ==
  [tool_name : Tools, amount : Amounts, recipient_count : Counts, paths : PathLists]

ToolRules ==
  [tool_name : Tools, allowed : BOOLEAN, requires_approval : BOOLEAN,
   amount : AmountBounds, recipients : CountBounds, paths : PathBounds]

Unbounded(tool) ==
  [tool_name |-> tool, allowed |-> TRUE, requires_approval |-> FALSE,
   amount |-> None, recipients |-> None, paths |-> None]

VARIABLES rules, request

policy == <<rules, request>>

\* A call, and a rule that allows its tool or none.
InitRules ==
  /\ request \in Requests
  /\ \/ rules = <<>>
     \/ \E rule \in ToolRules :
          /\ rule.tool_name = request.tool_name /\ rule.allowed /\ ~rule.requires_approval
          /\ rules = <<rule>>

-----------------------------------------------------------------------------
Grows(old, new) == old # None /\ new # None /\ old < new

AskForMore ==
  /\ UNCHANGED rules
  /\ \/ \E a \in Amounts : Grows(request.amount, a) /\ request' = [request EXCEPT !.amount = a]
     \/ \E r \in Counts :
          Grows(request.recipient_count, r) /\ request' = [request EXCEPT !.recipient_count = r]
     \/ \E p \in MorePaths :
          /\ Len(request.paths) = 1
          /\ request' = [request EXCEPT !.paths = Append(@, p)]

Lower(old, new) ==
  \/ old = None /\ new # None
  \/ /\ old # None /\ new # None
     /\ new.hard_limit <= old.hard_limit
     /\ old.threshold # None => new.threshold # None /\ new.threshold <= old.threshold

DemandMore ==
  /\ rules # <<>>
  /\ UNCHANGED request
  /\ \/ rules' = [rules EXCEPT ![1].allowed = FALSE]
     \/ rules' = [rules EXCEPT ![1].requires_approval = TRUE]
     \/ \E b \in AmountBounds :
          Lower(rules[1].amount, b) /\ rules' = [rules EXCEPT ![1].amount = b]
     \/ \E b \in PathBounds \ {None} :
          rules[1].paths = None /\ rules' = [rules EXCEPT ![1].paths = b]

\* One more rule after the others, for this tool or for another one.
AddRule ==
  /\ Len(rules) < 2
  /\ \E t \in Tools : rules' = Append(rules, Unbounded(t))
  /\ UNCHANGED request

NextRules == AskForMore \/ DemandMore \/ AddRule

SpecRules == InitRules /\ [][NextRules]_policy

-----------------------------------------------------------------------------
Severity == [allow |-> 0, require_approval |-> 1, deny |-> 2]

\* A call that asks for more, or a rule that demands more, never gets a more
\* lenient decision: no bound can be escaped by exceeding another one, and no
\* path can make up for another one.  A rule that comes after a rule for the
\* same tool, or that is for another tool, changes nothing (decide of
\* kollega-policy).
StricterIsNeverLooser ==
  [][/\ AskForMore \/ DemandMore =>
          Severity[Decision(rules', request')] >= Severity[Decision(rules, request)]
     /\ AddRule =>
          \/ Decision(rules', request') = Decision(rules, request)
          \/ \A k \in DOMAIN rules : rules[k].tool_name # request.tool_name]_policy

\* What a human may approve is under every hard limit: no approval can let
\* through an amount, a number of recipients or a path that no approval may
\* (decide of kollega-policy).
ApprovalStaysUnderHardLimits ==
  Decision(rules, request) = "require_approval" =>
    \E n \in DOMAIN rules :
      LET rule == rules[n] IN
      /\ rule.tool_name = request.tool_name /\ rule.allowed
      /\ \A k \in 1 .. n - 1 : rules[k].tool_name # request.tool_name
      /\ rule.amount # None =>
           request.amount # None /\ request.amount <= rule.amount.hard_limit
      /\ rule.recipients # None =>
           request.recipient_count # None /\ request.recipient_count <= rule.recipients.hard_limit
      /\ rule.paths # None =>
           /\ request.paths # <<>>
           /\ \A k \in DOMAIN request.paths :
                \A i \in DOMAIN request.paths[k] : request.paths[k][i] \notin {Backslash, ".."}

=============================================================================
