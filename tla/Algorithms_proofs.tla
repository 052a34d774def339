-------------------------- MODULE Algorithms_proofs --------------------------
(***************************************************************************)
(* The pure algorithms on every input, of any size: verify_sequence,       *)
(* decide, compile, and the bytes an audit entry is hashed from.           *)
(***************************************************************************)
EXTENDS MCSequenceVerifier, MCPolicy, MCPrompt, Encoding, Foundations

-----------------------------------------------------------------------------
(***************************************************************************)
(* verify_sequence                                                         *)
(***************************************************************************)
AnyRecord == [kind : Kinds, call : Calls]

Journals == Seq(AnyRecord)

\* A journal is a list of records of known calls.
LEMMA JournalIsTyped == SpecJournal => [](records \in Journals)
<1>1. InitJournal => records \in Journals
  BY DEF InitJournal, Journals
<1>2. records \in Journals /\ [NextJournal]_records => (records \in Journals)'
  <2> SUFFICES ASSUME records \in Journals, [NextJournal]_records PROVE (records \in Journals)'
    OBVIOUS
  <2>1. CASE UNCHANGED records
    BY <2>1
  <2>2. CASE NextJournal
    <3>1. PICK k \in Kinds, c \in Calls : records' = Append(records, Record(k, c))
      BY <2>2 DEF NextJournal
    <3>2. Record(k, c) \in AnyRecord
      BY DEF Record, AnyRecord
    <3> QED
      BY <3>1, <3>2 DEF Journals
  <2> QED
    BY <2>1, <2>2
<1> QED
  BY <1>1, <1>2, PTL DEF SpecJournal

\* The positions of a journal, and the calls it tells.
LEMMA JournalIs ==
  ASSUME records \in Journals
  PROVE  /\ Len(records) \in Nat /\ DOMAIN records = 1 .. Len(records)
         /\ \A p \in DOMAIN records : records[p].call \in Calls
         /\ \A c : Opened(records, DOMAIN records, c) => c \in Calls
         /\ \A c : c \notin Calls => ToldOnce(records, c)
<1>1. Len(records) \in Nat /\ DOMAIN records = 1 .. Len(records)
      /\ \A p \in DOMAIN records : records[p].call \in Calls
  <2>1. Len(records) \in Nat /\ DOMAIN records = 1 .. Len(records)
    BY DEF Journals
  <2>2. \A p \in 1 .. Len(records) : records[p] \in AnyRecord
    BY DEF Journals
  <2> QED
    BY <2>1, <2>2 DEF AnyRecord
<1>2. \A c : Opened(records, DOMAIN records, c) => c \in Calls
  BY <1>1 DEF Opened, Opens
<1>3. \A c : c \notin Calls => ToldOnce(records, c)
  BY <1>1 DEF ToldOnce
<1> QED
  BY <1>1, <1>2, <1>3

\* Of every journal, however long, about any calls: the open calls are those
\* with an intention and no closure after it, whatever the violations around
\* them, and the journal is accepted exactly when every call is an intention,
\* alone or followed by one closure (verify_sequence of records.rs).
THEOREM OpenCallsAreExact == SpecJournal => []OpenCallsAreInformation
<1>1. ASSUME records \in Journals
      PROVE  OpenCallsAreInformation
  <2>1. PICK n \in Nat : DOMAIN records = 1 .. n
    BY <1>1, JournalIs
  <2>2. \A c : c \in OpenCalls(records) <=>
                 Opened(records, DOMAIN records, c) /\ ~ClosedCall(records, DOMAIN records, c)
    BY <2>1, VerdictIs
  <2>3. OpenCalls(records) =
          {c \in Calls : /\ Opened(records, DOMAIN records, c)
                         /\ ~ClosedCall(records, DOMAIN records, c)}
    BY <1>1, <2>2, JournalIs
  <2>4. Violations(records) = {} <=> \A c : ToldOnce(records, c)
    BY <2>1, AcceptedIs
  <2>5. Violations(records) = {} <=> \A c \in Calls : ToldOnce(records, c)
    BY <1>1, <2>4, JournalIs
  <2> QED
    BY <2>3, <2>5 DEF OpenCallsAreInformation
<1> QED
  BY <1>1, JournalIsTyped, PTL

\* Of every journal: each record that breaks a rule is reported, at its
\* position, for its call and under the name its past gives it, and no other
\* (verify_sequence of records.rs).
THEOREM FaultsAreNamed == SpecJournal => []EveryFaultIsNamed
<1>1. ASSUME records \in Journals
      PROVE  EveryFaultIsNamed
  <2>1. PICK n \in Nat : DOMAIN records = 1 .. n
    BY <1>1, JournalIs
  <2> DEFINE N == 1 .. n
             told(p) == [position |-> p - 1, call |-> records[p].call,
                         kind |-> FaultAt(records, 1 .. p - 1, p)]
             F == {p \in N : FaultAt(records, 1 .. p - 1, p) # "none"}
  <2>2. Violations(records) = ViolationsAt(records, N)
    BY <2>1, VerdictIs
  <2>3. \A p \in N : Earlier(N, p) = 1 .. p - 1 /\ Cardinality(1 .. p - 1) = p - 1
    BY EarlierIs
  <2>4. \A p \in N : /\ Fault(records, N, p) = FaultAt(records, 1 .. p - 1, p)
                     /\ Cardinality(Earlier(N, p)) = p - 1
    BY <2>3 DEF Fault
  <2>5. {q \in N : Fault(records, N, q) # "none"} = F
    BY <2>4
  <2>6. ViolationsAt(records, N) = {told(p) : p \in F}
    <3>1. ViolationsAt(records, N) =
            {[position |-> Cardinality(Earlier(N, p)), call |-> records[p].call,
              kind |-> Fault(records, N, p)] : p \in F}
      BY <2>5 DEF ViolationsAt
    <3>2. \A p \in F : [position |-> Cardinality(Earlier(N, p)), call |-> records[p].call,
                        kind |-> Fault(records, N, p)] = told(p)
      BY <2>4
    <3> HIDE DEF told, F, N
    <3> QED
      BY <3>1, <3>2
  <2> QED
    BY <2>1, <2>2, <2>6 DEF EveryFaultIsNamed
<1> QED
  BY <1>1, JournalIsTyped, PTL
-----------------------------------------------------------------------------
(***************************************************************************)
(* decide                                                                  *)
(***************************************************************************)
Options(S) == S \cup {None}

AnyRequest ==
  [tool_name : Tools, amount : Options(Int), recipient_count : Options(Nat), paths : Seq(Path)]

AnyRule ==
  [tool_name : Tools, allowed : BOOLEAN, requires_approval : BOOLEAN,
   amount : Options(Bounds(Int)), recipients : Options(Bounds(Nat)),
   paths : Options(AnyPathBound)]

RulesTyped == rules \in Seq(AnyRule) /\ request \in AnyRequest

LEMMA UnboundedIsRule == \A t \in Tools : Unbounded(t) \in AnyRule
BY DEF Unbounded, AnyRule, Options

\* The rules and the calls of the steps are those of the program.
LEMMA RulesAreTyped == SpecRules => []RulesTyped
<1>1. ASSUME InitRules
      PROVE  RulesTyped
  <2>1. request \in AnyRequest
    <3>1. request \in Requests
      BY <1>1 DEF InitRules
    <3> QED
      BY <3>1, PolicyAssumption DEF Requests, AnyRequest, Options
  <2>2. ToolRules \subseteq AnyRule
    BY PolicyAssumption DEF ToolRules, AnyRule, Options
  <2>3. rules = <<>> \/ \E rule \in ToolRules : rules = <<rule>>
    BY <1>1 DEF InitRules
  <2>4. rules \in Seq(AnyRule)
    <3>1. CASE rules = <<>>
      BY <3>1
    <3>2. ASSUME NEW rule \in ToolRules, rules = <<rule>> PROVE rules \in Seq(AnyRule)
      BY <2>2, <3>2
    <3> QED
      BY <2>3, <3>1, <3>2
  <2> QED
    BY <2>1, <2>4 DEF RulesTyped
<1>2. ASSUME RulesTyped, [NextRules]_policy
      PROVE  RulesTyped'
  <2>1. CASE AskForMore
    <3>1. request' \in AnyRequest
      <4>1. ASSUME NEW a \in Amounts, request' = [request EXCEPT !.amount = a]
            PROVE  request' \in AnyRequest
        BY <1>2, <4>1, PolicyAssumption DEF RulesTyped, AnyRequest, Options
      <4>2. ASSUME NEW r \in Counts, request' = [request EXCEPT !.recipient_count = r]
            PROVE  request' \in AnyRequest
        BY <1>2, <4>2, PolicyAssumption DEF RulesTyped, AnyRequest, Options
      <4>3. ASSUME NEW p \in MorePaths, request' = [request EXCEPT !.paths = Append(@, p)]
            PROVE  request' \in AnyRequest
        <5>1. p \in Path /\ request.paths \in Seq(Path)
          BY <1>2, PolicyAssumption DEF RulesTyped, AnyRequest
        <5>2. Append(request.paths, p) \in Seq(Path)
          BY <5>1
        <5>3. request' = [request EXCEPT !.paths = Append(request.paths, p)]
          BY <1>2, <4>3 DEF RulesTyped, AnyRequest
        <5> QED
          BY <1>2, <5>2, <5>3 DEF RulesTyped, AnyRequest
      <4> QED
        BY <2>1, <4>1, <4>2, <4>3 DEF AskForMore
    <3> QED
      BY <1>2, <2>1, <3>1 DEF AskForMore, RulesTyped
  <2>2. CASE DemandMore
    <3>1. 1 \in DOMAIN rules /\ rules[1] \in AnyRule
      BY <1>2, <2>2 DEF DemandMore, RulesTyped
    <3>2. \E rule \in AnyRule : rules' = [rules EXCEPT ![1] = rule]
      <4>1. CASE rules' = [rules EXCEPT ![1].allowed = FALSE]
        <5>1. [rules[1] EXCEPT !.allowed = FALSE] \in AnyRule
          BY <3>1 DEF AnyRule
        <5> QED
          BY <3>1, <4>1, <5>1
      <4>2. CASE rules' = [rules EXCEPT ![1].requires_approval = TRUE]
        <5>1. [rules[1] EXCEPT !.requires_approval = TRUE] \in AnyRule
          BY <3>1 DEF AnyRule
        <5> QED
          BY <3>1, <4>2, <5>1
      <4>3. ASSUME NEW b \in AmountBounds, rules' = [rules EXCEPT ![1].amount = b]
            PROVE  \E rule \in AnyRule : rules' = [rules EXCEPT ![1] = rule]
        <5>1. [rules[1] EXCEPT !.amount = b] \in AnyRule
          BY <3>1, PolicyAssumption DEF AnyRule, Options
        <5> QED
          BY <3>1, <4>3, <5>1
      <4>4. ASSUME NEW b \in PathBounds, rules' = [rules EXCEPT ![1].paths = b]
            PROVE  \E rule \in AnyRule : rules' = [rules EXCEPT ![1] = rule]
        <5>1. [rules[1] EXCEPT !.paths = b] \in AnyRule
          BY <3>1, PolicyAssumption DEF AnyRule, Options
        <5> QED
          BY <3>1, <4>4, <5>1
      <4> QED
        BY <2>2, <4>1, <4>2, <4>3, <4>4 DEF DemandMore
    <3> QED
      BY <1>2, <2>2, <3>2 DEF DemandMore, RulesTyped
  <2>3. CASE AddRule
    <3>1. PICK t \in Tools : rules' = Append(rules, Unbounded(t))
      BY <2>3 DEF AddRule
    <3> QED
      BY <1>2, <2>3, <3>1, UnboundedIsRule DEF AddRule, RulesTyped
  <2>4. CASE UNCHANGED policy
    BY <1>2, <2>4 DEF RulesTyped, policy
  <2> QED
    BY <1>2, <2>1, <2>2, <2>3, <2>4 DEF NextRules
<1> QED
  BY <1>1, <1>2, PTL DEF SpecRules

\* The rule that governs a tool is its first one.
LEMMA GoverningIs ==
  ASSUME NEW r \in Seq(AnyRule), NEW t, For(r, t) # {}
  PROVE  LET m == Min(For(r, t))
         IN  /\ m \in 1 .. Len(r) /\ r[m] \in AnyRule /\ r[m].tool_name = t
             /\ Governing(r, t) = r[m]
             /\ \A k \in 1 .. m - 1 : r[k].tool_name # t
<1>1. For(r, t) \subseteq 1 .. Len(r) /\ Len(r) \in Nat
  BY DEF For
<1>2. IsFiniteSet(1 .. Len(r))
  BY <1>1, FS_Interval
<1>3. IsFiniteSet(For(r, t)) /\ \A k \in For(r, t) : k \in Int
  BY <1>1, <1>2, FS_Subset
<1>4. Min(For(r, t)) \in For(r, t) /\ \A k \in For(r, t) : Min(For(r, t)) <= k
  BY <1>3, MinIs
<1> DEFINE m == Min(For(r, t))
<1>5. m \in 1 .. Len(r) /\ r[m] \in AnyRule /\ r[m].tool_name = t
  BY <1>1, <1>4 DEF For
<1>6. ASSUME NEW k \in 1 .. m - 1 PROVE r[k].tool_name # t
  <2>1. k \in 1 .. Len(r) /\ ~(m <= k)
    BY <1>1, <1>5
  <2>2. k \notin For(r, t)
    BY <1>4, <2>1
  <2> QED
    BY <1>1, <2>1, <2>2 DEF For
<1> QED
  BY <1>5, <1>6 DEF Governing

\* What a bound that is not exceeded says.
LEMMA WithinHardLimit ==
  ASSUME NEW bound \in Options(Bounds(Int)), NEW value \in Options(Int),
         ScalarTier(bound, value) # "beyond", bound # None
  PROVE  value # None /\ value <= bound.hard_limit
<1>1. bound \in Bounds(Int)
  BY DEF Options
<1>2. bound.hard_limit \in Int
  BY <1>1 DEF Bounds
<1>3. value # None /\ Tier(bound, value) # "beyond"
  BY DEF ScalarTier
<1>4. value \in Int
  BY <1>3 DEF Options
<1>5. ~(value > bound.hard_limit)
  BY <1>2, <1>3, <1>4 DEF Tier
<1> QED
  BY <1>2, <1>3, <1>4, <1>5

LEMMA CountBoundIs == Options(Bounds(Nat)) \subseteq Options(Bounds(Int))
BY DEF Options, Bounds

\* For every organisation and every call, whatever the amounts, the counts, the
\* paths and the bounds: what a human may approve is governed by the first rule
\* for its tool, and under each of its hard limits (decide of kollega-policy).
THEOREM ApprovalsAreBounded == SpecRules => []ApprovalStaysUnderHardLimits
<1>1. ASSUME RulesTyped, Decision(rules, request) = "require_approval"
      PROVE  \E n \in DOMAIN rules :
               LET rule == rules[n] IN
               /\ rule.tool_name = request.tool_name /\ rule.allowed
               /\ \A k \in 1 .. n - 1 : rules[k].tool_name # request.tool_name
               /\ rule.amount # None =>
                    request.amount # None /\ request.amount <= rule.amount.hard_limit
               /\ rule.recipients # None =>
                    /\ request.recipient_count # None
                    /\ request.recipient_count <= rule.recipients.hard_limit
               /\ rule.paths # None =>
                    /\ request.paths # <<>>
                    /\ \A k \in DOMAIN request.paths :
                         \A i \in DOMAIN request.paths[k] :
                           request.paths[k][i] \notin {Backslash, ".."}
  <2> DEFINE t == request.tool_name
             m == Min(For(rules, t))
             rule == rules[m]
  <2>1. /\ For(rules, t) # {} /\ Governing(rules, t).allowed
        /\ Bounded(Governing(rules, t), request) = "require_approval"
    BY <1>1 DEF Decision
  <2>2. /\ m \in DOMAIN rules /\ rule \in AnyRule /\ rule.tool_name = t
        /\ Governing(rules, t) = rule
        /\ \A k \in 1 .. m - 1 : rules[k].tool_name # t
    BY <1>1, <2>1, GoverningIs DEF RulesTyped
  <2> HIDE DEF m
  <2>3. /\ rule.amount \in Options(Bounds(Int)) /\ rule.recipients \in Options(Bounds(Nat))
        /\ request.amount \in Options(Int) /\ request.recipient_count \in Options(Int)
    BY <1>1, <2>2 DEF AnyRule, RulesTyped, AnyRequest, Options
  <2> HIDE DEF rule, t
  <2>4. /\ ScalarTier(rule.amount, request.amount) # "beyond"
        /\ ScalarTier(rule.recipients, request.recipient_count) # "beyond"
        /\ PathTier(rule.paths, request.paths) # "beyond"
    BY <2>1, <2>2 DEF Bounded
  <2>5. rule.amount # None => request.amount # None /\ request.amount <= rule.amount.hard_limit
    BY <2>3, <2>4, WithinHardLimit
  <2>6. rule.recipients # None =>
          request.recipient_count # None /\ request.recipient_count <= rule.recipients.hard_limit
    BY <2>3, <2>4, WithinHardLimit, CountBoundIs
  <2>7. rule.paths # None =>
          /\ request.paths # <<>>
          /\ \A k \in DOMAIN request.paths : ~Ambiguous(request.paths[k])
    BY <2>4 DEF PathTier
  <2> QED
    BY <2>1, <2>2, <2>5, <2>6, <2>7 DEF Ambiguous, rule, t
<1>2. RulesTyped => ApprovalStaysUnderHardLimits
  BY <1>1 DEF ApprovalStaysUnderHardLimits
<1> QED
  BY <1>2, RulesAreTyped, PTL
-----------------------------------------------------------------------------
\* One tier is at least as strict as another.
NotLooser(old, new) ==
  /\ old = "beyond" => new = "beyond"
  /\ old = "approval" => new \in {"approval", "beyond"}

\* A value that grows is not under a bound it was above.
LEMMA MoreIsNotLooser ==
  ASSUME NEW bound \in Options(Bounds(Int)), NEW v \in Options(Int), NEW w \in Options(Int),
         Grows(v, w)
  PROVE  NotLooser(ScalarTier(bound, v), ScalarTier(bound, w))
<1>1. v # None /\ w # None /\ v \in Int /\ w \in Int /\ v < w
  BY DEF Grows, Options
<1>2. CASE bound = None
  BY <1>2 DEF NotLooser, ScalarTier
<1>3. CASE bound # None
  <2>1. bound \in Bounds(Int)
    BY <1>3 DEF Options
  <2>2. bound.hard_limit \in Int /\ (bound.threshold # None => bound.threshold \in Int)
    BY <2>1 DEF Bounds
  <2>3. ScalarTier(bound, v) = Tier(bound, v) /\ ScalarTier(bound, w) = Tier(bound, w)
    BY <1>1, <1>3 DEF ScalarTier
  <2>4. Tier(bound, v) = "beyond" => v > bound.hard_limit
    BY <1>1, <2>2 DEF Tier
  <2>5. Tier(bound, v) = "approval" => bound.threshold # None /\ v > bound.threshold
    BY <1>1, <2>2 DEF Tier
  <2>6. w > bound.hard_limit => Tier(bound, w) = "beyond"
    BY <1>1, <2>2 DEF Tier
  <2>7. bound.threshold # None /\ w > bound.threshold => Tier(bound, w) \in {"approval", "beyond"}
    BY <1>1, <2>2 DEF Tier
  <2>8. v > bound.hard_limit => w > bound.hard_limit
    BY <1>1, <2>2
  <2>9. bound.threshold # None /\ v > bound.threshold => w > bound.threshold
    BY <1>1, <2>2
  <2> QED
    BY <2>3, <2>4, <2>5, <2>6, <2>7, <2>8, <2>9 DEF NotLooser
<1> QED
  BY <1>2, <1>3

\* A bound that is lowered lets nothing more through.
LEMMA LowerIsNotLooser ==
  ASSUME NEW a \in Options(Bounds(Int)), NEW b \in Options(Bounds(Int)), Lower(a, b),
         NEW v \in Options(Int)
  PROVE  NotLooser(ScalarTier(a, v), ScalarTier(b, v))
<1>1. CASE a = None
  BY <1>1 DEF NotLooser, ScalarTier
<1>2. CASE a # None
  <2>1. b # None /\ b.hard_limit <= a.hard_limit
        /\ (a.threshold # None => b.threshold # None /\ b.threshold <= a.threshold)
    BY <1>2 DEF Lower
  <2>2. a \in Bounds(Int) /\ b \in Bounds(Int)
    BY <1>2, <2>1 DEF Options
  <2>3. /\ a.hard_limit \in Int /\ (a.threshold # None => a.threshold \in Int)
        /\ b.hard_limit \in Int /\ (b.threshold # None => b.threshold \in Int)
    BY <2>2 DEF Bounds
  <2>4. CASE v = None
    BY <1>2, <2>1, <2>4 DEF NotLooser, ScalarTier
  <2>5. CASE v # None
    <3>1. v \in Int
      BY <2>5 DEF Options
    <3>2. ScalarTier(a, v) = Tier(a, v) /\ ScalarTier(b, v) = Tier(b, v)
      BY <1>2, <2>1, <2>5 DEF ScalarTier
    <3>3. Tier(a, v) = "beyond" => v > a.hard_limit
      BY <2>3, <3>1 DEF Tier
    <3>4. Tier(a, v) = "approval" => a.threshold # None /\ v > a.threshold
      BY <2>3, <3>1 DEF Tier
    <3>5. v > b.hard_limit => Tier(b, v) = "beyond"
      BY <2>3, <3>1 DEF Tier
    <3>6. b.threshold # None /\ v > b.threshold => Tier(b, v) \in {"approval", "beyond"}
      BY <2>3, <3>1 DEF Tier
    <3>7. v > a.hard_limit => v > b.hard_limit
      BY <2>1, <2>3, <3>1
    <3>8. a.threshold # None /\ v > a.threshold => b.threshold # None /\ v > b.threshold
      BY <2>1, <2>3, <3>1
    <3> QED
      BY <3>2, <3>3, <3>4, <3>5, <3>6, <3>7, <3>8 DEF NotLooser
  <2> QED
    BY <2>4, <2>5
<1> QED
  BY <1>1, <1>2

\* A path more makes up for no other one.
LEMMA PathIsNotLooser ==
  ASSUME NEW bound \in Options(AnyPathBound), NEW ps \in Seq(Path), NEW p \in Path,
         Len(ps) = 1
  PROVE  NotLooser(PathTier(bound, ps), PathTier(bound, Append(ps, p)))
<1> DEFINE qs == Append(ps, p)
<1>1. /\ ps # <<>> /\ qs # <<>>
      /\ \A k \in DOMAIN ps : k \in DOMAIN qs /\ qs[k] = ps[k]
  OBVIOUS
<1>2. (\E k \in DOMAIN ps : Ambiguous(ps[k])) => \E k \in DOMAIN qs : Ambiguous(qs[k])
  BY <1>1
<1>3. (\E k \in DOMAIN ps : Outside(bound, ps[k])) => \E k \in DOMAIN qs : Outside(bound, qs[k])
  BY <1>1
<1> HIDE DEF qs
<1>4. CASE bound = None
  BY <1>4 DEF NotLooser, PathTier, qs
<1>5. CASE bound # None
  <2>1. PathTier(bound, ps) = "beyond" => PathTier(bound, qs) = "beyond"
    BY <1>1, <1>2, <1>3, <1>5 DEF PathTier
  <2>2. PathTier(bound, ps) = "approval" => PathTier(bound, qs) \in {"approval", "beyond"}
    BY <1>1, <1>2, <1>3, <1>5 DEF PathTier
  <2> QED
    BY <2>1, <2>2 DEF NotLooser, qs
<1> QED
  BY <1>4, <1>5

\* A rule for a call, and the same or a stricter one for the same or a greater
\* one.
NoLooserRule(r, q, s, p) ==
  /\ s.tool_name = r.tool_name
  /\ s.allowed => r.allowed
  /\ r.requires_approval => s.requires_approval
  /\ NotLooser(ScalarTier(r.amount, q.amount), ScalarTier(s.amount, p.amount))
  /\ NotLooser(ScalarTier(r.recipients, q.recipient_count),
               ScalarTier(s.recipients, p.recipient_count))
  /\ NotLooser(PathTier(r.paths, q.paths), PathTier(s.paths, p.paths))

DecisionOf(rule, q) == IF ~rule.allowed THEN "deny" ELSE Bounded(rule, q)

AtLeast(new, old) == Severity[new] >= Severity[old]

LEMMA BoundedIsNotLooser ==
  ASSUME NEW r, NEW q, NEW s, NEW p, NoLooserRule(r, q, s, p)
  PROVE  AtLeast(DecisionOf(s, p), DecisionOf(r, q))
<1> DEFINE verdicts == {"allow", "require_approval", "deny"}
           old == {ScalarTier(r.amount, q.amount), ScalarTier(r.recipients, q.recipient_count),
                   PathTier(r.paths, q.paths)}
           new == {ScalarTier(s.amount, p.amount), ScalarTier(s.recipients, p.recipient_count),
                   PathTier(s.paths, p.paths)}
<1>1. ("beyond" \in old => "beyond" \in new)
      /\ ("approval" \in old => "approval" \in new \/ "beyond" \in new)
  BY DEF NoLooserRule, NotLooser
<1>2. Bounded(r, q) = CASE "beyond" \in old -> "deny"
                        [] "beyond" \notin old /\ ("approval" \in old \/ r.requires_approval)
                             -> "require_approval"
                        [] OTHER -> "allow"
  BY DEF Bounded
<1>3. Bounded(s, p) = CASE "beyond" \in new -> "deny"
                        [] "beyond" \notin new /\ ("approval" \in new \/ s.requires_approval)
                             -> "require_approval"
                        [] OTHER -> "allow"
  BY DEF Bounded
<1>4. (s.allowed => r.allowed) /\ (r.requires_approval => s.requires_approval)
  BY DEF NoLooserRule
<1> HIDE DEF old, new
<1>5. \/ Bounded(s, p) = "deny"
      \/ Bounded(s, p) = "require_approval" /\ Bounded(r, q) # "deny"
      \/ Bounded(r, q) = "allow"
  BY <1>1, <1>2, <1>3, <1>4
<1>6. Bounded(r, q) \in verdicts /\ Bounded(s, p) \in verdicts
  BY <1>2, <1>3
<1>7. \/ DecisionOf(s, p) = "deny" /\ DecisionOf(r, q) \in verdicts
      \/ DecisionOf(s, p) = "require_approval" /\ DecisionOf(r, q) \in {"allow", "require_approval"}
      \/ DecisionOf(s, p) = "allow" /\ DecisionOf(r, q) = "allow"
  BY <1>4, <1>5, <1>6 DEF DecisionOf
<1> QED
  BY <1>7 DEF AtLeast, Severity

LEMMA SameTier == \A x : NotLooser(x, x)
BY DEF NotLooser

LEMMA DecisionIs ==
  ASSUME NEW r, NEW q
  PROVE  Decision(r, q) = IF For(r, q.tool_name) = {} THEN "deny"
                          ELSE DecisionOf(Governing(r, q.tool_name), q)
BY DEF Decision, DecisionOf

\* A call that asks for more is for the same tool.
LEMMA AskingIsNotLooser ==
  ASSUME RulesTyped, AskForMore
  PROVE  AtLeast(Decision(rules', request'), Decision(rules, request))
<1> DEFINE t == request.tool_name
           rule == Governing(rules, t)
<1>1. rules' = rules /\ request'.tool_name = t
  BY DEF AskForMore, RulesTyped, AnyRequest
<1>2. CASE For(rules, t) = {}
  BY <1>1, <1>2, DecisionIs DEF AtLeast, Severity
<1>3. CASE For(rules, t) # {}
  <2>1. rule \in AnyRule
    BY <1>3, GoverningIs DEF RulesTyped
  <2>2. /\ rule.amount \in Options(Bounds(Int)) /\ rule.recipients \in Options(Bounds(Int))
        /\ rule.paths \in Options(AnyPathBound)
    BY <2>1, CountBoundIs DEF AnyRule
  <2>3. /\ request.amount \in Options(Int) /\ request.recipient_count \in Options(Int)
        /\ request.paths \in Seq(Path)
    BY DEF RulesTyped, AnyRequest, Options
  <2> HIDE DEF rule
  <2>4. NoLooserRule(rule, request, rule, request')
    <3>1. ASSUME NEW a \in Amounts, Grows(request.amount, a),
                 request' = [request EXCEPT !.amount = a]
          PROVE  NoLooserRule(rule, request, rule, request')
      <4>1. a \in Options(Int)
        BY PolicyAssumption DEF Options
      <4>2. request'.amount = a /\ request'.recipient_count = request.recipient_count
            /\ request'.paths = request.paths
        BY <3>1 DEF RulesTyped, AnyRequest
      <4> QED
        BY <2>2, <2>3, <3>1, <4>1, <4>2, MoreIsNotLooser, SameTier DEF NoLooserRule
    <3>2. ASSUME NEW a \in Counts, Grows(request.recipient_count, a),
                 request' = [request EXCEPT !.recipient_count = a]
          PROVE  NoLooserRule(rule, request, rule, request')
      <4>1. a \in Options(Int)
        BY PolicyAssumption DEF Options
      <4>2. request'.amount = request.amount /\ request'.recipient_count = a
            /\ request'.paths = request.paths
        BY <3>2 DEF RulesTyped, AnyRequest
      <4> QED
        BY <2>2, <2>3, <3>2, <4>1, <4>2, MoreIsNotLooser, SameTier DEF NoLooserRule
    <3>3. ASSUME NEW p \in MorePaths, Len(request.paths) = 1,
                 request' = [request EXCEPT !.paths = Append(@, p)]
          PROVE  NoLooserRule(rule, request, rule, request')
      <4>1. p \in Path
        BY PolicyAssumption
      <4>2. request'.amount = request.amount
            /\ request'.recipient_count = request.recipient_count
            /\ request'.paths = Append(request.paths, p)
        BY <3>3 DEF RulesTyped, AnyRequest
      <4>3. NotLooser(PathTier(rule.paths, request.paths), PathTier(rule.paths, request'.paths))
        BY <2>2, <2>3, <3>3, <4>1, <4>2, PathIsNotLooser
      <4> QED
        BY <4>2, <4>3, SameTier DEF NoLooserRule
    <3> QED
      BY <3>1, <3>2, <3>3 DEF AskForMore
  <2>5. AtLeast(DecisionOf(rule, request'), DecisionOf(rule, request))
    BY <2>4, BoundedIsNotLooser
  <2> QED
    BY <1>1, <1>3, <2>5, DecisionIs DEF rule
<1> QED
  BY <1>2, <1>3

\* A rule that demands more governs the same tool.
LEMMA DemandingIsNotLooser ==
  ASSUME RulesTyped, DemandMore
  PROVE  AtLeast(Decision(rules', request'), Decision(rules, request))
<1> DEFINE t == request.tool_name
           m == Min(For(rules, t))
<1>1. request' = request
  BY DEF DemandMore
<1>2. 1 \in DOMAIN rules /\ rules[1] \in AnyRule /\ DOMAIN rules' = DOMAIN rules
      /\ \A k \in DOMAIN rules : k # 1 => rules'[k] = rules[k]
  BY DEF DemandMore, RulesTyped
<1>3. /\ rules[1].amount \in Options(Bounds(Int))
      /\ request.amount \in Options(Int)
  BY <1>2 DEF AnyRule, RulesTyped, AnyRequest, Options
<1>4. NoLooserRule(rules[1], request, rules'[1], request)
  <2>1. CASE rules' = [rules EXCEPT ![1].allowed = FALSE]
    <3>1. rules'[1] = [rules[1] EXCEPT !.allowed = FALSE]
      BY <1>2, <2>1
    <3> QED
      BY <1>2, <3>1, SameTier DEF NoLooserRule, AnyRule
  <2>2. CASE rules' = [rules EXCEPT ![1].requires_approval = TRUE]
    <3>1. rules'[1] = [rules[1] EXCEPT !.requires_approval = TRUE]
      BY <1>2, <2>2
    <3> QED
      BY <1>2, <3>1, SameTier DEF NoLooserRule, AnyRule
  <2>3. ASSUME NEW b \in AmountBounds, Lower(rules[1].amount, b),
               rules' = [rules EXCEPT ![1].amount = b]
        PROVE  NoLooserRule(rules[1], request, rules'[1], request)
    <3>1. rules'[1] = [rules[1] EXCEPT !.amount = b]
      BY <1>2, <2>3
    <3>2. b \in Options(Bounds(Int))
      BY PolicyAssumption DEF Options
    <3>3. NotLooser(ScalarTier(rules[1].amount, request.amount), ScalarTier(b, request.amount))
      BY <1>3, <2>3, <3>2, LowerIsNotLooser
    <3> QED
      BY <1>2, <3>1, <3>3, SameTier DEF NoLooserRule, AnyRule
  <2>4. ASSUME NEW b \in PathBounds \ {None}, rules[1].paths = None,
               rules' = [rules EXCEPT ![1].paths = b]
        PROVE  NoLooserRule(rules[1], request, rules'[1], request)
    <3>1. rules'[1] = [rules[1] EXCEPT !.paths = b]
      BY <1>2, <2>4
    <3>2. NotLooser(PathTier(rules[1].paths, request.paths), PathTier(b, request.paths))
      BY <2>4 DEF NotLooser, PathTier
    <3> QED
      BY <1>2, <3>1, <3>2, SameTier DEF NoLooserRule, AnyRule
  <2> QED
    BY <2>1, <2>2, <2>3, <2>4 DEF DemandMore
<1>5. \A k \in DOMAIN rules : rules'[k].tool_name = rules[k].tool_name
  BY <1>2, <1>4 DEF NoLooserRule
<1>6. For(rules', t) = For(rules, t)
  BY <1>2, <1>5 DEF For
<1>7. CASE For(rules, t) = {}
  BY <1>1, <1>6, <1>7, DecisionIs DEF AtLeast, Severity
<1>8. CASE For(rules, t) # {}
  <2>1. m \in DOMAIN rules /\ Governing(rules, t) = rules[m]
    BY <1>8, GoverningIs DEF RulesTyped
  <2>2. Governing(rules', t) = rules'[m]
    BY <1>6 DEF Governing
  <2> HIDE DEF m
  <2>3. NoLooserRule(rules[m], request, rules'[m], request)
    <3>1. CASE m = 1
      BY <1>4, <3>1
    <3>2. CASE m # 1
      BY <1>2, <2>1, <3>2, SameTier DEF NoLooserRule
    <3> QED
      BY <3>1, <3>2
  <2>4. AtLeast(DecisionOf(rules'[m], request), DecisionOf(rules[m], request))
    BY <2>3, BoundedIsNotLooser
  <2> QED
    BY <1>1, <1>6, <1>8, <2>1, <2>2, <2>4, DecisionIs
<1> QED
  BY <1>7, <1>8

\* A rule that comes after a rule for the tool is never reached.
LEMMA AddingChangesNothing ==
  ASSUME RulesTyped, AddRule
  PROVE  \/ Decision(rules', request') = Decision(rules, request)
         \/ \A k \in DOMAIN rules : rules[k].tool_name # request.tool_name
<1> DEFINE t == request.tool_name
           m == Min(For(rules, t))
           l == Min(For(rules', t))
<1>1. PICK u \in Tools : rules' = Append(rules, Unbounded(u))
  BY DEF AddRule
<1>2. rules \in Seq(AnyRule) /\ rules' \in Seq(AnyRule) /\ request' = request
  BY <1>1, UnboundedIsRule DEF RulesTyped, AddRule
<1>3. \A k \in DOMAIN rules : k \in DOMAIN rules' /\ rules'[k] = rules[k]
  BY <1>1, <1>2
<1>4. \A k \in DOMAIN rules' : k \in DOMAIN rules \/ k = Len(rules) + 1
  BY <1>1, <1>2
<1>5. CASE For(rules, t) = {}
  BY <1>5 DEF For
<1>6. CASE For(rules, t) # {}
  <2>1. m \in 1 .. Len(rules) /\ rules[m].tool_name = t /\ Governing(rules, t) = rules[m]
        /\ \A k \in 1 .. m - 1 : rules[k].tool_name # t
    BY <1>2, <1>6, GoverningIs
  <2>2. m \in For(rules', t) /\ For(rules', t) # {}
    BY <1>2, <1>3, <2>1 DEF For
  <2>3. l \in 1 .. Len(rules') /\ rules'[l].tool_name = t /\ Governing(rules', t) = rules'[l]
        /\ \A k \in 1 .. l - 1 : rules'[k].tool_name # t
    BY <1>2, <2>2, GoverningIs
  <2> HIDE DEF l, m
  <2>4. m \in DOMAIN rules /\ rules'[m] = rules[m] /\ m \in Int /\ l \in Int /\ m >= 1 /\ l >= 1
    BY <1>2, <1>3, <2>1, <2>3
  <2>5. ~(m < l)
    BY <2>1, <2>3, <2>4
  <2>6. ~(l < m)
    <3>1. SUFFICES ASSUME l < m PROVE FALSE
      OBVIOUS
    <3>2. l \in 1 .. m - 1 /\ l \in DOMAIN rules
      BY <1>2, <2>1, <2>4, <3>1
    <3> QED
      BY <1>3, <2>1, <2>3, <3>2
  <2>7. l = m
    BY <2>4, <2>5, <2>6
  <2>8. Governing(rules', t) = Governing(rules, t)
    BY <2>1, <2>3, <2>4, <2>7
  <2> QED
    BY <1>2, <1>6, <2>2, <2>8, DecisionIs
<1> QED
  BY <1>5, <1>6

\* For every organisation and every call: asking for more, or demanding more,
\* never makes the decision more lenient, and a rule that comes after a rule for
\* the tool, or is for another one, changes nothing (decide of kollega-policy).
THEOREM StricterRulesAreStricter == SpecRules => StricterIsNeverLooser
<1>1. ASSUME RulesTyped, [NextRules]_policy
      PROVE  [/\ AskForMore \/ DemandMore =>
                   Severity[Decision(rules', request')] >= Severity[Decision(rules, request)]
              /\ AddRule =>
                   \/ Decision(rules', request') = Decision(rules, request)
                   \/ \A k \in DOMAIN rules : rules[k].tool_name # request.tool_name]_policy
  BY <1>1, AskingIsNotLooser, DemandingIsNotLooser, AddingChangesNothing DEF AtLeast
<1> QED
  BY <1>1, RulesAreTyped, PTL DEF SpecRules, StricterIsNeverLooser
-----------------------------------------------------------------------------
(***************************************************************************)
(* compile                                                                 *)
(***************************************************************************)
Origins == {"system", "user", "external"}

IsSegment(segment) == segment.origin \in Origins /\ segment.text \in Prose

AnySegment ==
  {SystemInstruction(text) : text \in Prose} \cup {UserRequest(text) : text \in Prose}
    \cup {ExternalContent(text, label) : text \in Prose, label \in Labels}

MessageTyped == segments \in Seq(AnySegment)

LEMMA SegmentsAre ==
  ASSUME MessageTyped
  PROVE  /\ Len(segments) \in Nat /\ DOMAIN segments = 1 .. Len(segments)
         /\ \A k \in DOMAIN segments : IsSegment(segments[k])
<1>1. \A segment \in AnySegment : IsSegment(segment)
  BY DEF AnySegment, IsSegment, Origins, SystemInstruction, UserRequest, ExternalContent
<1>2. /\ Len(segments) \in Nat /\ DOMAIN segments = 1 .. Len(segments)
      /\ \A k \in 1 .. Len(segments) : segments[k] \in AnySegment
  BY DEF MessageTyped
<1> QED
  BY <1>1, <1>2

\* A list of segments stays one.
LEMMA MessageIsTyped == SpecMessage => []MessageTyped
<1>1. InitMessage => MessageTyped
  BY DEF InitMessage, MessageTyped
<1>2. ASSUME MessageTyped, [NextMessage]_segments
      PROVE  MessageTyped'
  <2>1. CASE UNCHANGED segments
    BY <1>2, <2>1 DEF MessageTyped
  <2>2. CASE NextMessage
    <3>1. \E segment \in AnySegment : segments' = Append(segments, segment)
      BY <2>2 DEF NextMessage, AnySegment
    <3> QED
      BY <1>2, <3>1 DEF MessageTyped
  <2> QED
    BY <1>2, <2>1, <2>2
<1> QED
  BY <1>1, <1>2, PTL DEF SpecMessage

-----------------------------------------------------------------------------
\* The draft of the segments at the positions s, in closed form.
Of(list, s, origin) == {k \in s : list[k].origin = origin}

Again(list, s) ==
  {k \in s : /\ list[k].origin # "external"
             /\ \E j \in s : j < k /\ list[j].origin = list[k].origin}

TextOf(list, s, origin) ==
  IF Of(list, s, origin) = {} THEN Unset
  ELSE list[Chosen(Of(list, s, origin))].text

DocumentsAt(list, s) ==
  LET outside == Of(list, s, "external")
  IN  [n \in 1 .. Cardinality(outside) |-> Document(list[Increasing(outside)[n]])]

Duplicate(segment) ==
  IF segment.origin = "system" THEN "duplicate_system" ELSE "duplicate_user"

DraftAt(list, s) ==
  IF Again(list, s) # {} THEN Failed(Duplicate(list[Min(Again(list, s))]))
  ELSE [error |-> "none", system |-> TextOf(list, s, "system"),
        user_request |-> TextOf(list, s, "user"), documents |-> DocumentsAt(list, s)]

\* The tables of drafts whose last entry FoldLeft takes.
IsDrafts(list, g) ==
  g = [s \in SUBSET DOMAIN list |->
         IF s = {} THEN EmptyDraft ELSE Read(g[s \ {Max(s)}], list[Max(s)])]

LEMMA DraftIsFold ==
  ASSUME NEW list
  PROVE  FoldLeft(Read, EmptyDraft, list) = (CHOOSE g : IsDrafts(list, g))[DOMAIN list]
BY DEF FoldLeft, MapThenFoldSet, IsDrafts

\* The documents of one external content more.
LEMMA DocumentsMore ==
  ASSUME NEW list, NEW t, IsFiniteSet(t), NEW m \in Int,
         \A q \in t : q \in Int /\ q < m
  PROVE  DocumentsAt(list, t \cup {m}) =
           IF list[m].origin = "external"
           THEN Append(DocumentsAt(list, t), Document(list[m]))
           ELSE DocumentsAt(list, t)
<1> DEFINE E == Of(list, t, "external")
           F == Of(list, t \cup {m}, "external")
<1>1. CASE list[m].origin # "external"
  <2>1. F = E
    BY <1>1 DEF Of
  <2> HIDE DEF E, F
  <2> QED
    BY <1>1, <2>1 DEF DocumentsAt, E, F
<1>2. CASE list[m].origin = "external"
  <2>1. F = E \cup {m}
    BY <1>2 DEF Of
  <2>2. E \in SUBSET t /\ \A k \in E : k \in Int /\ k < m
    BY DEF Of
  <2>3. IsFiniteSet(E)
    BY <2>2, FS_Subset
  <2> HIDE DEF E, F
  <2>4. IsFiniteSet(F) /\ \A k \in F : k \in Int
    BY <2>1, <2>2, <2>3, FS_AddElement
  <2> DEFINE c == Cardinality(E)
  <2>5. c \in Nat /\ Cardinality(F) = c + 1
        /\ (\A k \in E : Place(F, k) = Place(E, k)) /\ Place(F, m) = c + 1
    <3>1. c \in Nat
      BY <2>3, FS_CardinalityType
    <3> QED
      BY <2>1, <2>2, <2>3, <3>1, IncreasingMore
  <2>6. \A n \in 1 .. c : Increasing(E)[n] \in E /\ Place(E, Increasing(E)[n]) = n
    BY <2>2, <2>3, IncreasingIs
  <2>7. \A k \in F : Increasing(F)[Place(F, k)] = k
    BY <2>4, IncreasingIs
  <2>8. \A n \in 1 .. c : Increasing(F)[n] = Increasing(E)[n]
    BY <2>1, <2>5, <2>6, <2>7
  <2>9. Increasing(F)[c + 1] = m
    BY <2>1, <2>5, <2>7
  <2> DEFINE d == DocumentsAt(list, t)
             e == DocumentsAt(list, t \cup {m})
  <2>10. d = [n \in 1 .. c |-> Document(list[Increasing(E)[n]])]
    BY DEF DocumentsAt, E
  <2>11. e = [n \in 1 .. c + 1 |-> Document(list[Increasing(F)[n]])]
    BY <2>5 DEF DocumentsAt, F
  <2> HIDE DEF c, d, e
  <2>12. \A n \in 1 .. c : e[n] = d[n]
    BY <2>5, <2>8, <2>10, <2>11
  <2>13. e[c + 1] = Document(list[m])
    BY <2>5, <2>9, <2>11
  <2>14. e = Append(d, Document(list[m]))
    <3> DEFINE x == Document(list[m])
    <3> HIDE DEF x
    <3>1. Listed(d) /\ Len(d) = c
      BY <2>5, <2>10, IsListed
    <3>2. Listed(e) /\ Len(e) = c + 1
      BY <2>5, <2>11, IsListed
    <3>3. /\ Listed(Append(d, x)) /\ Len(Append(d, x)) = c + 1
          /\ \A n \in 1 .. c : Append(d, x)[n] = d[n]
          /\ Append(d, x)[c + 1] = x
      BY <3>1, Appended
    <3>4. \A n \in 1 .. c + 1 : n \in 1 .. c \/ n = c + 1
      BY <2>5
    <3>5. \A n \in 1 .. c + 1 : e[n] = Append(d, x)[n]
      BY <2>12, <2>13, <3>3, <3>4 DEF x
    <3>6. e = Append(d, x)
      BY <3>2, <3>3, <3>5, SameList
    <3> QED
      BY <3>6 DEF x
  <2> QED
    BY <1>2, <2>14 DEF d, e
<1> QED
  BY <1>1, <1>2

\* One segment more.
LEMMA DraftMore ==
  ASSUME NEW list, NEW t, IsFiniteSet(t), NEW m \in Int,
         \A q \in t : q \in Int /\ q < m,
         \A k \in t \cup {m} : IsSegment(list[k])
  PROVE  DraftAt(list, t \cup {m}) = Read(DraftAt(list, t), list[m])
<1> DEFINE s == t \cup {m}
           o == list[m].origin
           A == Again(list, t)
           B == Again(list, s)
           draft == DraftAt(list, t)
<1>1. o \in Origins /\ list[m].text \in Prose
  BY DEF IsSegment
<1>2. B = A \cup (IF o # "external" /\ Of(list, t, o) # {} THEN {m} ELSE {})
  <2>1. ASSUME NEW k \in t PROVE k \in B <=> k \in A
    <3>1. ~(m < k)
      OBVIOUS
    <3> QED
      BY <3>1 DEF Again
  <2>2. m \in B <=> o # "external" /\ Of(list, t, o) # {}
    <3>1. ~(m < m)
      OBVIOUS
    <3>2. Of(list, t, o) # {} <=> \E j \in t : list[j].origin = o
      BY DEF Of
    <3>3. \A j \in t : j < m
      OBVIOUS
    <3> QED
      BY <3>1, <3>2, <3>3 DEF Again
  <2>3. B \subseteq s /\ A \subseteq t /\ m \notin t
    BY DEF Again
  <2> HIDE DEF A, B, o
  <2> QED
    BY <2>1, <2>2, <2>3
<1>3. \A origin : Of(list, s, origin) =
                    Of(list, t, origin) \cup (IF o = origin THEN {m} ELSE {})
  BY DEF Of
<1>4. \A origin : \A k \in Of(list, t, origin) : list[k].text \in Prose /\ list[k].text # Unset
  BY MessageAssumption DEF Of, IsSegment
<1>5. \A origin : TextOf(list, t, origin) = Unset <=> Of(list, t, origin) = {}
  <2> SUFFICES ASSUME NEW origin
               PROVE  TextOf(list, t, origin) = Unset <=> Of(list, t, origin) = {}
    OBVIOUS
  <2>1. CASE Of(list, t, origin) = {}
    BY <2>1 DEF TextOf
  <2>2. CASE Of(list, t, origin) # {}
    <3>1. Chosen(Of(list, t, origin)) \in Of(list, t, origin)
      BY <2>2 DEF Chosen
    <3> QED
      BY <1>4, <2>2, <3>1 DEF TextOf
  <2> QED
    BY <2>1, <2>2
<1>6. \A origin : o # origin => TextOf(list, s, origin) = TextOf(list, t, origin)
  <2> SUFFICES ASSUME NEW origin, o # origin
               PROVE  TextOf(list, s, origin) = TextOf(list, t, origin)
    OBVIOUS
  <2>1. Of(list, s, origin) = Of(list, t, origin)
    BY <1>3
  <2> QED
    BY <2>1 DEF TextOf
<1>7. Of(list, t, o) = {} => TextOf(list, s, o) = list[m].text
  <2>1. SUFFICES ASSUME Of(list, t, o) = {} PROVE TextOf(list, s, o) = list[m].text
    OBVIOUS
  <2>2. Of(list, s, o) = {m}
    BY <1>3, <2>1
  <2>3. Chosen({m}) = m
    BY DEF Chosen
  <2> QED
    BY <2>2, <2>3 DEF TextOf
<1>8. DocumentsAt(list, s) = IF o = "external" THEN Append(DocumentsAt(list, t), Document(list[m]))
                             ELSE DocumentsAt(list, t)
  BY DocumentsMore
<1>9. DraftAt(list, s) =
        IF B # {} THEN Failed(Duplicate(list[Min(B)]))
        ELSE [error |-> "none", system |-> TextOf(list, s, "system"),
              user_request |-> TextOf(list, s, "user"), documents |-> DocumentsAt(list, s)]
  BY DEF DraftAt
<1>10. draft =
        IF A # {} THEN Failed(Duplicate(list[Min(A)]))
        ELSE [error |-> "none", system |-> TextOf(list, t, "system"),
              user_request |-> TextOf(list, t, "user"), documents |-> DocumentsAt(list, t)]
  BY DEF DraftAt
<1>11. ASSUME NEW segment
       PROVE  Failed(Duplicate(segment)).error # "none"
  BY DEF Failed, EmptyDraft, Duplicate
<1>12. CASE A # {}
  <2>1. A \subseteq t /\ B # {} /\ IsFiniteSet(A) /\ IsFiniteSet(B)
    <3>1. A \in SUBSET t
      BY DEF Again
    <3>2. B \in SUBSET s /\ IsFiniteSet(s)
      BY FS_AddElement DEF Again
    <3>3. B # {}
      BY <1>2, <1>12
    <3> HIDE DEF A, B, s
    <3> QED
      BY <3>1, <3>2, <3>3, FS_Subset
  <2>2. Min(A) \in A /\ \A c \in A : Min(A) <= c
    <3>1. \A c \in A : c \in Int
      BY <2>1
    <3> HIDE DEF A
    <3> QED
      BY <1>12, <2>1, <3>1, MinIs
  <2>3. Min(B) \in B /\ \A c \in B : Min(B) <= c
    <3>1. \A c \in B : c \in Int
      BY <1>2, <2>1
    <3> HIDE DEF B
    <3> QED
      BY <2>1, <3>1, MinIs
  <2>4. Min(B) = Min(A)
    <3>1. Min(A) \in B /\ Min(A) \in t /\ Min(A) \in Int /\ Min(A) < m
      BY <1>2, <2>1, <2>2
    <3>2. Min(B) <= Min(A) /\ Min(B) \in Int
      BY <1>2, <2>1, <2>3, <3>1
    <3>3. Min(B) # m
      BY <3>1, <3>2
    <3>4. Min(B) \in A
      BY <1>2, <2>3, <3>3
    <3> QED
      BY <2>2, <3>1, <3>2, <3>4
  <2>5. DraftAt(list, s) = draft /\ draft.error # "none"
    <3> HIDE DEF A, B, draft, s
    <3> QED
      BY <1>9, <1>10, <1>11, <1>12, <2>1, <2>4
  <2> HIDE DEF draft
  <2> QED
    BY <2>5 DEF Read, draft
<1>13. CASE A = {}
  <2>1. draft = [error |-> "none", system |-> TextOf(list, t, "system"),
                 user_request |-> TextOf(list, t, "user"), documents |-> DocumentsAt(list, t)]
    BY <1>10, <1>13
  <2>2. draft.error = "none" /\ draft.system = TextOf(list, t, "system")
        /\ draft.user_request = TextOf(list, t, "user") /\ draft.documents = DocumentsAt(list, t)
    BY <2>1
  <2> HIDE DEF A, B, draft, s, o
  <2>3. CASE o = "external"
    <3>1. B = {}
      BY <1>2, <1>13, <2>3
    <3>2. Read(draft, list[m]) = [draft EXCEPT !.documents = Append(@, Document(list[m]))]
      BY <2>2, <2>3 DEF Read, o
    <3>3. DraftAt(list, s) =
            [error |-> "none", system |-> TextOf(list, t, "system"),
             user_request |-> TextOf(list, t, "user"),
             documents |-> Append(DocumentsAt(list, t), Document(list[m]))]
      <4>1. TextOf(list, s, "system") = TextOf(list, t, "system")
            /\ TextOf(list, s, "user") = TextOf(list, t, "user")
        BY <1>6, <2>3
      <4>2. DocumentsAt(list, s) = Append(DocumentsAt(list, t), Document(list[m]))
        BY <1>8, <2>3
      <4> QED
        BY <1>9, <3>1, <4>1, <4>2
    <3> QED
      BY <2>1, <3>2, <3>3 DEF draft, s
  <2>4. CASE o = "system" /\ Of(list, t, o) = {}
    <3>1. B = {}
      BY <1>2, <1>13, <2>4
    <3>2. draft.system = Unset
      BY <1>5, <2>2, <2>4
    <3>3. Read(draft, list[m]) = [draft EXCEPT !.system = list[m].text]
      BY <2>2, <2>4, <3>2 DEF Read, o
    <3>4. DraftAt(list, s) =
            [error |-> "none", system |-> list[m].text,
             user_request |-> TextOf(list, t, "user"), documents |-> DocumentsAt(list, t)]
      BY <1>6, <1>7, <1>8, <1>9, <2>4, <3>1
    <3> QED
      BY <2>1, <3>3, <3>4 DEF draft, s
  <2>5. CASE o = "user" /\ Of(list, t, o) = {}
    <3>1. B = {}
      BY <1>2, <1>13, <2>5
    <3>2. draft.user_request = Unset
      BY <1>5, <2>2, <2>5
    <3>3. Read(draft, list[m]) = [draft EXCEPT !.user_request = list[m].text]
      BY <2>2, <2>5, <3>2 DEF Read, o
    <3>4. DraftAt(list, s) =
            [error |-> "none", system |-> TextOf(list, t, "system"),
             user_request |-> list[m].text, documents |-> DocumentsAt(list, t)]
      BY <1>6, <1>7, <1>8, <1>9, <2>5, <3>1
    <3> QED
      BY <2>1, <3>3, <3>4 DEF draft, s
  <2>6. CASE o # "external" /\ Of(list, t, o) # {}
    <3>1. B = {m}
      BY <1>2, <1>13, <2>6
    <3>2. Min(B) = m
      BY <3>1 DEF Min
    <3>3. DraftAt(list, s) = Failed(Duplicate(list[m]))
      BY <1>9, <3>1, <3>2
    <3>4. CASE o = "system"
      <4>1. draft.system # Unset
        BY <1>5, <2>2, <2>6, <3>4
      <4>2. Read(draft, list[m]) = Failed("duplicate_system")
        BY <2>2, <3>4, <4>1 DEF Read, o
      <4> QED
        BY <3>3, <3>4, <4>2 DEF Duplicate, o, draft, s
    <3>5. CASE o = "user"
      <4>1. draft.user_request # Unset
        BY <1>5, <2>2, <2>6, <3>5
      <4>2. Read(draft, list[m]) = Failed("duplicate_user")
        BY <2>2, <3>5, <4>1 DEF Read, o
      <4> QED
        BY <3>3, <3>5, <4>2 DEF Duplicate, o, draft, s
    <3> QED
      BY <1>1, <2>6, <3>4, <3>5 DEF Origins
  <2> QED
    BY <1>1, <2>3, <2>4, <2>5, <2>6 DEF Origins
<1> QED
  BY <1>12, <1>13
\* No segment.
LEMMA DraftOfNothing ==
  ASSUME NEW list
  PROVE  DraftAt(list, {}) = EmptyDraft
<1>1. Again(list, {}) = {} /\ \A origin : Of(list, {}, origin) = {}
  BY DEF Again, Of
<1>2. TextOf(list, {}, "system") = Unset /\ TextOf(list, {}, "user") = Unset
  BY <1>1 DEF TextOf
<1>3. DocumentsAt(list, {}) = <<>>
  <2>1. DocumentsAt(list, {}) = [n \in 1 .. 0 |-> Document(list[Increasing({})[n]])]
    BY <1>1, FS_EmptySet DEF DocumentsAt
  <2>2. Listed(DocumentsAt(list, {})) /\ Len(DocumentsAt(list, {})) = 0
    BY <2>1, IsListed
  <2> QED
    BY <2>2, ListedIs
<1> QED
  BY <1>1, <1>2, <1>3 DEF DraftAt, EmptyDraft

\* The loop of compile computes the closed form.
LEMMA DraftIs ==
  ASSUME NEW n \in Nat, NEW list, DOMAIN list = 1 .. n, \A k \in 1 .. n : IsSegment(list[k])
  PROVE  FoldLeft(Read, EmptyDraft, list) = DraftAt(list, 1 .. n)
<1> DEFINE N == 1 .. n
           h == [s \in SUBSET N |-> DraftAt(list, s)]
<1>1. IsFiniteSet(N) /\ \A p \in N : p \in Int
  <2>1. IsFiniteSet(1 .. n)
    BY FS_Interval
  <2> QED
    BY <2>1
<1>2. ASSUME NEW s \in SUBSET N, s # {}
      PROVE  /\ Max(s) \in s /\ s \ {Max(s)} \in SUBSET N
             /\ h[s] = Read(h[s \ {Max(s)}], list[Max(s)])
  <2>1. IsFiniteSet(s) /\ \A p \in s : p \in Int
    BY <1>1, FS_Subset
  <2>2. Max(s) \in s /\ \A p \in s : Max(s) >= p
    BY <1>2, <2>1, MaxIs
  <2> DEFINE m == Max(s)
             t == s \ {m}
  <2>3. t \in SUBSET N /\ t \cup {m} = s /\ m \in Int
    BY <2>1, <2>2
  <2>4. IsFiniteSet(t)
    BY <2>1, FS_Subset
  <2>5. ASSUME NEW q \in t PROVE q \in Int /\ q < m
    <3>1. q \in Int /\ m \in Int /\ q # m /\ m >= q
      BY <2>1, <2>2
    <3> HIDE DEF m
    <3> QED
      BY <3>1
  <2>6. DraftAt(list, t \cup {m}) = Read(DraftAt(list, t), list[m])
    <3>1. \A k \in t \cup {m} : IsSegment(list[k])
      BY <2>3
    <3> HIDE DEF t, m
    <3> QED
      BY <2>3, <2>4, <2>5, <3>1, DraftMore
  <2>7. h[s] = DraftAt(list, s) /\ h[t] = DraftAt(list, t)
    BY <2>3
  <2> HIDE DEF h
  <2> QED
    BY <2>2, <2>3, <2>6, <2>7
<1>3. h[{}] = EmptyDraft
  BY DraftOfNothing
<1>4. IsDrafts(list, h)
  <2>1. \A s \in SUBSET N :
          DraftAt(list, s) = IF s = {} THEN EmptyDraft ELSE Read(h[s \ {Max(s)}], list[Max(s)])
    BY <1>2, <1>3, DraftOfNothing
  <2>2. h = [s \in SUBSET N |->
               IF s = {} THEN EmptyDraft ELSE Read(h[s \ {Max(s)}], list[Max(s)])]
    BY <2>1
  <2> HIDE DEF h
  <2> QED
    BY <2>2 DEF IsDrafts
<1> DEFINE g == CHOOSE x : IsDrafts(list, x)
<1>5. IsDrafts(list, g)
  BY <1>4
<1>6. \A s \in SUBSET N :
        g[s] = IF s = {} THEN EmptyDraft ELSE Read(g[s \ {Max(s)}], list[Max(s)])
  <2> HIDE DEF g
  <2> QED
    BY <1>5 DEF IsDrafts
<1>7. g[N] = h[N]
  <2> HIDE DEF g, h
  <2>1. g[{}] = h[{}]
    BY <1>3, <1>6
  <2>2. \A s \in SUBSET N : s # {} /\ g[s \ {Max(s)}] = h[s \ {Max(s)}] => g[s] = h[s]
    BY <1>2, <1>6
  <2> QED
    BY <2>1, <2>2, SameTable
<1>8. FoldLeft(Read, EmptyDraft, list) = g[N]
  BY DraftIsFold
<1> QED
  BY <1>7, <1>8

\* What is kept of a text is its beginning, and a cut is announced.
LEMMA BoundIs ==
  ASSUME NEW text \in Seq(Alphabet)
  PROVE  /\ IsPrefix(Bound(text).content, text)
         /\ Len(Bound(text).content) <= MaxDocumentChars
         /\ Bound(text).truncated <=> Bound(text).content # text
<1> DEFINE cut == SubSeq(text, 1, MaxDocumentChars)
<1>1. Len(text) \in Nat /\ MaxDocumentChars \in Nat /\ Listed(text)
  BY PromptAssumption DEF Listed
<1>2. CASE Len(text) > MaxDocumentChars
  <2>1. Listed(cut) /\ Len(cut) = MaxDocumentChars /\ \A k \in 1 .. Len(cut) : cut[k] = text[k]
    <3>1. MaxDocumentChars \in 0 .. Len(text)
      BY <1>1, <1>2
    <3> QED
      BY <1>1, <3>1, CutList
  <2>2. Bound(text).content = cut /\ Bound(text).truncated = TRUE
    BY <1>2 DEF Bound
  <2> HIDE DEF cut
  <2>3. Len(cut) <= Len(text) /\ cut # text
    BY <1>1, <1>2, <2>1
  <2>4. IsPrefix(cut, text)
    BY <1>1, <2>1, <2>3, PrefixIs
  <2> QED
    BY <1>1, <2>1, <2>2, <2>3, <2>4
<1>3. CASE ~(Len(text) > MaxDocumentChars)
  <2>1. Bound(text).content = text /\ ~Bound(text).truncated
    <3>1. Bound(text).content = text
      BY <1>3 DEF Bound
    <3>2. Bound(text).truncated <=> Len(text) > MaxDocumentChars
      BY DEF Bound
    <3> QED
      BY <1>3, <3>1, <3>2
  <2>2. IsPrefix(text, text)
    BY <1>1, PrefixIs
  <2> QED
    BY <1>1, <1>3, <2>1, <2>2
<1> QED
  BY <1>2, <1>3

\* Of every list of segments, however long, whatever its texts say and wherever
\* external contents stand: the instructions, or the error, are those of the
\* other segments alone, and the documents are the external contents, in their
\* order, with their provenance and verbatim, but for a cut that is announced
\* exactly when something is missing (compile of prompt.rs).
THEOREM ExternalContentsAreConfined == SpecMessage => []ExternalContentIsConfined
<1>1. ASSUME MessageTyped
      PROVE  ExternalContentIsConfined
  <2>1. PICK n \in Nat : DOMAIN segments = 1 .. n
    BY <1>1, SegmentsAre
  <2> DEFINE N == 1 .. n
             draft == DraftAt(segments, N)
             out == Compile(segments)
             outside == From("external")
             R == Again(segments, N)
  <2>2. \A k \in N : IsSegment(segments[k])
    BY <1>1, <2>1, SegmentsAre
  <2>3. out = Closed(draft)
    BY <2>1, <2>2, DraftIs DEF Compile
  <2>4. \A origin : Of(segments, N, origin) = From(origin)
    BY <2>1 DEF Of, From
  <2>5. Repeated = R
    <3>1. \A k \in N : 1 .. k - 1 = {j \in N : j < k}
      OBVIOUS
    <3> QED
      BY <2>1, <3>1 DEF Repeated, Again
  <2>6. \A origin : \A k \in From(origin) : k \in N /\ segments[k].origin = origin
                                            /\ segments[k].text \in Prose
                                            /\ segments[k].text # Unset
    BY <2>1, <2>2, MessageAssumption DEF From, IsSegment
  <2>7. draft = IF R # {} THEN Failed(Duplicate(segments[Min(R)]))
                ELSE [error |-> "none", system |-> TextOf(segments, N, "system"),
                      user_request |-> TextOf(segments, N, "user"),
                      documents |-> DocumentsAt(segments, N)]
    BY DEF DraftAt
  <2>8. ASSUME NEW origin, R = {}, origin # "external", NEW k \in From(origin)
        PROVE  TextOf(segments, N, origin) = segments[k].text
    <3> DEFINE c == Chosen(From(origin))
    <3>1. c \in From(origin)
      BY <2>8 DEF Chosen
    <3>2. TextOf(segments, N, origin) = segments[c].text
      BY <2>4, <2>8 DEF TextOf
    <3> HIDE DEF c
    <3>3. c \in N /\ k \in N /\ segments[c].origin = origin /\ segments[k].origin = origin
      BY <2>6, <2>8, <3>1
    <3>4. ~(c < k) /\ ~(k < c)
      BY <2>8, <3>3 DEF Again
    <3>5. c = k
      BY <3>3, <3>4
    <3> QED
      BY <3>2, <3>5
  <2>9. \A origin : From(origin) = {} <=> TextOf(segments, N, origin) = Unset
    <3> SUFFICES ASSUME NEW origin
                 PROVE  From(origin) = {} <=> TextOf(segments, N, origin) = Unset
      OBVIOUS
    <3>1. CASE From(origin) = {}
      BY <2>4, <3>1 DEF TextOf
    <3>2. CASE From(origin) # {}
      <4>1. Chosen(From(origin)) \in From(origin)
        BY <3>2 DEF Chosen
      <4> QED
        BY <2>4, <2>6, <3>2, <4>1 DEF TextOf
    <3> QED
      BY <3>1, <3>2
  <2> HIDE DEF draft, out, R, N
  <2>10. R # {} => out.error = Duplicate(segments[Min(R)])
    <3>1. SUFFICES ASSUME R # {} PROVE out.error = Duplicate(segments[Min(R)])
      OBVIOUS
    <3>2. draft = Failed(Duplicate(segments[Min(R)]))
      BY <2>7, <3>1
    <3>3. draft.error = Duplicate(segments[Min(R)]) /\ draft.error # "none"
      BY <3>2 DEF Failed, EmptyDraft, Duplicate
    <3> QED
      BY <2>3, <3>3 DEF Closed
  <2>11. ASSUME R = {}
         PROVE  /\ draft.error = "none" /\ draft.system = TextOf(segments, N, "system")
                /\ draft.user_request = TextOf(segments, N, "user")
                /\ draft.documents = DocumentsAt(segments, N)
    BY <2>7, <2>11
  <2>12. R = {} /\ From("system") = {} => out.error = "missing_system"
    <3>1. SUFFICES ASSUME R = {}, From("system") = {} PROVE out.error = "missing_system"
      OBVIOUS
    <3>2. draft.error = "none" /\ draft.system = Unset
      BY <2>9, <2>11, <3>1
    <3>3. out = Failed("missing_system")
      BY <2>3, <3>2 DEF Closed
    <3> QED
      BY <3>3 DEF Failed, EmptyDraft
  <2>13. R = {} /\ From("system") # {} /\ From("user") = {} => out.error = "missing_user"
    <3>1. SUFFICES ASSUME R = {}, From("system") # {}, From("user") = {}
                   PROVE  out.error = "missing_user"
      OBVIOUS
    <3>2. draft.error = "none" /\ draft.system # Unset /\ draft.user_request = Unset
      BY <2>9, <2>11, <3>1
    <3>3. out = Failed("missing_user")
      BY <2>3, <3>2 DEF Closed
    <3> QED
      BY <3>3 DEF Failed, EmptyDraft
  <2>14. R = {} /\ From("system") # {} /\ From("user") # {} => out = draft
    BY <2>3, <2>9, <2>11 DEF Closed
  <2>15. out.error = "none" => R = {} /\ From("system") # {} /\ From("user") # {}
    <3>1. R # {} => out.error # "none"
      BY <2>10 DEF Duplicate
    <3> QED
      BY <2>12, <2>13, <3>1
  <2>16. ASSUME R = {}, From("system") # {}, From("user") # {}
         PROVE  /\ out.error = "none" /\ out.documents = DocumentsAt(segments, N)
                /\ \A k \in From("system") : out.system = segments[k].text
                /\ \A k \in From("user") : out.user_request = segments[k].text
    BY <2>8, <2>11, <2>14, <2>16
  <2>17. IsFiniteSet(outside) /\ \A k \in outside : k \in Int
    <3>1. IsFiniteSet(N) /\ outside \in SUBSET N
      BY <2>6, FS_Interval DEF N
    <3>2. \A k \in N : k \in Int
      BY DEF N
    <3> HIDE DEF outside
    <3> QED
      BY <3>1, <3>2, FS_Subset
  <2>18. /\ Listed(DocumentsAt(segments, N))
         /\ Len(DocumentsAt(segments, N)) = Cardinality(outside)
         /\ \A k \in outside : DocumentsAt(segments, N)[Place(outside, k)] = Document(segments[k])
    <3> HIDE DEF outside
    <3>1. DocumentsAt(segments, N) =
            [i \in 1 .. Cardinality(outside) |-> Document(segments[Increasing(outside)[i]])]
      BY <2>4 DEF DocumentsAt, outside
    <3>2. Cardinality(outside) \in Nat
      BY <2>17, PlaceIs
    <3>3. Listed(DocumentsAt(segments, N)) /\ Len(DocumentsAt(segments, N)) = Cardinality(outside)
      BY <3>1, <3>2, IsListed
    <3>4. \A k \in outside : /\ Place(outside, k) \in 1 .. Cardinality(outside)
                             /\ Increasing(outside)[Place(outside, k)] = k
      BY <2>17, PlaceIs, IncreasingIs
    <3> QED
      BY <3>1, <3>3, <3>4
  <2>19. ASSUME NEW k \in outside
         PROVE  LET d == Document(segments[k]) IN
                /\ d.label = segments[k].label
                /\ IsPrefix(d.content, segments[k].text)
                /\ Len(d.content) <= MaxDocumentChars
                /\ d.truncated <=> d.content # segments[k].text
    <3>1. segments[k].text \in Seq(Alphabet)
      BY <2>6, MessageAssumption
    <3> QED
      BY <3>1, BoundIs DEF Document
  <2>20. \A k \in outside : Cardinality({j \in outside : j <= k}) = Place(outside, k)
    BY DEF Place, UpTo
  <2> DEFINE told(d, k) == /\ d.label = segments[k].label
                           /\ IsPrefix(d.content, segments[k].text)
                           /\ Len(d.content) <= MaxDocumentChars
                           /\ d.truncated <=> d.content # segments[k].text
  <2>21. out.error = "none" =>
           /\ Len(out.documents) = Cardinality(outside)
           /\ \A k \in outside : told(out.documents[Cardinality({j \in outside : j <= k})], k)
    <3>1. SUFFICES ASSUME out.error = "none"
                   PROVE  /\ Len(out.documents) = Cardinality(outside)
                          /\ \A k \in outside :
                               told(out.documents[Cardinality({j \in outside : j <= k})], k)
      OBVIOUS
    <3>2. out.documents = DocumentsAt(segments, N)
      BY <2>15, <2>16, <3>1
    <3>3. \A k \in outside : told(Document(segments[k]), k)
      BY <2>19
    <3> HIDE DEF told, outside
    <3> QED
      BY <2>18, <2>20, <3>2, <3>3
  <2>22. CASE R # {}
    <3>1. out.error = IF segments[Min(Repeated)].origin = "system"
                      THEN "duplicate_system" ELSE "duplicate_user"
      BY <2>5, <2>10, <2>22 DEF Duplicate
    <3> QED
      BY <2>5, <2>21, <2>22, <3>1 DEF ExternalContentIsConfined, out
  <2>23. CASE R = {}
    <3>1. \/ From("system") = {} /\ out.error = "missing_system"
          \/ From("system") # {} /\ From("user") = {} /\ out.error = "missing_user"
          \/ /\ From("system") # {} /\ From("user") # {}
             /\ out.error = "none"
             /\ \A k \in From("system") : out.system = segments[k].text
             /\ \A k \in From("user") : out.user_request = segments[k].text
      BY <2>12, <2>13, <2>16, <2>23
    <3> QED
      BY <2>5, <2>21, <2>23, <3>1 DEF ExternalContentIsConfined, out
  <2> QED
    BY <2>22, <2>23
<1> QED
  BY <1>1, MessageIsTyped, PTL

-----------------------------------------------------------------------------
(***************************************************************************)
(* What an audit entry is hashed from.  Lists joined                       *)
(***************************************************************************)
\* `s` and then `t`: all of one, then all of the other.
LEMMA Joined ==
  ASSUME NEW s, Listed(s), NEW t, Listed(t)
  PROVE  /\ Listed(s \o t) /\ Len(s \o t) = Len(s) + Len(t)
         /\ \A k \in 1 .. Len(s) : (s \o t)[k] = s[k]
         /\ \A k \in 1 .. Len(t) : (s \o t)[Len(s) + k] = t[k]
<1>1. PICK S : s \in Seq(S)
  BY DEF Listed
<1>2. PICK T : t \in Seq(T)
  BY DEF Listed
<1> DEFINE U == S \cup T
<1>3. s \in Seq(U) /\ t \in Seq(U)
  BY <1>1, <1>2, SeqMonotonic
<1> HIDE DEF U
<1>4. /\ s \o t \in Seq(U) /\ Len(s \o t) = Len(s) + Len(t)
      /\ \A k \in 1 .. Len(s) + Len(t) :
           (s \o t)[k] = IF k <= Len(s) THEN s[k] ELSE t[k - Len(s)]
  BY <1>3, ConcatProperties
<1>5. Len(s) \in Nat /\ Len(t) \in Nat
  BY ListedIs
<1>6. ASSUME NEW k \in 1 .. Len(s) PROVE (s \o t)[k] = s[k]
  BY <1>4, <1>5
<1>7. ASSUME NEW k \in 1 .. Len(t) PROVE (s \o t)[Len(s) + k] = t[k]
  <2>1. Len(s) + k \in 1 .. Len(s) + Len(t) /\ ~(Len(s) + k <= Len(s)) /\ Len(s) + k - Len(s) = k
    BY <1>5
  <2> QED
    BY <1>4, <2>1
<1> QED
  BY <1>4, <1>6, <1>7 DEF Listed

LEMMA JoinedEnd ==
  ASSUME NEW s, Listed(s), NEW t, Listed(t)
  PROVE  \A k \in 1 .. Len(t) : (s \o t)[Len(s) + k] = t[k]
BY Joined

\* Three lists may be joined from either end.
LEMMA JoinedTwice ==
  ASSUME NEW s, Listed(s), NEW t, Listed(t), NEW u, Listed(u)
  PROVE  (s \o t) \o u = s \o (t \o u)
<1>1. PICK S : s \in Seq(S)
  BY DEF Listed
<1>2. PICK T : t \in Seq(T)
  BY DEF Listed
<1>3. PICK U : u \in Seq(U)
  BY DEF Listed
<1> DEFINE V == S \cup T \cup U
<1>4. s \in Seq(V) /\ t \in Seq(V) /\ u \in Seq(V)
  BY <1>1, <1>2, <1>3, SeqMonotonic
<1> HIDE DEF V
<1> QED
  BY <1>4, ConcatAssociative

\* Equal beginnings of one length, and what follows them.
LEMMA SameParts ==
  ASSUME NEW s, Listed(s), NEW t, Listed(t), NEW u, Listed(u), NEW v, Listed(v),
         s \o u = t \o v, Len(s) = Len(t)
  PROVE  s = t /\ u = v
<1>1. Len(s) \in Nat /\ Len(u) \in Nat /\ Len(v) \in Nat
  BY ListedIs
<1>2. \A k \in 1 .. Len(s) : s[k] = (s \o u)[k] /\ t[k] = (t \o v)[k]
  BY Joined
<1>3. s = t
  BY <1>2, SameList
<1>4. Len(u) = Len(v)
  <2>1. Len(s \o u) = Len(s) + Len(u) /\ Len(t \o v) = Len(t) + Len(v)
    BY Joined
  <2> QED
    BY <1>1, <2>1
<1> DEFINE x == s \o u
           y == t \o v
           m == Len(s)
<1>5. \A k \in 1 .. Len(u) : x[m + k] = u[k]
  <2>1. \A k \in 1 .. Len(u) : (s \o u)[Len(s) + k] = u[k]
    BY JoinedEnd
  <2> QED
    BY <2>1
<1>6. \A k \in 1 .. Len(v) : y[m + k] = v[k]
  <2>1. \A k \in 1 .. Len(v) : (t \o v)[Len(t) + k] = v[k]
    BY JoinedEnd
  <2> QED
    BY <2>1
<1>7. u = v
  BY <1>4, <1>5, <1>6, SameList
<1> QED
  BY <1>3, <1>7

\* Equal ends of one length, and what is before them.
LEMMA SameEnds ==
  ASSUME NEW s, Listed(s), NEW t, Listed(t), NEW u, Listed(u), NEW v, Listed(v),
         s \o u = t \o v, Len(u) = Len(v)
  PROVE  s = t /\ u = v
<1>1. Len(s) \in Nat /\ Len(t) \in Nat /\ Len(u) \in Nat
  BY ListedIs
<1>2. Len(s \o u) = Len(s) + Len(u) /\ Len(t \o v) = Len(t) + Len(v)
  BY Joined
<1>3. Len(s) = Len(t)
  BY <1>1, <1>2
<1> QED
  BY <1>3, SameParts

LEMMA Single ==
  ASSUME NEW x
  PROVE  Listed(<<x>>) /\ Len(<<x>>) = 1 /\ <<x>>[1] = x
<1>1. <<x>> \in Seq({x})
  OBVIOUS
<1> QED
  BY <1>1 DEF Listed

-----------------------------------------------------------------------------
(***************************************************************************)
(* Texts: each character is read back from its own symbols, and no         *)
(* character is written as the end of a text.                              *)
(***************************************************************************)
Shorts == {"\\", "\"", "\n", "\r", "\t"}

\* What an escape says after its backslash.
Marks == {"\\", "\"", "n", "r", "t", "u"}

LEMMA Pair ==
  ASSUME NEW x, NEW y
  PROVE  /\ Listed(<<x, y>>) /\ Len(<<x, y>>) = 2
         /\ <<x, y>>[1] = x /\ <<x, y>>[2] = y
<1>1. <<x, y>> \in Seq({x, y})
  OBVIOUS
<1> QED
  BY <1>1 DEF Listed

\* An escape of two symbols.
LEMMA ShortIs ==
  ASSUME NEW c \in Shorts
  PROVE  c \notin DOMAIN Controls /\ \E m \in Marks \ {"u"} : Escaped(c) = <<"\\", m>>
<1>1. c \notin DOMAIN Controls
  BY EncodingAssumption DEF Shorts
<1>2. CASE c \in {"\\", "\""}
  <2>1. Escaped(c) = <<"\\", c>>
    BY <1>1, <1>2 DEF Escaped
  <2> QED
    BY <1>1, <1>2, <2>1 DEF Marks
<1>3. CASE c = "\n"
  <2>1. Escaped(c) = <<"\\", "n">>
    BY <1>1, <1>3 DEF Escaped
  <2> QED
    BY <1>1, <2>1 DEF Marks
<1>4. CASE c = "\r"
  <2>1. Escaped(c) = <<"\\", "r">>
    BY <1>1, <1>4 DEF Escaped
  <2> QED
    BY <1>1, <2>1 DEF Marks
<1>5. CASE c = "\t"
  <2>1. Escaped(c) = <<"\\", "t">>
    BY <1>1, <1>5 DEF Escaped
  <2> QED
    BY <1>1, <2>1 DEF Marks
<1> QED
  BY <1>2, <1>3, <1>4, <1>5 DEF Shorts

\* Two characters with a short escape have two escapes.
LEMMA ShortsDiffer ==
  ASSUME NEW c \in Shorts, NEW d \in Shorts, Escaped(c) = Escaped(d)
  PROVE  c = d
<1> DEFINE mark(x) == IF x = "\n" THEN "n" ELSE IF x = "\r" THEN "r" ELSE IF x = "\t" THEN "t" ELSE x
<1>1. ASSUME NEW x \in Shorts PROVE Escaped(x) = <<"\\", mark(x)>>
  <2>1. x \notin DOMAIN Controls
    BY EncodingAssumption DEF Shorts
  <2>2. CASE x \in {"\\", "\""}
    <3>1. Escaped(x) = <<"\\", x>>
      BY <2>1, <2>2 DEF Escaped
    <3>2. mark(x) = x
      BY <2>2
    <3> QED
      BY <3>1, <3>2
  <2>3. CASE x = "\n"
    BY <2>1, <2>3 DEF Escaped
  <2>4. CASE x = "\r"
    BY <2>1, <2>4 DEF Escaped
  <2>5. CASE x = "\t"
    BY <2>1, <2>5 DEF Escaped
  <2> QED
    BY <2>2, <2>3, <2>4, <2>5 DEF Shorts
<1>2. mark(c) = mark(d) => c = d
  <2>1. \A x \in Shorts : \/ x \in {"\\", "\""} /\ mark(x) = x
                          \/ x = "\n" /\ mark(x) = "n"
                          \/ x = "\r" /\ mark(x) = "r"
                          \/ x = "\t" /\ mark(x) = "t"
    BY DEF Shorts
  <2> HIDE DEF mark
  <2> QED
    BY <2>1
<1> HIDE DEF mark
<1>3. <<"\\", mark(c)>>[2] = mark(c) /\ <<"\\", mark(d)>>[2] = mark(d)
  BY Pair
<1>4. <<"\\", mark(c)>> = <<"\\", mark(d)>>
  BY <1>1
<1> QED
  BY <1>2, <1>3, <1>4

\* An escape of six symbols.
Prefix == <<"\\", "u", "0", "0">>

LEMMA PrefixOfControls ==
  /\ Listed(Prefix) /\ Len(Prefix) = 4 /\ Prefix[1] = "\\" /\ Prefix[2] = "u"
<1>1. Prefix \in Seq({"\\", "u", "0"}) /\ Len(Prefix) = 4 /\ Prefix[1] = "\\" /\ Prefix[2] = "u"
  BY DEF Prefix
<1> QED
  BY <1>1 DEF Listed

LEMMA ControlIs ==
  ASSUME NEW c \in DOMAIN Controls
  PROVE  /\ Escaped(c) = Prefix \o HexDigits(Controls[c]) /\ Listed(HexDigits(Controls[c]))
         /\ Listed(Escaped(c)) /\ Len(Escaped(c)) = 6
         /\ Escaped(c)[1] = "\\" /\ Escaped(c)[2] = "u"
<1> DEFINE h == HexDigits(Controls[c])
<1>1. c \notin Shorts
  BY EncodingAssumption DEF Shorts
<1>2. Escaped(c) = Prefix \o h
  <2> HIDE DEF h
  <2>1. Escaped(c) = <<"\\", "u", "0", "0">> \o HexDigits(Controls[c])
    BY <1>1 DEF Escaped, Shorts
  <2> QED
    BY <2>1 DEF Prefix, h
<1>3. Listed(h) /\ Len(h) = 2
  BY Pair DEF HexDigits
<1> HIDE DEF h
<1>4. /\ Listed(Prefix \o h) /\ Len(Prefix \o h) = Len(Prefix) + Len(h)
      /\ \A k \in 1 .. Len(Prefix) : (Prefix \o h)[k] = Prefix[k]
  BY <1>3, PrefixOfControls, Joined
<1>5. Len(Prefix \o h) = 6 /\ (Prefix \o h)[1] = "\\" /\ (Prefix \o h)[2] = "u"
  BY <1>3, <1>4, PrefixOfControls
<1> QED
  BY <1>2, <1>3, <1>4, <1>5 DEF h

LEMMA DigitsDiffer ==
  \A p \in 1 .. 16 : \A q \in 1 .. 16 : Digits[p] = Digits[q] => p = q
<1>1. /\ Digits[1] = "0" /\ Digits[2] = "1" /\ Digits[3] = "2" /\ Digits[4] = "3"
      /\ Digits[5] = "4" /\ Digits[6] = "5" /\ Digits[7] = "6" /\ Digits[8] = "7"
      /\ Digits[9] = "8" /\ Digits[10] = "9" /\ Digits[11] = "a" /\ Digits[12] = "b"
      /\ Digits[13] = "c" /\ Digits[14] = "d" /\ Digits[15] = "e" /\ Digits[16] = "f"
  BY DEF Digits
<1> DEFINE code(p) == Digits[p]
<1>2. ASSUME NEW p \in 1 .. 16, NEW q \in 1 .. 16, Digits[p] = Digits[q] PROVE p = q
  <2>1. p \in {1, 2, 3, 4, 5, 6, 7, 8, 9, 10, 11, 12, 13, 14, 15, 16}
    OBVIOUS
  <2>2. q \in {1, 2, 3, 4, 5, 6, 7, 8, 9, 10, 11, 12, 13, 14, 15, 16}
    OBVIOUS
  <2> QED
    BY <1>1, <1>2, <2>1, <2>2
<1> QED
  BY <1>2

\* Two controls have two codes, and two codes two pairs of digits.
LEMMA ControlsDiffer ==
  ASSUME NEW c \in DOMAIN Controls, NEW d \in DOMAIN Controls, Escaped(c) = Escaped(d)
  PROVE  c = d
<1> DEFINE i == Controls[c]
           j == Controls[d]
<1>1. HexDigits(i) = HexDigits(j)
  <2> HIDE DEF i, j
  <2>1. /\ Escaped(c) = Prefix \o HexDigits(i) /\ Listed(HexDigits(i))
        /\ Escaped(d) = Prefix \o HexDigits(j) /\ Listed(HexDigits(j))
    BY ControlIs DEF i, j
  <2> QED
    BY <2>1, PrefixOfControls, SameParts
<1>2. Controls \in [DOMAIN Controls -> 0 .. 31] /\ IsInjective(Controls)
  BY EncodingAssumption DEF Injection
<1>3. i \in 0 .. 31 /\ j \in 0 .. 31
  BY <1>2
<1> HIDE DEF i, j
<1>4. Digits[(i \div 16) + 1] = Digits[(j \div 16) + 1] /\ Digits[(i % 16) + 1] = Digits[(j % 16) + 1]
  <2> DEFINE f(n) == Digits[(n \div 16) + 1]
             g(n) == Digits[(n % 16) + 1]
  <2>1. <<f(i), g(i)>> = <<f(j), g(j)>>
    BY <1>1 DEF HexDigits
  <2> HIDE DEF f, g
  <2>2. f(i) = f(j) /\ g(i) = g(j)
    BY <2>1, Pair
  <2> QED
    BY <2>2 DEF f, g
<1>5. \A p \in 1 .. 16 : \A q \in 1 .. 16 : Digits[p] = Digits[q] => p = q
  BY DigitsDiffer
<1>6. \A n \in 0 .. 31 : /\ (n \div 16) + 1 \in 1 .. 16 /\ (n % 16) + 1 \in 1 .. 16
                         /\ n = 16 * (n \div 16) + (n % 16)
  OBVIOUS
<1>7. i \div 16 = j \div 16 /\ i % 16 = j % 16
  <2>1. (i \div 16) + 1 = (j \div 16) + 1 /\ (i % 16) + 1 = (j % 16) + 1
    BY <1>3, <1>4, <1>5, <1>6
  <2> QED
    BY <1>3, <2>1
<1>8. i = j
  BY <1>3, <1>6, <1>7
<1> QED
  BY <1>2, <1>8 DEF IsInjective, i, j

\* A character is written short, as a control, or as it is.
LEMMA EscapedIs ==
  ASSUME NEW c
  PROVE  /\ Listed(Escaped(c)) /\ Len(Escaped(c)) >= 1 /\ Escaped(c)[1] # "\""
         /\ \/ c \in Shorts /\ Len(Escaped(c)) = 2
               /\ Escaped(c)[1] = "\\" /\ Escaped(c)[2] # "u"
            \/ c \in DOMAIN Controls /\ Len(Escaped(c)) = 6
               /\ Escaped(c)[1] = "\\" /\ Escaped(c)[2] = "u"
            \/ Len(Escaped(c)) = 1 /\ Escaped(c)[1] = c /\ c # "\\"
<1>1. CASE c \in Shorts
  <2>1. PICK m \in Marks \ {"u"} : Escaped(c) = <<"\\", m>>
    BY <1>1, ShortIs
  <2>2. Listed(<<"\\", m>>) /\ Len(<<"\\", m>>) = 2 /\ <<"\\", m>>[1] = "\\" /\ <<"\\", m>>[2] = m
    BY Pair
  <2> QED
    BY <1>1, <2>1, <2>2
<1>2. CASE c \in DOMAIN Controls
  <2>1. /\ Listed(Escaped(c)) /\ Len(Escaped(c)) = 6
        /\ Escaped(c)[1] = "\\" /\ Escaped(c)[2] = "u"
    BY <1>2, ControlIs
  <2> QED
    BY <1>2, <2>1
<1>3. CASE c \notin Shorts \cup DOMAIN Controls
  <2>1. Escaped(c) = <<c>>
    BY <1>3 DEF Escaped, Shorts
  <2>2. c # "\\" /\ c # "\""
    BY <1>3 DEF Shorts
  <2>3. Listed(<<c>>) /\ Len(<<c>>) = 1 /\ <<c>>[1] = c
    BY Single
  <2> DEFINE e == Escaped(c)
  <2>4. Listed(e) /\ Len(e) = 1 /\ e[1] = c
    BY <2>1, <2>3
  <2> HIDE DEF e
  <2>5. Len(e) >= 1
    BY <2>4
  <2>6. e[1] # "\""
    BY <2>2, <2>4, Zenon
  <2> QED
    BY <2>2, <2>4, <2>5, <2>6, Zenon DEF e
<1> QED
  BY <1>1, <1>2, <1>3

\* The symbols of w are in x, after the first o ones.
Reads(x, o, w) == \A p \in 1 .. Len(w) : x[o + p] = w[p]

\* What is written somewhere is the escape of one character at most.
LEMMA OneCharacter ==
  ASSUME NEW c, NEW d, NEW x, NEW o \in Nat,
         Reads(x, o, Escaped(c)), Reads(x, o, Escaped(d))
  PROVE  c = d
<1> DEFINE e == Escaped(c)
           f == Escaped(d)
<1>0. /\ \A p \in 1 .. Len(e) : x[o + p] = e[p]
      /\ \A p \in 1 .. Len(f) : x[o + p] = f[p]
  BY DEF Reads
<1>1. /\ Listed(e) /\ Len(e) \in Nat /\ Len(e) >= 1
      /\ Listed(f) /\ Len(f) \in Nat /\ Len(f) >= 1
  BY EscapedIs, ListedIs
<1>2. e[1] = f[1]
  <2>1. 1 \in 1 .. Len(e) /\ 1 \in 1 .. Len(f)
    BY <1>1
  <2> HIDE DEF e, f
  <2> QED
    BY <1>0, <2>1
<1>3. Len(e) >= 2 /\ Len(f) >= 2 => e[2] = f[2]
  <2>1. Len(e) >= 2 /\ Len(f) >= 2 => 2 \in 1 .. Len(e) /\ 2 \in 1 .. Len(f)
    BY <1>1
  <2> HIDE DEF e, f
  <2> QED
    BY <1>0, <2>1
<1>4. Len(e) = Len(f) => e = f
  <2>1. Len(e) = Len(f) => \A k \in 1 .. Len(e) : e[k] = f[k]
    BY <1>0
  <2> HIDE DEF e, f
  <2> QED
    BY <1>1, <2>1, SameList
<1>5. /\ \/ c \in Shorts /\ Len(e) = 2 /\ e[1] = "\\" /\ e[2] # "u"
         \/ c \in DOMAIN Controls /\ Len(e) = 6 /\ e[1] = "\\" /\ e[2] = "u"
         \/ Len(e) = 1 /\ e[1] = c /\ c # "\\"
      /\ \/ d \in Shorts /\ Len(f) = 2 /\ f[1] = "\\" /\ f[2] # "u"
         \/ d \in DOMAIN Controls /\ Len(f) = 6 /\ f[1] = "\\" /\ f[2] = "u"
         \/ Len(f) = 1 /\ f[1] = d /\ d # "\\"
  BY EscapedIs
<1>6. \/ c \in Shorts /\ d \in Shorts /\ e = f
      \/ c \in DOMAIN Controls /\ d \in DOMAIN Controls /\ e = f
      \/ c = d
  <2> HIDE DEF e, f
  <2> QED
    BY <1>2, <1>3, <1>4, <1>5
<1> QED
  BY <1>6, ShortsDiffer, ControlsDiffer

-----------------------------------------------------------------------------
(***************************************************************************)
(* FlattenSeq, from one part to the next                                   *)
(***************************************************************************)
Flat(g, q, i) == IF i = 1 THEN q[i] ELSE g[i - 1] \o q[i]

IsFlat(g, q, n) == g = [i \in 1 .. n |-> Flat(g, q, i)]

LEMMA FlattenIs ==
  ASSUME NEW q
  PROVE  FlattenSeq(q) = IF Len(q) = 0 THEN q
                         ELSE (CHOOSE g : IsFlat(g, q, Len(q)))[Len(q)]
BY DEF FlattenSeq, IsFlat, Flat

LEMMA FlatExists ==
  ASSUME NEW q, NEW n \in Nat
  PROVE  \E g : IsFlat(g, q, n)
<1> DEFINE B == {m \in 0 .. n : ~ \E g : IsFlat(g, q, m)}
<1>1. SUFFICES ASSUME B # {} PROVE FALSE
  OBVIOUS
<1>2. PICK b \in B : \A k \in B : b <= k
  <2>1. B \in SUBSET (0 .. n)
    OBVIOUS
  <2> HIDE DEF B
  <2> QED
    BY <1>1, <2>1, LeastPosition
<1>3. b \in 0 .. n /\ ~ \E g : IsFlat(g, q, b)
  OBVIOUS
<1>4. CASE b = 0
  <2> DEFINE g == [i \in 1 .. 0 |-> <<>>]
  <2>1. g = [i \in 1 .. 0 |-> Flat(g, q, i)]
    OBVIOUS
  <2> HIDE DEF g
  <2>2. IsFlat(g, q, 0)
    BY <2>1 DEF IsFlat
  <2> QED
    BY <1>3, <1>4, <2>2
<1>5. CASE b # 0
  <2>1. b - 1 \in 0 .. n /\ ~(b <= b - 1)
    BY <1>3, <1>5
  <2>2. PICK g : IsFlat(g, q, b - 1)
    BY <1>2, <2>1
  <2> DEFINE h == [i \in 1 .. b |-> Flat(g, q, i)]
  <2>3. \A i \in 1 .. b - 1 : g[i] = Flat(g, q, i)
    BY <2>2 DEF IsFlat
  <2>4. \A i \in 1 .. b - 1 : h[i] = g[i]
    BY <1>3, <2>3
  <2>5. ASSUME NEW i \in 1 .. b PROVE Flat(h, q, i) = Flat(g, q, i)
    <3>1. i # 1 => i - 1 \in 1 .. b - 1
      BY <1>3
    <3>2. i # 1 => h[i - 1] = g[i - 1]
      BY <2>4, <3>1
    <3> HIDE DEF h
    <3> QED
      BY <3>2 DEF Flat
  <2>6. h = [i \in 1 .. b |-> Flat(h, q, i)]
    BY <2>5
  <2> HIDE DEF h
  <2>7. IsFlat(h, q, b)
    BY <2>6 DEF IsFlat
  <2> QED
    BY <1>3, <2>7
<1> QED
  BY <1>4, <1>5

\* The beginnings f of q flattened: f[k] is what its first k parts make.
Beginnings(f, q) ==
  /\ f[0] = <<>>
  /\ \A k \in 0 .. Len(q) : Listed(f[k])
  /\ \A k \in 1 .. Len(q) : f[k] = f[k - 1] \o q[k]
  /\ FlattenSeq(q) = f[Len(q)]

LEMMA BeginningsExist ==
  ASSUME NEW q, Listed(q), \A k \in 1 .. Len(q) : Listed(q[k])
  PROVE  \E f : Beginnings(f, q)
<1> DEFINE n == Len(q)
           g == CHOOSE g : IsFlat(g, q, n)
           f == [k \in 0 .. n |-> IF k = 0 THEN <<>> ELSE g[k]]
<1>1. n \in Nat
  BY ListedIs
<1>2. \A k \in 1 .. n : g[k] = Flat(g, q, k)
  <2>1. IsFlat(g, q, n)
    BY <1>1, FlatExists
  <2> HIDE DEF g, n
  <2> QED
    BY <2>1 DEF IsFlat
<1> HIDE DEF g
<1>3. Listed(<<>>) /\ Len(<<>>) = 0
  BY EmptySeq DEF Listed
<1>4. f[0] = <<>>
  BY <1>1
<1>5. \A k \in 1 .. n : f[k] = f[k - 1] \o q[k]
  <2> TAKE k \in 1 .. n
  <2>1. f[k] = g[k] /\ k - 1 \in 0 .. n
    BY <1>1
  <2>2. CASE k = 1
    <3>1. g[k] = q[k] /\ f[k - 1] = <<>>
      BY <1>2, <1>4, <2>2 DEF Flat
    <3>2. Listed(q[k])
      OBVIOUS
    <3>3. <<>> \o q[k] = q[k]
      BY <3>2, ConcatEmptySeq DEF Listed
    <3> QED
      BY <2>1, <3>1, <3>3
  <2>3. CASE k # 1
    <3>1. g[k] = g[k - 1] \o q[k]
      BY <1>2, <2>3 DEF Flat
    <3>2. f[k - 1] = g[k - 1]
      BY <1>1, <2>1, <2>3
    <3> QED
      BY <2>1, <3>1, <3>2
  <2> QED
    BY <2>2, <2>3
<1>6. FlattenSeq(q) = f[n]
  <2>1. CASE n = 0
    <3>1. q = <<>>
      BY <2>1, ListedIs
    <3> QED
      BY <1>4, <2>1, <3>1, FlattenIs
  <2>2. CASE n # 0
    <3>1. f[n] = g[n]
      BY <1>1, <2>2
    <3> QED
      BY <2>2, <3>1, FlattenIs DEF g
  <2> QED
    BY <2>1, <2>2
<1>7. \A k \in 0 .. n : Listed(f[k])
  <2> DEFINE B == {k \in 0 .. n : ~Listed(f[k])}
  <2>1. SUFFICES ASSUME B # {} PROVE FALSE
    OBVIOUS
  <2> HIDE DEF f
  <2>2. PICK b \in B : \A k \in B : b <= k
    <3>1. B \in SUBSET (0 .. n)
      OBVIOUS
    <3> HIDE DEF B, n
    <3> QED
      BY <1>1, <2>1, <3>1, LeastPosition
  <2>3. b \in 0 .. n /\ ~Listed(f[b]) /\ b # 0
    BY <1>3, <1>4
  <2>4. b \in 1 .. n /\ b - 1 \in 0 .. n /\ ~(b <= b - 1)
    BY <1>1, <2>3
  <2>5. Listed(f[b - 1]) /\ Listed(q[b])
    BY <2>2, <2>4
  <2>6. f[b] = f[b - 1] \o q[b]
    BY <1>5, <2>4
  <2> QED
    BY <2>3, <2>5, <2>6, Joined
<1> HIDE DEF f
<1>8. Beginnings(f, q)
  BY <1>4, <1>5, <1>6, <1>7 DEF Beginnings
<1> QED
  BY <1>8

\* The beginnings begin one another.
LEMMA BeginningsBegin ==
  ASSUME NEW q, Listed(q), \A k \in 1 .. Len(q) : Listed(q[k]), NEW f, Beginnings(f, q),
         NEW k \in 0 .. Len(q)
  PROVE  /\ Len(f[k]) <= Len(f[Len(q)])
         /\ \A p \in 1 .. Len(f[k]) : f[Len(q)][p] = f[k][p]
<1> DEFINE n == Len(q)
           Begins(s, t) == Len(s) <= Len(t) /\ \A p \in 1 .. Len(s) : t[p] = s[p]
           B == {m \in 0 .. n : ~Begins(f[n - m], f[n])}
<1>1. n \in Nat
  BY ListedIs
<1>2. \A j \in 0 .. n : Listed(f[j]) /\ Len(f[j]) \in Nat
  BY ListedIs DEF Beginnings
<1>3. ASSUME B # {} PROVE FALSE
  <2>1. PICK b \in B : \A j \in B : b <= j
    <3>1. B \in SUBSET (0 .. n)
      OBVIOUS
    <3> HIDE DEF B, n
    <3> QED
      BY <1>1, <1>3, <3>1, LeastPosition
  <2>2. b \in 0 .. n /\ ~Begins(f[n - b], f[n])
    OBVIOUS
  <2>3. b # 0
    BY <1>1, <1>2, <2>2
  <2> DEFINE i == n - b
  <2>4. b - 1 \in 0 .. n /\ ~(b <= b - 1) /\ n - (b - 1) = i + 1 /\ i \in 0 .. n /\ i + 1 \in 1 .. n
    BY <1>1, <2>2, <2>3
  <2>5. Begins(f[i + 1], f[n])
    <3>1. b - 1 \notin B
      BY <2>1, <2>4
    <3> HIDE DEF i, Begins
    <3> QED
      BY <2>4, <3>1
  <2>6. f[i + 1] = f[i] \o q[i + 1]
    <3>1. i + 1 - 1 = i
      BY <2>4
    <3>2. \A j \in 1 .. n : f[j] = f[j - 1] \o q[j]
      BY DEF Beginnings
    <3>3. PICK j \in 1 .. n : j = i + 1 /\ j - 1 = i
      BY <2>4, <3>1
    <3> HIDE DEF i, n
    <3>4. f[j] = f[j - 1] \o q[j]
      BY <3>2
    <3> QED
      BY <3>3, <3>4
  <2>7. Listed(f[i]) /\ Listed(q[i + 1])
    BY <1>2, <2>4
  <2> HIDE DEF i, n
  <2>8. Len(q[i + 1]) \in Nat
    BY <2>7, ListedIs
  <2>9. /\ Len(f[i + 1]) = Len(f[i]) + Len(q[i + 1])
        /\ \A p \in 1 .. Len(f[i]) : f[i + 1][p] = f[i][p]
    <3>1. /\ Len(f[i] \o q[i + 1]) = Len(f[i]) + Len(q[i + 1])
          /\ \A p \in 1 .. Len(f[i]) : (f[i] \o q[i + 1])[p] = f[i][p]
      BY <2>7, Joined
    <3> QED
      BY <2>6, <3>1
  <2>10. Len(f[i]) \in Nat /\ Len(f[i + 1]) \in Nat /\ Len(f[n]) \in Nat
    <3>1. n \in 0 .. n /\ i + 1 \in 0 .. n
      BY <1>1, <2>4
    <3> QED
      BY <1>2, <2>4, <3>1
  <2>11. Begins(f[i], f[n])
    <3>0. Len(f[i + 1]) <= Len(f[n]) /\ \A p \in 1 .. Len(f[i + 1]) : f[n][p] = f[i + 1][p]
      BY <2>5
    <3>1. Len(f[i]) <= Len(f[i + 1]) /\ Len(f[i]) <= Len(f[n])
      <4>2. Len(f[i + 1]) = Len(f[i]) + Len(q[i + 1]) /\ Len(f[i + 1]) <= Len(f[n])
        BY <2>9, <3>0
      <4> QED
        <5> DEFINE x == Len(f[i])
                   y == Len(f[i + 1])
                   z == Len(f[n])
                   w == Len(q[i + 1])
        <5>1. x \in Nat /\ y \in Nat /\ z \in Nat /\ w \in Nat /\ y = x + w /\ y <= z
          BY <2>8, <2>10, <4>2
        <5> HIDE DEF x, y, z, w
        <5>2. x <= y /\ x <= z
          BY <5>1
        <5> QED
          BY <5>2 DEF x, y, z, w
    <3>2. ASSUME NEW p \in 1 .. Len(f[i]) PROVE f[n][p] = f[i][p]
      <4>1. p \in 1 .. Len(f[i + 1])
        BY <2>10, <3>1
      <4>2. f[n][p] = f[i + 1][p]
        BY <3>0, <4>1
      <4> QED
        BY <2>9, <4>2
    <3> QED
      BY <2>10, <3>1, <3>2
  <2> QED
    BY <2>2, <2>11 DEF i
<1>4. n - k \in 0 .. n /\ n - (n - k) = k
  BY <1>1
<1>5. Begins(f[n - (n - k)], f[n])
  BY <1>3, <1>4
<1> HIDE DEF Begins
<1>6. Begins(f[k], f[n])
  BY <1>4, <1>5
<1> QED
  BY <1>6 DEF Begins
-----------------------------------------------------------------------------
(***************************************************************************)
(* What a text is written as                                               *)
(***************************************************************************)
Quote == "\""

Codes(a) == [k \in DOMAIN a |-> Escaped(a[k])]

LEMMA CodesAre ==
  ASSUME NEW a, Listed(a)
  PROVE  /\ Listed(Codes(a)) /\ Len(Codes(a)) = Len(a)
         /\ \A k \in 1 .. Len(a) : Codes(a)[k] = Escaped(a[k]) /\ Listed(Codes(a)[k])
<1>1. Len(a) \in Nat /\ DOMAIN a = 1 .. Len(a)
  BY ListedIs
<1>2. Codes(a) = [k \in 1 .. Len(a) |-> Escaped(a[k])]
  BY <1>1 DEF Codes
<1>3. DOMAIN Codes(a) = 1 .. Len(a) /\ \A k \in 1 .. Len(a) : Codes(a)[k] = Escaped(a[k])
  BY <1>2
<1>4. Codes(a) = [k \in 1 .. Len(a) |-> Codes(a)[k]]
  BY <1>2, <1>3
<1>5. Listed(Codes(a)) /\ Len(Codes(a)) = Len(a)
  BY <1>1, <1>3, <1>4, IsListed
<1>6. ASSUME NEW k \in 1 .. Len(a) PROVE Listed(Codes(a)[k])
  BY <1>3, EscapedIs
<1> QED
  BY <1>3, <1>5, <1>6

LEMMA JoinedOne ==
  ASSUME NEW s, Listed(s), NEW z
  PROVE  /\ Listed(s \o <<z>>) /\ Len(s \o <<z>>) = Len(s) + 1
         /\ \A p \in 1 .. Len(s) : (s \o <<z>>)[p] = s[p]
         /\ (s \o <<z>>)[Len(s) + 1] = z
<1> DEFINE t == <<z>>
<1>0. Listed(t)
  BY Single
<1>1. Len(t) = 1 /\ t[1] = z
  BY Single
<1> HIDE DEF t
<1>2. /\ Listed(s \o t) /\ Len(s \o t) = Len(s) + Len(t)
      /\ \A p \in 1 .. Len(s) : (s \o t)[p] = s[p]
      /\ \A p \in 1 .. Len(t) : (s \o t)[Len(s) + p] = t[p]
  BY <1>0, Joined
<1>3. (s \o t)[Len(s) + 1] = z
  <2>1. 1 \in 1 .. Len(t)
    BY <1>1
  <2> QED
    BY <1>1, <1>2, <2>1
<1>4. Len(s \o t) = Len(s) + 1
  BY <1>1, <1>2
<1> QED
  BY <1>2, <1>3, <1>4 DEF t

\* Where the symbols of the text a are in x: f[k] is what its first k characters
\* are written as.
Held(x, a, f) ==
  /\ f[0] = <<>>
  /\ \A k \in 1 .. Len(a) : f[k] = f[k - 1] \o Escaped(a[k])
  /\ \A k \in 0 .. Len(a) : Len(f[k]) \in Nat
  /\ \A k \in 1 .. Len(a) : Reads(x, 1 + Len(f[k - 1]), Escaped(a[k]))
  /\ x[1 + Len(f[Len(a)]) + 1] = Quote

LEMMA TextHolds ==
  ASSUME NEW a, Listed(a), NEW u, Listed(u), NEW f, Beginnings(f, Codes(a))
  PROVE  /\ Listed(EncodeText(a)) /\ Len(EncodeText(a)) = Len(f[Len(a)]) + 2
         /\ Held(EncodeText(a) \o u, a, f)
<1> DEFINE x == EncodeText(a) \o u
           n == Len(a)
           q == Codes(a)
           s == <<Quote>> \o f[n]
           e == EncodeText(a)
<1>1. n \in Nat
  BY ListedIs
<1>2. Listed(q) /\ Len(q) = n /\ \A k \in 1 .. n : q[k] = Escaped(a[k]) /\ Listed(q[k])
  BY CodesAre
<1>3. /\ \A k \in 0 .. n : Listed(f[k]) /\ Len(f[k]) \in Nat
      /\ \A k \in 1 .. n : f[k] = f[k - 1] \o Escaped(a[k])
      /\ FlattenSeq(q) = f[n]
  <2>1. /\ \A k \in 0 .. n : Listed(f[k])
        /\ \A k \in 1 .. n : f[k] = f[k - 1] \o q[k]
        /\ FlattenSeq(q) = f[n]
    BY <1>2 DEF Beginnings
  <2> HIDE DEF q, n
  <2> QED
    BY <1>2, <2>1, ListedIs
<1>4. e = s \o <<Quote>>
  <2>1. EncodeText(a) = <<"\"">> \o FlattenSeq(q) \o <<"\"">>
    BY DEF EncodeText, Codes
  <2> HIDE DEF q
  <2> QED
    BY <1>3, <2>1 DEF Quote
<1>5. Listed(f[n]) /\ Len(f[n]) \in Nat
  BY <1>1, <1>3
<1> HIDE DEF q, n, e
<1>6. /\ Listed(s) /\ Len(s) = 1 + Len(f[n])
      /\ \A p \in 1 .. Len(f[n]) : s[1 + p] = f[n][p]
  <2>1. Listed(<<Quote>>) /\ Len(<<Quote>>) = 1
    BY Single
  <2> HIDE DEF s
  <2>2. /\ Listed(<<Quote>> \o f[n]) /\ Len(<<Quote>> \o f[n]) = Len(<<Quote>>) + Len(f[n])
        /\ \A p \in 1 .. Len(f[n]) : (<<Quote>> \o f[n])[Len(<<Quote>>) + p] = f[n][p]
    BY <1>5, <2>1, Joined
  <2> QED
    BY <2>1, <2>2 DEF s
<1> HIDE DEF s
<1>7. /\ Listed(e) /\ Len(e) = Len(f[n]) + 2
      /\ \A p \in 1 .. Len(s) : e[p] = s[p]
      /\ e[Len(s) + 1] = Quote
  <2>1. /\ Listed(s \o <<Quote>>) /\ Len(s \o <<Quote>>) = Len(s) + 1
        /\ \A p \in 1 .. Len(s) : (s \o <<Quote>>)[p] = s[p]
        /\ (s \o <<Quote>>)[Len(s) + 1] = Quote
    BY <1>6, JoinedOne
  <2>2. Len(s \o <<Quote>>) = Len(f[n]) + 2
    BY <1>5, <1>6, <2>1
  <2> QED
    BY <1>4, <2>1, <2>2
<1>8. \A p \in 1 .. Len(e) : x[p] = e[p]
  BY <1>7, Joined DEF e
<1> HIDE DEF x
<1>9. x[1 + Len(f[n]) + 1] = Quote
  <2>1. 1 + Len(f[n]) + 1 \in 1 .. Len(e) /\ 1 + Len(f[n]) + 1 = Len(s) + 1
    BY <1>5, <1>6, <1>7
  <2> QED
    BY <1>7, <1>8, <2>1
<1>10. ASSUME NEW k \in 1 .. n, NEW p \in 1 .. Len(Escaped(a[k]))
       PROVE  x[1 + Len(f[k - 1]) + p] = Escaped(a[k])[p]
  <2> DEFINE c == Escaped(a[k])
             l == Len(f[k - 1])
  <2>1. k \in 0 .. n /\ k - 1 \in 0 .. n
    BY <1>1
  <2>2. Listed(c) /\ Len(c) \in Nat
    BY EscapedIs, ListedIs
  <2>3. Listed(f[k - 1]) /\ l \in Nat /\ f[k] = f[k - 1] \o c
    BY <1>3, <2>1
  <2>4. Len(f[k]) = l + Len(c) /\ f[k][l + p] = c[p]
    <3> DEFINE r == f[k - 1]
    <3>0. p \in 1 .. Len(c) /\ Listed(r) /\ l = Len(r) /\ f[k] = r \o c
      BY <2>3
    <3> HIDE DEF r, c, l
    <3>1. Len(r \o c) = Len(r) + Len(c) /\ (r \o c)[Len(r) + p] = c[p]
      BY <2>2, <3>0, Joined
    <3> QED
      BY <3>0, <3>1
  <2>5. Len(f[k]) <= Len(f[n]) /\ \A j \in 1 .. Len(f[k]) : f[n][j] = f[k][j]
    BY <1>2, <2>1, BeginningsBegin DEF q
  <2> HIDE DEF c, l
  <2>6. p \in 1 .. Len(c)
    BY DEF c
  <2>7. l + p \in 1 .. Len(f[k]) /\ l + p \in 1 .. Len(f[n])
    BY <1>5, <2>2, <2>3, <2>4, <2>5, <2>6
  <2>8. f[n][l + p] = c[p]
    BY <2>4, <2>5, <2>7
  <2>9. s[1 + (l + p)] = c[p]
    BY <1>6, <2>7, <2>8
  <2>10. 1 + (l + p) \in 1 .. Len(s) /\ 1 + (l + p) \in 1 .. Len(e) /\ 1 + (l + p) = 1 + l + p
    BY <1>5, <1>6, <1>7, <2>3, <2>6, <2>7
  <2>11. x[1 + (l + p)] = c[p]
    BY <1>7, <1>8, <2>9, <2>10
  <2> QED
    BY <2>10, <2>11 DEF c, l
<1>11. f[0] = <<>>
  BY DEF Beginnings
<1> QED
  BY <1>3, <1>7, <1>9, <1>10, <1>11 DEF x, n, e, Held, Reads

\* Two texts in the same symbols go on alike as long as both go on.
LEMMA TextsAgree ==
  ASSUME NEW a, Listed(a), NEW b, Listed(b), NEW x, NEW f, NEW g,
         Held(x, a, f), Held(x, b, g),
         NEW k \in 0 .. Len(a), k <= Len(b)
  PROVE  f[k] = g[k] /\ (k # 0 => a[k] = b[k])
<1> DEFINE n == Len(a)
           m == Len(b)
           Same(j) == f[j] = g[j] /\ (j # 0 => a[j] = b[j])
           B == {j \in 0 .. n : j <= m /\ ~Same(j)}
<1>1. n \in Nat /\ m \in Nat
  BY ListedIs
<1>2. /\ f[0] = <<>>
      /\ \A j \in 1 .. n : f[j] = f[j - 1] \o Escaped(a[j])
      /\ \A j \in 0 .. n : Len(f[j]) \in Nat
      /\ \A j \in 1 .. n : Reads(x, 1 + Len(f[j - 1]), Escaped(a[j]))
  BY DEF Held
<1>3. /\ g[0] = <<>>
      /\ \A j \in 1 .. m : g[j] = g[j - 1] \o Escaped(b[j])
      /\ \A j \in 1 .. m : Reads(x, 1 + Len(g[j - 1]), Escaped(b[j]))
  BY DEF Held
<1>4. ASSUME B # {} PROVE FALSE
  <2>1. PICK i \in B : \A j \in B : i <= j
    <3>1. B \in SUBSET (0 .. n)
      OBVIOUS
    <3> HIDE DEF B, n
    <3> QED
      BY <1>1, <1>4, <3>1, LeastPosition
  <2>2. i \in 0 .. n /\ i <= m /\ ~Same(i)
    OBVIOUS
  <2>3. i # 0
    BY <1>2, <1>3, <2>2
  <2>4. i \in 1 .. n /\ i \in 1 .. m /\ i - 1 \in 0 .. n /\ i - 1 <= m /\ ~(i <= i - 1)
    BY <1>1, <2>2, <2>3
  <2>5. f[i - 1] = g[i - 1]
    BY <2>1, <2>4
  <2> DEFINE o == 1 + Len(f[i - 1])
             c == a[i]
             d == b[i]
  <2>6. o \in Nat
    BY <1>2, <2>4
  <2>7. Reads(x, o, Escaped(c)) /\ Reads(x, o, Escaped(d))
    BY <1>2, <1>3, <2>4, <2>5
  <2> HIDE DEF o, c, d, B, n, m, Same
  <2>8. c = d
    BY <2>6, <2>7, OneCharacter
  <2>9. f[i] = g[i]
    <3>1. f[i] = f[i - 1] \o Escaped(c) /\ g[i] = g[i - 1] \o Escaped(d)
      BY <1>2, <1>3, <2>4 DEF c, d
    <3> QED
      BY <2>5, <2>8, <3>1
  <2> QED
    BY <2>2, <2>8, <2>9 DEF c, d, Same
<1>5. k \notin B /\ k \in 0 .. n /\ k <= m
  BY <1>4
<1>6. Same(k)
  BY <1>5
<1> QED
  BY <1>6

\* No text goes on where another one ends.
LEMMA TextsEndAlike ==
  ASSUME NEW a, Listed(a), NEW b, Listed(b), NEW x, NEW f, NEW g,
         Held(x, a, f), Held(x, b, g)
  PROVE  Len(b) <= Len(a)
<1> DEFINE n == Len(a)
           m == Len(b)
<1>1. n \in Nat /\ m \in Nat
  BY ListedIs
<1>2. SUFFICES ASSUME n < m PROVE FALSE
  BY <1>1
<1> DEFINE j == n + 1
<1>3. n \in 0 .. n /\ n <= m /\ j \in 1 .. m /\ j - 1 = n
  BY <1>1, <1>2
<1>4. f[n] = g[n]
  BY <1>3, TextsAgree
<1>5. x[1 + Len(f[n]) + 1] = Quote /\ Len(f[n]) \in Nat
  BY <1>3 DEF Held
<1>6. \A p \in 1 .. Len(Escaped(b[j])) : x[1 + Len(g[j - 1]) + p] = Escaped(b[j])[p]
  BY <1>3 DEF Held, Reads
<1> DEFINE c == b[j]
<1>7. Escaped(c)[1] # "\""
  BY EscapedIs
<1> HIDE DEF j
<1>8. 1 \in 1 .. Len(Escaped(c))
  <2> HIDE DEF c
  <2>1. Listed(Escaped(c)) /\ Len(Escaped(c)) >= 1
    BY EscapedIs
  <2> QED
    BY <2>1, ListedIs
<1>9. x[1 + Len(f[n]) + 1] = Escaped(c)[1]
  BY <1>3, <1>4, <1>6, <1>8
<1> QED
  BY <1>5, <1>7, <1>9 DEF Quote

\* `s` and then `t`: the provers take it as a whole.
Then(s, t) == s \o t

LEMMA ThenIs ==
  /\ \A s, t : Listed(s) /\ Listed(t) => Listed(Then(s, t))
  /\ \A s, t, u : Listed(s) /\ Listed(t) /\ Listed(u) =>
       Then(Then(s, t), u) = Then(s, Then(t, u))
<1>1. ASSUME NEW s, NEW t, Listed(s), Listed(t) PROVE Listed(Then(s, t))
  BY <1>1, Joined DEF Then
<1>2. ASSUME NEW s, NEW t, NEW u, Listed(s), Listed(t), Listed(u)
      PROVE  Then(Then(s, t), u) = Then(s, Then(t, u))
  BY <1>2, JoinedTwice DEF Then
<1> QED
  BY <1>1, <1>2

LEMMA TextsApart ==
  \A a, b, u, v :
    /\ Listed(a) /\ Listed(b) /\ Listed(u) /\ Listed(v)
    /\ Then(EncodeText(a), u) = Then(EncodeText(b), v)
    => a = b /\ u = v
<1> SUFFICES ASSUME NEW a, Listed(a), NEW b, Listed(b), NEW u, Listed(u), NEW v, Listed(v),
                    Then(EncodeText(a), u) = Then(EncodeText(b), v)
             PROVE  a = b /\ u = v
  OBVIOUS
<1>1. PICK f : Beginnings(f, Codes(a))
  BY CodesAre, BeginningsExist
<1>2. PICK g : Beginnings(g, Codes(b))
  BY CodesAre, BeginningsExist
<1>3. Len(a) \in Nat /\ Len(b) \in Nat
  BY ListedIs
<1> DEFINE x == EncodeText(a) \o u
           y == EncodeText(b) \o v
<1>4. x = y
  BY DEF Then
<1>5. Listed(EncodeText(a)) /\ Held(x, a, f)
  BY <1>1, TextHolds
<1>6. Listed(EncodeText(b)) /\ Held(y, b, g)
  BY <1>2, TextHolds
<1> HIDE DEF x, y
<1>7. Len(a) = Len(b)
  <2>1. Len(b) <= Len(a)
    BY <1>4, <1>5, <1>6, TextsEndAlike
  <2>2. Len(a) <= Len(b)
    BY <1>4, <1>5, <1>6, TextsEndAlike
  <2> QED
    BY <1>3, <2>1, <2>2
<1>8. a = b
  <2>1. ASSUME NEW k \in 1 .. Len(a) PROVE a[k] = b[k]
    <3>1. k \in 0 .. Len(a) /\ k <= Len(b) /\ k # 0
      BY <1>3, <1>7
    <3> QED
      BY <1>4, <1>5, <1>6, <3>1, TextsAgree
  <2> QED
    BY <1>7, <2>1, SameList
<1>9. Len(EncodeText(a)) = Len(EncodeText(b))
  BY <1>8
<1>10. EncodeText(a) \o u = EncodeText(b) \o v
  BY <1>4 DEF x, y
<1> QED
  BY <1>5, <1>6, <1>8, <1>9, <1>10, SameParts

\* A text is read back from its symbols, whatever characters it holds and
\* whatever follows it (encode_text of canonical.rs): no text can imitate the
\* end of another one, or an escape.
THEOREM TextsAreToldApart ==
  ASSUME NEW a, Listed(a), NEW b, Listed(b), NEW u, Listed(u), NEW v, Listed(v),
         EncodeText(a) \o u = EncodeText(b) \o v
  PROVE  a = b /\ u = v
<1>1. Then(EncodeText(a), u) = Then(EncodeText(b), v)
  BY DEF Then
<1> QED
  BY <1>1, TextsApart, Zenon

-----------------------------------------------------------------------------
(***************************************************************************)
(* Numbers in decimal: the function Decimal names exists, and reads back   *)
(***************************************************************************)
LEMMA LeastNumber ==
  ASSUME NEW B \in SUBSET Nat, B # {}
  PROVE  \E b \in B : \A c \in B : b <= c
<1>1. PICK n \in B : TRUE
  OBVIOUS
<1> DEFINE C == B \cap (0 .. n)
<1>2. C \in SUBSET (0 .. n) /\ n \in Nat /\ C # {}
  BY <1>1
<1>3. PICK b \in C : \A c \in C : b <= c
  <2> HIDE DEF C
  <2> QED
    BY <1>2, LeastPosition
<1>4. ASSUME NEW c \in B PROVE b <= c
  <2>1. CASE c <= n
    BY <1>3, <2>1
  <2>2. CASE ~(c <= n)
    BY <1>3, <2>2
  <2> QED
    BY <2>1, <2>2
<1> QED
  BY <1>3, <1>4

Dec(g, n) == (IF n < 10 THEN <<>> ELSE g[n \div 10]) \o <<Digits[(n % 10) + 1]>>

IsNumeral(g) == g = [n \in Nat |-> Dec(g, n)]

Numeral == CHOOSE g : IsNumeral(g)

LEMMA DecimalIs ==
  ASSUME NEW i
  PROVE  Decimal(i) = IF i < 0 THEN <<"-">> \o Numeral[-i] ELSE Numeral[i]
BY DEF Decimal, Numeral, IsNumeral, Dec

\* Its values up to m.
NumeralsUpTo(g, m) == g = [n \in 0 .. m |-> Dec(g, n)]

LEMMA TenthIsLess ==
  ASSUME NEW n \in Nat
  PROVE  n \div 10 \in Nat /\ (n >= 10 => n \div 10 < n) /\ n % 10 \in 0 .. 9
         /\ n = 10 * (n \div 10) + (n % 10) /\ (n < 10 => n % 10 = n)
OBVIOUS

LEMMA NumeralsExtend ==
  ASSUME NEW m \in Nat, NEW g, NumeralsUpTo(g, m)
  PROVE  \E h : NumeralsUpTo(h, m + 1)
<1> DEFINE h == [n \in 0 .. (m + 1) |-> IF n <= m THEN g[n] ELSE Dec(g, n)]
<1>1. \A n \in 0 .. m : g[n] = Dec(g, n)
  BY DEF NumeralsUpTo
<1>2. ASSUME NEW n \in 0 .. (m + 1) PROVE h[n] = Dec(h, n)
  <2>1. n >= 10 => n \div 10 \in 0 .. m
    BY TenthIsLess
  <2>2. n >= 10 => h[n \div 10] = g[n \div 10]
    BY <2>1
  <2>3. Dec(h, n) = Dec(g, n)
    <3>1. CASE n < 10
      BY <3>1 DEF Dec
    <3>2. CASE ~(n < 10)
      <4>1. n >= 10
        BY <3>2
      <4>2. h[n \div 10] = g[n \div 10]
        BY <2>2, <4>1
      <4> HIDE DEF h
      <4> QED
        BY <3>2, <4>2 DEF Dec
    <3> QED
      BY <3>1, <3>2
  <2>4. n <= m => n \in 0 .. m
    OBVIOUS
  <2>5. h[n] = Dec(g, n)
    BY <1>1, <2>4
  <2> QED
    BY <2>3, <2>5
<1>3. DOMAIN h = 0 .. (m + 1) /\ h = [n \in 0 .. (m + 1) |-> h[n]]
  OBVIOUS
<1> HIDE DEF h
<1>4. h = [n \in 0 .. (m + 1) |-> Dec(h, n)]
  BY <1>2, <1>3
<1> QED
  BY <1>4 DEF NumeralsUpTo

LEMMA NumeralsExist ==
  ASSUME NEW m \in Nat
  PROVE  \E g : NumeralsUpTo(g, m)
<1> DEFINE B == {n \in Nat : ~ \E g : NumeralsUpTo(g, n)}
<1>1. ASSUME B # {} PROVE FALSE
  <2>1. PICK b \in B : \A c \in B : b <= c
    <3>1. B \in SUBSET Nat
      OBVIOUS
    <3> HIDE DEF B
    <3> QED
      BY <1>1, <3>1, LeastNumber
  <2>2. b # 0
    <3> DEFINE g == [n \in 0 .. 0 |-> <<>> \o <<Digits[(n % 10) + 1]>>]
    <3>1. \A n \in 0 .. 0 : n < 10
      OBVIOUS
    <3>2. g = [n \in 0 .. 0 |-> Dec(g, n)]
      BY <3>1 DEF Dec
    <3>3. NumeralsUpTo(g, 0)
      BY <3>2 DEF NumeralsUpTo
    <3> QED
      BY <3>3
  <2>3. b \in Nat /\ b - 1 \in Nat /\ ~(b <= b - 1) /\ b - 1 + 1 = b
    BY <2>2
  <2>4. PICK g : NumeralsUpTo(g, b - 1)
    BY <2>1, <2>3
  <2>5. \E h : NumeralsUpTo(h, b - 1 + 1)
    <3> DEFINE l == b - 1
    <3>1. l \in Nat /\ NumeralsUpTo(g, l)
      BY <2>3, <2>4
    <3> HIDE DEF l
    <3>2. \E h : NumeralsUpTo(h, l + 1)
      BY <3>1, NumeralsExtend
    <3> QED
      BY <3>2 DEF l
  <2> QED
    BY <2>3, <2>5
<1> QED
  BY <1>1

LEMMA NumeralsAgree ==
  ASSUME NEW m \in Nat, NEW p \in Nat, NEW g, NumeralsUpTo(g, m), NEW h, NumeralsUpTo(h, p),
         NEW k \in Nat, k <= m, k <= p
  PROVE  g[k] = h[k]
<1> DEFINE B == {n \in Nat : n <= m /\ n <= p /\ g[n] # h[n]}
<1>1. \A n \in 0 .. m : g[n] = Dec(g, n)
  BY DEF NumeralsUpTo
<1>2. \A n \in 0 .. p : h[n] = Dec(h, n)
  BY DEF NumeralsUpTo
<1>3. ASSUME B # {} PROVE FALSE
  <2>1. PICK b \in B : \A c \in B : b <= c
    <3>1. B \in SUBSET Nat
      OBVIOUS
    <3> HIDE DEF B
    <3> QED
      BY <1>3, <3>1, LeastNumber
  <2>2. b \in Nat /\ b <= m /\ b <= p /\ g[b] # h[b]
    OBVIOUS
  <2>3. g[b] = Dec(g, b) /\ h[b] = Dec(h, b)
    BY <1>1, <1>2, <2>2
  <2>4. CASE b < 10
    BY <2>2, <2>3, <2>4 DEF Dec
  <2>5. CASE ~(b < 10)
    <3> DEFINE t == b \div 10
    <3>1. t \in Nat /\ t < b /\ t <= m /\ t <= p /\ ~(b <= t)
      BY <2>2, <2>5, TenthIsLess
    <3> HIDE DEF t
    <3>2. g[t] = h[t]
      BY <2>1, <3>1
    <3>3. Dec(g, b) = Dec(h, b)
      BY <2>5, <3>2 DEF Dec, t
    <3> QED
      BY <2>2, <2>3, <3>3
  <2> QED
    BY <2>4, <2>5
<1> QED
  BY <1>3

LEMMA NumeralIs ==
  \A n \in Nat : Numeral[n] = Dec(Numeral, n)
<1> DEFINE P(n) == CHOOSE g : NumeralsUpTo(g, n)
           G == [n \in Nat |-> P(n)[n]]
<1>1. \A n \in Nat : NumeralsUpTo(P(n), n)
  BY NumeralsExist
<1>2. \A n \in Nat : G[n] = P(n)[n]
  OBVIOUS
<1>3. G = [n \in Nat |-> G[n]]
  OBVIOUS
<1> HIDE DEF G, P
<1>4. ASSUME NEW n \in Nat PROVE G[n] = Dec(G, n)
  <2>1. P(n)[n] = Dec(P(n), n)
    <3>1. n \in 0 .. n /\ P(n) = [i \in 0 .. n |-> Dec(P(n), i)]
      BY <1>1 DEF NumeralsUpTo
    <3> QED
      BY <3>1
  <2>2. CASE n < 10
    BY <1>2, <2>1, <2>2 DEF Dec
  <2>3. CASE ~(n < 10)
    <3> DEFINE t == n \div 10
    <3>1. t \in Nat /\ t <= n /\ t <= t
      BY <2>3, TenthIsLess
    <3>2. P(t)[t] = P(n)[t]
      <4> HIDE DEF t
      <4> QED
        BY <1>1, <3>1, NumeralsAgree
    <3>3. G[t] = P(n)[t]
      BY <1>2, <3>1, <3>2
    <3> HIDE DEF t
    <3>4. Dec(G, n) = Dec(P(n), n)
      BY <2>3, <3>3 DEF Dec, t
    <3> QED
      BY <1>2, <2>1, <3>4
  <2> QED
    BY <2>2, <2>3
<1>5. IsNumeral(G)
  BY <1>3, <1>4 DEF IsNumeral
<1>6. IsNumeral(Numeral)
  BY <1>5 DEF Numeral
<1>7. Numeral = [n \in Nat |-> Dec(Numeral, n)]
  BY <1>6 DEF IsNumeral
<1> QED
  BY <1>7
\* The symbols of a number.
Figures == {Digits[p] : p \in 1 .. 10} \cup {"-"}

LEMMA FiguresAre ==
  /\ "," \notin Figures /\ "}" \notin Figures
  /\ \A p \in 1 .. 10 : Digits[p] \in Figures /\ Digits[p] # "-"
<1>1. /\ Digits[1] = "0" /\ Digits[2] = "1" /\ Digits[3] = "2" /\ Digits[4] = "3"
      /\ Digits[5] = "4" /\ Digits[6] = "5" /\ Digits[7] = "6" /\ Digits[8] = "7"
      /\ Digits[9] = "8" /\ Digits[10] = "9"
  BY DEF Digits
<1>2. ASSUME NEW p \in 1 .. 10
      PROVE  Digits[p] \in {"0", "1", "2", "3", "4", "5", "6", "7", "8", "9"}
  <2>1. p \in {1, 2, 3, 4, 5, 6, 7, 8, 9, 10}
    OBVIOUS
  <2> QED
    BY <1>1, <2>1
<1>3. \A x \in {"0", "1", "2", "3", "4", "5", "6", "7", "8", "9"} : x \notin {",", "}", "-"}
  OBVIOUS
<1> QED
  BY <1>2, <1>3 DEF Figures

\* A list of figures that is not empty.
IsFigures(s) == Listed(s) /\ Len(s) >= 1 /\ \A k \in 1 .. Len(s) : s[k] \in Figures

LEMMA NumeralStep ==
  ASSUME NEW n \in Nat
  PROVE  LET z == Digits[(n % 10) + 1]
         IN  /\ n < 10 => Numeral[n] = <<z>>
             /\ n >= 10 => Numeral[n] = Numeral[n \div 10] \o <<z>>
             /\ z \in Figures /\ z # "-"
<1> DEFINE z == Digits[(n % 10) + 1]
<1>1. (n % 10) + 1 \in 1 .. 10
  BY TenthIsLess
<1>2. z \in Figures /\ z # "-"
  BY <1>1, FiguresAre
<1>3. Numeral[n] = Dec(Numeral, n)
  BY NumeralIs
<1>4. Dec(Numeral, n) = (IF n < 10 THEN <<>> ELSE Numeral[n \div 10]) \o <<z>>
  BY DEF Dec
<1>5. <<>> \o <<z>> = <<z>>
  <2>1. <<>> \in Seq({z}) /\ <<z>> \in Seq({z})
    OBVIOUS
  <2> QED
    BY <2>1
<1> HIDE DEF z
<1>6. n < 10 => Numeral[n] = <<z>>
  BY <1>3, <1>4, <1>5
<1>7. ASSUME n >= 10 PROVE Numeral[n] = Numeral[n \div 10] \o <<z>>
  <2>1. ~(n < 10)
    BY <1>7
  <2> QED
    BY <1>3, <1>4, <2>1, Zenon
<1> QED
  BY <1>2, <1>6, <1>7 DEF z

LEMMA OneFigure ==
  ASSUME NEW z \in Figures
  PROVE  IsFigures(<<z>>)
<1> DEFINE t == <<z>>
<1>1. Listed(t) /\ Len(t) = 1 /\ t[1] = z
  BY Single
<1> HIDE DEF t
<1>2. \A k \in 1 .. Len(t) : t[k] \in Figures
  BY <1>1
<1>3. Len(t) >= 1
  BY <1>1
<1> QED
  BY <1>1, <1>2, <1>3 DEF IsFigures, t

LEMMA MoreFigures ==
  ASSUME NEW s, IsFigures(s), NEW t, IsFigures(t)
  PROVE  IsFigures(s \o t) /\ (s \o t)[1] = s[1]
<1>1. Listed(s) /\ Listed(t) /\ Len(s) \in Nat /\ Len(t) \in Nat /\ Len(s) >= 1
  BY ListedIs DEF IsFigures
<1> DEFINE x == s \o t
<1>2. /\ Listed(x) /\ Len(x) = Len(s) + Len(t)
      /\ \A k \in 1 .. Len(s) : x[k] = s[k]
      /\ \A k \in 1 .. Len(t) : x[Len(s) + k] = t[k]
  BY <1>1, Joined
<1> HIDE DEF x
<1>3. ASSUME NEW k \in 1 .. Len(x) PROVE x[k] \in Figures
  <2>1. CASE k <= Len(s)
    <3>1. k \in 1 .. Len(s)
      BY <1>1, <1>2, <2>1
    <3> QED
      BY <1>2, <3>1 DEF IsFigures
  <2>2. CASE ~(k <= Len(s))
    <3> DEFINE j == k - Len(s)
    <3>1. j \in 1 .. Len(t) /\ Len(s) + j = k
      BY <1>1, <1>2, <2>2
    <3> HIDE DEF j
    <3>2. x[Len(s) + j] = t[j] /\ t[j] \in Figures
      BY <1>2, <3>1 DEF IsFigures
    <3> QED
      BY <3>1, <3>2
  <2> QED
    BY <2>1, <2>2
<1>4. Len(x) >= 1
  BY <1>1, <1>2
<1>5. x[1] = s[1]
  <2>1. 1 \in 1 .. Len(s)
    BY <1>1
  <2> QED
    BY <1>2, <2>1
<1> QED
  BY <1>2, <1>3, <1>4, <1>5 DEF IsFigures, x

LEMMA NumeralsAreFigures ==
  ASSUME NEW n \in Nat
  PROVE  IsFigures(Numeral[n]) /\ Numeral[n][1] # "-"
<1> DEFINE Ok(m) == IsFigures(Numeral[m]) /\ Numeral[m][1] # "-"
           B == {m \in Nat : ~Ok(m)}
<1>1. ASSUME B # {} PROVE FALSE
  <2>1. PICK b \in B : \A c \in B : b <= c
    <3>1. B \in SUBSET Nat
      OBVIOUS
    <3> HIDE DEF B
    <3> QED
      BY <1>1, <3>1, LeastNumber
  <2>2. b \in Nat /\ ~Ok(b)
    OBVIOUS
  <2> DEFINE z == Digits[(b % 10) + 1]
  <2>3. /\ b < 10 => Numeral[b] = <<z>>
        /\ b >= 10 => Numeral[b] = Numeral[b \div 10] \o <<z>>
        /\ z \in Figures /\ z # "-"
    BY <2>2, NumeralStep
  <2> HIDE DEF z
  <2>4. IsFigures(<<z>>) /\ <<z>>[1] # "-"
    BY <2>3, OneFigure
  <2>5. CASE b < 10
    BY <2>2, <2>3, <2>4, <2>5
  <2>6. CASE b >= 10
    <3> DEFINE t == b \div 10
    <3>1. t \in Nat /\ ~(b <= t)
      BY <2>2, <2>6, TenthIsLess
    <3>2. Numeral[b] = Numeral[t] \o <<z>>
      BY <2>3, <2>6
    <3> HIDE DEF t, Ok
    <3>3. Ok(t)
      BY <2>1, <3>1
    <3> DEFINE s == Numeral[t]
    <3>4. IsFigures(s) /\ s[1] # "-"
      BY <3>3 DEF Ok
    <3> DEFINE w == <<z>>
    <3>5. IsFigures(w)
      BY <2>4
    <3> HIDE DEF s, w
    <3>6. IsFigures(s \o w) /\ (s \o w)[1] = s[1]
      BY <3>4, <3>5, MoreFigures
    <3> QED
      BY <2>2, <3>2, <3>4, <3>6, Zenon DEF s, w, Ok
  <2> QED
    BY <2>2, <2>5, <2>6
<1> HIDE DEF Ok
<1>2. Ok(n)
  BY <1>1
<1> QED
  BY <1>2 DEF Ok

LEMMA NumeralsDiffer ==
  ASSUME NEW n \in Nat, NEW m \in Nat, Numeral[n] = Numeral[m]
  PROVE  n = m
<1> DEFINE B == {i \in Nat : \E j \in Nat : i # j /\ Numeral[i] = Numeral[j]}
<1>1. ASSUME B # {} PROVE FALSE
  <2>1. PICK b \in B : \A c \in B : b <= c
    <3>1. B \in SUBSET Nat
      OBVIOUS
    <3> HIDE DEF B
    <3> QED
      BY <1>1, <3>1, LeastNumber
  <2>2. PICK d \in Nat : b # d /\ Numeral[b] = Numeral[d]
    OBVIOUS
  <2>3. b \in Nat /\ d \in B /\ b <= d
    BY <2>1, <2>2
  <2> DEFINE y == Digits[(b % 10) + 1]
             z == Digits[(d % 10) + 1]
             s == Numeral[b \div 10]
             t == Numeral[d \div 10]
  <2>4. /\ b < 10 => Numeral[b] = <<y>>
        /\ b >= 10 => Numeral[b] = s \o <<y>>
    BY <2>3, NumeralStep
  <2>5. /\ d < 10 => Numeral[d] = <<z>>
        /\ d >= 10 => Numeral[d] = t \o <<z>>
    BY NumeralStep
  <2>6. y = z => b % 10 = d % 10
    <3>1. /\ (b % 10) + 1 \in 1 .. 16 /\ (d % 10) + 1 \in 1 .. 16
          /\ b % 10 \in Nat /\ d % 10 \in Nat
      BY <2>3, TenthIsLess
    <3>2. y = z => (b % 10) + 1 = (d % 10) + 1
      BY <3>1, DigitsDiffer
    <3> QED
      BY <3>1, <3>2
  <2>7. /\ Listed(s) /\ Len(s) >= 1 /\ Len(s) \in Nat
        /\ Listed(t) /\ Len(t) >= 1 /\ Len(t) \in Nat
    <3>1. b \div 10 \in Nat /\ d \div 10 \in Nat
      BY <2>3, TenthIsLess
    <3>2. IsFigures(s) /\ IsFigures(t)
      BY <3>1, NumeralsAreFigures
    <3> QED
      BY <3>2, ListedIs DEF IsFigures
  <2> HIDE DEF y, z, s, t
  <2>8. CASE b < 10 /\ d < 10
    <3>1. y = z
      <4>1. <<y>>[1] = y /\ <<z>>[1] = z
        BY Single
      <4> QED
        BY <2>2, <2>4, <2>5, <2>8, <4>1
    <3> QED
      BY <2>2, <2>3, <2>6, <2>8, <3>1, TenthIsLess
  <2>9. CASE b < 10 /\ d >= 10
    <3>1. Len(<<y>>) = 1
      BY Single
    <3>2. Len(t \o <<z>>) = Len(t) + 1
      BY <2>7, JoinedOne
    <3>3. Len(Numeral[b]) = 1 /\ Len(Numeral[d]) = Len(t) + 1
      BY <2>4, <2>5, <2>9, <3>1, <3>2
    <3>4. Len(Numeral[b]) = Len(Numeral[d])
      BY <2>2
    <3>5. 1 = Len(t) + 1
      BY <3>3, <3>4
    <3> QED
      BY <2>7, <3>5
  <2>10. CASE b >= 10 /\ d >= 10
    <3>1. Listed(<<y>>) /\ Listed(<<z>>) /\ Len(<<y>>) = Len(<<z>>)
      BY Single
    <3> DEFINE v == <<y>>
               w == <<z>>
    <3>2. Listed(v) /\ Listed(w) /\ Len(v) = Len(w) /\ s \o v = t \o w
      BY <2>2, <2>4, <2>5, <2>10, <3>1
    <3> HIDE DEF v, w
    <3>3. s = t /\ v = w
      <4>1. Listed(s) /\ Listed(t)
        BY <2>7
      <4> QED
        BY <3>2, <4>1, SameEnds
    <3>4. y = z
      <4>1. <<y>>[1] = y /\ <<z>>[1] = z
        BY Single
      <4> QED
        BY <3>3, <4>1 DEF v, w
    <3>5. b % 10 = d % 10
      BY <2>6, <3>4
    <3> DEFINE p == b \div 10
               q == d \div 10
    <3>6. /\ p \in Nat /\ q \in Nat /\ p < b /\ ~(b <= p)
          /\ b = 10 * p + (b % 10) /\ d = 10 * q + (d % 10) /\ b % 10 \in 0 .. 9
      BY <2>3, <2>10, TenthIsLess
    <3>7. Numeral[p] = Numeral[q]
      BY <3>3 DEF s, t
    <3> HIDE DEF p, q
    <3>8. p = q
      BY <2>1, <3>6, <3>7
    <3> QED
      BY <2>2, <3>5, <3>6, <3>8
  <2> QED
    BY <2>3, <2>8, <2>9, <2>10
<1> QED
  BY <1>1

\* A number is written in figures, and no two alike (encode_i64 of canonical.rs).
LEMMA DecimalsDiffer ==
  ASSUME NEW i \in Int, NEW j \in Int
  PROVE  /\ IsFigures(Decimal(i))
         /\ Decimal(i) = Decimal(j) => i = j
<1> DEFINE m == <<"-">>
<1>1. IsFigures(m) /\ m[1] = "-"
  <2>1. "-" \in Figures
    BY DEF Figures
  <2> QED
    BY <2>1, OneFigure, Single
<1>2. /\ i < 0 => Decimal(i) = m \o Numeral[-i] /\ -i \in Nat
      /\ ~(i < 0) => Decimal(i) = Numeral[i] /\ i \in Nat
  BY DecimalIs
<1>3. /\ j < 0 => Decimal(j) = m \o Numeral[-j] /\ -j \in Nat
      /\ ~(j < 0) => Decimal(j) = Numeral[j] /\ j \in Nat
  BY DecimalIs
<1> HIDE DEF m
<1>4. \A n \in Nat : IsFigures(m \o Numeral[n]) /\ (m \o Numeral[n])[1] = "-"
  <2> SUFFICES ASSUME NEW n \in Nat
               PROVE  IsFigures(m \o Numeral[n]) /\ (m \o Numeral[n])[1] = "-"
    OBVIOUS
  <2> DEFINE t == Numeral[n]
  <2>1. IsFigures(t)
    BY NumeralsAreFigures
  <2> HIDE DEF t
  <2>2. IsFigures(m \o t) /\ (m \o t)[1] = m[1]
    BY <1>1, <2>1, MoreFigures
  <2> QED
    BY <1>1, <2>2, Zenon DEF t
<1>5. \A n \in Nat : IsFigures(Numeral[n]) /\ Numeral[n][1] # "-"
  BY NumeralsAreFigures
<1>6. IsFigures(Decimal(i))
  BY <1>2, <1>4, <1>5
<1>7. ASSUME Decimal(i) = Decimal(j) PROVE i = j
  <2>1. CASE i < 0 /\ j < 0
    <3> DEFINE p == Numeral[-i]
               q == Numeral[-j]
    <3>1. m \o p = m \o q /\ -i \in Nat /\ -j \in Nat
      BY <1>2, <1>3, <1>7, <2>1
    <3>2. Listed(p) /\ Listed(q) /\ Listed(m)
      BY <1>1, <1>5, <3>1 DEF IsFigures
    <3> HIDE DEF p, q
    <3>3. p = q
      BY <3>1, <3>2, SameParts
    <3>4. -i = -j
      <4> DEFINE k == -i
                 l == -j
      <4>1. k \in Nat /\ l \in Nat /\ Numeral[k] = Numeral[l]
        BY <3>1, <3>3 DEF p, q
      <4> HIDE DEF k, l
      <4>2. k = l
        BY <4>1, NumeralsDiffer
      <4> QED
        BY <4>2 DEF k, l
    <3> QED
      BY <3>4
  <2>2. CASE ~(i < 0) /\ ~(j < 0)
    BY <1>2, <1>3, <1>7, <2>2, NumeralsDiffer
  <2>3. CASE i < 0 /\ ~(j < 0)
    BY <1>2, <1>3, <1>4, <1>5, <1>7, <2>3
  <2>4. CASE ~(i < 0) /\ j < 0
    BY <1>2, <1>3, <1>4, <1>5, <1>7, <2>4
  <2> QED
    BY <2>1, <2>2, <2>3, <2>4
<1> QED
  BY <1>6, <1>7
-----------------------------------------------------------------------------
(***************************************************************************)
(* A number ends where something else begins, and begins after a brace     *)
(***************************************************************************)
\* The figures x begins with are its first l symbols.
Stops(x, l) == x[l + 1] \notin Figures /\ \A k \in 1 .. l : x[k] \in Figures

LEMMA FiguresStop ==
  ASSUME NEW s, IsFigures(s), NEW u, Listed(u), u # <<>>, u[1] \notin Figures
  PROVE  Stops(s \o u, Len(s))
<1> DEFINE x == s \o u
<1>1. Listed(s) /\ Len(s) \in Nat /\ Len(u) \in Nat /\ Len(u) # 0
  BY ListedIs DEF IsFigures
<1>2. /\ \A k \in 1 .. Len(s) : x[k] = s[k]
      /\ \A k \in 1 .. Len(u) : x[Len(s) + k] = u[k]
  BY <1>1, Joined
<1> HIDE DEF x
<1>3. x[Len(s) + 1] = u[1]
  <2>1. 1 \in 1 .. Len(u)
    BY <1>1
  <2> QED
    BY <1>2, <2>1
<1>4. \A k \in 1 .. Len(s) : x[k] \in Figures
  BY <1>2 DEF IsFigures
<1> QED
  BY <1>3, <1>4 DEF x, Stops

LEMMA StopsOnce ==
  ASSUME NEW x, NEW l \in Nat, NEW r \in Nat, Stops(x, l), Stops(x, r)
  PROVE  l = r
<1>1. ASSUME l < r PROVE FALSE
  <2>1. l + 1 \in 1 .. r
    BY <1>1
  <2> QED
    BY <2>1 DEF Stops
<1>2. ASSUME r < l PROVE FALSE
  <2>1. r + 1 \in 1 .. l
    BY <1>2
  <2> QED
    BY <2>1 DEF Stops
<1> QED
  BY <1>1, <1>2

LEMMA NumbersAreToldApart ==
  ASSUME NEW i \in Int, NEW j \in Int, NEW u, Listed(u), NEW v, Listed(v),
         u # <<>>, u[1] \notin Figures, v # <<>>, v[1] \notin Figures,
         Decimal(i) \o u = Decimal(j) \o v
  PROVE  i = j /\ u = v
<1> DEFINE s == Decimal(i)
           t == Decimal(j)
           x == s \o u
           y == t \o v
<1>1. x = y
  OBVIOUS
<1>2. IsFigures(s) /\ IsFigures(t)
  BY DecimalsDiffer
<1> HIDE DEF s, t
<1>3. Stops(x, Len(s)) /\ Stops(y, Len(t))
  BY <1>2, FiguresStop
<1>4. Listed(s) /\ Listed(t) /\ Len(s) \in Nat /\ Len(t) \in Nat
  BY <1>2, ListedIs DEF IsFigures
<1>5. Len(s) = Len(t)
  <2> DEFINE l == Len(s)
             r == Len(t)
  <2>1. l \in Nat /\ r \in Nat /\ Stops(x, l) /\ Stops(x, r)
    BY <1>1, <1>3, <1>4
  <2> HIDE DEF l, r, x, y
  <2>2. l = r
    BY <2>1, StopsOnce
  <2> QED
    BY <2>2 DEF l, r
<1>6. s = t /\ u = v
  <2>1. s \o u = t \o v
    BY <1>1
  <2> QED
    BY <1>4, <1>5, <2>1, SameParts
<1> QED
  BY <1>6, DecimalsDiffer DEF s, t

\* The brace that closes the record is the symbol l + 1 of x, figures follow.
BraceAt(x, l) ==
  /\ x[l + 1] = "}" /\ l + 1 <= Len(x)
  /\ \A k \in 1 .. Len(x) : k > l + 1 => x[k] \in Figures

LEMMA BraceCloses ==
  ASSUME NEW s, Listed(s), NEW u, IsFigures(u)
  PROVE  BraceAt((s \o <<"}">>) \o u, Len(s))
<1> DEFINE z == "}"
           r == s \o <<z>>
           x == r \o u
<1>1. Listed(r) /\ Len(r) = Len(s) + 1 /\ r[Len(s) + 1] = z
  <2> HIDE DEF z
  <2> QED
    BY JoinedOne
<1>2. Listed(u) /\ Len(u) \in Nat /\ Len(s) \in Nat /\ Len(u) >= 1
  BY ListedIs DEF IsFigures
<1> HIDE DEF r, z
<1>3. /\ Len(x) = Len(r) + Len(u)
      /\ \A k \in 1 .. Len(r) : x[k] = r[k]
      /\ \A k \in 1 .. Len(u) : x[Len(r) + k] = u[k]
  <2>1. Listed(r) /\ Listed(u)
    BY <1>1, <1>2
  <2> QED
    BY <2>1, Joined
<1> HIDE DEF x
<1>4. x[Len(s) + 1] = z
  <2>1. Len(s) + 1 \in 1 .. Len(r)
    BY <1>1, <1>2
  <2> QED
    BY <1>1, <1>3, <2>1
<1>5. ASSUME NEW k \in 1 .. Len(x), k > Len(s) + 1 PROVE x[k] \in Figures
  <2> DEFINE j == k - Len(r)
  <2>1. j \in 1 .. Len(u) /\ Len(r) + j = k
    BY <1>1, <1>2, <1>3, <1>5
  <2> HIDE DEF j
  <2>2. x[Len(r) + j] = u[j] /\ u[j] \in Figures
    BY <1>3, <2>1 DEF IsFigures
  <2> QED
    BY <2>1, <2>2
<1>6. Len(s) + 1 <= Len(x)
  BY <1>1, <1>2, <1>3
<1>7. BraceAt(x, Len(s))
  BY <1>4, <1>5, <1>6 DEF BraceAt, z
<1> QED
  BY <1>7 DEF x, r, z

LEMMA BraceAtOnce ==
  ASSUME NEW x, Listed(x), NEW l \in Nat, NEW r \in Nat, BraceAt(x, l), BraceAt(x, r)
  PROVE  l = r
<1>0. Len(x) \in Nat
  BY ListedIs
<1>1. ASSUME l < r PROVE FALSE
  <2>0. r + 1 <= Len(x)
    BY DEF BraceAt
  <2>1. r + 1 \in 1 .. Len(x) /\ r + 1 > l + 1
    BY <1>0, <1>1, <2>0
  <2>2. x[r + 1] \in Figures /\ x[r + 1] = "}"
    BY <2>1 DEF BraceAt
  <2> QED
    BY <2>2, FiguresAre
<1>2. ASSUME r < l PROVE FALSE
  <2>0. l + 1 <= Len(x)
    BY DEF BraceAt
  <2>1. l + 1 \in 1 .. Len(x) /\ l + 1 > r + 1
    BY <1>0, <1>2, <2>0
  <2>2. x[l + 1] \in Figures /\ x[l + 1] = "}"
    BY <2>1 DEF BraceAt
  <2> QED
    BY <2>2, FiguresAre
<1> QED
  BY <1>1, <1>2

LEMMA TimesAreToldApart ==
  ASSUME NEW i \in Int, NEW j \in Int, NEW s, Listed(s), NEW t, Listed(t),
         (s \o <<"}">>) \o Decimal(i) = (t \o <<"}">>) \o Decimal(j)
  PROVE  s = t /\ i = j
<1> DEFINE z == "}"
           u == Decimal(i)
           v == Decimal(j)
           c == s \o <<z>>
           d == t \o <<z>>
           x == c \o u
           y == d \o v
<1>1. x = y
  OBVIOUS
<1>2. IsFigures(u) /\ IsFigures(v)
  BY DecimalsDiffer
<1> HIDE DEF u, v
<1>3. BraceAt(x, Len(s)) /\ BraceAt(y, Len(t))
  BY <1>2, BraceCloses
<1> HIDE DEF z
<1>4. /\ Listed(c) /\ Len(c) = Len(s) + 1 /\ Listed(d) /\ Len(d) = Len(t) + 1
      /\ Len(s) \in Nat /\ Len(t) \in Nat
  BY JoinedOne, ListedIs
<1>5. Listed(u) /\ Listed(v)
  BY <1>2 DEF IsFigures
<1> HIDE DEF c, d
<1>6. Listed(x)
  BY <1>4, <1>5, Joined
<1>7. Len(s) = Len(t)
  <2> DEFINE l == Len(s)
             r == Len(t)
  <2>1. l \in Nat /\ r \in Nat /\ BraceAt(x, l) /\ BraceAt(x, r)
    BY <1>1, <1>3, <1>4
  <2> HIDE DEF l, r, x, y
  <2>2. l = r
    BY <1>6, <2>1, BraceAtOnce
  <2> QED
    BY <2>2 DEF l, r
<1>8. c = d /\ u = v
  <2>1. c \o u = d \o v /\ Len(c) = Len(d)
    BY <1>1, <1>4, <1>7
  <2> QED
    BY <1>4, <1>5, <2>1, SameParts
<1>9. s = t
  <2> DEFINE w == <<z>>
  <2>1. Listed(w)
    BY Single
  <2>2. s \o w = t \o w
    BY <1>8 DEF c, d
  <2> HIDE DEF w
  <2> QED
    BY <1>7, <2>1, <2>2, SameParts
<1> QED
  BY <1>8, <1>9, DecimalsDiffer DEF u, v
-----------------------------------------------------------------------------
(***************************************************************************)
(* What an entry is hashed from, read from its start to its end            *)
(***************************************************************************)
OrgPart(org) == <<",", "org_id", org, ",", "payload">>

FromPayload(payload, micros) == (payload \o <<"}">>) \o Decimal(micros)
FromOrg(org, payload, micros) == OrgPart(org) \o FromPayload(payload, micros)
FromHeight(height, org, payload, micros) == Decimal(height) \o FromOrg(org, payload, micros)
FromActor(actor, height, org, payload, micros) ==
  EncodeText(actor) \o (<<",", "height">> \o FromHeight(height, org, payload, micros))
FromAction(action, actor, height, org, payload, micros) ==
  EncodeText(action) \o (<<",", "actor">> \o FromActor(actor, height, org, payload, micros))

LEMMA OrgPartIs ==
  ASSUME NEW o
  PROVE  /\ Listed(OrgPart(o)) /\ Len(OrgPart(o)) = 5
         /\ OrgPart(o)[1] = "," /\ OrgPart(o)[3] = o
<1>1. OrgPart(o) \in Seq({",", "org_id", o, "payload"})
  BY DEF OrgPart
<1>2. Len(OrgPart(o)) = 5 /\ OrgPart(o)[1] = "," /\ OrgPart(o)[3] = o
  BY DEF OrgPart
<1> QED
  BY <1>1, <1>2 DEF Listed

LEMMA TextIsListed ==
  ASSUME NEW a, Listed(a)
  PROVE  Listed(EncodeText(a))
<1>1. PICK f : Beginnings(f, Codes(a))
  BY CodesAre, BeginningsExist
<1>2. Listed(<<>>)
  <2>1. <<>> \in Seq({})
    OBVIOUS
  <2> QED
    BY <2>1 DEF Listed
<1> QED
  BY <1>1, <1>2, TextHolds

LEMMA PartsAreListed ==
  ASSUME NEW y, Listed(y), NEW m \in Int, NEW o, NEW h \in Int, NEW b, Listed(b)
  PROVE  /\ Listed(FromPayload(y, m)) /\ Listed(FromOrg(o, y, m))
         /\ Listed(FromHeight(h, o, y, m)) /\ Listed(FromActor(b, h, o, y, m))
<1>1. Listed(Decimal(m)) /\ Listed(Decimal(h)) /\ Listed(EncodeText(b)) /\ Listed(OrgPart(o))
  BY DecimalsDiffer, TextIsListed, OrgPartIs DEF IsFigures
<1>2. Listed(<<"}">>) /\ Listed(<<",", "height">>)
  BY Single, Pair
<1>3. Listed(FromPayload(y, m))
  <2> DEFINE z == <<"}">>
  <2>1. Listed(z)
    BY <1>2
  <2> HIDE DEF z
  <2>2. Listed(y \o z)
    BY <2>1, Joined
  <2>3. Listed((y \o z) \o Decimal(m))
    BY <1>1, <2>2, Joined
  <2> QED
    BY <2>3 DEF FromPayload, z
<1>4. Listed(FromOrg(o, y, m))
  BY <1>1, <1>3, Joined DEF FromOrg
<1>5. Listed(FromHeight(h, o, y, m))
  BY <1>1, <1>4, Joined DEF FromHeight
<1>6. Listed(FromActor(b, h, o, y, m))
  <2> DEFINE z == <<",", "height">>
             t == FromHeight(h, o, y, m)
  <2>1. Listed(z) /\ Listed(t)
    BY <1>2, <1>5
  <2> HIDE DEF z, t
  <2>2. Listed(z \o t)
    BY <2>1, Joined
  <2>3. Listed(EncodeText(b) \o (z \o t))
    BY <1>1, <2>2, Joined
  <2> QED
    BY <2>3 DEF FromActor, z, t
<1> QED
  BY <1>3, <1>4, <1>5, <1>6

LEMMA AfterOrg ==
  ASSUME NEW y, Listed(y), NEW m \in Int, NEW o,
         NEW yy, Listed(yy), NEW mm \in Int, NEW oo,
         FromOrg(o, y, m) = FromOrg(oo, yy, mm)
  PROVE  o = oo /\ y = yy /\ m = mm
<1> DEFINE s == OrgPart(o)
           t == OrgPart(oo)
           u == FromPayload(y, m)
           v == FromPayload(yy, mm)
<1>1. s \o u = t \o v
  BY DEF FromOrg
<1>2. Listed(u) /\ Listed(v)
  BY PartsAreListed
<1>3. Listed(s) /\ Listed(t) /\ Len(s) = Len(t)
  BY OrgPartIs
<1>4. s[3] = o /\ t[3] = oo
  BY OrgPartIs
<1> HIDE DEF s, t, u, v
<1>5. s = t /\ u = v
  BY <1>1, <1>2, <1>3, SameParts
<1>6. (y \o <<"}">>) \o Decimal(m) = (yy \o <<"}">>) \o Decimal(mm)
  BY <1>5 DEF u, v, FromPayload
<1>7. y = yy /\ m = mm
  BY <1>6, TimesAreToldApart
<1> QED
  BY <1>4, <1>5, <1>7

LEMMA AfterHeight ==
  ASSUME NEW y, Listed(y), NEW m \in Int, NEW o, NEW h \in Int,
         NEW yy, Listed(yy), NEW mm \in Int, NEW oo, NEW hh \in Int,
         FromHeight(h, o, y, m) = FromHeight(hh, oo, yy, mm)
  PROVE  h = hh /\ o = oo /\ y = yy /\ m = mm
<1>1. \A p : Listed(OrgPart(p)) /\ Len(OrgPart(p)) = 5 /\ OrgPart(p)[1] = ","
  BY OrgPartIs
<1>2. ASSUME NEW p, NEW z, Listed(z), NEW n \in Int
      PROVE  FromOrg(p, z, n) # <<>> /\ FromOrg(p, z, n)[1] \notin Figures
  <2> DEFINE s == OrgPart(p)
             t == FromPayload(z, n)
             x == s \o t
  <2>1. Listed(s) /\ Len(s) = 5 /\ Listed(t)
    BY <1>1, <1>2, PartsAreListed
  <2>2. s[1] = ","
    BY <1>1
  <2>3. FromOrg(p, z, n) = x
    BY DEF FromOrg
  <2> HIDE DEF s, t
  <2>4. /\ Listed(x) /\ Len(x) = Len(s) + Len(t)
        /\ \A k \in 1 .. Len(s) : x[k] = s[k]
    BY <2>1, Joined
  <2> HIDE DEF x
  <2>5. x[1] = s[1]
    BY <2>1, <2>4
  <2>6. Len(x) # 0
    BY <2>1, <2>4, ListedIs
  <2>7. x # <<>>
    BY <2>4, <2>6, ListedIs
  <2> QED
    BY <2>2, <2>3, <2>5, <2>7, FiguresAre
<1> DEFINE u == FromOrg(o, y, m)
           v == FromOrg(oo, yy, mm)
<1>3. Decimal(h) \o u = Decimal(hh) \o v
  BY DEF FromHeight
<1>4. Listed(u) /\ Listed(v)
  BY PartsAreListed
<1>5. u # <<>> /\ u[1] \notin Figures /\ v # <<>> /\ v[1] \notin Figures
  BY <1>2
<1> HIDE DEF u, v
<1>6. h = hh /\ u = v
  BY <1>3, <1>4, <1>5, NumbersAreToldApart
<1> QED
  BY <1>6, AfterOrg DEF u, v

LEMMA AfterActor ==
  ASSUME NEW y, Listed(y), NEW m \in Int, NEW o, NEW h \in Int, NEW b, Listed(b),
         NEW yy, Listed(yy), NEW mm \in Int, NEW oo, NEW hh \in Int, NEW bb, Listed(bb),
         FromActor(b, h, o, y, m) = FromActor(bb, hh, oo, yy, mm)
  PROVE  b = bb /\ h = hh /\ o = oo /\ y = yy /\ m = mm
<1> DEFINE z == <<",", "height">>
           u == FromHeight(h, o, y, m)
           v == FromHeight(hh, oo, yy, mm)
<1>1. EncodeText(b) \o (z \o u) = EncodeText(bb) \o (z \o v)
  BY DEF FromActor
<1>2. Listed(u) /\ Listed(v)
  BY PartsAreListed
<1>3. Listed(z)
  BY Pair
<1> HIDE DEF z, u, v
<1>4. Listed(z \o u) /\ Listed(z \o v)
  BY <1>2, <1>3, Joined
<1>5. b = bb /\ z \o u = z \o v
  <2> DEFINE t == z \o u
             w == z \o v
  <2>1. Listed(t) /\ Listed(w) /\ Then(EncodeText(b), t) = Then(EncodeText(bb), w)
    BY <1>1, <1>4 DEF Then
  <2> HIDE DEF t, w
  <2>2. b = bb /\ t = w
    BY <2>1, TextsApart
  <2> QED
    BY <2>2 DEF t, w
<1>6. u = v
  BY <1>2, <1>3, <1>5, SameParts
<1> QED
  BY <1>5, <1>6, AfterHeight DEF u, v

LEMMA AfterAction ==
  ASSUME NEW y, Listed(y), NEW m \in Int, NEW o, NEW h \in Int, NEW b, Listed(b),
         NEW a, Listed(a),
         NEW yy, Listed(yy), NEW mm \in Int, NEW oo, NEW hh \in Int, NEW bb, Listed(bb),
         NEW aa, Listed(aa),
         FromAction(a, b, h, o, y, m) = FromAction(aa, bb, hh, oo, yy, mm)
  PROVE  a = aa /\ b = bb /\ h = hh /\ o = oo /\ y = yy /\ m = mm
<1> DEFINE z == <<",", "actor">>
           u == FromActor(b, h, o, y, m)
           v == FromActor(bb, hh, oo, yy, mm)
<1>1. EncodeText(a) \o (z \o u) = EncodeText(aa) \o (z \o v)
  BY DEF FromAction
<1>2. Listed(u) /\ Listed(v)
  BY PartsAreListed
<1>3. Listed(z)
  BY Pair
<1> HIDE DEF z, u, v
<1>4. Listed(z \o u) /\ Listed(z \o v)
  BY <1>2, <1>3, Joined
<1>5. a = aa /\ z \o u = z \o v
  <2> DEFINE t == z \o u
             w == z \o v
  <2>1. Listed(t) /\ Listed(w) /\ Then(EncodeText(a), t) = Then(EncodeText(aa), w)
    BY <1>1, <1>4 DEF Then
  <2> HIDE DEF t, w
  <2>2. a = aa /\ t = w
    BY <2>1, TextsApart
  <2> QED
    BY <2>2 DEF t, w
<1>6. u = v
  BY <1>2, <1>3, <1>5, SameParts
<1> QED
  BY <1>5, <1>6, AfterActor DEF u, v

\* The parts of a record with what follows it, grouped from the left and from the right.
FromLeft(h, a, c, b, d, n, o, y, z, m) ==
  Then(Then(Then(Then(Then(Then(Then(Then(Then(h, a), c), b), d), n), o), y), z), m)

FromRight(h, a, c, b, d, n, o, y, z, m) ==
  Then(h, Then(a, Then(c, Then(b, Then(d, Then(n, Then(o, Then(Then(y, z), m))))))))

LEMMA Regrouped ==
  \A h, a, c, b, d, n, o, y, z, m :
    /\ Listed(h) /\ Listed(a) /\ Listed(c) /\ Listed(b) /\ Listed(d)
    /\ Listed(n) /\ Listed(o) /\ Listed(y) /\ Listed(z) /\ Listed(m)
    => FromLeft(h, a, c, b, d, n, o, y, z, m) = FromRight(h, a, c, b, d, n, o, y, z, m)
<1> TAKE h, a, c, b, d, n, o, y, z, m
<1> HAVE /\ Listed(h) /\ Listed(a) /\ Listed(c) /\ Listed(b) /\ Listed(d)
         /\ Listed(n) /\ Listed(o) /\ Listed(y) /\ Listed(z) /\ Listed(m)
<1> DEFINE l1 == Then(h, a)
           l2 == Then(l1, c)
           l3 == Then(l2, b)
           l4 == Then(l3, d)
           l5 == Then(l4, n)
           l6 == Then(l5, o)
           l7 == Then(l6, y)
           r1 == Then(Then(y, z), m)
           r2 == Then(o, r1)
           r3 == Then(n, r2)
           r4 == Then(d, r3)
           r5 == Then(b, r4)
           r6 == Then(c, r5)
           r7 == Then(a, r6)
<1>1. Listed(l1)
  BY ThenIs, Zenon
<1> HIDE DEF l1
<1>2. Listed(l2)
  BY <1>1, ThenIs, Zenon
<1> HIDE DEF l2
<1>3. Listed(l3)
  BY <1>2, ThenIs, Zenon
<1> HIDE DEF l3
<1>4. Listed(l4)
  BY <1>3, ThenIs, Zenon
<1> HIDE DEF l4
<1>5. Listed(l5)
  BY <1>4, ThenIs, Zenon
<1> HIDE DEF l5
<1>6. Listed(l6)
  BY <1>5, ThenIs, Zenon
<1> HIDE DEF l6
<1>7. Listed(l7)
  BY <1>6, ThenIs, Zenon
<1> HIDE DEF l7
<1>8. Listed(Then(y, z)) /\ Listed(r1)
  BY ThenIs, Zenon
<1> HIDE DEF r1
<1>9. Listed(r2)
  BY <1>8, ThenIs, Zenon
<1> HIDE DEF r2
<1>10. Listed(r3)
  BY <1>9, ThenIs, Zenon
<1> HIDE DEF r3
<1>11. Listed(r4)
  BY <1>10, ThenIs, Zenon
<1> HIDE DEF r4
<1>12. Listed(r5)
  BY <1>11, ThenIs, Zenon
<1> HIDE DEF r5
<1>13. Listed(r6)
  BY <1>12, ThenIs, Zenon
<1> HIDE DEF r6
<1>14. Listed(r7)
  BY <1>13, ThenIs, Zenon
<1> HIDE DEF r7
<1>15. Then(Then(l7, z), m) = Then(l6, r1)
  <2>1. Then(l7, z) = Then(l6, Then(y, z))
    BY <1>6, ThenIs DEF l7
  <2>2. Then(Then(l6, Then(y, z)), m) = Then(l6, r1)
    BY <1>6, <1>8, ThenIs DEF r1
  <2> QED
    BY <2>1, <2>2, Zenon
<1>16. Then(l6, r1) = Then(l5, r2)
  BY <1>5, <1>8, ThenIs DEF l6, r2
<1>17. Then(l5, r2) = Then(l4, r3)
  BY <1>4, <1>9, ThenIs DEF l5, r3
<1>18. Then(l4, r3) = Then(l3, r4)
  BY <1>3, <1>10, ThenIs DEF l4, r4
<1>19. Then(l3, r4) = Then(l2, r5)
  BY <1>2, <1>11, ThenIs DEF l3, r5
<1>20. Then(l2, r5) = Then(l1, r6)
  BY <1>1, <1>12, ThenIs DEF l2, r6
<1>21. Then(l1, r6) = Then(h, r7)
  BY <1>13, ThenIs DEF l1, r7
<1>22. Then(Then(l7, z), m) = Then(h, r7)
  BY <1>15, <1>16, <1>17, <1>18, <1>19, <1>20, <1>21, Zenon
<1> QED
  BY <1>22 DEF l1, l2, l3, l4, l5, l6, l7, r1, r2, r3, r4, r5, r6, r7, FromLeft, FromRight

HeadPart == <<"{", "action">>
LinkPart(prev) == <<IF prev = Absent THEN "zeros" ELSE prev>>

\* What an entry is hashed from, grouped from the right.
LEMMA PreimageIs ==
  \A p, a, b, h, o, y, m :
    /\ Listed(a) /\ Listed(b) /\ h \in Int /\ Listed(y) /\ m \in Int
    => PreimageOf(p, RecordOf(o, h, a, b, y), m)
         = Then(LinkPart(p), Then(HeadPart, FromAction(a, b, h, o, y, m)))
<1> SUFFICES ASSUME NEW p, NEW a, NEW b, NEW h \in Int, NEW o, NEW y, NEW m \in Int,
                    Listed(a), Listed(b), Listed(y)
             PROVE  PreimageOf(p, RecordOf(o, h, a, b, y), m)
                      = Then(LinkPart(p), Then(HeadPart, FromAction(a, b, h, o, y, m)))
  OBVIOUS
<1> DEFINE hd == HeadPart
           ea == EncodeText(a)
           cm == <<",", "actor">>
           eb == EncodeText(b)
           dm == <<",", "height">>
           nh == Decimal(h)
           og == OrgPart(o)
           br == <<"}">>
           mm == Decimal(m)
           pr == LinkPart(p)
           record == Then(Then(Then(Then(Then(Then(Then(Then(hd, ea), cm), eb), dm), nh), og), y), br)
           rest == Then(ea, Then(cm, Then(eb, Then(dm, Then(nh, Then(og, Then(Then(y, br), mm)))))))
<1>1. RecordOf(o, h, a, b, y) = record
  BY DEF RecordOf, OrgPart, HeadPart, Then
<1>2. PreimageOf(p, record, m) = Then(Then(pr, record), mm)
  <2> HIDE DEF record
  <2> QED
    BY DEF PreimageOf, LinkPart, Then
<1>3. FromAction(a, b, h, o, y, m) = rest
  BY DEF FromAction, FromActor, FromHeight, FromOrg, FromPayload, Then
<1>4. Listed(hd) /\ Listed(cm) /\ Listed(dm) /\ Listed(br) /\ Listed(pr)
  BY Single, Pair DEF HeadPart, LinkPart
<1>5. Listed(ea) /\ Listed(eb) /\ Listed(og)
  BY TextIsListed, OrgPartIs
<1>6. Listed(nh) /\ Listed(mm)
  BY DecimalsDiffer DEF IsFigures
<1> HIDE DEF hd, ea, cm, eb, dm, nh, og, br, mm, pr
<1>7. Then(record, mm) = Then(hd, rest)
  <2>1. FromLeft(hd, ea, cm, eb, dm, nh, og, y, br, mm)
          = FromRight(hd, ea, cm, eb, dm, nh, og, y, br, mm)
    BY <1>4, <1>5, <1>6, Regrouped
  <2> QED
    BY <2>1 DEF FromLeft, FromRight
<1>8. Listed(record)
  BY <1>4, <1>5, <1>6, ThenIs, Zenon
<1> HIDE DEF record, rest
<1>9. Then(Then(pr, record), mm) = Then(pr, Then(record, mm))
  BY <1>4, <1>6, <1>8, ThenIs
<1>10. PreimageOf(p, RecordOf(o, h, a, b, y), m) = Then(pr, Then(hd, FromAction(a, b, h, o, y, m)))
  BY <1>1, <1>2, <1>3, <1>7, <1>9, Zenon
<1> QED
  BY <1>10 DEF pr, hd
LEMMA ActionIsListed ==
  ASSUME NEW y, Listed(y), NEW m \in Int, NEW o, NEW h \in Int, NEW b, Listed(b),
         NEW a, Listed(a)
  PROVE  Listed(FromAction(a, b, h, o, y, m))
<1> DEFINE z == <<",", "actor">>
           t == FromActor(b, h, o, y, m)
<1>1. Listed(z) /\ Listed(t) /\ Listed(EncodeText(a))
  BY Pair, PartsAreListed, TextIsListed
<1> HIDE DEF z, t
<1>2. Listed(z \o t)
  BY <1>1, Joined
<1>3. Listed(EncodeText(a) \o (z \o t))
  BY <1>1, <1>2, Joined
<1> QED
  BY <1>3 DEF FromAction, z, t

LEMMA PartsOfThen ==
  \A s, t, u, v :
    /\ Listed(s) /\ Listed(t) /\ Listed(u) /\ Listed(v)
    /\ Then(s, u) = Then(t, v) /\ Len(s) = Len(t)
    => s = t /\ u = v
<1> SUFFICES ASSUME NEW s, Listed(s), NEW t, Listed(t), NEW u, Listed(u), NEW v, Listed(v),
                    Then(s, u) = Then(t, v), Len(s) = Len(t)
             PROVE  s = t /\ u = v
  OBVIOUS
<1> QED
  BY SameParts DEF Then
\* Two entries are hashed from the same bytes only when they bear the same link,
\* the same organisation, height, action, actor and time, and a payload of the
\* same bytes (canonical_record and entry_hash of chain.rs): nothing an author
\* writes in a text, and no digit of a payload, passes for another field.
THEOREM PreimagesAreToldApart ==
  ASSUME NEW prev, prev # "zeros", NEW link, link # "zeros",
         NEW org, NEW height \in Int, NEW action, Listed(action), NEW actor, Listed(actor),
         NEW payload, Listed(payload), NEW micros \in Int,
         NEW org2, NEW height2 \in Int, NEW action2, Listed(action2), NEW actor2, Listed(actor2),
         NEW payload2, Listed(payload2), NEW micros2 \in Int,
         PreimageOf(prev, RecordOf(org, height, action, actor, payload), micros)
           = PreimageOf(link, RecordOf(org2, height2, action2, actor2, payload2), micros2)
  PROVE  /\ prev = link /\ org = org2 /\ height = height2
         /\ action = action2 /\ actor = actor2
         /\ payload = payload2 /\ micros = micros2
<1> DEFINE z == HeadPart
           p == LinkPart(prev)
           q == LinkPart(link)
           u == FromAction(action, actor, height, org, payload, micros)
           v == FromAction(action2, actor2, height2, org2, payload2, micros2)
<1>1. Then(p, Then(z, u)) = Then(q, Then(z, v))
  <2>1. PreimageOf(prev, RecordOf(org, height, action, actor, payload), micros)
          = Then(p, Then(z, u))
    BY PreimageIs
  <2>2. PreimageOf(link, RecordOf(org2, height2, action2, actor2, payload2), micros2)
          = Then(q, Then(z, v))
    BY PreimageIs
  <2> HIDE DEF p, q, z, u, v
  <2> QED
    BY <2>1, <2>2, Zenon
<1>2. /\ Listed(p) /\ Len(p) = 1 /\ p[1] = IF prev = Absent THEN "zeros" ELSE prev
      /\ Listed(q) /\ Len(q) = 1 /\ q[1] = IF link = Absent THEN "zeros" ELSE link
  BY Single DEF LinkPart
<1>3. Listed(z)
  BY Pair DEF HeadPart
<1>4. Listed(u) /\ Listed(v)
  BY ActionIsListed
<1> HIDE DEF z, p, q, u, v
<1>5. Listed(Then(z, u)) /\ Listed(Then(z, v))
  BY <1>3, <1>4, ThenIs, Zenon
<1>6. p = q /\ Then(z, u) = Then(z, v)
  <2>1. Len(p) = Len(q)
    BY <1>2
  <2> DEFINE a == Then(z, u)
             b == Then(z, v)
  <2>2. Listed(p) /\ Listed(q) /\ Listed(a) /\ Listed(b) /\ Then(p, a) = Then(q, b)
    BY <1>1, <1>2, <1>5
  <2> HIDE DEF a, b
  <2>3. p = q /\ a = b
    BY <2>1, <2>2, PartsOfThen
  <2> QED
    BY <2>3 DEF a, b
<1>7. u = v
  BY <1>3, <1>4, <1>6, PartsOfThen
<1>8. prev = link
  BY <1>2, <1>6, Zenon
<1> QED
  BY <1>7, <1>8, AfterAction DEF u, v

LEMMA DigestsAreToldApart ==
  ASSUME NEW d, Listed(d), NEW e, Listed(e)
  PROVE  /\ Listed(AttestationOf(d))
         /\ AttestationOf(d) = AttestationOf(e) => d = e
<1> DEFINE h == <<"{", "content_digest">>
           z == <<"}">>
           s == EncodeText(d)
           t == EncodeText(e)
<1>1. AttestationOf(d) = (h \o s) \o z /\ AttestationOf(e) = (h \o t) \o z
  BY DEF AttestationOf
<1>2. Listed(h) /\ Listed(z)
  BY Single, Pair
<1>3. Listed(s) /\ Listed(t)
  BY TextIsListed
<1> HIDE DEF h, z, s, t
<1> DEFINE a == h \o s
           b == h \o t
<1>4. Listed(a) /\ Listed(b)
  BY <1>2, <1>3, Joined
<1>5. a = b => s = t
  <2>1. SUFFICES ASSUME h \o s = h \o t PROVE s = t
    OBVIOUS
  <2> QED
    BY <1>2, <1>3, <2>1, SameParts
<1> HIDE DEF a, b
<1>6. ASSUME a \o z = b \o z PROVE a = b
  BY <1>2, <1>4, <1>6, SameEnds
<1>7. s = t => d = e
  <2>1. ASSUME s = t PROVE d = e
    <3>1. Then(EncodeText(d), z) = Then(EncodeText(e), z)
      BY <2>1 DEF s, t
    <3> QED
      BY <1>2, <3>1, TextsApart
  <2> QED
    BY <2>1
<1>8. Listed(a \o z)
  BY <1>2, <1>4, Joined
<1>9. AttestationOf(d) = a \o z /\ AttestationOf(e) = b \o z
  BY <1>1 DEF a, b
<1> QED
  BY <1>5, <1>6, <1>7, <1>8, <1>9

\* The entries of the store, whose payload is the digest of their content
\* (attestation_payload of driver.rs): the bytes that are hashed tell what was
\* attested, by whom, in which organisation, at which height and when.
THEOREM AttestationsAreToldApart ==
  ASSUME NEW prev, prev # "zeros", NEW link, link # "zeros",
         NEW org, NEW height \in Int, NEW action, Listed(action), NEW actor, Listed(actor),
         NEW digest, Listed(digest), NEW micros \in Int,
         NEW org2, NEW height2 \in Int, NEW action2, Listed(action2), NEW actor2, Listed(actor2),
         NEW digest2, Listed(digest2), NEW micros2 \in Int,
         PreimageOf(prev, RecordOf(org, height, action, actor, AttestationOf(digest)), micros)
           = PreimageOf(link, RecordOf(org2, height2, action2, actor2, AttestationOf(digest2)),
                        micros2)
  PROVE  /\ prev = link /\ org = org2 /\ height = height2
         /\ action = action2 /\ actor = actor2
         /\ digest = digest2 /\ micros = micros2
<1> DEFINE p == AttestationOf(digest)
           q == AttestationOf(digest2)
<1>1. Listed(p) /\ Listed(q)
  BY DigestsAreToldApart
<1>2. p = q => digest = digest2
  BY DigestsAreToldApart
<1> HIDE DEF p, q
<1>3. PreimageOf(prev, RecordOf(org, height, action, actor, p), micros)
        = PreimageOf(link, RecordOf(org2, height2, action2, actor2, q), micros2)
  BY DEF p, q
<1>4. /\ prev = link /\ org = org2 /\ height = height2
      /\ action = action2 /\ actor = actor2 /\ p = q /\ micros = micros2
  BY <1>1, <1>3, PreimagesAreToldApart
<1> QED
  BY <1>2, <1>4

\* The time an entry bears is the microsecond the clock of the driver was in,
\* before the epoch as after it (micros_from_epoch of driver.rs over
\* Timestamp::from_unix_nanos), or the bound of i64 the clock is beyond; a later
\* clock never gives an earlier time.
THEOREM SealedTimeIsTheClock ==
  ASSUME NEW clock \in Int, NEW later \in Int, clock <= later
  PROVE  /\ MicrosFromEpoch(SinceEpoch(clock)) \in MinMicros .. MaxMicros
         /\ clock \div 1000 \in MinMicros .. MaxMicros =>
              /\ 1000 * MicrosFromEpoch(SinceEpoch(clock)) <= clock
              /\ clock < 1000 * MicrosFromEpoch(SinceEpoch(clock)) + 1000
         /\ MicrosFromEpoch(SinceEpoch(clock)) <= MicrosFromEpoch(SinceEpoch(later))
<1>1. MaxMicros \in Nat /\ MinMicros \in Int /\ MinMicros = -MaxMicros - 1
  <2>1. MaxMicros \in Nat
    BY EncodingAssumption
  <2> QED
    BY <2>1 DEF MinMicros
<1>2. ASSUME NEW t \in Int PROVE MicrosFromEpoch(SinceEpoch(t)) = FromUnixNanos(t)
  <2>1. CASE t >= 0
    BY <2>1 DEF MicrosFromEpoch, SinceEpoch
  <2>2. CASE ~(t >= 0)
    <3>1. - -t = t
      OBVIOUS
    <3>2. SinceEpoch(t) = [ok |-> FALSE, nanos |-> -t]
      BY <2>2 DEF SinceEpoch
    <3> QED
      BY <3>1, <3>2 DEF MicrosFromEpoch
  <2> QED
    BY <2>1, <2>2
<1>3. ASSUME NEW t \in Int
      PROVE  /\ t \div 1000 \in Int /\ 1000 * (t \div 1000) <= t /\ t < 1000 * (t \div 1000) + 1000
  OBVIOUS
<1> DEFINE m(t) == FromUnixNanos(t)
<1>4. ASSUME NEW t \in Int
      PROVE  /\ m(t) \in MinMicros .. MaxMicros
             /\ t \div 1000 > MaxMicros => m(t) = MaxMicros
             /\ t \div 1000 < MinMicros => m(t) = MinMicros
             /\ t \div 1000 \in MinMicros .. MaxMicros => m(t) = t \div 1000
  BY <1>1, <1>3 DEF FromUnixNanos
<1>5. clock \div 1000 <= later \div 1000
  <2> DEFINE c == clock \div 1000
             d == later \div 1000
  <2>1. c \in Int /\ d \in Int /\ 1000 * c <= clock /\ later < 1000 * d + 1000
    BY <1>3
  <2> HIDE DEF c, d
  <2>2. c <= d
    BY <2>1
  <2> QED
    BY <2>2 DEF c, d
<1> HIDE DEF m
<1>6. m(clock) <= m(later)
  <2> DEFINE c == clock \div 1000
             d == later \div 1000
             k == m(clock)
             l == m(later)
  <2>1. /\ c \in Int /\ d \in Int /\ c <= d
        /\ k \in MinMicros .. MaxMicros /\ l \in MinMicros .. MaxMicros
        /\ c > MaxMicros => k = MaxMicros
        /\ c < MinMicros => k = MinMicros
        /\ c \in MinMicros .. MaxMicros => k = c
        /\ d > MaxMicros => l = MaxMicros
        /\ d < MinMicros => l = MinMicros
        /\ d \in MinMicros .. MaxMicros => l = d
    BY <1>3, <1>4, <1>5
  <2> HIDE DEF c, d, k, l
  <2>2. k <= l
    BY <1>1, <2>1
  <2> QED
    BY <2>2 DEF k, l
<1>7. MicrosFromEpoch(SinceEpoch(clock)) = m(clock) /\ MicrosFromEpoch(SinceEpoch(later)) = m(later)
  BY <1>2 DEF m
<1>8. clock \div 1000 \in MinMicros .. MaxMicros =>
        1000 * m(clock) <= clock /\ clock < 1000 * m(clock) + 1000
  BY <1>3, <1>4
<1> QED
  BY <1>4, <1>6, <1>7, <1>8

=============================================================================
