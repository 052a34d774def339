------------------------------- MODULE Policy -------------------------------
(***************************************************************************)
(* The decision engine of kollega-policy/src/lib.rs: a pure function of    *)
(* the rules of an organisation and of a tool call.  It is what the        *)
(* verdicts of module Machine stand for.                                   *)
(*                                                                         *)
(* A path is the sequence of its segments, what split('/') makes of it:    *)
(* "/data/a" is <<"", "data", "a">>, "/" is <<"", "">>.  A segment that    *)
(* contains a backslash is the segment Backslash.                          *)
(***************************************************************************)
EXTENDS Integers, Sequences, SequencesExt

CONSTANTS
  None,        \* Option::None
  Backslash    \* a segment with the separator the engine refuses

-----------------------------------------------------------------------------
\* Bound::hard has no threshold; Bound::two_tier refuses a threshold above the
\* hard limit, so no bound has one.
Bounds(values) ==
  {b \in [threshold : values \cup {None}, hard_limit : values] :
     b.threshold # None => b.threshold <= b.hard_limit}

\* Mutated: the threshold is looked at before the hard limit.
TierExclusive(bound, value) ==
  CASE bound.threshold # None /\ value > bound.threshold -> "approval"
    [] bound.threshold = None /\ value > bound.hard_limit -> "beyond"
    [] OTHER -> "within"

\* Bound::tier, both limits included.
Tier(bound, value) ==
  CASE value > bound.hard_limit -> "beyond"
    [] value <= bound.hard_limit /\ bound.threshold # None /\ value > bound.threshold
                                -> "approval"
    [] OTHER                    -> "within"

\* An amount or a number of recipients: nothing to say without a bound; a value
\* that is not declared under a bound violates the protocol.
ScalarTier(bound, value) ==
  CASE bound = None                  -> "within"
    [] bound # None /\ value = None  -> "beyond"
    [] OTHER                         -> Tier(bound, value)

-----------------------------------------------------------------------------
\* trim_end_matches('/'): the empty segments at the end are dropped, and nothing
\* is left of "" and of "/".
Trimmed(prefix) ==
  SubSeq(prefix, 1, Max({0} \cup {k \in DOMAIN prefix : prefix[k] # ""}))

\* path_is_under: equal to the prefix, or below it, segment by segment; an
\* empty prefix covers nothing.
IsUnder(path, prefix) ==
  Trimmed(prefix) # <<>> /\ IsPrefix(Trimmed(prefix), path)

\* A separator that depends on the target, or a way up.
Ambiguous(path) == \E k \in DOMAIN path : path[k] \in {Backslash, ".."}

Outside(bound, path) ==
  \A k \in DOMAIN bound.allowed_prefixes : ~IsUnder(path, bound.allowed_prefixes[k])

\* The restriction of paths: a malformed rule, no path declared and an
\* ambiguous path are refused whatever the mode of the bound.
PathTier(bound, paths) ==
  CASE bound = None -> "within"
    [] bound # None /\
       \/ \E k \in DOMAIN bound.allowed_prefixes :
            Trimmed(bound.allowed_prefixes[k]) = <<>>
       \/ paths = <<>>
       \/ \E k \in DOMAIN paths : Ambiguous(paths[k])
       \/ /\ bound.on_exceed = "deny"
          /\ \E k \in DOMAIN paths : Outside(bound, paths[k])
         -> "beyond"
    [] OTHER ->
         IF \E k \in DOMAIN paths : Outside(bound, paths[k]) THEN "approval" ELSE "within"

-----------------------------------------------------------------------------
\* A rule that allows its tool: a hard limit is a refusal, whatever else would
\* have asked for an approval.
Bounded(rule, request) ==
  LET tiers == {ScalarTier(rule.amount, request.amount),
                ScalarTier(rule.recipients, request.recipient_count),
                PathTier(rule.paths, request.paths)}
  IN  CASE "beyond" \in tiers -> "deny"
        [] "beyond" \notin tiers /\ ("approval" \in tiers \/ rule.requires_approval)
                               -> "require_approval"
        [] OTHER               -> "allow"

For(rules, tool) == {k \in DOMAIN rules : rules[k].tool_name = tool}

\* Mutated: the last rule for the tool wins.
GoverningLast(rules, tool) == rules[Max(For(rules, tool))]

\* The first rule for a tool governs it.
Governing(rules, tool) == rules[Min(For(rules, tool))]

\* decide
Decision(rules, request) ==
  LET tool == request.tool_name
  IN  CASE For(rules, tool) = {}                                         -> "deny"
        [] For(rules, tool) # {} /\ ~Governing(rules, tool).allowed      -> "deny"
        [] OTHER -> Bounded(Governing(rules, tool), request)

=============================================================================
