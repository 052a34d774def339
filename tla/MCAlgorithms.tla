---------------------------- MODULE MCAlgorithms ----------------------------
(***************************************************************************)
(* The pure algorithms, each on every input of its MC module: a behaviour  *)
(* is about one of them, its subject, and leaves the inputs of the others  *)
(* as they were.  The properties are those of the MC modules; they hold of *)
(* the inputs of an algorithm that is not the subject as well.             *)
(***************************************************************************)
EXTENDS MCSequenceVerifier, MCPolicy, MCPrompt, MCCanonical

CONSTANTS mail, read      \* tools, and provenances

VARIABLE subject          \* the algorithm of the behaviour

vars == <<subject, records, rules, request, segments, left, right>>

-----------------------------------------------------------------------------
\* Nothing excludes a negative amount.
MCAmounts == {None, -1, 1, 2, 3}

MCCounts == {None, 0, 2}

MCAmountBounds == Bounds({0, 2}) \cup {None}

MCCountBounds == {None, [threshold |-> None, hard_limit |-> 1],
                  [threshold |-> 0, hard_limit |-> 2]}

MCSegments == {"", "data", "a", "data-autre", "..", "etc", Backslash}

Data == <<"", "data">>
Inside == <<"", "data", "a">>
Beside == <<"", "data-autre">>
Upwards == <<"", "data", "..", "etc">>

MCPathBounds ==
  {None} \cup [allowed_prefixes : {<<>>, <<<<"", "data", "">>>>, <<Data, <<"", "">>>>},
               on_exceed : {"deny", "require_approval"}]

MCPathLists == {<<>>, <<Inside>>, <<Beside>>, <<Upwards>>}

MCMorePaths == {Inside, Beside, Upwards}

MCProse == {<<>>, <<"a", "b">>, <<"a", "b", "a">>}

-----------------------------------------------------------------------------
Subjects == {"journal", "rules", "message", "entries"}

\* The inputs of an algorithm that is not the subject.
NoRequest == [tool_name |-> mail, amount |-> None, recipient_count |-> None, paths |-> <<>>]

NoneBut(s) ==
  /\ subject = s
  /\ s # "journal" => records = <<>>
  /\ s # "rules" => rules = <<>> /\ request = NoRequest
  /\ s # "message" => segments = <<>>
  /\ s # "entries" => left = NoEntry /\ right = NoEntry

Init ==
  \/ NoneBut("journal") /\ InitJournal
  \/ NoneBut("rules") /\ InitRules /\ request.tool_name = mail
  \/ NoneBut("message") /\ InitMessage
  \/ NoneBut("entries") /\ InitEntries

Next ==
  /\ UNCHANGED subject
  /\ \/ subject = "journal" /\ NextJournal /\ UNCHANGED <<policy, segments, pair>>
     \/ subject = "rules" /\ NextRules /\ UNCHANGED <<records, segments, pair>>
     \/ subject = "message" /\ NextMessage /\ UNCHANGED <<records, policy, pair>>
     \/ subject = "entries" /\ NextEntries /\ UNCHANGED <<records, policy, segments>>

Spec == Init /\ [][Next]_vars

=============================================================================
