------------------------------ MODULE MCPrompt ------------------------------
(***************************************************************************)
(* compile on every list of at most MaxSegments segments; any text may be  *)
(* an instruction as well as an external content that imitates it.         *)
(***************************************************************************)
EXTENDS Prompt

CONSTANTS
  Alphabet,      \* characters
  Prose,         \* texts, some longer than MaxDocumentChars
  Labels,        \* provenances
  MaxSegments    \* bound: segments of a list

ASSUME MessageAssumption == Prose \subseteq Seq(Alphabet) /\ Unset \notin Prose

VARIABLE segments

InitMessage == segments = <<>>

NextMessage ==
  /\ Len(segments) < MaxSegments
  /\ \E text \in Prose :
       \/ segments' = Append(segments, SystemInstruction(text))
       \/ segments' = Append(segments, UserRequest(text))
       \/ \E label \in Labels : segments' = Append(segments, ExternalContent(text, label))

SpecMessage == InitMessage /\ [][NextMessage]_segments

-----------------------------------------------------------------------------
From(origin) == {k \in DOMAIN segments : segments[k].origin = origin}

\* The segments that say again what only one may say.
Repeated ==
  {k \in DOMAIN segments :
     /\ segments[k].origin # "external"
     /\ \E j \in 1 .. k - 1 : segments[j].origin = segments[k].origin}

\* Whatever external contents say, however many they are and wherever they
\* stand among the segments (compile of prompt.rs), the instructions, or the
\* error, are those of the other segments alone; the documents are the external
\* contents, in their order, with their provenance and verbatim, but for a cut
\* that is announced exactly when something is missing.
ExternalContentIsConfined ==
  LET out     == Compile(segments)
      outside == From("external")
  IN  /\ CASE Repeated # {} ->
                out.error = IF segments[Min(Repeated)].origin = "system"
                            THEN "duplicate_system" ELSE "duplicate_user"
           [] Repeated = {} /\ From("system") = {} -> out.error = "missing_system"
           [] Repeated = {} /\ From("system") # {} /\ From("user") = {} ->
                out.error = "missing_user"
           [] OTHER -> /\ out.error = "none"
                       /\ \A k \in From("system") : out.system = segments[k].text
                       /\ \A k \in From("user") : out.user_request = segments[k].text
      /\ out.error = "none" =>
           /\ Len(out.documents) = Cardinality(outside)
           /\ \A k \in outside :
                LET d == out.documents[Cardinality({j \in outside : j <= k})] IN
                /\ d.label = segments[k].label
                /\ IsPrefix(d.content, segments[k].text)
                /\ Len(d.content) <= MaxDocumentChars
                /\ d.truncated <=> d.content # segments[k].text

=============================================================================
