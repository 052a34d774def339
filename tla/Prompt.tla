------------------------------- MODULE Prompt -------------------------------
(***************************************************************************)
(* compile of kollega-core/src/prompt.rs: segments of three origins become *)
(* the structured message of a model provider.  A text is a sequence of    *)
(* characters: what is cut is a number of characters.                      *)
(***************************************************************************)
EXTENDS Naturals, Sequences, SequencesExt

CONSTANTS
  MaxDocumentChars,   \* AssemblyLimits: characters kept of an external content
  Unset               \* Option::None

ASSUME PromptAssumption == MaxDocumentChars \in Nat

-----------------------------------------------------------------------------
(***************************************************************************)
(* Segments.  The label of an external content stands for its provenance   *)
(* and its classification, which are carried together.                     *)
(***************************************************************************)
SystemInstruction(text) == [origin |-> "system", text |-> text, label |-> Unset]
UserRequest(text) == [origin |-> "user", text |-> text, label |-> Unset]
ExternalContent(text, label) == [origin |-> "external", text |-> text, label |-> label]

\* Mutated: a document of exactly the limit is said to be cut.
BoundTight(text) ==
  [content   |-> IF Len(text) > MaxDocumentChars THEN SubSeq(text, 1, MaxDocumentChars) ELSE text,
   truncated |-> Len(text) >= MaxDocumentChars]

\* bound: a verbatim prefix, and whether something is missing.
Bound(text) ==
  [content |-> IF Len(text) > MaxDocumentChars THEN SubSeq(text, 1, MaxDocumentChars) ELSE text,
   truncated |-> Len(text) > MaxDocumentChars]

Document(segment) ==
  [label     |-> segment.label,
   content   |-> Bound(segment.text).content,
   truncated |-> Bound(segment.text).truncated]

-----------------------------------------------------------------------------
EmptyDraft == [error |-> "none", system |-> Unset, user_request |-> Unset, documents |-> <<>>]

Failed(error) == [EmptyDraft EXCEPT !.error = error]

\* One turn of the loop; an error returns, whatever comes after it.
Read(draft, segment) ==
  CASE draft.error # "none" -> draft
    [] draft.error = "none" /\ segment.origin = "system" ->
         IF draft.system # Unset THEN Failed("duplicate_system")
         ELSE [draft EXCEPT !.system = segment.text]
    [] draft.error = "none" /\ segment.origin = "user" ->
         IF draft.user_request # Unset THEN Failed("duplicate_user")
         ELSE [draft EXCEPT !.user_request = segment.text]
    [] draft.error = "none" /\ segment.origin = "external" ->
         [draft EXCEPT !.documents = Append(@, Document(segment))]

\* Both instructions must have been met; the system instruction is asked first.
Closed(draft) ==
  CASE draft.error # "none" -> draft
    [] draft.error = "none" /\ draft.system = Unset -> Failed("missing_system")
    [] draft.error = "none" /\ draft.system # Unset /\ draft.user_request = Unset ->
         Failed("missing_user")
    [] OTHER -> draft

Compile(segments) == Closed(FoldLeft(Read, EmptyDraft, segments))

=============================================================================
