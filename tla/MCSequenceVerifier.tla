------------------------- MODULE MCSequenceVerifier -------------------------
(***************************************************************************)
(* verify_sequence on every journal of at most MaxLength records: a        *)
(* journal grows by one record per step, of any kind for any call.         *)
(***************************************************************************)
EXTENDS SequenceVerifier

CONSTANTS Calls, MaxLength

VARIABLE records

InitJournal == records = <<>>

NextJournal ==
  /\ Len(records) < MaxLength
  /\ \E k \in Kinds, c \in Calls : records' = Append(records, Record(k, c))

SpecJournal == InitJournal /\ [][NextJournal]_records

-----------------------------------------------------------------------------
\* A call is open when it has an intention and no closure after it, whatever
\* the violations around it; the journal is accepted exactly when every call
\* is an intention, alone or followed by one closure (verify_sequence of
\* records.rs).
OpenCallsAreInformation ==
  /\ OpenCalls(records) =
       {c \in Calls : /\ Opened(records, DOMAIN records, c)
                      /\ ~ClosedCall(records, DOMAIN records, c)}
  /\ Violations(records) = {} <=> \A c \in Calls : ToldOnce(records, c)

\* Each violation bears the position and the call of a record, and the name
\* its past gives it; every record that breaks a rule is reported, and no
\* other (verify_sequence of records.rs).
EveryFaultIsNamed ==
  LET faulty == {p \in DOMAIN records : FaultAt(records, 1 .. p - 1, p) # "none"}
  IN  Violations(records) =
        {[position |-> p - 1, call |-> records[p].call,
          kind |-> FaultAt(records, 1 .. p - 1, p)] : p \in faulty}

=============================================================================
