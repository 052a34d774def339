------------------------------ MODULE Encoding ------------------------------
(***************************************************************************)
(* The bytes an audit entry is hashed from, but for its payload: texts and *)
(* integers as kollega-audit/src/canonical.rs writes them, the record and  *)
(* the preimage of OrgChain::entry_hash (chain.rs), and the time that      *)
(* closes it, of kollega-core (timestamp.rs) and of the driver's clock.    *)
(* Module Canonical has the payload.                                       *)
(*                                                                         *)
(* A text is a sequence of characters.                                     *)
(***************************************************************************)
EXTENDS Integers, Sequences, SequencesExt

CONSTANTS
  Absent,      \* Option::None
  MaxMicros,   \* the bound of i64
  Controls     \* the control characters without a short form, and their codes

ASSUME EncodingAssumption ==
  /\ MaxMicros \in Nat \ {0}
  /\ Controls \in Injection(DOMAIN Controls, 0 .. 31)
  /\ DOMAIN Controls \cap {"\\", "\"", "\n", "\r", "\t"} = {}

-----------------------------------------------------------------------------
Digits == <<"0", "1", "2", "3", "4", "5", "6", "7", "8", "9", "a", "b", "c", "d", "e", "f">>

HexDigits(n) == <<Digits[(n \div 16) + 1], Digits[(n % 16) + 1]>>

Decimal(i) ==
  LET natural[n \in Nat] ==
        (IF n < 10 THEN <<>> ELSE natural[n \div 10]) \o <<Digits[(n % 10) + 1]>>
  IN  IF i < 0 THEN <<"-">> \o natural[-i] ELSE natural[i]

\* Mutated: a backslash is written as it is.
EscapedButBackslash(c) ==
  CASE c = "\\" -> <<c>>
    [] c = "\"" -> <<"\\", c>>
    [] c = "\n" -> <<"\\", "n">>
    [] c = "\r" -> <<"\\", "r">>
    [] c = "\t" -> <<"\\", "t">>
    [] c \in DOMAIN Controls -> <<"\\", "u", "0", "0">> \o HexDigits(Controls[c])
    [] OTHER    -> <<c>>

\* One character of encode_text; what is not escaped is written verbatim.
Escaped(c) ==
  CASE c \in {"\\", "\""} -> <<"\\", c>>
    [] c = "\n" -> <<"\\", "n">>
    [] c = "\r" -> <<"\\", "r">>
    [] c = "\t" -> <<"\\", "t">>
    [] c \in DOMAIN Controls -> <<"\\", "u", "0", "0">> \o HexDigits(Controls[c])
    [] OTHER    -> <<c>>

EncodeText(chars) ==
  <<"\"">> \o FlattenSeq([k \in DOMAIN chars |-> Escaped(chars[k])]) \o <<"\"">>

-----------------------------------------------------------------------------
(***************************************************************************)
(* The preimage of an entry: the hash it is linked to, which is one symbol *)
(* as its length is fixed, the record, the time.  An organisation and the  *)
(* name of a field, with its quotes and its colon, are one symbol as well. *)
(***************************************************************************)
\* attestation_payload of the driver, encoded: the digest alone.
AttestationOf(digest) == <<"{", "content_digest">> \o EncodeText(digest) \o <<"}">>

\* canonical_record, `payload` being encoded
RecordOf(org, height, action, actor, payload) ==
  <<"{", "action">> \o EncodeText(action)
    \o <<",", "actor">> \o EncodeText(actor)
    \o <<",", "height">> \o Decimal(height)
    \o <<",", "org_id", org, ",", "payload">> \o payload
    \o <<"}">>

\* What entry_hash feeds SHA-256 with.
PreimageOf(prev, record, micros) ==
  <<IF prev = Absent THEN "zeros" ELSE prev>> \o record \o Decimal(micros)

-----------------------------------------------------------------------------
(***************************************************************************)
(* Time                                                                    *)
(***************************************************************************)
MinMicros == -MaxMicros - 1

\* Mutated: `/` of Rust, which truncates towards zero.
FromUnixNanosTruncating(nanos) ==
  LET micros == IF nanos < 0 THEN -((-nanos) \div 1000) ELSE nanos \div 1000
  IN  IF micros > MaxMicros THEN MaxMicros ELSE IF micros < MinMicros THEN MinMicros ELSE micros

\* Timestamp::from_unix_nanos: div_euclid, saturated.
FromUnixNanos(nanos) ==
  LET micros == nanos \div 1000
  IN  IF micros > MaxMicros THEN MaxMicros ELSE IF micros < MinMicros THEN MinMicros ELSE micros

\* micros_from_epoch on what duration_since answers: a distance to the epoch,
\* in its error when the clock is before it.
MicrosFromEpoch(offset) ==
  FromUnixNanos(IF offset.ok THEN offset.nanos ELSE -offset.nanos)

\* SystemTime::duration_since
SinceEpoch(clock) ==
  IF clock >= 0 THEN [ok |-> TRUE, nanos |-> clock] ELSE [ok |-> FALSE, nanos |-> -clock]

=============================================================================
