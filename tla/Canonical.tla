----------------------------- MODULE Canonical -----------------------------
(***************************************************************************)
(* The canonical encoding of a payload, kollega-audit/src/canonical.rs,    *)
(* and the entry that bears it (chain.rs).                                 *)
(***************************************************************************)
EXTENDS Encoding

-----------------------------------------------------------------------------
(***************************************************************************)
(* Values                                                                  *)
(***************************************************************************)
Null == [type |-> "null"]
Bool(b) == [type |-> "bool", bool |-> b]
Int64(i) == [type |-> "int", int |-> i]
Text(chars) == [type |-> "text", chars |-> chars]
Array(items) == [type |-> "array", items |-> items]

\* The keys of a BTreeMap are unique and sorted; `entries` maps keys to values.
Object(entries) == [type |-> "object", entries |-> entries]

-----------------------------------------------------------------------------
\* Code points, as far as two keys are compared by them.
CodePoint(c) ==
  CASE c \in DOMAIN Controls -> Controls[c]
    [] c = "\t" -> 9 [] c = "\n" -> 10 [] c = "\r" -> 13
    [] c = "\"" -> 34 [] c = "," -> 44 [] c = ":" -> 58 [] c = "\\" -> 92
    [] c = "a" -> 97 [] c = "n" -> 110 [] c = "}" -> 125

\* The order of BTreeMap on String: byte by byte, a prefix first.
KeyPrecedes(a, b) ==
  \/ IsStrictPrefix(a, b)
  \/ \E k \in DOMAIN a \cap DOMAIN b :
       /\ SubSeq(a, 1, k - 1) = SubSeq(b, 1, k - 1)
       /\ CodePoint(a[k]) < CodePoint(b[k])

\* Comma-separated parts between two delimiters.
Enclosed(open, parts, close) ==
  <<open>>
    \o FlattenSeq([k \in DOMAIN parts |-> (IF k = 1 THEN <<>> ELSE <<",">>) \o parts[k]])
    \o <<close>>

RECURSIVE Encode(_)
Encode(v) ==
  CASE v.type = "null"  -> <<"n", "u", "l", "l">>
    [] v.type = "bool"  -> IF v.bool THEN <<"t", "r", "u", "e">> ELSE <<"f", "a", "l", "s", "e">>
    [] v.type = "int"   -> Decimal(v.int)
    [] v.type = "text"  -> EncodeText(v.chars)
    [] v.type = "array" -> Enclosed("[", [k \in DOMAIN v.items |-> Encode(v.items[k])], "]")
    [] v.type = "object" ->
         LET keys == SetToSortSeq(DOMAIN v.entries, KeyPrecedes)
         IN  Enclosed("{", [k \in DOMAIN keys |->
                              EncodeText(keys[k]) \o <<":">> \o Encode(v.entries[keys[k]])], "}")

-----------------------------------------------------------------------------
\* canonical_record
CanonicalRecord(org, height, content) ==
  RecordOf(org, height, content.action, content.actor, Encode(content.payload))

\* entry_hash, before SHA-256
Preimage(org, height, prev, content) ==
  PreimageOf(prev, CanonicalRecord(org, height, content), content.timestamp_micros)

=============================================================================
