---------------------------- MODULE MCCanonical ----------------------------
(***************************************************************************)
(* Two entries an author may want in the chain, `left` and `right`: any    *)
(* two payloads of small domains, then any two entries whose fields share  *)
(* the characters that separate them.                                      *)
(***************************************************************************)
EXTENDS Canonical

CONSTANTS o1, o2, h1    \* organisations, a hash

MCControls == "U+0001" :> 1 @@ "U+001F" :> 31

Characters == {"\"", "\\", "\n", "n", ",", "U+0001", "U+001F"}

Scalars == {Null, Bool(TRUE), Bool(FALSE), Int64(-1), Int64(0), Int64(1), Int64(11)}

Texts == {Text(t) : t \in BoundedSeq(Characters, 2)}

\* What the elements of a compound value are.
Elements == {Null, Int64(1), Int64(11), Text(<<>>), Text(<<",">>), Text(<<"\"", ",", "\"">>),
             Array(<<>>), Array(<<Int64(1)>>)}

Arrays == {Array(items) : items \in BoundedSeq(Elements, 2)}

Keys == {<<>>, <<"a">>, <<"a", "\"">>, <<"\"", ":", "\"">>}

Objects ==
  UNION {{Object(entries) : entries \in [keys -> {Null, Int64(1), Text(<<"\"">>), Object(<<>>)}]} :
           keys \in {ks \in SUBSET Keys : Cardinality(ks) <= 2}}

Payloads == Scalars \cup Texts \cup Arrays \cup Objects

Names == {<<>>, <<"a">>, <<"\"", ",">>}

\* What the clock of the driver may show, in nanoseconds since the epoch.
Clocks == {-1001, -1000, -1, 0, 999, 1000, 11000}

Entry(org, height, prev, action, actor, payload, clock) ==
  [org |-> org, height |-> height, prev |-> prev, clock |-> clock,
   content |-> [action |-> action, actor |-> actor, payload |-> payload,
                timestamp_micros |-> MicrosFromEpoch(SinceEpoch(clock))]]

Entries ==
  {Entry(o, h[1], h[2], action, <<"a">>, p, 1000) :
     o \in {o1, o2}, h \in {<<0, Absent>>, <<1, h1>>, <<11, h1>>},
     action \in Names, p \in {Int64(1), Int64(11), Text(<<"}">>)}}
    \cup
  {Entry(o1, 0, Absent, action, actor, Int64(1), c) : action \in Names, actor \in Names, c \in Clocks}

VARIABLES left, right

pair == <<left, right>>

NoEntry == <<>>

WithPayload(p) == Entry(o1, 0, Absent, <<>>, <<>>, p, 0)

InitEntries ==
  /\ left \in Entries \cup {WithPayload(p) : p \in Payloads}
  /\ right = NoEntry

\* The other entry: any payload beside a payload, any entry beside an entry.
NextEntries ==
  /\ right = NoEntry
  /\ UNCHANGED left
  /\ \/ left \in Entries /\ right' \in Entries
     \/ left \notin Entries /\ \E p \in Payloads : right' = WithPayload(p)

SpecEntries == InitEntries /\ [][NextEntries]_pair

-----------------------------------------------------------------------------
Bytes(e) == Preimage(e.org, e.height, e.prev, e.content)

\* The microsecond the clock was in, when an entry can bear it.
Moment(e) == IF e.clock \div 1000 > MaxMicros THEN MaxMicros ELSE e.clock \div 1000

\* Two entries that differ are never hashed from the same bytes, whatever
\* separators, escapes, digits or control characters their texts hold, before
\* the epoch as after it (entry_hash of chain.rs over canonical.rs, the clock
\* of driver.rs): a hash tells one entry, in one microsecond.
EncodingIsInjective ==
  (right # NoEntry /\ Bytes(left) = Bytes(right)) =>
    /\ [left EXCEPT !.clock = 0] = [right EXCEPT !.clock = 0]
    /\ Moment(left) = Moment(right)

=============================================================================
