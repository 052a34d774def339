----------------------------- MODULE AuditChain -----------------------------
(***************************************************************************)
(* The hash chain of an organisation (kollega-audit/src/chain.rs) and the  *)
(* anchors a witness keeps of its head (anchor.rs), over a storage that    *)
(* may lose, alter, repeat or reorder what it was given.                   *)
(*                                                                         *)
(* SHA-256 over the canonical encoding is taken as injective (module       *)
(* Canonical): a hash is the tuple of what it digests, nested down to the  *)
(* first entry.  The digest of an entry stands for its actor, its payload  *)
(* and its time; the call of its row (tool_call_id) is a column beside     *)
(* what is hashed.                                                         *)
(***************************************************************************)
EXTENDS Integers, Sequences, SequencesExt

CONSTANTS
  Orgs,        \* organisations
  Contents,    \* what is chained: [action, digest, call]
  Zero,        \* 32 zero bytes
  MaxLength,   \* bound: length of the stored chain
  MaxDamages,  \* bound: accidents of the storage
  MaxAnchors   \* bound: anchors published

-----------------------------------------------------------------------------
\* Option::None: no digest, no call and no hash is the empty tuple.
None == <<>>

ASSUME AuditChainAssumption ==
  /\ \A c \in Contents : c.digest # None
  /\ \A b, c \in Contents : <<b.action, b.digest>> = <<c.action, c.digest>> => b = c
  /\ {MaxLength, MaxDamages, MaxAnchors} \subseteq Nat

Hashed(content) == <<content.action, content.digest>>

\* entry_hash: a missing link is hashed as zeros.
EntryHash(org, height, prev, content) ==
  <<org, height, IF prev = None THEN Zero ELSE prev, Hashed(content)>>

StoredEntry(org, height, prev, content) ==
  [content |-> content, height |-> height, prev_hash |-> prev,
   hash |-> EntryHash(org, height, prev, content)]

\* OrgChain::append after the last stored entry, true or not.
Chained(org, entries, content) ==
  IF entries = <<>> THEN StoredEntry(org, 0, None, content)
  ELSE StoredEntry(org, Last(entries).height + 1, Last(entries).hash, content)

-----------------------------------------------------------------------------
\* Mutated: the stored link is trusted.
ExpectedPrevAsStored(entries, k) == entries[k].prev_hash

ExpectedPrev(entries, k) == IF k = 1 THEN None ELSE entries[k - 1].hash

BreakAt(org, entries, k) ==
  LET e == entries[k] IN
  CASE e.height # k - 1 \/ e.prev_hash # ExpectedPrev(entries, k) -> "broken_link"
    [] /\ e.height = k - 1 /\ e.prev_hash = ExpectedPrev(entries, k)
       /\ EntryHash(org, e.height, e.prev_hash, e.content) # e.hash -> "altered_entry"
    [] OTHER -> "none"

\* OrgChain::verify: the kind of the first break, or "ok".
Verify(org, entries) ==
  LET broken == {k \in DOMAIN entries : BreakAt(org, entries, k) # "none"}
  IN  IF broken = {} THEN "ok" ELSE BreakAt(org, entries, Min(broken))

\* head_anchor
HeadAnchor(org, entries) ==
  [org_id |-> org, height |-> Last(entries).height, head |-> Last(entries).hash]

\* Mutated: only the presence of the anchored height is checked.
VerifyHeightWithAnchor(org, entries, anchor) ==
  CASE anchor.org_id # org                            -> "wrong_organization"
    [] anchor.org_id = org /\ Verify(org, entries) # "ok" -> Verify(org, entries)
    [] anchor.org_id = org /\ Verify(org, entries) = "ok"
       /\ anchor.height >= Len(entries)               -> "truncated_below_anchor"
    [] OTHER                                          -> "ok"

\* verify_with_anchor: the prefix up to the anchored height is guaranteed.
VerifyWithAnchor(org, entries, anchor) ==
  CASE anchor.org_id # org                            -> "wrong_organization"
    [] anchor.org_id = org /\ Verify(org, entries) # "ok" -> Verify(org, entries)
    [] anchor.org_id = org /\ Verify(org, entries) = "ok"
       /\ anchor.height >= Len(entries)               -> "truncated_below_anchor"
    [] anchor.org_id = org /\ Verify(org, entries) = "ok"
       /\ anchor.height < Len(entries)
       /\ entries[anchor.height + 1].hash # anchor.head -> "head_mismatch"
    [] OTHER                                          -> "ok"

\* Mutated: the tail is looked for anywhere in the chain.
VerifyWithTailInside(org, entries, tail) ==
  CASE Verify(org, entries) # "ok" -> Verify(org, entries)
    [] Verify(org, entries) = "ok"
       /\ \A k \in DOMAIN entries : entries[k].hash # tail -> "tail_mismatch"
    [] OTHER -> "ok"

\* verify_with_tail
VerifyWithTail(org, entries, tail) ==
  CASE Verify(org, entries) # "ok" -> Verify(org, entries)
    [] Verify(org, entries) = "ok"
       /\ (IF entries = <<>> THEN None ELSE Last(entries).hash) # tail -> "tail_mismatch"
    [] OTHER -> "ok"

-----------------------------------------------------------------------------
VARIABLES
  org,       \* the organisation whose chain it is
  stored,    \* the entries as they are read
  told,      \* the contents ever chained on the present tail, since the beginning
  anchors,   \* what the witness accepted, with the contents below each anchor
  damages    \* accidents of the storage

vars == <<org, stored, told, anchors, damages>>

Init ==
  /\ org \in Orgs
  /\ stored = <<>>
  /\ told = <<>>
  /\ anchors = <<>>
  /\ damages = 0

AppendEntry ==
  /\ Len(stored) < MaxLength
  /\ \E c \in Contents :
       /\ stored' = Append(stored, Chained(org, stored, c))
       /\ told' = Append(told, c)
  /\ UNCHANGED <<org, anchors, damages>>

Latest == Last(anchors).anchor

\* HeightRegressed
Regresses(anchor) == anchors # <<>> /\ anchor.height < Latest.height

\* publish, by a caller that anchors the head it has just verified.
Publish ==
  /\ stored # <<>>
  /\ Len(anchors) < MaxAnchors
  /\ Verify(org, stored) = "ok"
  /\ ~Regresses(HeadAnchor(org, stored))
  /\ anchors' = Append(anchors, [anchor |-> HeadAnchor(org, stored), below |-> told])
  /\ UNCHANGED <<org, stored, told, damages>>

-----------------------------------------------------------------------------
Damage(entries) ==
  /\ damages < MaxDamages
  /\ damages' = damages + 1
  /\ stored' = entries
  /\ told' = [k \in DOMAIN entries |-> entries[k].content]
  /\ UNCHANGED <<org, anchors>>

\* The storage goes back to an earlier backup: the last entries are lost.
LoseTail == stored # <<>> /\ Damage(Front(stored))

LoseEntry == \E k \in DOMAIN stored : Damage(RemoveAt(stored, k))

SwapEntries ==
  \E k \in DOMAIN stored \ {1} :
    Damage([stored EXCEPT ![k] = stored[k - 1], ![k - 1] = stored[k]])

RepeatEntry == stored # <<>> /\ Damage(Append(stored, Last(stored)))

AlterContent ==
  \E k \in DOMAIN stored, c \in Contents :
    /\ Hashed(c) # Hashed(stored[k].content)
    /\ Damage([stored EXCEPT ![k].content = [c EXCEPT !.call = stored[k].content.call]])

LoseDigest == \E k \in DOMAIN stored : Damage([stored EXCEPT ![k].content.digest = None])

\* The column beside the hash.
AlterCall ==
  \E k \in DOMAIN stored, call \in {c.call : c \in Contents} :
    call # stored[k].content.call /\ Damage([stored EXCEPT ![k].content.call = call])

\* A link replaced by the zeros that stand for a missing one.
AlterLink == stored # <<>> /\ Damage([stored EXCEPT ![1].prev_hash = Zero])

Next ==
  \/ AppendEntry \/ Publish
  \/ LoseTail \/ LoseEntry \/ SwapEntries \/ RepeatEntry
  \/ AlterContent \/ LoseDigest \/ AlterCall \/ AlterLink

Spec == Init /\ [][Next]_vars

-----------------------------------------------------------------------------
(***************************************************************************)
(* Properties                                                              *)
(***************************************************************************)
\* The chain append makes of a sequence of contents.
ChainOf(contents) ==
  LET chain[k \in 0 .. Len(contents)] ==
        IF k = 0 THEN <<>>
        ELSE Append(chain[k - 1], Chained(org, chain[k - 1], contents[k]))
  IN  chain[Len(contents)]

\* What the hashes of some contents hold.
HeldBy(contents) == [k \in DOMAIN contents |-> Hashed(contents[k])]

\* verify accepts exactly what append makes of some contents: every other
\* storage, however it came to be, is denounced, and so is the chain of an
\* organisation when it is shown as the chain of another one.
VerifyAcceptsExactlyTheChains ==
  \A o \in Orgs :
    Verify(o, stored) = "ok" <=>
      /\ o = org \/ stored = <<>>
      /\ stored = ChainOf([k \in DOMAIN stored |-> stored[k].content])

\* A chain that verifies against an anchor begins with the very entries that
\* were hashed there when the anchor was published, even when the witness has
\* taken since another head at the same height; whatever the storage went
\* through, a chain that no longer does is refused, and an anchor proves
\* nothing for another organisation.
AnchorsHoldThePast ==
  \A k \in DOMAIN anchors, o \in Orgs :
    VerifyWithAnchor(o, stored, anchors[k].anchor) = "ok" <=>
      /\ o = org
      /\ stored = ChainOf(told)
      /\ IsPrefix(HeldBy(anchors[k].below), HeldBy(told))

\* The tail of the last anchor accepts the chain it saw and no other one, not
\* even a longer one.
TailHoldsTheWholeChain ==
  \A k \in DOMAIN anchors :
    VerifyWithTail(org, stored, anchors[k].anchor.head) = "ok" <=>
      stored = ChainOf(told) /\ HeldBy(told) = HeldBy(anchors[k].below)

=============================================================================
