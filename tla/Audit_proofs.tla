---------------------------- MODULE Audit_proofs ----------------------------
(***************************************************************************)
(* The hash chain: what verify accepts, what an anchor and a tail prove,   *)
(* for chains of any length and any number of accidents and of anchors.    *)
(* The step from an entry to the next is a search for the first entry that *)
(* would be otherwise: a set of positions that is not empty has a least    *)
(* one.                                                                    *)
(***************************************************************************)
EXTENDS AuditCommand, Foundations

-----------------------------------------------------------------------------
(***************************************************************************)
(* The chain                                                               *)
(***************************************************************************)
Bodies(s) == [k \in DOMAIN s |-> s[k].content]

\* s is the chain append makes of the contents c for the organisation o.
IsChain(o, s, c) ==
  /\ Listed(s) /\ Len(s) = Len(c)
  /\ \A k \in 1 .. Len(c) : s[k] = StoredEntry(o, k - 1, ExpectedPrev(s, k), c[k])

\* The fields of an entry.
IsEntry(e) ==
  e = [content |-> e.content, height |-> e.height, prev_hash |-> e.prev_hash, hash |-> e.hash]

LEMMA StoredIs ==
  ASSUME NEW o, NEW h, NEW p, NEW c
  PROVE  /\ StoredEntry(o, h, p, c).content = c
         /\ StoredEntry(o, h, p, c).height = h
         /\ StoredEntry(o, h, p, c).prev_hash = p
         /\ StoredEntry(o, h, p, c).hash = EntryHash(o, h, p, c)
         /\ IsEntry(StoredEntry(o, h, p, c))
BY DEF StoredEntry, IsEntry

LEMMA BodiesOfList ==
  ASSUME NEW s, Listed(s)
  PROVE  /\ Listed(Bodies(s)) /\ Len(Bodies(s)) = Len(s)
         /\ \A k \in 1 .. Len(s) : Bodies(s)[k] = s[k].content
<1>1. Len(s) \in Nat /\ DOMAIN s = 1 .. Len(s)
  BY ListedIs
<1>2. Bodies(s) = [k \in 1 .. Len(s) |-> s[k].content]
  BY <1>1 DEF Bodies
<1>3. DOMAIN Bodies(s) = 1 .. Len(s) /\ Bodies(s) = [k \in 1 .. Len(s) |-> Bodies(s)[k]]
  BY <1>2
<1> QED
  BY <1>1, <1>2, <1>3, IsListed

\* There is one chain of some contents.
LEMMA ChainIsUnique ==
  ASSUME NEW o, NEW c, NEW s, IsChain(o, s, c), NEW t, IsChain(o, t, c)
  PROVE  s = t
<1> DEFINE n == Len(c)
           B == {k \in 1 .. n : s[k] # t[k]}
<1>1. n \in Nat /\ Len(s) = n /\ Len(t) = n /\ Listed(s) /\ Listed(t)
  BY ListedIs DEF IsChain
<1>2. ASSUME B # {} PROVE FALSE
  <2>1. PICK b \in B : \A k \in B : b <= k
    <3>1. B \in SUBSET (0 .. n)
      BY <1>1
    <3> HIDE DEF B, n
    <3> QED
      BY <1>1, <1>2, <3>1, LeastPosition
  <2>2. b \in 1 .. n /\ s[b] # t[b]
    OBVIOUS
  <2>3. b - 1 \in 1 .. n => s[b - 1] = t[b - 1]
    BY <1>1, <2>1, <2>2
  <2>4. ExpectedPrev(s, b) = ExpectedPrev(t, b)
    BY <1>1, <2>2, <2>3 DEF ExpectedPrev
  <2> QED
    BY <2>2, <2>4 DEF IsChain
<1>3. \A k \in 1 .. Len(s) : s[k] = t[k]
  BY <1>1, <1>2
<1> QED
  BY <1>1, <1>3, SameList

\* One content more.
LEMMA ChainGoesOn ==
  ASSUME NEW o, NEW c, Listed(c), NEW n \in 0 .. Len(c) - 1,
         NEW s, IsChain(o, s, SubSeq(c, 1, n))
  PROVE  IsChain(o, Append(s, Chained(o, s, c[n + 1])), SubSeq(c, 1, n + 1))
<1> DEFINE a == SubSeq(c, 1, n)
           b == SubSeq(c, 1, n + 1)
           e == Chained(o, s, c[n + 1])
           t == Append(s, e)
<1>1. Len(c) \in Nat
  BY ListedIs
<1>2. Len(a) = n /\ Len(b) = n + 1 /\ \A k \in 1 .. n : a[k] = c[k]
  BY <1>1, CutList
<1>3. \A k \in 1 .. n + 1 : b[k] = c[k]
  BY <1>1, CutList
<1>4. /\ Listed(s) /\ Len(s) = n
      /\ \A k \in 1 .. n : s[k] = StoredEntry(o, k - 1, ExpectedPrev(s, k), a[k])
  BY <1>2 DEF IsChain
<1>5. /\ Listed(t) /\ Len(t) = n + 1 /\ \A k \in 1 .. n : t[k] = s[k]
      /\ t[n + 1] = e
  BY <1>4, Appended
<1>6. ASSUME NEW k \in 1 .. n
      PROVE  t[k] = StoredEntry(o, k - 1, ExpectedPrev(t, k), b[k])
  <2>1. k # 1 => k - 1 \in 1 .. n
    BY <1>1
  <2>2. ExpectedPrev(t, k) = ExpectedPrev(s, k)
    BY <1>5, <2>1 DEF ExpectedPrev
  <2>3. b[k] = a[k]
    BY <1>1, <1>2, <1>3
  <2> QED
    BY <1>4, <1>5, <2>2, <2>3
<1>7. t[n + 1] = StoredEntry(o, n, ExpectedPrev(t, n + 1), b[n + 1])
  <2>1. b[n + 1] = c[n + 1]
    BY <1>1, <1>3
  <2>2. CASE n = 0
    <3>1. s = <<>>
      BY <1>4, <2>2, ListedIs
    <3>2. e = StoredEntry(o, 0, None, c[n + 1])
      BY <3>1 DEF Chained
    <3>3. ExpectedPrev(t, n + 1) = None
      BY <2>2 DEF ExpectedPrev
    <3> QED
      BY <1>5, <2>1, <2>2, <3>2, <3>3
  <2>3. CASE n # 0
    <3>1. s # <<>> /\ Last(s) = s[n] /\ n \in 1 .. n
      BY <1>1, <1>4, <2>3, ListedIs DEF Last
    <3>2. s[n].height = n - 1
      BY <1>4, <3>1, StoredIs
    <3>3. e = StoredEntry(o, n - 1 + 1, s[n].hash, c[n + 1])
      BY <3>1, <3>2 DEF Chained
    <3>4. n - 1 + 1 = n /\ n + 1 - 1 = n /\ n + 1 # 1
      BY <1>1, <2>3
    <3>5. ExpectedPrev(t, n + 1) = s[n].hash
      BY <1>5, <3>1, <3>4 DEF ExpectedPrev
    <3> QED
      BY <1>5, <2>1, <3>3, <3>4, <3>5
  <2> QED
    BY <2>2, <2>3
<1> HIDE DEF a, b, e, t
<1>8. \A k \in 1 .. n + 1 : t[k] = StoredEntry(o, k - 1, ExpectedPrev(t, k), b[k])
  <2>1. ASSUME NEW k \in 1 .. n + 1
        PROVE  t[k] = StoredEntry(o, k - 1, ExpectedPrev(t, k), b[k])
    <3>1. k \in 1 .. n \/ (k = n + 1 /\ k - 1 = n)
      BY <1>1
    <3> QED
      BY <1>6, <1>7, <3>1
  <2> QED
    BY <2>1
<1>9. IsChain(o, t, b)
  BY <1>2, <1>5, <1>8 DEF IsChain
<1> QED
  BY <1>9 DEF t, b, e
\* The chains of the first contents, up to the n-th.
Grown(g, c, k) == IF k = 0 THEN <<>> ELSE Append(g[k - 1], Chained(org, g[k - 1], c[k]))

IsTower(g, c, n) == g = [k \in 0 .. n |-> Grown(g, c, k)]

Tower(c) == CHOOSE g : IsTower(g, c, Len(c))

LEMMA ChainOfIsTop ==
  ASSUME NEW c
  PROVE  ChainOf(c) = Tower(c)[Len(c)]
BY DEF ChainOf, Tower, IsTower, Grown

LEMMA TowerExists ==
  ASSUME NEW c, Listed(c)
  PROVE  IsTower(Tower(c), c, Len(c))
<1> DEFINE m == Len(c)
           B == {n \in 0 .. m : ~ \E g : IsTower(g, c, n)}
<1>1. m \in Nat
  BY ListedIs
<1>2. ASSUME B # {} PROVE FALSE
  <2>1. PICK b \in B : \A k \in B : b <= k
    <3>1. B \in SUBSET (0 .. m)
      OBVIOUS
    <3> HIDE DEF B, m
    <3> QED
      BY <1>1, <1>2, <3>1, LeastPosition
  <2>2. b \in 0 .. m /\ ~ \E g : IsTower(g, c, b)
    OBVIOUS
  <2>3. CASE b = 0
    <3> DEFINE g == [k \in 0 .. 0 |-> <<>>]
    <3>1. g = [k \in 0 .. 0 |-> Grown(g, c, k)]
      <4>1. \A k \in 0 .. 0 : Grown(g, c, k) = <<>>
        BY DEF Grown
      <4> QED
        BY <4>1
    <3>2. IsTower(g, c, 0)
      BY <3>1 DEF IsTower
    <3> QED
      BY <2>2, <2>3, <3>2
  <2>4. CASE b # 0
    <3>1. b - 1 \in 0 .. m /\ ~(b <= b - 1)
      BY <1>1, <2>2, <2>4
    <3>2. PICK g : IsTower(g, c, b - 1)
      BY <2>1, <3>1
    <3> DEFINE h == [k \in 0 .. b |-> Grown(g, c, k)]
    <3>3. \A k \in 0 .. b - 1 : g[k] = Grown(g, c, k)
      BY <3>2 DEF IsTower
    <3>4. \A k \in 0 .. b - 1 : h[k] = g[k]
      BY <1>1, <2>2, <3>3
    <3>5. ASSUME NEW k \in 0 .. b PROVE Grown(h, c, k) = Grown(g, c, k)
      <4>1. k # 0 => k - 1 \in 0 .. b - 1
        BY <1>1, <2>2
      <4>2. k # 0 => h[k - 1] = g[k - 1]
        BY <3>4, <4>1
      <4> HIDE DEF h
      <4> QED
        BY <4>2 DEF Grown
    <3>6. h = [k \in 0 .. b |-> Grown(h, c, k)]
      BY <3>5
    <3>7. IsTower(h, c, b)
      BY <3>6 DEF IsTower
    <3> QED
      BY <2>2, <3>7
  <2> QED
    BY <2>3, <2>4
<1>3. \E g : IsTower(g, c, m)
  BY <1>1, <1>2
<1> QED
  BY <1>3 DEF Tower

\* What append makes of some contents is their chain.
LEMMA ChainOfIs ==
  ASSUME NEW c, Listed(c)
  PROVE  IsChain(org, ChainOf(c), c)
<1> DEFINE m == Len(c)
           g == Tower(c)
           B == {n \in 0 .. m : ~ IsChain(org, g[n], SubSeq(c, 1, n))}
<1>1. m \in Nat
  BY ListedIs
<1>2. \A n \in 0 .. m : g[n] = Grown(g, c, n)
  <2>1. IsTower(g, c, m)
    BY TowerExists
  <2> HIDE DEF g, m
  <2> QED
    BY <2>1 DEF IsTower
<1>3. ASSUME B # {} PROVE FALSE
  <2>1. PICK b \in B : \A k \in B : b <= k
    <3>1. B \in SUBSET (0 .. m)
      OBVIOUS
    <3> HIDE DEF B, m
    <3> QED
      BY <1>1, <1>3, <3>1, LeastPosition
  <2>2. b \in 0 .. m /\ ~ IsChain(org, g[b], SubSeq(c, 1, b)) /\ g[b] = Grown(g, c, b)
    BY <1>2
  <2>3. CASE b = 0
    <3>1. g[b] = <<>>
      BY <2>2, <2>3 DEF Grown
    <3>2. Len(SubSeq(c, 1, 0)) = 0
      BY <1>1, CutList
    <3>3. Listed(<<>>) /\ Len(<<>>) = 0
      BY EmptySeq DEF Listed
    <3>4. IsChain(org, <<>>, SubSeq(c, 1, 0))
      BY <3>2, <3>3 DEF IsChain
    <3> QED
      BY <2>2, <2>3, <3>1, <3>4
  <2>4. CASE b # 0
    <3>1. b - 1 \in 0 .. m - 1 /\ b - 1 \in 0 .. m /\ ~(b <= b - 1) /\ b - 1 + 1 = b
      BY <1>1, <2>2, <2>4
    <3>2. IsChain(org, g[b - 1], SubSeq(c, 1, b - 1))
      BY <2>1, <3>1
    <3> HIDE DEF g, B
    <3>3. IsChain(org, Append(g[b - 1], Chained(org, g[b - 1], c[b - 1 + 1])),
                  SubSeq(c, 1, b - 1 + 1))
      BY <3>1, <3>2, ChainGoesOn
    <3>4. g[b] = Append(g[b - 1], Chained(org, g[b - 1], c[b]))
      BY <2>2, <2>4 DEF Grown
    <3> QED
      BY <2>2, <3>1, <3>3, <3>4
  <2> QED
    BY <2>3, <2>4
<1>4. IsChain(org, g[m], SubSeq(c, 1, m))
  BY <1>1, <1>3
<1>5. SubSeq(c, 1, m) = c
  <2>1. /\ Listed(SubSeq(c, 1, m)) /\ Len(SubSeq(c, 1, m)) = m
        /\ \A k \in 1 .. m : SubSeq(c, 1, m)[k] = c[k]
    BY <1>1, CutList
  <2> QED
    BY <2>1, SameList
<1> QED
  BY <1>4, <1>5, ChainOfIsTop

\* A storage is what append makes of its own contents when each of its entries
\* is chained to the one before it.
LEMMA ChainOfSelf ==
  ASSUME NEW s, Listed(s), NEW c, Listed(c)
  PROVE  s = ChainOf(c) <=> IsChain(org, s, c)
BY ChainOfIs, ChainIsUnique

\* verify accepts the chains.
LEMMA VerifyIs ==
  ASSUME NEW o, NEW s, Listed(s), \A k \in DOMAIN s : IsEntry(s[k])
  PROVE  Verify(o, s) = "ok" <=> IsChain(o, s, Bodies(s))
<1> DEFINE broken == {k \in DOMAIN s : BreakAt(o, s, k) # "none"}
<1>1. /\ Len(s) \in Nat /\ DOMAIN s = 1 .. Len(s)
      /\ Len(Bodies(s)) = Len(s) /\ \A k \in 1 .. Len(s) : Bodies(s)[k] = s[k].content
  BY ListedIs, BodiesOfList
<1>2. \A k : BreakAt(o, s, k) \in {"none", "broken_link", "altered_entry"}
  BY DEF BreakAt
<1>3. Verify(o, s) = "ok" <=> broken = {}
  <2>1. CASE broken = {}
    BY <2>1 DEF Verify
  <2>2. CASE broken # {}
    <3>1. Verify(o, s) = BreakAt(o, s, Min(broken))
      BY <2>2 DEF Verify
    <3>2. Verify(o, s) # "ok"
      BY <1>2, <3>1
    <3> QED
      BY <2>2, <3>2
  <2> QED
    BY <2>1, <2>2
<1>4. ASSUME NEW k \in 1 .. Len(s)
      PROVE  BreakAt(o, s, k) = "none" <=>
               s[k] = StoredEntry(o, k - 1, ExpectedPrev(s, k), Bodies(s)[k])
  <2> DEFINE e == s[k]
             p == ExpectedPrev(s, k)
  <2>1. IsEntry(e) /\ Bodies(s)[k] = e.content
    BY <1>1
  <2>2. BreakAt(o, s, k) = "none" <=>
          e.height = k - 1 /\ e.prev_hash = p /\ e.hash = EntryHash(o, e.height, e.prev_hash, e.content)
    BY DEF BreakAt
  <2> HIDE DEF e, p
  <2>3. ASSUME e = StoredEntry(o, k - 1, p, e.content)
        PROVE  e.height = k - 1 /\ e.prev_hash = p /\ e.hash = EntryHash(o, e.height, e.prev_hash, e.content)
    BY <2>3, StoredIs
  <2>4. ASSUME e.height = k - 1, e.prev_hash = p, e.hash = EntryHash(o, e.height, e.prev_hash, e.content)
        PROVE  e = StoredEntry(o, k - 1, p, e.content)
    BY <2>1, <2>4 DEF IsEntry, StoredEntry
  <2>5. BreakAt(o, s, k) = "none" <=> e = StoredEntry(o, k - 1, p, e.content)
    BY <2>2, <2>3, <2>4
  <2> QED
    BY <2>1, <2>5 DEF e, p
<1>5. broken = {} <=> \A k \in 1 .. Len(s) : BreakAt(o, s, k) = "none"
  BY <1>1
<1> QED
  BY <1>1, <1>3, <1>4, <1>5 DEF IsChain
\* Two chains of an organisation have the same hash at two places exactly when
\* these are at the same height and hold the same below.
LEMMA HashesTell ==
  ASSUME NEW o, NEW c, NEW s, IsChain(o, s, c), NEW d, NEW t, IsChain(o, t, d),
         NEW n \in 1 .. Len(c), NEW m \in 1 .. Len(d)
  PROVE  s[n].hash = t[m].hash <=> n = m /\ \A k \in 1 .. n : Hashed(c[k]) = Hashed(d[k])
<1>1. Len(c) \in Nat /\ Len(d) \in Nat
  BY ListedIs DEF IsChain
<1>2. /\ \A k \in 1 .. Len(c) : s[k].hash = EntryHash(o, k - 1, ExpectedPrev(s, k), c[k])
      /\ \A k \in 1 .. Len(d) : t[k].hash = EntryHash(o, k - 1, ExpectedPrev(t, k), d[k])
  BY StoredIs DEF IsChain
<1>3. /\ \A k \in 1 .. Len(c) : s[k].hash # None /\ s[k].hash[2] = k - 1
      /\ \A k \in 1 .. Len(d) : t[k].hash # None /\ t[k].hash[2] = k - 1
  <2>1. \A a, b, p, e : <<a, b, p, e>> # <<>> /\ <<a, b, p, e>>[2] = b
    OBVIOUS
  <2>2. \A h, p, e : EntryHash(o, h, p, e) # None /\ EntryHash(o, h, p, e)[2] = h
    BY <2>1 DEF EntryHash, None
  <2> QED
    BY <1>2, <2>2
<1>4. s[n].hash = t[m].hash => n = m
  <2>1. s[n].hash[2] = n - 1 /\ t[m].hash[2] = m - 1
    BY <1>3
  <2> QED
    BY <1>1, <2>1
<1> DEFINE Same(k) == s[k].hash = t[k].hash
           Alike(k) == \A j \in 1 .. k : Hashed(c[j]) = Hashed(d[j])
           B == {k \in 1 .. n : ~(Same(k) <=> Alike(k))}
<1>5. ASSUME n = m, B # {} PROVE FALSE
  <2>1. PICK b \in B : \A k \in B : b <= k
    <3>1. B \in SUBSET (0 .. n) /\ n \in Nat
      BY <1>1
    <3> HIDE DEF B
    <3> QED
      BY <1>5, <3>1, LeastPosition
  <2>2. b \in 1 .. n /\ ~(Same(b) <=> Alike(b)) /\ b \in 1 .. Len(c) /\ b \in 1 .. Len(d)
    BY <1>1, <1>5
  <2>3. CASE b = 1
    <3>1. ExpectedPrev(s, b) = None /\ ExpectedPrev(t, b) = None
      BY <2>3 DEF ExpectedPrev
    <3>2. /\ s[b].hash = <<o, b - 1, Zero, Hashed(c[b])>>
          /\ t[b].hash = <<o, b - 1, Zero, Hashed(d[b])>>
      BY <1>2, <2>2, <3>1 DEF EntryHash
    <3>3. Same(b) <=> Hashed(c[b]) = Hashed(d[b])
      BY <3>2
    <3>4. Alike(b) <=> Hashed(c[b]) = Hashed(d[b])
      BY <2>3
    <3> QED
      BY <2>2, <3>3, <3>4
  <2>4. CASE b # 1
    <3>1. /\ b - 1 \in 1 .. n /\ ~(b <= b - 1)
          /\ b - 1 \in 1 .. Len(c) /\ b - 1 \in 1 .. Len(d)
      BY <1>1, <2>2, <2>4
    <3>2. Same(b - 1) <=> Alike(b - 1)
      BY <2>1, <3>1
    <3>3. ExpectedPrev(s, b) = s[b - 1].hash /\ ExpectedPrev(t, b) = t[b - 1].hash
      BY <2>4 DEF ExpectedPrev
    <3>4. s[b - 1].hash # None /\ t[b - 1].hash # None
      BY <1>3, <3>1
    <3>5. /\ s[b].hash = <<o, b - 1, s[b - 1].hash, Hashed(c[b])>>
          /\ t[b].hash = <<o, b - 1, t[b - 1].hash, Hashed(d[b])>>
      BY <1>2, <2>2, <3>3, <3>4 DEF EntryHash
    <3>6. Same(b) <=> Same(b - 1) /\ Hashed(c[b]) = Hashed(d[b])
      BY <3>5
    <3>7. Alike(b) <=> Alike(b - 1) /\ Hashed(c[b]) = Hashed(d[b])
      <4>1. \A j \in 1 .. b : j \in 1 .. b - 1 \/ j = b
        BY <2>2
      <4>2. \A j \in 1 .. b - 1 : j \in 1 .. b
        BY <2>2
      <4> QED
        BY <2>2, <4>1, <4>2
    <3> HIDE DEF Same, Alike
    <3> QED
      BY <2>2, <3>2, <3>6, <3>7
  <2> QED
    BY <2>3, <2>4
<1>6. n = m => (Same(n) <=> Alike(n))
  BY <1>1, <1>5
<1> QED
  BY <1>4, <1>6

-----------------------------------------------------------------------------
(***************************************************************************)
(* What no accident changes: an entry has the fields of an entry, a height *)
(* and a hash of this organisation, and `told` is what is stored.  What an       *)
(* anchor holds is the last hash of the chain of the contents below it.    *)
(***************************************************************************)
OfTheOrg(e) ==
  IsEntry(e) /\ e.height \in Nat /\ \E h, p, c : e.hash = <<org, h, p, c>>

Storage(s) == Listed(s) /\ \A k \in DOMAIN s : OfTheOrg(s[k])

Anchored(a) ==
  /\ Listed(a.below) /\ a.below # <<>>
  /\ a.anchor.org_id = org /\ a.anchor.height = Len(a.below) - 1
  /\ \E s : IsChain(org, s, a.below) /\ a.anchor.head = s[Len(a.below)].hash

Witnessed == Listed(anchors) /\ \A k \in DOMAIN anchors : Anchored(anchors[k])

Kept == Storage(stored) /\ told = Bodies(stored) /\ Witnessed

LEMMA KeptInit == Init => Kept
<1> SUFFICES ASSUME Init PROVE Kept
  OBVIOUS
<1>1. Listed(<<>>) /\ DOMAIN <<>> = {}
  BY EmptySeq DEF Listed
<1>2. Bodies(<<>>) = <<>>
  <2>1. Listed(Bodies(<<>>)) /\ Len(Bodies(<<>>)) = 0
    BY <1>1, BodiesOfList
  <2> QED
    BY <2>1, ListedIs
<1> QED
  BY <1>1, <1>2 DEF Init, Kept, Storage, Witnessed

\* An accident leaves a storage.
LEMMA DamageKeeps ==
  ASSUME Kept, NEW s, Storage(s), Damage(s)
  PROVE  Kept'
<1>1. stored' = s /\ told' = Bodies(s) /\ org' = org /\ anchors' = anchors
  BY DEF Damage, Bodies
<1>2. Storage(stored)' /\ told' = Bodies(stored')
  BY <1>1 DEF Storage, OfTheOrg
<1>3. Witnessed'
  BY <1>1 DEF Kept, Witnessed, Anchored
<1> QED
  BY <1>2, <1>3 DEF Kept, Bodies

\* The same hash, another column.
LEMMA AlteredEntry ==
  ASSUME NEW e, OfTheOrg(e), NEW x
  PROVE  OfTheOrg([e EXCEPT !.content = x]) /\ OfTheOrg([e EXCEPT !.prev_hash = x])
BY DEF OfTheOrg, IsEntry

LEMMA AlteredAt ==
  ASSUME NEW s, Storage(s), NEW n \in DOMAIN s, NEW e, OfTheOrg(e)
  PROVE  Storage([s EXCEPT ![n] = e])
<1> DEFINE t == [s EXCEPT ![n] = e]
<1>1. Len(s) \in Nat /\ DOMAIN s = 1 .. Len(s) /\ s = [k \in 1 .. Len(s) |-> s[k]]
  BY ListedIs DEF Storage
<1>2. DOMAIN t = 1 .. Len(s) /\ t = [k \in 1 .. Len(s) |-> t[k]]
  BY <1>1
<1>3. \A k \in 1 .. Len(s) : t[k] = e \/ t[k] = s[k]
  BY <1>1
<1>4. \A k \in 1 .. Len(s) : OfTheOrg(t[k])
  BY <1>1, <1>3 DEF Storage
<1> HIDE DEF t
<1>5. Storage(t)
  BY <1>1, <1>2, <1>4, IsListed DEF Storage
<1> QED
  BY <1>5 DEF t
LEMMA KeptNext == Kept /\ [Next]_vars => Kept'
<1> SUFFICES ASSUME Kept, [Next]_vars PROVE Kept'
  OBVIOUS
<1>1. /\ Storage(stored) /\ Len(stored) \in Nat /\ DOMAIN stored = 1 .. Len(stored)
      /\ (stored = <<>> <=> Len(stored) = 0)
      /\ Witnessed /\ told = Bodies(stored)
  BY ListedIs DEF Kept, Storage
<1>2. CASE UNCHANGED vars
  BY <1>2 DEF vars, Kept, Storage, OfTheOrg, Witnessed, Anchored, Bodies
<1>3. CASE AppendEntry
  <2>1. PICK c : /\ stored' = Append(stored, Chained(org, stored, c))
                 /\ told' = Append(told, c)
                 /\ org' = org /\ anchors' = anchors
    BY <1>3 DEF AppendEntry
  <2> DEFINE e == Chained(org, stored, c)
             n == Len(stored)
             s == Append(stored, e)
  <2>2. OfTheOrg(e) /\ e.content = c
    <3>1. CASE stored = <<>>
      <4>1. e = StoredEntry(org, 0, None, c)
        BY <3>1 DEF Chained
      <4> QED
        BY <4>1, StoredIs DEF OfTheOrg, EntryHash
    <3>2. CASE stored # <<>>
      <4>1. e = StoredEntry(org, stored[n].height + 1, stored[n].hash, c)
        BY <3>2 DEF Chained, Last
      <4>2. OfTheOrg(stored[n])
        BY <1>1, <3>2 DEF Storage
      <4>3. stored[n].height + 1 \in Nat
        BY <4>2 DEF OfTheOrg
      <4> QED
        BY <4>1, <4>3, StoredIs DEF OfTheOrg, EntryHash
    <3> QED
      BY <3>1, <3>2
  <2> HIDE DEF e
  <2>3. /\ Listed(s) /\ Len(s) = n + 1 /\ \A k \in 1 .. n : s[k] = stored[k]
        /\ s[n + 1] = e
    BY <1>1, Appended DEF Storage
  <2> HIDE DEF s
  <2>4. \A k \in 1 .. n + 1 : k \in 1 .. n \/ k = n + 1
    BY <1>1
  <2>5. Storage(s)
    <3>1. \A k \in 1 .. n + 1 : OfTheOrg(s[k])
      BY <1>1, <2>2, <2>3, <2>4 DEF Storage
    <3>2. DOMAIN s = 1 .. n + 1
      BY <2>3, ListedIs
    <3> QED
      BY <2>3, <3>1, <3>2 DEF Storage
  <2>6. Append(told, c) = Bodies(s)
    <3>1. Listed(told) /\ Len(told) = n /\ \A k \in 1 .. n : told[k] = stored[k].content
      BY <1>1, BodiesOfList DEF Storage
    <3>2. /\ Listed(Append(told, c)) /\ Len(Append(told, c)) = n + 1
          /\ \A k \in 1 .. n : Append(told, c)[k] = told[k]
          /\ Append(told, c)[n + 1] = c
      BY <3>1, Appended
    <3>3. /\ Listed(Bodies(s)) /\ Len(Bodies(s)) = n + 1
          /\ \A k \in 1 .. n + 1 : Bodies(s)[k] = s[k].content
      BY <2>3, BodiesOfList
    <3>4. \A k \in 1 .. n + 1 : Append(told, c)[k] = Bodies(s)[k]
      BY <2>2, <2>3, <2>4, <3>1, <3>2, <3>3
    <3> QED
      BY <3>2, <3>3, <3>4, SameList
  <2>7. stored' = s
    BY <2>1 DEF s, e
  <2>8. Storage(stored)'
    BY <2>1, <2>5, <2>7 DEF Storage, OfTheOrg
  <2>9. told' = Bodies(stored')
    BY <2>1, <2>6, <2>7
  <2>10. Witnessed'
    BY <1>1, <2>1 DEF Witnessed, Anchored
  <2> QED
    BY <2>8, <2>9, <2>10 DEF Kept, Bodies
<1>4. CASE Publish
  <2> DEFINE a == [anchor |-> HeadAnchor(org, stored), below |-> told]
  <2>1. /\ stored # <<>> /\ Verify(org, stored) = "ok" /\ anchors' = Append(anchors, a)
        /\ UNCHANGED <<org, stored, told>>
    BY <1>4 DEF Publish
  <2>2. Listed(told) /\ Len(told) = Len(stored)
    BY <1>1, BodiesOfList DEF Storage
  <2>3. IsChain(org, stored, told) /\ stored[Len(told)].height = Len(told) - 1
    <3>1. IsChain(org, stored, told)
      BY <1>1, <2>1, VerifyIs DEF Storage, OfTheOrg
    <3>2. Len(told) \in 1 .. Len(told)
      BY <1>1, <2>1, <2>2
    <3> QED
      BY <3>1, <3>2, StoredIs DEF IsChain
  <2>4. Anchored(a)
    <3>1. told # <<>>
      BY <1>1, <2>1, <2>2, ListedIs
    <3>2. /\ a.below = told /\ a.anchor.org_id = org
          /\ a.anchor.height = stored[Len(told)].height
          /\ a.anchor.head = stored[Len(told)].hash
      BY <2>2 DEF HeadAnchor, Last
    <3> HIDE DEF a
    <3> QED
      BY <2>2, <2>3, <3>1, <3>2 DEF Anchored
  <2> HIDE DEF a
  <2>5. Witnessed'
    <3>1. Listed(anchors) /\ Len(anchors) \in Nat /\ DOMAIN anchors = 1 .. Len(anchors)
      BY <1>1, ListedIs DEF Witnessed
    <3>2. /\ Listed(anchors') /\ DOMAIN anchors' = 1 .. Len(anchors) + 1
          /\ \A k \in 1 .. Len(anchors) : anchors'[k] = anchors[k]
          /\ anchors'[Len(anchors) + 1] = a
      <4>1. /\ Listed(Append(anchors, a)) /\ Len(Append(anchors, a)) = Len(anchors) + 1
            /\ \A k \in 1 .. Len(anchors) : Append(anchors, a)[k] = anchors[k]
            /\ Append(anchors, a)[Len(anchors) + 1] = a
        BY <3>1, Appended
      <4>2. DOMAIN Append(anchors, a) = 1 .. Len(anchors) + 1
        BY <4>1, ListedIs
      <4> QED
        BY <2>1, <4>1, <4>2
    <3>3. \A k \in DOMAIN anchors' : Anchored(anchors'[k])
      <4>1. \A k \in 1 .. Len(anchors) + 1 : k \in 1 .. Len(anchors) \/ k = Len(anchors) + 1
        BY <3>1
      <4> QED
        BY <1>1, <2>4, <3>1, <3>2, <4>1 DEF Witnessed
    <3>4. ASSUME NEW b, Anchored(b) PROVE org' = org => Anchored(b)'
      BY <3>4 DEF Anchored, IsChain, StoredEntry
    <3> QED
      BY <2>1, <3>2, <3>3 DEF Witnessed, Anchored
  <2> QED
    BY <1>1, <2>1, <2>5 DEF Kept, Storage, OfTheOrg, Bodies
<1>5. CASE LoseTail
  <2>1. stored # <<>> /\ Damage(Front(stored))
    BY <1>5 DEF LoseTail
  <2>2. Storage(Front(stored))
    <3> DEFINE n == Len(stored) - 1
               s == SubSeq(stored, 1, n)
    <3>1. n \in 0 .. Len(stored)
      BY <1>1, <2>1
    <3>2. Listed(s) /\ Len(s) = n /\ \A k \in 1 .. n : s[k] = stored[k]
      BY <1>1, <3>1, CutList DEF Storage
    <3>3. DOMAIN s = 1 .. n /\ \A k \in 1 .. n : k \in 1 .. Len(stored)
      BY <1>1, <3>1, <3>2, ListedIs
    <3>4. Storage(s)
      BY <1>1, <3>2, <3>3 DEF Storage
    <3> QED
      BY <3>4 DEF Front
  <2> QED
    BY <2>1, <2>2, DamageKeeps
<1>6. CASE LoseEntry
  <2>1. PICK k \in DOMAIN stored : Damage(RemoveAt(stored, k))
    BY <1>6 DEF LoseEntry
  <2>2. Storage(RemoveAt(stored, k))
    BY <1>1, <2>1, RemovedAt DEF Storage
  <2> QED
    BY <2>1, <2>2, DamageKeeps
<1>7. CASE SwapEntries
  <2>1. PICK k \in DOMAIN stored \ {1} :
          Damage([stored EXCEPT ![k] = stored[k - 1], ![k - 1] = stored[k]])
    BY <1>7 DEF SwapEntries
  <2>2. k - 1 \in DOMAIN stored /\ k \in DOMAIN stored
    BY <1>1
  <2>3. OfTheOrg(stored[k - 1]) /\ OfTheOrg(stored[k])
    BY <1>1, <2>2 DEF Storage
  <2> DEFINE s == [stored EXCEPT ![k] = stored[k - 1]]
  <2>4. Storage(s) /\ DOMAIN s = DOMAIN stored
    BY <1>1, <2>2, <2>3, AlteredAt
  <2>5. [stored EXCEPT ![k] = stored[k - 1], ![k - 1] = stored[k]]
          = [s EXCEPT ![k - 1] = stored[k]]
    OBVIOUS
  <2> HIDE DEF s
  <2>6. Storage([s EXCEPT ![k - 1] = stored[k]])
    BY <2>2, <2>3, <2>4, AlteredAt
  <2> QED
    BY <2>1, <2>5, <2>6, DamageKeeps
<1>8. CASE RepeatEntry
  <2> DEFINE n == Len(stored)
             e == Last(stored)
             s == Append(stored, e)
  <2>1. stored # <<>> /\ Damage(s)
    BY <1>8 DEF RepeatEntry
  <2>2. n \in 1 .. n /\ e = stored[n] /\ OfTheOrg(e)
    BY <1>1, <2>1 DEF Last, Storage
  <2> HIDE DEF e
  <2>3. /\ Listed(s) /\ Len(s) = n + 1 /\ \A k \in 1 .. n : s[k] = stored[k]
        /\ s[n + 1] = e
    BY <1>1, Appended DEF Storage
  <2> HIDE DEF s
  <2>4. Storage(s)
    <3>1. \A k \in 1 .. n + 1 : k \in 1 .. n \/ k = n + 1
      BY <1>1
    <3>2. \A k \in 1 .. n + 1 : OfTheOrg(s[k])
      BY <1>1, <2>2, <2>3, <3>1 DEF Storage
    <3>3. DOMAIN s = 1 .. n + 1
      BY <2>3, ListedIs
    <3> QED
      BY <2>3, <3>2, <3>3 DEF Storage
  <2> QED
    BY <2>1, <2>4, DamageKeeps
<1>9. ASSUME NEW k \in DOMAIN stored, NEW x,
             Damage([stored EXCEPT ![k] = [@ EXCEPT !.content = x]])
               \/ Damage([stored EXCEPT ![k] = [@ EXCEPT !.prev_hash = x]])
      PROVE  Kept'
  <2>1. OfTheOrg(stored[k])
    BY <1>1 DEF Storage
  <2>2. /\ Storage([stored EXCEPT ![k] = [stored[k] EXCEPT !.content = x]])
        /\ Storage([stored EXCEPT ![k] = [stored[k] EXCEPT !.prev_hash = x]])
    BY <1>1, <2>1, AlteredEntry, AlteredAt
  <2> QED
    BY <1>9, <2>2, DamageKeeps
<1>10. CASE AlterContent
  <2>1. PICK k \in DOMAIN stored, c \in Contents :
          Damage([stored EXCEPT ![k].content = [c EXCEPT !.call = stored[k].content.call]])
    BY <1>10 DEF AlterContent
  <2> QED
    BY <1>9, <2>1
<1>11. CASE LoseDigest
  <2>1. PICK k \in DOMAIN stored : Damage([stored EXCEPT ![k].content.digest = None])
    BY <1>11 DEF LoseDigest
  <2>2. Damage([stored EXCEPT ![k] = [@ EXCEPT !.content = [stored[k].content EXCEPT !.digest = None]]])
    BY <2>1
  <2> QED
    BY <1>9, <2>2
<1>12. CASE AlterCall
  <2>1. PICK k \in DOMAIN stored, call \in {c.call : c \in Contents} :
          Damage([stored EXCEPT ![k].content.call = call])
    BY <1>12 DEF AlterCall
  <2>2. Damage([stored EXCEPT ![k] = [@ EXCEPT !.content = [stored[k].content EXCEPT !.call = call]]])
    BY <2>1
  <2> QED
    BY <1>9, <2>2
<1>13. CASE AlterLink
  <2>1. stored # <<>> /\ Damage([stored EXCEPT ![1].prev_hash = Zero])
    BY <1>13 DEF AlterLink
  <2>2. 1 \in DOMAIN stored
    BY <1>1, <2>1
  <2> QED
    BY <1>9, <2>1, <2>2
<1> QED
  BY <1>2, <1>3, <1>4, <1>5, <1>6, <1>7, <1>8, <1>10, <1>11, <1>12, <1>13 DEF Next
\* The storage the command reads is the one of the chain.
LEMMA StorageIsKept == SpecAudit => []Kept
<1>1. InitAudit => Kept
  BY KeptInit DEF InitAudit
<1>2. Kept /\ [NextAudit]_<<vars, audit>> => Kept'
  BY KeptNext DEF NextAudit, VerifyOrgChain, VerifyOrgSequence, Unreachable
<1> QED
  BY <1>1, <1>2, PTL DEF SpecAudit

LEMMA VerifiedIs ==
  ASSUME Kept, NEW o
  PROVE  Verify(o, stored) = "ok" <=> (o = org \/ stored = <<>>) /\ stored = ChainOf(told)
<1>1. /\ Listed(stored) /\ \A k \in DOMAIN stored : IsEntry(stored[k])
      /\ told = Bodies(stored) /\ Listed(told) /\ Len(told) = Len(stored)
  BY BodiesOfList DEF Kept, Storage, OfTheOrg
<1>2. /\ Len(stored) \in Nat /\ DOMAIN stored = 1 .. Len(stored)
      /\ (stored = <<>> <=> Len(stored) = 0)
  BY <1>1, ListedIs
<1>3. Verify(o, stored) = "ok" <=> IsChain(o, stored, told)
  BY <1>1, VerifyIs
<1>4. stored = ChainOf(told) <=> IsChain(org, stored, told)
  BY <1>1, ChainOfSelf
<1>5. CASE o = org
  BY <1>3, <1>4, <1>5
<1>6. CASE o # org /\ stored # <<>>
  <2>1. 1 \in 1 .. Len(told) /\ 1 \in DOMAIN stored
    BY <1>1, <1>2, <1>6
  <2>2. PICK h, p, c : stored[1].hash = <<org, h, p, c>>
    BY <2>1 DEF Kept, Storage, OfTheOrg
  <2>3. ASSUME IsChain(o, stored, told) PROVE FALSE
    <3>1. stored[1] = StoredEntry(o, 1 - 1, ExpectedPrev(stored, 1), told[1])
      BY <2>1, <2>3 DEF IsChain
    <3>2. stored[1].hash = EntryHash(o, 1 - 1, ExpectedPrev(stored, 1), told[1])
      BY <3>1, StoredIs
    <3> QED
      BY <1>6, <2>2, <3>2 DEF EntryHash
  <2> QED
    BY <1>3, <1>6, <2>3
<1>7. CASE stored = <<>>
  <2>1. IsChain(o, stored, told) /\ IsChain(org, stored, told)
    BY <1>1, <1>2, <1>7 DEF IsChain
  <2> QED
    BY <1>3, <1>4, <1>7, <2>1
<1> QED
  BY <1>5, <1>6, <1>7

\* verify accepts a storage exactly when it is what append makes of what is
\* stored: whatever the accidents, and for a chain of any length.
THEOREM VerifyIsExact == SpecAudit => []VerifyAcceptsExactlyTheChains
<1>1. Kept => VerifyAcceptsExactlyTheChains
  BY VerifiedIs DEF VerifyAcceptsExactlyTheChains, Kept, Bodies
<1> QED
  BY <1>1, StorageIsKept, PTL

LEMMA HeldIs ==
  ASSUME NEW c, Listed(c)
  PROVE  /\ Listed(HeldBy(c)) /\ Len(HeldBy(c)) = Len(c)
         /\ \A k \in 1 .. Len(c) : HeldBy(c)[k] = Hashed(c[k])
<1>1. Len(c) \in Nat /\ HeldBy(c) = [k \in 1 .. Len(c) |-> Hashed(c[k])]
  BY ListedIs DEF HeldBy
<1>2. DOMAIN HeldBy(c) = 1 .. Len(c) /\ HeldBy(c) = [k \in 1 .. Len(c) |-> HeldBy(c)[k]]
  BY <1>1
<1> QED
  BY <1>1, <1>2, IsListed

\* An anchor and the head of the present chain: what one says of the other.
LEMMA AnchorTells ==
  ASSUME Kept, NEW a, Anchored(a), IsChain(org, stored, told)
  PROVE  LET n == Len(a.below) IN
         /\ n \in Nat \ {0} /\ a.anchor.height = n - 1 /\ a.anchor.head # None
         /\ \A m \in 1 .. Len(told) :
              stored[m].hash = a.anchor.head <=>
                m = n /\ \A k \in 1 .. n : HeldBy(told)[k] = HeldBy(a.below)[k]
<1> DEFINE n == Len(a.below)
<1>1. n \in Nat \ {0} /\ Listed(a.below) /\ a.anchor.height = n - 1
  BY ListedIs DEF Anchored
<1>2. PICK s : IsChain(org, s, a.below) /\ a.anchor.head = s[n].hash
  BY DEF Anchored
<1>3. n \in 1 .. Len(a.below)
  BY <1>1
<1>4. a.anchor.head # None
  <2>1. s[n].hash = EntryHash(org, n - 1, ExpectedPrev(s, n), a.below[n])
    BY <1>2, <1>3, StoredIs DEF IsChain
  <2>2. \A x, y, z, t : <<x, y, z, t>> # <<>>
    OBVIOUS
  <2> QED
    BY <1>2, <2>1, <2>2 DEF EntryHash, None
<1>5. Listed(told) /\ Len(told) \in Nat
  BY BodiesOfList, ListedIs DEF Kept, Storage
<1>6. ASSUME NEW m \in 1 .. Len(told)
      PROVE  stored[m].hash = a.anchor.head <=>
               m = n /\ \A k \in 1 .. n : HeldBy(told)[k] = HeldBy(a.below)[k]
  <2>1. stored[m].hash = s[n].hash <=>
          m = n /\ \A k \in 1 .. m : Hashed(told[k]) = Hashed(a.below[k])
    BY <1>2, <1>3, HashesTell
  <2>2. m = n => \A k \in 1 .. n : /\ HeldBy(told)[k] = Hashed(told[k])
                                   /\ HeldBy(a.below)[k] = Hashed(a.below[k])
    BY <1>1, <1>5, HeldIs
  <2> QED
    BY <1>2, <2>1, <2>2
<1> QED
  BY <1>1, <1>4, <1>6

\* A chain verifies against an anchor exactly when it is a chain of the same
\* organisation that begins with what was hashed when the anchor was published.
THEOREM AnchorsAreExact == SpecAudit => []AnchorsHoldThePast
<1>1. ASSUME Kept, NEW k \in DOMAIN anchors, NEW o \in Orgs
      PROVE  VerifyWithAnchor(o, stored, anchors[k].anchor) = "ok" <=>
               /\ o = org
               /\ stored = ChainOf(told)
               /\ IsPrefix(HeldBy(anchors[k].below), HeldBy(told))
  <2> DEFINE a == anchors[k]
             n == Len(a.below)
  <2>1. Anchored(a)
    BY <1>1 DEF Kept, Witnessed
  <2>2. /\ Listed(told) /\ Len(told) = Len(stored) /\ Len(told) \in Nat
        /\ Listed(a.below) /\ a.anchor.org_id = org
    BY <1>1, <2>1, BodiesOfList, ListedIs DEF Kept, Storage, Anchored
  <2>3. /\ Listed(HeldBy(told)) /\ Len(HeldBy(told)) = Len(told)
        /\ Listed(HeldBy(a.below)) /\ Len(HeldBy(a.below)) = n
    BY <2>2, HeldIs
  <2> HIDE DEF a
  <2>4. CASE o # org
    BY <2>2, <2>4 DEF VerifyWithAnchor, a
  <2>5. CASE o = org /\ Verify(o, stored) # "ok"
    <3>1. stored # ChainOf(told)
      BY <1>1, <2>5, VerifiedIs
    <3>2. VerifyWithAnchor(o, stored, a.anchor) = Verify(o, stored)
      BY <2>2, <2>5 DEF VerifyWithAnchor
    <3> QED
      BY <2>5, <3>1, <3>2 DEF a
  <2>6. CASE o = org /\ Verify(o, stored) = "ok"
    <3>1. stored = ChainOf(told) /\ IsChain(org, stored, told)
      BY <1>1, <2>2, <2>6, VerifiedIs, ChainOfSelf DEF Kept, Storage
    <3>2. /\ n \in Nat \ {0} /\ a.anchor.height = n - 1
          /\ \A m \in 1 .. Len(told) :
               stored[m].hash = a.anchor.head <=>
                 m = n /\ \A j \in 1 .. n : HeldBy(told)[j] = HeldBy(a.below)[j]
      BY <1>1, <2>1, <3>1, AnchorTells
    <3>3. IsPrefix(HeldBy(a.below), HeldBy(told)) <=>
            n <= Len(told) /\ \A j \in 1 .. n : HeldBy(a.below)[j] = HeldBy(told)[j]
      BY <2>3, PrefixIs
    <3>4. VerifyWithAnchor(o, stored, a.anchor) = "ok" <=>
            a.anchor.height < Len(stored) /\ stored[a.anchor.height + 1].hash = a.anchor.head
      <4>1. a.anchor.height \in Int /\ Len(stored) \in Int
        BY <2>2, <3>2
      <4> QED
        BY <2>2, <2>6, <4>1 DEF VerifyWithAnchor
    <3> HIDE DEF n
    <3>5. a.anchor.height + 1 = n /\ (a.anchor.height < Len(stored) <=> n \in 1 .. Len(told))
      BY <2>2, <3>2
    <3>6. n \in 1 .. Len(told) => n <= Len(told)
      BY <2>2, <3>2
    <3>7. n <= Len(told) => n \in 1 .. Len(told)
      BY <2>2, <3>2
    <3> QED
      BY <2>6, <3>1, <3>2, <3>3, <3>4, <3>5, <3>6, <3>7 DEF a
  <2> QED
    BY <2>4, <2>5, <2>6
<1>2. Kept => AnchorsHoldThePast
  BY <1>1 DEF AnchorsHoldThePast
<1> QED
  BY <1>2, StorageIsKept, PTL

\* A tail accepts the chain it was taken from, and no other.
THEOREM TailsAreExact == SpecAudit => []TailHoldsTheWholeChain
<1>1. ASSUME Kept, NEW k \in DOMAIN anchors
      PROVE  VerifyWithTail(org, stored, anchors[k].anchor.head) = "ok" <=>
               stored = ChainOf(told) /\ HeldBy(told) = HeldBy(anchors[k].below)
  <2> DEFINE a == anchors[k]
             n == Len(a.below)
             m == Len(told)
  <2>1. Anchored(a)
    BY <1>1 DEF Kept, Witnessed
  <2>2. /\ Listed(told) /\ Len(stored) = m /\ m \in Nat
        /\ (stored = <<>> <=> m = 0)
        /\ Listed(a.below)
    BY <1>1, <2>1, BodiesOfList, ListedIs DEF Kept, Storage, Anchored
  <2>3. /\ Listed(HeldBy(told)) /\ Len(HeldBy(told)) = m
        /\ Listed(HeldBy(a.below)) /\ Len(HeldBy(a.below)) = n
    BY <2>2, HeldIs
  <2> HIDE DEF a
  <2>4. CASE Verify(org, stored) # "ok"
    <3>1. stored # ChainOf(told)
      BY <1>1, <2>4, VerifiedIs
    <3>2. VerifyWithTail(org, stored, a.anchor.head) # "ok"
      BY <2>4 DEF VerifyWithTail
    <3> QED
      BY <3>1, <3>2 DEF a
  <2>5. CASE Verify(org, stored) = "ok"
    <3>1. stored = ChainOf(told) /\ IsChain(org, stored, told)
      BY <1>1, <2>2, <2>5, VerifiedIs, ChainOfSelf DEF Kept, Storage
    <3>2. /\ n \in Nat \ {0} /\ a.anchor.head # None
          /\ \A i \in 1 .. m :
               stored[i].hash = a.anchor.head <=>
                 i = n /\ \A j \in 1 .. n : HeldBy(told)[j] = HeldBy(a.below)[j]
      BY <1>1, <2>1, <3>1, AnchorTells
    <3>3. VerifyWithTail(org, stored, a.anchor.head) = "ok" <=>
            (IF stored = <<>> THEN None ELSE Last(stored).hash) = a.anchor.head
      BY <2>5 DEF VerifyWithTail
    <3> HIDE DEF n, m
    <3>4. CASE stored = <<>>
      <4>1. m = 0 /\ n # 0
        BY <2>2, <3>2, <3>4
      <4>2. HeldBy(told) # HeldBy(a.below)
        BY <2>3, <4>1
      <4> QED
        BY <3>2, <3>3, <3>4, <4>2 DEF a
    <3>5. CASE stored # <<>>
      <4>1. m \in 1 .. m /\ Last(stored) = stored[m]
        BY <2>2, <3>5 DEF Last
      <4>2. stored[m].hash = a.anchor.head <=>
              m = n /\ \A j \in 1 .. n : HeldBy(told)[j] = HeldBy(a.below)[j]
        BY <3>2, <4>1
      <4>3. HeldBy(told) = HeldBy(a.below) <=>
              m = n /\ \A j \in 1 .. n : HeldBy(told)[j] = HeldBy(a.below)[j]
        <5>1. HeldBy(told) = HeldBy(a.below) => m = n
          BY <2>3
        <5>2. m = n /\ (\A j \in 1 .. n : HeldBy(told)[j] = HeldBy(a.below)[j])
                => HeldBy(told) = HeldBy(a.below)
          BY <2>3, SameList
        <5> QED
          BY <5>1, <5>2
      <4> QED
        BY <3>1, <3>3, <3>5, <4>1, <4>2, <4>3 DEF a
    <3> QED
      BY <3>4, <3>5
  <2> QED
    BY <2>4, <2>5
<1>2. Kept => TailHoldsTheWholeChain
  BY <1>1 DEF TailHoldsTheWholeChain
<1> QED
  BY <1>2, StorageIsKept, PTL
-----------------------------------------------------------------------------
(***************************************************************************)
(* The command.  The order of the query, by height and then by place, is   *)
(* total: the rank of a row is a place of its own, and every place is the  *)
(* rank of a row.                                                          *)
(***************************************************************************)
RowsBefore(k) == {j \in DOMAIN stored : Before(j, k)}
Rank(k) == Cardinality(RowsBefore(k))

LEMMA RanksDiffer ==
  ASSUME Kept
  PROVE  /\ IsFiniteSet(DOMAIN stored)
         /\ \A k \in DOMAIN stored : Rank(k) \in DOMAIN stored
         /\ \A j \in DOMAIN stored : \A k \in DOMAIN stored :
              Rank(j) = Rank(k) => j = k
<1> DEFINE N == 1 .. Len(stored)
<1>1. Len(stored) \in Nat /\ DOMAIN stored = N /\ \A k \in N : OfTheOrg(stored[k])
  BY ListedIs DEF Kept, Storage
<1>2. IsFiniteSet(N) /\ Cardinality(N) = Len(stored)
  BY <1>1, FS_Interval
<1>3. \A k \in N : k \in Int /\ stored[k].height \in Int
  BY <1>1 DEF OfTheOrg
<1>4. \A k \in N : RowsBefore(k) \in SUBSET N /\ k \in RowsBefore(k)
  BY <1>1, <1>3 DEF RowsBefore, Before
<1>5. ASSUME NEW k \in N
      PROVE  IsFiniteSet(RowsBefore(k)) /\ Rank(k) \in N
  <2>1. IsFiniteSet(RowsBefore(k)) /\ Rank(k) <= Len(stored)
    BY <1>2, <1>4, FS_Subset DEF Rank
  <2>2. Rank(k) \in Nat /\ Rank(k) # 0
    BY <1>4, <2>1, FS_CardinalityType, FS_EmptySet DEF Rank
  <2> QED
    BY <1>1, <2>1, <2>2
<1>6. ASSUME NEW j \in N, NEW k \in N, j # k, Before(j, k)
      PROVE  Rank(j) # Rank(k)
  <2>1. ~Before(k, j) /\ \A i \in N : Before(i, j) => Before(i, k)
    BY <1>3, <1>6 DEF Before
  <2>2. RowsBefore(j) \in SUBSET RowsBefore(k) /\ k \notin RowsBefore(j)
    BY <1>1, <2>1 DEF RowsBefore
  <2>3. RowsBefore(j) # RowsBefore(k)
    BY <1>4, <2>2
  <2> QED
    BY <1>5, <2>2, <2>3, FS_Subset DEF Rank
<1>7. \A j \in N : \A k \in N : Before(j, k) \/ Before(k, j)
  BY <1>3 DEF Before
<1> HIDE DEF N
<1> QED
  BY <1>1, <1>2, <1>5, <1>6, <1>7

\* The rows of the query are the rows of the table, in another order.
LEMMA RowsAre ==
  ASSUME Kept
  PROVE  /\ Listed(Rows) /\ DOMAIN Rows = DOMAIN stored
         /\ \A n \in DOMAIN Rows : IsEntry(Rows[n])
<1> DEFINE N == DOMAIN stored
           f == [k \in N |-> Rank(k)]
<1>1. f \in Injection(N, N)
  BY RanksDiffer DEF Injection, IsInjective
<1>2. f \in Surjection(N, N)
  <2> HIDE DEF f
  <2> QED
    BY <1>1, RanksDiffer, FS_Injection
<1>3. \A n \in N : \E k \in N : Rank(k) = n
  BY <1>2 DEF Surjection
<1>4. DOMAIN Rows = N
  BY DEF Rows
<1>5. ASSUME NEW n \in N PROVE \E k \in N : Rows[n] = stored[k]
  <2> DEFINE k == CHOOSE k \in N : Rank(k) = n
  <2>1. k \in N
    BY <1>3
  <2>2. Rows[n] = stored[k]
    BY DEF Rows, Rank, RowsBefore
  <2> QED
    BY <2>1, <2>2
<1>6. N = 1 .. Len(stored) /\ Len(stored) \in Nat
  BY ListedIs DEF Kept, Storage
<1>7. Rows = [n \in 1 .. Len(stored) |-> Rows[n]]
  BY <1>6 DEF Rows
<1>8. Listed(Rows)
  BY <1>6, <1>7, IsListed
<1> QED
  BY <1>4, <1>5, <1>8 DEF Kept, Storage, OfTheOrg

\* The first transaction tells a chain from everything else.
LEMMA ChainVerdictIs ==
  ASSUME Kept
  PROVE  Verify(org, Rows) = "ok" <=> Rows = ChainOf([k \in DOMAIN Rows |-> Rows[k].content])
<1>1. Verify(org, Rows) = "ok" <=> IsChain(org, Rows, Bodies(Rows))
  BY RowsAre, VerifyIs
<1>2. Listed(Bodies(Rows)) /\ Rows = ChainOf(Bodies(Rows)) <=> IsChain(org, Rows, Bodies(Rows))
  BY RowsAre, BodiesOfList, ChainOfSelf
<1> QED
  BY <1>1, <1>2, RowsAre, BodiesOfList DEF Bodies
\* The second transaction fails exactly when a row has lost its digest or when
\* a call is not told once.
LEMMA StoryVerdictIs ==
  ASSUME NEW n \in Nat, NEW rows, DOMAIN rows = 1 .. n
  PROVE  ~Fails(rows) <=> \A k \in DOMAIN rows :
                            rows[k].digest # None /\ Sensible(rows, rows[k].call)
<1> DEFINE r == RecordsOf(rows)
           own(c) == {k \in 1 .. n : rows[k].call = c}
           intended(k) == rows[k].action = "tool_call_intended"
           closing(k) == rows[k].action \in {"tool_call_completed", "tool_call_denied"}
<1>1. DOMAIN r = 1 .. n /\ \A k \in 1 .. n : r[k].call = rows[k].call
                                             /\ r[k].kind = KindOf[rows[k].action]
  BY DEF RecordsOf, Record
<1>2. \A k \in 1 .. n : rows[k].action \in DOMAIN KindOf <=> intended(k) \/ closing(k)
  BY DEF KindOf
<1>3. \A k \in 1 .. n : /\ intended(k) => r[k].kind = "intent"
                        /\ closing(k) => r[k].kind # "intent"
                        /\ ~(intended(k) /\ closing(k))
  BY <1>1 DEF KindOf
<1>4. Violations(r) = {} <=> \A c : ToldOnce(r, c)
  BY <1>1, AcceptedIs
<1>5. \A c : own(c) = {p \in DOMAIN r : r[p].call = c}
  BY <1>1
<1>6. \A c : ToldOnce(r, c) <=>
        \/ own(c) = {}
        \/ \E i \in own(c) : own(c) = {i} /\ r[i].kind = "intent"
        \/ \E i \in own(c), j \in own(c) :
             i < j /\ own(c) = {i, j} /\ r[i].kind = "intent" /\ r[j].kind # "intent"
  <2> SUFFICES ASSUME NEW c
               PROVE  ToldOnce(r, c) <=>
                        \/ own(c) = {}
                        \/ \E i \in own(c) : own(c) = {i} /\ r[i].kind = "intent"
                        \/ \E i \in own(c), j \in own(c) :
                             i < j /\ own(c) = {i, j} /\ r[i].kind = "intent" /\ r[j].kind # "intent"
    OBVIOUS
  <2>1. \A i \in own(c) : r[i].call = c
    BY <1>1
  <2>2. own(c) = {p \in DOMAIN r : r[p].call = c}
    BY <1>5
  <2> HIDE DEF own, r
  <2> QED
    BY <2>1, <2>2 DEF ToldOnce, Opens, Closes
<1>7. \A c : Sensible(rows, c) <=>
        \/ \E i \in own(c) : own(c) = {i} /\ intended(i)
        \/ \E i \in own(c), j \in own(c) :
             i < j /\ own(c) = {i, j} /\ intended(i) /\ closing(j)
  BY DEF Sensible
<1>8. \A c : own(c) \subseteq 1 .. n /\ \A k \in own(c) : rows[k].call = c
  OBVIOUS
<1>9. \A k \in 1 .. n : k \in own(rows[k].call)
  OBVIOUS
<1>10. Fails(rows) <=> (\E k \in 1 .. n : rows[k].digest = None \/ ~(intended(k) \/ closing(k)))
                         \/ Violations(r) # {}
  BY <1>2 DEF Fails, Corrupt
<1> HIDE DEF r, own, intended, closing
<1>11. ASSUME ~Fails(rows), NEW k \in 1 .. n
       PROVE  rows[k].digest # None /\ Sensible(rows, rows[k].call)
  <2>1. /\ rows[k].digest # None
        /\ \A i \in 1 .. n : intended(i) \/ closing(i)
        /\ ToldOnce(r, rows[k].call)
    BY <1>4, <1>10, <1>11
  <2>2. own(rows[k].call) # {} /\ own(rows[k].call) \subseteq 1 .. n
    BY <1>8, <1>9
  <2>3. \A i \in own(rows[k].call) : /\ r[i].kind = "intent" => intended(i)
                                     /\ r[i].kind # "intent" => closing(i)
    BY <1>3, <2>1, <2>2
  <2> QED
    BY <1>6, <1>7, <2>1, <2>2, <2>3
<1>12. ASSUME \A k \in 1 .. n : rows[k].digest # None /\ Sensible(rows, rows[k].call)
       PROVE  ~Fails(rows)
  <2>1. ASSUME NEW k \in 1 .. n PROVE intended(k) \/ closing(k)
    BY <1>7, <1>9, <1>12
  <2>2. ASSUME NEW c PROVE ToldOnce(r, c)
    <3>1. CASE own(c) = {}
      BY <1>6, <3>1
    <3>2. CASE own(c) # {}
      <4>1. Sensible(rows, c)
        BY <1>8, <1>12, <3>2
      <4>2. \A i \in own(c) : /\ intended(i) => r[i].kind = "intent"
                              /\ closing(i) => r[i].kind # "intent"
        BY <1>3, <1>8
      <4> QED
        BY <1>6, <1>7, <4>1, <4>2
    <3> QED
      BY <3>1, <3>2
  <2> QED
    BY <1>4, <1>10, <1>12, <2>1, <2>2
<1> QED
  BY <1>11, <1>12

\* The rows that bear a call, in the order of the query.
LEMMA CallRowsAre ==
  ASSUME Kept
  PROVE  \E n \in Nat : DOMAIN CallRows = 1 .. n
<1> DEFINE K == {k \in DOMAIN Rows : Rows[k].content.call # None}
<1>1. Len(Rows) \in Nat /\ DOMAIN Rows = 1 .. Len(Rows)
  BY RowsAre, ListedIs
<1>2. IsFiniteSet(1 .. Len(Rows)) /\ K \in SUBSET (1 .. Len(Rows))
  BY <1>1, FS_Interval
<1>3. Cardinality(K) \in Nat
  BY <1>2, FS_Subset, FS_CardinalityType
<1>4. DOMAIN CallRows = 1 .. Cardinality(K)
  BY DEF CallRows, Increasing
<1> QED
  BY <1>3, <1>4

-----------------------------------------------------------------------------
\* Between its transactions the command remembers that the chain was intact.
Founded == pc = "intact" => intact

LEMMA FoundedNext == Kept /\ Founded /\ [NextAudit]_<<vars, audit>> => Founded'
<1> SUFFICES ASSUME Kept, Founded, [NextAudit]_<<vars, audit>> PROVE Founded'
  OBVIOUS
<1>1. CASE VerifyOrgChain
  BY <1>1, ChainVerdictIs DEF VerifyOrgChain, Founded, Exit
<1>2. CASE VerifyOrgSequence \/ Unreachable
  BY <1>2 DEF VerifyOrgSequence, Unreachable, Exit, Founded
<1>3. CASE UNCHANGED audit
  BY <1>3 DEF audit, Founded
<1> QED
  BY <1>1, <1>2, <1>3 DEF NextAudit

VerdictStep ==
  /\ pc' = "exited" /\ exit' = 0 => intact' /\ sensible'
  /\ VerifyOrgChain => (pc' = "intact" <=> intact')
  /\ VerifyOrgSequence => (exit' = 0 <=> sensible')

LEMMA VerdictNext ==
  Kept /\ Founded /\ [NextAudit]_<<vars, audit>> => [VerdictStep]_audit
<1> SUFFICES ASSUME Kept, Founded, [NextAudit]_<<vars, audit>>, ~(UNCHANGED audit)
             PROVE  VerdictStep
  OBVIOUS
<1>1. ASSUME VerifyOrgChain
      PROVE  pc' # "exited" \/ exit' # 0
  BY <1>1 DEF VerifyOrgChain, Exit
<1>2. ASSUME VerifyOrgChain
      PROVE  pc' = "intact" <=> intact'
  BY <1>2, ChainVerdictIs DEF VerifyOrgChain, Exit
<1>3. ASSUME VerifyOrgSequence
      PROVE  (exit' = 0 <=> sensible') /\ intact'
  <2>1. ~Fails(CallRows) <=> \A k \in DOMAIN CallRows :
                               /\ CallRows[k].digest # None
                               /\ Sensible(CallRows, CallRows[k].call)
    BY CallRowsAre, StoryVerdictIs
  <2>2. /\ exit' = IF Fails(CallRows) THEN 1 ELSE 0
        /\ sensible' = \A k \in DOMAIN CallRows :
                         /\ CallRows[k].digest # None
                         /\ Sensible(CallRows, CallRows[k].call)
        /\ intact' = intact /\ pc = "intact"
    BY <1>3 DEF VerifyOrgSequence, Exit
  <2> QED
    BY <2>1, <2>2 DEF Founded
<1>4. ASSUME Unreachable PROVE exit' # 0
  BY <1>4 DEF Unreachable, Exit
<1>5. VerifyOrgChain \/ VerifyOrgSequence \/ Unreachable
  BY DEF NextAudit, audit
<1> QED
  BY <1>1, <1>2, <1>3, <1>4, <1>5 DEF VerdictStep

\* The code of the command is founded on what its two readings saw: 0 says a
\* chain of append and a story where every call is told once, and once the
\* database answered nothing else makes it fail, whatever happened to the
\* storage before, between and after the readings.
THEOREM VerdictsAreFounded == SpecAudit => VerdictIsFounded
<1>1. InitAudit => Founded
  BY DEF InitAudit, Founded
<1>2. SpecAudit => [](Kept /\ Founded)
  BY <1>1, StorageIsKept, FoundedNext, PTL DEF SpecAudit
<1>3. SpecAudit => [][VerdictStep]_audit
  BY <1>2, VerdictNext, PTL DEF SpecAudit
<1> QED
  BY <1>3, PTL DEF VerdictIsFounded, VerdictStep
=============================================================================
