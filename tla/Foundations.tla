----------------------------- MODULE Foundations -----------------------------
(***************************************************************************)
(* What the proofs of several components rest on: the least and the        *)
(* greatest member of a finite set, the members of a set in increasing     *)
(* order, the sums of the models, and what verify_sequence computes.       *)
(*                                                                         *)
(* The models' folds (MapThenSumSet, FoldLeft) are recursive functions on  *)
(* the subsets of a set.  A closed form that obeys the recursion is such a *)
(* function, and two of them agree: a set of counterexamples that is not   *)
(* empty has a smallest one, strict inclusion being well founded.          *)
(***************************************************************************)
EXTENDS SequenceVerifier, Integers, FiniteSetTheorems, SequenceTheorems, TLAPS

-----------------------------------------------------------------------------
(***************************************************************************)
(* Smallest sets, least and greatest members                               *)
(***************************************************************************)
\* Among sets of parts of a finite set there is a smallest one.
LEMMA SetMin ==
  ASSUME NEW S, IsFiniteSet(S), NEW B \in SUBSET SUBSET S, B # {}
  PROVE  \E b \in B : \A c \in B : c \subseteq b => c = b
<1>1. IsWellFoundedOn(StrictSubsetOrdering(S), SUBSET S)
  BY FS_StrictSubsetOrderingWellFounded, FS_FiniteSubsetsOfFinite
<1>2. \E b \in B : \A c \in B : ~ (<<c, b>> \in StrictSubsetOrdering(S))
  BY <1>1, WFMin
<1> QED
  BY <1>2 DEF StrictSubsetOrdering

\* A finite set of numbers that is not empty has a least member.
LEMMA LeastExists ==
  ASSUME NEW S, IsFiniteSet(S), \A x \in S : x \in Int, S # {}
  PROVE  \E b \in S : \A c \in S : b <= c
<1> DEFINE upTo(b) == {j \in S : j <= b}
           C == {upTo(b) : b \in S}
<1>1. C \in SUBSET SUBSET S /\ C # {}
  OBVIOUS
<1>2. PICK i \in C : \A j \in C : j \subseteq i => j = i
  <2> HIDE DEF C, upTo
  <2> QED
    BY <1>1, SetMin
<1>3. PICK b \in S : i = upTo(b)
  OBVIOUS
<1>4. ASSUME NEW c \in S, ~(b <= c) PROVE FALSE
  <2>0. \A j \in S : j <= c => j <= b
    BY <1>4
  <2>1. upTo(c) \in C /\ upTo(c) \subseteq upTo(b)
    BY <2>0
  <2>2. upTo(c) = upTo(b)
    BY <1>2, <1>3, <2>1
  <2>3. b \in upTo(b) /\ b \notin upTo(c)
    BY <1>4
  <2> QED
    BY <2>2, <2>3
<1> QED
  BY <1>4

\* It has a greatest one as well.
LEMMA GreatestExists ==
  ASSUME NEW S, IsFiniteSet(S), \A x \in S : x \in Int, S # {}
  PROVE  \E b \in S : \A c \in S : b >= c
<1> DEFINE from(b) == {j \in S : j >= b}
           C == {from(b) : b \in S}
<1>1. C \in SUBSET SUBSET S /\ C # {}
  OBVIOUS
<1>2. PICK i \in C : \A j \in C : j \subseteq i => j = i
  <2> HIDE DEF C, from
  <2> QED
    BY <1>1, SetMin
<1>3. PICK b \in S : i = from(b)
  OBVIOUS
<1>4. ASSUME NEW c \in S, ~(b >= c) PROVE FALSE
  <2>0. \A j \in S : j >= c => j >= b
    BY <1>4
  <2>1. from(c) \in C /\ from(c) \subseteq from(b)
    BY <2>0
  <2>2. from(c) = from(b)
    BY <1>2, <1>3, <2>1
  <2>3. b \in from(b) /\ b \notin from(c)
    BY <1>4
  <2> QED
    BY <2>2, <2>3
<1> QED
  BY <1>4

\* A set of positions that is not empty has a least one.
LEMMA LeastPosition ==
  ASSUME NEW n \in Nat, NEW B \in SUBSET (0 .. n), B # {}
  PROVE  \E b \in B : \A c \in B : b <= c
<1>1. IsFiniteSet(0 .. n)
  BY FS_Interval
<1>2. IsFiniteSet(B)
  BY <1>1, FS_Subset
<1>3. \A b \in B : b \in Int
  OBVIOUS
<1> QED
  BY <1>2, <1>3, LeastExists

\* Min and Max of the community modules.
LEMMA MinIs ==
  ASSUME NEW S, IsFiniteSet(S), \A x \in S : x \in Int, S # {}
  PROVE  Min(S) \in S /\ \A c \in S : Min(S) <= c
BY LeastExists DEF Min

LEMMA MaxIs ==
  ASSUME NEW S, IsFiniteSet(S), \A x \in S : x \in Int, S # {}
  PROVE  Max(S) \in S /\ \A c \in S : Max(S) >= c
BY GreatestExists DEF Max

-----------------------------------------------------------------------------
(***************************************************************************)
(* The members of a set of numbers in increasing order                     *)
(***************************************************************************)
UpTo(K, k) == {j \in K : j <= k}

\* Where a member stands in the order.
Place(K, k) == Cardinality(UpTo(K, k))

\* Places are positions, and grow with the members.
LEMMA PlaceIs ==
  ASSUME NEW K, IsFiniteSet(K), \A x \in K : x \in Int
  PROVE  /\ Cardinality(K) \in Nat
         /\ \A k \in K : Place(K, k) \in 1 .. Cardinality(K)
         /\ \A k \in K : \A l \in K : k < l <=> Place(K, k) < Place(K, l)
<1>1. Cardinality(K) \in Nat
  BY FS_CardinalityType
<1>2. ASSUME NEW k \in K
      PROVE  IsFiniteSet(UpTo(K, k)) /\ Place(K, k) \in 1 .. Cardinality(K)
  <2>1. UpTo(K, k) \subseteq K /\ k \in UpTo(K, k)
    BY DEF UpTo
  <2>2. IsFiniteSet(UpTo(K, k)) /\ Place(K, k) <= Cardinality(K)
    BY <2>1, FS_Subset DEF Place
  <2>3. Place(K, k) \in Nat /\ Place(K, k) # 0
    BY <2>1, <2>2, FS_CardinalityType, FS_EmptySet DEF Place
  <2> QED
    BY <1>1, <2>2, <2>3
<1>3. ASSUME NEW k \in K, NEW l \in K, k < l
      PROVE  Place(K, k) < Place(K, l)
  <2>0. k \in Int /\ l \in Int /\ ~(l <= k) /\ \A j \in K : j <= k => j <= l
    BY <1>3
  <2>1. UpTo(K, k) \subseteq UpTo(K, l) /\ l \in UpTo(K, l) /\ l \notin UpTo(K, k)
    <3>1. UpTo(K, k) \subseteq UpTo(K, l)
      BY <2>0 DEF UpTo
    <3>2. l \in UpTo(K, l)
      BY <2>0 DEF UpTo
    <3>3. l \notin UpTo(K, k)
      BY <2>0 DEF UpTo
    <3> QED
      BY <3>1, <3>2, <3>3
  <2>2. UpTo(K, k) # UpTo(K, l)
    BY <2>1
  <2>3. IsFiniteSet(UpTo(K, l))
    BY <1>2
  <2>4. Cardinality(UpTo(K, k)) \in Nat /\ Cardinality(UpTo(K, l)) \in Nat
    BY <1>2 DEF Place
  <2>5. Cardinality(UpTo(K, k)) <= Cardinality(UpTo(K, l))
    BY <2>1, <2>3, FS_Subset
  <2>6. Cardinality(UpTo(K, k)) # Cardinality(UpTo(K, l))
    BY <2>1, <2>2, <2>3, FS_Subset
  <2> QED
    BY <2>4, <2>5, <2>6 DEF Place
<1>4. ASSUME NEW k \in K, NEW l \in K, Place(K, k) < Place(K, l)
      PROVE  k < l
  <2>1. Place(K, k) \in Int /\ Place(K, l) \in Int /\ k \in Int /\ l \in Int
    BY <1>2, <1>1
  <2>2. CASE l < k
    BY <1>3, <1>4, <2>1, <2>2
  <2>3. CASE l = k
    BY <1>4, <2>1, <2>3
  <2> QED
    BY <2>1, <2>2, <2>3
<1> QED
  BY <1>1, <1>2, <1>3, <1>4

\* Every position is the place of a member: the first member whose place is at
\* least the position has no other, or its predecessor would come before it.
LEMMA PlaceOnto ==
  ASSUME NEW K, IsFiniteSet(K), \A x \in K : x \in Int, NEW n \in 1 .. Cardinality(K)
  PROVE  \E k \in K : Place(K, k) = n
<1> DEFINE B == {k \in K : Place(K, k) >= n}
<1>1. Cardinality(K) \in Nat /\ \A k \in K : Place(K, k) \in 1 .. Cardinality(K)
  BY PlaceIs
<1>2. B # {}
  <2>1. K # {}
    BY FS_EmptySet
  <2>2. Max(K) \in K /\ \A c \in K : Max(K) >= c
    BY <2>1, MaxIs
  <2>3. UpTo(K, Max(K)) = K
    BY <2>2 DEF UpTo
  <2>4. Place(K, Max(K)) = Cardinality(K)
    BY <2>3 DEF Place
  <2> QED
    BY <1>1, <2>2, <2>4
<1>3. PICK k \in B : \A c \in B : k <= c
  <2>1. IsFiniteSet(B) /\ \A b \in B : b \in Int
    BY FS_Subset
  <2> HIDE DEF B
  <2> QED
    BY <1>2, <2>1, LeastExists
<1>4. k \in K /\ k \in Int /\ Place(K, k) >= n /\ Place(K, k) \in Nat
  BY <1>1
<1>5. CASE Place(K, k) > n
  <2> DEFINE under == UpTo(K, k) \ {k}
  <2>1. IsFiniteSet(UpTo(K, k)) /\ k \in UpTo(K, k)
    BY <1>4, FS_Subset DEF UpTo
  <2>2. IsFiniteSet(under) /\ Cardinality(under) = Place(K, k) - 1
    BY <2>1, FS_RemoveElement DEF Place
  <2>3. under # {}
    BY <1>4, <1>5, <2>2, FS_EmptySet
  <2>4. \A j \in under : j \in Int
    BY DEF UpTo
  <2>5. PICK m \in under : \A c \in under : m >= c
    <3> HIDE DEF under
    <3> QED
      BY <2>2, <2>3, <2>4, GreatestExists
  <2>6. m \in K /\ m \in Int /\ m < k
    BY <1>4 DEF UpTo
  <2>7. UpTo(K, m) = under
    <3>1. ASSUME NEW j \in K, j <= m PROVE j \in under
      BY <1>4, <2>6, <3>1 DEF UpTo
    <3>2. ASSUME NEW j \in under PROVE j \in K /\ j <= m
      BY <2>5, <2>6 DEF UpTo
    <3> HIDE DEF under
    <3> QED
      BY <3>1, <3>2 DEF UpTo
  <2>8. Place(K, m) = Place(K, k) - 1
    BY <2>2, <2>7 DEF Place
  <2>9. m \in B
    BY <1>4, <1>5, <2>6, <2>8
  <2> QED
    BY <1>3, <1>4, <2>6, <2>9
<1> QED
  BY <1>4, <1>5

\* Increasing lists the members of a set, each at its place.
LEMMA IncreasingIs ==
  ASSUME NEW K, IsFiniteSet(K), \A x \in K : x \in Int
  PROVE  /\ DOMAIN Increasing(K) = 1 .. Cardinality(K)
         /\ \A n \in 1 .. Cardinality(K) :
              Increasing(K)[n] \in K /\ Place(K, Increasing(K)[n]) = n
         /\ \A k \in K : Increasing(K)[Place(K, k)] = k
<1>1. ASSUME NEW n \in 1 .. Cardinality(K)
      PROVE  Increasing(K)[n] \in K /\ Place(K, Increasing(K)[n]) = n
  <2>1. Increasing(K)[n] = CHOOSE k \in K : Place(K, k) = n
    BY DEF Increasing, Place, UpTo
  <2> QED
    BY <2>1, PlaceOnto
<1>2. ASSUME NEW k \in K
      PROVE  Increasing(K)[Place(K, k)] = k
  <2> DEFINE l == Increasing(K)[Place(K, k)]
  <2>1. Place(K, k) \in 1 .. Cardinality(K) /\ Cardinality(K) \in Nat
    BY PlaceIs
  <2>2. l \in K /\ Place(K, l) = Place(K, k)
    BY <1>1, <2>1
  <2>3. ~(l < k) /\ ~(k < l)
    <3> HIDE DEF l
    <3> QED
      BY <2>1, <2>2, PlaceIs
  <2>4. l \in Int /\ k \in Int
    BY <2>2
  <2> HIDE DEF l
  <2>5. l = k
    BY <2>3, <2>4
  <2> QED
    BY <2>5 DEF l
<1> QED
  BY <1>1, <1>2 DEF Increasing

\* One number more, above all the others, comes at the end.
LEMMA IncreasingMore ==
  ASSUME NEW K, IsFiniteSet(K), \A x \in K : x \in Int, NEW m \in Int, \A k \in K : k < m
  PROVE  /\ Cardinality(K \cup {m}) = Cardinality(K) + 1
         /\ \A k \in K : Place(K \cup {m}, k) = Place(K, k)
         /\ Place(K \cup {m}, m) = Cardinality(K) + 1
<1>1. m \notin K
  OBVIOUS
<1>2. Cardinality(K \cup {m}) = Cardinality(K) + 1
  BY <1>1, FS_AddElement
<1>3. ASSUME NEW k \in K PROVE UpTo(K \cup {m}, k) = UpTo(K, k)
  <2>1. k \in Int /\ k < m /\ ~(m <= k)
    OBVIOUS
  <2> QED
    BY <2>1 DEF UpTo
<1>4. UpTo(K \cup {m}, m) = K \cup {m}
  <2>1. \A k \in K \cup {m} : k <= m
    OBVIOUS
  <2> QED
    BY <2>1 DEF UpTo
<1> QED
  BY <1>2, <1>3, <1>4 DEF Place

-----------------------------------------------------------------------------
(***************************************************************************)
(* The sums: the fold MapThenSumSet of the community modules               *)
(***************************************************************************)
\* The element the fold takes next.
Chosen(s) == CHOOSE x \in s : TRUE

\* The sum of m over s, from the sums g over smaller sets.
SumUpTo(m, s, g) == IF s = {} THEN 0 ELSE m[Chosen(s)] + g[s \ {Chosen(s)}]

\* The sums of m over every subset of S.
IsTable(g, m, S) == g = [s \in SUBSET S |-> SumUpTo(m, s, g)]

Table(m, S) == CHOOSE g : IsTable(g, m, S)

\* The sum of m over S, as MapThenSumSet(LAMBDA x : m[x], S) computes it.
SumOf(m, S) == Table(m, S)[S]

\* The two are one: MapThenSumSet unfolds to the definitions above.
LEMMA SumIsFold ==
  ASSUME NEW S, NEW m
  PROVE  MapThenSumSet(LAMBDA x : m[x], S) = SumOf(m, S)
BY DEF MapThenSumSet, MapThenFoldSet, SumOf, Table, IsTable, SumUpTo, Chosen

\* Two tables agree where both are defined.
LEMMA TableIsUnique ==
  ASSUME NEW S, IsFiniteSet(S), NEW A \in SUBSET S, NEW m,
         NEW g, IsTable(g, m, S), NEW h, IsTable(h, m, A)
  PROVE  \A s \in SUBSET A : g[s] = h[s]
<1> DEFINE B == {s \in SUBSET A : g[s] # h[s]}
<1>1. SUFFICES ASSUME B # {} PROVE FALSE
  OBVIOUS
<1>2. PICK b \in B : \A c \in B : c \subseteq b => c = b
  <2>1. B \in SUBSET SUBSET S
    OBVIOUS
  <2> HIDE DEF B
  <2> QED
    BY <1>1, <2>1, SetMin
<1>3. b \in SUBSET A /\ b \in SUBSET S /\ g[b] # h[b]
  OBVIOUS
<1>4. g[b] = SumUpTo(m, b, g) /\ h[b] = SumUpTo(m, b, h)
  BY <1>3 DEF IsTable
<1>5. CASE b = {}
  BY <1>3, <1>4, <1>5 DEF SumUpTo
<1>6. CASE b # {}
  <2>1. Chosen(b) \in b
    BY <1>6 DEF Chosen
  <2>2. b \ {Chosen(b)} \in SUBSET A /\ b \ {Chosen(b)} # b
    BY <1>3, <2>1
  <2>3. g[b \ {Chosen(b)}] = h[b \ {Chosen(b)}]
    BY <1>2, <2>2
  <2> QED
    BY <1>3, <1>4, <1>6, <2>3 DEF SumUpTo
<1> QED
  BY <1>5, <1>6

\* Every finite set has its table.
LEMMA TableExists ==
  ASSUME NEW S, IsFiniteSet(S), NEW m
  PROVE  IsTable(Table(m, S), m, S)
<1> DEFINE B == {T \in SUBSET S : ~ IsTable(Table(m, T), m, T)}
<1>1. SUFFICES ASSUME B # {} PROVE FALSE
  OBVIOUS
<1>2. PICK b \in B : \A c \in B : c \subseteq b => c = b
  <2>1. B \in SUBSET SUBSET S
    OBVIOUS
  <2> HIDE DEF B
  <2> QED
    BY <1>1, <2>1, SetMin
<1>3. \A c \in SUBSET b : c # b => IsTable(Table(m, c), m, c)
  BY <1>2
<1> DEFINE g == [s \in SUBSET b |->
                   IF s # b THEN Table(m, s)[s]
                   ELSE IF b = {} THEN 0
                   ELSE m[Chosen(b)] + Table(m, b \ {Chosen(b)})[b \ {Chosen(b)}]]
<1>4. ASSUME NEW s \in SUBSET b
      PROVE  g[s] = SumUpTo(m, s, g)
  <2>1. CASE s = {}
    <3>1. CASE b = {}
      BY <2>1, <3>1 DEF SumUpTo
    <3>2. CASE b # {}
      <4>1. g[s] = Table(m, s)[s]
        BY <2>1, <3>2
      <4>2. Table(m, s)[s] = SumUpTo(m, s, Table(m, s))
        BY <1>3, <2>1, <3>2 DEF IsTable
      <4> QED
        BY <2>1, <4>1, <4>2 DEF SumUpTo
    <3> QED
      BY <3>1, <3>2
  <2>2. CASE s # {}
    <3>1. Chosen(s) \in s
      BY <2>2 DEF Chosen
    <3>2. s \ {Chosen(s)} \in SUBSET b /\ s \ {Chosen(s)} # b /\ s \ {Chosen(s)} \in SUBSET s
      BY <3>1
    <3>3. g[s \ {Chosen(s)}] = Table(m, s \ {Chosen(s)})[s \ {Chosen(s)}]
      BY <3>2
    <3>4. CASE s = b
      BY <2>2, <3>3, <3>4 DEF SumUpTo
    <3>5. CASE s # b
      <4>1. IsTable(Table(m, s), m, s) /\ IsFiniteSet(s)
        BY <1>2, <1>3, <3>5, FS_Subset
      <4>2. IsTable(Table(m, s \ {Chosen(s)}), m, s \ {Chosen(s)})
        BY <1>3, <3>2
      <4>3. Table(m, s)[s \ {Chosen(s)}] = Table(m, s \ {Chosen(s)})[s \ {Chosen(s)}]
        BY <3>2, <4>1, <4>2, TableIsUnique
      <4>4. Table(m, s)[s] = SumUpTo(m, s, Table(m, s))
        BY <4>1 DEF IsTable
      <4>5. g[s] = Table(m, s)[s]
        BY <3>5
      <4> QED
        BY <2>2, <3>3, <4>3, <4>4, <4>5 DEF SumUpTo
    <3> QED
      BY <3>4, <3>5
  <2> QED
    BY <2>1, <2>2
<1>5. IsTable(g, m, b)
  <2>1. g = [s \in SUBSET b |-> g[s]]
    OBVIOUS
  <2> HIDE DEF g
  <2> QED
    BY <1>4, <2>1 DEF IsTable
<1>6. IsTable(Table(m, b), m, b)
  <2> HIDE DEF g
  <2> QED
    BY <1>5 DEF Table
<1> QED
  BY <1>2, <1>6
-----------------------------------------------------------------------------
\* The sum over nothing.
LEMMA SumOfNothing == \A m : SumOf(m, {}) = 0
<1> TAKE m
<1>1. IsTable(Table(m, {}), m, {})
  BY TableExists, FS_EmptySet
<1> QED
  BY <1>1 DEF IsTable, SumUpTo, SumOf

\* The fold's own equation: the chosen element, then the others.
LEMMA SumOfChosen ==
  ASSUME NEW S, IsFiniteSet(S), S # {}, NEW m
  PROVE  SumOf(m, S) = m[Chosen(S)] + SumOf(m, S \ {Chosen(S)})
<1> DEFINE R == S \ {Chosen(S)}
<1>1. R \in SUBSET S /\ IsFiniteSet(R)
  BY FS_Subset
<1>2. IsTable(Table(m, S), m, S) /\ IsTable(Table(m, R), m, R)
  BY <1>1, TableExists
<1>3. Table(m, S)[R] = Table(m, R)[R]
  BY <1>1, <1>2, TableIsUnique
<1>4. Table(m, S)[S] = SumUpTo(m, S, Table(m, S))
  BY <1>2 DEF IsTable
<1> QED
  BY <1>3, <1>4 DEF SumUpTo, SumOf

\* A sum of integers is an integer.
LEMMA SumType ==
  ASSUME NEW S, IsFiniteSet(S), NEW m, \A x \in S : m[x] \in Int
  PROVE  SumOf(m, S) \in Int
<1> DEFINE B == {T \in SUBSET S : SumOf(m, T) \notin Int}
<1>1. SUFFICES ASSUME B # {} PROVE FALSE
  OBVIOUS
<1>2. PICK b \in B : \A c \in B : c \subseteq b => c = b
  <2>1. B \in SUBSET SUBSET S
    OBVIOUS
  <2> HIDE DEF B
  <2> QED
    BY <1>1, <2>1, SetMin
<1>3. b \in SUBSET S /\ IsFiniteSet(b) /\ SumOf(m, b) \notin Int
  BY FS_Subset
<1>4. b # {}
  BY <1>3, SumOfNothing
<1>5. Chosen(b) \in b
  BY <1>4 DEF Chosen
<1>6. SumOf(m, b \ {Chosen(b)}) \in Int
  BY <1>2, <1>5
<1>7. SumOf(m, b) = m[Chosen(b)] + SumOf(m, b \ {Chosen(b)})
  BY <1>3, <1>4, SumOfChosen
<1> QED
  BY <1>3, <1>5, <1>6, <1>7

\* The order does not matter: any element may be taken first.
LEMMA SumOfAny ==
  ASSUME NEW S, IsFiniteSet(S), NEW m, \A x \in S : m[x] \in Int, NEW x \in S
  PROVE  SumOf(m, S) = m[x] + SumOf(m, S \ {x})
<1> DEFINE B == {T \in SUBSET S : \E y \in T : SumOf(m, T) # m[y] + SumOf(m, T \ {y})}
<1>1. SUFFICES ASSUME B # {} PROVE FALSE
  OBVIOUS
<1>2. PICK b \in B : \A c \in B : c \subseteq b => c = b
  <2>1. B \in SUBSET SUBSET S
    OBVIOUS
  <2> HIDE DEF B
  <2> QED
    BY <1>1, <2>1, SetMin
<1>3. PICK y \in b : SumOf(m, b) # m[y] + SumOf(m, b \ {y})
  OBVIOUS
<1> DEFINE z == Chosen(b)
<1>4. b \in SUBSET S /\ IsFiniteSet(b) /\ z \in b
  BY FS_Subset DEF Chosen
<1>5. SumOf(m, b) = m[z] + SumOf(m, b \ {z})
  BY <1>4, SumOfChosen
<1>6. z # y
  BY <1>3, <1>5
<1>7. SumOf(m, b \ {z}) = m[y] + SumOf(m, (b \ {z}) \ {y})
  <2>1. b \ {z} \in SUBSET S /\ b \ {z} # b /\ b \ {z} \subseteq b /\ y \in b \ {z}
    BY <1>4, <1>6
  <2>2. b \ {z} \notin B
    BY <1>2, <2>1
  <2> QED
    BY <2>1, <2>2
<1>8. SumOf(m, b \ {y}) = m[z] + SumOf(m, (b \ {y}) \ {z})
  <2>1. b \ {y} \in SUBSET S /\ b \ {y} # b /\ b \ {y} \subseteq b /\ z \in b \ {y}
    BY <1>4, <1>6
  <2>2. b \ {y} \notin B
    BY <1>2, <2>1
  <2> QED
    BY <2>1, <2>2
<1>9. (b \ {z}) \ {y} = (b \ {y}) \ {z}
  OBVIOUS
<1>10. SumOf(m, (b \ {z}) \ {y}) \in Int
  <2>1. IsFiniteSet((b \ {z}) \ {y})
    BY <1>4, FS_Subset
  <2> QED
    BY <1>4, <2>1, SumType
<1>11. m[y] \in Int /\ m[z] \in Int
  BY <1>4
<1>12. SumOf(m, (b \ {y}) \ {z}) = SumOf(m, (b \ {z}) \ {y})
  BY <1>9
<1> HIDE DEF z, B
<1> QED
  BY <1>3, <1>5, <1>7, <1>8, <1>10, <1>11, <1>12

\* A sum depends on the values it sums, and on nothing else.
LEMMA SumOfSame ==
  ASSUME NEW S, IsFiniteSet(S), NEW m, NEW n, \A x \in S : m[x] = n[x]
  PROVE  SumOf(m, S) = SumOf(n, S)
<1> DEFINE B == {T \in SUBSET S : SumOf(m, T) # SumOf(n, T)}
<1>1. SUFFICES ASSUME B # {} PROVE FALSE
  OBVIOUS
<1>2. PICK b \in B : \A c \in B : c \subseteq b => c = b
  <2>1. B \in SUBSET SUBSET S
    OBVIOUS
  <2> HIDE DEF B
  <2> QED
    BY <1>1, <2>1, SetMin
<1>3. b \in SUBSET S /\ IsFiniteSet(b) /\ SumOf(m, b) # SumOf(n, b)
  BY FS_Subset
<1>4. b # {}
  BY <1>3, SumOfNothing
<1>5. Chosen(b) \in b
  BY <1>4 DEF Chosen
<1>6. SumOf(m, b \ {Chosen(b)}) = SumOf(n, b \ {Chosen(b)})
  BY <1>2, <1>5
<1> QED
  BY <1>3, <1>4, <1>5, <1>6, SumOfChosen

\* One value that changes changes the sum by as much.
LEMMA SumOfChanged ==
  ASSUME NEW S, IsFiniteSet(S), NEW m, NEW n, NEW x \in S,
         \A y \in S : m[y] \in Int /\ n[y] \in Int,
         \A y \in S \ {x} : m[y] = n[y]
  PROVE  SumOf(n, S) = SumOf(m, S) - m[x] + n[x]
<1>1. IsFiniteSet(S \ {x})
  BY FS_Subset
<1>2. SumOf(m, S \ {x}) = SumOf(n, S \ {x}) /\ SumOf(m, S \ {x}) \in Int
  BY <1>1, SumOfSame, SumType
<1>3. /\ SumOf(m, S) = m[x] + SumOf(m, S \ {x})
      /\ SumOf(n, S) = n[x] + SumOf(n, S \ {x})
  BY SumOfAny
<1> QED
  BY <1>2, <1>3

\* Values under a bound: their sum is under as many times the bound.
LEMMA SumIsBounded ==
  ASSUME NEW S, IsFiniteSet(S), NEW m, NEW k \in Int, \A x \in S : m[x] \in Int /\ m[x] <= k
  PROVE  SumOf(m, S) <= k * Cardinality(S)
<1> DEFINE B == {T \in SUBSET S : ~ (SumOf(m, T) <= k * Cardinality(T))}
<1>1. SUFFICES ASSUME B # {} PROVE FALSE
  OBVIOUS
<1>2. PICK b \in B : \A c \in B : c \subseteq b => c = b
  <2>1. B \in SUBSET SUBSET S
    OBVIOUS
  <2> HIDE DEF B
  <2> QED
    BY <1>1, <2>1, SetMin
<1>3. b \in SUBSET S /\ IsFiniteSet(b) /\ ~ (SumOf(m, b) <= k * Cardinality(b))
  BY FS_Subset
<1>4. b # {}
  BY <1>3, SumOfNothing, FS_EmptySet
<1> DEFINE z == Chosen(b)
<1>5. z \in b
  BY <1>4 DEF Chosen
<1>6. SumOf(m, b \ {z}) <= k * Cardinality(b \ {z})
  BY <1>2, <1>3, <1>5
<1>7. SumOf(m, b) = m[z] + SumOf(m, b \ {z})
  BY <1>3, <1>4, SumOfChosen
<1>8. Cardinality(b \ {z}) = Cardinality(b) - 1 /\ Cardinality(b) \in Nat
  BY <1>3, <1>5, FS_RemoveElement, FS_CardinalityType
<1>9. IsFiniteSet(b \ {z})
  BY <1>3, FS_Subset
<1>10. SumOf(m, b \ {z}) \in Int /\ m[z] \in Int /\ m[z] <= k
  BY <1>3, <1>5, <1>9, SumType
<1>11. k * (Cardinality(b) - 1) = k * Cardinality(b) - k
  BY <1>8
<1> HIDE DEF z
<1> QED
  BY <1>3, <1>6, <1>7, <1>8, <1>10, <1>11
\* A sum over an initial segment, from the one before it.
LEMMA SumOfNext ==
  ASSUME NEW n \in Nat, NEW m, \A k \in 1 .. n + 1 : m[k] \in Int
  PROVE  SumOf(m, 1 .. n + 1) = SumOf(m, 1 .. n) + m[n + 1]
<1> DEFINE S == 1 .. n + 1
<1>1. IsFiniteSet(S) /\ n + 1 \in S /\ S \ {n + 1} = 1 .. n
  BY FS_Interval
<1>2. IsFiniteSet(1 .. n)
  BY FS_Interval
<1>3. \A k \in S : m[k] \in Int
  OBVIOUS
<1>4. SumOf(m, 1 .. n) \in Int
  BY <1>2, SumType
<1> HIDE DEF S
<1>5. SumOf(m, S) = m[n + 1] + SumOf(m, S \ {n + 1})
  BY <1>1, <1>3, SumOfAny
<1>6. SumOf(m, S) = m[n + 1] + SumOf(m, 1 .. n) /\ m[n + 1] \in Int
  BY <1>1, <1>3, <1>5
<1> QED
  BY <1>4, <1>6 DEF S
\* One element more, and the other values as they were.
LEMMA SumOfMore ==
  ASSUME NEW S, IsFiniteSet(S), NEW m, NEW n, NEW x, x \notin S,
         \A y \in S : m[y] \in Int /\ n[y] = m[y], n[x] \in Int
  PROVE  SumOf(n, S \cup {x}) = SumOf(m, S) + n[x]
<1> DEFINE T == S \cup {x}
<1>1. IsFiniteSet(T) /\ x \in T /\ T \ {x} = S /\ \A y \in T : n[y] \in Int
  BY FS_AddElement
<1> HIDE DEF T
<1>2. SumOf(n, T) = n[x] + SumOf(n, T \ {x})
  BY <1>1, SumOfAny
<1>3. SumOf(n, S) = SumOf(m, S)
  BY SumOfSame
<1>4. SumOf(m, S) \in Int
  BY SumType
<1>5. SumOf(n, T) = n[x] + SumOf(m, S)
  BY <1>1, <1>2, <1>3
<1> QED
  BY <1>4, <1>5 DEF T

-----------------------------------------------------------------------------
(***************************************************************************)
(* Sequences of whatever there is, as when a damaged storage holds entries *)
(* of no set that could be named.                                          *)
(***************************************************************************)
Listed(s) == \E S : s \in Seq(S)

LEMMA ListedIs ==
  ASSUME NEW s, Listed(s)
  PROVE  /\ Len(s) \in Nat /\ DOMAIN s = 1 .. Len(s)
         /\ s = [k \in 1 .. Len(s) |-> s[k]]
         /\ s = <<>> <=> Len(s) = 0
<1>1. PICK S : s \in Seq(S)
  BY DEF Listed
<1> QED
  BY <1>1

LEMMA IsListed ==
  ASSUME NEW n \in Nat, NEW s, DOMAIN s = 1 .. n, s = [k \in 1 .. n |-> s[k]]
  PROVE  Listed(s) /\ Len(s) = n
<1> DEFINE S == {s[k] : k \in 1 .. n}
<1>1. s \in [1 .. n -> S]
  OBVIOUS
<1>2. s \in Seq(S)
  BY <1>1, SeqDef
<1>3. Len(s) \in Nat /\ 1 .. Len(s) = 1 .. n
  BY <1>2, LenProperties
<1>4. Len(s) = n
  BY <1>3
<1> QED
  BY <1>2, <1>4 DEF Listed

LEMMA SameList ==
  ASSUME NEW s, Listed(s), NEW t, Listed(t), Len(s) = Len(t),
         \A k \in 1 .. Len(s) : s[k] = t[k]
  PROVE  s = t
BY ListedIs

LEMMA Appended ==
  ASSUME NEW s, Listed(s), NEW e
  PROVE  /\ Listed(Append(s, e)) /\ Len(Append(s, e)) = Len(s) + 1
         /\ \A k \in 1 .. Len(s) : Append(s, e)[k] = s[k]
         /\ Append(s, e)[Len(s) + 1] = e
<1>1. PICK S : s \in Seq(S)
  BY DEF Listed
<1>2. s \in Seq(S \cup {e}) /\ e \in S \cup {e}
  BY <1>1, SeqMonotonic
<1>3. /\ Append(s, e) \in Seq(S \cup {e}) /\ Len(Append(s, e)) = Len(s) + 1
      /\ \A k \in 1 .. Len(s) : Append(s, e)[k] = s[k]
      /\ Append(s, e)[Len(s) + 1] = e
  BY <1>2, AppendProperties
<1> QED
  BY <1>3 DEF Listed

LEMMA CutList ==
  ASSUME NEW s, Listed(s), NEW n \in 0 .. Len(s)
  PROVE  /\ Listed(SubSeq(s, 1, n)) /\ Len(SubSeq(s, 1, n)) = n
         /\ \A k \in 1 .. n : SubSeq(s, 1, n)[k] = s[k]
<1>1. PICK S : s \in Seq(S)
  BY DEF Listed
<1>2. /\ SubSeq(s, 1, n) \in Seq(S) /\ Len(SubSeq(s, 1, n)) = n
      /\ \A k \in 1 .. n : SubSeq(s, 1, n)[k] = s[k]
  BY <1>1
<1> QED
  BY <1>2 DEF Listed

LEMMA RemovedAt ==
  ASSUME NEW s, Listed(s), NEW n \in 1 .. Len(s)
  PROVE  /\ Listed(RemoveAt(s, n))
         /\ \A k \in DOMAIN RemoveAt(s, n) : \E j \in DOMAIN s : RemoveAt(s, n)[k] = s[j]
<1>1. PICK S : s \in Seq(S)
  BY DEF Listed
<1> DEFINE a == SubSeq(s, 1, n - 1)
           b == SubSeq(s, n + 1, Len(s))
           R == {s[j] : j \in DOMAIN s}
<1>2. Len(s) \in Nat /\ DOMAIN s = 1 .. Len(s)
  BY <1>1
<1>3. a \in Seq(R)
  <2>1. \A i \in 1 .. n - 1 : s[i] \in R
    BY <1>2
  <2> HIDE DEF R
  <2> QED
    BY <1>2, <2>1, SubSeqProperties
<1>4. b \in Seq(R)
  <2>1. \A i \in n + 1 .. Len(s) : s[i] \in R
    BY <1>2
  <2> HIDE DEF R
  <2> QED
    BY <1>2, <2>1, SubSeqProperties
<1>5. RemoveAt(s, n) = a \o b
  BY DEF RemoveAt
<1> HIDE DEF R, a, b
<1>6. RemoveAt(s, n) \in Seq(R)
  BY <1>3, <1>4, <1>5, ConcatProperties
<1>7. \A k \in DOMAIN RemoveAt(s, n) : RemoveAt(s, n)[k] \in R
  BY <1>6
<1> QED
  BY <1>6, <1>7 DEF R, Listed

LEMMA PrefixIs ==
  ASSUME NEW s, Listed(s), NEW t, Listed(t)
  PROVE  IsPrefix(s, t) <=> Len(s) <= Len(t) /\ \A k \in 1 .. Len(s) : s[k] = t[k]
<1>1. Len(s) \in Nat /\ Len(t) \in Nat
  BY ListedIs
<1>2. CASE Len(s) <= Len(t)
  <2> DEFINE a == SubSeq(s, 1, Len(s))
             b == SubSeq(t, 1, Len(s))
  <2>1. Listed(a) /\ Len(a) = Len(s) /\ \A k \in 1 .. Len(s) : a[k] = s[k]
    BY <1>1, CutList
  <2>2. Listed(b) /\ Len(b) = Len(s) /\ \A k \in 1 .. Len(s) : b[k] = t[k]
    BY <1>1, <1>2, CutList
  <2>3. IsPrefix(s, t) <=> a = b
    BY <1>2 DEF IsPrefix
  <2> HIDE DEF a, b
  <2>4. (\A k \in 1 .. Len(s) : s[k] = t[k]) => a = b
    BY <2>1, <2>2, SameList
  <2>5. a = b => \A k \in 1 .. Len(s) : s[k] = t[k]
    BY <2>1, <2>2
  <2> QED
    BY <1>2, <2>3, <2>4, <2>5
<1>3. CASE ~(Len(s) <= Len(t))
  BY <1>3 DEF IsPrefix
<1> QED
  BY <1>2, <1>3

-----------------------------------------------------------------------------
(***************************************************************************)
(* What verify_sequence computes                                           *)
(***************************************************************************)
\* Two tables over sets of positions that start alike and go on alike are
\* alike.
LEMMA SameTable ==
  ASSUME NEW n \in Nat, NEW f, NEW g, f[{}] = g[{}],
         \A s \in SUBSET (1 .. n) :
           s # {} /\ f[s \ {Max(s)}] = g[s \ {Max(s)}] => f[s] = g[s]
  PROVE  f[1 .. n] = g[1 .. n]
<1> DEFINE N == 1 .. n
           B == {s \in SUBSET N : f[s] # g[s]}
<1>1. IsFiniteSet(N) /\ \A p \in N : p \in Int
  <2>1. IsFiniteSet(1 .. n)
    BY FS_Interval
  <2> QED
    BY <2>1
<1>2. SUFFICES ASSUME B # {} PROVE FALSE
  OBVIOUS
<1>3. PICK b \in B : \A c \in B : c \subseteq b => c = b
  <2>1. B \in SUBSET SUBSET N
    OBVIOUS
  <2> HIDE DEF B, N
  <2> QED
    BY <1>1, <1>2, <2>1, SetMin
<1>4. b \in SUBSET N /\ f[b] # g[b] /\ b # {}
  OBVIOUS
<1>5. Max(b) \in b
  <2>1. IsFiniteSet(b) /\ \A p \in b : p \in Int
    BY <1>1, <1>4, FS_Subset
  <2> QED
    BY <1>4, <2>1, MaxIs
<1>6. b \ {Max(b)} \in SUBSET N /\ b \ {Max(b)} # b /\ b \ {Max(b)} \subseteq b
  BY <1>4, <1>5
<1>7. f[b \ {Max(b)}] = g[b \ {Max(b)}]
  BY <1>3, <1>6
<1> QED
  BY <1>4, <1>7

\* The report on the records at the positions s, in closed form.
Met(records, s) == {c \in {records[p].call : p \in s} : Opened(records, s, c)}

StatesAt(records, s) ==
  [c \in Met(records, s) |-> IF ClosedCall(records, s, c) THEN "closed" ELSE "open"]

Earlier(s, p) == {q \in s : q < p}

Fault(records, s, p) == FaultAt(records, Earlier(s, p), p)

ViolationsAt(records, s) ==
  {[position |-> Cardinality(Earlier(s, p)), call |-> records[p].call,
    kind |-> Fault(records, s, p)] : p \in {q \in s : Fault(records, s, q) # "none"}}

ReportAt(records, s) ==
  [position   |-> Cardinality(s),
   states     |-> StatesAt(records, s),
   violations |-> ViolationsAt(records, s)]

Nothing == [position |-> 0, states |-> <<>>, violations |-> {}]

\* The tables of reports whose last entry FoldLeft takes.
IsReports(records, g) ==
  g = [s \in SUBSET DOMAIN records |->
         IF s = {} THEN Nothing ELSE Examine(g[s \ {Max(s)}], records[Max(s)])]

LEMMA ExaminedIsFold ==
  ASSUME NEW records
  PROVE  Examined(records) = (CHOOSE g : IsReports(records, g))[DOMAIN records]
BY DEF Examined, FoldLeft, MapThenFoldSet, IsReports, Nothing

\* One record more, after all the others, opens or closes its own call.
LEMMA MetMore ==
  ASSUME NEW records, NEW t, NEW m \in Int,
         \A q \in t : q \in Int /\ q < m, NEW c
  PROVE  /\ Opened(records, t \cup {m}, c) <=>
              Opened(records, t, c) \/ Opens(records[m], c)
         /\ ClosedCall(records, t \cup {m}, c) <=>
              \/ ClosedCall(records, t, c)
              \/ Opened(records, t, c) /\ Closes(records[m], c)
<1>1. Opened(records, t \cup {m}, c) <=> Opened(records, t, c) \/ Opens(records[m], c)
  BY DEF Opened
<1>2. ASSUME ClosedCall(records, t \cup {m}, c)
      PROVE  ClosedCall(records, t, c) \/ (Opened(records, t, c) /\ Closes(records[m], c))
  <2>1. PICK p \in t \cup {m}, q \in t \cup {m} :
          p < q /\ Opens(records[p], c) /\ Closes(records[q], c)
    BY <1>2 DEF ClosedCall
  <2>2. CASE q = m
    <3>1. p # m
      BY <2>1, <2>2
    <3> QED
      BY <2>1, <2>2, <3>1 DEF Opened
  <2>3. CASE q \in t
    <3>1. p # m
      BY <2>1, <2>3
    <3>2. p \in t
      BY <3>1
    <3> QED
      BY <2>1, <2>3, <3>2 DEF ClosedCall
  <2> QED
    BY <2>2, <2>3
<1>3. ASSUME ClosedCall(records, t, c) \/ (Opened(records, t, c) /\ Closes(records[m], c))
      PROVE  ClosedCall(records, t \cup {m}, c)
  <2>1. CASE ClosedCall(records, t, c)
    BY <2>1 DEF ClosedCall
  <2>2. CASE Opened(records, t, c) /\ Closes(records[m], c)
    BY <2>2 DEF Opened, ClosedCall
  <2> QED
    BY <1>3, <2>1, <2>2
<1> QED
  BY <1>1, <1>2, <1>3

\* The map `states` holds the calls that were opened, closed or not.
LEMMA StatesAtIs ==
  ASSUME NEW records, NEW t, NEW c
  PROVE  /\ c \in DOMAIN StatesAt(records, t) <=> Opened(records, t, c)
         /\ StateOf(StatesAt(records, t), c) =
              IF ~Opened(records, t, c) THEN "unknown"
              ELSE IF ClosedCall(records, t, c) THEN "closed" ELSE "open"
<1>1. c \in DOMAIN StatesAt(records, t) <=> Opened(records, t, c)
  BY DEF StatesAt, Met, Opened, Opens
<1>2. c \in DOMAIN StatesAt(records, t) =>
        StatesAt(records, t)[c] = IF ClosedCall(records, t, c) THEN "closed" ELSE "open"
  BY DEF StatesAt
<1> QED
  BY <1>1, <1>2 DEF StateOf

\* A call that is closed was opened.
LEMMA ClosedWasOpened ==
  ASSUME NEW records, NEW t, NEW c, ClosedCall(records, t, c)
  PROVE  Opened(records, t, c)
BY DEF ClosedCall, Opened

\* The faults verify_sequence finds are those the past names.
LEMMA FaultIs ==
  ASSUME NEW records, NEW t, NEW m
  PROVE  LET fault == FaultAt(records, t, m)
         IN  Violation(records[m].kind, StateOf(StatesAt(records, t), records[m].call)) =
               IF fault = "none" THEN {} ELSE {fault}
<1> DEFINE c == records[m].call
           intent == records[m].kind = "intent"
           o == Opened(records, t, c)
           e == ClosedCall(records, t, c)
<1>1. e => o
  BY ClosedWasOpened
<1>2. StateOf(StatesAt(records, t), c) =
        IF ~o THEN "unknown" ELSE IF e THEN "closed" ELSE "open"
  BY StatesAtIs
<1>3. FaultAt(records, t, m) =
        CASE intent /\ e -> "record_after_closure"
          [] intent /\ o /\ ~e -> "duplicate_intent"
          [] ~intent /\ e -> "duplicate_closure"
          [] ~intent /\ ~o -> "closure_without_intent"
          [] OTHER -> "none"
  BY DEF FaultAt
<1>4. ASSUME NEW state
      PROVE  Violation(records[m].kind, state) =
               CASE intent /\ state = "open" -> {"duplicate_intent"}
                 [] intent /\ state = "closed" -> {"record_after_closure"}
                 [] ~intent /\ state = "closed" -> {"duplicate_closure"}
                 [] ~intent /\ state = "unknown" -> {"closure_without_intent"}
                 [] OTHER -> {}
  BY DEF Violation
<1>5. Violation(records[m].kind, StateOf(StatesAt(records, t), c)) =
        CASE intent /\ o /\ ~e -> {"duplicate_intent"}
          [] intent /\ e -> {"record_after_closure"}
          [] ~intent /\ e -> {"duplicate_closure"}
          [] ~intent /\ ~o -> {"closure_without_intent"}
          [] OTHER -> {}
  <2> HIDE DEF intent, o, e, c
  <2>1. CASE ~o
    BY <1>1, <1>2, <1>4, <2>1
  <2>2. CASE o /\ e
    BY <1>2, <1>4, <2>2
  <2>3. CASE o /\ ~e
    BY <1>2, <1>4, <2>3
  <2> QED
    BY <2>1, <2>2, <2>3
<1> HIDE DEF intent, o, e
<1> QED
  BY <1>1, <1>3, <1>5

\* One record more.
LEMMA ReportMore ==
  ASSUME NEW records, NEW t, IsFiniteSet(t), NEW m \in Int,
         \A q \in t : q \in Int /\ q < m
  PROVE  ReportAt(records, t \cup {m}) = Examine(ReportAt(records, t), records[m])
<1> DEFINE s == t \cup {m}
           c == records[m].call
           fault == FaultAt(records, t, m)
           intent == records[m].kind = "intent"
           moved == IF intent THEN "open" ELSE "closed"
           new == [position |-> Cardinality(t), call |-> c, kind |-> fault]
<1>1. m \notin t
  OBVIOUS
<1>2. Cardinality(s) = Cardinality(t) + 1
  BY <1>1, FS_AddElement
<1>3. Violation(records[m].kind, StateOf(StatesAt(records, t), c)) =
        IF fault = "none" THEN {} ELSE {fault}
  BY FaultIs
<1>4. ViolationsAt(records, s) =
        ViolationsAt(records, t) \cup (IF fault = "none" THEN {} ELSE {new})
  <2>1. \A p \in t : Earlier(s, p) = Earlier(t, p)
    <3>1. ASSUME NEW p \in t PROVE ~(m < p)
      OBVIOUS
    <3> QED
      BY <3>1 DEF Earlier
  <2>2. Earlier(s, m) = t
    <3>1. ~(m < m)
      OBVIOUS
    <3> QED
      BY <3>1 DEF Earlier
  <2>3. \A p \in t : Fault(records, s, p) = Fault(records, t, p)
    BY <2>1 DEF Fault
  <2>4. Fault(records, s, m) = fault
    BY <2>2 DEF Fault
  <2> DEFINE told(p) == [position |-> Cardinality(Earlier(s, p)), call |-> records[p].call,
                         kind |-> Fault(records, s, p)]
             was(p) == [position |-> Cardinality(Earlier(t, p)), call |-> records[p].call,
                        kind |-> Fault(records, t, p)]
             F == {q \in s : Fault(records, s, q) # "none"}
             G == {q \in t : Fault(records, t, q) # "none"}
  <2>5. ViolationsAt(records, s) = {told(p) : p \in F}
        /\ ViolationsAt(records, t) = {was(p) : p \in G}
    BY DEF ViolationsAt
  <2>6. \A p \in t : told(p) = was(p)
    BY <2>1, <2>3
  <2>7. told(m) = new
    BY <2>2, <2>4
  <2>8. F = G \cup (IF fault = "none" THEN {} ELSE {m})
    BY <2>3, <2>4
  <2>9. G \subseteq t
    OBVIOUS
  <2> HIDE DEF told, was, F, G, new, fault
  <2>10. {told(p) : p \in F} =
           {was(p) : p \in G} \cup (IF fault = "none" THEN {} ELSE {new})
    BY <2>6, <2>7, <2>8, <2>9
  <2> QED
    BY <2>5, <2>10
<1>5. StatesAt(records, s) =
        IF fault = "none" THEN Insert(StatesAt(records, t), c, moved) ELSE StatesAt(records, t)
  <2> DEFINE o(x) == Opened(records, t, x)
             e(x) == ClosedCall(records, t, x)
  <2>1. \A x : (Opened(records, s, x) <=> o(x) \/ Opens(records[m], x))
            /\ (ClosedCall(records, s, x) <=> e(x) \/ (o(x) /\ Closes(records[m], x)))
    BY MetMore
  <2>2. \A x : (Opens(records[m], x) <=> x = c /\ intent)
            /\ (Closes(records[m], x) <=> x = c /\ ~intent)
    BY DEF Opens, Closes
  <2>3. \A x : e(x) => o(x)
    BY ClosedWasOpened
  <2>4. fault = "none" <=> \/ intent /\ ~o(c)
                           \/ ~intent /\ o(c) /\ ~e(c)
    <3>1. e(c) => o(c)
      BY <2>3
    <3> QED
      BY <3>1 DEF FaultAt
  <2>5. \A x : (x \in DOMAIN StatesAt(records, t) <=> o(x))
            /\ (x \in DOMAIN StatesAt(records, s) <=> Opened(records, s, x))
    BY StatesAtIs
  <2>6. \A x : o(x) => StatesAt(records, t)[x] = IF e(x) THEN "closed" ELSE "open"
    BY <2>5 DEF StatesAt
  <2>7. \A x : Opened(records, s, x) =>
                 StatesAt(records, s)[x] = IF ClosedCall(records, s, x) THEN "closed" ELSE "open"
    BY <2>5 DEF StatesAt
  <2> DEFINE f == StatesAt(records, s)
             g == StatesAt(records, t)
             h == Insert(g, c, moved)
  <2>8. f = [x \in DOMAIN f |-> f[x]] /\ g = [x \in DOMAIN g |-> g[x]]
    BY DEF StatesAt
  <2>9. h = [x \in DOMAIN g \cup {c} |-> IF x = c THEN moved ELSE g[x]]
    BY DEF Insert
  <2> HIDE DEF o, e, f, g, h, s, fault, intent, c
  <2>10. CASE fault = "none"
    <3>1. DOMAIN f = DOMAIN h
      <4>1. \A x : x \in DOMAIN f <=> o(x) \/ x = c
        BY <2>1, <2>2, <2>4, <2>5, <2>10 DEF f
      <4>2. \A x : x \in DOMAIN h <=> o(x) \/ x = c
        BY <2>5, <2>9 DEF g
      <4> QED
        BY <4>1, <4>2, <2>8, <2>9
    <3>2. ASSUME NEW x \in DOMAIN f PROVE f[x] = h[x]
      <4>1. Opened(records, s, x) /\ x \in DOMAIN h
        BY <2>5, <3>1 DEF f
      <4>2. f[x] = IF ClosedCall(records, s, x) THEN "closed" ELSE "open"
        BY <2>7, <4>1 DEF f
      <4>3. CASE x = c
        <5>1. h[x] = moved
          BY <2>9, <4>1, <4>3
        <5>2. ClosedCall(records, s, x) <=> ~intent
          BY <2>1, <2>2, <2>3, <2>4, <2>10, <4>3
        <5> QED
          BY <4>2, <5>1, <5>2
      <4>4. CASE x # c
        <5>1. h[x] = g[x] /\ o(x)
          BY <2>1, <2>2, <2>9, <4>1, <4>4
        <5>2. g[x] = IF e(x) THEN "closed" ELSE "open"
          BY <2>6, <5>1 DEF g
        <5>3. ClosedCall(records, s, x) <=> e(x)
          BY <2>1, <2>2, <4>4
        <5> QED
          BY <4>2, <5>1, <5>2, <5>3
      <4> QED
        BY <4>3, <4>4
    <3>3. f = h
      BY <2>8, <2>9, <3>1, <3>2
    <3> QED
      BY <2>10, <3>3 DEF f, g, h
  <2>11. CASE fault # "none"
    <3>1. \A x : (Opened(records, s, x) <=> o(x)) /\ (ClosedCall(records, s, x) <=> e(x))
      BY <2>1, <2>2, <2>3, <2>4, <2>11
    <3>2. DOMAIN f = DOMAIN g
      BY <2>5, <2>8, <3>1 DEF f, g
    <3>3. \A x \in DOMAIN f : f[x] = g[x]
      BY <2>5, <2>6, <2>7, <3>1 DEF f, g
    <3>4. f = g
      BY <2>8, <3>2, <3>3
    <3> QED
      BY <2>11, <3>4 DEF f, g
  <2> QED
    BY <2>10, <2>11
<1> DEFINE r == ReportAt(records, t)
           faults == Violation(records[m].kind, StateOf(r.states, c))
<1>6. r.position = Cardinality(t) /\ r.states = StatesAt(records, t)
      /\ r.violations = ViolationsAt(records, t)
  BY DEF ReportAt
<1>7. Examine(r, records[m]) =
        [position |-> r.position + 1,
         states |-> IF faults = {} THEN Insert(r.states, c, moved) ELSE r.states,
         violations |-> r.violations \cup
                          {[position |-> r.position, call |-> c, kind |-> k] : k \in faults}]
  BY DEF Examine
<1>8. faults = IF fault = "none" THEN {} ELSE {fault}
  BY <1>3, <1>6
<1>9. {[position |-> r.position, call |-> c, kind |-> k] : k \in faults} =
        IF fault = "none" THEN {} ELSE {new}
  <2> HIDE DEF r, faults, fault, c
  <2> QED
    BY <1>6, <1>8
<1>10. ReportAt(records, s) = [position |-> Cardinality(s), states |-> StatesAt(records, s),
                               violations |-> ViolationsAt(records, s)]
  BY DEF ReportAt
<1> HIDE DEF r, faults, fault, c, s, moved, new
<1>11. (IF faults = {} THEN Insert(r.states, c, moved) ELSE r.states) = StatesAt(records, s)
  BY <1>5, <1>6, <1>8
<1>12. r.violations \cup {[position |-> r.position, call |-> c, kind |-> k] : k \in faults}
         = ViolationsAt(records, s)
  BY <1>4, <1>6, <1>9
<1>13. r.position + 1 = Cardinality(s)
  BY <1>2, <1>6
<1> QED
  BY <1>7, <1>10, <1>11, <1>12, <1>13 DEF r, s

\* No record.
LEMMA ReportOfNothing ==
  ASSUME NEW records
  PROVE  ReportAt(records, {}) = Nothing
<1>1. Met(records, {}) = {}
  BY DEF Met
<1>2. StatesAt(records, {}) = [c \in {} |-> IF ClosedCall(records, {}, c) THEN "closed" ELSE "open"]
  BY <1>1 DEF StatesAt
<1>3. StatesAt(records, {}) = <<>>
  BY <1>2
<1>4. ViolationsAt(records, {}) = {}
  BY DEF ViolationsAt
<1> QED
  BY <1>3, <1>4, FS_EmptySet DEF ReportAt, Nothing

\* verify_sequence computes the closed form.
LEMMA ExaminedIs ==
  ASSUME NEW n \in Nat, NEW records, DOMAIN records = 1 .. n
  PROVE  Examined(records) = ReportAt(records, 1 .. n)
<1> DEFINE N == 1 .. n
           h == [s \in SUBSET N |-> ReportAt(records, s)]
<1>1. IsFiniteSet(N) /\ \A p \in N : p \in Int
  <2>1. IsFiniteSet(1 .. n)
    BY FS_Interval
  <2> QED
    BY <2>1
<1>2. ASSUME NEW s \in SUBSET N, s # {}
      PROVE  /\ Max(s) \in s /\ s \ {Max(s)} \in SUBSET N
             /\ h[s] = Examine(h[s \ {Max(s)}], records[Max(s)])
  <2>1. IsFiniteSet(s) /\ \A p \in s : p \in Int
    BY <1>1, FS_Subset
  <2>2. Max(s) \in s /\ \A p \in s : Max(s) >= p
    BY <1>2, <2>1, MaxIs
  <2> DEFINE m == Max(s)
             t == s \ {m}
  <2>3. t \in SUBSET N /\ t \cup {m} = s /\ m \in Int
    BY <2>1, <2>2
  <2>4. IsFiniteSet(t)
    BY <2>1, FS_Subset
  <2>5. ASSUME NEW q \in t PROVE q \in Int /\ q < m
    <3>1. q \in Int /\ m \in Int /\ q # m /\ m >= q
      BY <2>1, <2>2
    <3> HIDE DEF m
    <3> QED
      BY <3>1
  <2>6. ReportAt(records, t \cup {m}) = Examine(ReportAt(records, t), records[m])
    <3> HIDE DEF t, m
    <3> QED
      BY <2>3, <2>4, <2>5, ReportMore
  <2>7. h[s] = ReportAt(records, s) /\ h[t] = ReportAt(records, t)
    BY <2>3
  <2> HIDE DEF h
  <2> QED
    BY <2>2, <2>3, <2>6, <2>7
<1>3. h[{}] = Nothing
  BY ReportOfNothing
<1>4. IsReports(records, h)
  <2>1. \A s \in SUBSET N :
          ReportAt(records, s) =
            IF s = {} THEN Nothing ELSE Examine(h[s \ {Max(s)}], records[Max(s)])
    BY <1>2, <1>3, ReportOfNothing
  <2>2. h = [s \in SUBSET N |->
               IF s = {} THEN Nothing ELSE Examine(h[s \ {Max(s)}], records[Max(s)])]
    BY <2>1
  <2> HIDE DEF h
  <2> QED
    BY <2>2 DEF IsReports
<1> DEFINE g == CHOOSE x : IsReports(records, x)
<1>5. IsReports(records, g)
  BY <1>4
<1>6. \A s \in SUBSET N :
        g[s] = IF s = {} THEN Nothing ELSE Examine(g[s \ {Max(s)}], records[Max(s)])
  <2> HIDE DEF g
  <2> QED
    BY <1>5 DEF IsReports
<1>7. g[N] = h[N]
  <2> HIDE DEF g, h
  <2>1. g[{}] = h[{}]
    BY <1>3, <1>6
  <2>2. \A s \in SUBSET N : s # {} /\ g[s \ {Max(s)}] = h[s \ {Max(s)}] => g[s] = h[s]
    BY <1>2, <1>6
  <2> QED
    BY <2>1, <2>2, SameTable
<1>8. Examined(records) = g[N]
  BY ExaminedIsFold
<1> QED
  BY <1>7, <1>8
\* What verify_sequence returns, on what the positions hold.
LEMMA VerdictIs ==
  ASSUME NEW n \in Nat, NEW records, DOMAIN records = 1 .. n
  PROVE  /\ Violations(records) = ViolationsAt(records, 1 .. n)
         /\ \A c : c \in OpenCalls(records) <=>
                     Opened(records, 1 .. n, c) /\ ~ClosedCall(records, 1 .. n, c)
<1> DEFINE N == 1 .. n
<1>1. Examined(records) = ReportAt(records, N)
  BY ExaminedIs
<1>2. Examined(records).states = StatesAt(records, N)
      /\ Examined(records).violations = ViolationsAt(records, N)
  BY <1>1 DEF ReportAt
<1>3. \A c : (c \in DOMAIN StatesAt(records, N) <=> Opened(records, N, c))
  BY StatesAtIs
<1>4. \A c \in DOMAIN StatesAt(records, N) :
        StatesAt(records, N)[c] = IF ClosedCall(records, N, c) THEN "closed" ELSE "open"
  BY DEF StatesAt
<1> HIDE DEF N
<1>5. OpenCalls(records) =
        {c \in DOMAIN StatesAt(records, N) : StatesAt(records, N)[c] = "open"}
  BY <1>2 DEF OpenCalls
<1> QED
  BY <1>2, <1>3, <1>4, <1>5 DEF Violations, N

\* What precedes a record is what stands before it.
LEMMA EarlierIs ==
  ASSUME NEW n \in Nat, NEW p \in 1 .. n
  PROVE  Earlier(1 .. n, p) = 1 .. p - 1 /\ Cardinality(1 .. p - 1) = p - 1
<1>1. Earlier(1 .. n, p) = 1 .. p - 1
  BY DEF Earlier
<1>2. Cardinality(1 .. p - 1) = p - 1
  BY FS_Interval
<1> QED
  BY <1>1, <1>2

\* A journal without fault is one that tells every call once.
LEMMA FaultlessIs ==
  ASSUME NEW n \in Nat, NEW records, DOMAIN records = 1 .. n
  PROVE  (\A p \in 1 .. n : Fault(records, 1 .. n, p) = "none")
           <=> \A c : ToldOnce(records, c)
<1> DEFINE N == 1 .. n
           own(c) == {p \in N : records[p].call = c}
           before(p) == Earlier(N, p)
<1>1. \A p \in N, q \in N : q \in before(p) <=> q < p
  BY DEF Earlier
<1>2. \A p \in N : before(p) \subseteq N
  BY DEF Earlier
<1>3. \A c : ToldOnce(records, c) <=>
        \/ own(c) = {}
        \/ \E p \in own(c) : own(c) = {p} /\ Opens(records[p], c)
        \/ \E p \in own(c), q \in own(c) :
             p < q /\ own(c) = {p, q} /\ Opens(records[p], c) /\ Closes(records[q], c)
  BY DEF ToldOnce
<1>4. \A p \in N : Fault(records, N, p) = FaultAt(records, before(p), p)
  BY DEF Fault
<1>5. \A p \in N : \A c : (Opens(records[p], c) <=> p \in own(c) /\ records[p].kind = "intent")
                   /\ (Closes(records[p], c) <=> p \in own(c) /\ records[p].kind # "intent")
  BY DEF Opens, Closes
<1>6. \A p \in N : \A c : Opened(records, before(p), c) <=>
                        \E q \in before(p) : q \in own(c) /\ records[q].kind = "intent"
  BY <1>2, <1>5 DEF Opened
<1>7. \A p \in N : \A c : ClosedCall(records, before(p), c) <=>
        \E i \in before(p), j \in before(p) : /\ i < j /\ i \in own(c) /\ records[i].kind = "intent"
                                /\ j \in own(c) /\ records[j].kind # "intent"
  BY <1>2, <1>5 DEF ClosedCall
<1>8. \A c : own(c) \subseteq N /\ \A p \in own(c) : records[p].call = c
  OBVIOUS
<1>9. \A p \in N : p \in own(records[p].call)
  OBVIOUS
<1>10. \A p \in N : p \in Int /\ p \in 0 .. n
  OBVIOUS
<1>11. \A p \in N :
         LET c == records[p].call
             intent == records[p].kind = "intent"
             o == Opened(records, before(p), c)
             e == ClosedCall(records, before(p), c)
         IN  FaultAt(records, before(p), p) = "none" <=>
               (intent /\ ~o /\ ~e) \/ (~intent /\ o /\ ~e)
  <2> SUFFICES ASSUME NEW p \in N
               PROVE  LET c == records[p].call
                          intent == records[p].kind = "intent"
                          o == Opened(records, before(p), c)
                          e == ClosedCall(records, before(p), c)
                      IN  FaultAt(records, before(p), p) = "none" <=>
                            (intent /\ ~o /\ ~e) \/ (~intent /\ o /\ ~e)
    OBVIOUS
  <2> HIDE DEF before, N, own
  <2> QED
    BY DEF FaultAt
<1> HIDE DEF N, own, before
<1>12. ASSUME \A c : ToldOnce(records, c), NEW p \in N
       PROVE  Fault(records, N, p) = "none"
  <2> DEFINE c == records[p].call
  <2>1. p \in own(c) /\ ToldOnce(records, c)
    BY <1>9, <1>12
  <2>2. CASE \E i \in own(c) : own(c) = {i} /\ Opens(records[i], c)
    <3>1. own(c) = {p} /\ Opens(records[p], c)
      BY <2>1, <2>2
    <3>2. \A q \in before(p) : q \notin own(c)
      BY <1>1, <1>2, <1>10, <3>1
    <3>3. ~Opened(records, before(p), c) /\ ~ClosedCall(records, before(p), c)
      BY <1>6, <1>7, <3>2
    <3>4. records[p].kind = "intent"
      BY <1>5, <3>1
    <3> QED
      BY <1>4, <1>11, <3>3, <3>4
  <2>3. CASE \E i \in own(c), j \in own(c) :
               i < j /\ own(c) = {i, j} /\ Opens(records[i], c) /\ Closes(records[j], c)
    <3>1. PICK i \in own(c), j \in own(c) :
             i < j /\ own(c) = {i, j} /\ Opens(records[i], c) /\ Closes(records[j], c)
      BY <2>3
    <3>2. i \in N /\ j \in N /\ i \in Int /\ j \in Int /\ ~(j < i) /\ ~(i < i) /\ ~(j < j)
      BY <1>8, <1>10, <3>1
    <3>3. records[i].kind = "intent" /\ records[j].kind # "intent"
      BY <1>5, <3>1, <3>2
    <3>4. CASE p = i
      <4>1. \A q \in before(p) : q \notin own(c)
        BY <1>1, <1>2, <3>1, <3>2, <3>4
      <4>2. ~Opened(records, before(p), c) /\ ~ClosedCall(records, before(p), c)
        BY <1>6, <1>7, <4>1
      <4> QED
        BY <1>4, <1>11, <3>3, <3>4, <4>2
    <3>5. CASE p = j
      <4>1. i \in before(p) /\ \A q \in before(p) : q \in own(c) => q = i
        BY <1>1, <1>2, <3>1, <3>2, <3>5
      <4>2. Opened(records, before(p), c)
        BY <1>6, <3>1, <3>3, <4>1
      <4>3. ~ClosedCall(records, before(p), c)
        BY <1>7, <3>3, <4>1
      <4> QED
        BY <1>4, <1>11, <3>3, <3>5, <4>2, <4>3
    <3> QED
      BY <2>1, <3>1, <3>4, <3>5
  <2> QED
    BY <1>3, <2>1, <2>2, <2>3
<1>13. ASSUME \A p \in N : Fault(records, N, p) = "none", NEW c
       PROVE  ToldOnce(records, c)
  <2>1. \A p \in own(c) :
          LET o == Opened(records, before(p), c)
              e == ClosedCall(records, before(p), c)
              intent == records[p].kind = "intent"
          IN  p \in N /\ ((intent /\ ~o /\ ~e) \/ (~intent /\ o /\ ~e))
    BY <1>4, <1>8, <1>11, <1>13
  <2>2. CASE own(c) = {}
    BY <1>3, <2>2
  <2>3. CASE own(c) # {}
    <3>1. own(c) \in SUBSET (0 .. n)
      BY <1>8, <1>10
    <3>2. PICK i \in own(c) : \A q \in own(c) : i <= q
      BY <2>3, <3>1, LeastPosition
    <3>3. i \in N /\ i \in Int /\ \A q \in before(i) : q \notin own(c)
      <4>1. i \in N /\ i \in Int
        BY <1>8, <1>10
      <4>2. ASSUME NEW q \in before(i), q \in own(c) PROVE FALSE
        <5>1. q \in N /\ q \in Int /\ q < i /\ i <= q
          BY <1>1, <1>2, <1>10, <3>2, <4>1, <4>2
        <5> QED
          BY <4>1, <5>1
      <4> QED
        BY <4>1, <4>2
    <3>4. records[i].kind = "intent" /\ Opens(records[i], c)
      BY <1>5, <1>6, <2>1, <3>3
    <3>5. CASE own(c) = {i}
      BY <1>3, <3>4, <3>5
    <3>6. CASE own(c) # {i}
      <4>1. own(c) \ {i} # {} /\ own(c) \ {i} \in SUBSET (0 .. n)
        BY <3>1, <3>6
      <4>2. PICK j \in own(c) \ {i} : \A q \in own(c) \ {i} : j <= q
        BY <4>1, LeastPosition
      <4>3. j \in N /\ j \in Int /\ j \in own(c) /\ j # i /\ i <= j
        BY <1>8, <1>10, <3>2, <4>2
      <4>4. i < j /\ i \in before(j)
        BY <1>1, <3>3, <4>3
      <4>5. Opened(records, before(j), c)
        BY <1>6, <3>4, <4>3, <4>4
      <4>6. records[j].kind # "intent" /\ Closes(records[j], c)
        BY <1>5, <2>1, <4>3, <4>5
      <4>7. ASSUME NEW k \in own(c), k # i, k # j PROVE FALSE
        <5>1. k \in N /\ k \in Int /\ j <= k
          BY <1>8, <1>10, <4>2, <4>7
        <5>2. i < k /\ j < k
          BY <3>3, <4>3, <4>4, <4>7, <5>1
        <5>3. i \in before(k) /\ j \in before(k)
          BY <1>1, <3>3, <4>3, <5>1, <5>2
        <5>4. ClosedCall(records, before(k), c)
          BY <1>7, <3>4, <4>3, <4>4, <4>6, <5>1, <5>3
        <5> QED
          BY <2>1, <5>4
      <4>8. own(c) = {i, j}
        BY <4>3, <4>7
      <4> QED
        BY <1>3, <3>4, <4>3, <4>4, <4>6, <4>8
    <3> QED
      BY <3>5, <3>6
  <2> QED
    BY <2>2, <2>3
<1> QED
  BY <1>12, <1>13 DEF N

\* verify_sequence accepts exactly the journals that tell every call once.
LEMMA AcceptedIs ==
  ASSUME NEW n \in Nat, NEW records, DOMAIN records = 1 .. n
  PROVE  Violations(records) = {} <=> \A c : ToldOnce(records, c)
<1>1. Violations(records) = ViolationsAt(records, 1 .. n)
  BY VerdictIs
<1>2. ViolationsAt(records, 1 .. n) = {} <=>
        \A p \in 1 .. n : Fault(records, 1 .. n, p) = "none"
  BY DEF ViolationsAt
<1> QED
  BY <1>1, <1>2, FaultlessIs
=============================================================================
