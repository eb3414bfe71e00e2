----------------------------- MODULE ListLemmas -----------------------------
(***************************************************************************)
(* Facts about finite sets of integers, lists and sums, for the proofs of  *)
(* the other modules: what the extrema of a set are, what removing an      *)
(* entry from a list leaves, how many entries a list without duplicates    *)
(* has, and what numbers add up to.                                        *)
(***************************************************************************)
EXTENDS Integers, Sequences, FiniteSets, Bags, SequencesExt, TLAPS,
        FiniteSetTheorems, SequenceTheorems, WellFoundedInduction

\* A non-empty finite set of integers has a least element: the one below which
\* the set has the fewest elements.
LEMMA LeastElement ==
    ASSUME NEW T, T \subseteq Int, IsFiniteSet(T), T # {}
    PROVE  Min(T) \in T /\ \A y \in T : Min(T) <= y
  <1>. DEFINE Below(x) == {y \in T : y <= x}
              F == {Below(x) : x \in T}
  <1>1. IsWellFoundedOn(StrictSubsetOrdering(T), FiniteSubsetsOf(T))
    BY FS_StrictSubsetOrderingWellFounded
  <1>2. F \subseteq FiniteSubsetsOf(T) /\ F # {}
    <2>1. FiniteSubsetsOf(T) = SUBSET T
      BY FS_FiniteSubsetsOfFinite
    <2>2. \A x \in T : Below(x) \in SUBSET T
      OBVIOUS
    <2>. HIDE DEF Below
    <2>3. F # {}
      OBVIOUS
    <2>4. ASSUME NEW B \in F PROVE B \in SUBSET T
      <3>1. PICK x \in T : B = Below(x)
        BY <2>4
      <3>. QED BY <2>2, <3>1
    <2>. QED BY <2>1, <2>3, <2>4
  <1>3. PICK M \in F : \A N \in F : ~ (<<N, M>> \in StrictSubsetOrdering(T))
    <2>. HIDE DEF F
    <2>. QED BY <1>1, <1>2, WFMin
  <1>4. PICK x \in T : M = Below(x)
    BY <1>3
  <1>5. ASSUME NEW y \in T, ~(x <= y) PROVE FALSE
    <2>1. Below(y) \in F /\ Below(y) \subseteq T /\ M \subseteq T
      BY <1>4
    <2>2. Below(y) \subseteq M
      <3>. SUFFICES ASSUME NEW z \in Below(y) PROVE z \in Below(x)
        BY <1>4
      <3>. QED BY <1>5
    <2>3. Below(y) # M
      BY <1>4, <1>5
    <2>4. <<Below(y), M>> \in StrictSubsetOrdering(T)
      BY <2>1, <2>2, <2>3 DEF StrictSubsetOrdering
    <2>. QED BY <1>3, <2>1, <2>4
  <1>6. \E z \in T : \A y \in T : z <= y
    BY <1>5
  <1>. QED
    BY <1>6 DEF Min

\* It has a greatest element, the opposite of the least opposite.
LEMMA GreatestElement ==
    ASSUME NEW T, T \subseteq Int, IsFiniteSet(T), T # {}
    PROVE  Max(T) \in T /\ \A y \in T : Max(T) >= y
  <1>. DEFINE R == {0 - x : x \in T}
  <1>1. R \subseteq Int /\ R # {}
    <2>1. PICK x : x \in T
      OBVIOUS
    <2>2. 0 - x \in R
      BY <2>1
    <2>3. ASSUME NEW y \in R PROVE y \in Int
      OBVIOUS
    <2>. QED BY <2>2, <2>3
  <1>2. IsFiniteSet(R)
    <2>. DEFINE f == [x \in T |-> 0 - x]
    <2>1. f \in Surjection(T, R)
      BY DEF Surjection
    <2>. HIDE DEF f
    <2>. QED BY <2>1, FS_Surjection
  <1>3. Min(R) \in R /\ \A y \in R : Min(R) <= y
    BY <1>1, <1>2, LeastElement
  <1>4. PICK x \in T : Min(R) = 0 - x
    BY <1>3
  <1>5. \A y \in T : x >= y
    <2>. SUFFICES ASSUME NEW y \in T PROVE x >= y
      OBVIOUS
    <2>1. 0 - y \in R
      OBVIOUS
    <2>2. 0 - x <= 0 - y
      BY <1>3, <1>4, <2>1
    <2>. QED BY <2>2
  <1>. QED
    BY <1>5 DEF Max

\* The last entry of a list.
LEMMA LastType ==
    ASSUME NEW S, NEW s \in Seq(S), Len(s) # 0
    PROVE  Last(s) \in S
  BY DEF Last

\* Removing the entry at a position of a list.
LEMMA RemoveAtType ==
    ASSUME NEW S, NEW s \in Seq(S), NEW i \in 1 .. Len(s)
    PROVE  /\ RemoveAt(s, i) \in Seq(S)
           /\ Len(RemoveAt(s, i)) = Len(s) - 1
           /\ \A j \in 1 .. (Len(s) - 1) :
                  RemoveAt(s, i)[j] = IF j < i THEN s[j] ELSE s[j + 1]
  <1>. DEFINE a == SubSeq(s, 1, i - 1)
              b == SubSeq(s, i + 1, Len(s))
  <1>1. /\ a \in Seq(S) /\ Len(a) = i - 1
        /\ \A j \in 1 .. (i - 1) : a[j] = s[j]
    <2>1. \A j \in 1 .. (i - 1) : s[j] \in S
      OBVIOUS
    <2>. QED BY <2>1, SubSeqProperties
  <1>2. /\ b \in Seq(S) /\ Len(b) = Len(s) - i
        /\ \A j \in 1 .. (Len(s) - i) : b[j] = s[i + j]
    <2>1. \A j \in (i + 1) .. Len(s) : s[j] \in S
      OBVIOUS
    <2>. QED BY <2>1, SubSeqProperties
  <1>. HIDE DEF a, b
  <1>3. /\ a \o b \in Seq(S) /\ Len(a \o b) = Len(s) - 1
        /\ \A j \in 1 .. (Len(s) - 1) : (a \o b)[j] = IF j < i THEN a[j] ELSE b[j - i + 1]
    <2>1. /\ a \o b \in Seq(S)
          /\ Len(a \o b) = Len(a) + Len(b)
          /\ \A j \in 1 .. Len(a) + Len(b) :
                 (a \o b)[j] = IF j <= Len(a) THEN a[j] ELSE b[j - Len(a)]
      BY <1>1, <1>2, ConcatProperties
    <2>. QED BY <1>1, <1>2, <2>1
  <1>4. RemoveAt(s, i) = a \o b
    BY DEF RemoveAt, a, b
  <1>. QED
    BY <1>1, <1>2, <1>3, <1>4

\* RemoveFirst drops one entry, the first one of the element.
LEMMA RemoveFirstProperties ==
    ASSUME NEW S, NEW s \in Seq(S), NEW e, Contains(s, e)
    PROVE  \E i \in 1 .. Len(s) :
              /\ s[i] = e
              /\ RemoveFirst(s, e) = RemoveAt(s, i)
  <1>. DEFINE I == {i \in 1 .. Len(s) : s[i] = e}
  <1>1. I # {} /\ I \subseteq Int /\ IsFiniteSet(I)
    <2>1. IsFiniteSet(1 .. Len(s))
      BY FS_Interval
    <2>. QED BY <2>1, FS_Subset DEF Contains
  <1>2. Min(I) \in I
    BY <1>1, LeastElement
  <1>3. RemoveFirst(s, e) = RemoveAt(s, Min(I))
    BY <1>1 DEF RemoveFirst, SelectInSeq
  <1>. QED
    BY <1>2, <1>3

\* In a list without duplicates nothing of the element is left, and no
\* duplicates appear.
LEMMA RemoveFirstDistinct ==
    ASSUME NEW S, NEW s \in Seq(S), NEW e, Contains(s, e),
           \A i, j \in 1 .. Len(s) : s[i] = s[j] => i = j
    PROVE  LET t == RemoveFirst(s, e)
           IN  /\ ~Contains(t, e)
               /\ \A i, j \in 1 .. Len(t) : t[i] = t[j] => i = j
  <1>. DEFINE t == RemoveFirst(s, e)
  <1>1. PICK k \in 1 .. Len(s) : s[k] = e /\ t = RemoveAt(s, k)
    BY RemoveFirstProperties
  <1>. HIDE DEF t
  <1>2. /\ Len(t) = Len(s) - 1
        /\ \A j \in 1 .. (Len(s) - 1) : t[j] = IF j < k THEN s[j] ELSE s[j + 1]
    BY <1>1, RemoveAtType
  <1>3. Len(s) \in Nat
    OBVIOUS
  <1>4. \A j \in 1 .. Len(t) : t[j] # e
    BY <1>1, <1>2, <1>3
  <1>5. \A i, j \in 1 .. Len(t) : t[i] = t[j] => i = j
    BY <1>2, <1>3
  <1>6. ~Contains(t, e)
    BY <1>4 DEF Contains
  <1>. QED
    BY <1>5, <1>6 DEF t

\* A list without duplicates has as many entries as different ones.
LEMMA DistinctEntries ==
    ASSUME NEW S, NEW s \in Seq(S),
           \A i, j \in 1 .. Len(s) : s[i] = s[j] => i = j
    PROVE  /\ IsFiniteSet({s[i] : i \in 1 .. Len(s)})
           /\ Cardinality({s[i] : i \in 1 .. Len(s)}) = Len(s)
  <1>. DEFINE R == {s[i] : i \in 1 .. Len(s)}
  <1>1. IsFiniteSet(1 .. Len(s)) /\ Cardinality(1 .. Len(s)) = Len(s)
    <2>1. Len(s) \in Nat
      OBVIOUS
    <2>2. /\ IsFiniteSet(1 .. Len(s))
          /\ Cardinality(1 .. Len(s)) = IF 1 > Len(s) THEN 0 ELSE Len(s) - 1 + 1
      BY <2>1, FS_Interval
    <2>. QED BY <2>1, <2>2
  <1>2. s \in [1 .. Len(s) -> R]
    OBVIOUS
  <1>3. s \in Injection(1 .. Len(s), R) /\ s \in Surjection(1 .. Len(s), R)
    BY <1>2 DEF Injection, IsInjective, Surjection
  <1>4. IsFiniteSet(R)
    BY <1>1, <1>3, FS_Surjection
  <1>. QED
    BY <1>1, <1>3, <1>4, FS_Injection, FS_Surjection

\* A list without duplicates is as long as its set is large, at most.
LEMMA DistinctWithin ==
    ASSUME NEW R, IsFiniteSet(R), NEW s \in Seq(R),
           \A i, j \in 1 .. Len(s) : s[i] = s[j] => i = j,
           Len(s) < Cardinality(R)
    PROVE  \E n \in R : \A i \in 1 .. Len(s) : s[i] # n
  <1>. DEFINE D == {s[i] : i \in 1 .. Len(s)}
  <1>1. Cardinality(D) = Len(s)
    BY DistinctEntries
  <1>2. D \subseteq R
    OBVIOUS
  <1>3. Cardinality(D) # Cardinality(R)
    <2>1. Len(s) \in Nat /\ Cardinality(R) \in Nat
      BY FS_CardinalityType
    <2>. HIDE DEF D
    <2>. QED BY <1>1, <2>1
  <1>4. PICK n \in R : n \notin D
    <2>. HIDE DEF D
    <2>1. D # R
      BY <1>3
    <2>. QED BY <1>2, <2>1
  <1>. QED
    BY <1>4

-----------------------------------------------------------------------------
(* Sums over finite sets. Bags and the folds of the library sum by taking   *)
(* one element at a time out of the set, in an order that nobody knows.     *)

\* The function g adds up f over every set of arguments of f.
AddsUp(f, g) ==
    g = [s \in SUBSET DOMAIN f |->
            IF s = {} THEN 0
            ELSE f[CHOOSE x \in s : TRUE] + g[s \ {CHOOSE x \in s : TRUE}]]

Total(f) == (CHOOSE g : AddsUp(f, g))[DOMAIN f]

\* Two functions that add up f agree: on a smallest set where they did not, they
\* would not agree either after its first element.
LEMMA SumIsUnique ==
    ASSUME NEW f, IsFiniteSet(DOMAIN f), NEW g, NEW h, AddsUp(f, g), AddsUp(f, h)
    PROVE  g[DOMAIN f] = h[DOMAIN f]
  <1>. DEFINE S == DOMAIN f
              Bad == {s \in SUBSET S : g[s] # h[s]}
  <1>. SUFFICES ASSUME Bad # {} PROVE FALSE
    OBVIOUS
  <1>1. IsWellFoundedOn(StrictSubsetOrdering(S), FiniteSubsetsOf(S))
    BY FS_StrictSubsetOrderingWellFounded
  <1>2. Bad \subseteq FiniteSubsetsOf(S)
    BY FS_FiniteSubsetsOfFinite
  <1>3. PICK M \in Bad : \A s \in Bad : ~ (<<s, M>> \in StrictSubsetOrdering(S))
    <2>. HIDE DEF Bad
    <2>. QED BY <1>1, <1>2, WFMin
  <1>. DEFINE x == CHOOSE x \in M : TRUE
              R == M \ {x}
  <1>4. ASSUME NEW s \in SUBSET S
        PROVE  /\ g[s] = IF s = {} THEN 0 ELSE f[CHOOSE y \in s : TRUE] + g[s \ {CHOOSE y \in s : TRUE}]
               /\ h[s] = IF s = {} THEN 0 ELSE f[CHOOSE y \in s : TRUE] + h[s \ {CHOOSE y \in s : TRUE}]
    BY DEF AddsUp
  <1>5. M \in SUBSET S /\ g[M] # h[M]
    OBVIOUS
  <1>6. M # {}
    BY <1>4, <1>5
  <1>7. x \in M
    BY <1>6
  <1>8. g[M] = f[x] + g[R] /\ h[M] = f[x] + h[R]
    BY <1>4, <1>5, <1>6
  <1>. HIDE DEF x
  <1>9. g[R] # h[R]
    BY <1>5, <1>8
  <1>10. R \in Bad /\ <<R, M>> \in StrictSubsetOrdering(S)
    BY <1>5, <1>7, <1>9 DEF StrictSubsetOrdering
  <1>. QED BY <1>3, <1>10

\* Whatever adds up f gives its total.
LEMMA TotalIs ==
    ASSUME NEW f, IsFiniteSet(DOMAIN f), NEW g, AddsUp(f, g)
    PROVE  Total(f) = g[DOMAIN f]
  <1>1. AddsUp(f, CHOOSE k : AddsUp(f, k))
    OBVIOUS
  <1>. QED BY <1>1, SumIsUnique DEF Total

\* Counting the members of T by their image under h adds up to all of them.
LEMMA FibresAddUp ==
    ASSUME NEW f, IsFiniteSet(DOMAIN f), NEW T, IsFiniteSet(T), NEW h,
           \A c \in DOMAIN f : f[c] = Cardinality({t \in T : h[t] = c})
    PROVE  Total(f) = Cardinality({t \in T : h[t] \in DOMAIN f})
  <1>. DEFINE In(s) == {t \in T : h[t] \in s}
              g == [s \in SUBSET DOMAIN f |-> Cardinality(In(s))]
  <1>1. ASSUME NEW s \in SUBSET DOMAIN f
        PROVE  g[s] = IF s = {} THEN 0
                      ELSE f[CHOOSE x \in s : TRUE] + g[s \ {CHOOSE x \in s : TRUE}]
    <2>1. CASE s = {}
      <3>1. In(s) = {}
        BY <2>1
      <3>. QED BY <2>1, <3>1, FS_EmptySet
    <2>2. CASE s # {}
      <3>. DEFINE x == CHOOSE x \in s : TRUE
                  A == {t \in T : h[t] = x}
      <3>1. x \in s
        BY <2>2
      <3>. HIDE DEF x
      <3>2. In(s) = A \cup In(s \ {x}) /\ A \cap In(s \ {x}) = {}
        BY <3>1
      <3>3. IsFiniteSet(A) /\ IsFiniteSet(In(s \ {x}))
        BY FS_Subset
      <3>. HIDE DEF In, A
      <3>4. Cardinality(In(s)) = Cardinality(A) + Cardinality(In(s \ {x}))
        <4>1. Cardinality(A \cap In(s \ {x})) = 0
          BY <3>2, FS_EmptySet
        <4>2. Cardinality(A \cup In(s \ {x})) =
                Cardinality(A) + Cardinality(In(s \ {x})) - Cardinality(A \cap In(s \ {x}))
          BY <3>3, FS_Union
        <4>. QED BY <3>2, <3>3, <4>1, <4>2, FS_CardinalityType
      <3>5. f[x] = Cardinality(A)
        BY <3>1 DEF A
      <3>6. g[s] = f[x] + g[s \ {x}]
        BY <3>1, <3>4, <3>5
      <3>. QED BY <2>2, <3>6 DEF x
    <2>. QED BY <2>1, <2>2
  <1>. HIDE DEF In
  <1>2. AddsUp(f, g)
    <2>1. g = [s \in SUBSET DOMAIN f |-> g[s]]
      OBVIOUS
    <2>. HIDE DEF g
    <2>. QED BY <1>1, <2>1 DEF AddsUp
  <1>3. Total(f) = g[DOMAIN f]
    BY <1>2, TotalIs
  <1>. QED BY <1>3 DEF In

\* As many copies of each argument of f as f says.
Copies(f) == UNION {{c} \X (1 .. f[c]) : c \in DOMAIN f}

\* The total of natural numbers is a number of copies.
LEMMA TotalCopies ==
    ASSUME NEW S, IsFiniteSet(S), NEW f \in [S -> Nat]
    PROVE  IsFiniteSet(Copies(f)) /\ Total(f) = Cardinality(Copies(f)) /\ Total(f) \in Nat
  <1>. DEFINE Of(c) == {c} \X (1 .. f[c])
              F == {Of(c) : c \in S}
              h == [t \in Copies(f) |-> t[1]]
  <1>1. ASSUME NEW c \in S
        PROVE  IsFiniteSet(Of(c)) /\ Cardinality(Of(c)) = f[c]
    <2>1. f[c] \in Nat
      OBVIOUS
    <2>2. IsFiniteSet({c}) /\ Cardinality({c}) = 1
      BY FS_Singleton
    <2>3. IsFiniteSet(1 .. f[c]) /\ Cardinality(1 .. f[c]) = f[c]
      BY <2>1, FS_Interval
    <2>4. IsFiniteSet(Of(c)) /\ Cardinality(Of(c)) = 1 * f[c]
      BY <2>2, <2>3, FS_Product
    <2>. QED BY <2>1, <2>4
  <1>2. IsFiniteSet(F)
    <2>. DEFINE of == [c \in S |-> Of(c)]
    <2>1. of \in Surjection(S, F)
      BY DEF Surjection
    <2>. HIDE DEF of, F
    <2>. QED BY <2>1, FS_Surjection
  <1>3. IsFiniteSet(Copies(f))
    <2>1. \A x \in F : IsFiniteSet(x)
      BY <1>1
    <2>2. Copies(f) = UNION F
      BY DEF Copies
    <2>. HIDE DEF F
    <2>. QED BY <1>2, <2>1, <2>2, FS_UNION
  <1>4. ASSUME NEW c \in DOMAIN f PROVE f[c] = Cardinality({t \in Copies(f) : h[t] = c})
    <2>1. {t \in Copies(f) : h[t] = c} = Of(c)
      BY DEF Copies
    <2>. QED BY <1>1, <2>1
  <1>5. {t \in Copies(f) : h[t] \in DOMAIN f} = Copies(f)
    BY DEF Copies
  <1>. HIDE DEF h
  <1>6. Total(f) = Cardinality(Copies(f))
    BY <1>3, <1>4, <1>5, FibresAddUp
  <1>. QED BY <1>3, <1>6, FS_CardinalityType

\* Larger numbers have the larger total.
LEMMA TotalMonotone ==
    ASSUME NEW S, IsFiniteSet(S), NEW f \in [S -> Nat], NEW g \in [S -> Nat],
           \A c \in S : f[c] <= g[c]
    PROVE  Total(f) <= Total(g)
  <1>1. Copies(f) \subseteq Copies(g)
    BY DEF Copies
  <1>. QED BY <1>1, TotalCopies, FS_Subset

\* The sum of a function is its total.
LEMMA SumTotal ==
    ASSUME NEW f
    PROVE  SumFunction(f) = Total(f)
  BY DEF SumFunction, SumFunctionOnSet, FoldFunctionOnSet, MapThenFoldSet, Total, AddsUp

\* Numbers of which none is above k add up to k times their number at most.
LEMMA TotalBounded ==
    ASSUME NEW n \in Nat, NEW f \in [1 .. n -> Nat], NEW k \in Nat, \A i \in 1 .. n : f[i] <= k
    PROVE  Total(f) \in Nat /\ Total(f) <= n * k
  <1>1. IsFiniteSet(1 .. n) /\ Cardinality(1 .. n) = n
    BY FS_Interval
  <1>2. IsFiniteSet(1 .. k) /\ Cardinality(1 .. k) = k
    BY FS_Interval
  <1>3. /\ IsFiniteSet((1 .. n) \X (1 .. k))
        /\ Cardinality((1 .. n) \X (1 .. k)) = n * k
    <2>. DEFINE A == 1 .. n
                B == 1 .. k
    <2>. HIDE DEF A, B
    <2>1. IsFiniteSet(A) /\ Cardinality(A) = n /\ IsFiniteSet(B) /\ Cardinality(B) = k
      BY <1>1, <1>2 DEF A, B
    <2>2. IsFiniteSet(A \X B) /\ Cardinality(A \X B) = n * k
      BY <2>1, FS_Product
    <2>. QED BY <2>2 DEF A, B
  <1>4. Copies(f) \subseteq (1 .. n) \X (1 .. k)
    <2>1. ASSUME NEW i \in 1 .. n PROVE {i} \X (1 .. f[i]) \subseteq (1 .. n) \X (1 .. k)
      <3>1. f[i] \in Nat /\ f[i] <= k
        OBVIOUS
      <3>2. 1 .. f[i] \subseteq 1 .. k
        BY <3>1
      <3>. QED BY <3>2
    <2>. QED BY <2>1 DEF Copies
  <1>5. Total(f) = Cardinality(Copies(f)) /\ Total(f) \in Nat
    BY <1>1, TotalCopies
  <1>. QED BY <1>3, <1>4, <1>5, FS_Subset

\* A bag is as large as the total of its numbers.
LEMMA BagTotal ==
    ASSUME NEW B
    PROVE  BagCardinality(B) = Total(B)
  BY DEF BagCardinality, Total, AddsUp

\* The images of a finite set are finitely many.
LEMMA FiniteImage ==
    ASSUME NEW S, IsFiniteSet(S), NEW h, NEW T, T = {h[x] : x \in S}
    PROVE  IsFiniteSet(T)
  <1>. DEFINE k == [x \in S |-> h[x]]
  <1>1. k \in Surjection(S, T)
    BY DEF Surjection
  <1>. HIDE DEF k
  <1>. QED BY <1>1, FS_Surjection

\* A bag made of a set has each image as often as the set has it.
LEMMA BagOfImages ==
    ASSUME NEW D, IsFiniteSet(D), NEW h, NEW x
    PROVE  BagCardinality([d \in D |-> IF h[d] = x THEN SetToBag(D)[d] ELSE 0])
               = Cardinality({d \in D : h[d] = x})
  <1>. DEFINE hits == [d \in D |-> IF h[d] = x THEN SetToBag(D)[d] ELSE 0]
  <1>. DEFINE T == {d \in D : h[d] = x}
              i == [d \in T |-> d]
  <1>1. IsFiniteSet(T)
    BY FS_Subset
  <1>2. ASSUME NEW c \in D PROVE hits[c] = Cardinality({t \in T : i[t] = c})
    <2>1. CASE h[c] = x
      <3>1. {t \in T : i[t] = c} = {c}
        BY <2>1
      <3>. QED BY <2>1, <3>1, FS_Singleton DEF SetToBag
    <2>2. CASE h[c] # x
      <3>1. {t \in T : i[t] = c} = {}
        BY <2>2
      <3>. QED BY <2>2, <3>1, FS_EmptySet
    <2>. QED BY <2>1, <2>2
  <1>3. {t \in T : i[t] \in D} = T
    OBVIOUS
  <1>4. DOMAIN hits = D
    OBVIOUS
  <1>. HIDE DEF hits, i, T
  <1>5. Total(hits) = Cardinality(T)
    BY <1>1, <1>2, <1>3, <1>4, FibresAddUp
  <1>6. BagCardinality(hits) = Total(hits)
    BY BagTotal
  <1>. QED BY <1>5, <1>6 DEF T, hits
=============================================================================
