---------------------------- MODULE BallotProofs ----------------------------
(***************************************************************************)
(* What the page accepts, the nodes decode: for every form that the schema *)
(* accepts, whatever is checked, dragged and typed in whichever order. The *)
(* last part is about the dialog in which a question is written: what it   *)
(* saves is what it asks for, and what is published comes back from a file.*)
(***************************************************************************)
EXTENDS BallotPage, QuestionForm, ListLemmas

\* A place of a rank question fits an int8.
ShortRanks ==
    \A f \in Forms : \A q \in DOMAIN f :
        f[q].Type = "rank" => Len(f[q].Choices) <= MaxInt8 + 1

\* A list of every element of S, none of them twice, with blank entries or without
ListsAll(a, S) ==
    /\ a \in Seq(S \cup {Undefined})
    /\ \A c \in S : \E i \in 1 .. Len(a) : a[i] = c
    /\ \A i, j \in 1 .. Len(a) : a[i] = a[j] /\ a[i] # Undefined => i = j

\* What the answers to a question are while the page is open. A rank lists every
\* choice, and none twice.
FitsQuestion(q, a) ==
    /\ q.Type = "select" => a \in [1 .. Len(q.Choices) -> BOOLEAN]
    /\ q.Type = "rank" => ListsAll(a, 1 .. Len(q.Choices))
    /\ q.Type = "text" => /\ DOMAIN a = 1 .. Len(q.Choices)
                          /\ a = [i \in DOMAIN a |-> a[i]]

-----------------------------------------------------------------------------
\* An entry put into a list.
LEMMA InsertAtProperties ==
    ASSUME NEW S, NEW s \in Seq(S), NEW i \in 1 .. (Len(s) + 1), NEW e \in S
    PROVE  /\ InsertAt(s, i, e) \in Seq(S)
           /\ Len(InsertAt(s, i, e)) = Len(s) + 1
           /\ \A j \in 1 .. (Len(s) + 1) :
                 InsertAt(s, i, e)[j] = IF j < i THEN s[j] ELSE IF j = i THEN e ELSE s[j - 1]
  <1>. DEFINE h == SubSeq(s, 1, i - 1)
              m == <<e>>
              t == SubSeq(s, i, Len(s))
  <1>1. /\ h \in Seq(S) /\ Len(h) = i - 1
        /\ \A j \in 1 .. (i - 1) : h[j] = s[j]
    <2>1. \A j \in 1 .. (i - 1) : s[j] \in S
      BY ElementOfSeq, LenProperties
    <2>. QED BY <2>1, SubSeqProperties, LenProperties, Z3
  <1>2. /\ t \in Seq(S) /\ Len(t) = Len(s) - i + 1
        /\ \A j \in 1 .. (Len(s) - i + 1) : t[j] = s[i + j - 1]
    <2>1. \A j \in i .. Len(s) : s[j] \in S
      BY ElementOfSeq, LenProperties
    <2>. QED BY <2>1, SubSeqProperties, LenProperties, Z3
  <1>3. m \in Seq(S) /\ Len(m) = 1 /\ m[1] = e
    OBVIOUS
  <1>. HIDE DEF h, m, t
  <1>4. /\ h \o m \in Seq(S) /\ Len(h \o m) = i
        /\ \A j \in 1 .. i : (h \o m)[j] = IF j < i THEN s[j] ELSE e
    <2>1. /\ h \o m \in Seq(S) /\ Len(h \o m) = Len(h) + Len(m)
          /\ \A j \in 1 .. Len(h) + Len(m) :
                (h \o m)[j] = IF j <= Len(h) THEN h[j] ELSE m[j - Len(h)]
      BY <1>1, <1>3, ConcatProperties
    <2>. QED BY <1>1, <1>3, <2>1
  <1>5. /\ (h \o m) \o t \in Seq(S) /\ Len((h \o m) \o t) = Len(s) + 1
        /\ \A j \in 1 .. (Len(s) + 1) :
              ((h \o m) \o t)[j] = IF j <= i THEN (h \o m)[j] ELSE t[j - i]
    <2>. DEFINE hm == h \o m
    <2>1. hm \in Seq(S) /\ Len(hm) = i
      BY <1>4
    <2>. HIDE DEF hm
    <2>2. /\ hm \o t \in Seq(S) /\ Len(hm \o t) = Len(hm) + Len(t)
          /\ \A j \in 1 .. Len(hm) + Len(t) :
                (hm \o t)[j] = IF j <= Len(hm) THEN hm[j] ELSE t[j - Len(hm)]
      BY <1>2, <2>1, ConcatProperties
    <2>3. /\ hm \o t \in Seq(S) /\ Len(hm \o t) = Len(s) + 1
          /\ \A j \in 1 .. (Len(s) + 1) : (hm \o t)[j] = IF j <= i THEN hm[j] ELSE t[j - i]
      BY <1>2, <2>1, <2>2
    <2>. QED BY <2>3 DEF hm
  <1>6. InsertAt(s, i, e) = (h \o m) \o t
    BY DEF InsertAt, h, m, t
  <1>. QED BY <1>2, <1>4, <1>5, <1>6, LenProperties

\* Where the entry at place j was before the drag, and where the one at place i
\* goes.
CameFrom(j, from, to) ==
    IF j = to THEN from
    ELSE IF from < to THEN (IF from <= j /\ j < to THEN j + 1 ELSE j)
    ELSE (IF to < j /\ j <= from THEN j - 1 ELSE j)
GoesTo(i, from, to) ==
    IF i = from THEN to
    ELSE IF from < to THEN (IF from < i /\ i <= to THEN i - 1 ELSE i)
    ELSE (IF to <= i /\ i < from THEN i + 1 ELSE i)

\* The entries of a list after a drag.
LEMMA MovedEntries ==
    ASSUME NEW S, NEW a \in Seq(S), NEW from \in 1 .. Len(a), NEW to \in 1 .. Len(a)
    PROVE  /\ moved(a, from, to) \in Seq(S) /\ Len(moved(a, from, to)) = Len(a)
           /\ \A j \in 1 .. Len(a) : moved(a, from, to)[j] = a[CameFrom(j, from, to)]
  <1>. DEFINE n == Len(a)
              r == RemoveAt(a, from)
              b == InsertAt(r, to, a[from])
  <1>1. /\ r \in Seq(S) /\ Len(r) = n - 1
        /\ \A j \in 1 .. (n - 1) : r[j] = IF j < from THEN a[j] ELSE a[j + 1]
    BY RemoveAtType
  <1>2. a[from] \in S
    OBVIOUS
  <1>3. to \in 1 .. (Len(r) + 1)
    BY <1>1
  <1>. HIDE DEF r
  <1>4. /\ b \in Seq(S) /\ Len(b) = Len(r) + 1
        /\ \A j \in 1 .. (Len(r) + 1) :
              b[j] = IF j < to THEN r[j] ELSE IF j = to THEN a[from] ELSE r[j - 1]
    <2>1. r \in Seq(S)
      BY <1>1
    <2>. QED BY <1>2, <1>3, <2>1, InsertAtProperties
  <1>5. moved(a, from, to) = b
    <2>1. DOMAIN a = 1 .. n /\ n \in Nat
      BY LenProperties
    <2>2. (IF to > Len(r) THEN Len(r) + 1 ELSE to) = to
      BY <1>1, <2>1
    <2>. QED BY <2>1, <2>2 DEF moved, r
  <1>. HIDE DEF b
  <1>6. ASSUME NEW j \in 1 .. n PROVE b[j] = a[CameFrom(j, from, to)]
    <2>1. CASE j = to
      BY <1>1, <1>4, <2>1 DEF CameFrom
    <2>2. CASE j < to
      <3>1. j \in 1 .. (n - 1) /\ b[j] = r[j]
        BY <1>1, <1>4, <2>2
      <3>2. r[j] = IF j < from THEN a[j] ELSE a[j + 1]
        BY <1>1, <3>1
      <3>. QED BY <2>2, <3>1, <3>2 DEF CameFrom
    <2>3. CASE to < j
      <3>1. j # to /\ ~(j < to) /\ (j - 1) \in 1 .. (n - 1)
        BY <2>3
      <3>2. b[j] = r[j - 1]
        BY <1>1, <1>4, <3>1
      <3>3. r[j - 1] = IF j - 1 < from THEN a[j - 1] ELSE a[(j - 1) + 1]
        BY <1>1, <3>1
      <3>. QED BY <2>3, <3>1, <3>2, <3>3 DEF CameFrom
    <2>. QED BY <2>1, <2>2, <2>3
  <1>. QED BY <1>1, <1>4, <1>5, <1>6

\* A drag of an entry that is there permutes the list: what it holds, and that no
\* choice is there twice, stay.
LEMMA MovedPermutes ==
    ASSUME NEW S, NEW a, ListsAll(a, S), NEW from \in 1 .. Len(a), NEW to \in 1 .. Len(a)
    PROVE  ListsAll(moved(a, from, to), S)
  <1>. DEFINE n == Len(a)
              b == moved(a, from, to)
              source(j) == CameFrom(j, from, to)
              target(i) == GoesTo(i, from, to)
  <1>0. a \in Seq(S \cup {Undefined})
    BY DEF ListsAll
  <1>1. b \in Seq(S \cup {Undefined}) /\ Len(b) = n /\ \A j \in 1 .. n : b[j] = a[source(j)]
    BY ONLY <1>0, from \in 1 .. Len(a), to \in 1 .. Len(a), MovedEntries
  <1>2. n \in Nat
    BY ONLY <1>0, LenProperties
  <1>. HIDE DEF n, b
  <1>3. from \in 1 .. n /\ to \in 1 .. n
    BY DEF n
  <1>4. \A j \in 1 .. n : source(j) \in 1 .. n
    BY ONLY <1>2, <1>3 DEF CameFrom
  <1>5. \A i \in 1 .. n : target(i) \in 1 .. n /\ source(target(i)) = i
    BY ONLY <1>2, <1>3 DEF CameFrom, GoesTo
  <1>6. \A i, j \in 1 .. n : source(i) = source(j) => i = j
    BY ONLY <1>2, <1>3 DEF CameFrom
  <1>7. /\ \A c \in S : \E i \in 1 .. n : a[i] = c
        /\ \A i, j \in 1 .. n : a[i] = a[j] /\ a[i] # Undefined => i = j
    BY DEF ListsAll, n
  <1>. HIDE DEF source, target
  <1>8. ASSUME NEW c \in S PROVE \E i \in 1 .. n : b[i] = c
    <2>1. PICK i \in 1 .. n : a[i] = c
      BY <1>7
    <2>2. target(i) \in 1 .. n /\ b[target(i)] = a[i]
      BY ONLY <1>1, <1>5, i \in 1 .. n
    <2>. QED BY <2>1, <2>2
  <1>9. ASSUME NEW i \in 1 .. n, NEW j \in 1 .. n, b[i] = b[j], b[i] # Undefined PROVE i = j
    <2>1. /\ a[source(i)] = a[source(j)] /\ a[source(i)] # Undefined
          /\ source(i) \in 1 .. n /\ source(j) \in 1 .. n
      BY <1>1, <1>4, <1>9
    <2>2. source(i) = source(j)
      BY <1>7, <2>1
    <2>. QED BY <1>6, <2>2
  <1>10. ListsAll(b, S)
    BY <1>1, <1>8, <1>9 DEF ListsAll
  <1>. QED BY <1>10 DEF b

\* One of an entry that is not there puts a blank one into the list.
LEMMA BlankDraggedIn ==
    ASSUME NEW S, NEW a, ListsAll(a, S), NEW from, from \notin 1 .. Len(a),
           NEW to \in 1 .. (Len(a) + 1)
    PROVE  ListsAll(moved(a, from, to), S)
  <1>. DEFINE n == Len(a)
              b == InsertAt(a, to, Undefined)
              target(i) == IF i < to THEN i ELSE i + 1
  <1>0. a \in Seq(S \cup {Undefined})
    BY DEF ListsAll
  <1>1. DOMAIN a = 1 .. n /\ n \in Nat /\ to \in 1 .. (n + 1)
    BY <1>0, LenProperties
  <1>2. moved(a, from, to) = b
    <2>1. (IF to > n THEN n + 1 ELSE to) = to
      BY <1>1
    <2>. QED BY <1>1, <2>1 DEF moved
  <1>3. /\ b \in Seq(S \cup {Undefined}) /\ Len(b) = n + 1
        /\ \A j \in 1 .. (n + 1) :
              b[j] = IF j < to THEN a[j] ELSE IF j = to THEN Undefined ELSE a[j - 1]
    <2>1. Undefined \in S \cup {Undefined}
      OBVIOUS
    <2>. QED BY <1>0, <1>1, <2>1, InsertAtProperties
  <1>4. /\ \A c \in S : \E i \in 1 .. n : a[i] = c
        /\ \A i, j \in 1 .. n : a[i] = a[j] /\ a[i] # Undefined => i = j
    BY DEF ListsAll
  <1>. HIDE DEF n, b
  <1>5. ASSUME NEW c \in S PROVE \E i \in 1 .. (n + 1) : b[i] = c
    <2>1. PICK i \in 1 .. n : a[i] = c
      BY <1>4
    <2>2. target(i) \in 1 .. (n + 1) /\ b[target(i)] = a[i]
      BY ONLY <1>1, <1>3, i \in 1 .. n
    <2>. QED BY <2>1, <2>2
  <1>6. ASSUME NEW i \in 1 .. (n + 1), NEW j \in 1 .. (n + 1), b[i] = b[j], b[i] # Undefined
        PROVE  i = j
    <2>. DEFINE s(k) == IF k < to THEN k ELSE k - 1
    <2>1. ASSUME NEW k \in 1 .. (n + 1), b[k] # Undefined
          PROVE  k # to /\ s(k) \in 1 .. n /\ b[k] = a[s(k)]
      <3>1. b[k] = IF k < to THEN a[k] ELSE IF k = to THEN Undefined ELSE a[k - 1]
        BY <1>3
      <3>2. k # to
        BY <2>1, <3>1
      <3>3. s(k) \in 1 .. n
        BY <1>1, <3>2
      <3>. QED BY <1>1, <3>1, <3>2, <3>3
    <2>2. /\ i # to /\ s(i) \in 1 .. n /\ b[i] = a[s(i)]
          /\ j # to /\ s(j) \in 1 .. n /\ b[j] = a[s(j)]
      BY <1>6, <2>1
    <2>3. s(i) = s(j)
      <3>. HIDE DEF s
      <3>. QED BY <1>4, <1>6, <2>2
    <2>. QED BY ONLY <1>1, <2>2, <2>3, i \in 1 .. (n + 1), j \in 1 .. (n + 1)
  <1>7. ListsAll(b, S)
    BY <1>3, <1>5, <1>6 DEF ListsAll
  <1>. QED BY <1>2, <1>7

\* Whatever place of whichever list an entry comes from, and wherever it is put,
\* the list has every choice once.
LEMMA MovedLists ==
    ASSUME NEW S, NEW a, ListsAll(a, S), NEW from, NEW to \in 1 .. (Len(a) + 1)
    PROVE  ListsAll(moved(a, from, to), S)
  <1>1. CASE from \notin 1 .. Len(a)
    BY <1>1, BlankDraggedIn
  <1>2. CASE from \in 1 .. Len(a)
    <2>. DEFINE n == Len(a)
                at == IF to > n THEN n ELSE to
    <2>1. /\ n \in Nat /\ DOMAIN a = 1 .. n /\ from \in 1 .. n
          /\ a \in Seq(S \cup {Undefined})
      BY <1>2, LenProperties DEF ListsAll
    <2>2. Len(RemoveAt(a, from)) = n - 1
      BY <2>1, RemoveAtType
    <2>3. at \in 1 .. n
      BY <2>1
    <2>4. moved(a, from, at) = moved(a, from, to)
      <3>1. (IF at > n - 1 THEN n - 1 + 1 ELSE at) = (IF to > n - 1 THEN n - 1 + 1 ELSE to)
        BY <2>1
      <3>. QED BY <2>1, <2>2, <3>1 DEF moved
    <2>5. at \in 1 .. Len(a)
      BY <2>3
    <2>. HIDE DEF at
    <2>6. ListsAll(moved(a, from, at), S)
      BY <1>2, <2>5, MovedPermutes
    <2>. QED BY <2>4, <2>6
  <1>. QED BY <1>1, <1>2

-----------------------------------------------------------------------------
\* The length of a list given entry by entry.
LEMMA LengthOfEntries ==
    ASSUME NEW n \in Nat, NEW s, DOMAIN s = 1 .. n
    PROVE  Len(s) = n
  OBVIOUS

\* A set of places has no more elements than there are places.
LEMMA CountOfPlaces ==
    ASSUME NEW n \in Nat, NEW T \in SUBSET (1 .. n)
    PROVE  Cardinality(T) \in Nat /\ Cardinality(T) <= n
  <1>1. IsFiniteSet(1 .. n) /\ Cardinality(1 .. n) = IF 1 > n THEN 0 ELSE n - 1 + 1
    BY FS_Interval
  <1>2. IsFiniteSet(T) /\ Cardinality(T) <= Cardinality(1 .. n)
    BY <1>1, FS_Subset
  <1>. QED BY <1>1, <1>2, FS_CardinalityType

\* The places of the choices of a rank: each choice has one, and all of them are
\* among the first n, for n choices, if and only if no blank entry stands before a
\* choice.
LEMMA PlacesOfChoices ==
    ASSUME NEW n \in Nat, NEW a, ListsAll(a, 1 .. n), NEW e, e = rankPositions(a)
    PROVE  /\ DOMAIN e = 1 .. n
           /\ \A i \in DOMAIN a : a[i] # Undefined => e[a[i]] = i - 1
           /\ \A c \in 1 .. n : e[c] \in Nat
           /\ (\A c \in 1 .. n : e[c] < n) <=> ~ Gaps(a)
  <1>. DEFINE m == Len(a)
              T == {i \in 1 .. m : a[i] # Undefined}
  <1>1. /\ m \in Nat /\ DOMAIN a = 1 .. m
        /\ \A i \in 1 .. m : a[i] \in (1 .. n) \cup {Undefined}
    BY LenProperties, ElementOfSeq DEF ListsAll
  <1>2. /\ \A c \in 1 .. n : \E i \in 1 .. m : a[i] = c
        /\ \A i, j \in 1 .. m : a[i] = a[j] /\ a[i] # Undefined => i = j
    BY DEF ListsAll
  <1>3. Undefined \notin 1 .. n
    BY DEF Undefined
  <1>. HIDE DEF m
  <1>4. Range(a) \ {Undefined} = 1 .. n
    BY <1>1, <1>2, <1>3 DEF Range
  <1>5. e = [c \in 1 .. n |-> (CHOOSE i \in 1 .. m : a[i] = c) - 1]
    BY <1>1, <1>4 DEF rankPositions
  <1>6. ASSUME NEW i \in 1 .. m, a[i] # Undefined PROVE a[i] \in 1 .. n /\ e[a[i]] = i - 1
    <2>. DEFINE j == CHOOSE k \in 1 .. m : a[k] = a[i]
    <2>1. j \in 1 .. m /\ a[j] = a[i]
      OBVIOUS
    <2>2. j = i
      BY <1>2, <1>6, <2>1
    <2>3. a[i] \in 1 .. n
      BY <1>1, <1>6
    <2>. QED BY <1>5, <2>2, <2>3
  <1>7. ASSUME NEW c \in 1 .. n PROVE \E i \in T : a[i] = c /\ e[c] = i - 1
    <2>1. PICK i \in 1 .. m : a[i] = c
      BY <1>2
    <2>2. a[i] # Undefined
      BY <1>3, <2>1
    <2>. QED BY <1>6, <2>1, <2>2
  <1>8. IsFiniteSet(T) /\ Cardinality(T) = n
    <2>. DEFINE S == 1 .. n
                g == [i \in T |-> a[i]]
    <2>1. g \in [T -> S]
      BY <1>6
    <2>2. g \in Injection(T, S)
      BY <1>2, <2>1 DEF Injection, IsInjective
    <2>3. g \in Surjection(T, S)
      BY <1>7, <2>1 DEF Surjection
    <2>4. IsFiniteSet(S) /\ Cardinality(S) = n
      BY FS_Interval
    <2>5. IsFiniteSet(T)
      <3>1. IsFiniteSet(1 .. m)
        BY <1>1, FS_Interval
      <3>. QED BY <3>1, FS_Subset
    <2>. HIDE DEF T, S, g
    <2>6. Cardinality(T) <= Cardinality(S) /\ Cardinality(S) <= Cardinality(T)
      BY <2>2, <2>3, <2>4, <2>5, FS_Injection, FS_Surjection
    <2>7. Cardinality(T) \in Nat
      BY <2>5, FS_CardinalityType
    <2>. QED BY <2>4, <2>5, <2>6, <2>7
  <1>9. ASSUME ~ Gaps(a), NEW c \in 1 .. n PROVE e[c] < n
    <2>1. PICK j \in T : a[j] = c /\ e[c] = j - 1
      BY <1>7
    <2>2. 1 .. j \subseteq T
      BY <1>1, <1>9 DEF Gaps
    <2>3. j \in Nat /\ IsFiniteSet(1 .. j) /\ Cardinality(1 .. j) = j
      BY FS_Interval
    <2>. HIDE DEF T
    <2>4. j <= n
      BY <1>8, <2>2, <2>3, FS_Subset
    <2>. QED BY <2>1, <2>3, <2>4
  <1>10. ASSUME \A c \in 1 .. n : e[c] < n, Gaps(a) PROVE FALSE
    <2>1. PICK i \in 1 .. m, j \in 1 .. m : i < j /\ a[i] = Undefined /\ a[j] # Undefined
      BY <1>1, <1>10 DEF Gaps
    <2>2. T \subseteq 1 .. n
      <3>. SUFFICES ASSUME NEW k \in T PROVE k <= n
        BY <1>1
      <3>1. a[k] \in 1 .. n /\ e[a[k]] = k - 1
        BY <1>6
      <3>2. k - 1 < n
        BY <1>10, <3>1
      <3>. QED BY <1>1, <3>2
    <2>3. IsFiniteSet(1 .. n) /\ Cardinality(1 .. n) = n
      BY FS_Interval
    <2>4. T = 1 .. n
      <3>. DEFINE S == 1 .. n
      <3>1. IsFiniteSet(S) /\ T \subseteq S /\ Cardinality(T) = Cardinality(S)
        BY <1>8, <2>2, <2>3
      <3>. HIDE DEF T, S
      <3>2. T = S
        BY <3>1, FS_Subset
      <3>. QED BY <3>2 DEF S
    <2>5. j \in T
      BY <2>1
    <2>6. i \in 1 .. n
      <3>1. j \in 1 .. n
        BY <2>4, <2>5
      <3>. QED BY <1>1, <2>1, <3>1
    <2>7. i \in T
      BY <2>4, <2>6
    <2>. QED BY <2>1, <2>7
  <1>11. DOMAIN e = 1 .. n
    BY <1>5
  <1>12. \A c \in 1 .. n : e[c] \in Nat
    BY <1>1, <1>7
  <1>. HIDE DEF T
  <1>. QED BY <1>1, <1>6, <1>9, <1>10, <1>11, <1>12

\* The answers that the page accepts for a question are written as a line that
\* the nodes accept, but for a rank with gaps, and they read the same answers from
\* it.
LEMMA LineDecodes ==
    ASSUME NEW q, NEW a,
           q.Type \in {"select", "rank", "text"},
           q.MinN \in Nat, q.MaxN \in Nat, Len(q.Choices) \in Nat,
           schema(q),
           q.Type = "rank" => Len(q.Choices) <= MaxInt8 + 1,
           FitsQuestion(q, a), answerIsValid(q, a)
    PROVE  LET line == encodeLine(q, a)
           IN  /\ line.parts = 3
               /\ answersParse(q, line.entries) <=> ~(q.Type = "rank" /\ Gaps(a))
               /\ Means(q, parsed(q, line.entries), a)
  <1>. DEFINE n == Len(q.Choices)
              e == encoded(q, a)
  <1>1. encodeLine(q, a).entries = e /\ (DOMAIN a # {} => encodeLine(q, a).parts = 3)
    BY DEF encodeLine
  <1>2. CASE q.Type = "select"
    <2>1. n >= 1 /\ q.MinN <= q.MaxN /\ q.MaxN <= n
      BY <1>2 DEF schema, selectsSchema
    <2>2. a \in [1 .. n -> BOOLEAN]
      BY <1>2 DEF FitsQuestion
    <2>3. e = [i \in 1 .. n |-> IF a[i] THEN "1" ELSE "0"]
      BY <1>2, <2>2 DEF encoded
    <2>4. parsed(q, e) = [i \in 1 .. n |-> e[i] = "1"]
      BY <1>2, <2>3 DEF parsed
    <2>5. parsed(q, e) = a
      BY <2>2, <2>3, <2>4
    <2>6. Len(e) = n
      BY <2>3, LengthOfEntries
    <2>7. checkNumberOfAnswers(q, numAnswer(q, a))
      <3>1. ~(numAnswer(q, a) < q.MinN) /\ ~(numAnswer(q, a) > q.MaxN)
        BY <1>2 DEF answerIsValid, selectTooFew, selectTooMany
      <3>2. numAnswer(q, a) \in Nat
        <4>1. numAnswer(q, a) = Cardinality({i \in 1 .. n : a[i]})
          BY <1>2, <2>2 DEF numAnswer
        <4>. QED BY <4>1, CountOfPlaces
      <3>. QED BY <3>1, <3>2 DEF checkNumberOfAnswers
    <2>. QED BY <1>1, <1>2, <2>1, <2>2, <2>5, <2>6, <2>7 DEF answersParse, Means
  <1>3. CASE q.Type = "rank"
    <2>1. n >= 2 /\ q.MinN = n /\ q.MaxN = n
      BY <1>3 DEF schema, ranksSchema
    <2>2. ListsAll(a, 1 .. n)
      BY <1>3 DEF FitsQuestion
    <2>3. e = rankPositions(a)
      BY <1>3 DEF encoded
    <2>. HIDE DEF e
    <2>4. /\ DOMAIN e = 1 .. n
          /\ \A i \in DOMAIN a : a[i] # Undefined => e[a[i]] = i - 1
          /\ \A c \in 1 .. n : e[c] \in Nat
          /\ (\A c \in 1 .. n : e[c] < n) <=> ~ Gaps(a)
      <3>. HIDE DEF n
      <3>1. n \in Nat
        BY DEF n
      <3>. QED BY <2>2, <2>3, <3>1, PlacesOfChoices
    <2>5. Len(e) = n
      BY <2>4, LengthOfEntries
    <2>6. parsed(q, e) = e
      BY <1>3 DEF parsed
    <2>7. rankParses(q, e) <=> \A c \in 1 .. n : e[c] < n
      <3>1. n <= MaxInt8 + 1
        BY <1>3
      <3>2. ASSUME NEW c \in 1 .. n
            PROVE  (e[c] \in 0 .. MaxInt8 /\ e[c] < n) <=> e[c] < n
        <4>. DEFINE x == e[c]
        <4>1. x \in Nat /\ n \in Nat
          BY <2>4
        <4>. HIDE DEF x, n
        <4>2. (x \in 0 .. MaxInt8 /\ x < n) <=> x < n
          BY ONLY <3>1, <4>1 DEF MaxInt8
        <4>. QED BY <4>2 DEF x
      <3>. QED BY <2>1, <2>4, <3>2 DEF rankParses
    <2>8. checkNumberOfAnswers(q, Len(e))
      BY <2>1, <2>5 DEF checkNumberOfAnswers
    <2>9. answersParse(q, e) <=> ~ Gaps(a)
      BY <1>3, <2>4, <2>5, <2>7, <2>8 DEF answersParse
    <2>10. Means(q, e, a)
      BY <1>3, <2>4 DEF Means, Places
    <2>11. DOMAIN a # {}
      <3>1. \E i \in 1 .. Len(a) : a[i] = 1
        BY <2>1, <2>2 DEF ListsAll
      <3>2. DOMAIN a = 1 .. Len(a)
        BY <2>2, LenProperties DEF ListsAll
      <3>. QED BY <3>1, <3>2
    <2>. QED BY <1>1, <1>3, <2>6, <2>9, <2>10, <2>11
  <1>4. CASE q.Type = "text"
    <2>1. n >= 1 /\ q.MinN <= q.MaxN /\ q.MaxN = n
      BY <1>4 DEF schema, textsSchema
    <2>2. DOMAIN a = 1 .. n /\ a = [i \in 1 .. n |-> a[i]]
      BY <1>4 DEF FitsQuestion
    <2>3. e = [i \in 1 .. n |-> [base64 |-> a[i]]]
      BY <1>4, <2>2 DEF encoded
    <2>4. parsed(q, e) = [i \in 1 .. n |-> e[i].base64]
      BY <1>4, <2>3 DEF parsed
    <2>5. parsed(q, e) = a
      <3>. HIDE DEF e
      <3>1. \A i \in 1 .. n : e[i].base64 = a[i]
        BY ONLY <2>3
      <3>. QED BY ONLY <2>2, <2>4, <3>1
    <2>6. Len(e) = n
      BY <2>3, LengthOfEntries
    <2>7. checkNumberOfAnswers(q, numAnswer(q, a))
      <3>1. numAnswer(q, a) >= q.MinN
        BY <1>4 DEF answerIsValid
      <3>2. numAnswer(q, a) = Cardinality({i \in 1 .. n : a[i] # NoText})
        BY <1>4, <2>2 DEF numAnswer
      <3>3. numAnswer(q, a) \in Nat /\ numAnswer(q, a) <= n
        BY <3>2, CountOfPlaces
      <3>. QED BY <2>1, <3>1, <3>3 DEF checkNumberOfAnswers
    <2>. QED BY <1>1, <1>4, <2>1, <2>2, <2>5, <2>6, <2>7 DEF answersParse, Means
  <1>. QED BY <1>2, <1>3, <1>4

-----------------------------------------------------------------------------
(* The inductive invariant *)

Request(B) == [ballot : B, shown : B, at : B, told : B, fate : B]

Posted ==
    /\ \E B : requests \in Seq(Request(B))
    /\ RequestsDecode

Fitting ==
    /\ form \in Forms
    /\ DOMAIN answers = DOMAIN form
    /\ \A q \in DOMAIN form : FitsQuestion(form[q], answers[q])

Inv == Fitting /\ Posted

\* What the page accepts decodes, for all the questions of a form.
LEMMA BallotDecodes ==
    ASSUME ShortRanks, NEW f \in Forms, NEW a,
           \A q \in DOMAIN f : FitsQuestion(f[q], a[q]) /\ answerIsValid(f[q], a[q])
    PROVE  /\ Accepted(f, encodeBallot(f, a)) <=>
                 \A q \in DOMAIN f : f[q].Type = "rank" => ~ Gaps(a[q])
           /\ \A q \in DOMAIN f : Means(f[q], Unmarshal(f, encodeBallot(f, a))[q], a[q])
  <1>. DEFINE lines == encodeBallot(f, a)
  <1>1. ASSUME NEW q \in DOMAIN f
        PROVE  /\ lines[q].parts = 3
               /\ answersParse(f[q], lines[q].entries) <=> ~(f[q].Type = "rank" /\ Gaps(a[q]))
               /\ Means(f[q], parsed(f[q], lines[q].entries), a[q])
    <2>1. lines[q] = encodeLine(f[q], a[q])
      BY DEF encodeBallot
    <2>. HIDE DEF lines
    <2>2. /\ f[q].Type \in {"select", "rank", "text"}
          /\ f[q].MinN \in Nat /\ f[q].MaxN \in Nat /\ Len(f[q].Choices) \in Nat
          /\ schema(f[q])
      BY FormsAssumption
    <2>3. f[q].Type = "rank" => Len(f[q].Choices) <= MaxInt8 + 1
      BY DEF ShortRanks
    <2>4. FitsQuestion(f[q], a[q]) /\ answerIsValid(f[q], a[q])
      OBVIOUS
    <2>. QED BY ONLY <2>1, <2>2, <2>3, <2>4, LineDecodes
  <1>. HIDE DEF lines
  <1>2. Accepted(f, lines) <=> \A q \in DOMAIN f : f[q].Type = "rank" => ~ Gaps(a[q])
    BY <1>1 DEF Accepted
  <1>3. \A q \in DOMAIN f : Unmarshal(f, lines)[q] = parsed(f[q], lines[q].entries)
    BY DEF Unmarshal
  <1>. QED BY <1>1, <1>2, <1>3 DEF lines

\* The answers a page opens with fit.
LEMMA NoAnswerFits ==
    ASSUME NEW f \in Forms
    PROVE  DOMAIN noAnswer(f) = DOMAIN f /\ \A q \in DOMAIN f : FitsQuestion(f[q], noAnswer(f)[q])
  <1>1. DOMAIN noAnswer(f) = DOMAIN f
    BY DEF noAnswer
  <1>2. ASSUME NEW q \in DOMAIN f PROVE FitsQuestion(f[q], noAnswer(f)[q])
    <2>. DEFINE n == Len(f[q].Choices)
    <2>1. f[q].Type \in {"select", "rank", "text"} /\ n \in Nat
      BY FormsAssumption
    <2>2. CASE f[q].Type = "select"
      BY <2>2 DEF noAnswer, FitsQuestion
    <2>3. CASE f[q].Type = "rank"
      <3>. DEFINE id == [i \in 1 .. n |-> i]
      <3>1. noAnswer(f)[q] = id
        BY <2>3 DEF noAnswer
      <3>2. id \in Seq(1 .. n) /\ Len(id) = n
        BY <2>1
      <3>3. \A i \in 1 .. n : id[i] = i
        OBVIOUS
      <3>. HIDE DEF id
      <3>4. id \in Seq((1 .. n) \cup {Undefined})
        BY <3>2, SeqMonotonic
      <3>. QED BY <2>3, <3>1, <3>2, <3>3, <3>4 DEF FitsQuestion, ListsAll
    <2>4. CASE f[q].Type = "text"
      <3>1. noAnswer(f)[q] = [i \in 1 .. n |-> NoText]
        BY <2>4 DEF noAnswer
      <3>. QED BY <2>4, <3>1 DEF FitsQuestion
    <2>. QED BY <2>1, <2>2, <2>3, <2>4
  <1>. QED BY <1>1, <1>2

\* A field of a request that is neither its ballot nor its answers may change.
LEMMA RequestsKept ==
    ASSUME NEW B, requests \in Seq(Request(B)), requests' \in Seq(Request(B)),
           Len(requests') = Len(requests), form' = form, RequestsDecode,
           \A k \in 1 .. Len(requests) : /\ requests'[k].ballot = requests[k].ballot
                                         /\ requests'[k].shown = requests[k].shown
    PROVE  RequestsDecode'
  <1>1. DOMAIN requests = 1 .. Len(requests) /\ DOMAIN requests' = 1 .. Len(requests)
    BY LenProperties
  <1>. QED BY <1>1 DEF RequestsDecode, Asked, Of

\* r is the same request as the k-th, and t has the same requests as s.
SameRequest(r, s, k, B) ==
    k \in DOMAIN s => r \in Request(B) /\ r.ballot = s[k].ballot /\ r.shown = s[k].shown
SameRequests(t, s) ==
    /\ Len(t) = Len(s)
    /\ \A i \in 1 .. Len(s) : t[i].ballot = s[i].ballot /\ t[i].shown = s[i].shown

\* An entry of the list of requests is replaced by one of the same ballot.
LEMMA EntryReplaced ==
    ASSUME NEW B, NEW s \in Seq(Request(B)), NEW k, NEW r, SameRequest(r, s, k, B)
    PROVE  [s EXCEPT ![k] = r] \in Seq(Request(B)) /\ SameRequests([s EXCEPT ![k] = r], s)
  <1>1. DOMAIN s = 1 .. Len(s)
    BY LenProperties
  <1>2. CASE k \in DOMAIN s
    <2>1. r \in Request(B) /\ r.ballot = s[k].ballot /\ r.shown = s[k].shown
      BY <1>2 DEF SameRequest
    <2>2. k \in 1 .. Len(s)
      BY <1>1, <1>2
    <2>3. /\ [s EXCEPT ![k] = r] \in Seq(Request(B)) /\ Len([s EXCEPT ![k] = r]) = Len(s)
          /\ \A i \in 1 .. Len(s) : [s EXCEPT ![k] = r][i] = IF i = k THEN r ELSE s[i]
      BY ONLY s \in Seq(Request(B)), <2>1, <2>2, ExceptSeq
    <2>. QED BY <2>1, <2>3 DEF SameRequests
  <1>3. CASE k \notin DOMAIN s
    <2>1. [s EXCEPT ![k] = r] = s
      BY ONLY <1>3, s \in Seq(Request(B)), <1>1, LenProperties
    <2>. QED BY <2>1 DEF SameRequests
  <1>. QED BY <1>2, <1>3

\* A request that comes further is the same ballot.
LEMMA AdvanceKeeps ==
    ASSUME Inv, form' = form, NEW k, NEW v,
           \/ requests' = [requests EXCEPT ![k].at = v]
           \/ requests' = [requests EXCEPT ![k].told = v]
           \/ requests' = [requests EXCEPT ![k].fate = v]
    PROVE  Posted'
  <1>0. PICK A : requests \in Seq(Request(A))
    BY DEF Inv, Posted
  <1>. DEFINE B == A \cup {v}
  <1>1. requests \in Seq(Request(B)) /\ v \in B
    <2>1. Request(A) \subseteq Request(B)
      BY DEF Request
    <2>2. requests \in Seq(Request(B))
      BY ONLY <1>0, <2>1, SeqMonotonic
    <2>. QED BY <2>2
  <1>. HIDE DEF B
  <1>2. \A j \in DOMAIN requests : requests[j] \in Request(B)
    BY <1>1, LenProperties, ElementOfSeq
  <1>3. PICK r : /\ requests' = [requests EXCEPT ![k] = r]
                 /\ k \in DOMAIN requests => /\ r \in Request(B)
                                             /\ r.ballot = requests[k].ballot
                                             /\ r.shown = requests[k].shown
    <2>1. CASE requests' = [requests EXCEPT ![k].at = v]
      <3>. DEFINE r == [requests[k] EXCEPT !.at = v]
      <3>2. requests' = [requests EXCEPT ![k] = r]
        BY <2>1
      <3>3. k \in DOMAIN requests => r \in Request(B) /\ r.ballot = requests[k].ballot
                                     /\ r.shown = requests[k].shown
        BY <1>1, <1>2 DEF Request
      <3>. QED BY <3>2, <3>3
    <2>2. CASE requests' = [requests EXCEPT ![k].told = v]
      <3>. DEFINE r == [requests[k] EXCEPT !.told = v]
      <3>2. requests' = [requests EXCEPT ![k] = r]
        BY <2>2
      <3>3. k \in DOMAIN requests => r \in Request(B) /\ r.ballot = requests[k].ballot
                                     /\ r.shown = requests[k].shown
        BY <1>1, <1>2 DEF Request
      <3>. QED BY <3>2, <3>3
    <2>3. CASE requests' = [requests EXCEPT ![k].fate = v]
      <3>. DEFINE r == [requests[k] EXCEPT !.fate = v]
      <3>2. requests' = [requests EXCEPT ![k] = r]
        BY <2>3
      <3>3. k \in DOMAIN requests => r \in Request(B) /\ r.ballot = requests[k].ballot
                                     /\ r.shown = requests[k].shown
        BY <1>1, <1>2 DEF Request
      <3>. QED BY <3>2, <3>3
    <2>. QED BY <2>1, <2>2, <2>3
  <1>4. /\ requests' \in Seq(Request(B)) /\ Len(requests') = Len(requests)
        /\ \A i \in 1 .. Len(requests) : /\ requests'[i].ballot = requests[i].ballot
                                         /\ requests'[i].shown = requests[i].shown
    <2>1. SameRequest(r, requests, k, B)
      BY <1>3 DEF SameRequest
    <2>2. requests' \in Seq(Request(B)) /\ SameRequests(requests', requests)
      BY <1>1, <1>3, <2>1, EntryReplaced
    <2>. QED BY <2>2 DEF SameRequests
  <1>5. RequestsDecode
    BY DEF Inv, Posted
  <1>6. RequestsDecode'
    BY <1>1, <1>4, <1>5, RequestsKept
  <1>. QED BY <1>4, <1>6 DEF Posted

\* A ballot is posted only if the page accepts the answers.
LEMMA SentDecodes ==
    ASSUME ShortRanks, Inv, handleClick
    PROVE  Posted'
  <1>1. form' = form /\ form \in Forms
    BY DEF handleClick, Inv, Fitting
  <1>2. CASE requests' = requests
    BY <1>1, <1>2 DEF Inv, Posted, RequestsDecode, Asked, Of
  <1>3. CASE requests' # requests
    <2>. DEFINE r == [ballot |-> encodeBallot(form, answers), shown |-> answers,
                      at |-> "sent", told |-> "nothing", fate |-> "none"]
    <2>1. ballotIsValid /\ requests' = Append(requests, r)
      BY <1>3 DEF handleClick, sendBallot
    <2>2. PICK B : requests \in Seq(Request(B))
      BY DEF Inv, Posted
    <2>. DEFINE C == B \cup {encodeBallot(form, answers), answers, "sent", "nothing", "none"}
    <2>3. requests \in Seq(Request(C))
      <3>1. Request(B) \subseteq Request(C)
        BY DEF Request
      <3>. QED BY ONLY <2>2, <3>1, SeqMonotonic
    <2>4. r \in Request(C)
      <3>1. /\ encodeBallot(form, answers) \in C /\ answers \in C
            /\ "sent" \in C /\ "nothing" \in C /\ "none" \in C
        OBVIOUS
      <3>. HIDE DEF C
      <3>. QED BY ONLY <3>1 DEF Request
    <2>5. /\ r.ballot = encodeBallot(form, answers) /\ r.shown = answers
      OBVIOUS
    <2>. HIDE DEF r, C
    <2>6. /\ requests' \in Seq(Request(C)) /\ Len(requests') = Len(requests) + 1
          /\ Len(requests) \in Nat
          /\ \A k \in 1 .. Len(requests') :
                requests'[k] = IF k = Len(requests) + 1 THEN r ELSE requests[k]
      BY ONLY <2>1, <2>3, <2>4, AppendProperties, LenProperties
    <2>7. DOMAIN requests = 1 .. Len(requests) /\ DOMAIN requests' = 1 .. (Len(requests) + 1)
      BY ONLY <2>3, <2>6, LenProperties
    <2>8. /\ Accepted(form, r.ballot) <=> \A q \in Of("rank") : ~ Gaps(r.shown[q])
          /\ \A q \in DOMAIN form : Means(form[q], Unmarshal(form, r.ballot)[q], r.shown[q])
      <3>1. \A q \in DOMAIN form : FitsQuestion(form[q], answers[q]) /\ answerIsValid(form[q], answers[q])
        BY <2>1 DEF Inv, Fitting, ballotIsValid, Asked
      <3>. QED BY <1>1, <2>5, <3>1, BallotDecodes DEF Of, Asked
    <2>9. ASSUME NEW k \in 1 .. (Len(requests) + 1)
          PROVE  /\ Accepted(form, requests'[k].ballot) <=>
                       \A q \in Of("rank") : ~ Gaps(requests'[k].shown[q])
                 /\ Accepted(form, requests'[k].ballot) => \A q \in DOMAIN form :
                       Means(form[q], Unmarshal(form, requests'[k].ballot)[q], requests'[k].shown[q])
      <3>1. CASE k = Len(requests) + 1
        <4>1. requests'[k] = r
          BY <2>6, <3>1
        <4>. QED BY <2>8, <4>1
      <3>2. CASE k # Len(requests) + 1
        <4>1. k \in DOMAIN requests /\ requests'[k] = requests[k]
          BY <2>6, <2>7, <3>2
        <4>. QED BY <4>1 DEF Inv, Posted, RequestsDecode, Asked
      <3>. QED BY <3>1, <3>2
    <2>10. RequestsDecode'
      BY <1>1, <2>7, <2>9 DEF RequestsDecode, Asked, Of
    <2>. QED BY <2>6, <2>10 DEF Posted
  <1>. QED BY <1>2, <1>3

\* The form of a page does not change.
LEMMA FormKept ==
    ASSUME [Next]_vars
    PROVE  form' = form
  BY DEF Next, vars, Visit, Leave, handleClick, Execute, closeForm, changeLanguage, handleChecks,
         handleOnDragEnd, handleTextInput, Untouched, Arrive, AnsweredError, AnsweredOK

\* The steps other than filling in leave the answers, and all but a click the
\* errors too.
LEMMA EntriesKept ==
    ASSUME \/ Leave \/ Execute \/ closeForm \/ \E lg \in Languages : changeLanguage(lg)
           \/ \E k \in DOMAIN requests :
                 \/ \E outcome \in {"pooled", "refused"} : Arrive(k, outcome)
                 \/ AnsweredError(k)
                 \/ AnsweredOK(k)
           \/ UNCHANGED vars
    PROVE  answers' = answers /\ errors' = errors
  BY DEF vars, filled, Leave, Execute, closeForm, changeLanguage, Arrive, AnsweredError, AnsweredOK

\* What is checked, dragged and typed leaves answers that fit.
LEMMA AnswersStayFitting ==
    ASSUME Fitting, NEW q \in DOMAIN form, NEW b,
           answers' = [answers EXCEPT ![q] = b], FitsQuestion(form[q], b), form' = form
    PROVE  Fitting'
  BY DEF Fitting

\* The answers fit their questions after every step.
LEMMA FittingNext ==
    ASSUME Fitting, [Next]_vars
    PROVE  Fitting'
  <1>0. form' = form
    BY FormKept
  <1>1. CASE Visit
    <2>1. answers' = noAnswer(form)
      BY <1>1 DEF Visit
    <2>. QED BY <1>0, <2>1, NoAnswerFits DEF Fitting
  <1>2. ASSUME NEW q \in Of("select"), NEW i \in Places(form[q]), handleChecks(q, i)
        PROVE  Fitting'
    <2>. DEFINE b == checked(form[q], answers[q], i)
    <2>1. q \in DOMAIN form /\ form[q].Type = "select"
      BY DEF Of, Asked
    <2>2. answers' = [answers EXCEPT ![q] = b]
      BY <1>2 DEF handleChecks, Untouched
    <2>3. answers[q] \in [1 .. Len(form[q].Choices) -> BOOLEAN]
      BY <2>1 DEF Fitting, FitsQuestion
    <2>4. b \in [1 .. Len(form[q].Choices) -> BOOLEAN]
      BY <2>3 DEF checked
    <2>5. FitsQuestion(form[q], b)
      BY <2>1, <2>4 DEF FitsQuestion
    <2>. HIDE DEF b
    <2>. QED BY <1>0, <2>1, <2>2, <2>5, AnswersStayFitting
  <1>3. ASSUME NEW q \in Of("rank"), NEW from, NEW to \in 1 .. (Len(answers[q]) + 1),
                handleOnDragEnd(from, q, to)
         PROVE  Fitting'
    <2>. DEFINE a == answers[q]
                b == moved(a, from, to)
                S == 1 .. Len(form[q].Choices)
    <2>1. q \in DOMAIN form /\ form[q].Type = "rank"
      BY DEF Of, Asked
    <2>2. answers' = [answers EXCEPT ![q] = b]
      BY <1>3 DEF handleOnDragEnd, Untouched
    <2>3. ListsAll(a, S)
      BY <2>1 DEF Fitting, FitsQuestion
    <2>4. to \in 1 .. (Len(a) + 1)
      OBVIOUS
    <2>. HIDE DEF a, S
    <2>5. ListsAll(b, S)
      BY <2>3, <2>4, MovedLists
    <2>8. FitsQuestion(form[q], b)
      BY <2>1, <2>5 DEF FitsQuestion, S
    <2>. HIDE DEF b
    <2>. QED BY <1>0, <2>1, <2>2, <2>8, AnswersStayFitting
  <1>4. ASSUME NEW q \in Of("text"), NEW i \in Places(form[q]), NEW t \in Inputs,
                handleTextInput(q, i, t)
         PROVE  Fitting'
    <2>. DEFINE b == [answers[q] EXCEPT ![i] = trim(t)]
    <2>1. q \in DOMAIN form /\ form[q].Type = "text"
      BY DEF Of, Asked
    <2>2. answers' = [answers EXCEPT ![q] = b]
      BY <1>4 DEF handleTextInput, Untouched
    <2>3. FitsQuestion(form[q], b)
      BY <2>1 DEF Fitting, FitsQuestion
    <2>. HIDE DEF b
    <2>. QED BY <1>0, <2>1, <2>2, <2>3, AnswersStayFitting
  <1>5. CASE answers' = answers
    BY <1>0, <1>5 DEF Fitting
  <1>6. handleClick => answers' = answers
    BY DEF handleClick
  <1>. QED
    BY <1>1, <1>2, <1>3, <1>4, <1>5, <1>6, EntriesKept DEF Next

\* The invariant holds initially.
LEMMA InvInit == Init => Inv
  <1>. SUFFICES ASSUME Init PROVE Inv
    OBVIOUS
  <1>1. form \in Forms /\ answers = noAnswer(form) /\ requests = <<>>
    BY DEF Init
  <1>2. requests \in Seq(Request({})) /\ DOMAIN requests = {}
    BY <1>1
  <1>3. RequestsDecode
    BY <1>1, <1>2 DEF RequestsDecode
  <1>. QED BY <1>1, <1>2, <1>3, NoAnswerFits DEF Inv, Fitting, Posted

\* Every step keeps it.
LEMMA InvNext ==
    ASSUME ShortRanks, Inv, [Next]_vars
    PROVE  Inv'
  <1>0. form' = form
    BY FormKept
  <1>1. Fitting'
    BY FittingNext DEF Inv
  <1>2. CASE requests' = requests
    <2>1. Posted'
      BY <1>0, <1>2 DEF Inv, Posted, RequestsDecode, Asked, Of
    <2>. QED BY <1>1, <2>1 DEF Inv
  <1>3. CASE handleClick
    BY <1>1, <1>3, SentDecodes DEF Inv
  <1>4. CASE Execute
    <2>1. \/ requests' = [requests EXCEPT ![Head(pool)].fate = "counted"]
          \/ requests' = [requests EXCEPT ![Head(pool)].fate = "refused"]
      BY <1>4 DEF Execute
    <2>2. Posted'
      BY <1>0, <2>1, AdvanceKeeps
    <2>. QED BY <1>1, <2>2 DEF Inv
  <1>5. ASSUME NEW k \in DOMAIN requests, NEW text, Says(k, text) PROVE Inv'
    <2>1. \/ requests' = [requests EXCEPT ![k].told = "unheard"]
          \/ requests' = [requests EXCEPT ![k].told = text]
      BY <1>5 DEF Says
    <2>2. Posted'
      BY <1>0, <2>1, AdvanceKeeps
    <2>. QED BY <1>1, <2>2 DEF Inv
  <1>6. ASSUME NEW k \in DOMAIN requests, NEW outcome, Arrive(k, outcome) PROVE Inv'
    <2>1. requests' = [requests EXCEPT ![k].at = outcome]
      BY <1>6 DEF Arrive
    <2>2. Posted'
      BY <1>0, <2>1, AdvanceKeeps
    <2>. QED BY <1>1, <2>2 DEF Inv
  <1>7. ASSUME NEW k \in DOMAIN requests, AnsweredError(k) \/ AnsweredOK(k) PROVE Inv'
    BY <1>5, <1>7 DEF AnsweredError, AnsweredOK
  <1>8. \/ Visit \/ Leave \/ closeForm
        \/ \E lg \in Languages : changeLanguage(lg)
        \/ \E q \in Of("select") : \E i \in Places(form[q]) : handleChecks(q, i)
        \/ \E source, q \in Of("rank") :
              \E from \in DOMAIN answers[source], to \in 1 .. (Len(answers[q]) + 1) :
                 handleOnDragEnd(from, q, to)
        \/ \E q \in Of("text") : \E i \in Places(form[q]), t \in Inputs : handleTextInput(q, i, t)
        \/ UNCHANGED vars
        => requests' = requests
    BY DEF vars, Visit, Leave, closeForm, changeLanguage, handleChecks, handleOnDragEnd,
           handleTextInput, Untouched
  <1>. QED
    BY <1>2, <1>3, <1>4, <1>6, <1>7, <1>8 DEF Next

\* For every form that the schema accepts, with ranks of at most 128 choices, and
\* for every sequence of inputs, drags between two ranks included: a ballot that
\* the page posts is accepted by the nodes after decryption unless a rank has a
\* blank entry before a choice, and they read from it what the voter answered.
THEOREM BallotsDecode == ShortRanks /\ Spec => []RequestsDecode
  <1>. SUFFICES ASSUME ShortRanks PROVE Spec => []RequestsDecode
    BY DEF ShortRanks
  <1>1. Inv /\ [Next]_vars => Inv'
    BY InvNext
  <1>2. Inv => RequestsDecode
    BY DEF Inv, Posted
  <1>. QED BY InvInit, <1>1, <1>2, PTL DEF Spec

-----------------------------------------------------------------------------
(* The errors *)

\* The number of answers is a number.
LEMMA CountIsNat ==
    ASSUME NEW q, NEW a, Len(q.Choices) \in Nat, q.Type \in {"select", "text"},
           FitsQuestion(q, a)
    PROVE  numAnswer(q, a) \in Nat
  <1>. DEFINE T == {i \in DOMAIN a : IF q.Type = "text" THEN a[i] # NoText ELSE a[i]}
  <1>1. DOMAIN a = 1 .. Len(q.Choices)
    BY DEF FitsQuestion
  <1>2. T \in SUBSET (1 .. Len(q.Choices))
    BY <1>1
  <1>. HIDE DEF T
  <1>3. Cardinality(T) \in Nat
    BY <1>2, CountOfPlaces
  <1>. QED BY <1>3 DEF numAnswer, T

ErrorsInv == Fitting /\ DOMAIN errors = DOMAIN form /\ ErrorsAreCurrent

\* One question changes, and its error is true of its new answers.
LEMMA OneErrorChanges ==
    ASSUME ErrorsInv, NEW q \in DOMAIN form, NEW b, NEW e, form' = form, Fitting',
           answers' = [answers EXCEPT ![q] = b], errors' = [errors EXCEPT ![q] = e],
           e # "" => ~ answerIsValid(form[q], b)
    PROVE  ErrorsInv'
  <1>1. /\ DOMAIN answers = DOMAIN form /\ DOMAIN errors = DOMAIN form
        /\ \A p \in DOMAIN form : errors[p] # "" => ~ answerIsValid(form[p], answers[p])
    BY DEF ErrorsInv, Fitting, ErrorsAreCurrent, Asked
  <1>2. ASSUME NEW p \in DOMAIN form, errors'[p] # ""
        PROVE  ~ answerIsValid(form[p], answers'[p])
    <2>1. CASE p = q
      BY <1>1, <1>2, <2>1
    <2>2. CASE p # q
      <3>1. errors'[p] = errors[p] /\ answers'[p] = answers[p]
        BY <1>1, <2>2
      <3>. QED BY <1>1, <1>2, <3>1
    <2>. QED BY <2>1, <2>2
  <1>3. (DOMAIN errors = DOMAIN form)'
    BY <1>1
  <1>4. ErrorsAreCurrent'
    BY <1>2 DEF ErrorsAreCurrent, Asked
  <1>. QED BY <1>3, <1>4 DEF ErrorsInv

\* Every step leaves errors that are true of the answers.
LEMMA ErrorsNext ==
    ASSUME ErrorsInv, [Next]_vars
    PROVE  ErrorsInv'
  <1>1. form' = form
    BY FormKept
  <1>2. Fitting'
    BY FittingNext DEF ErrorsInv
  <1>3. \A q \in DOMAIN form : /\ form[q].MinN \in Nat /\ form[q].MaxN \in Nat
                               /\ Len(form[q].Choices) \in Nat
                               /\ FitsQuestion(form[q], answers[q])
                               /\ errors[q] # "" => ~ answerIsValid(form[q], answers[q])
    BY FormsAssumption DEF ErrorsInv, Fitting, ErrorsAreCurrent, Asked
  <1>4. CASE answers' = answers /\ errors' = errors
    BY <1>1, <1>2, <1>4 DEF ErrorsInv, ErrorsAreCurrent, Asked
  <1>5. CASE Visit
    <2>1. errors' = [q \in DOMAIN form |-> ""]
      BY <1>5 DEF Visit, noErrors
    <2>. QED BY <1>1, <1>2, <2>1 DEF ErrorsInv, ErrorsAreCurrent, Asked
  <1>6. ASSUME NEW q \in Of("select"), NEW i \in Places(form[q]), handleChecks(q, i)
        PROVE  ErrorsInv'
    <2>. DEFINE b == checked(form[q], answers[q], i)
                e == checkError(form[q], b, errors[q])
    <2>1. q \in DOMAIN form /\ form[q].Type = "select"
      BY DEF Of, Asked
    <2>2. answers' = [answers EXCEPT ![q] = b] /\ errors' = [errors EXCEPT ![q] = e]
      BY <1>6 DEF handleChecks
    <2>3. answers'[q] = b
      BY <2>1, <2>2 DEF ErrorsInv, Fitting
    <2>4. FitsQuestion(form[q], b)
      BY <1>1, <1>2, <2>1, <2>3 DEF Fitting
    <2>. HIDE DEF b
    <2>5. numAnswer(form[q], b) \in Nat
      BY <1>3, <2>1, <2>4, CountIsNat
    <2>6. e # "" => ~ answerIsValid(form[q], b)
      <3>. DEFINE n == numAnswer(form[q], b)
                  lo == form[q].MinN
                  hi == form[q].MaxN
      <3>1. n \in Nat /\ lo \in Nat /\ hi \in Nat
        BY <1>3, <2>1, <2>5
      <3>2. ASSUME lo <= n, n < hi + 1
            PROVE  e = ""
        <4>. HIDE DEF n, lo, hi
        <4>1. ~(n >= hi + 1)
          BY ONLY <3>2, <3>1
        <4>2. e = CASE lo <= n /\ n < hi + 1 -> "" [] n >= hi + 1 -> "max" [] OTHER -> errors[q]
          BY DEF e, checkError, n, lo, hi
        <4>. QED BY ONLY <3>2, <4>1, <4>2
      <3>3. answerIsValid(form[q], b) => ~(n < lo) /\ ~(n > hi)
        BY <2>1 DEF answerIsValid, selectTooFew, selectTooMany
      <3>. HIDE DEF n, lo, hi, e
      <3>4. ~(n < lo) /\ ~(n > hi) => lo <= n /\ n < hi + 1
        BY ONLY <3>1
      <3>. QED BY ONLY <3>2, <3>3, <3>4
    <2>. HIDE DEF e
    <2>. QED BY <1>1, <1>2, <2>1, <2>2, <2>6, OneErrorChanges
  <1>7. ASSUME NEW q \in Of("rank"), NEW from, NEW to \in 1 .. (Len(answers[q]) + 1),
               handleOnDragEnd(from, q, to)
        PROVE  ErrorsInv'
    <2>. DEFINE b == moved(answers[q], from, to)
    <2>1. q \in DOMAIN form /\ form[q].Type = "rank"
      BY DEF Of, Asked
    <2>2. answers' = [answers EXCEPT ![q] = b] /\ errors' = errors
      BY <1>7 DEF handleOnDragEnd
    <2>. HIDE DEF b
    <2>3. errors[q] = ""
      BY <1>3, <2>1 DEF answerIsValid
    <2>4. ASSUME NEW p \in DOMAIN form, errors[p] # ""
          PROVE  ~ answerIsValid(form[p], answers'[p])
      <3>1. p # q
        BY <2>3, <2>4
      <3>2. answers'[p] = answers[p]
        BY <2>2, <3>1 DEF ErrorsInv, Fitting
      <3>. QED BY <1>3, <2>4, <3>2
    <2>. QED BY <1>1, <1>2, <2>2, <2>4 DEF ErrorsInv, ErrorsAreCurrent, Asked
  <1>8. ASSUME NEW q \in Of("text"), NEW i \in Places(form[q]), NEW t \in Inputs,
               handleTextInput(q, i, t)
        PROVE  ErrorsInv'
    <2>. DEFINE b == [answers[q] EXCEPT ![i] = trim(t)]
                e == inputError(form[q], b, errors[q])
    <2>1. q \in DOMAIN form /\ form[q].Type = "text"
      BY DEF Of, Asked
    <2>2. answers' = [answers EXCEPT ![q] = b] /\ errors' = [errors EXCEPT ![q] = e]
      BY <1>8 DEF handleTextInput
    <2>. HIDE DEF b
    <2>3. e # "" => ~ answerIsValid(form[q], b)
      BY <2>1 DEF inputError, answerIsValid
    <2>. HIDE DEF e
    <2>. QED BY <1>1, <1>2, <2>1, <2>2, <2>3, OneErrorChanges
  <1>9. CASE handleClick
    <2>1. answers' = answers
          /\ errors' = [q \in DOMAIN form |-> clickError(form[q], answers[q], errors[q])]
      BY <1>9 DEF handleClick, Asked
    <2>2. ASSUME NEW q \in DOMAIN form, clickError(form[q], answers[q], errors[q]) # ""
          PROVE  ~ answerIsValid(form[q], answers[q])
      <3>1. form[q].Type \in {"select", "rank", "text"}
        BY FormsAssumption DEF ErrorsInv, Fitting
      <3>2. CASE form[q].Type # "rank" /\ numAnswer(form[q], answers[q]) < form[q].MinN
        <4>1. CASE form[q].Type = "select"
          BY <3>2, <4>1 DEF answerIsValid, selectTooFew
        <4>2. CASE form[q].Type = "text"
          <5>1. numAnswer(form[q], answers[q]) \in Nat
            BY <1>3, <4>2, CountIsNat
          <5>2. ~(numAnswer(form[q], answers[q]) >= form[q].MinN)
            <6>. DEFINE n == numAnswer(form[q], answers[q])
                        lo == form[q].MinN
            <6>1. n \in Nat /\ lo \in Nat /\ n < lo
              BY <1>3, <3>2, <5>1
            <6>. HIDE DEF n, lo
            <6>2. ~(n >= lo)
              BY ONLY <6>1
            <6>. QED BY ONLY <6>2 DEF n, lo
          <5>. QED BY <4>2, <5>2 DEF answerIsValid
        <4>. QED BY <3>1, <3>2, <4>1, <4>2
      <3>3. CASE /\ form[q].Type = "text"
                 /\ textTooLong(form[q], answers[q]) \/ textRefused(form[q], answers[q])
        BY <3>3 DEF answerIsValid
      <3>4. CASE /\ ~(form[q].Type # "rank" /\ numAnswer(form[q], answers[q]) < form[q].MinN)
                 /\ ~(/\ form[q].Type = "text"
                      /\ textTooLong(form[q], answers[q]) \/ textRefused(form[q], answers[q]))
        <4>1. clickError(form[q], answers[q], errors[q]) = errors[q]
          BY <3>4 DEF clickError
        <4>. QED BY <1>3, <2>2, <4>1
      <3>. QED BY <3>2, <3>3, <3>4
    <2>. QED BY <1>1, <1>2, <2>1, <2>2 DEF ErrorsInv, ErrorsAreCurrent, Asked
  <1>. QED
    BY <1>4, <1>5, <1>6, <1>7, <1>8, <1>9, EntriesKept DEF Next

\* Whatever is checked, dragged, typed and clicked, an error that the page shows
\* at a question is true of the answers shown.
THEOREM ErrorsAreTrue == Spec => []ErrorsAreCurrent
  <1>1. Init => ErrorsInv
    <2>. SUFFICES ASSUME Init PROVE ErrorsInv
      OBVIOUS
    <2>1. Fitting
      BY InvInit DEF Inv
    <2>2. errors = [q \in DOMAIN form |-> ""]
      BY DEF Init, noErrors
    <2>. QED BY <2>1, <2>2 DEF ErrorsInv, ErrorsAreCurrent, Asked
  <1>2. ErrorsInv /\ [Next]_vars => ErrorsInv'
    BY ErrorsNext
  <1>3. ErrorsInv => ErrorsAreCurrent
    BY DEF ErrorsInv
  <1>. QED BY <1>1, <1>2, <1>3, PTL DEF Spec

-----------------------------------------------------------------------------
(* A click that is refused *)

\* A click leaves no error of its own where too many choices are selected: the
\* check that selected one too many has left it, and no step takes it away.
TooManyNoted ==
    \A q \in DOMAIN form :
        form[q].Type = "select" /\ numAnswer(form[q], answers[q]) > form[q].MaxN => errors[q] # ""

\* Where nothing is selected nothing is too much.
LEMMA NothingSelected ==
    ASSUME NEW f \in Forms, NEW q \in DOMAIN f, f[q].Type = "select"
    PROVE  ~(numAnswer(f[q], noAnswer(f)[q]) > f[q].MaxN)
  <1>1. noAnswer(f)[q] = [i \in 1 .. Len(f[q].Choices) |-> FALSE]
    BY DEF noAnswer
  <1>2. numAnswer(f[q], noAnswer(f)[q]) = Cardinality({})
    <2>1. {i \in DOMAIN noAnswer(f)[q] :
              IF f[q].Type = "text" THEN noAnswer(f)[q][i] # NoText ELSE noAnswer(f)[q][i]} = {}
      BY <1>1
    <2>. QED BY <2>1 DEF numAnswer
  <1>3. f[q].MaxN \in Nat
    BY FormsAssumption
  <1>. QED
    BY <1>2, <1>3, FS_EmptySet

\* What a check leaves when too much is selected.
LEMMA CheckNotes ==
    ASSUME NEW q, NEW b, NEW error, numAnswer(q, b) \in Nat, q.MinN \in Nat, q.MaxN \in Nat,
           numAnswer(q, b) > q.MaxN
    PROVE  checkError(q, b, error) = "max"
  <1>. DEFINE n == numAnswer(q, b)
              lo == q.MinN
              hi == q.MaxN
  <1>1. checkError(q, b, error) =
            CASE lo <= n /\ n < hi + 1 -> "" [] n >= hi + 1 -> "max" [] OTHER -> error
    BY DEF checkError
  <1>2. n \in Nat /\ lo \in Nat /\ hi \in Nat /\ n > hi
    OBVIOUS
  <1>. HIDE DEF n, lo, hi
  <1>3. ~(n < hi + 1) /\ n >= hi + 1
    BY ONLY <1>2
  <1>. QED
    BY ONLY <1>1, <1>3

LEMMA NotedNext ==
    ASSUME ErrorsInv, TooManyNoted, [Next]_vars
    PROVE  TooManyNoted'
  <1>1. form' = form /\ Fitting'
    BY FormKept, FittingNext DEF ErrorsInv
  <1>2. /\ DOMAIN answers = DOMAIN form /\ DOMAIN errors = DOMAIN form /\ form \in Forms
        /\ \A q \in DOMAIN form : /\ form[q].MinN \in Nat /\ form[q].MaxN \in Nat
                                  /\ Len(form[q].Choices) \in Nat
    BY FormsAssumption DEF ErrorsInv, Fitting
  <1>3. CASE answers' = answers /\ errors' = errors
    BY <1>1, <1>3 DEF TooManyNoted
  <1>4. CASE Visit
    BY <1>1, <1>2, <1>4, NothingSelected DEF Visit, TooManyNoted
  <1>5. ASSUME NEW q \in Of("select"), NEW i \in Places(form[q]), handleChecks(q, i)
        PROVE  TooManyNoted'
    <2>. DEFINE b == checked(form[q], answers[q], i)
                e == checkError(form[q], b, errors[q])
    <2>1. q \in DOMAIN form /\ form[q].Type = "select"
      BY DEF Of, Asked
    <2>2. answers' = [answers EXCEPT ![q] = b] /\ errors' = [errors EXCEPT ![q] = e]
      BY <1>5 DEF handleChecks
    <2>. HIDE DEF b
    <2>3. answers'[q] = b /\ FitsQuestion(form[q], b)
      BY <1>1, <1>2, <2>1, <2>2 DEF Fitting
    <2>4. numAnswer(form[q], b) \in Nat
      BY <1>2, <2>1, <2>3, CountIsNat
    <2>5. numAnswer(form[q], b) > form[q].MaxN => e # ""
      BY <1>2, <2>1, <2>4, CheckNotes
    <2>. HIDE DEF e
    <2>. QED BY <1>1, <1>2, <2>1, <2>2, <2>5 DEF TooManyNoted
  <1>6. ASSUME NEW q \in Of("rank"), NEW from, NEW to \in 1 .. (Len(answers[q]) + 1),
               handleOnDragEnd(from, q, to)
        PROVE  TooManyNoted'
    <2>. DEFINE b == moved(answers[q], from, to)
    <2>1. q \in DOMAIN form /\ form[q].Type = "rank"
      BY DEF Of, Asked
    <2>2. answers' = [answers EXCEPT ![q] = b] /\ errors' = errors
      BY <1>6 DEF handleOnDragEnd
    <2>. HIDE DEF b
    <2>. QED BY <1>1, <1>2, <2>1, <2>2 DEF TooManyNoted
  <1>7. ASSUME NEW q \in Of("text"), NEW i \in Places(form[q]), NEW t \in Inputs,
               handleTextInput(q, i, t)
        PROVE  TooManyNoted'
    <2>. DEFINE b == [answers[q] EXCEPT ![i] = trim(t)]
                e == inputError(form[q], b, errors[q])
    <2>1. q \in DOMAIN form /\ form[q].Type = "text"
      BY DEF Of, Asked
    <2>2. answers' = [answers EXCEPT ![q] = b] /\ errors' = [errors EXCEPT ![q] = e]
      BY <1>7 DEF handleTextInput
    <2>. HIDE DEF b, e
    <2>. QED BY <1>1, <1>2, <2>1, <2>2 DEF TooManyNoted
  <1>8. CASE handleClick
    <2>1. answers' = answers
          /\ errors' = [q \in DOMAIN form |-> clickError(form[q], answers[q], errors[q])]
      BY <1>8 DEF handleClick, Asked
    <2>2. ASSUME NEW q \in DOMAIN form, form[q].Type = "select"
          PROVE  clickError(form[q], answers[q], errors[q]) \in {"min", errors[q]}
      BY <2>2 DEF clickError
    <2>. QED BY <1>1, <2>1, <2>2 DEF TooManyNoted
  <1>. QED
    BY <1>3, <1>4, <1>5, <1>6, <1>7, <1>8, EntriesKept DEF Next

\* A question whose answer is refused has an error after the click.
LEMMA ClickNotes ==
    ASSUME ErrorsInv, TooManyNoted, NEW q \in DOMAIN form,
           ~ answerIsValid(form[q], answers[q])
    PROVE  clickError(form[q], answers[q], errors[q]) # ""
  <1>1. form[q].Type \in {"select", "rank", "text"} /\ form[q].MinN \in Nat /\ form[q].MaxN \in Nat
        /\ Len(form[q].Choices) \in Nat /\ FitsQuestion(form[q], answers[q])
    BY FormsAssumption DEF ErrorsInv, Fitting
  <1>. DEFINE n == numAnswer(form[q], answers[q])
  <1>2. CASE form[q].Type = "select"
    <2>1. n < form[q].MinN \/ n > form[q].MaxN
      BY <1>2 DEF answerIsValid, selectTooFew, selectTooMany
    <2>2. clickError(form[q], answers[q], errors[q]) =
              IF n < form[q].MinN THEN "min" ELSE errors[q]
      BY <1>2 DEF clickError
    <2>. QED BY <1>2, <2>1, <2>2 DEF TooManyNoted
  <1>3. CASE form[q].Type = "rank"
    BY <1>3 DEF answerIsValid
  <1>4. CASE form[q].Type = "text"
    <2>1. n \in Nat
      BY <1>1, <1>4, CountIsNat
    <2>. HIDE DEF n
    <2>2. n >= form[q].MinN \/ n < form[q].MinN
      BY <1>1, <2>1
    <2>3. \/ n < form[q].MinN
          \/ textTooLong(form[q], answers[q]) \/ textRefused(form[q], answers[q])
      BY <1>4, <2>2 DEF answerIsValid, n
    <2>4. fieldError(form[q], answers[q]) \in {"regexp", "chars"}
      BY DEF fieldError
    <2>5. clickError(form[q], answers[q], errors[q]) \in
              {"min", fieldError(form[q], answers[q])}
      BY <1>4, <2>3 DEF clickError, n
    <2>. QED BY <2>4, <2>5
  <1>. QED
    BY <1>1, <1>2, <1>3, <1>4

\* After a click that is refused, the questions that need another answer are
\* those at which an error is shown (ballotIsValid of ValidateAnswers.ts, the
\* handlers of the components).
THEOREM RefusalsExplained == Spec => RefusalIsExplained
  <1>1. Init => ErrorsInv /\ TooManyNoted
    <2>. SUFFICES ASSUME Init PROVE ErrorsInv /\ TooManyNoted
      OBVIOUS
    <2>1. Fitting /\ form \in Forms
      BY InvInit DEF Inv, Init
    <2>2. errors = [q \in DOMAIN form |-> ""] /\ answers = noAnswer(form)
      BY DEF Init, noErrors
    <2>. QED BY <2>1, <2>2, NothingSelected DEF ErrorsInv, ErrorsAreCurrent, Asked, TooManyNoted
  <1>2. (ErrorsInv /\ TooManyNoted) /\ [Next]_vars => (ErrorsInv /\ TooManyNoted)'
    BY ErrorsNext, NotedNext
  <1>3. (ErrorsInv /\ TooManyNoted) /\ (ErrorsInv /\ TooManyNoted)' /\ [Next]_vars =>
            [handleClick /\ ~ ballotIsValid =>
                \A q \in Asked : errors'[q] # "" <=> ~ answerIsValid(form[q], answers[q])]_vars
    <2>. SUFFICES ASSUME ErrorsInv, TooManyNoted, ErrorsInv', handleClick, NEW q \in Asked
                  PROVE  errors'[q] # "" <=> ~ answerIsValid(form[q], answers[q])
      OBVIOUS
    <2>1. /\ form' = form /\ answers' = answers
          /\ errors' = [p \in DOMAIN form |-> clickError(form[p], answers[p], errors[p])]
      BY DEF handleClick, Asked
    <2>2. errors'[q] # "" => ~ answerIsValid(form[q], answers[q])
      BY <2>1 DEF ErrorsInv, ErrorsAreCurrent, Asked
    <2>3. ~ answerIsValid(form[q], answers[q]) => errors'[q] # ""
      BY <2>1, ClickNotes DEF Asked
    <2>. QED BY <2>2, <2>3
  <1>. QED BY <1>1, <1>2, <1>3, PTL DEF Spec, RefusalIsExplained

-----------------------------------------------------------------------------
(***************************************************************************)
(* The vote that counts. Requests are on their way together when a voter   *)
(* leaves before the answer, or votes again after a fetch that failed. One *)
(* of which the voter was told that it succeeded is in the pool before a   *)
(* later one is sent.                                                      *)
(***************************************************************************)

Told(k) == requests[k].told = "voteSuccess"

\* No ballot sent after the k-th was counted.
NoneLater(k) == \A j \in DOMAIN requests : requests[j].fate = "counted" => j <= k

RequestsKnown ==
    /\ \E B : requests \in Seq(Request(B))
    /\ cast \in 0 .. Len(requests)
    /\ \A k \in DOMAIN requests : Told(k) => requests[k].at # "sent"

\* A vote in the pool of which the voter was told is before all later ones, of
\* which none has been counted.
PoolOrdered ==
    /\ pool \in Seq(Nat)
    /\ \A i \in 1 .. Len(pool) : pool[i] \in DOMAIN requests
    /\ \A i, j \in 1 .. Len(pool) : Told(pool[i]) /\ pool[i] < pool[j] => i < j
    /\ \A i \in 1 .. Len(pool) : Told(pool[i]) => NoneLater(pool[i])

VotesInv == RequestsKnown /\ PoolOrdered /\ LastVoteCounts

\* What a step leaves of the list of requests s when it changes the k-th.
Advanced(t, s, k, at, told, fate) ==
    /\ \E B : t \in Seq(Request(B))
    /\ Len(t) = Len(s) /\ DOMAIN t = DOMAIN s
    /\ \A j \in DOMAIN s : /\ t[j].at = IF j = k THEN at ELSE s[j].at
                           /\ t[j].told = IF j = k THEN told ELSE s[j].told
                           /\ t[j].fate = IF j = k THEN fate ELSE s[j].fate

\* A list in which one request is replaced.
LEMMA Replaced ==
    ASSUME NEW B, NEW s \in Seq(Request(B)), NEW k \in DOMAIN s, NEW r \in Request(B), NEW t,
           t = [s EXCEPT ![k] = r]
    PROVE  Advanced(t, s, k, r.at, r.told, r.fate)
  <1>1. DOMAIN s = 1 .. Len(s)
    BY LenProperties
  <1>2. t \in Seq(Request(B)) /\ Len(t) = Len(s)
    BY <1>1, ExceptSeq
  <1>3. \A j \in DOMAIN s : t[j] = IF j = k THEN r ELSE s[j]
    OBVIOUS
  <1>. QED BY <1>2, <1>3 DEF Advanced

\* The steps of a request set one field of it and leave the others.
LEMMA RequestAdvances ==
    ASSUME NEW A, NEW s \in Seq(Request(A)), NEW k \in DOMAIN s, NEW v, NEW t
    PROVE  /\ t = [s EXCEPT ![k].at = v] => Advanced(t, s, k, v, s[k].told, s[k].fate)
           /\ t = [s EXCEPT ![k].told = v] => Advanced(t, s, k, s[k].at, v, s[k].fate)
           /\ t = [s EXCEPT ![k].fate = v] => Advanced(t, s, k, s[k].at, s[k].told, v)
  <1>. DEFINE B == A \cup {v}
  <1>1. s \in Seq(Request(B)) /\ v \in B
    <2>1. Request(A) \subseteq Request(B)
      BY DEF Request
    <2>2. s \in Seq(Request(B))
      BY ONLY s \in Seq(Request(A)), <2>1, SeqMonotonic
    <2>. QED BY <2>2
  <1>. HIDE DEF B
  <1>2. s[k] \in Request(B)
    BY <1>1, LenProperties, ElementOfSeq
  <1>3. ASSUME t = [s EXCEPT ![k].at = v] PROVE Advanced(t, s, k, v, s[k].told, s[k].fate)
    <2>. DEFINE r == [s[k] EXCEPT !.at = v]
    <2>1. t = [s EXCEPT ![k] = r]
      BY <1>3
    <2>2. r \in Request(B) /\ r.at = v /\ r.told = s[k].told /\ r.fate = s[k].fate
      BY <1>1, <1>2 DEF Request
    <2>. HIDE DEF r
    <2>3. Advanced(t, s, k, r.at, r.told, r.fate)
      BY <1>1, <2>1, <2>2, Replaced
    <2>. QED BY <2>2, <2>3
  <1>4. ASSUME t = [s EXCEPT ![k].told = v] PROVE Advanced(t, s, k, s[k].at, v, s[k].fate)
    <2>. DEFINE r == [s[k] EXCEPT !.told = v]
    <2>1. t = [s EXCEPT ![k] = r]
      BY <1>4
    <2>2. r \in Request(B) /\ r.at = s[k].at /\ r.told = v /\ r.fate = s[k].fate
      BY <1>1, <1>2 DEF Request
    <2>. HIDE DEF r
    <2>3. Advanced(t, s, k, r.at, r.told, r.fate)
      BY <1>1, <2>1, <2>2, Replaced
    <2>. QED BY <2>2, <2>3
  <1>5. ASSUME t = [s EXCEPT ![k].fate = v] PROVE Advanced(t, s, k, s[k].at, s[k].told, v)
    <2>. DEFINE r == [s[k] EXCEPT !.fate = v]
    <2>1. t = [s EXCEPT ![k] = r]
      BY <1>5
    <2>2. r \in Request(B) /\ r.at = s[k].at /\ r.told = s[k].told /\ r.fate = v
      BY <1>1, <1>2 DEF Request
    <2>. HIDE DEF r
    <2>3. Advanced(t, s, k, r.at, r.told, r.fate)
      BY <1>1, <2>1, <2>2, Replaced
    <2>. QED BY <2>2, <2>3
  <1>. QED BY <1>3, <1>4, <1>5

\* A request that is posted.
LEMMA RequestPosted ==
    ASSUME NEW B, requests \in Seq(Request(B)), handleClick, requests' # requests
    PROVE  /\ \E C : requests' \in Seq(Request(C))
           /\ Len(requests') = Len(requests) + 1 /\ DOMAIN requests' = 1 .. (Len(requests) + 1)
           /\ \A k \in DOMAIN requests : requests'[k] = requests[k]
           /\ requests'[Len(requests) + 1].told = "nothing"
           /\ requests'[Len(requests) + 1].fate = "none"
  <1>. DEFINE r == [ballot |-> encodeBallot(form, answers), shown |-> answers,
                    at |-> "sent", told |-> "nothing", fate |-> "none"]
  <1>1. requests' = Append(requests, r)
    BY DEF handleClick, sendBallot
  <1>. DEFINE C == B \cup {encodeBallot(form, answers), answers, "sent", "nothing", "none"}
  <1>2. requests \in Seq(Request(C))
    <2>1. Request(B) \subseteq Request(C)
      BY DEF Request
    <2>. QED BY ONLY requests \in Seq(Request(B)), <2>1, SeqMonotonic
  <1>3. r \in Request(C) /\ r.told = "nothing" /\ r.fate = "none"
    <2>1. /\ encodeBallot(form, answers) \in C /\ answers \in C
          /\ "sent" \in C /\ "nothing" \in C /\ "none" \in C
      OBVIOUS
    <2>. HIDE DEF C
    <2>. QED BY ONLY <2>1 DEF Request
  <1>. HIDE DEF r, C
  <1>4. /\ requests' \in Seq(Request(C)) /\ Len(requests') = Len(requests) + 1
        /\ \A k \in 1 .. Len(requests) : requests'[k] = requests[k]
        /\ requests'[Len(requests) + 1] = r
    BY ONLY <1>1, <1>2, <1>3, AppendProperties
  <1>5. DOMAIN requests = 1 .. Len(requests) /\ DOMAIN requests' = 1 .. (Len(requests) + 1)
    BY ONLY <1>2, <1>4, LenProperties
  <1>. QED BY <1>3, <1>4, <1>5

\* Every step keeps the order of the votes of which the voter was told.
LEMMA VotesNext ==
    ASSUME VotesInv, [Next]_vars
    PROVE  VotesInv'
  <1>0. PICK B : requests \in Seq(Request(B))
    BY DEF VotesInv, RequestsKnown
  <1>1. Len(requests) \in Nat /\ DOMAIN requests = 1 .. Len(requests) /\ cast \in 0 .. Len(requests)
    BY <1>0, LenProperties DEF VotesInv, RequestsKnown
  <1>2. CASE requests' = requests /\ pool' = pool /\ cast' = cast
    BY <1>2 DEF VotesInv, RequestsKnown, PoolOrdered, LastVoteCounts, Told, NoneLater
  <1>3. CASE handleClick /\ requests' # requests
    <2>. DEFINE n == Len(requests)
    <2>1. pool' = pool /\ cast' = cast
      BY <1>3 DEF handleClick
    <2>2. /\ \E C : requests' \in Seq(Request(C))
          /\ Len(requests') = n + 1 /\ DOMAIN requests' = 1 .. (n + 1)
          /\ \A k \in DOMAIN requests : requests'[k] = requests[k]
          /\ requests'[n + 1].told = "nothing" /\ requests'[n + 1].fate = "none"
      BY <1>0, <1>3, RequestPosted
    <2>3. n \in Nat /\ DOMAIN requests = 1 .. n /\ cast \in 0 .. n
      BY <1>1
    <2>. HIDE DEF n
    <2>4. \A k \in DOMAIN requests : (Told(k)' <=> Told(k)) /\ (NoneLater(k) => NoneLater(k)')
      BY <2>2, <2>3 DEF Told, NoneLater
    <2>5. RequestsKnown'
      BY <2>1, <2>2, <2>3 DEF VotesInv, RequestsKnown, Told
    <2>6. PoolOrdered'
      <3>1. \A i \in 1 .. Len(pool) : pool[i] \in DOMAIN requests /\ pool[i] \in DOMAIN requests'
        BY <2>2, <2>3 DEF VotesInv, PoolOrdered
      <3>. QED BY <2>1, <2>4, <3>1 DEF VotesInv, PoolOrdered
    <2>7. LastVoteCounts'
      BY <2>1, <2>2, <2>3 DEF VotesInv, LastVoteCounts
    <2>. QED BY <2>5, <2>6, <2>7 DEF VotesInv
  <1>4. ASSUME NEW k \in DOMAIN requests, requests[k].told = "nothing", NEW text,
               text = "voteSuccess" => requests[k].at # "sent",
               Says(k, text), pool' = pool, cast' = cast
        PROVE  VotesInv'
    <2>1. PICK v : /\ Advanced(requests', requests, k, requests[k].at, v, requests[k].fate)
                   /\ v = "voteSuccess" => k = Len(requests) /\ requests[k].at # "sent"
      <3>1. CASE requests' = [requests EXCEPT ![k].told = text] /\ k = Len(requests)
        BY <1>0, <1>4, <3>1, RequestAdvances
      <3>2. CASE requests' = [requests EXCEPT ![k].told = "unheard"]
        <4>1. Advanced(requests', requests, k, requests[k].at, "unheard", requests[k].fate)
          BY <1>0, <3>2, RequestAdvances
        <4>. QED BY <4>1
      <3>. QED BY <1>4, <3>1, <3>2 DEF Says
    <2>2. \A j \in DOMAIN requests : /\ Told(j)' => Told(j) \/ (j = k /\ v = "voteSuccess")
                                     /\ NoneLater(j) => NoneLater(j)'
      BY <2>1 DEF Advanced, Told, NoneLater
    <2>3. v = "voteSuccess" => /\ k = Len(requests) /\ NoneLater(k)'
                               /\ \A j \in DOMAIN requests : j <= k
      BY <1>1, <2>1 DEF Advanced, NoneLater
    <2>4. RequestsKnown'
      BY <1>4, <2>1, <2>2 DEF Advanced, VotesInv, RequestsKnown, Told
    <2>5. PoolOrdered'
      <3>1. pool \in Seq(Nat) /\ \A i \in 1 .. Len(pool) : pool[i] \in DOMAIN requests
        BY DEF VotesInv, PoolOrdered
      <3>2. DOMAIN requests' = DOMAIN requests
        BY <2>1 DEF Advanced
      <3>3. ASSUME NEW i \in 1 .. Len(pool), NEW j \in 1 .. Len(pool), Told(pool[i])',
                   pool[i] < pool[j]
            PROVE  i < j
        <4>1. CASE Told(pool[i])
          BY <1>4, <3>3, <4>1 DEF VotesInv, PoolOrdered
        <4>2. CASE pool[i] = k /\ v = "voteSuccess"
          BY <1>1, <2>3, <3>1, <3>3, <4>2
        <4>. QED BY <1>4, <2>1, <3>1, <3>3, <4>1, <4>2 DEF Advanced, Told
      <3>4. ASSUME NEW i \in 1 .. Len(pool), Told(pool[i])'
            PROVE  NoneLater(pool[i])'
        <4>1. CASE Told(pool[i])
          <5>1. pool[i] \in DOMAIN requests /\ NoneLater(pool[i])
            BY <3>1, <4>1 DEF VotesInv, PoolOrdered
          <5>. QED BY <1>4, <2>1, <5>1 DEF Advanced, NoneLater
        <4>2. CASE pool[i] = k /\ v = "voteSuccess"
          BY <1>4, <2>1, <2>3, <4>2 DEF Advanced, NoneLater
        <4>. QED BY <1>4, <2>1, <3>1, <3>4, <4>1, <4>2 DEF Advanced, Told
      <3>. QED BY <1>4, <3>1, <3>2, <3>3, <3>4 DEF PoolOrdered
    <2>6. LastVoteCounts'
      <3>. SUFFICES ASSUME cast # 0, requests'[cast].told = "voteSuccess",
                           NEW j \in DOMAIN requests, requests'[j].fate = "counted"
                    PROVE  j <= cast
        BY <1>4, <2>1 DEF LastVoteCounts, Advanced
      <3>1. cast \in DOMAIN requests /\ requests[j].fate = "counted"
        BY <1>1, <2>1 DEF Advanced
      <3>2. CASE Told(cast)
        BY <3>1, <3>2 DEF VotesInv, LastVoteCounts, Told
      <3>3. CASE cast = k /\ v = "voteSuccess"
        BY <2>3, <3>3
      <3>. QED BY <2>2, <3>1, <3>2, <3>3 DEF Told
    <2>. QED BY <2>4, <2>5, <2>6 DEF VotesInv
  <1>5. ASSUME NEW k \in DOMAIN requests, NEW outcome \in {"pooled", "refused"}, Arrive(k, outcome)
        PROVE  VotesInv'
    <2>1. /\ requests[k].at = "sent" /\ cast' = cast
          /\ pool' = IF outcome = "pooled" THEN Append(pool, k) ELSE pool
      BY <1>5 DEF Arrive
    <2>2. Advanced(requests', requests, k, outcome, requests[k].told, requests[k].fate)
      BY <1>0, <1>5, RequestAdvances DEF Arrive
    <2>3. \A j \in DOMAIN requests : (Told(j)' <=> Told(j)) /\ (NoneLater(j)' <=> NoneLater(j))
      BY <2>2 DEF Advanced, Told, NoneLater
    <2>4. ~ Told(k)
      BY <2>1 DEF VotesInv, RequestsKnown
    <2>5. RequestsKnown'
      BY <2>1, <2>2 DEF Advanced, VotesInv, RequestsKnown, Told
    <2>6. LastVoteCounts'
      BY <1>1, <2>1, <2>2 DEF Advanced, VotesInv, LastVoteCounts
    <2>7. /\ pool \in Seq(Nat) /\ Len(pool) \in Nat
          /\ \A i \in 1 .. Len(pool) : pool[i] \in DOMAIN requests
      BY LenProperties DEF VotesInv, PoolOrdered
    <2>8. DOMAIN requests' = DOMAIN requests
      BY <2>2 DEF Advanced
    <2>9. CASE outcome = "refused"
      <3>1. pool' = pool
        BY <2>1, <2>9
      <3>2. PoolOrdered'
        BY <2>3, <2>7, <2>8, <3>1 DEF VotesInv, PoolOrdered
      <3>. QED BY <2>5, <2>6, <3>2 DEF VotesInv
    <2>10. CASE outcome = "pooled"
      <3>0. k \in Nat
        BY <1>1
      <3>1. /\ pool' \in Seq(Nat) /\ Len(pool') = Len(pool) + 1
            /\ \A i \in 1 .. Len(pool) : pool'[i] = pool[i]
            /\ pool'[Len(pool) + 1] = k
        BY <2>1, <2>7, <2>10, <3>0, AppendProperties
      <3>2. ASSUME NEW i \in 1 .. Len(pool')
            PROVE  \/ i \in 1 .. Len(pool) /\ pool'[i] = pool[i]
                   \/ i = Len(pool) + 1 /\ pool'[i] = k
        <4>1. i \in 1 .. Len(pool) \/ i = Len(pool) + 1
          BY <2>7, <3>1
        <4>. QED BY <3>1, <4>1
      <3>3. \A i \in 1 .. Len(pool') : pool'[i] \in DOMAIN requests
        BY <2>7, <3>2
      <3>4. ASSUME NEW i \in 1 .. Len(pool'), Told(pool'[i])
            PROVE  i \in 1 .. Len(pool) /\ pool'[i] = pool[i] /\ Told(pool[i])
        BY <2>4, <3>2, <3>4 DEF Told
      <3>5. ASSUME NEW i \in 1 .. Len(pool'), NEW j \in 1 .. Len(pool'), Told(pool'[i]),
                   pool'[i] < pool'[j]
            PROVE  i < j
        <4>1. i \in 1 .. Len(pool) /\ pool'[i] = pool[i] /\ Told(pool[i])
          BY <3>4, <3>5
        <4>2. CASE j \in 1 .. Len(pool) /\ pool'[j] = pool[j]
          BY <3>5, <4>1, <4>2 DEF VotesInv, PoolOrdered
        <4>3. CASE j = Len(pool) + 1
          BY <2>7, <4>1, <4>3
        <4>. QED BY <3>2, <4>2, <4>3
      <3>6. ASSUME NEW i \in 1 .. Len(pool'), Told(pool'[i]) PROVE NoneLater(pool'[i])
        <4>1. i \in 1 .. Len(pool) /\ pool'[i] = pool[i] /\ Told(pool[i])
          BY <3>4, <3>6
        <4>2. NoneLater(pool[i])
          BY <4>1 DEF VotesInv, PoolOrdered
        <4>. QED BY <4>1, <4>2
      <3>7. \A i \in 1 .. Len(pool') : /\ (requests'[pool'[i]].told = "voteSuccess") => Told(pool'[i])
                                       /\ NoneLater(pool'[i]) =>
                                            \A j \in DOMAIN requests' :
                                                requests'[j].fate = "counted" => j <= pool'[i]
        BY <2>2, <3>3 DEF Advanced, Told, NoneLater
      <3>8. PoolOrdered'
        BY <2>8, <3>1, <3>3, <3>5, <3>6, <3>7 DEF PoolOrdered, Told, NoneLater
      <3>. QED BY <2>5, <2>6, <3>8 DEF VotesInv
    <2>. QED BY <2>9, <2>10
  <1>6. CASE Execute
    <2>. DEFINE k == pool[1]
    <2>1. pool # <<>> /\ pool' = Tail(pool) /\ pool \in Seq(Nat)
      BY <1>6 DEF Execute, VotesInv, PoolOrdered
    <2>2. /\ Head(pool) = k /\ Len(pool) \in Nat /\ Len(pool) > 0
          /\ pool' \in Seq(Nat) /\ Len(pool') = Len(pool) - 1
          /\ \A i \in 1 .. Len(pool') : pool'[i] = pool[i + 1]
      BY <2>1, HeadTailProperties, EmptySeq, LenProperties
    <2>3. 1 \in 1 .. Len(pool) /\ \A i \in 1 .. Len(pool') : i + 1 \in 1 .. Len(pool) /\ ~(i + 1 < 1)
      BY <2>2
    <2>4. k \in DOMAIN requests /\ (Told(k) => NoneLater(k))
      BY <2>3 DEF VotesInv, PoolOrdered
    <2>5. \/ cast' = k /\ requests' = [requests EXCEPT ![k].fate = "counted"]
          \/ cast' = cast /\ requests' = [requests EXCEPT ![k].fate = "refused"]
      BY <1>6, <2>2 DEF Execute, replaces
    <2>6. ASSUME NEW i \in 1 .. Len(pool')
          PROVE  /\ pool'[i] \in DOMAIN requests
                 /\ Told(pool'[i]) => NoneLater(pool'[i]) /\ k <= pool'[i]
      <3>1. i + 1 \in 1 .. Len(pool) /\ pool'[i] = pool[i + 1] /\ ~(i + 1 < 1)
        BY <2>2, <2>3
      <3>2. pool[i + 1] \in DOMAIN requests /\ (Told(pool[i + 1]) => NoneLater(pool[i + 1]))
        BY <3>1 DEF VotesInv, PoolOrdered
      <3>3. Told(pool[i + 1]) => ~(pool[i + 1] < pool[1])
        BY <2>3, <3>1 DEF VotesInv, PoolOrdered
      <3>. QED BY <1>1, <2>4, <3>1, <3>2, <3>3
    <2>7. ASSUME NEW i \in 1 .. Len(pool'), NEW j \in 1 .. Len(pool'), Told(pool'[i]),
                 pool'[i] < pool'[j]
          PROVE  i < j
      <3>1. /\ i + 1 \in 1 .. Len(pool) /\ pool'[i] = pool[i + 1]
            /\ j + 1 \in 1 .. Len(pool) /\ pool'[j] = pool[j + 1]
        BY <2>2, <2>3
      <3>2. i + 1 < j + 1
        BY <2>7, <3>1 DEF VotesInv, PoolOrdered
      <3>. QED BY <3>2
    <2>. HIDE DEF k
    <2>8. PICK v \in {"counted", "refused"} :
              /\ Advanced(requests', requests, k, requests[k].at, requests[k].told, v)
              /\ cast' = IF v = "counted" THEN k ELSE cast
      BY <1>0, <2>4, <2>5, RequestAdvances
    <2>9. \A j \in DOMAIN requests : /\ Told(j)' <=> Told(j)
                                     /\ NoneLater(j) /\ (v = "counted" => k <= j) => NoneLater(j)'
      BY <2>8 DEF Advanced, Told, NoneLater
    <2>10. RequestsKnown'
      BY <1>1, <2>4, <2>8 DEF Advanced, VotesInv, RequestsKnown, Told
    <2>11. PoolOrdered'
      <3>1. \A i \in 1 .. Len(pool') : /\ (requests'[pool'[i]].told = "voteSuccess") => Told(pool'[i])
                                       /\ NoneLater(pool'[i]) /\ k <= pool'[i] =>
                                            \A j \in DOMAIN requests' :
                                                requests'[j].fate = "counted" => j <= pool'[i]
        BY <2>6, <2>8 DEF Advanced, Told, NoneLater
      <3>2. DOMAIN requests' = DOMAIN requests
        BY <2>8 DEF Advanced
      <3>. QED BY <2>2, <2>6, <2>7, <3>1, <3>2 DEF PoolOrdered, Told, NoneLater
    <2>12. LastVoteCounts'
      <3>1. CASE v = "refused"
        BY <1>1, <2>8, <3>1 DEF Advanced, VotesInv, LastVoteCounts
      <3>2. CASE v = "counted"
        <4>. SUFFICES ASSUME requests'[k].told = "voteSuccess",
                             NEW j \in DOMAIN requests, requests'[j].fate = "counted"
                      PROVE  j <= k
          BY <2>8, <3>2 DEF LastVoteCounts, Advanced
        <4>1. Told(k) /\ (j = k \/ requests[j].fate = "counted")
          BY <2>4, <2>8 DEF Advanced, Told
        <4>. QED BY <1>1, <2>4, <4>1 DEF NoneLater
      <3>. QED BY <3>1, <3>2
    <2>. QED BY <2>10, <2>11, <2>12 DEF VotesInv
  <1>7. ASSUME NEW k \in DOMAIN requests, AnsweredError(k) \/ AnsweredOK(k) PROVE VotesInv'
    <2>1. CASE AnsweredError(k)
      <3>1. PICK text \in {"voteFailure", "errorServerDown"} : Says(k, text)
        BY <2>1 DEF AnsweredError
      <3>2. text # "voteSuccess"
        OBVIOUS
      <3>. QED BY <1>4, <2>1, <3>1, <3>2 DEF AnsweredError
    <2>2. CASE AnsweredOK(k)
      BY <1>4, <2>2 DEF AnsweredOK
    <2>. QED BY <1>7, <2>1, <2>2
  <1>8. handleClick => pool' = pool /\ cast' = cast
    BY DEF handleClick
  <1>9. \/ Visit \/ Leave \/ closeForm \/ UNCHANGED vars
        \/ \E lg \in Languages : changeLanguage(lg)
        \/ \E q \in Of("select") : \E i \in Places(form[q]) : handleChecks(q, i)
        \/ \E source, q \in Of("rank") :
              \E from \in DOMAIN answers[source], to \in 1 .. (Len(answers[q]) + 1) :
                 handleOnDragEnd(from, q, to)
        \/ \E q \in Of("text") : \E i \in Places(form[q]), t \in Inputs : handleTextInput(q, i, t)
        => requests' = requests /\ pool' = pool /\ cast' = cast
    BY DEF vars, Visit, Leave, closeForm, changeLanguage, handleChecks, handleOnDragEnd,
           handleTextInput, Untouched
  <1>. QED
    BY <1>2, <1>3, <1>5, <1>6, <1>7, <1>8, <1>9 DEF Next

\* With any number of votes on their way together, and fetches that fail wherever
\* their request is: a vote that was reported as successful never takes the place
\* of a later one (NewFormVote answers when the transaction is in the pool,
\* Show.tsx shows the answer to the last request only, castVote of evoting.go
\* replaces the ballot).
THEOREM LastVoteHolds == Spec => []LastVoteCounts
  <1>1. Init => VotesInv
    <2>. SUFFICES ASSUME Init PROVE VotesInv
      OBVIOUS
    <2>1. requests = <<>> /\ pool = <<>> /\ cast = 0
      BY DEF Init
    <2>2. requests \in Seq(Request({})) /\ Len(requests) = 0 /\ DOMAIN requests = {}
          /\ pool \in Seq(Nat) /\ Len(pool) = 0
      BY <2>1
    <2>. QED BY <2>1, <2>2 DEF VotesInv, RequestsKnown, PoolOrdered, LastVoteCounts
  <1>2. VotesInv /\ [Next]_vars => VotesInv'
    BY VotesNext
  <1>3. VotesInv => LastVoteCounts
    BY DEF VotesInv
  <1>. QED BY <1>1, <1>2, <1>3, PTL DEF Spec

-----------------------------------------------------------------------------
(* The size of a ballot *)

\* A ballot asks something: there is nothing to send otherwise.
FormsAsk == \A f \in Forms : f # <<>>

\* A text has three bytes for each of its units, at most.
IsText(t) == t.units \in Nat /\ t.bytes \in Nat /\ t.bytes <= 3 * t.units

TextsInv ==
    \A q \in DOMAIN form : form[q].Type = "text" => \A i \in DOMAIN answers[q] : IsText(answers[q][i])

\* A line with an answer that the page accepts is no longer than what is reserved
\* for its question.
LEMMA LineFits ==
    ASSUME NEW q, NEW a, q.Type \in {"select", "rank", "text"},
           Len(q.Choices) \in Nat, q.MaxLength \in Nat, q.MaxN \in Nat, schema(q),
           q.Type = "rank" => Len(q.Choices) <= MaxInt8 + 1,
           FitsQuestion(q, a), answerIsValid(q, a),
           q.Type = "text" => \A i \in DOMAIN a : IsText(a[i])
    PROVE  /\ lineSize(q, encodeLine(q, a)) \in Nat /\ reserved(q) \in Nat
           /\ lineSize(q, encodeLine(q, a)) <= reserved(q)
  <1>. DEFINE n == Len(q.Choices)
              e == encodeLine(q, a).entries
              sizes == [i \in DOMAIN e |-> entrySize(q, e[i]) + 1]
  <1>1. q.Type # "rank" => DOMAIN a = 1 .. n
    BY DEF FitsQuestion
  <1>2. e = encoded(q, a) /\ DOMAIN e = 1 .. n
    <2>1. e = encoded(q, a)
      BY DEF encodeLine
    <2>2. CASE q.Type # "rank"
      BY <1>1, <2>1, <2>2 DEF encoded
    <2>3. CASE q.Type = "rank"
      <3>1. e = rankPositions(a) /\ ListsAll(a, 1 .. n) /\ n \in Nat
        BY <2>1, <2>3 DEF encoded, FitsQuestion
      <3>. HIDE DEF e, n
      <3>. QED BY <2>1, <3>1, PlacesOfChoices DEF e
    <2>. QED BY <2>2, <2>3
  <1>3. lineSize(q, encodeLine(q, a)) = nameSize(q) + 2 + idSize + Total(sizes)
    <2>1. SumFunction(sizes) = Total(sizes)
      BY SumTotal
    <2>. QED BY <2>1 DEF lineSize
  <1>4. nameSize(q) \in Nat /\ idSize \in Nat
    BY DEF nameSize, idSize, base64Size
  <1>5. PICK k \in Nat : /\ \A i \in 1 .. n : sizes[i] \in Nat /\ sizes[i] <= k
                         /\ reserved(q) = nameSize(q) + idSize + 2 + k * n
    <2>1. CASE q.Type = "select"
      <3>1. \A i \in 1 .. n : sizes[i] = 2
        BY <1>2, <2>1 DEF entrySize
      <3>2. reserved(q) = nameSize(q) + idSize + 2 + 2 * n
        BY <2>1 DEF reserved
      <3>. HIDE DEF sizes
      <3>. QED BY <3>1, <3>2
    <2>2. CASE q.Type = "rank"
      <3>1. \A i \in 1 .. n : sizes[i] \in {2, 3, 4}
        BY <1>2, <2>2 DEF entrySize, Digits
      <3>2. reserved(q) = nameSize(q) + idSize + 2 + 4 * n
        BY <2>2 DEF reserved
      <3>3. \A i \in 1 .. n : sizes[i] \in Nat /\ sizes[i] <= 4
        <4>. HIDE DEF sizes
        <4>. QED BY <3>1
      <3>. HIDE DEF sizes
      <3>. QED BY <3>2, <3>3
    <2>3. CASE q.Type = "text"
      <3>. DEFINE L == q.MaxLength
      <3>1. ASSUME NEW i \in 1 .. n PROVE sizes[i] \in Nat /\ sizes[i] <= 4 * L + 1
        <4>1. IsText(a[i]) /\ a[i].units <= L
          BY <1>1, <2>3 DEF answerIsValid, textTooLong, IsText
        <4>2. sizes[i] = base64Size(a[i].bytes) + 1
          BY <1>1, <1>2, <2>3 DEF entrySize, encoded
        <4>. DEFINE b == a[i].bytes
        <4>3. b \in Nat /\ b <= 3 * L
          BY <4>1 DEF IsText
        <4>4. sizes[i] = 4 * ((b + 2) \div 3) + 1
          BY <4>2 DEF base64Size
        <4>. HIDE DEF b, L, sizes
        <4>5. L \in Nat
          BY DEF L
        <4>6. (b + 2) \div 3 \in Nat /\ (b + 2) \div 3 <= L
          BY <4>3, <4>5
        <4>. QED BY <4>4, <4>5, <4>6
      <3>2. q.MaxN = n
        BY <2>3 DEF schema, textsSchema
      <3>3. Max({n - n, 0}) = 0
        BY DEF Max
      <3>4. reserved(q) = nameSize(q) + idSize + 2 + (4 * L + 1) * n
        BY <1>4, <2>3, <3>2, <3>3 DEF reserved
      <3>5. 4 * L + 1 \in Nat
        OBVIOUS
      <3>. HIDE DEF sizes, L
      <3>. QED BY <3>1, <3>4, <3>5
    <2>. QED BY <2>1, <2>2, <2>3
  <1>6. Total(sizes) \in Nat /\ Total(sizes) <= n * k
    <2>1. sizes \in [1 .. n -> Nat]
      BY <1>2, <1>5
    <2>2. n \in Nat
      OBVIOUS
    <2>. HIDE DEF sizes, n
    <2>. QED BY <1>5, <2>1, <2>2, TotalBounded
  <1>7. n * k = k * n /\ k * n \in Nat
    OBVIOUS
  <1>. HIDE DEF sizes, n
  <1>. QED BY <1>3, <1>4, <1>5, <1>6, <1>7

\* A ballot that the page accepts fits the chunks that the nodes reserve.
LEMMA BallotFits ==
    ASSUME ShortRanks, FormsAsk, NEW f \in Forms, NEW a,
           \A q \in DOMAIN f : /\ FitsQuestion(f[q], a[q]) /\ answerIsValid(f[q], a[q])
                               /\ f[q].Type = "text" => \A i \in DOMAIN a[q] : IsText(a[q][i])
    PROVE  ~ Throws(f, a)
  <1>. DEFINE lines == encodeBallot(f, a)
              have == [q \in DOMAIN f |-> lineSize(f[q], lines[q])]
              room == [q \in DOMAIN f |-> reserved(f[q])]
  <1>1. ASSUME NEW q \in DOMAIN f
        PROVE  have[q] \in Nat /\ room[q] \in Nat /\ have[q] <= room[q]
    <2>1. have[q] = lineSize(f[q], encodeLine(f[q], a[q])) /\ room[q] = reserved(f[q])
      BY DEF encodeBallot
    <2>. HIDE DEF have, room
    <2>2. /\ f[q].Type \in {"select", "rank", "text"}
          /\ Len(f[q].Choices) \in Nat /\ f[q].MaxN \in Nat /\ schema(f[q])
      BY FormsAssumption
    <2>3. f[q].MaxLength \in Nat
      BY TextAssumption
    <2>4. f[q].Type = "rank" => Len(f[q].Choices) <= MaxInt8 + 1
      BY DEF ShortRanks
    <2>. QED BY <2>1, <2>2, <2>3, <2>4, LineFits
  <1>2. IsFiniteSet(DOMAIN f)
    BY TextAssumption, FS_Interval
  <1>3. have \in [DOMAIN f -> Nat] /\ room \in [DOMAIN f -> Nat]
    BY <1>1
  <1>4. MaxBallotSize(f) = 1 + Total(room) /\ encodedSize(f, lines) = 1 + Total(have)
    <2>1. SumFunction(have) = Total(have) /\ SumFunction(room) = Total(room)
      BY SumTotal
    <2>. QED BY <2>1 DEF MaxBallotSize, encodedSize, FormsAsk
  <1>. HIDE DEF have, room, lines
  <1>5. Total(have) \in Nat /\ Total(room) \in Nat /\ Total(have) <= Total(room)
    BY <1>1, <1>2, <1>3, TotalCopies, TotalMonotone
  <1>6. ASSUME NEW m \in Nat PROVE m <= chunkSize * ChunksPerBallot(m)
    BY DEF chunkSize, ChunksPerBallot
  <1>7. 1 + Total(room) <= chunkSize * ChunksPerBallot(1 + Total(room))
    BY <1>5, <1>6
  <1>. QED BY <1>4, <1>5, <1>7 DEF Throws, fits, lines

\* The page opens without a text.
LEMMA NoTextsAtFirst ==
    ASSUME NEW f \in Forms, NEW q \in DOMAIN f, f[q].Type = "text"
    PROVE  \A i \in DOMAIN noAnswer(f)[q] : IsText(noAnswer(f)[q][i])
  <1>1. noAnswer(f)[q] = [i \in 1 .. Len(f[q].Choices) |-> NoText]
    BY DEF noAnswer
  <1>2. IsText(NoText)
    BY DEF IsText, NoText
  <1>. QED BY <1>1, <1>2

\* The texts stay texts, trimmed or not.
LEMMA TextsNext ==
    ASSUME Fitting, TextsInv, [Next]_vars
    PROVE  TextsInv'
  <1>0. form' = form /\ form \in Forms
    BY FormKept DEF Fitting
  <1>1. CASE Visit
    <2>1. answers' = noAnswer(form)
      BY <1>1 DEF Visit
    <2>. QED BY <1>0, <2>1, NoTextsAtFirst DEF TextsInv
  <1>2. ASSUME NEW q \in DOMAIN form, NEW b, answers' = [answers EXCEPT ![q] = b],
               form[q].Type = "text" => \A i \in DOMAIN b : IsText(b[i])
        PROVE  TextsInv'
    BY <1>0, <1>2 DEF Fitting, TextsInv
  <1>3. ASSUME NEW q \in Of("select"), NEW i \in Places(form[q]), handleChecks(q, i)
        PROVE  TextsInv'
    BY <1>2, <1>3 DEF handleChecks, Of, Asked
  <1>4. ASSUME NEW q \in Of("rank"), NEW from, NEW to \in 1 .. (Len(answers[q]) + 1),
               handleOnDragEnd(from, q, to)
        PROVE  TextsInv'
    BY <1>2, <1>4 DEF handleOnDragEnd, Of, Asked
  <1>5. ASSUME NEW q \in Of("text"), NEW i \in Places(form[q]), NEW t \in Inputs,
               handleTextInput(q, i, t)
        PROVE  TextsInv'
    <2>. DEFINE b == [answers[q] EXCEPT ![i] = trim(t)]
    <2>1. q \in DOMAIN form /\ form[q].Type = "text"
      BY DEF Of, Asked
    <2>2. answers' = [answers EXCEPT ![q] = b]
      BY <1>5 DEF handleTextInput
    <2>3. IsText(trim(t))
      BY TextAssumption DEF trim, IsText, NoText
    <2>4. \A j \in DOMAIN b : IsText(b[j])
      BY <2>1, <2>3 DEF TextsInv
    <2>. HIDE DEF b
    <2>. QED BY <1>2, <2>1, <2>2, <2>4
  <1>6. CASE answers' = answers
    BY <1>0, <1>6 DEF TextsInv
  <1>7. handleClick => answers' = answers
    BY DEF handleClick
  <1>. QED
    BY <1>1, <1>3, <1>4, <1>5, <1>6, <1>7, EntriesKept DEF Next

\* For every form that asks something, and every text that is typed: a ballot
\* that ballotIsValid accepts is never too long for voteEncode (MaxEncodedSize
\* and ChunksPerBallot of the nodes, sendBallot of the page).
THEOREM BallotsFit == ShortRanks /\ FormsAsk /\ Spec => []FitsChunks
  <1>. SUFFICES ASSUME ShortRanks, FormsAsk PROVE Spec => []FitsChunks
    BY DEF ShortRanks, FormsAsk
  <1>. DEFINE I == Fitting /\ TextsInv /\ FitsChunks
  <1>1. Init => I
    <2>. SUFFICES ASSUME Init PROVE I
      OBVIOUS
    <2>1. form \in Forms /\ answers = noAnswer(form) /\ modal = "none"
      BY DEF Init
    <2>. QED BY <2>1, InvInit, NoTextsAtFirst DEF Inv, TextsInv, FitsChunks
  <1>2. I /\ [Next]_vars => I'
    <2>. SUFFICES ASSUME I, [Next]_vars PROVE I'
      OBVIOUS
    <2>1. Fitting' /\ TextsInv'
      BY FittingNext, TextsNext
    <2>2. FitsChunks'
      <3>1. CASE handleClick
        <4>1. ~ ballotIsValid => modal' = modal
          BY <3>1 DEF handleClick
        <4>2. ASSUME ballotIsValid PROVE modal' = modal
          <5>1. \A q \in DOMAIN form : answerIsValid(form[q], answers[q])
            BY <4>2 DEF ballotIsValid, Asked
          <5>2. ~ Throws(form, answers)
            BY <5>1, BallotFits DEF Fitting, TextsInv
          <5>. QED BY <3>1, <4>2, <5>2 DEF handleClick, sendBallot
        <4>. QED BY <4>1, <4>2 DEF FitsChunks
      <3>2. ASSUME NEW k \in DOMAIN requests, AnsweredError(k) \/ AnsweredOK(k)
            PROVE  FitsChunks'
        BY <3>2 DEF AnsweredError, AnsweredOK, Says, FitsChunks
      <3>3. ASSUME ~ handleClick, ~ \E k \in DOMAIN requests : AnsweredError(k) \/ AnsweredOK(k)
            PROVE  modal' \in {modal, "none"}
        BY <3>3 DEF Next, vars, Visit, Leave, Execute, closeForm, changeLanguage, handleChecks,
             handleOnDragEnd, handleTextInput, Untouched, Arrive
      <3>. QED BY <3>1, <3>2, <3>3 DEF FitsChunks
    <2>. QED BY <2>1, <2>2
  <1>3. I => FitsChunks
    OBVIOUS
  <1>. HIDE DEF I
  <1>. QED BY <1>1, <1>2, <1>3, PTL DEF Spec

-----------------------------------------------------------------------------
(***************************************************************************)
(* The dialog in which a question is written.                              *)
(***************************************************************************)
IsList(s) == Len(s) \in Nat /\ DOMAIN s = 1 .. Len(s) /\ s = [i \in DOMAIN s |-> s[i]]

\* A ChoicesMap has a list in English.
IsMap(m) ==
    /\ DOMAIN m = {"ChoicesMap", "URLs"}
    /\ "en" \in DOMAIN m.ChoicesMap
    /\ m.ChoicesMap = [lg \in DOMAIN m.ChoicesMap |-> m.ChoicesMap[lg]]
    /\ \A lg \in DOMAIN m.ChoicesMap : IsList(m.ChoicesMap[lg])

HasLists(q) ==
    /\ DOMAIN q = {"Type", "titled", "MaxN", "MinN", "MaxLength", "Choices", "ChoicesMap"}
    /\ IsMap(q.ChoicesMap)

\* A question and the draft of it are of one type, and both have their lists.
ListsInv ==
    /\ HasLists(prop) /\ HasLists(draft) /\ prop.Type = draft.Type
    /\ draft.Type \in {"select", "rank", "text"}
    /\ alias \in {"all", "lists", "none"}

\* The lists of all languages are of one length.
Even(m) ==
    /\ DOMAIN m.ChoicesMap = Languages
    /\ \A lg \in Languages : Len(m.ChoicesMap[lg]) = Len(m.ChoicesMap["en"])
    /\ IsList(m.URLs)

\* Those of a rank question that is written here are.
WrittenInv ==
    uploaded = <<>> /\ draft.Type = "rank" => Even(prop.ChoicesMap) /\ Even(draft.ChoicesMap)

\* Until it is saved, a rank question asks for as many answers as it has choices,
\* except for the one choice it begins with, when it asks for two.
NewRankInv ==
    ~inForm =>
        /\ uploaded = <<>>
        /\ draft.Type = "rank" =>
              /\ prop = newRank
              /\ draft.MinN = draft.MaxN
              /\ alias # "none" => Len(map["en"]) = 1
              /\ \/ draft.MaxN = Len(map["en"])
                 \/ draft.MaxN = 2 /\ Len(map["en"]) = 1 /\ Len(draft.Choices) \in {0, 1}

DialogInv == ListsInv /\ WrittenInv /\ NewRankInv

\* A list of elements of T is a sequence of them.
LEMMA ListIsSeq ==
    ASSUME NEW s, IsList(s), NEW T, \A i \in DOMAIN s : s[i] \in T
    PROVE  s \in Seq(T)
  <1>1. s \in [1 .. Len(s) -> T] /\ Len(s) \in Nat
    BY DEF IsList
  <1>. QED BY <1>1

\* A sequence is such a list.
LEMMA SeqIsList ==
    ASSUME NEW T, NEW s \in Seq(T)
    PROVE  IsList(s)
  <1>1. Len(s) \in Nat /\ DOMAIN s = 1 .. Len(s) /\ s \in [1 .. Len(s) -> T]
    BY LenProperties
  <1>. QED BY <1>1 DEF IsList

\* A list with another entry at its end.
LEMMA AppendList ==
    ASSUME NEW s, IsList(s), NEW e
    PROVE  IsList(Append(s, e)) /\ Len(Append(s, e)) = Len(s) + 1
  <1>. DEFINE T == {s[i] : i \in DOMAIN s} \cup {e}
  <1>1. s \in Seq(T) /\ e \in T
    BY ListIsSeq
  <1>. HIDE DEF T
  <1>2. Append(s, e) \in Seq(T) /\ Len(Append(s, e)) = Len(s) + 1
    BY <1>1, AppendProperties
  <1>. QED BY <1>2, SeqIsList

\* A list without its entry at place i, if it has one.
LEMMA FilterList ==
    ASSUME NEW s, IsList(s), NEW i \in Nat \ {0}
    PROVE  /\ IsList(filter(s, i))
           /\ i \notin 1 .. Len(s) => filter(s, i) = s
           /\ i \in 1 .. Len(s) =>
                 /\ Len(filter(s, i)) = Len(s) - 1
                 /\ \A j \in 1 .. (Len(s) - 1) :
                       filter(s, i)[j] = IF j < i THEN s[j] ELSE s[j + 1]
  <1>. DEFINE T == {s[k] : k \in DOMAIN s}
  <1>1. s \in Seq(T) /\ DOMAIN s = 1 .. Len(s)
    BY ListIsSeq DEF IsList
  <1>. HIDE DEF T
  <1>2. CASE i \notin 1 .. Len(s)
    BY <1>1, <1>2 DEF filter
  <1>3. CASE i \in 1 .. Len(s)
    <2>1. filter(s, i) = RemoveAt(s, i)
      BY <1>1, <1>3 DEF filter
    <2>2. /\ RemoveAt(s, i) \in Seq(T) /\ Len(RemoveAt(s, i)) = Len(s) - 1
          /\ \A j \in 1 .. (Len(s) - 1) :
                  RemoveAt(s, i)[j] = IF j < i THEN s[j] ELSE s[j + 1]
      BY <1>1, <1>3, RemoveAtType
    <2>. QED BY <1>3, <2>1, <2>2, SeqIsList
  <1>. QED BY <1>2, <1>3

\* A list with another entry in the place of one.
LEMMA ExceptList ==
    ASSUME NEW s, IsList(s), NEW i, NEW e
    PROVE  IsList([s EXCEPT ![i] = e]) /\ Len([s EXCEPT ![i] = e]) = Len(s)
  <1>. DEFINE t == [s EXCEPT ![i] = e]
  <1>1. DOMAIN t = 1 .. Len(s) /\ Len(s) \in Nat /\ t = [j \in DOMAIN t |-> t[j]]
    BY DEF IsList
  <1>. HIDE DEF t
  <1>2. Len(t) = Len(s)
    BY <1>1, LengthOfEntries
  <1>3. IsList(t) /\ Len(t) = Len(s)
    BY <1>1, <1>2 DEF IsList
  <1>. QED BY <1>3 DEF t

\* A list of URLs with another URL.
LEMMA ReplaceURLList ==
    ASSUME NEW s, IsList(s), NEW i \in Nat \ {0}, NEW u
    PROVE  IsList(replaceURL(s, i, u))
  <1>. DEFINE T == {s[k] : k \in DOMAIN s} \cup {u}
              m == IF i <= Len(s) THEN i - 1 ELSE Len(s)
              a == SubSeq(s, 1, m)
              b == SubSeq(s, i + 1, Len(s))
  <1>1. s \in Seq(T) /\ u \in T /\ Len(s) \in Nat
    BY ListIsSeq DEF IsList
  <1>2. m \in Nat /\ m <= Len(s)
    BY <1>1
  <1>. HIDE DEF T, m
  <1>3. a \in Seq(T)
    <2>1. \A j \in 1 .. m : s[j] \in T
      BY <1>1, <1>2
    <2>. QED BY <1>1, <1>2, <2>1, SubSeqProperties
  <1>4. b \in Seq(T)
    <2>1. \A j \in (i + 1) .. Len(s) : s[j] \in T
      BY <1>1
    <2>. QED BY <1>1, <2>1, SubSeqProperties
  <1>5. <<u>> \in Seq(T)
    BY <1>1
  <1>. HIDE DEF a, b
  <1>6. (a \o <<u>>) \o b \in Seq(T)
    <2>. DEFINE c == a \o <<u>>
    <2>1. c \in Seq(T)
      BY <1>3, <1>5, ConcatProperties
    <2>. HIDE DEF c
    <2>2. c \o b \in Seq(T)
      BY <1>4, <2>1, ConcatProperties
    <2>. QED BY <2>2 DEF c
  <1>7. replaceURL(s, i, u) = (a \o <<u>>) \o b
    BY DEF replaceURL, a, b, m
  <1>. QED BY <1>6, <1>7, SeqIsList

-----------------------------------------------------------------------------
\* A language that every choice has lists all of them, in their order.
LEMMA LabelsOfAll ==
    ASSUME NEW n \in Nat, NEW c, DOMAIN c = 1 .. n, NEW lg, \A i \in 1 .. n : lg \in DOMAIN c[i].Choice
    PROVE  labelsIn(c, lg) = [i \in 1 .. n |-> c[i].Choice[lg]]
  <1>. DEFINE having == {i \in DOMAIN c : lg \in DOMAIN c[i].Choice}
  <1>1. having = 1 .. n
    OBVIOUS
  <1>2. Cardinality(having) = n
    <2>1. Cardinality(1 .. n) = n
      BY FS_Interval
    <2>. HIDE DEF having
    <2>. QED BY <1>1, <2>1
  <1>3. ASSUME NEW k \in 1 .. n
        PROVE  (CHOOSE i \in having : Cardinality(having \cap 1 .. i) = k) = k
    <2>1. ASSUME NEW i \in 1 .. n PROVE Cardinality(having \cap 1 .. i) = i
      <3>1. having \cap 1 .. i = 1 .. i
        BY <1>1
      <3>2. Cardinality(1 .. i) = i
        BY FS_Interval
      <3>. QED BY <3>1, <3>2
    <2>. HIDE DEF having
    <2>. QED BY <1>1, <2>1
  <1>4. labelsIn(c, lg) = [k \in 1 .. Cardinality(having) |->
            c[CHOOSE i \in having : Cardinality(having \cap 1 .. i) = k].Choice[lg]]
    BY DEF labelsIn
  <1>. HIDE DEF having
  <1>. QED BY <1>2, <1>3, <1>4

\* The labels of a language are a list.
LEMMA LabelsAreList ==
    ASSUME NEW n \in Nat, NEW c, DOMAIN c = 1 .. n, NEW lg
    PROVE  IsList(labelsIn(c, lg))
  <1>. DEFINE having == {i \in DOMAIN c : lg \in DOMAIN c[i].Choice}
              t == labelsIn(c, lg)
  <1>1. Cardinality(having) \in Nat
    <2>1. IsFiniteSet(1 .. n)
      BY FS_Interval
    <2>2. IsFiniteSet(having)
      <3>. DEFINE D == DOMAIN c
      <3>1. IsFiniteSet(D) /\ having \in SUBSET D
        BY <2>1
      <3>. HIDE DEF D, having
      <3>. QED BY <3>1, FS_Subset
    <2>. QED BY <2>2, FS_CardinalityType
  <1>2. DOMAIN t = 1 .. Cardinality(having) /\ t = [k \in DOMAIN t |-> t[k]]
    BY DEF labelsIn
  <1>. HIDE DEF having, t
  <1>3. Len(t) = Cardinality(having)
    BY <1>1, <1>2, LengthOfEntries
  <1>4. IsList(t)
    BY <1>1, <1>2, <1>3 DEF IsList
  <1>. QED BY <1>4 DEF t

\* What a ChoicesMap publishes comes back from a file, if all choices have the
\* same languages.
LEMMA ComesBack ==
    ASSUME NEW m, "en" \in DOMAIN m.ChoicesMap, IsList(m.ChoicesMap["en"]),
           NEW p, p = choicesMapToChoices(m), Uniform(p), "en" \in usedBy(p),
           \A i \in DOMAIN p : p[i].URL # NoURL
    PROVE  choicesMapToChoices(choicesToChoicesMap(p)) = p
  <1>. DEFINE n == Len(m.ChoicesMap["en"])
              L == usedBy(p)
              b == choicesToChoicesMap(p)
  <1>1. n \in Nat /\ DOMAIN p = 1 .. n /\ DOMAIN m.ChoicesMap["en"] = 1 .. n
    BY DEF IsList, choicesMapToChoices
  <1>2. ASSUME NEW i \in 1 .. n
        PROVE  /\ p[i] = [Choice |-> p[i].Choice, URL |-> p[i].URL]
               /\ p[i].Choice = [lg \in DOMAIN p[i].Choice |-> p[i].Choice[lg]]
               /\ \A lg \in DOMAIN p[i].Choice : p[i].Choice[lg] # Empty
    BY <1>1 DEF choicesMapToChoices
  <1>3. p = [i \in 1 .. n |-> p[i]]
    BY <1>1 DEF choicesMapToChoices
  <1>4. \A i \in 1 .. n : DOMAIN p[i].Choice = L
    BY <1>1 DEF Uniform, usedBy
  <1>5. ASSUME NEW lg \in L PROVE b.ChoicesMap[lg] = [i \in 1 .. n |-> p[i].Choice[lg]]
    BY <1>1, <1>4, LabelsOfAll DEF choicesToChoicesMap
  <1>6. DOMAIN b.ChoicesMap = L /\ b.URLs = [i \in 1 .. n |-> p[i].URL]
    BY <1>1 DEF choicesToChoicesMap
  <1>. HIDE DEF b, L, n
  <1>7. ASSUME NEW i \in 1 .. n
        PROVE  choicesMapToChoices(b)[i] = p[i]
    <2>1. "en" \in L
      BY DEF L
    <2>0. ASSUME NEW lg \in L
          PROVE  /\ i \in DOMAIN b.ChoicesMap[lg] /\ b.ChoicesMap[lg][i] = p[i].Choice[lg]
                 /\ p[i].Choice[lg] # Empty
      <3>1. b.ChoicesMap[lg] = [j \in 1 .. n |-> p[j].Choice[lg]]
        BY <1>5
      <3>2. i \in DOMAIN b.ChoicesMap[lg] /\ b.ChoicesMap[lg][i] = p[i].Choice[lg]
        BY ONLY <3>1, i \in 1 .. n
      <3>. QED BY <1>2, <1>4, <3>2
    <2>2. {k \in DOMAIN b.ChoicesMap : i \in DOMAIN b.ChoicesMap[k] /\ b.ChoicesMap[k][i] # Empty} = L
      BY <1>6, <2>0
    <2>3. [lg \in L |-> b.ChoicesMap[lg][i]] = p[i].Choice
      BY <1>2, <1>4, <2>0
    <2>4. i \in DOMAIN b.ChoicesMap["en"]
      BY <1>5, <2>1
    <2>5. (IF i \in DOMAIN b.URLs THEN b.URLs[i] ELSE NoURL) = p[i].URL
      BY <1>6
    <2>6. choicesMapToChoices(b)[i] = [Choice |-> p[i].Choice, URL |-> p[i].URL]
      BY <2>2, <2>3, <2>4, <2>5 DEF choicesMapToChoices
    <2>. QED BY <1>2, <2>6
  <1>8. choicesMapToChoices(b) = [i \in 1 .. n |-> choicesMapToChoices(b)[i]]
    <2>1. DOMAIN b.ChoicesMap["en"] = 1 .. n
      BY <1>5 DEF L
    <2>. QED BY <2>1 DEF choicesMapToChoices
  <1>. QED BY <1>3, <1>7, <1>8 DEF b

-----------------------------------------------------------------------------
\* English is among the languages.
LEMMA EnglishIsThere == "en" \in Languages
  BY LanguagesAssumption DEF Languages

\* A new question has its lists, of one entry each.
LEMMA NewHasLists ==
    ASSUME NEW t, NEW a, NEW b, NEW q, q = newQuestion(t, a, b)
    PROVE  /\ HasLists(q) /\ Even(q.ChoicesMap) /\ Len(q.ChoicesMap.ChoicesMap["en"]) = 1
           /\ q.Type = t /\ q.MaxN = a /\ q.MinN = b /\ q.Choices = <<>>
  <1>. DEFINE m == [ChoicesMap |-> [lg \in Languages |-> <<Empty>>], URLs |-> <<Empty>>]
  <1>1. IsList(<<Empty>>) /\ Len(<<Empty>>) = 1
    <2>1. <<Empty>> \in Seq({Empty}) /\ Len(<<Empty>>) = 1
      OBVIOUS
    <2>. QED BY <2>1, SeqIsList
  <1>2. IsMap(m) /\ Even(m) /\ Len(m.ChoicesMap["en"]) = 1
    BY <1>1, EnglishIsThere DEF IsMap, Even
  <1>3. /\ q.ChoicesMap = m
        /\ DOMAIN q = {"Type", "titled", "MaxN", "MinN", "MaxLength", "Choices", "ChoicesMap"}
        /\ q.Type = t /\ q.MaxN = a /\ q.MinN = b /\ q.Choices = <<>>
    BY DEF newQuestion
  <1>. HIDE DEF m
  <1>. QED BY <1>2, <1>3 DEF HasLists

\* So has the one that the menu of a subject makes.
LEMMA MenuHasLists ==
    ASSUME NEW t \in {"select", "rank", "text"}
    PROVE  HasLists(fromMenu(t)) /\ fromMenu(t).Type = t
  <1>1. CASE t = "select"
    <2>1. fromMenu(t) = newQuestion("select", 1, 1)
      BY <1>1 DEF fromMenu, newSelect
    <2>. QED BY <1>1, <2>1, NewHasLists
  <1>2. CASE t = "rank"
    <2>1. fromMenu(t) = newQuestion("rank", 2, 2)
      BY <1>2 DEF fromMenu, newRank
    <2>. QED BY <1>2, <2>1, NewHasLists
  <1>3. CASE t = "text"
    <2>1. fromMenu(t) = newQuestion("text", 1, 0)
      BY <1>3 DEF fromMenu, newText
    <2>. QED BY <1>3, <2>1, NewHasLists
  <1>. QED BY <1>1, <1>2, <1>3

\* So has one from a file.
LEMMA FileHasLists ==
    ASSUME NEW t, NEW f \in Files, "en" \in usedBy(f)
    PROVE  HasLists(fromFile(t, f)) /\ fromFile(t, f).Type = t
  <1>. DEFINE m == choicesToChoicesMap(f)
              b == IF t = "rank" THEN Len(f) ELSE 0
              q == newQuestion(t, Len(f), b)
  <1>1. Len(f) \in Nat /\ DOMAIN f = 1 .. Len(f)
    BY QuestionFormAssumption
  <1>2. \A lg \in usedBy(f) : IsList(labelsIn(f, lg))
    BY <1>1, LabelsAreList
  <1>3. IsMap(m)
    BY <1>2 DEF IsMap, choicesToChoicesMap
  <1>. HIDE DEF m
  <1>4. DOMAIN q = {"Type", "titled", "MaxN", "MinN", "MaxLength", "Choices", "ChoicesMap"} /\ q.Type = t
    BY DEF newQuestion
  <1>5. fromFile(t, f) = unmarshal([q EXCEPT !.titled = TRUE, !.Choices = f])
    BY DEF fromFile
  <1>. HIDE DEF q
  <1>6. unmarshal([q EXCEPT !.titled = TRUE, !.Choices = f]) =
            [[q EXCEPT !.titled = TRUE, !.Choices = f] EXCEPT !.ChoicesMap = m]
    BY <1>4 DEF unmarshal, m
  <1>. QED BY <1>3, <1>4, <1>5, <1>6 DEF HasLists

\* Changing a ChoicesMap in place leaves both questions their lists.
LEMMA InPlaceLists ==
    ASSUME ListsInv, NEW m, IsMap(m), NEW a, NEW b, inPlace(m, a, b)
    PROVE  /\ ListsInv'
           /\ draft'.ChoicesMap = m /\ draft'.MaxN = a /\ draft'.MinN = b
           /\ draft'.Type = draft.Type
           /\ prop'.ChoicesMap.ChoicesMap \in {m.ChoicesMap, prop.ChoicesMap.ChoicesMap}
           /\ prop'.ChoicesMap.URLs \in {m.URLs, prop.ChoicesMap.URLs}
           /\ alias = "none" => prop' = [prop EXCEPT !.ChoicesMap = prop.ChoicesMap]
  <1>1. /\ draft' = [draft EXCEPT !.ChoicesMap = m, !.MaxN = a, !.MinN = b]
        /\ alias' = alias
    BY DEF inPlace
  <1>2. /\ draft'.ChoicesMap = m /\ draft'.MaxN = a /\ draft'.MinN = b
        /\ draft'.Type = draft.Type /\ DOMAIN draft' = DOMAIN draft
    BY <1>1 DEF ListsInv, HasLists
  <1>3. PICK k : /\ prop' = [prop EXCEPT !.ChoicesMap = k]
                 /\ alias = "all" => k = m
                 /\ alias = "lists" => k = [prop.ChoicesMap EXCEPT !.ChoicesMap = m.ChoicesMap]
                 /\ alias = "none" => k = prop.ChoicesMap
    BY DEF inPlace, ListsInv
  <1>4. prop'.ChoicesMap = k /\ prop'.Type = prop.Type /\ DOMAIN prop' = DOMAIN prop
    BY <1>3 DEF ListsInv, HasLists
  <1>5. /\ IsMap(k) /\ k.ChoicesMap \in {m.ChoicesMap, prop.ChoicesMap.ChoicesMap}
        /\ k.URLs \in {m.URLs, prop.ChoicesMap.URLs}
    BY <1>3 DEF ListsInv, HasLists, IsMap
  <1>6. alias = "none" => prop' = [prop EXCEPT !.ChoicesMap = prop.ChoicesMap]
    BY <1>3
  <1>. QED BY <1>1, <1>2, <1>4, <1>5, <1>6 DEF ListsInv, HasLists

\* A ChoicesMap with another list in one language.
LEMMA MapChanges ==
    ASSUME NEW m, IsMap(m), NEW lg \in DOMAIN m.ChoicesMap, NEW s, IsList(s), NEW u, NEW k,
           k = [ChoicesMap |-> [m.ChoicesMap EXCEPT ![lg] = s], URLs |-> u]
    PROVE  IsMap(k) /\ k.URLs = u
  BY DEF IsMap

\* Removing the choice at place i leaves lists.
LEMMA RankRemoval ==
    ASSUME ListsInv, NEW i \in Nat \ {0}, NEW left, left = [lg \in DOMAIN map |-> filter(map[lg], i)],
           NEW u
    PROVE  IsMap([ChoicesMap |-> left, URLs |-> u])
  <1>1. \A lg \in DOMAIN map : IsList(filter(map[lg], i))
    BY FilterList DEF ListsInv, HasLists, IsMap, map
  <1>. QED BY <1>1 DEF IsMap, ListsInv, HasLists, map

\* The lists stay lists.
LEMMA ListsNext ==
    ASSUME ListsInv, [DialogNext]_dialogVars
    PROVE  ListsInv'
  <1>0. /\ HasLists(prop) /\ HasLists(draft) /\ IsMap(draft.ChoicesMap) /\ map = draft.ChoicesMap.ChoicesMap
        /\ draft.Type = prop.Type /\ draft.Type \in {"select", "rank", "text"}
        /\ alias \in {"all", "lists", "none"}
    BY DEF ListsInv, HasLists, map
  <1>1. ASSUME NEW t \in Types, NEW f \in Files, handleDrop(t, f) PROVE ListsInv'
    <2>1. HasLists(fromFile(t, f)) /\ fromFile(t, f).Type = t /\ t \in {"select", "rank", "text"}
      BY <1>1, FileHasLists, QuestionFormAssumption DEF handleDrop
    <2>. QED BY <1>1, <2>1 DEF handleDrop, mount, ListsInv
  <1>2. CASE Title \/ Number \/ TextMaxLength
    BY <1>0, <1>2 DEF Title, Number, TextMaxLength, setField, ListsInv, HasLists
  <1>3. ASSUME NEW m, IsMap(m), NEW q, draft' = q, alias' \in {"all", "lists", "none"}, prop' = prop,
               \/ \E a, b : q = [draft EXCEPT !.ChoicesMap = m, !.MaxN = a, !.MinN = b]
               \/ \E a : q = [draft EXCEPT !.ChoicesMap = m, !.MaxN = a]
               \/ \E c : q = [draft EXCEPT !.ChoicesMap = m, !.Choices = c]
        PROVE  ListsInv'
    BY <1>0, <1>3 DEF ListsInv, HasLists
  <1>4. CASE addChoiceRank
    <2>. DEFINE m == [ChoicesMap |-> [lg \in DOMAIN map |-> Append(map[lg], Empty)],
                      URLs |-> Append(urls, Empty)]
    <2>1. IsMap(m)
      BY <1>0, AppendList DEF IsMap
    <2>2. /\ draft' = [draft EXCEPT !.ChoicesMap = m, !.MaxN = longest(map) + 1, !.MinN = shortest(map) + 1]
          /\ alias' = "none" /\ prop' = prop
      BY <1>4 DEF addChoiceRank, renew
    <2>3. \E x, y : draft' = [draft EXCEPT !.ChoicesMap = m, !.MaxN = x, !.MinN = y]
      BY <2>2
    <2>. HIDE DEF m
    <2>. QED BY <1>3, <2>1, <2>2, <2>3
  <1>5. ASSUME NEW lg \in Languages, addChoice(lg) PROVE ListsInv'
    <2>. DEFINE m == [ChoicesMap |-> [map EXCEPT ![lg] = Append(map[lg], Empty)], URLs |-> Append(urls, Empty)]
    <2>1. lg \in DOMAIN map /\ IsList(Append(map[lg], Empty))
      BY <1>0, <1>5, AppendList DEF addChoice, IsMap
    <2>2. IsMap(m)
      BY <1>0, <2>1 DEF IsMap
    <2>3. /\ draft' = [draft EXCEPT !.ChoicesMap = m, !.MaxN = Len(map[lg]) + 1]
          /\ alias' = "none" /\ prop' = prop
      BY <1>5 DEF addChoice, renew
    <2>. HIDE DEF m
    <2>. QED BY <1>3, <2>2, <2>3
  <1>6. ASSUME NEW i \in 1 .. MaxChoices, deleteChoiceRank(i) PROVE ListsInv'
    <2>. DEFINE left == [lg \in DOMAIN map |-> filter(map[lg], i)]
                m == [ChoicesMap |-> left, URLs |-> filter(urls, i)]
    <2>1. IsMap(m)
      BY QuestionFormAssumption, RankRemoval
    <2>2. inPlace(m, Len(left["en"]), Len(left["en"]))
      BY <1>6 DEF deleteChoiceRank
    <2>. HIDE DEF m
    <2>. QED BY <2>1, <2>2, InPlaceLists
  <1>7. ASSUME NEW i \in 1 .. MaxChoices, deleteChoice(i) PROVE ListsInv'
    <2>1. PICK losing, u, a :
             inPlace([ChoicesMap |-> [lg \in DOMAIN map |->
                           IF lg \in losing THEN filter(map[lg], i) ELSE map[lg]], URLs |-> u],
                     a, draft.MinN)
      BY <1>7 DEF deleteChoice
    <2>. DEFINE m == [ChoicesMap |-> [lg \in DOMAIN map |->
                           IF lg \in losing THEN filter(map[lg], i) ELSE map[lg]], URLs |-> u]
    <2>2. IsMap(m)
      BY <1>0, QuestionFormAssumption, FilterList DEF IsMap
    <2>. HIDE DEF m
    <2>. QED BY <2>1, <2>2, InPlaceLists DEF m
  <1>8. ASSUME NEW i \in 1 .. MaxChoices, NEW lg \in Languages, NEW l, updateChoice(i, lg, l)
        PROVE  ListsInv'
    <2>. DEFINE m == [ChoicesMap |-> [map EXCEPT ![lg] = [map[lg] EXCEPT ![i] = l]], URLs |-> urls]
    <2>1. lg \in DOMAIN map /\ IsList([map[lg] EXCEPT ![i] = l])
      BY <1>0, <1>8, ExceptList DEF updateChoice, IsMap
    <2>2. IsMap(m)
      BY <1>0, <2>1, MapChanges
    <2>3. /\ draft' = [draft EXCEPT !.ChoicesMap = m, !.Choices = choicesMapToChoices(m)]
          /\ alias' = "none" /\ prop' = prop
      BY <1>8 DEF updateChoice, renew
    <2>. HIDE DEF m
    <2>. QED BY <1>3, <2>2, <2>3
  <1>9. ASSUME NEW i \in 1 .. MaxChoices, NEW u, updateURL(i, u) PROVE ListsInv'
    <2>. DEFINE m == [ChoicesMap |-> map, URLs |-> replaceURL(urls, i, u)]
    <2>1. IsMap(m)
      BY <1>0 DEF IsMap
    <2>2. /\ draft' = [draft EXCEPT !.ChoicesMap = m, !.Choices = choicesMapToChoices(m)]
          /\ alias' \in {"all", "lists", "none"} /\ prop' = prop
      BY <1>9 DEF updateURL, updatesURL
    <2>. HIDE DEF m
    <2>. QED BY <1>3, <2>1, <2>2
  <1>10. CASE handleSave
    BY <1>10 DEF handleSave, ListsInv
  <1>11. CASE QuestionModal
    BY <1>11 DEF QuestionModal, mount, ListsInv
  <1>12. CASE handleClose
    <2>1. HasLists(fromMenu(prop.Type)) /\ fromMenu(prop.Type).Type = prop.Type
      BY <1>0, MenuHasLists
    <2>. QED BY <1>0, <1>12, <2>1 DEF handleClose, mount, ListsInv
  <1>13. CASE UNCHANGED dialogVars
    BY <1>13 DEF dialogVars, ListsInv
  <1>. QED
    BY <1>1, <1>2, <1>4, <1>5, <1>6, <1>7, <1>8, <1>9, <1>10, <1>11, <1>12, <1>13
       DEF DialogNext, handleAddChoice, handleDeleteChoice

-----------------------------------------------------------------------------
\* As many choices are published as there are labels in English.
LEMMA PublishedLength ==
    ASSUME NEW m, IsMap(m)
    PROVE  /\ Len(choicesMapToChoices(m)) = Len(m.ChoicesMap["en"])
           /\ IsList(choicesMapToChoices(m))
  <1>. DEFINE c == choicesMapToChoices(m)
              n == Len(m.ChoicesMap["en"])
  <1>1. n \in Nat /\ DOMAIN c = 1 .. n /\ c = [i \in DOMAIN c |-> c[i]]
    BY DEF choicesMapToChoices, IsMap, IsList
  <1>. HIDE DEF c, n
  <1>2. Len(c) = n
    BY <1>1, LengthOfEntries
  <1>3. IsList(c)
    BY <1>1, <1>2 DEF IsList
  <1>. QED BY <1>2, <1>3 DEF c, n

\* Only a file brings a question of another type.
LEMMA TypeKept ==
    ASSUME ListsInv, [DialogNext]_dialogVars
    PROVE  \/ inForm' /\ uploaded' # <<>>
           \/ draft'.Type = draft.Type /\ uploaded' = uploaded /\ (inForm => inForm')
  <1>0. HasLists(draft) /\ prop.Type = draft.Type /\ draft.Type \in {"select", "rank", "text"}
    BY DEF ListsInv
  <1>1. ASSUME NEW t \in Types, NEW f \in Files, handleDrop(t, f) PROVE inForm' /\ uploaded' # <<>>
    <2>1. "en" \in usedBy(f) /\ inForm' /\ uploaded' = f
      BY <1>1 DEF handleDrop
    <2>2. f # <<>>
      BY <2>1 DEF usedBy
    <2>. QED BY <2>1, <2>2
  <1>2. ASSUME \/ Title \/ Number \/ TextMaxLength \/ addChoiceRank
               \/ \E lg \in Languages : addChoice(lg)
               \/ \E i \in 1 .. MaxChoices : deleteChoiceRank(i) \/ deleteChoice(i)
               \/ \E i \in 1 .. MaxChoices, lg \in Languages, l \in Labels \cup {Empty} :
                     updateChoice(i, lg, l)
               \/ \E i \in 1 .. MaxChoices, u \in URLs \cup {Empty} : updateURL(i, u)
        PROVE  draft'.Type = draft.Type /\ uploaded' = uploaded /\ inForm' = inForm
    BY <1>0, <1>2 DEF HasLists, Title, Number, TextMaxLength, addChoiceRank, addChoice, deleteChoiceRank,
       deleteChoice, updateChoice, updateURL, setField, renew, inPlace, updatesURL, edit, handleChange
  <1>3. CASE handleSave
    BY <1>3 DEF handleSave
  <1>4. CASE QuestionModal
    BY <1>0, <1>4 DEF QuestionModal, mount
  <1>5. CASE handleClose
    <2>1. fromMenu(prop.Type).Type = prop.Type
      BY <1>0, MenuHasLists
    <2>. QED BY <1>0, <1>5, <2>1 DEF handleClose, mount
  <1>6. CASE UNCHANGED dialogVars
    BY <1>6 DEF dialogVars
  <1>. QED BY <1>1, <1>2, <1>3, <1>4, <1>5, <1>6 DEF DialogNext, handleAddChoice, handleDeleteChoice

\* A step keeps the lists of a rank question written here of one length, and
\* what it asks for in step with its choices until it is saved.
LEMMA RankNext ==
    ASSUME DialogInv, [DialogNext]_dialogVars
    PROVE  WrittenInv' /\ NewRankInv'
  <1>0. /\ ListsInv /\ HasLists(prop) /\ HasLists(draft) /\ IsMap(draft.ChoicesMap)
        /\ map = draft.ChoicesMap.ChoicesMap /\ urls = draft.ChoicesMap.URLs
        /\ draft.Type = prop.Type /\ draft.Type \in {"select", "rank", "text"}
    BY DEF DialogInv, ListsInv, HasLists, map, urls
  <1>. DEFINE n == Len(map["en"])
  <1>. SUFFICES ASSUME draft.Type = "rank", uploaded = <<>>, draft'.Type = draft.Type,
                       uploaded' = uploaded, inForm => inForm',
                       NEW f, f = newRank
                PROVE  WrittenInv' /\ NewRankInv'
    BY <1>0, TypeKept DEF DialogInv, WrittenInv, NewRankInv
  <1>1. /\ Even(prop.ChoicesMap) /\ Even(draft.ChoicesMap)
        /\ ~inForm => /\ prop = f /\ draft.MinN = draft.MaxN /\ (alias # "none" => n = 1)
                      /\ draft.MaxN = n \/ (draft.MaxN = 2 /\ n = 1 /\ Len(draft.Choices) \in {0, 1})
    BY <1>0 DEF DialogInv, WrittenInv, NewRankInv
  <1>2. /\ HasLists(f) /\ Even(f.ChoicesMap) /\ Len(f.ChoicesMap.ChoicesMap["en"]) = 1
        /\ f.Type = "rank" /\ f.MaxN = 2 /\ f.MinN = 2 /\ f.Choices = <<>> /\ f = fromMenu("rank")
    BY NewHasLists DEF newRank, fromMenu
  <1>3. /\ n \in Nat /\ DOMAIN map = Languages /\ "en" \in Languages
        /\ \A lg \in Languages : IsList(map[lg]) /\ Len(map[lg]) = n
    BY <1>0, <1>1, EnglishIsThere DEF Even, IsMap, IsList
  <1>. HIDE DEF n
  \* It is enough to look at the lists and the bounds afterwards.
  <1>4. ASSUME Even(prop.ChoicesMap)', Even(draft.ChoicesMap)',
               ~inForm' => /\ prop' = f /\ draft'.MinN = draft'.MaxN
                           /\ (alias' # "none" => Len(map'["en"]) = 1)
                           /\ \/ draft'.MaxN = Len(map'["en"])
                              \/ draft'.MaxN = 2 /\ Len(map'["en"]) = 1 /\ Len(draft'.Choices) \in {0, 1}
        PROVE  WrittenInv' /\ NewRankInv'
    BY <1>4 DEF WrittenInv, NewRankInv, newRank, newQuestion, Languages
  <1>5. CASE Title
    <2>1. /\ draft'.ChoicesMap = draft.ChoicesMap /\ draft'.MaxN = draft.MaxN /\ draft'.MinN = draft.MinN
          /\ draft'.Choices = draft.Choices /\ prop' = prop /\ alias' = alias /\ inForm' = inForm
      BY <1>0, <1>5 DEF Title, setField, HasLists
    <2>2. map' = map
      BY <2>1 DEF map
    <2>. QED BY <1>1, <1>4, <2>1, <2>2 DEF n
  <1>6. CASE Number \/ TextMaxLength \/ (\E lg \in Languages : addChoice(lg)) \/ \E i \in 1 .. MaxChoices : deleteChoice(i)
    BY <1>6 DEF Number, TextMaxLength, addChoice, deleteChoice
  <1>7. CASE addChoiceRank
    <2>. DEFINE m == [ChoicesMap |-> [lg \in DOMAIN map |-> Append(map[lg], Empty)],
                      URLs |-> Append(urls, Empty)]
    <2>1. {Len(map[lg]) : lg \in DOMAIN map} = {n}
      BY <1>3
    <2>2. longest(map) = n /\ shortest(map) = n
      <3>1. Max({n}) = n /\ Min({n}) = n
        BY <1>3 DEF Max, Min
      <3>. QED BY <2>1, <3>1 DEF longest, shortest
    <2>3. /\ draft' = [draft EXCEPT !.ChoicesMap = m, !.MaxN = n + 1, !.MinN = n + 1]
          /\ alias' = "none" /\ prop' = prop /\ inForm' = inForm
      BY <1>7, <2>2 DEF addChoiceRank, renew, handleChange, edit
    <2>4. \A lg \in Languages : Len(m.ChoicesMap[lg]) = n + 1
      BY <1>3, AppendList
    <2>5. IsList(m.URLs)
      BY <1>0, <1>1, AppendList DEF Even
    <2>6. DOMAIN m.ChoicesMap = Languages
      BY <1>3
    <2>. HIDE DEF m
    <2>7. Even(m)
      BY <1>3, <2>4, <2>5, <2>6 DEF Even
    <2>8. draft'.ChoicesMap = m /\ draft'.MaxN = n + 1 /\ draft'.MinN = n + 1
      BY <1>0, <2>3 DEF HasLists
    <2>9. map' = m.ChoicesMap
      BY <2>8 DEF map
    <2>. QED BY <1>1, <1>3, <1>4, <2>3, <2>4, <2>7, <2>8, <2>9
  <1>8. ASSUME NEW i \in 1 .. MaxChoices, deleteChoiceRank(i) PROVE WrittenInv' /\ NewRankInv'
    <2>. DEFINE left == [lg \in DOMAIN map |-> filter(map[lg], i)]
                m == [ChoicesMap |-> left, URLs |-> filter(urls, i)]
    <2>0. i \in Nat \ {0}
      BY QuestionFormAssumption
    <2>1. /\ inPlace(m, Len(left["en"]), Len(left["en"])) /\ removable(i)
          /\ alias' = alias /\ inForm' = inForm
      BY <1>8 DEF deleteChoiceRank, inPlace, handleChange, edit
    <2>2. i \in 1 .. n /\ n > 1
      BY <1>3, <2>1 DEF removable, shown, IsList
    <2>3. \A lg \in Languages : Len(left[lg]) = n - 1
      BY <1>3, <2>0, <2>2, FilterList
    <2>4. IsList(filter(urls, i))
      BY <1>0, <1>1, <2>0, FilterList DEF Even
    <2>5. IsMap(m)
      BY <1>0, <2>0, RankRemoval
    <2>6. DOMAIN left = Languages
      BY <1>3
    <2>7. m.ChoicesMap = left /\ m.URLs = filter(urls, i)
      OBVIOUS
    <2>. HIDE DEF m, left
    <2>8. Even(m)
      BY <1>3, <2>3, <2>4, <2>6, <2>7 DEF Even
    <2>9. /\ draft'.ChoicesMap = m /\ draft'.MaxN = Len(left["en"]) /\ draft'.MinN = Len(left["en"])
          /\ prop'.ChoicesMap.ChoicesMap \in {m.ChoicesMap, prop.ChoicesMap.ChoicesMap}
          /\ prop'.ChoicesMap.URLs \in {m.URLs, prop.ChoicesMap.URLs}
          /\ alias = "none" => prop' = [prop EXCEPT !.ChoicesMap = prop.ChoicesMap]
      BY <1>0, <2>1, <2>5, InPlaceLists
    <2>10. Even(prop'.ChoicesMap)
      BY <1>1, <2>8, <2>9 DEF Even
    <2>11. map' = left
      BY <2>7, <2>9 DEF map
    <2>12. ~inForm => alias = "none" /\ prop' = f
      <3>1. ~inForm => alias = "none" /\ prop = f
        BY <1>1, <2>2
      <3>2. [f EXCEPT !.ChoicesMap = f.ChoicesMap] = f
        BY DEF newRank, newQuestion
      <3>. QED BY <2>9, <3>1, <3>2
    <2>. QED BY <1>4, <2>1, <2>8, <2>9, <2>10, <2>11, <2>12
  <1>9. ASSUME NEW i \in 1 .. MaxChoices, NEW lg \in Languages, NEW l, updateChoice(i, lg, l)
        PROVE  WrittenInv' /\ NewRankInv'
    <2>. DEFINE m == [ChoicesMap |-> [map EXCEPT ![lg] = [map[lg] EXCEPT ![i] = l]], URLs |-> urls]
    <2>1. /\ draft' = [draft EXCEPT !.ChoicesMap = m, !.Choices = choicesMapToChoices(m)]
          /\ alias' = "none" /\ prop' = prop /\ inForm' = inForm
      BY <1>9 DEF updateChoice, renew, edit
    <2>0. IsList(map[lg]) /\ Len(map[lg]) = n
      BY <1>3
    <2>2. IsList([map[lg] EXCEPT ![i] = l]) /\ Len([map[lg] EXCEPT ![i] = l]) = n
      BY ONLY <2>0, ExceptList
    <2>3. IsMap(m)
      BY <1>0, <1>3, <2>2, MapChanges
    <2>4. DOMAIN m.ChoicesMap = Languages /\ \A k \in Languages : Len(m.ChoicesMap[k]) = n
      BY <1>3, <2>2
    <2>5. IsList(m.URLs)
      BY <1>0, <1>1 DEF Even
    <2>. HIDE DEF m
    <2>6. Even(m)
      BY <1>3, <2>4, <2>5 DEF Even
    <2>7. /\ draft'.ChoicesMap = m /\ draft'.MaxN = draft.MaxN /\ draft'.MinN = draft.MinN
          /\ draft'.Choices = choicesMapToChoices(m)
      BY <1>0, <2>1 DEF HasLists
    <2>8. map' = m.ChoicesMap /\ Len(map'["en"]) = n
      BY <1>3, <2>4, <2>7 DEF map
    <2>9. Len(draft'.Choices) = n
      BY <1>3, <2>3, <2>4, <2>7, PublishedLength
    <2>. QED BY <1>1, <1>4, <2>1, <2>6, <2>7, <2>8, <2>9
  <1>10. ASSUME NEW i \in 1 .. MaxChoices, NEW u, updateURL(i, u) PROVE WrittenInv' /\ NewRankInv'
    <2>. DEFINE m == [ChoicesMap |-> map, URLs |-> replaceURL(urls, i, u)]
    <2>1. /\ draft' = [draft EXCEPT !.ChoicesMap = m, !.Choices = choicesMapToChoices(m)]
          /\ alias' = (IF alias = "none" THEN "none" ELSE "lists")
          /\ prop' = prop /\ inForm' = inForm
      BY <1>10 DEF updateURL, updatesURL, edit
    <2>2. IsList(replaceURL(urls, i, u))
      BY <1>0, <1>1, QuestionFormAssumption, ReplaceURLList DEF Even
    <2>3. IsMap(m) /\ Even(m) /\ m.ChoicesMap = map
      BY <1>0, <1>3, <2>2 DEF IsMap, Even
    <2>. HIDE DEF m
    <2>4. /\ draft'.ChoicesMap = m /\ draft'.MaxN = draft.MaxN /\ draft'.MinN = draft.MinN
          /\ draft'.Choices = choicesMapToChoices(m)
      BY <1>0, <2>1 DEF HasLists
    <2>5. map' = map /\ Len(map'["en"]) = n
      BY <2>3, <2>4 DEF map, n
    <2>6. Len(draft'.Choices) = n
      BY <2>3, <2>4, PublishedLength DEF n
    <2>. QED BY <1>1, <1>4, <2>1, <2>3, <2>4, <2>5, <2>6
  <1>11. CASE handleSave
    BY <1>1, <1>4, <1>11 DEF handleSave
  <1>12. CASE QuestionModal
    <2>1. draft' = prop /\ prop' = prop /\ inForm' = inForm
      BY <1>12 DEF QuestionModal, mount
    <2>2. map' = prop.ChoicesMap.ChoicesMap
      BY <2>1 DEF map
    <2>3. Len(<<>>) = 0
      OBVIOUS
    <2>. QED BY <1>1, <1>2, <1>4, <2>1, <2>2, <2>3
  <1>13. CASE handleClose
    <2>1. draft' = f /\ prop' = f /\ inForm' = inForm
      BY <1>0, <1>2, <1>13 DEF handleClose, mount
    <2>2. map' = f.ChoicesMap.ChoicesMap
      BY <2>1 DEF map
    <2>3. Len(<<>>) = 0
      OBVIOUS
    <2>. QED BY <1>2, <1>4, <2>1, <2>2, <2>3
  <1>14. CASE UNCHANGED dialogVars
    BY <1>1, <1>4, <1>14 DEF dialogVars, map, n
  <1>15. ASSUME NEW t \in Types, NEW q \in Files, handleDrop(t, q) PROVE FALSE
    <2>1. "en" \in usedBy(q) /\ uploaded' = q
      BY <1>15 DEF handleDrop
    <2>. QED BY <2>1 DEF usedBy
  <1>. QED
    BY <1>5, <1>6, <1>7, <1>8, <1>9, <1>10, <1>11, <1>12, <1>13, <1>14, <1>15
       DEF DialogNext, handleAddChoice, handleDeleteChoice
-----------------------------------------------------------------------------
\* A dialog opens with its lists, and asks for two answers in a rank question.
LEMMA DialogOpens ==
    ASSUME DialogInit
    PROVE  DialogInv
  <1>1. PICK t \in Types : prop = fromMenu(t)
    BY DEF DialogInit
  <1>2. draft = prop /\ alias = "all" /\ ~inForm /\ uploaded = <<>>
    BY DEF DialogInit
  <1>3. t \in {"select", "rank", "text"}
    BY QuestionFormAssumption
  <1>4. HasLists(prop) /\ prop.Type = t
    BY <1>1, <1>3, MenuHasLists
  <1>5. ListsInv
    BY <1>2, <1>3, <1>4 DEF ListsInv
  <1>6. CASE t # "rank"
    BY <1>2, <1>4, <1>5, <1>6 DEF DialogInv, WrittenInv, NewRankInv
  <1>7. CASE t = "rank"
    <2>1. prop = newRank
      BY <1>1, <1>7 DEF fromMenu
    <2>2. /\ Even(prop.ChoicesMap) /\ Len(prop.ChoicesMap.ChoicesMap["en"]) = 1
          /\ prop.MaxN = 2 /\ prop.MinN = 2 /\ prop.Choices = <<>>
      BY <2>1, NewHasLists DEF newRank
    <2>3. Len(<<>>) = 0
      OBVIOUS
    <2>4. WrittenInv
      BY <1>2, <2>2 DEF WrittenInv
    <2>5. NewRankInv
      BY <1>2, <2>1, <2>2, <2>3 DEF NewRankInv, map
    <2>. QED BY <1>5, <2>4, <2>5 DEF DialogInv
  <1>. QED BY <1>6, <1>7

\* The invariant of the dialog, for any languages, labels, files and bounds.
THEOREM DialogHolds == DialogSpec => []DialogInv
  <1>1. DialogInit => DialogInv
    BY DialogOpens
  <1>2. DialogInv /\ [DialogNext]_dialogVars => DialogInv'
    <2>. SUFFICES ASSUME DialogInv, [DialogNext]_dialogVars PROVE DialogInv'
      OBVIOUS
    <2>1. ListsInv'
      BY ListsNext DEF DialogInv
    <2>2. WrittenInv' /\ NewRankInv'
      BY RankNext
    <2>. QED BY <2>1, <2>2 DEF DialogInv
  <1>. QED BY <1>1, <1>2, PTL DEF DialogSpec

\* What the form makes of the question.
LEMMA PublishedChoices ==
    ASSUME NEW q, HasLists(q)
    PROVE  toArraysOfSubjectElement(q).Choices = choicesMapToChoices(q.ChoicesMap)
  BY DEF toArraysOfSubjectElement, HasLists

\* A question whose choices all have the same languages, English among them,
\* comes back from a file as it was published (toArraysOfSubjectElement, then
\* unmarshalConfig), however it was written, saved, shared with the form or
\* uploaded before.
THEOREM RoundTrips == DialogSpec => []UniformRoundTrip
  <1>1. DialogInv => UniformRoundTrip
    <2>. SUFFICES ASSUME DialogInv, Uniform(published), "en" \in usedBy(published),
                         \A i \in DOMAIN published : published[i].URL # NoURL
                  PROVE  choicesMapToChoices(choicesToChoicesMap(published)) = published
      BY DEF UniformRoundTrip
    <2>. DEFINE m == prop.ChoicesMap
    <2>1. HasLists(prop) /\ "en" \in DOMAIN m.ChoicesMap /\ IsList(m.ChoicesMap["en"])
      BY DEF DialogInv, ListsInv, HasLists, IsMap
    <2>2. published = choicesMapToChoices(m)
      BY <2>1, PublishedChoices DEF published
    <2>. HIDE DEF m
    <2>. QED BY <2>1, <2>2, ComesBack
  <1>. QED BY <1>1, DialogHolds, PTL

\* A new rank question that handleSave accepts is published with as many choices
\* as it asks for: MaxN follows the lists at every addition and removal, and the
\* one case in which it does not, the single choice of a fresh question, is the
\* one that the schema refuses.
THEOREM SavedRanksFit == DialogSpec => SavedRankFits
  <1>1. ASSUME DialogInv, [DialogNext]_dialogVars, handleSave, draft.Type = "rank", ~inForm
        PROVE  Len(published') = draft.MaxN /\ draft.MinN = draft.MaxN
    <2>1. HasLists(draft) /\ IsMap(draft.ChoicesMap)
      BY <1>1 DEF DialogInv, ListsInv, HasLists
    <2>2. /\ draft.MinN = draft.MaxN
          /\ \/ draft.MaxN = Len(map["en"])
             \/ draft.MaxN = 2 /\ Len(draft.Choices) \in {0, 1}
      BY <1>1 DEF DialogInv, NewRankInv
    <2>3. Len(draft.Choices) = draft.MaxN
      BY <1>1 DEF handleSave, schema, ranksSchema
    <2>4. draft.MaxN = Len(map["en"])
      BY <2>2, <2>3
    <2>5. prop' = draft
      BY <1>1 DEF handleSave
    <2>6. published' = choicesMapToChoices(draft.ChoicesMap)
      BY <2>1, <2>5, PublishedChoices DEF published
    <2>7. Len(published') = Len(draft.ChoicesMap.ChoicesMap["en"])
      BY <2>1, <2>6, PublishedLength
    <2>. QED BY <2>2, <2>4, <2>7 DEF map
  <1>2. DialogInv /\ [DialogNext]_dialogVars =>
            [handleSave /\ draft.Type = "rank" /\ ~inForm =>
                Len(published') = draft.MaxN /\ draft.MinN = draft.MaxN]_dialogVars
    BY <1>1
  <1>. QED BY <1>2, DialogHolds, PTL DEF DialogSpec, SavedRankFits

-----------------------------------------------------------------------------
\* Lists of one length publish, without the entries at place i, what they
\* published before without the choice at place i.
LEMMA RemovalExact ==
    ASSUME NEW m, IsMap(m), Even(m), NEW i \in 1 .. Len(m.ChoicesMap["en"]), NEW k,
           k = [ChoicesMap |-> [lg \in DOMAIN m.ChoicesMap |-> filter(m.ChoicesMap[lg], i)],
                URLs |-> filter(m.URLs, i)]
    PROVE  choicesMapToChoices(k) = filter(choicesMapToChoices(m), i)
  <1>. DEFINE n == Len(m.ChoicesMap["en"])
              p == choicesMapToChoices(m)
              r == choicesMapToChoices(k)
              s(j) == IF j < i THEN j ELSE j + 1
              lists == m.ChoicesMap
              left == k.ChoicesMap
  <1>1. /\ n \in Nat /\ i \in 1 .. n /\ i \in Nat \ {0} /\ DOMAIN lists = Languages /\ "en" \in Languages
        /\ \A lg \in Languages : IsList(lists[lg]) /\ Len(lists[lg]) = n
        /\ IsList(m.URLs)
    BY EnglishIsThere DEF IsMap, Even, IsList
  <1>2. /\ DOMAIN left = Languages
        /\ \A lg \in Languages : left[lg] = filter(lists[lg], i)
        /\ k.URLs = filter(m.URLs, i)
    BY <1>1
  <1>3. Len(p) = n /\ IsList(p)
    BY PublishedLength
  <1>4. ASSUME NEW lg \in Languages
        PROVE  DOMAIN left[lg] = 1 .. (n - 1) /\ \A j \in 1 .. (n - 1) : left[lg][j] = lists[lg][s(j)]
    <2>1. IsList(lists[lg]) /\ Len(lists[lg]) = n /\ left[lg] = filter(lists[lg], i)
      BY <1>1, <1>2
    <2>2. /\ IsList(left[lg]) /\ Len(left[lg]) = n - 1
          /\ \A j \in 1 .. (n - 1) : left[lg][j] = lists[lg][s(j)]
      BY <1>1, <2>1, FilterList
    <2>. QED BY <2>2 DEF IsList
  <1>5. ASSUME NEW j \in 1 .. (n - 1)
        PROVE  (IF j \in DOMAIN k.URLs THEN k.URLs[j] ELSE NoURL)
                   = IF s(j) \in DOMAIN m.URLs THEN m.URLs[s(j)] ELSE NoURL
    <2>. DEFINE o == m.URLs
    <2>1. IsList(o) /\ k.URLs = filter(o, i) /\ i \in Nat \ {0}
      BY <1>1, <1>2
    <2>2. Len(o) \in Nat /\ DOMAIN o = 1 .. Len(o)
      BY <2>1 DEF IsList
    <2>. HIDE DEF o
    <2>3. CASE i \notin 1 .. Len(o)
      <3>1. k.URLs = o
        BY <2>1, <2>3, FilterList
      <3>2. i > Len(o)
        BY <1>1, <2>2, <2>3
      <3>3. j \in DOMAIN o <=> s(j) \in DOMAIN o
        BY <1>1, <2>2, <3>2
      <3>4. j \in DOMAIN o => s(j) = j
        BY <1>1, <2>2, <3>2
      <3>. QED BY <3>1, <3>3, <3>4 DEF o
    <2>4. CASE i \in 1 .. Len(o)
      <3>1. /\ IsList(filter(o, i)) /\ Len(filter(o, i)) = Len(o) - 1
            /\ \A h \in 1 .. (Len(o) - 1) : filter(o, i)[h] = o[s(h)]
        BY <2>1, <2>4, FilterList
      <3>2. DOMAIN k.URLs = 1 .. (Len(o) - 1)
        BY <2>1, <3>1 DEF IsList
      <3>3. j \in DOMAIN k.URLs <=> s(j) \in DOMAIN o
        BY <1>1, <2>2, <2>4, <3>2
      <3>4. j \in DOMAIN k.URLs => k.URLs[j] = o[s(j)]
        BY <2>1, <3>1, <3>2
      <3>. HIDE DEF s
      <3>. QED BY <3>3, <3>4 DEF o
    <2>. QED BY <2>3, <2>4
  <1>. HIDE DEF left, lists
  <1>6. ASSUME NEW j \in 1 .. (n - 1)
        PROVE  r[j] = p[s(j)]
    <2>. DEFINE h == s(j)
                L == {lg \in Languages : lists[lg][h] # Empty}
    <2>1. h \in 1 .. n
      BY <1>1
    <2>. HIDE DEF h, s
    <2>2. \A lg \in Languages : DOMAIN lists[lg] = 1 .. n
      BY <1>1 DEF IsList
    <2>3. p[h] = [Choice |-> [lg \in L |-> lists[lg][h]],
                  URL |-> IF h \in DOMAIN m.URLs THEN m.URLs[h] ELSE NoURL]
      <3>1. {lg \in DOMAIN lists : h \in DOMAIN lists[lg] /\ lists[lg][h] # Empty} = L
        BY <1>1, <2>1, <2>2
      <3>2. h \in DOMAIN lists["en"]
        BY <1>1, <2>1, <2>2
      <3>. HIDE DEF L
      <3>. QED BY <3>1, <3>2 DEF choicesMapToChoices, lists
    <2>4. \A lg \in Languages : j \in DOMAIN left[lg] /\ left[lg][j] = lists[lg][h]
      BY <1>4 DEF h
    <2>5. r[j] = [Choice |-> [lg \in L |-> lists[lg][h]],
                  URL |-> IF j \in DOMAIN k.URLs THEN k.URLs[j] ELSE NoURL]
      <3>1. {lg \in DOMAIN left : j \in DOMAIN left[lg] /\ left[lg][j] # Empty} = L
        BY <1>2, <2>4
      <3>2. j \in DOMAIN left["en"]
        BY <1>1, <2>4
      <3>3. [lg \in L |-> left[lg][j]] = [lg \in L |-> lists[lg][h]]
        BY <2>4
      <3>. HIDE DEF L
      <3>. QED BY <3>1, <3>2, <3>3 DEF choicesMapToChoices, left
    <2>6. (IF j \in DOMAIN k.URLs THEN k.URLs[j] ELSE NoURL)
              = IF h \in DOMAIN m.URLs THEN m.URLs[h] ELSE NoURL
      BY <1>5 DEF h
    <2>. HIDE DEF L, p, r
    <2>7. r[j] = p[h]
      BY <2>3, <2>5, <2>6
    <2>. QED BY <2>7 DEF h
  <1>7. DOMAIN r = 1 .. (n - 1) /\ r = [j \in 1 .. (n - 1) |-> r[j]]
    <2>1. DOMAIN left["en"] = 1 .. (n - 1)
      BY <1>1, <1>4
    <2>. QED BY <2>1 DEF choicesMapToChoices, left
  <1>. HIDE DEF p, r
  <1>8. /\ IsList(filter(p, i)) /\ Len(filter(p, i)) = n - 1
        /\ \A j \in 1 .. (n - 1) : filter(p, i)[j] = p[s(j)]
    BY <1>1, <1>3, FilterList
  <1>9. filter(p, i) = [j \in 1 .. (n - 1) |-> filter(p, i)[j]]
    BY <1>8 DEF IsList
  <1>10. \A j \in 1 .. (n - 1) : filter(p, i)[j] = r[j]
    BY <1>6, <1>8
  <1>11. filter(p, i) = r
    BY <1>7, <1>9, <1>10
  <1>. QED BY <1>11 DEF p, r

\* Removing a choice of a rank question written here removes that choice with its
\* URL, and nothing else, from what the question would publish.
THEOREM RankDeletesExactly == DialogSpec => RankDeleteExact
  <1>1. ASSUME DialogInv, NEW i \in 1 .. MaxChoices, deleteChoiceRank(i), uploaded = <<>>
        PROVE  choicesMapToChoices(draft'.ChoicesMap)
                   = filter(choicesMapToChoices(draft.ChoicesMap), i)
    <2>. DEFINE m == draft.ChoicesMap
                left == [lg \in DOMAIN map |-> filter(map[lg], i)]
                k == [ChoicesMap |-> left, URLs |-> filter(urls, i)]
    <2>1. /\ ListsInv /\ IsMap(m) /\ HasLists(draft) /\ draft.Type = "rank"
          /\ inPlace(k, Len(left["en"]), Len(left["en"])) /\ removable(i)
      BY <1>1 DEF deleteChoiceRank, DialogInv, ListsInv, HasLists
    <2>2. Even(m)
      BY <1>1, <2>1 DEF DialogInv, WrittenInv
    <2>3. i \in 1 .. Len(m.ChoicesMap["en"])
      BY <2>1, <2>2, EnglishIsThere DEF removable, shown, map, Even, IsMap, IsList
    <2>4. k = [ChoicesMap |-> [lg \in DOMAIN m.ChoicesMap |-> filter(m.ChoicesMap[lg], i)],
               URLs |-> filter(m.URLs, i)]
      BY DEF map, urls
    <2>5. draft'.ChoicesMap = k
      BY <2>1 DEF inPlace, HasLists
    <2>. HIDE DEF k, left, m
    <2>6. choicesMapToChoices(k) = filter(choicesMapToChoices(m), i)
      BY <2>1, <2>2, <2>3, <2>4, RemovalExact
    <2>. QED BY <2>5, <2>6 DEF m
  <1>2. DialogInv /\ [DialogNext]_dialogVars =>
            [\A i \in 1 .. MaxChoices : deleteChoiceRank(i) /\ uploaded = <<>> =>
                choicesMapToChoices(draft'.ChoicesMap)
                    = filter(choicesMapToChoices(draft.ChoicesMap), i)]_dialogVars
    BY <1>1
  <1>. QED BY <1>2, DialogHolds, PTL DEF DialogSpec, RankDeleteExact
====
