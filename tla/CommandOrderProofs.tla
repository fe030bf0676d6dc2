------------------------ MODULE CommandOrderProofs ------------------------
(***************************************************************************)
(* Theorems of WorkflowPlanning about the commands of a plan: in which     *)
(* order they run, that the script of a local container runs them, and     *)
(* that the hash of the container covers them.                             *)
(*                                                                         *)
(* Filters and the stable sort both put the elements of an index set in an *)
(* order, by the number of the elements before each.  The first part is    *)
(* about such rankings; a filtered or sorted sequence is then known by its *)
(* enumeration, a bijection from 1 .. n that increases in that order.      *)
(***************************************************************************)
EXTENDS WorkflowPlanningProofs, FunctionTheorems

----------------------------------------------------------------------------
(* Rankings. *)

Rank(i, I, R) == Cardinality({j \in I : <<j, i>> \in R})

IsOrder(R, I) ==
  /\ IsFiniteSet(I)
  /\ \A i \in I : <<i, i>> \in R
  /\ \A i, j \in I : <<i, j>> \in R \/ <<j, i>> \in R
  /\ \A i, j \in I : <<i, j>> \in R /\ <<j, i>> \in R => i = j
  /\ \A i, j, k \in I : <<i, j>> \in R /\ <<j, k>> \in R => <<i, k>> \in R

\* e lists the elements of I in the order R.
Enumerates(e, I, R) ==
  /\ e \in Bijection(1 .. Cardinality(I), I)
  /\ \A m, n \in 1 .. Cardinality(I) : m <= n => <<e[m], e[n]>> \in R

LEMMA RankIncreases ==
  ASSUME NEW I, NEW R, IsOrder(R, I), NEW i \in I
  PROVE  /\ Rank(i, I, R) \in 1 .. Cardinality(I)
         /\ \A j \in I : <<i, j>> \in R /\ i # j => Rank(i, I, R) < Rank(j, I, R)
<1>. DEFINE Below(k) == {j \in I : <<j, k>> \in R}
<1>1. ASSUME NEW k \in I
      PROVE  /\ IsFiniteSet(Below(k)) /\ Cardinality(Below(k)) \in Nat
             /\ Cardinality(Below(k)) <= Cardinality(I) /\ k \in Below(k)
  BY FS_Subset, FS_CardinalityType DEF IsOrder
<1>2. Cardinality(Below(i)) # 0
  BY <1>1, FS_EmptySet
<1>3. Cardinality(I) \in Nat
  BY FS_CardinalityType DEF IsOrder
<1>4. ASSUME NEW j \in I, <<i, j>> \in R, i # j
      PROVE  Cardinality(Below(i)) < Cardinality(Below(j))
  <2>1. Below(i) \subseteq Below(j)
    BY <1>4 DEF IsOrder
  <2>2. j \in Below(j) /\ j \notin Below(i)
    BY <1>4 DEF IsOrder
  <2>. HIDE DEF Below
  <2>3. /\ Cardinality(Below(i)) <= Cardinality(Below(j))
        /\ Cardinality(Below(i)) # Cardinality(Below(j))
    BY <1>1, <2>1, <2>2, FS_Subset
  <2>. QED BY <1>1, <2>3
<1>5. Rank(i, I, R) = Cardinality(Below(i)) /\ \A j \in I : Rank(j, I, R) = Cardinality(Below(j))
  BY DEF Rank
<1>. HIDE DEF Below
<1>6. Cardinality(Below(i)) \in 1 .. Cardinality(I)
  BY <1>1, <1>2, <1>3
<1>. QED BY <1>4, <1>5, <1>6

LEMMA RankIsBijective ==
  ASSUME NEW I, NEW R, IsOrder(R, I)
  PROVE  [i \in I |-> Rank(i, I, R)] \in Bijection(I, 1 .. Cardinality(I))
<1>. DEFINE r == [i \in I |-> Rank(i, I, R)]
            N == 1 .. Cardinality(I)
<1>1. Cardinality(I) \in Nat /\ IsFiniteSet(I)
  BY FS_CardinalityType DEF IsOrder
<1>2. r \in [I -> N]
  BY RankIncreases
<1>3. ASSUME NEW i \in I, NEW j \in I, r[i] = r[j]
      PROVE  i = j
  <2>1. Rank(i, I, R) = Rank(j, I, R) /\ Rank(i, I, R) \in Int
    BY <1>3, RankIncreases
  <2>2. <<i, j>> \in R /\ i # j => Rank(i, I, R) < Rank(j, I, R)
    BY RankIncreases
  <2>3. <<j, i>> \in R /\ i # j => Rank(j, I, R) < Rank(i, I, R)
    BY RankIncreases
  <2>. QED BY <2>1, <2>2, <2>3 DEF IsOrder
<1>. HIDE DEF r
<1>4. r \in Injection(I, N)
  BY <1>2, <1>3, Fun_IsInj
<1>5. IsFiniteSet(N) /\ Cardinality(N) = Cardinality(I)
  BY <1>1, FS_Interval
<1>. HIDE DEF N
<1>6. r \in Surjection(I, N)
  BY <1>1, <1>4, <1>5, FS_Injection
<1>7. r \in Bijection(I, N)
  BY <1>4, <1>6 DEF Bijection
<1>. QED BY <1>7 DEF r, N

\* The elements of a finite ordered set are enumerated by their ranks...
LEMMA RankEnumerates ==
  ASSUME NEW I, NEW R, IsOrder(R, I)
  PROVE  Enumerates([n \in 1 .. Cardinality(I) |-> CHOOSE i \in I : Rank(i, I, R) = n],
                    I, R)
<1>. DEFINE N == 1 .. Cardinality(I)
            r == [i \in I |-> Rank(i, I, R)]
            e == [n \in N |-> CHOOSE i \in I : Rank(i, I, R) = n]
<1>1. r \in Bijection(I, N)
  BY RankIsBijective
<1>2. /\ \A n \in N : \E i \in I : Rank(i, I, R) = n
      /\ \A i, j \in I : Rank(i, I, R) = Rank(j, I, R) => i = j
      /\ \A i \in I : Rank(i, I, R) \in N
  <2>1. /\ \A n \in N : \E i \in I : r[i] = n
        /\ \A i, j \in I : r[i] = r[j] => i = j
        /\ \A i \in I : r[i] \in N
    <3>. HIDE DEF r, N
    <3>. QED BY <1>1, Fun_BijectionProperties
  <2>. QED BY <2>1
<1>3. \A n \in N : e[n] \in I /\ Rank(e[n], I, R) = n
  BY <1>2
<1>4. DOMAIN e = N
  OBVIOUS
<1>5. e \in [N -> I]
  BY <1>3
<1>. HIDE DEF e
<1>6. e \in Bijection(N, I)
  <2>1. \A m, n \in N : e[m] = e[n] => m = n
    BY <1>3
  <2>2. \A i \in I : \E n \in N : e[n] = i
    BY <1>2, <1>3
  <2>. HIDE DEF N
  <2>. QED BY <1>5, <2>1, <2>2, Fun_IsBij
<1>7. ASSUME NEW m \in N, NEW n \in N, m <= n
      PROVE  <<e[m], e[n]>> \in R
  <2>1. CASE m = n
    BY <1>3, <2>1 DEF IsOrder
  <2>2. CASE m < n
    <3>1. ~(Rank(e[n], I, R) < Rank(e[m], I, R))
      BY <1>3, <2>2
    <3>2. e[n] # e[m]
      BY <1>3, <2>2
    <3>3. ~(<<e[n], e[m]>> \in R)
      BY <1>3, <3>1, <3>2, RankIncreases
    <3>. QED BY <1>3, <3>3 DEF IsOrder
  <2>. QED BY <1>7, <2>1, <2>2
<1>. QED BY <1>6, <1>7 DEF Enumerates, e

\* ... and in no other way.
LEMMA EnumerationIsRank ==
  ASSUME NEW I, NEW R, IsOrder(R, I), NEW e, Enumerates(e, I, R),
         NEW n \in 1 .. Cardinality(I)
  PROVE  /\ e[n] \in I /\ Rank(e[n], I, R) = n
         /\ (CHOOSE i \in I : Rank(i, I, R) = n) = e[n]
<1>. DEFINE N == 1 .. Cardinality(I)
            T == {j \in I : <<j, e[n]>> \in R}
            f == [m \in 1 .. n |-> e[m]]
<1>1. /\ e \in [N -> I] /\ \A i \in I : \E m \in N : e[m] = i
      /\ \A a, b \in N : e[a] = e[b] => a = b
  <2>1. e \in Bijection(N, I)
    BY DEF Enumerates
  <2>. HIDE DEF N
  <2>. QED BY <2>1, Fun_BijectionProperties
<1>2. Cardinality(I) \in Nat /\ n \in Nat /\ 1 .. n \subseteq N
  BY FS_CardinalityType DEF IsOrder
<1>3. \A m \in 1 .. n : m \in N /\ m <= n
  BY <1>2
<1>4. f \in [1 .. n -> T]
  BY <1>1, <1>3 DEF Enumerates
<1>5. \A a, b \in 1 .. n : f[a] = f[b] => a = b
  BY <1>1, <1>2
<1>6. ASSUME NEW t \in T
      PROVE  \E m \in 1 .. n : f[m] = t
  <2>1. PICK m \in N : e[m] = t
    BY <1>1
  <2>2. CASE m <= n
    BY <1>2, <2>1, <2>2
  <2>3. CASE n <= m
    <3>1. <<e[n], e[m]>> \in R /\ <<e[m], e[n]>> \in R
      BY <2>1, <2>3 DEF Enumerates
    <3>2. e[n] = e[m]
      BY <1>1, <3>1 DEF IsOrder
    <3>. QED BY <1>1, <1>2, <2>1, <3>2
  <2>. QED BY <1>2, <2>2, <2>3
<1>7. f \in Bijection(1 .. n, T)
  <2>. HIDE DEF f, T
  <2>. QED BY <1>4, <1>5, <1>6, Fun_IsBij
<1>8. Cardinality(T) = n
  <2>. HIDE DEF f, T
  <2>. QED BY <1>2, <1>7, FS_CountingElements DEF ExistsBijection
<1>9. e[n] \in I /\ Rank(e[n], I, R) = n
  BY <1>1, <1>8 DEF Rank
<1>10. \A i \in I : Rank(i, I, R) = n => i = e[n]
  <2>. DEFINE r == [i \in I |-> Rank(i, I, R)]
  <2>1. r \in Bijection(I, N)
    BY RankIsBijective
  <2>2. \A i, j \in I : r[i] = r[j] => i = j
    <3>. HIDE DEF r, N
    <3>. QED BY <2>1, Fun_BijectionProperties
  <2>. QED BY <1>9, <2>2
<1>. QED BY <1>9, <1>10

----------------------------------------------------------------------------
(* Filters and the stable sort. *)

\* The order of the indices of a sequence, and the one that sorting makes.
InPlace == {p \in Int \X Int : p[1] <= p[2]}
ByOrder(s) ==
  {p \in (DOMAIN s) \X (DOMAIN s) :
     \/ s[p[1]].order < s[p[2]].order
     \/ s[p[1]].order = s[p[2]].order /\ p[1] <= p[2]}

LEMMA IndicesAreFinite ==
  ASSUME NEW S, NEW s \in Seq(S), NEW I \in SUBSET DOMAIN s
  PROVE  /\ IsFiniteSet(I) /\ Cardinality(I) \in Nat /\ Cardinality(I) <= Len(s)
         /\ IsFiniteSet(DOMAIN s) /\ Cardinality(DOMAIN s) = Len(s)
<1>1. DOMAIN s = 1 .. Len(s) /\ Len(s) \in Nat
  BY LenProperties
<1>. DEFINE n == Len(s)
<1>2. IsFiniteSet(1 .. n) /\ Cardinality(1 .. n) = IF 1 > n THEN 0 ELSE n - 1 + 1
  <2>. HIDE DEF n
  <2>. QED BY <1>1, FS_Interval DEF n
<1>3. IsFiniteSet(DOMAIN s) /\ Cardinality(DOMAIN s) = Len(s)
  BY <1>1, <1>2
<1>. QED BY <1>3, FS_Subset, FS_CardinalityType

LEMMA InPlaceIsOrder ==
  ASSUME NEW I \in SUBSET Int, IsFiniteSet(I)
  PROVE  IsOrder(InPlace, I)
BY DEF IsOrder, InPlace

LEMMA ItemsAtAre ==
  ASSUME NEW S, NEW s \in Seq(S), NEW I \in SUBSET DOMAIN s,
         NEW e, Enumerates(e, I, InPlace)
  PROVE  /\ ItemsAt(s, I) \in Seq(S) /\ Len(ItemsAt(s, I)) = Cardinality(I)
         /\ DOMAIN ItemsAt(s, I) = 1 .. Cardinality(I)
         /\ \A n \in 1 .. Cardinality(I) :
              e[n] \in I /\ ItemsAt(s, I)[n] = s[e[n]] /\ s[e[n]] \in S
<1>. DEFINE N == 1 .. Cardinality(I)
<1>1. DOMAIN s = 1 .. Len(s) /\ Len(s) \in Nat
  BY LenProperties
<1>2. IsFiniteSet(I) /\ Cardinality(I) \in Nat
  BY IndicesAreFinite
<1>3. IsOrder(InPlace, I)
  BY <1>1, <1>2, InPlaceIsOrder
<1>4. \A n \in N : e[n] \in I /\ (CHOOSE i \in I : Rank(i, I, InPlace) = n) = e[n]
  BY <1>3, EnumerationIsRank
<1>5. \A i \in I : Rank(i, I, InPlace) = Cardinality({j \in I : j <= i})
  <2>. TAKE i \in I
  <2>1. {j \in I : <<j, i>> \in InPlace} = {j \in I : j <= i}
    BY <1>1 DEF InPlace
  <2>. QED BY <2>1 DEF Rank
<1>6. ASSUME NEW n \in N
      PROVE  (CHOOSE i \in I : Cardinality({j \in I : j <= i}) = n) = e[n]
  <2>1. (CHOOSE i \in I : Cardinality({j \in I : j <= i}) = n)
          = (CHOOSE i \in I : Rank(i, I, InPlace) = n)
    BY <1>5
  <2>. QED BY <1>4, <2>1
<1>7. \A n \in N : ItemsAt(s, I)[n] = s[e[n]]
  BY <1>6 DEF ItemsAt
<1>8. \A n \in N : s[e[n]] \in S
  BY <1>1, <1>4
<1>9. DOMAIN ItemsAt(s, I) = N
  BY DEF ItemsAt
<1>10. ItemsAt(s, I) \in [N -> S]
  <2>1. ItemsAt(s, I) = [n \in N |-> ItemsAt(s, I)[n]]
    BY DEF ItemsAt
  <2>. QED BY <1>7, <1>8, <2>1
<1>11. ItemsAt(s, I) \in Seq(S) /\ Len(ItemsAt(s, I)) = Cardinality(I)
  BY <1>2, <1>9, <1>10
<1>. QED BY <1>4, <1>7, <1>8, <1>9, <1>11

\* A filter keeps what it keeps in its place.
LEMMA ItemsAtEnumerated ==
  ASSUME NEW S, NEW s \in Seq(S), NEW I \in SUBSET DOMAIN s
  PROVE  \E e : Enumerates(e, I, InPlace)
<1>1. I \in SUBSET Int
  BY LenProperties
<1>2. IsOrder(InPlace, I)
  BY <1>1, IndicesAreFinite, InPlaceIsOrder
<1>. QED BY <1>2, RankEnumerates

LEMMA ByOrderMeans ==
  ASSUME NEW s, NEW k \in DOMAIN s, NEW j \in DOMAIN s
  PROVE  <<k, j>> \in ByOrder(s) <=>
           s[k].order < s[j].order \/ (s[k].order = s[j].order /\ k <= j)
<1>. DEFINE p == <<k, j>>
<1>1. p[1] = k /\ p[2] = j /\ p \in (DOMAIN s) \X (DOMAIN s)
  OBVIOUS
<1>. HIDE DEF p
<1>2. p \in ByOrder(s) <=>
        s[k].order < s[j].order \/ (s[k].order = s[j].order /\ k <= j)
  BY <1>1 DEF ByOrder
<1>. QED BY <1>2 DEF p

LEMMA ByOrderIsOrder ==
  ASSUME NEW S, NEW s \in Seq(S), \A i \in DOMAIN s : s[i].order \in Int
  PROVE  IsOrder(ByOrder(s), DOMAIN s)
<1>1. DOMAIN s \subseteq Int /\ IsFiniteSet(DOMAIN s)
  BY LenProperties, IndicesAreFinite
<1>2. \A k, j \in DOMAIN s : <<k, j>> \in ByOrder(s) <=>
        \/ s[k].order < s[j].order
        \/ s[k].order = s[j].order /\ k <= j
  BY ByOrderMeans
<1>. QED BY <1>1, <1>2 DEF IsOrder

\* Sorting permutes a sequence.
LEMMA SortedIs ==
  ASSUME NEW S, NEW s \in Seq(S), \A i \in DOMAIN s : s[i].order \in Int
  PROVE  /\ SortedByOrder(s) \in Seq(S) /\ Len(SortedByOrder(s)) = Len(s)
         /\ DOMAIN SortedByOrder(s) = DOMAIN s
         /\ \E e \in Bijection(DOMAIN s, DOMAIN s) :
              /\ \A n \in DOMAIN s : SortedByOrder(s)[n] = s[e[n]]
              /\ \A m, n \in DOMAIN s : m <= n => s[e[m]].order <= s[e[n]].order
<1>. DEFINE D == DOMAIN s
            R == ByOrder(s)
            e == [n \in 1 .. Cardinality(D) |-> CHOOSE i \in D : Rank(i, D, R) = n]
<1>1. /\ D = 1 .. Len(s) /\ Len(s) \in Nat /\ Cardinality(D) = Len(s)
  BY LenProperties, IndicesAreFinite
<1>2. IsOrder(R, D)
  BY ByOrderIsOrder
<1>3. Enumerates(e, D, R)
  <2>. HIDE DEF D, R
  <2>. QED BY <1>2, RankEnumerates
<1>4. \A j \in D : Rank(j, D, R) =
        Cardinality({k \in D : \/ s[k].order < s[j].order
                               \/ s[k].order = s[j].order /\ k <= j})
  <2>. TAKE j \in D
  <2>1. {k \in D : <<k, j>> \in R}
          = {k \in D : \/ s[k].order < s[j].order
                       \/ s[k].order = s[j].order /\ k <= j}
    <3>1. \A k \in D : <<k, j>> \in R <=>
            \/ s[k].order < s[j].order
            \/ s[k].order = s[j].order /\ k <= j
      BY ByOrderMeans
    <3>. HIDE DEF R
    <3>. QED BY <3>1
  <2>. QED BY <2>1 DEF Rank
<1>5. \A n \in D : e[n] = CHOOSE j \in D :
        Cardinality({k \in D : \/ s[k].order < s[j].order
                               \/ s[k].order = s[j].order /\ k <= j}) = n
  BY <1>1, <1>4
<1>6. SortedByOrder(s) = [n \in D |-> s[e[n]]]
  <2>. DEFINE place(n) == CHOOSE j \in D :
                Cardinality({k \in D : \/ s[k].order < s[j].order
                                       \/ s[k].order = s[j].order /\ k <= j}) = n
  <2>1. SortedByOrder(s) = [n \in D |-> s[place(n)]]
    BY DEF SortedByOrder
  <2>2. \A n \in D : e[n] = place(n)
    BY <1>5
  <2>. HIDE DEF e, place
  <2>. QED BY <2>1, <2>2
<1>7. e \in Bijection(D, D)
  <2>. HIDE DEF e
  <2>. QED BY <1>1, <1>3 DEF Enumerates
<1>. HIDE DEF e
<1>8. e \in [D -> D]
  <2>. HIDE DEF D
  <2>. QED BY <1>7, Fun_BijectionProperties
<1>9. SortedByOrder(s) \in [D -> S]
  BY <1>1, <1>6, <1>8
<1>10. ASSUME NEW m \in D, NEW n \in D, m <= n
       PROVE  s[e[m]].order <= s[e[n]].order
  <2>1. <<e[m], e[n]>> \in R
    BY <1>1, <1>3, <1>10 DEF Enumerates
  <2>2. e[m] \in D /\ e[n] \in D
    BY <1>8
  <2>3. s[e[m]].order < s[e[n]].order \/ s[e[m]].order = s[e[n]].order
    BY <2>1, <2>2, ByOrderMeans
  <2>. QED BY <2>2, <2>3
<1>11. SortedByOrder(s) \in Seq(S) /\ Len(SortedByOrder(s)) = Len(s) /\ DOMAIN SortedByOrder(s) = D
  BY <1>1, <1>9
<1>12. \A n \in D : SortedByOrder(s)[n] = s[e[n]]
  BY <1>6
<1>. QED BY <1>7, <1>10, <1>11, <1>12

----------------------------------------------------------------------------
(* How often a command occurs. *)

Where(c, s) == {i \in DOMAIN s : s[i] = c}
Times(c, s) == Cardinality(Where(c, s))

Ordered(s) == \A i, j \in DOMAIN s : i <= j => s[i].order <= s[j].order
Orders(s) == \A i \in DOMAIN s : s[i].order \in Int
PhaseAt(s, phases) == {i \in DOMAIN s : s[i].phase \in phases}

LEMMA SameNumber ==
  ASSUME NEW A, NEW B, IsFiniteSet(A), NEW f \in [A -> B],
         \A x, y \in A : f[x] = f[y] => x = y,
         \A z \in B : \E x \in A : f[x] = z
  PROVE  Cardinality(B) = Cardinality(A)
<1>1. f \in Bijection(A, B)
  BY Fun_IsBij
<1>. QED BY <1>1, FS_Bijection DEF ExistsBijection

LEMMA TimesIsNatural ==
  ASSUME NEW S, NEW s \in Seq(S), NEW c
  PROVE  Times(c, s) \in Nat /\ IsFiniteSet(Where(c, s))
<1>1. Where(c, s) \in SUBSET DOMAIN s
  BY DEF Where
<1>. QED BY <1>1, IndicesAreFinite DEF Times

\* Sorting keeps every command as often as it was there.
LEMMA SortedKeeps ==
  ASSUME NEW S, NEW s \in Seq(S), Orders(s)
  PROVE  /\ SortedByOrder(s) \in Seq(S) /\ Len(SortedByOrder(s)) = Len(s)
         /\ Ordered(SortedByOrder(s)) /\ Orders(SortedByOrder(s))
         /\ Range(SortedByOrder(s)) = Range(s)
         /\ \A c : Times(c, SortedByOrder(s)) = Times(c, s)
<1>. DEFINE u == SortedByOrder(s)
            D == DOMAIN s
<1>1. u \in Seq(S) /\ Len(u) = Len(s) /\ DOMAIN u = D
  BY SortedIs DEF Orders
<1>2. PICK e \in Bijection(D, D) :
        /\ \A n \in D : u[n] = s[e[n]]
        /\ \A m, n \in D : m <= n => s[e[m]].order <= s[e[n]].order
  BY SortedIs DEF Orders
<1>3. /\ e \in [D -> D] /\ \A a, b \in D : e[a] = e[b] => a = b
      /\ \A t \in D : \E n \in D : e[n] = t
  <2>. HIDE DEF D
  <2>. QED BY Fun_BijectionProperties
<1>. HIDE DEF u
<1>4. Ordered(u) /\ Orders(u)
  <2>1. DOMAIN u = D
    BY <1>1
  <2>2. Ordered(u)
    BY <1>2, <2>1 DEF Ordered
  <2>3. \A n \in D : e[n] \in D
    BY <1>3
  <2>4. Orders(u)
    BY <1>2, <2>1, <2>3 DEF Orders
  <2>. QED BY <2>2, <2>4
<1>5. Range(u) = Range(s)
  BY <1>1, <1>2, <1>3 DEF Range
<1>6. ASSUME NEW c
      PROVE  Times(c, u) = Times(c, s)
  <2>. DEFINE f == [n \in Where(c, u) |-> e[n]]
  <2>1. f \in [Where(c, u) -> Where(c, s)]
    BY <1>1, <1>2, <1>3 DEF Where
  <2>2. \A x, y \in Where(c, u) : f[x] = f[y] => x = y
    BY <1>1, <1>3 DEF Where
  <2>3. \A z \in Where(c, s) : \E x \in Where(c, u) : f[x] = z
    BY <1>1, <1>2, <1>3 DEF Where
  <2>4. IsFiniteSet(Where(c, u))
    BY <1>1, TimesIsNatural
  <2>. HIDE DEF f
  <2>. QED BY <2>1, <2>2, <2>3, <2>4, SameNumber DEF Times
<1>. QED BY <1>1, <1>4, <1>5, <1>6 DEF u

LEMMA ConcatenationIs ==
  ASSUME NEW S, NEW a \in Seq(S), NEW b \in Seq(S)
  PROVE  /\ a \o b \in Seq(S) /\ Len(a) \in Nat /\ Len(b) \in Nat
         /\ Len(a \o b) = Len(a) + Len(b)
         /\ DOMAIN a = 1 .. Len(a) /\ DOMAIN b = 1 .. Len(b)
         /\ DOMAIN (a \o b) = 1 .. (Len(a) + Len(b))
         /\ \A i \in DOMAIN a : (a \o b)[i] = a[i]
         /\ \A i \in DOMAIN b : (a \o b)[Len(a) + i] = b[i]
         /\ \A i \in DOMAIN (a \o b) : i \notin DOMAIN a =>
              /\ i - Len(a) \in DOMAIN b /\ i = Len(a) + (i - Len(a))
              /\ (a \o b)[i] = b[i - Len(a)]
<1>. DEFINE c == a \o b
<1>1. /\ c \in Seq(S) /\ Len(c) = Len(a) + Len(b)
      /\ \A i \in 1 .. Len(a) + Len(b) :
           c[i] = IF i <= Len(a) THEN a[i] ELSE b[i - Len(a)]
  BY ConcatProperties
<1>. HIDE DEF c
<1>2. /\ Len(a) \in Nat /\ Len(b) \in Nat /\ DOMAIN a = 1 .. Len(a)
      /\ DOMAIN b = 1 .. Len(b) /\ DOMAIN c = 1 .. (Len(a) + Len(b))
  BY <1>1, LenProperties
<1>3. ASSUME NEW i \in DOMAIN a
      PROVE  c[i] = a[i]
  BY <1>1, <1>2
<1>4. ASSUME NEW i \in DOMAIN b
      PROVE  c[Len(a) + i] = b[i]
  <2>1. Len(a) + i \in 1 .. Len(a) + Len(b) /\ ~(Len(a) + i <= Len(a))
    BY <1>2
  <2>2. Len(a) + i - Len(a) = i
    BY <1>2
  <2>. QED BY <1>1, <2>1, <2>2
<1>5. ASSUME NEW i \in DOMAIN c, i \notin DOMAIN a
      PROVE  /\ i - Len(a) \in DOMAIN b /\ i = Len(a) + (i - Len(a))
             /\ c[i] = b[i - Len(a)]
  <2>1. ~(i <= Len(a)) /\ i \in 1 .. Len(a) + Len(b) /\ i - Len(a) \in 1 .. Len(b)
    BY <1>2, <1>5
  <2>2. i = Len(a) + (i - Len(a))
    BY <1>2, <2>1
  <2>. QED BY <1>1, <1>2, <2>1, <2>2
<1>6. c \in Seq(S) /\ Len(c) = Len(a) + Len(b)
  BY <1>1
<1>. QED BY <1>2, <1>3, <1>4, <1>5, <1>6 DEF c

LEMMA TimesOfConcatenation ==
  ASSUME NEW S, NEW a \in Seq(S), NEW b \in Seq(S), NEW c
  PROVE  Times(c, a \o b) = Times(c, a) + Times(c, b)
<1>. DEFINE u == a \o b
            shift == [i \in Where(c, b) |-> Len(a) + i]
            T == {i \in DOMAIN u : i \notin DOMAIN a /\ u[i] = c}
<1>1. /\ u \in Seq(S) /\ Len(a) \in Nat /\ Len(b) \in Nat
      /\ DOMAIN a = 1 .. Len(a) /\ DOMAIN b = 1 .. Len(b)
      /\ DOMAIN u = 1 .. (Len(a) + Len(b))
      /\ \A i \in DOMAIN a : u[i] = a[i]
      /\ \A i \in DOMAIN b : u[Len(a) + i] = b[i]
      /\ \A i \in DOMAIN u : i \notin DOMAIN a =>
           /\ i - Len(a) \in DOMAIN b /\ i = Len(a) + (i - Len(a))
           /\ u[i] = b[i - Len(a)]
  BY ConcatenationIs
<1>. HIDE DEF u
<1>2. /\ \A i \in DOMAIN a : i \in DOMAIN u
      /\ \A i \in DOMAIN b : Len(a) + i \in DOMAIN u /\ Len(a) + i \notin DOMAIN a
  BY <1>1
<1>3. Where(c, u) = Where(c, a) \union T /\ Where(c, a) \intersect T = {}
  BY <1>1, <1>2 DEF Where
<1>4. shift \in [Where(c, b) -> T]
  BY <1>1, <1>2 DEF Where
<1>5. \A x, y \in Where(c, b) : shift[x] = shift[y] => x = y
  BY <1>1 DEF Where
<1>6. \A z \in T : \E x \in Where(c, b) : shift[x] = z
  <2>. TAKE z \in T
  <2>1. z - Len(a) \in Where(c, b) /\ z = Len(a) + (z - Len(a))
    BY <1>1 DEF Where
  <2>. QED BY <2>1
<1>7. IsFiniteSet(Where(c, a)) /\ IsFiniteSet(Where(c, b))
  BY TimesIsNatural
<1>8. Cardinality(T) = Cardinality(Where(c, b))
  <2>. HIDE DEF shift, T
  <2>. QED BY <1>4, <1>5, <1>6, <1>7, SameNumber
<1>9. IsFiniteSet(T)
  <2>1. T \in SUBSET DOMAIN u
    OBVIOUS
  <2>. HIDE DEF T
  <2>. QED BY <1>1, <2>1, IndicesAreFinite
<1>. HIDE DEF T
<1>10. Cardinality(Where(c, u)) = Cardinality(Where(c, a)) + Cardinality(T)
  <2>1. Cardinality(Where(c, u))
          = Cardinality(Where(c, a)) + Cardinality(T) - Cardinality({})
    BY <1>3, <1>7, <1>9, FS_Union
  <2>2. Cardinality(Where(c, a)) \in Nat /\ Cardinality(T) \in Nat
    BY <1>7, <1>9, FS_CardinalityType
  <2>. QED BY <2>1, <2>2, FS_EmptySet
<1>. QED BY <1>8, <1>10 DEF Times, u

\* A filter by phase keeps all commands of these phases, in their order.
LEMMA InPhaseKeeps ==
  ASSUME NEW S, NEW s \in Seq(S), NEW phases
  PROVE  /\ InPhase(s, phases) \in Seq(S)
         /\ Len(InPhase(s, phases)) = Cardinality(PhaseAt(s, phases))
         /\ Len(InPhase(s, phases)) \in Nat
         /\ DOMAIN InPhase(s, phases) = 1 .. Len(InPhase(s, phases))
         /\ \A c \in Range(InPhase(s, phases)) : c \in Range(s) /\ c.phase \in phases
         /\ Ordered(s) => Ordered(InPhase(s, phases))
         /\ \A c : c.phase \in phases => Times(c, InPhase(s, phases)) = Times(c, s)
         /\ \A c : c.phase \notin phases => Times(c, InPhase(s, phases)) = 0
<1>. DEFINE I == PhaseAt(s, phases)
            u == InPhase(s, phases)
            N == 1 .. Cardinality(I)
<1>1. I \in SUBSET DOMAIN s
  BY DEF PhaseAt
<1>2. PICK e : Enumerates(e, I, InPlace)
  BY <1>1, ItemsAtEnumerated
<1>3. u = ItemsAt(s, I)
  BY DEF InPhase, PhaseAt
<1>. HIDE DEF I
<1>4. /\ u \in Seq(S) /\ Len(u) = Cardinality(I) /\ DOMAIN u = N
      /\ \A n \in N : e[n] \in I /\ u[n] = s[e[n]]
  BY <1>1, <1>2, <1>3, ItemsAtAre
<1>5. /\ \A m, n \in N : m <= n => e[m] <= e[n]
      /\ \A m, n \in N : e[m] = e[n] => m = n
      /\ \A i \in I : \E n \in N : e[n] = i
  <2>1. e \in Bijection(N, I) /\ \A m, n \in N : m <= n => <<e[m], e[n]>> \in InPlace
    BY <1>2 DEF Enumerates
  <2>. HIDE DEF N
  <2>2. \A m, n \in N : m <= n => e[m] <= e[n]
    BY <2>1 DEF InPlace
  <2>3. /\ \A m, n \in N : e[m] = e[n] => m = n
        /\ \A i \in I : \E n \in N : e[n] = i
    BY <2>1, Fun_BijectionProperties
  <2>. QED BY <2>2, <2>3
<1>6. \A i \in DOMAIN s : i \in I <=> s[i].phase \in phases
  BY DEF I, PhaseAt
<1>7. Cardinality(I) \in Nat
  BY <1>1, IndicesAreFinite
<1>. HIDE DEF u, N
<1>8. \A c \in Range(u) : c \in Range(s) /\ c.phase \in phases
  BY <1>1, <1>4, <1>6 DEF Range
<1>9. ASSUME Ordered(s)
      PROVE  Ordered(u)
  <2>1. \A m \in N : e[m] \in DOMAIN s
    BY <1>1, <1>4
  <2>2. \A m, n \in N : m <= n => s[e[m]].order <= s[e[n]].order
    BY <1>5, <1>9, <2>1 DEF Ordered
  <2>3. \A m \in N : u[m] = s[e[m]]
    BY <1>4
  <2>4. DOMAIN u = N
    BY <1>4
  <2>. QED BY <2>2, <2>3, <2>4 DEF Ordered
<1>10. ASSUME NEW c, c.phase \in phases
       PROVE  Times(c, u) = Times(c, s)
  <2>. DEFINE f == [n \in Where(c, u) |-> e[n]]
  <2>1. f \in [Where(c, u) -> Where(c, s)]
    BY <1>1, <1>4 DEF Where
  <2>2. \A x, y \in Where(c, u) : f[x] = f[y] => x = y
    BY <1>4, <1>5 DEF Where
  <2>3. \A z \in Where(c, s) : \E x \in Where(c, u) : f[x] = z
    <3>. TAKE z \in Where(c, s)
    <3>1. z \in I /\ s[z] = c
      BY <1>6, <1>10 DEF Where
    <3>2. PICK n \in N : e[n] = z
      BY <1>5, <3>1
    <3>3. n \in Where(c, u)
      BY <1>4, <3>1, <3>2 DEF Where
    <3>. QED BY <3>2, <3>3
  <2>4. IsFiniteSet(Where(c, u))
    BY <1>4, TimesIsNatural
  <2>. HIDE DEF f
  <2>. QED BY <2>1, <2>2, <2>3, <2>4, SameNumber DEF Times
<1>11. ASSUME NEW c, c.phase \notin phases
       PROVE  Times(c, u) = 0
  <2>1. Where(c, u) = {}
    BY <1>8, <1>11 DEF Where, Range
  <2>. QED BY <2>1, FS_EmptySet DEF Times
<1>12. DOMAIN u = 1 .. Len(u)
  BY <1>4 DEF N
<1>. QED BY <1>4, <1>7, <1>8, <1>9, <1>10, <1>11, <1>12 DEF u, I

\* Where every command is of these phases, nothing is left out.
LEMMA AllItems ==
  ASSUME NEW S, NEW s \in Seq(S)
  PROVE  ItemsAt(s, DOMAIN s) = s
<1>. DEFINE D == DOMAIN s
            e == [n \in 1 .. Cardinality(D) |-> n]
<1>1. /\ D = 1 .. Len(s) /\ Len(s) \in Nat /\ Cardinality(D) = Len(s)
  BY LenProperties, IndicesAreFinite
<1>2. Enumerates(e, D, InPlace)
  <2>1. e \in [1 .. Cardinality(D) -> D]
    BY <1>1
  <2>2. \A m, n \in 1 .. Cardinality(D) : e[m] = e[n] => m = n
    OBVIOUS
  <2>3. \A i \in D : \E n \in 1 .. Cardinality(D) : e[n] = i
    BY <1>1
  <2>4. \A m, n \in 1 .. Cardinality(D) : m <= n => <<e[m], e[n]>> \in InPlace
    BY DEF InPlace
  <2>. HIDE DEF e, D
  <2>. QED BY <2>1, <2>2, <2>3, <2>4, Fun_IsBij DEF Enumerates
<1>3. /\ ItemsAt(s, D) \in Seq(S) /\ Len(ItemsAt(s, D)) = Len(s)
      /\ \A n \in 1 .. Cardinality(D) : ItemsAt(s, D)[n] = s[e[n]]
  <2>. HIDE DEF e
  <2>. QED BY <1>1, <1>2, ItemsAtAre
<1>4. \A n \in 1 .. Len(s) : ItemsAt(s, D)[n] = s[n]
  BY <1>1, <1>3
<1>. HIDE DEF D
<1>5. ItemsAt(s, D) = s
  BY <1>3, <1>4, SeqEqual
<1>. QED BY <1>5 DEF D

LEMMA NoItemsAt ==
  ASSUME NEW S, NEW s \in Seq(S)
  PROVE  ItemsAt(s, {}) = <<>>
<1>1. {} \in SUBSET DOMAIN s /\ Cardinality({}) = 0
  BY FS_EmptySet
<1>2. PICK e : Enumerates(e, {}, InPlace)
  BY <1>1, ItemsAtEnumerated
<1>3. ItemsAt(s, {}) \in Seq(S) /\ Len(ItemsAt(s, {})) = 0
  BY <1>1, <1>2, ItemsAtAre
<1>. QED BY <1>3, EmptySeq

LEMMA InPhaseOfAll ==
  ASSUME NEW S, NEW s \in Seq(S), NEW phases,
         \A c \in Range(s) : c.phase \in phases
  PROVE  InPhase(s, phases) = s
<1>1. {i \in DOMAIN s : s[i].phase \in phases} = DOMAIN s
  BY DEF Range
<1>. QED BY <1>1, AllItems DEF InPhase

LEMMA InPhaseOfNone ==
  ASSUME NEW S, NEW s \in Seq(S), NEW phases,
         \A c \in Range(s) : c.phase \notin phases
  PROVE  InPhase(s, phases) = <<>>
<1>1. {i \in DOMAIN s : s[i].phase \in phases} = {}
  BY DEF Range
<1>. QED BY <1>1, NoItemsAt DEF InPhase

\* The items of s that are in X.
KeptAt(s, X) == {i \in DOMAIN s : s[i] \in X}
Kept(s, X) == ItemsAt(s, KeptAt(s, X))

\* A filter of a concatenation is the concatenation of the filtered parts.
LEMMA KeptOfConcatenation ==
  ASSUME NEW S, NEW a \in Seq(S), NEW b \in Seq(S), NEW X
  PROVE  Kept(a \o b, X) = Kept(a, X) \o Kept(b, X)
<1>. DEFINE u == a \o b
            I == KeptAt(a, X)
            J == KeptAt(b, X)
            K == KeptAt(u, X)
            M == 1 .. Cardinality(I)
            N == 1 .. Cardinality(J)
<1>1. /\ u \in Seq(S) /\ Len(a) \in Nat /\ Len(b) \in Nat
      /\ DOMAIN a = 1 .. Len(a) /\ DOMAIN b = 1 .. Len(b)
      /\ DOMAIN u = 1 .. (Len(a) + Len(b))
      /\ \A i \in DOMAIN a : u[i] = a[i]
      /\ \A i \in DOMAIN b : u[Len(a) + i] = b[i]
      /\ \A i \in DOMAIN u : i \notin DOMAIN a =>
           /\ i - Len(a) \in DOMAIN b /\ i = Len(a) + (i - Len(a))
           /\ u[i] = b[i - Len(a)]
  BY ConcatenationIs
<1>. HIDE DEF u
<1>2. /\ \A i \in I : i \in K /\ i \in DOMAIN a
      /\ \A j \in J : Len(a) + j \in K /\ j \in DOMAIN b
      /\ \A k \in K : k \in I \/ (k - Len(a) \in J /\ k = Len(a) + (k - Len(a)))
  <2>1. \A i \in DOMAIN a : i \in DOMAIN u
    BY <1>1
  <2>2. \A i \in DOMAIN b : Len(a) + i \in DOMAIN u
    BY <1>1
  <2>3. ASSUME NEW k \in K
        PROVE  k \in I \/ (k - Len(a) \in J /\ k = Len(a) + (k - Len(a)))
    <3>1. CASE k \in DOMAIN a
      BY <1>1, <3>1 DEF KeptAt
    <3>2. CASE k \notin DOMAIN a
      BY <1>1, <3>2 DEF KeptAt
    <3>. QED BY <3>1, <3>2
  <2>. QED BY <1>1, <2>1, <2>2, <2>3 DEF KeptAt
<1>3. /\ I \in SUBSET DOMAIN a /\ J \in SUBSET DOMAIN b /\ K \in SUBSET DOMAIN u
      /\ Kept(a, X) = ItemsAt(a, I) /\ Kept(b, X) = ItemsAt(b, J)
      /\ Kept(u, X) = ItemsAt(u, K)
  BY DEF KeptAt, Kept
<1>. HIDE DEF I, J, K
<1>4. PICK e : Enumerates(e, I, InPlace)
  BY <1>3, ItemsAtEnumerated
<1>5. PICK f : Enumerates(f, J, InPlace)
  BY <1>3, ItemsAtEnumerated
<1>6. Cardinality(I) \in Nat /\ Cardinality(J) \in Nat
  BY <1>3, IndicesAreFinite
<1>7. /\ e \in [M -> I] /\ (\A i \in I : \E m \in M : e[m] = i)
      /\ \A m, n \in M : e[m] = e[n] => m = n
      /\ \A m, n \in M : m <= n => e[m] <= e[n]
  <2>1. e \in Bijection(M, I) /\ \A m, n \in M : m <= n => <<e[m], e[n]>> \in InPlace
    BY <1>4 DEF Enumerates
  <2>. HIDE DEF M
  <2>2. \A m, n \in M : m <= n => e[m] <= e[n]
    BY <2>1 DEF InPlace
  <2>. QED BY <2>1, <2>2, Fun_BijectionProperties
<1>8. /\ f \in [N -> J] /\ (\A j \in J : \E n \in N : f[n] = j)
      /\ \A m, n \in N : f[m] = f[n] => m = n
      /\ \A m, n \in N : m <= n => f[m] <= f[n]
  <2>1. f \in Bijection(N, J) /\ \A m, n \in N : m <= n => <<f[m], f[n]>> \in InPlace
    BY <1>5 DEF Enumerates
  <2>. HIDE DEF N
  <2>2. \A m, n \in N : m <= n => f[m] <= f[n]
    BY <2>1 DEF InPlace
  <2>. QED BY <2>1, <2>2, Fun_BijectionProperties
<1>. DEFINE both == 1 .. (Cardinality(I) + Cardinality(J))
            g == [n \in both |-> IF n \in M THEN e[n] ELSE Len(a) + f[n - Cardinality(I)]]
<1>9. /\ \A n \in both : n \notin M => n - Cardinality(I) \in N
      /\ \A n \in N : n + Cardinality(I) \in both /\ n + Cardinality(I) \notin M
                       /\ n + Cardinality(I) - Cardinality(I) = n
      /\ M \subseteq both
  BY <1>6
<1>10. /\ \A n \in M : g[n] = e[n] /\ g[n] \in I
       /\ \A n \in both \ M : /\ g[n] = Len(a) + f[n - Cardinality(I)]
                              /\ f[n - Cardinality(I)] \in J
  BY <1>7, <1>8, <1>9
<1>. HIDE DEF M, N
<1>11. g \in [both -> K]
  BY <1>2, <1>10
<1>. HIDE DEF g
<1>12. \A k \in K : \E n \in both : g[n] = k
  <2>. TAKE k \in K
  <2>1. CASE k \in I
    BY <1>7, <1>9, <1>10, <2>1
  <2>2. CASE k - Len(a) \in J /\ k = Len(a) + (k - Len(a))
    <3>1. PICK n \in N : f[n] = k - Len(a)
      BY <1>8, <2>2
    <3>. DEFINE x == n + Cardinality(I)
    <3>2. x \in both /\ x \notin M /\ x - Cardinality(I) = n
      BY <1>6, <3>1 DEF M, N
    <3>. HIDE DEF x
    <3>3. g[x] = Len(a) + f[x - Cardinality(I)]
      BY <1>10, <3>2
    <3>. QED BY <2>2, <3>1, <3>2, <3>3
  <2>. QED BY <1>2, <2>1, <2>2
<1>13. \A m, n \in both : m < n => g[m] < g[n]
  <2>. TAKE m \in both, n \in both
  <2>. HAVE m < n
  <2>1. CASE m \in M /\ n \in M
    <3>1. e[m] <= e[n] /\ e[m] # e[n] /\ e[m] \in DOMAIN a /\ e[n] \in DOMAIN a
      BY <1>2, <1>6, <1>7, <2>1
    <3>. QED BY <1>1, <1>10, <2>1, <3>1
  <2>2. CASE m \in M /\ n \notin M
    <3>1. e[m] \in DOMAIN a /\ f[n - Cardinality(I)] \in DOMAIN b
      BY <1>2, <1>10, <2>2
    <3>. QED BY <1>1, <1>10, <2>2, <3>1
  <2>3. CASE m \notin M /\ n \notin M
    <3>. DEFINE x == m - Cardinality(I)
                y == n - Cardinality(I)
    <3>1. x \in N /\ y \in N /\ x <= y /\ x # y
      BY <1>6, <1>9, <2>3
    <3>2. g[m] = Len(a) + f[x] /\ g[n] = Len(a) + f[y]
      BY <1>10, <2>3
    <3>. HIDE DEF x, y
    <3>3. f[x] <= f[y] /\ f[x] # f[y]
      BY <1>8, <3>1
    <3>4. f[x] \in DOMAIN b /\ f[y] \in DOMAIN b
      BY <1>2, <1>8, <3>1
    <3>. QED BY <1>1, <3>2, <3>3, <3>4
  <2>4. CASE m \notin M /\ n \in M
    BY <1>6, <2>4 DEF M
  <2>. QED BY <2>1, <2>2, <2>3, <2>4
<1>14. g \in Bijection(both, K)
  <2>1. \A m, n \in both : g[m] = g[n] => m = n
    <3>1. \A m, n \in both : m < n \/ m = n \/ n < m
      BY <1>6
    <3>2. \A m \in both : g[m] \in DOMAIN u
      BY <1>3, <1>11
    <3>3. \A m \in both : g[m] \in Int
      BY <1>1, <3>2
    <3>. QED BY <1>13, <3>1, <3>3
  <2>. HIDE DEF both
  <2>. QED BY <1>11, <1>12, <2>1, Fun_IsBij
<1>15. IsFiniteSet(both) /\ Cardinality(both) = Cardinality(I) + Cardinality(J)
  <2>1. Cardinality(I) + Cardinality(J) \in Nat
    BY <1>6
  <2>. QED BY <2>1, FS_Interval
<1>16. Cardinality(K) = Cardinality(I) + Cardinality(J)
  <2>. HIDE DEF both
  <2>. QED BY <1>14, <1>15, FS_Bijection DEF ExistsBijection
<1>17. Enumerates(g, K, InPlace)
  <2>1. ASSUME NEW m \in both, NEW n \in both, m <= n
        PROVE  <<g[m], g[n]>> \in InPlace
    <3>1. g[m] \in DOMAIN u /\ g[n] \in DOMAIN u
      BY <1>3, <1>11
    <3>2. g[m] \in Int /\ g[n] \in Int
      BY <1>1, <3>1
    <3>3. m < n \/ m = n
      BY <1>6, <2>1
    <3>. QED BY <1>13, <3>2, <3>3 DEF InPlace
  <2>. QED BY <1>14, <1>16, <2>1 DEF Enumerates
<1>18. /\ ItemsAt(u, K) \in Seq(S) /\ Len(ItemsAt(u, K)) = Cardinality(K)
       /\ \A n \in 1 .. Cardinality(K) : ItemsAt(u, K)[n] = u[g[n]]
  BY <1>1, <1>3, <1>17, ItemsAtAre
<1>19. /\ ItemsAt(a, I) \in Seq(S) /\ Len(ItemsAt(a, I)) = Cardinality(I)
       /\ \A n \in 1 .. Cardinality(I) : ItemsAt(a, I)[n] = a[e[n]]
  BY <1>3, <1>4, ItemsAtAre
<1>20. /\ ItemsAt(b, J) \in Seq(S) /\ Len(ItemsAt(b, J)) = Cardinality(J)
       /\ \A n \in 1 .. Cardinality(J) : ItemsAt(b, J)[n] = b[f[n]]
  BY <1>3, <1>5, ItemsAtAre
<1>. DEFINE P == ItemsAt(a, I)
            Q == ItemsAt(b, J)
<1>. HIDE DEF P, Q
<1>21. /\ P \in Seq(S) /\ Len(P) = Cardinality(I) /\ Q \in Seq(S) /\ Len(Q) = Cardinality(J)
       /\ \A n \in 1 .. Cardinality(I) : P[n] = a[e[n]]
       /\ \A n \in 1 .. Cardinality(J) : Q[n] = b[f[n]]
  BY <1>19, <1>20 DEF P, Q
<1>22. /\ P \o Q \in Seq(S) /\ Len(P \o Q) = Cardinality(I) + Cardinality(J)
       /\ \A n \in both : (P \o Q)[n] = IF n \in M THEN P[n] ELSE Q[n - Cardinality(I)]
  <2>1. /\ P \o Q \in Seq(S) /\ Len(P \o Q) = Len(P) + Len(Q)
        /\ \A i \in 1 .. Len(P) + Len(Q) :
             (P \o Q)[i] = IF i <= Len(P) THEN P[i] ELSE Q[i - Len(P)]
    BY <1>21, ConcatProperties
  <2>. QED BY <1>6, <1>21, <2>1 DEF M
<1>23. \A n \in both : ItemsAt(u, K)[n] = (P \o Q)[n]
  <2>. TAKE n \in both
  <2>1. ItemsAt(u, K)[n] = u[g[n]]
    BY <1>16, <1>18
  <2>2. CASE n \in M
    <3>1. e[n] \in DOMAIN a
      BY <1>2, <1>7, <2>2
    <3>2. P[n] = a[e[n]]
      BY <1>21, <2>2 DEF M
    <3>. QED BY <1>1, <1>10, <1>22, <2>1, <2>2, <3>1, <3>2
  <2>3. CASE n \notin M
    <3>. DEFINE x == n - Cardinality(I)
    <3>1. x \in N /\ g[n] = Len(a) + f[x] /\ (P \o Q)[n] = Q[x]
      BY <1>9, <1>10, <1>22, <2>3
    <3>. HIDE DEF x
    <3>2. f[x] \in DOMAIN b
      BY <1>2, <1>8, <3>1
    <3>3. Q[x] = b[f[x]]
      BY <1>21, <3>1 DEF N
    <3>. QED BY <1>1, <2>1, <3>1, <3>2, <3>3
  <2>. QED BY <2>2, <2>3
<1>24. ItemsAt(u, K) = P \o Q
  BY <1>16, <1>18, <1>22, <1>23, SeqEqual
<1>. QED BY <1>3, <1>24 DEF P, Q, u

LEMMA InPhaseIsKept ==
  ASSUME NEW S, NEW s \in Seq(S), NEW phases
  PROVE  InPhase(s, phases) = Kept(s, {c \in S : c.phase \in phases})
<1>1. \A i \in DOMAIN s : s[i] \in S
  BY ElementOfSeq, LenProperties
<1>2. {i \in DOMAIN s : s[i].phase \in phases} = KeptAt(s, {c \in S : c.phase \in phases})
  BY <1>1 DEF KeptAt
<1>. QED BY <1>2 DEF InPhase, Kept

LEMMA InPhaseOfConcatenation ==
  ASSUME NEW S, NEW a \in Seq(S), NEW b \in Seq(S), NEW phases
  PROVE  InPhase(a \o b, phases) = InPhase(a, phases) \o InPhase(b, phases)
<1>1. a \o b \in Seq(S)
  BY ConcatenationIs
<1>. DEFINE X == {c \in S : c.phase \in phases}
<1>2. InPhase(a, phases) = Kept(a, X) /\ InPhase(b, phases) = Kept(b, X)
  BY InPhaseIsKept
<1>3. InPhase(a \o b, phases) = Kept(a \o b, X)
  BY <1>1, InPhaseIsKept
<1>. HIDE DEF X
<1>4. Kept(a \o b, X) = Kept(a, X) \o Kept(b, X)
  BY KeptOfConcatenation
<1>. QED BY <1>2, <1>3, <1>4

----------------------------------------------------------------------------
(* The actions of a plan, of which some run a command. *)

ActionNames ==
  {"CREATE_OR_RESUME", "WAIT_READY", "RESOLVE_DEPENDENCY_CONTRACTS", "WAIT_SSH",
   "WRITE_RUNTIME_CONFIG", "LAUNCH_AGENT", "MONITOR_KEEP_ALIVE", "RUN_SSH_COMMAND"}
CommandNames ==
  {"web_terminal", "harness", "llm", "database-client", "local_sql", "chroma"}
    \union {"", "review", "deploy", "superpowers", "anthropic_skills", "custom"}
    \union {"command", "package", "git", "runtime"}

AnyCommands ==
  [what : CommandNames, phase : Phases, order : Int, policy : Policies]

AnyActions ==
  {a \in [do : ActionNames, role : ServiceSlots \union {"agent"},
          command : AnyCommands \union {NoCommand}] :
     a.do = "RUN_SSH_COMMAND" => a.command \in AnyCommands}

\* The actions that run a command of these phases.
RunsIn(phases) ==
  {a \in AnyActions : a.do = "RUN_SSH_COMMAND" /\ a.command.phase \in phases}

\* The actions of s run the commands c, whatever phases one looks at.
Carries(s, c) ==
  /\ s \in Seq(AnyActions) /\ c \in Seq(AnyCommands)
  /\ \A phases \in SUBSET Phases : Kept(s, RunsIn(phases)) = Runs(InPhase(c, phases))

LEMMA RunsAre ==
  ASSUME NEW c \in Seq(AnyCommands)
  PROVE  /\ Runs(c) \in Seq(AnyActions) /\ Len(Runs(c)) = Len(c)
         /\ DOMAIN Runs(c) = DOMAIN c
         /\ \A i \in DOMAIN c : /\ Runs(c)[i].do = "RUN_SSH_COMMAND"
                               /\ Runs(c)[i].command = c[i] /\ c[i] \in AnyCommands
                               /\ Runs(c)[i] = PlanAction("RUN_SSH_COMMAND", "agent", c[i])
         /\ [i \in DOMAIN Runs(c) |-> Runs(c)[i].command] = c
<1>1. /\ DOMAIN c = 1 .. Len(c) /\ Len(c) \in Nat
      /\ \A i \in DOMAIN c : c[i] \in AnyCommands
  BY ElementOfSeq, LenProperties
<1>2. \A x \in AnyCommands : PlanAction("RUN_SSH_COMMAND", "agent", x) \in AnyActions
  BY DEF AnyActions, PlanAction, ActionNames
<1>3. Runs(c) \in [1 .. Len(c) -> AnyActions]
  BY <1>1, <1>2 DEF Runs
<1>4. Runs(c) \in Seq(AnyActions) /\ Len(Runs(c)) = Len(c) /\ DOMAIN Runs(c) = DOMAIN c
  BY <1>1, <1>3, IsASeq, LenProperties
<1>5. \A i \in DOMAIN c : Runs(c)[i] = PlanAction("RUN_SSH_COMMAND", "agent", c[i])
  BY DEF Runs
<1>6. \A i \in DOMAIN c : Runs(c)[i].do = "RUN_SSH_COMMAND" /\ Runs(c)[i].command = c[i]
  <2>1. \A x : /\ PlanAction("RUN_SSH_COMMAND", "agent", x).do = "RUN_SSH_COMMAND"
               /\ PlanAction("RUN_SSH_COMMAND", "agent", x).command = x
    BY DEF PlanAction
  <2>. QED BY <1>5, <2>1
<1>. DEFINE d == [i \in DOMAIN Runs(c) |-> Runs(c)[i].command]
<1>7. d = c
  <2>1. DOMAIN d = DOMAIN c /\ \A i \in DOMAIN c : d[i] = c[i]
    BY <1>4, <1>6
  <2>2. d \in [1 .. Len(c) -> AnyCommands]
    BY <1>1, <1>4, <2>1
  <2>3. d \in Seq(AnyCommands) /\ Len(d) = Len(c)
    BY <1>1, <2>2, IsASeq, LenProperties
  <2>. HIDE DEF d
  <2>. QED BY <1>1, <2>1, <2>3, SeqEqual
<1>. QED BY <1>1, <1>4, <1>5, <1>6, <1>7

LEMMA RunsOfConcatenation ==
  ASSUME NEW a \in Seq(AnyCommands), NEW b \in Seq(AnyCommands)
  PROVE  Runs(a \o b) = Runs(a) \o Runs(b)
<1>. DEFINE u == a \o b
            P == Runs(a)
            Q == Runs(b)
            R == Runs(u)
<1>1. u \in Seq(AnyCommands) /\ Len(u) = Len(a) + Len(b) /\ Len(a) \in Nat /\ Len(b) \in Nat
  BY ConcatProperties, LenProperties
<1>2. \A i \in 1 .. Len(a) + Len(b) : u[i] = IF i <= Len(a) THEN a[i] ELSE b[i - Len(a)]
  BY ConcatProperties
<1>3. DOMAIN a = 1 .. Len(a) /\ DOMAIN b = 1 .. Len(b)
  BY LenProperties
<1>. HIDE DEF u
<1>4. DOMAIN u = 1 .. Len(a) + Len(b)
  BY <1>1, LenProperties
<1>5. /\ P \in Seq(AnyActions) /\ Len(P) = Len(a)
      /\ \A i \in DOMAIN a : P[i] = PlanAction("RUN_SSH_COMMAND", "agent", a[i])
  BY RunsAre
<1>6. /\ Q \in Seq(AnyActions) /\ Len(Q) = Len(b)
      /\ \A i \in DOMAIN b : Q[i] = PlanAction("RUN_SSH_COMMAND", "agent", b[i])
  BY RunsAre
<1>7. /\ R \in Seq(AnyActions) /\ Len(R) = Len(u)
      /\ \A i \in DOMAIN u : R[i] = PlanAction("RUN_SSH_COMMAND", "agent", u[i])
  BY <1>1, RunsAre
<1>. HIDE DEF P, Q, R
<1>8. /\ P \o Q \in Seq(AnyActions) /\ Len(P \o Q) = Len(P) + Len(Q)
      /\ \A i \in 1 .. Len(P) + Len(Q) :
           (P \o Q)[i] = IF i <= Len(P) THEN P[i] ELSE Q[i - Len(P)]
  <2>1. P \in Seq(AnyActions) /\ Q \in Seq(AnyActions)
    BY <1>5, <1>6
  <2>. QED BY <2>1, ConcatProperties
<1>9. ASSUME NEW i \in 1 .. Len(u)
      PROVE  R[i] = (P \o Q)[i]
  <2>1. CASE i <= Len(a)
    <3>1. i \in DOMAIN a /\ u[i] = a[i] /\ (P \o Q)[i] = P[i] /\ i \in DOMAIN u
      BY <1>1, <1>2, <1>3, <1>4, <1>5, <1>6, <1>8, <2>1
    <3>. QED BY <1>5, <1>7, <3>1
  <2>2. CASE ~(i <= Len(a))
    <3>. DEFINE x == i - Len(a)
    <3>1. x \in DOMAIN b /\ u[i] = b[x] /\ (P \o Q)[i] = Q[x] /\ i \in DOMAIN u
      BY <1>1, <1>2, <1>3, <1>4, <1>5, <1>6, <1>8, <2>2
    <3>. HIDE DEF x
    <3>. QED BY <1>6, <1>7, <3>1
  <2>. QED BY <2>1, <2>2
<1>10. R = P \o Q
  BY <1>1, <1>5, <1>6, <1>7, <1>8, <1>9, SeqEqual
<1>. QED BY <1>10 DEF P, Q, R, u

LEMMA KeptOfRuns ==
  ASSUME NEW c \in Seq(AnyCommands), NEW phases \in SUBSET Phases
  PROVE  Kept(Runs(c), RunsIn(phases)) = Runs(InPhase(c, phases))
<1>. DEFINE s == Runs(c)
            I == PhaseAt(c, phases)
            u == ItemsAt(s, I)
            v == ItemsAt(c, I)
            w == Runs(v)
<1>1. /\ s \in Seq(AnyActions) /\ DOMAIN s = DOMAIN c
      /\ \A i \in DOMAIN c : /\ s[i].do = "RUN_SSH_COMMAND" /\ s[i].command = c[i]
                            /\ s[i] = PlanAction("RUN_SSH_COMMAND", "agent", c[i])
  BY RunsAre
<1>. HIDE DEF s
<1>2. \A i \in DOMAIN s : s[i] \in AnyActions
  BY <1>1, ElementOfSeq, LenProperties
<1>3. KeptAt(s, RunsIn(phases)) = I
  BY <1>1, <1>2 DEF KeptAt, RunsIn, PhaseAt
<1>4. I \in SUBSET DOMAIN c
  BY DEF PhaseAt
<1>5. InPhase(c, phases) = v
  BY DEF InPhase, PhaseAt
<1>. HIDE DEF I
<1>6. PICK e : Enumerates(e, I, InPlace)
  BY <1>4, ItemsAtEnumerated
<1>7. /\ u \in Seq(AnyActions) /\ Len(u) = Cardinality(I)
      /\ \A n \in 1 .. Cardinality(I) : e[n] \in I /\ u[n] = s[e[n]]
  BY <1>1, <1>4, <1>6, ItemsAtAre
<1>8. /\ v \in Seq(AnyCommands) /\ Len(v) = Cardinality(I) /\ DOMAIN v = 1 .. Cardinality(I)
      /\ \A n \in 1 .. Cardinality(I) : v[n] = c[e[n]]
  BY <1>4, <1>6, ItemsAtAre
<1>. HIDE DEF v
<1>9. /\ w \in Seq(AnyActions) /\ Len(w) = Len(v)
      /\ \A i \in DOMAIN v : w[i] = PlanAction("RUN_SSH_COMMAND", "agent", v[i])
  BY <1>8, RunsAre
<1>. HIDE DEF u, w
<1>10. ASSUME NEW n \in 1 .. Len(u)
       PROVE  u[n] = w[n]
  <2>1. n \in 1 .. Cardinality(I)
    BY <1>7
  <2>2. e[n] \in DOMAIN c /\ u[n] = s[e[n]] /\ v[n] = c[e[n]] /\ n \in DOMAIN v
    BY <1>4, <1>7, <1>8, <2>1
  <2>3. w[n] = PlanAction("RUN_SSH_COMMAND", "agent", c[e[n]])
    BY <1>9, <2>2
  <2>. QED BY <1>1, <2>2, <2>3
<1>11. u = w
  BY <1>7, <1>8, <1>9, <1>10, SeqEqual
<1>. QED BY <1>3, <1>5, <1>11 DEF u, w, s, Kept

LEMMA KeptOfOthers ==
  ASSUME NEW s \in Seq(AnyActions), NEW phases,
         \A i \in DOMAIN s : s[i].do # "RUN_SSH_COMMAND"
  PROVE  Kept(s, RunsIn(phases)) = <<>>
<1>1. KeptAt(s, RunsIn(phases)) = {}
  BY DEF KeptAt, RunsIn
<1>. QED BY <1>1, NoItemsAt DEF Kept

LEMMA CarriesRuns ==
  ASSUME NEW s, NEW c, Carries(s, c), NEW d \in Seq(AnyCommands)
  PROVE  Carries(s \o Runs(d), c \o d)
<1>1. s \in Seq(AnyActions) /\ c \in Seq(AnyCommands) /\ Runs(d) \in Seq(AnyActions)
  BY RunsAre DEF Carries
<1>2. s \o Runs(d) \in Seq(AnyActions) /\ c \o d \in Seq(AnyCommands)
  BY <1>1, ConcatProperties
<1>3. ASSUME NEW phases \in SUBSET Phases
      PROVE  Kept(s \o Runs(d), RunsIn(phases)) = Runs(InPhase(c \o d, phases))
  <2>1. Kept(s \o Runs(d), RunsIn(phases)) = Kept(s, RunsIn(phases)) \o Kept(Runs(d), RunsIn(phases))
    BY <1>1, KeptOfConcatenation
  <2>2. Kept(s, RunsIn(phases)) = Runs(InPhase(c, phases))
    BY DEF Carries
  <2>3. Kept(Runs(d), RunsIn(phases)) = Runs(InPhase(d, phases))
    BY KeptOfRuns
  <2>4. InPhase(c \o d, phases) = InPhase(c, phases) \o InPhase(d, phases)
    BY <1>1, InPhaseOfConcatenation
  <2>5. InPhase(c, phases) \in Seq(AnyCommands) /\ InPhase(d, phases) \in Seq(AnyCommands)
    BY <1>1, InPhaseKeeps
  <2>. QED BY <2>1, <2>2, <2>3, <2>4, <2>5, RunsOfConcatenation
<1>. QED BY <1>2, <1>3 DEF Carries

LEMMA CarriesOthers ==
  ASSUME NEW s, NEW c, Carries(s, c), NEW d \in Seq(AnyActions),
         \A i \in DOMAIN d : d[i].do # "RUN_SSH_COMMAND"
  PROVE  Carries(s \o d, c)
<1>1. s \in Seq(AnyActions) /\ c \in Seq(AnyCommands)
  BY DEF Carries
<1>2. s \o d \in Seq(AnyActions)
  BY <1>1, ConcatProperties
<1>3. ASSUME NEW phases \in SUBSET Phases
      PROVE  Kept(s \o d, RunsIn(phases)) = Runs(InPhase(c, phases))
  <2>1. Kept(s \o d, RunsIn(phases)) = Kept(s, RunsIn(phases)) \o Kept(d, RunsIn(phases))
    BY <1>1, KeptOfConcatenation
  <2>2. Kept(s, RunsIn(phases)) = Runs(InPhase(c, phases))
    BY DEF Carries
  <2>3. Kept(d, RunsIn(phases)) = <<>>
    BY KeptOfOthers
  <2>4. Runs(InPhase(c, phases)) \in Seq(AnyActions)
    BY <1>1, InPhaseKeeps, RunsAre
  <2>. QED BY <2>1, <2>2, <2>3, <2>4, ConcatEmptySeq
<1>. QED BY <1>1, <1>2, <1>3 DEF Carries

LEMMA CarriesNothing ==
  ASSUME NEW s \in Seq(AnyActions),
         \A i \in DOMAIN s : s[i].do # "RUN_SSH_COMMAND"
  PROVE  Carries(s, <<>>)
<1>1. <<>> \in Seq(AnyCommands) /\ Len(<<>>) = 0 /\ Range(<<>>) = {}
  BY EmptySeq DEF Range
<1>2. ASSUME NEW phases \in SUBSET Phases
      PROVE  Kept(s, RunsIn(phases)) = Runs(InPhase(<<>>, phases))
  <2>1. Kept(s, RunsIn(phases)) = <<>>
    BY KeptOfOthers
  <2>2. InPhase(<<>>, phases) = <<>>
    BY <1>1, InPhaseOfNone
  <2>3. Runs(<<>>) \in Seq(AnyActions) /\ Len(Runs(<<>>)) = 0
    BY <1>1, RunsAre
  <2>. QED BY <2>1, <2>2, <2>3, EmptySeq
<1>. QED BY <1>1, <1>2 DEF Carries

\* What a plan may do before the launch, and after it.
Starting ==
  {a \in AnyActions : /\ a.do # "LAUNCH_AGENT"
                      /\ a.do = "RUN_SSH_COMMAND" => a.command.phase = "before_start"}
Running ==
  {a \in AnyActions : /\ a.do # "LAUNCH_AGENT"
                      /\ a.do = "RUN_SSH_COMMAND" => a.command.phase # "before_start"}

LaunchesAt(s, n) ==
  /\ n \in DOMAIN s /\ s[n].do = "LAUNCH_AGENT"
  /\ \A i \in DOMAIN s : i < n => s[i] \in Starting
  /\ \A i \in DOMAIN s : n < i => s[i] \in Running

LEMMA LaunchComes ==
  ASSUME NEW s \in Seq(AnyActions), NEW b \in Seq(AnyActions), s \in Seq(Starting),
         Len(b) = 1, b[1].do = "LAUNCH_AGENT"
  PROVE  LaunchesAt(s \o b, Len(s) + 1)
<1>. DEFINE u == s \o b
<1>1. /\ Len(s) \in Nat /\ DOMAIN b = 1 .. 1
      /\ DOMAIN s = 1 .. Len(s) /\ DOMAIN u = 1 .. (Len(s) + 1)
      /\ \A i \in DOMAIN s : u[i] = s[i]
      /\ \A i \in DOMAIN b : u[Len(s) + i] = b[i]
  <2>1. /\ Len(s) \in Nat /\ DOMAIN b = 1 .. Len(b)
        /\ DOMAIN s = 1 .. Len(s) /\ DOMAIN u = 1 .. (Len(s) + Len(b))
        /\ \A i \in DOMAIN s : u[i] = s[i]
        /\ \A i \in DOMAIN b : u[Len(s) + i] = b[i]
    <3>1. s \in Seq(AnyActions) /\ b \in Seq(AnyActions)
      OBVIOUS
    <3>2. /\ DOMAIN s = 1 .. Len(s) /\ Len(s) \in Nat /\ DOMAIN b = 1 .. Len(b) /\ Len(b) \in Nat
      BY <3>1, LenProperties
    <3>3. /\ u \in Seq(AnyActions) /\ Len(u) = Len(s) + Len(b)
          /\ \A i \in 1 .. Len(s) + Len(b) :
               u[i] = IF i <= Len(s) THEN s[i] ELSE b[i - Len(s)]
      BY <3>1, ConcatProperties
    <3>. HIDE DEF u
    <3>4. DOMAIN u = 1 .. (Len(s) + Len(b))
      BY <3>3, LenProperties
    <3>. QED BY <3>2, <3>3, <3>4
  <2>. HIDE DEF u
  <2>. QED BY <2>1
<1>2. \A i \in DOMAIN s : s[i] \in Starting
  BY ElementOfSeq, LenProperties
<1>. HIDE DEF u
<1>3. u[Len(s) + 1] = b[1] /\ Len(s) + 1 \in DOMAIN u
  BY <1>1
<1>4. \A i \in DOMAIN u : i < Len(s) + 1 => i \in DOMAIN s
  BY <1>1
<1>5. \A i \in DOMAIN u : ~(Len(s) + 1 < i)
  BY <1>1
<1>6. LaunchesAt(u, Len(s) + 1)
  BY <1>1, <1>2, <1>3, <1>4, <1>5 DEF LaunchesAt
<1>. QED BY <1>6 DEF u

LEMMA LaunchStays ==
  ASSUME NEW s \in Seq(AnyActions), NEW b \in Seq(AnyActions), NEW n,
         LaunchesAt(s, n), b \in Seq(Running)
  PROVE  LaunchesAt(s \o b, n)
<1>. DEFINE u == s \o b
<1>1. /\ Len(s) \in Nat /\ Len(b) \in Nat /\ DOMAIN b = 1 .. Len(b)
      /\ DOMAIN s = 1 .. Len(s) /\ DOMAIN u = 1 .. (Len(s) + Len(b))
      /\ \A i \in DOMAIN s : u[i] = s[i]
      /\ \A i \in DOMAIN u : i \notin DOMAIN s =>
           i - Len(s) \in DOMAIN b /\ u[i] = b[i - Len(s)]
  BY ConcatenationIs
<1>2. \A i \in DOMAIN b : b[i] \in Running
  BY ElementOfSeq, LenProperties
<1>. HIDE DEF u
<1>3. n \in DOMAIN u /\ u[n].do = "LAUNCH_AGENT"
  BY <1>1 DEF LaunchesAt
<1>4. \A i \in DOMAIN u : i < n => i \in DOMAIN s
  BY <1>1 DEF LaunchesAt
<1>5. \A i \in DOMAIN u : i \notin DOMAIN s => u[i] \in Running
  BY <1>1, <1>2
<1>6. LaunchesAt(u, n)
  BY <1>1, <1>3, <1>4, <1>5 DEF LaunchesAt
<1>. QED BY <1>6 DEF u

LEMMA RunsWithin ==
  ASSUME NEW c \in Seq(AnyCommands)
  PROVE  /\ (\A x \in Range(c) : x.phase = "before_start") => Runs(c) \in Seq(Starting)
         /\ (\A x \in Range(c) : x.phase # "before_start") => Runs(c) \in Seq(Running)
<1>. DEFINE s == Runs(c)
<1>1. /\ s \in Seq(AnyActions) /\ Len(s) = Len(c) /\ DOMAIN s = DOMAIN c
      /\ \A i \in DOMAIN c : s[i].do = "RUN_SSH_COMMAND" /\ s[i].command = c[i]
  BY RunsAre
<1>. HIDE DEF s
<1>2. DOMAIN s = 1 .. Len(s) /\ Len(s) \in Nat /\ \A i \in DOMAIN s : s[i] \in AnyActions
  BY <1>1, ElementOfSeq, LenProperties
<1>3. s \in [1 .. Len(s) -> AnyActions]
  BY <1>1, <1>2, LenProperties
<1>4. \A i \in DOMAIN s : c[i] \in Range(c)
  BY <1>1 DEF Range
<1>5. ASSUME \A x \in Range(c) : x.phase = "before_start"
      PROVE  s \in Seq(Starting)
  <2>1. \A i \in DOMAIN s : s[i] \in Starting
    BY <1>1, <1>2, <1>4, <1>5 DEF Starting
  <2>2. s \in [1 .. Len(s) -> Starting]
    BY <1>2, <1>3, <2>1
  <2>. QED BY <1>2, <2>2, IsASeq
<1>6. ASSUME \A x \in Range(c) : x.phase # "before_start"
      PROVE  s \in Seq(Running)
  <2>1. \A i \in DOMAIN s : s[i] \in Running
    BY <1>1, <1>2, <1>4, <1>6 DEF Running
  <2>2. s \in [1 .. Len(s) -> Running]
    BY <1>2, <1>3, <2>1
  <2>. QED BY <1>2, <2>2, IsASeq
<1>. QED BY <1>5, <1>6 DEF s

\* Actions that run no command: at any place, except the launch.
Quiet ==
  {a \in AnyActions : a.do # "LAUNCH_AGENT" /\ a.do # "RUN_SSH_COMMAND"}

LEMMA QuietActions ==
  ASSUME NEW s \in Seq(Quiet)
  PROVE  /\ s \in Seq(AnyActions) /\ s \in Seq(Starting) /\ s \in Seq(Running)
         /\ \A i \in DOMAIN s : s[i].do # "RUN_SSH_COMMAND"
<1>1. \A i \in DOMAIN s : s[i] \in Quiet
  BY ElementOfSeq, LenProperties
<1>2. Len(s) \in Nat /\ s \in [1 .. Len(s) -> Quiet] /\ DOMAIN s = 1 .. Len(s)
  BY LenProperties
<1>3. Quiet \subseteq AnyActions /\ Quiet \subseteq Starting /\ Quiet \subseteq Running
  BY DEF Quiet, Starting, Running
<1>4. /\ s \in [1 .. Len(s) -> AnyActions] /\ s \in [1 .. Len(s) -> Starting]
      /\ s \in [1 .. Len(s) -> Running]
  BY <1>2, <1>3
<1>. QED BY <1>1, <1>2, <1>4, IsASeq DEF Quiet

LEMMA OneQuiet ==
  ASSUME NEW do \in ActionNames \ {"LAUNCH_AGENT", "RUN_SSH_COMMAND"}
  PROVE  <<PlanAction(do, "agent", NoCommand)>> \in Seq(Quiet)
<1>1. PlanAction(do, "agent", NoCommand) \in Quiet
  BY DEF PlanAction, Quiet, AnyActions
<1>. QED BY <1>1

LEMMA EachQuiet ==
  ASSUME NEW do \in ActionNames \ {"LAUNCH_AGENT", "RUN_SSH_COMMAND"},
         NEW deps \in Seq(ServiceSlots)
  PROVE  [i \in DOMAIN deps |-> PlanAction(do, deps[i], NoCommand)] \in Seq(Quiet)
<1>1. DOMAIN deps = 1 .. Len(deps) /\ Len(deps) \in Nat /\ \A i \in DOMAIN deps : deps[i] \in ServiceSlots
  BY ElementOfSeq, LenProperties
<1>2. \A role \in ServiceSlots : PlanAction(do, role, NoCommand) \in Quiet
  BY DEF PlanAction, Quiet, AnyActions
<1>3. [i \in DOMAIN deps |-> PlanAction(do, deps[i], NoCommand)] \in [1 .. Len(deps) -> Quiet]
  BY <1>1, <1>2
<1>. QED BY <1>1, <1>3, IsASeq

Late == {"after_start", "after_ready"}

\* The commands of a plan in their order.
InOrder(user, made) ==
  SortedByOrder(made) \o InPhase(SortedByOrder(user), {"before_start"})
    \o InPhase(SortedByOrder(user), Late) \o InPhase(SortedByOrder(user), {"teardown"})

LEMMA ActionsCarry ==
  ASSUME NEW d, NEW contract, NEW deps \in Seq(ServiceSlots),
         contract.commands \in Seq(AnyCommands),
         \A c \in Range(contract.commands) : c.phase = "before_start",
         CommandsOf(d.commands) \in Seq(AnyCommands)
  PROVE  /\ Carries(Actions(d, contract, deps),
                    InOrder(CommandsOf(d.commands), contract.commands))
         /\ \E n : LaunchesAt(Actions(d, contract, deps), n)
<1>. DEFINE made == contract.commands
            user == CommandsOf(d.commands)
            Each(do) == [i \in DOMAIN deps |-> PlanAction(do, deps[i], NoCommand)]
            One(do) == <<PlanAction(do, "agent", NoCommand)>>
            A == SortedByOrder(InPhase(made, {"before_start"}))
            B == InPhase(SortedByOrder(user), {"before_start"})
            G == SortedByOrder(InPhase(made, {"after_start", "after_ready"}))
            L == InPhase(SortedByOrder(user), {"after_start", "after_ready"})
            T == InPhase(SortedByOrder(user), {"teardown"})
            ask == IF deps = <<>> THEN <<>> ELSE One("RESOLVE_DEPENDENCY_CONTRACTS")
            keep == IF Wired(d.keep_alive) THEN One("MONITOR_KEEP_ALIVE") ELSE <<>>
            s1 == Each("CREATE_OR_RESUME") \o Each("WAIT_READY") \o ask
                    \o One("CREATE_OR_RESUME") \o One("WAIT_SSH")
            s2 == s1 \o Runs(A) \o Runs(B) \o One("WRITE_RUNTIME_CONFIG")
            s3 == s2 \o One("LAUNCH_AGENT")
            s4 == s3 \o Runs(G) \o Runs(L) \o keep \o Runs(T)
<1>1. Actions(d, contract, deps) = s4
  BY DEF Actions
<1>2. \A c \in AnyCommands : c.order \in Int /\ c.phase \in Phases
  BY DEF AnyCommands
<1>3. Orders(made) /\ Orders(user)
  BY <1>2, ElementOfSeq, LenProperties DEF Orders
<1>4. SortedByOrder(user) \in Seq(AnyCommands)
  BY <1>3, SortedKeeps
<1>5. InPhase(made, {"before_start"}) = made /\ InPhase(made, {"after_start", "after_ready"}) = <<>>
  BY InPhaseOfAll, InPhaseOfNone
<1>6. A \in Seq(AnyCommands) /\ \A x \in Range(A) : x.phase = "before_start"
  BY <1>3, <1>5, SortedKeeps
<1>7. G = <<>> /\ G \in Seq(AnyCommands)
  <2>1. <<>> \in Seq(AnyCommands) /\ Len(<<>>) = 0 /\ Orders(<<>>)
    BY EmptySeq DEF Orders
  <2>2. SortedByOrder(<<>>) \in Seq(AnyCommands) /\ Len(SortedByOrder(<<>>)) = 0
    BY <2>1, SortedKeeps
  <2>. QED BY <1>5, <2>2, EmptySeq
<1>8. /\ B \in Seq(AnyCommands) /\ L \in Seq(AnyCommands) /\ T \in Seq(AnyCommands)
      /\ \A x \in Range(B) : x.phase = "before_start"
      /\ \A x \in Range(L) : x.phase # "before_start"
      /\ \A x \in Range(T) : x.phase # "before_start"
  <2>1. /\ B \in Seq(AnyCommands) /\ \A x \in Range(B) : x.phase \in {"before_start"}
    BY <1>4, InPhaseKeeps
  <2>2. /\ L \in Seq(AnyCommands) /\ \A x \in Range(L) : x.phase \in {"after_start", "after_ready"}
    BY <1>4, InPhaseKeeps
  <2>3. /\ T \in Seq(AnyCommands) /\ \A x \in Range(T) : x.phase \in {"teardown"}
    BY <1>4, InPhaseKeeps
  <2>. QED BY <2>1, <2>2, <2>3
<1>9. InOrder(user, made) = A \o B \o L \o T
  BY <1>5 DEF InOrder, Late
<1>10. <<>> \in Seq(Quiet)
  BY EmptySeq
<1>11. /\ Each("CREATE_OR_RESUME") \in Seq(Quiet) /\ Each("WAIT_READY") \in Seq(Quiet)
       /\ ask \in Seq(Quiet) /\ One("CREATE_OR_RESUME") \in Seq(Quiet)
       /\ One("WAIT_SSH") \in Seq(Quiet) /\ One("WRITE_RUNTIME_CONFIG") \in Seq(Quiet)
       /\ keep \in Seq(Quiet)
  BY <1>10, OneQuiet, EachQuiet DEF ActionNames
<1>12. s1 \in Seq(Quiet)
  <2>. HIDE DEF Each, One, ask
  <2>. QED BY <1>11, ConcatProperties
<1>13. One("LAUNCH_AGENT") \in Seq(AnyActions) /\ Len(One("LAUNCH_AGENT")) = 1
       /\ One("LAUNCH_AGENT")[1].do = "LAUNCH_AGENT"
  <2>1. PlanAction("LAUNCH_AGENT", "agent", NoCommand) \in AnyActions
    BY DEF PlanAction, AnyActions, ActionNames
  <2>2. PlanAction("LAUNCH_AGENT", "agent", NoCommand).do = "LAUNCH_AGENT"
    BY DEF PlanAction
  <2>. QED BY <2>1, <2>2
<1>. DEFINE write == One("WRITE_RUNTIME_CONFIG")
            launch == One("LAUNCH_AGENT")
<1>14. /\ write \in Seq(Quiet) /\ launch \in Seq(AnyActions) /\ Len(launch) = 1
       /\ launch[1].do = "LAUNCH_AGENT"
  BY <1>11, <1>13
<1>15. \A i \in DOMAIN launch : launch[i].do # "RUN_SSH_COMMAND"
  BY <1>14, LenProperties
<1>16. s4 = ((((((((s1 \o Runs(A)) \o Runs(B)) \o write) \o launch) \o Runs(G)) \o Runs(L)) \o keep) \o Runs(T))
  OBVIOUS
<1>. HIDE DEF s1, A, B, G, L, T, ask, keep, write, launch, made, user
<1>17. Carries(s4, A \o B \o L \o T)
  <2>1. Carries(s1, <<>>)
    BY <1>12, QuietActions, CarriesNothing
  <2>2. Carries(s1 \o Runs(A), <<>> \o A)
    BY <2>1, <1>6, CarriesRuns
  <2>3. Carries(s1 \o Runs(A), A)
    BY <2>2, <1>6, ConcatEmptySeq
  <2>4. Carries(s1 \o Runs(A) \o Runs(B), A \o B)
    BY <2>3, <1>8, CarriesRuns
  <2>5. Carries(s1 \o Runs(A) \o Runs(B) \o write, A \o B)
    BY <2>4, <1>14, QuietActions, CarriesOthers
  <2>6. Carries(s1 \o Runs(A) \o Runs(B) \o write \o launch, A \o B)
    BY <2>5, <1>14, <1>15, CarriesOthers
  <2>7. Carries(s1 \o Runs(A) \o Runs(B) \o write \o launch \o Runs(G), A \o B \o G)
    BY <2>6, <1>7, CarriesRuns
  <2>8. A \o B \o G = A \o B
    BY <1>6, <1>7, <1>8, ConcatProperties, ConcatEmptySeq
  <2>9. Carries(s1 \o Runs(A) \o Runs(B) \o write \o launch \o Runs(G), A \o B)
    BY <2>7, <2>8
  <2>10. Carries(s1 \o Runs(A) \o Runs(B) \o write \o launch \o Runs(G) \o Runs(L), A \o B \o L)
    BY <2>9, <1>8, CarriesRuns
  <2>11. Carries(s1 \o Runs(A) \o Runs(B) \o write \o launch \o Runs(G) \o Runs(L) \o keep, A \o B \o L)
    BY <2>10, <1>11, QuietActions, CarriesOthers
  <2>12. Carries(s1 \o Runs(A) \o Runs(B) \o write \o launch \o Runs(G) \o Runs(L) \o keep \o Runs(T),
                 A \o B \o L \o T)
    BY <2>11, <1>8, CarriesRuns
  <2>. QED BY <2>12, <1>16
<1>18. \E n : LaunchesAt(s4, n)
  <2>1. /\ Runs(A) \in Seq(Starting) /\ Runs(B) \in Seq(Starting)
        /\ Runs(G) \in Seq(Running) /\ Runs(L) \in Seq(Running) /\ Runs(T) \in Seq(Running)
        /\ Runs(A) \in Seq(AnyActions) /\ Runs(B) \in Seq(AnyActions)
        /\ Runs(G) \in Seq(AnyActions) /\ Runs(L) \in Seq(AnyActions) /\ Runs(T) \in Seq(AnyActions)
    <3>1. \A x \in Range(G) : x.phase # "before_start"
      BY <1>7 DEF Range
    <3>. QED BY <3>1, <1>6, <1>7, <1>8, RunsWithin, RunsAre
  <2>2. /\ s1 \in Seq(Starting) /\ s1 \in Seq(AnyActions)
        /\ write \in Seq(Starting) /\ write \in Seq(AnyActions)
        /\ keep \in Seq(Running) /\ keep \in Seq(AnyActions)
    BY <1>11, <1>12, <1>14, QuietActions
  <2>. DEFINE q2 == s1 \o Runs(A) \o Runs(B) \o write
              q3 == q2 \o launch
              q4 == q3 \o Runs(G)
              q5 == q4 \o Runs(L)
              q6 == q5 \o keep
              q7 == q6 \o Runs(T)
              n == Len(q2) + 1
  <2>3. q2 \in Seq(Starting) /\ q2 \in Seq(AnyActions)
    BY <2>1, <2>2, ConcatProperties
  <2>4. q7 = s4
    BY <1>16
  <2>. HIDE DEF q2
  <2>5. q3 \in Seq(AnyActions) /\ LaunchesAt(q3, n)
    BY <2>3, <1>14, LaunchComes, ConcatProperties
  <2>. HIDE DEF q3, n
  <2>6. q4 \in Seq(AnyActions) /\ LaunchesAt(q4, n)
    BY <2>1, <2>5, LaunchStays, ConcatProperties
  <2>. HIDE DEF q4
  <2>7. q5 \in Seq(AnyActions) /\ LaunchesAt(q5, n)
    BY <2>1, <2>6, LaunchStays, ConcatProperties
  <2>. HIDE DEF q5
  <2>8. q6 \in Seq(AnyActions) /\ LaunchesAt(q6, n)
    BY <2>2, <2>7, LaunchStays, ConcatProperties
  <2>. HIDE DEF q6
  <2>9. LaunchesAt(q7, n)
    BY <2>1, <2>8, LaunchStays
  <2>. QED BY <2>4, <2>9
<1>. QED BY <1>1, <1>9, <1>17, <1>18 DEF made, user

----------------------------------------------------------------------------
(* What the nodes contribute: commands for before the start, and secrets   *)
(* that the environment of the same contract does not contradict.          *)

TerminalCommand == Command("web_terminal", "before_start", -40000, "continue")

\* Only the terminal's command has the lowest order.
Generated(cs) ==
  /\ cs \in Seq(AnyCommands)
  /\ \A c \in Range(cs) : /\ c.phase = "before_start" /\ -40000 <= c.order
                          /\ c.order = -40000 => c = TerminalCommand

SecretVarsFor ==
  [llm |-> {"OPENAI_API_KEY", "HF_TOKEN", "ANTHROPIC_API_KEY", "OLLAMA_API_KEY",
            "OLLAMA_CLOUD_API_KEY"},
   sql |-> {"DATABASE_PASSWORD", "DATABASE_URL"}, mcp |-> {"MCP_TOKEN"},
   s3 |-> S3Keys, browser |-> {}, vector |-> {}, terminal |-> {}, skills |-> {},
   subagents |-> {}]

\* A variable that has a secret has it in the environment, too, or is not in
\* it; and what else the environment gives such a variable is no secret.
SecretsTold(c) ==
  /\ \A s \in Range(c.secrets) :
       /\ s.var \in DOMAIN c.env => c.env[s.var] = SecretPlaceholder(s)
       /\ s.var = "DATABASE_PASSWORD" => s.var \in DOMAIN c.env
       /\ s.var = "OPENAI_API_KEY" => s.provider = "runpod_secret"
       /\ s.var = "DATABASE_URL" => s.provider = "server_env"
  /\ \A k \in DOMAIN c.env \intersect SecretVars :
       \/ k = "DATABASE_PASSWORD"
       \/ k = "OPENAI_API_KEY" /\ \E x : c.env[k] = Text(x)
       \/ k = "DATABASE_URL" /\ \E x : <<"crag", x>> \in c.env[k]

Touched(c) == VarsOf(c.secrets) \union (DOMAIN c.env \intersect SecretVars)

ContractFits(slot, c) ==
  Generated(c.commands) /\ SecretsTold(c) /\ Touched(c) \subseteq SecretVarsFor[slot]

SkillNames == {"", "review", "deploy", "superpowers", "anthropic_skills", "custom"}

NodeFits(slot, spec) ==
  Wired(spec) =>
    /\ slot \in ServiceSlots \union OtherSlots => ContractFits(slot, spec.contract)
    /\ slot = "terminal" => TerminalCommand \in Range(spec.contract.commands)
    /\ slot = "skills" => spec.skills \in Seq(SkillNames)
    /\ slot = "commands" => spec.commands \in Seq(AnyCommands) /\ Ordered(spec.commands)

LEMMA NoneGenerated == Generated(<<>>)
BY NoItems DEF Generated

LEMMA OneGenerated ==
  ASSUME NEW what \in CommandNames, NEW order \in Int, NEW policy \in Policies,
         -40000 < order
  PROVE  Generated(<<Command(what, "before_start", order, policy)>>)
<1>. DEFINE c == Command(what, "before_start", order, policy)
<1>1. c \in AnyCommands /\ c.phase = "before_start" /\ c.order = order
  BY DEF Command, AnyCommands, Phases
<1>. HIDE DEF c
<1>2. <<c>> \in Seq(AnyCommands) /\ Range(<<c>>) = {c}
  BY <1>1, OneItem
<1>3. Generated(<<c>>)
  BY <1>1, <1>2 DEF Generated
<1>. QED BY <1>3 DEF c

LEMMA TerminalGenerated ==
  Generated(<<TerminalCommand>>) /\ TerminalCommand \in Range(<<TerminalCommand>>)
<1>1. /\ TerminalCommand \in AnyCommands /\ TerminalCommand.phase = "before_start"
      /\ TerminalCommand.order = -40000
  BY DEF TerminalCommand, Command, AnyCommands, Phases, Policies, CommandNames
<1>2. <<TerminalCommand>> \in Seq(AnyCommands) /\ Range(<<TerminalCommand>>) = {TerminalCommand}
  BY <1>1, OneItem
<1>. QED BY <1>1, <1>2 DEF Generated

LEMMA GeneratedTogether ==
  ASSUME NEW a, NEW b, Generated(a), Generated(b)
  PROVE  Generated(a \o b) /\ Range(a \o b) = Range(a) \union Range(b)
<1>1. a \in Seq(AnyCommands) /\ b \in Seq(AnyCommands)
  BY DEF Generated
<1>2. a \o b \in Seq(AnyCommands)
  BY <1>1, ConcatProperties
<1>3. Range(a \o b) = Range(a) \union Range(b)
  BY <1>1, Concatenation
<1>. QED BY <1>2, <1>3 DEF Generated

\* Without secrets and without variables of secrets there is nothing to tell.
LEMMA NothingToTell ==
  ASSUME NEW c, c.secrets = <<>>, DOMAIN c.env \intersect SecretVars = {}
  PROVE  SecretsTold(c) /\ Touched(c) = {}
<1>1. Range(c.secrets) = {} /\ DOMAIN c.secrets = {}
  BY NoItems
<1>. QED BY <1>1 DEF SecretsTold, Touched, VarsOf

LEMMA PlainContractFits ==
  ASSUME NEW slot \in ServiceSlots \union OtherSlots, NEW c, Generated(c.commands),
         c.secrets = <<>>, DOMAIN c.env \intersect SecretVars = {}
  PROVE  ContractFits(slot, c)
BY NothingToTell DEF ContractFits

LEMMA BrowserNodeFits ==
  ASSUME NEW w, NEW storage, BrowserAccepts(w), w \in BrowserWidgets
  PROVE  NodeFits("browser", BrowserNode(w, storage, "browser"))
<1>. DEFINE c == BrowserNode(w, storage, "browser").contract
<1>1. c.secrets = <<>> /\ c.commands = <<>>
  BY DEF BrowserNode, Contract
<1>2. ServiceOK("browser", BrowserNode(w, storage, "browser"))
  BY BrowserNodeOK
<1>3. Wired(BrowserNode(w, storage, "browser"))
  BY DEF Wired, BrowserNode
<1>4. DOMAIN c.env \subseteq VarsFor["browser"]
  BY <1>2, <1>3 DEF ServiceOK, ContractOK
<1>5. VarsFor["browser"] \intersect SecretVars = {}
  BY DEF VarsFor, SecretVars
<1>. HIDE DEF c
<1>6. ContractFits("browser", c)
  BY <1>1, <1>4, <1>5, NoneGenerated, PlainContractFits DEF ServiceSlots
<1>. QED BY <1>6 DEF NodeFits, c

LEMMA VectorNodeFits ==
  ASSUME NEW w, NEW storage, w \in VectorWidgets
  PROVE  NodeFits("vector", VectorNode(w, storage, "vector"))
<1>. DEFINE c == VectorNode(w, storage, "vector").contract
            start == <<Command("chroma", "before_start", -19000, "fail")>>
<1>1. c.secrets = <<>> /\ (c.commands = <<>> \/ c.commands = start)
  BY DEF VectorNode, Contract
<1>2. DOMAIN c.env = {"VECTOR_KIND", "VECTOR_URL"}
  BY DEF VectorNode, Contract
<1>3. Generated(start)
  <2>1. "chroma" \in CommandNames /\ "fail" \in Policies
    BY DEF CommandNames, Policies
  <2>2. -19000 \in Int /\ -40000 < -19000
    OBVIOUS
  <2>. QED BY <2>1, <2>2, OneGenerated
<1>. HIDE DEF c, start
<1>4. ContractFits("vector", c)
  BY <1>1, <1>2, <1>3, NoneGenerated, PlainContractFits DEF ServiceSlots, SecretVars
<1>. QED BY <1>4 DEF NodeFits, c

LEMMA LocalSQLNodeFits ==
  ASSUME NEW w
  PROVE  NodeFits("sql", LocalSQLNode(w, "sql"))
<1>. DEFINE c == LocalSQLNode(w, "sql").contract
            start == <<Command("local_sql", "before_start", -20000, "fail")>>
<1>1. c.secrets = <<>> /\ c.commands = start /\ DOMAIN c.env = {"DATABASE_KIND", "DATABASE_PATH"}
  BY DEF LocalSQLNode, Contract
<1>2. Generated(start)
  <2>1. "local_sql" \in CommandNames /\ "fail" \in Policies
    BY DEF CommandNames, Policies
  <2>2. -20000 \in Int /\ -40000 < -20000
    OBVIOUS
  <2>. QED BY <2>1, <2>2, OneGenerated
<1>. HIDE DEF c, start
<1>3. ContractFits("sql", c)
  BY <1>1, <1>2, PlainContractFits DEF ServiceSlots, SecretVars
<1>. QED BY <1>3 DEF NodeFits, c

LEMMA WebTerminalNodeFits ==
  ASSUME NEW w
  PROVE  NodeFits("terminal", WebTerminalNode(w, "terminal"))
<1>. DEFINE c == WebTerminalNode(w, "terminal").contract
<1>1. /\ c.secrets = <<>> /\ c.commands = <<TerminalCommand>>
      /\ DOMAIN c.env = VarsFor["terminal"]
  BY DEF WebTerminalNode, Contract, TerminalCommand, VarsFor
<1>2. VarsFor["terminal"] \intersect SecretVars = {}
  BY DEF VarsFor, SecretVars
<1>. HIDE DEF c
<1>3. ContractFits("terminal", c)
  BY <1>1, <1>2, TerminalGenerated, PlainContractFits DEF OtherSlots
<1>. QED BY <1>1, <1>3, TerminalGenerated DEF NodeFits, c

LEMMA SubagentNodeFits ==
  ASSUME NEW w, NEW previous
  PROVE  NodeFits("subagents", SubagentNode(w, previous, "subagents"))
<1>. DEFINE c == SubagentNode(w, previous, "subagents").contract
<1>1. c.secrets = <<>> /\ c.commands = <<>> /\ DOMAIN c.env = {"CRAG_SUBAGENTS_JSON"}
  BY DEF SubagentNode, Contract
<1>. HIDE DEF c
<1>2. ContractFits("subagents", c)
  BY <1>1, NoneGenerated, PlainContractFits DEF OtherSlots, SecretVars
<1>. QED BY <1>2 DEF NodeFits, c

LEMMA UpdateIs ==
  ASSUME NEW a, NEW b
  PROVE  /\ DOMAIN (a ## b) = DOMAIN a \union DOMAIN b
         /\ \A k \in DOMAIN a : (a ## b)[k] = a[k]
         /\ \A k \in DOMAIN b : k \notin DOMAIN a => (a ## b)[k] = b[k]
BY DEF ##

LEMMA VarsAre ==
  ASSUME NEW s
  PROVE  VarsOf(s) = {x.var : x \in Range(s)}
BY DEF VarsOf, Range

LEMMA GivenIs ==
  ASSUME NEW name, NEW var
  PROVE  \A s \in Range(Given(name, var)) :
           s = SecretRef(name, var, "runpod_secret") /\ s.var = var
             /\ s.provider = "runpod_secret" /\ name # ""
<1>. DEFINE ref == SecretRef(name, var, "runpod_secret")
<1>1. ref.var = var /\ ref.provider = "runpod_secret"
  BY DEF SecretRef
<1>2. Given(name, var) = IF name = "" THEN <<>> ELSE <<ref>>
  BY DEF Given
<1>. HIDE DEF ref
<1>3. CASE name = ""
  BY <1>2, <1>3, NoItems
<1>4. CASE name # ""
  <2>1. Range(Given(name, var)) = {ref}
    BY <1>2, <1>4, OneItem
  <2>. QED BY <1>1, <1>4, <2>1 DEF ref
<1>. QED BY <1>3, <1>4

LEMMA LLMServerNodeFits ==
  ASSUME NEW w \in LLMServerWidgets, NEW storage
  PROVE  NodeFits("llm", LLMServerNode(w, storage, "llm"))
<1>. DEFINE c == LLMServerNode(w, storage, "llm").contract
            start == <<Command("llm", "before_start", -25000, "fail")>>
            own == w.placement = "own_pod"
            address == IF own THEN Crag("llm") ELSE Text("127.0.0.1")
            base == [LLM_PROVIDER |-> Text(w.engine), LLM_MODEL |-> Text(w.model)]
            endpoint == IF w.engine = "ollama"
                        THEN [OLLAMA_HOST |-> address, OPENAI_BASE_URL |-> address]
                        ELSE [OPENAI_BASE_URL |-> address]
            token == IF w.auth = "generated_token"
                     THEN [OPENAI_API_KEY |-> Text("crag-generated-at-apply")] ELSE <<>>
            hf == Given(w.hf_token, "HF_TOKEN")
<1>1. c.secrets = LLMServerKey(w) \o hf /\ c.env = (base ## endpoint) ## token
  BY DEF LLMServerNode, Contract
<1>2. c.commands = <<>> \/ c.commands = start
  BY DEF LLMServerNode, Contract
<1>3. Generated(start)
  <2>1. "llm" \in CommandNames /\ "fail" \in Policies
    BY DEF CommandNames, Policies
  <2>2. -25000 \in Int /\ -40000 < -25000
    OBVIOUS
  <2>. QED BY <2>1, <2>2, OneGenerated
<1>4. /\ DOMAIN base = {"LLM_PROVIDER", "LLM_MODEL"}
      /\ DOMAIN endpoint \subseteq {"OLLAMA_HOST", "OPENAI_BASE_URL"}
  BY DEF Crag
<1>. DEFINE both == base ## endpoint
<1>9. /\ DOMAIN both = DOMAIN base \union DOMAIN endpoint
      /\ DOMAIN (both ## token) = DOMAIN both \union DOMAIN token
      /\ c.env = both ## token
  <2>. HIDE DEF base, endpoint, token
  <2>1. DOMAIN both = DOMAIN base \union DOMAIN endpoint
    BY UpdateFacts
  <2>. HIDE DEF both
  <2>2. DOMAIN (both ## token) = DOMAIN both \union DOMAIN token
    BY UpdateFacts
  <2>. QED BY <1>1, <2>1, <2>2 DEF both
<1>. HIDE DEF both
<1>5. ASSUME w.auth = "generated_token"
      PROVE  SecretsTold(c) /\ Touched(c) \subseteq SecretVarsFor["llm"]
  <2>1. LLMServerKey(w) = <<>> /\ LLMServerKey(w) \in Seq(SecretRefs)
    BY <1>5, NoItems DEF LLMServerKey
  <2>2. DOMAIN token = {"OPENAI_API_KEY"} /\ token["OPENAI_API_KEY"] = Text("crag-generated-at-apply")
    BY <1>5
  <2>3. hf \in Seq(SecretRefs)
    BY GivenIsASecret DEF LLMServerWidgets, SecretNames, SecretVars
  <2>. HIDE DEF hf, base, endpoint, token, c
  <2>4. Range(c.secrets) = Range(hf)
    BY <1>1, <2>1, <2>3, Concatenation, NoItems
  <2>5. \A s \in Range(hf) : s.var = "HF_TOKEN"
    BY GivenIs DEF hf
  <2>6. DOMAIN c.env = DOMAIN base \union DOMAIN endpoint \union DOMAIN token
    BY <1>9
  <2>7. c.env["OPENAI_API_KEY"] = Text("crag-generated-at-apply")
    <3>1. "OPENAI_API_KEY" \notin DOMAIN both
      BY <1>4, <1>9
    <3>2. (both ## token)["OPENAI_API_KEY"] = token["OPENAI_API_KEY"]
      BY <2>2, <3>1, UpdateKeeps
    <3>. QED BY <1>9, <2>2, <3>2
  <2>8. DOMAIN c.env \intersect SecretVars = {"OPENAI_API_KEY"}
    BY <1>4, <2>2, <2>6 DEF SecretVars
  <2>9. "HF_TOKEN" \notin DOMAIN c.env
    BY <1>4, <2>2, <2>6
  <2>10. SecretsTold(c)
    BY <2>4, <2>5, <2>7, <2>8, <2>9 DEF SecretsTold
  <2>11. Touched(c) \subseteq SecretVarsFor["llm"]
    BY <2>4, <2>5, <2>8, VarsAre DEF Touched, SecretVarsFor
  <2>. QED BY <2>10, <2>11
<1>6. ASSUME w.auth # "generated_token"
      PROVE  SecretsTold(c) /\ Touched(c) \subseteq SecretVarsFor["llm"]
  <2>1. LLMServerKey(w) \in Seq(SecretRefs)
    BY NoItems, GivenIsASecret DEF LLMServerKey, LLMServerWidgets, SecretNames, SecretVars
  <2>2. token = <<>> /\ DOMAIN token = {}
    BY <1>6, Fragments
  <2>3. hf \in Seq(SecretRefs)
    BY GivenIsASecret DEF LLMServerWidgets, SecretNames, SecretVars
  <2>4. \A s \in Range(LLMServerKey(w)) : s.var = "OPENAI_API_KEY" /\ s.provider = "runpod_secret"
    <3>1. CASE w.auth = "secret"
      <4>1. LLMServerKey(w) = Given(w.api_key, "OPENAI_API_KEY")
        BY <3>1 DEF LLMServerKey
      <4>2. \A s \in Range(Given(w.api_key, "OPENAI_API_KEY")) :
              s = SecretRef(w.api_key, "OPENAI_API_KEY", "runpod_secret")
                /\ s.var = "OPENAI_API_KEY" /\ s.provider = "runpod_secret"
                /\ w.api_key # ""
        BY GivenIs
      <4>. QED BY <4>1, <4>2
    <3>2. CASE w.auth # "secret"
      BY <3>2, NoItems DEF LLMServerKey
    <3>. QED BY <3>1, <3>2
  <2>. HIDE DEF hf, base, endpoint, token, c
  <2>5. Range(c.secrets) = Range(LLMServerKey(w)) \union Range(hf)
    BY <1>1, <2>1, <2>3, Concatenation
  <2>6. \A s \in Range(hf) : s.var = "HF_TOKEN"
    BY GivenIs DEF hf
  <2>7. DOMAIN c.env = DOMAIN base \union DOMAIN endpoint \union DOMAIN token
    BY <1>9
  <2>8. DOMAIN c.env \intersect SecretVars = {}
    BY <1>4, <2>2, <2>7 DEF SecretVars
  <2>9. "HF_TOKEN" \notin DOMAIN c.env /\ "OPENAI_API_KEY" \notin DOMAIN c.env
    BY <1>4, <2>2, <2>7
  <2>10. SecretsTold(c)
    BY <2>4, <2>5, <2>6, <2>8, <2>9 DEF SecretsTold
  <2>11. Touched(c) \subseteq SecretVarsFor["llm"]
    BY <2>4, <2>5, <2>6, <2>8, VarsAre DEF Touched, SecretVarsFor
  <2>. QED BY <2>10, <2>11
<1>. HIDE DEF c, start
<1>7. ContractFits("llm", c)
  BY <1>2, <1>3, <1>5, <1>6, NoneGenerated DEF ContractFits
<1>. QED BY <1>7 DEF NodeFits, c

LEMMA LLMApiNodeFits ==
  ASSUME NEW w \in LLMApiWidgets
  PROVE  NodeFits("llm", LLMApiNode(w, "llm"))
<1>. DEFINE c == LLMApiNode(w, "llm").contract
            vars_ == CASE w.provider = "codex" -> <<"OPENAI_API_KEY">>
                       [] w.provider = "claude" -> <<"ANTHROPIC_API_KEY">>
                       [] OTHER -> <<"OLLAMA_API_KEY", "OLLAMA_CLOUD_API_KEY">>
            refs == [i \in DOMAIN vars_ |-> SecretRef(w.api_key, vars_[i], "runpod_secret")]
            url == IF w.provider = "ollama_cloud"
                   THEN Texts({"OLLAMA_HOST", "LLM_API_BASE_URL"}, "ollama.com")
                   ELSE IF w.base_url = "" THEN <<>>
                   ELSE Texts(IF w.provider = "codex"
                              THEN {"LLM_API_BASE_URL", "OPENAI_BASE_URL"}
                              ELSE {"LLM_API_BASE_URL"}, w.base_url)
            base == [LLM_PROVIDER |-> Text(w.provider)]
            K == {"OPENAI_API_KEY", "ANTHROPIC_API_KEY", "OLLAMA_API_KEY", "OLLAMA_CLOUD_API_KEY"}
<1>1. c.commands = <<>> /\ c.env = base ## url /\ (c.secrets = <<>> \/ c.secrets = refs)
  BY DEF LLMApiNode, Contract
<1>2. \A i \in DOMAIN vars_ : vars_[i] \in K
  OBVIOUS
<1>3. \A i \in DOMAIN refs : refs[i].var \in K /\ refs[i].provider = "runpod_secret"
  <2>. HIDE DEF vars_, K
  <2>. QED BY <1>2 DEF SecretRef
<1>4. DOMAIN base = {"LLM_PROVIDER"} /\ DOMAIN url \subseteq {"OLLAMA_HOST", "LLM_API_BASE_URL", "OPENAI_BASE_URL"}
  BY Fragments DEF Texts
<1>. HIDE DEF c, refs, url, base
<1>5. \A s \in Range(c.secrets) : s.var \in K /\ s.provider = "runpod_secret"
  BY <1>1, <1>3, NoItems DEF Range
<1>6. DOMAIN c.env = DOMAIN base \union DOMAIN url
  BY <1>1, UpdateFacts
<1>7. DOMAIN c.env \intersect SecretVars = {} /\ DOMAIN c.env \intersect K = {}
  BY <1>4, <1>6 DEF SecretVars
<1>8. SecretsTold(c)
  BY <1>5, <1>7 DEF SecretsTold
<1>9. Touched(c) \subseteq SecretVarsFor["llm"]
  BY <1>5, <1>7, VarsAre DEF Touched, SecretVarsFor
<1>10. ContractFits("llm", c)
  BY <1>1, <1>8, <1>9, NoneGenerated DEF ContractFits
<1>. QED BY <1>10 DEF NodeFits, c

LEMMA RemoteSQLNodeFits ==
  ASSUME NEW w \in RemoteSQLWidgets, NEW storage
  PROVE  NodeFits("sql", RemoteSQLNode(w, storage, "sql"))
<1>. DEFINE c == RemoteSQLNode(w, storage, "sql").contract
            kind == [DATABASE_KIND |-> Text(w.engine)]
            password == IF w.password = "" THEN Text("app") ELSE {<<"secret", w.password>>}
            env == [DATABASE_URL |-> Crag("sql") \union password,
                    DATABASE_HOST |-> Crag("sql"), DATABASE_PASSWORD |-> password]
            given == Given(w.password, "DATABASE_PASSWORD")
            url == SecretRef("DATABASE_URL", "DATABASE_URL", "server_env")
<1>1. c.commands = <<DatabaseClient>>
  <2>. DEFINE n == RemoteSQLNode(w, storage, "sql")
              own == w.mode = "own_pod"
              vars_ == [DATABASE_KIND |-> Text(w.engine)] ## (IF own THEN env ELSE <<>>)
              secrets == IF own THEN given ELSE <<url>>
              port == IF w.engine = "postgres" THEN 5432 ELSE 3306
              ports == IF own THEN <<Port(w.engine, port, "internal")>> ELSE <<>>
  <2>1. n.contract = Contract(vars_, secrets, ports, <<DatabaseClient>>)
    BY DEF RemoteSQLNode
  <2>. HIDE DEF n, vars_, secrets, ports
  <2>2. n.contract.commands = <<DatabaseClient>>
    BY <2>1 DEF Contract
  <2>. QED BY <2>2 DEF n
<1>2. Generated(<<DatabaseClient>>)
  <2>1. "database-client" \in CommandNames /\ "fail" \in Policies
    BY DEF CommandNames, Policies
  <2>2. -21000 \in Int /\ -40000 < -21000
    OBVIOUS
  <2>. QED BY <2>1, <2>2, OneGenerated DEF DatabaseClient
<1>3. ASSUME w.mode = "own_pod"
      PROVE  SecretsTold(c) /\ Touched(c) \subseteq SecretVarsFor["sql"]
  <2>1. c.env = kind ## env /\ c.secrets = given
    BY <1>3 DEF RemoteSQLNode, Contract
  <2>2. /\ DOMAIN kind = {"DATABASE_KIND"}
        /\ DOMAIN env = {"DATABASE_URL", "DATABASE_HOST", "DATABASE_PASSWORD"}
        /\ <<"crag", "sql">> \in env["DATABASE_URL"]
        /\ env["DATABASE_PASSWORD"] = password
    BY DEF Crag
  <2>3. \A s \in Range(given) : s.var = "DATABASE_PASSWORD" /\ SecretPlaceholder(s) = password
    <3>1. \A s \in Range(given) :
            /\ s = SecretRef(w.password, "DATABASE_PASSWORD", "runpod_secret")
            /\ s.var = "DATABASE_PASSWORD" /\ w.password # ""
      BY GivenIs
    <3>2. SecretPlaceholder(SecretRef(w.password, "DATABASE_PASSWORD", "runpod_secret"))
            = {<<"secret", w.password>>}
      BY DEF SecretPlaceholder, SecretRef
    <3>. QED BY <3>1, <3>2
  <2>. HIDE DEF c, kind, env, given, password
  <2>4. /\ DOMAIN c.env = DOMAIN kind \union DOMAIN env
        /\ \A k \in DOMAIN env : k \notin DOMAIN kind => c.env[k] = env[k]
    <3>. DEFINE u == kind ## env
    <3>1. /\ DOMAIN u = DOMAIN kind \union DOMAIN env
          /\ \A k \in DOMAIN env : k \notin DOMAIN kind => u[k] = env[k]
      BY UpdateIs
    <3>2. c.env = u
      BY <2>1
    <3>. HIDE DEF u
    <3>. QED BY <3>1, <3>2
  <2>5. DOMAIN c.env \intersect SecretVars = {"DATABASE_URL", "DATABASE_PASSWORD"}
    BY <2>2, <2>4 DEF SecretVars
  <2>6. <<"crag", "sql">> \in c.env["DATABASE_URL"] /\ c.env["DATABASE_PASSWORD"] = password
    BY <2>2, <2>4
  <2>7. SecretsTold(c)
    BY <2>1, <2>3, <2>5, <2>6 DEF SecretsTold
  <2>8. Touched(c) \subseteq SecretVarsFor["sql"]
    BY <2>1, <2>3, <2>5, VarsAre DEF Touched, SecretVarsFor
  <2>. QED BY <2>7, <2>8
<1>4. ASSUME w.mode # "own_pod"
      PROVE  SecretsTold(c) /\ Touched(c) \subseteq SecretVarsFor["sql"]
  <2>1. c.env = kind ## <<>> /\ c.secrets = <<url>>
    BY <1>4 DEF RemoteSQLNode, Contract
  <2>2. DOMAIN kind = {"DATABASE_KIND"} /\ url.var = "DATABASE_URL" /\ url.provider = "server_env"
    BY DEF SecretRef
  <2>. HIDE DEF c, kind, url
  <2>3. DOMAIN c.env = {"DATABASE_KIND"}
    <3>1. DOMAIN (kind ## <<>>) = DOMAIN kind \union DOMAIN <<>>
      BY UpdateIs
    <3>. QED BY <2>1, <2>2, <3>1, Fragments
  <2>4. DOMAIN c.env \intersect SecretVars = {} /\ "DATABASE_URL" \notin DOMAIN c.env
    BY <2>3 DEF SecretVars
  <2>5. Range(c.secrets) = {url}
    BY <2>1, OneItem
  <2>6. SecretsTold(c)
    BY <2>2, <2>4, <2>5 DEF SecretsTold
  <2>7. Touched(c) \subseteq SecretVarsFor["sql"]
    BY <2>2, <2>4, <2>5, VarsAre DEF Touched, SecretVarsFor
  <2>. QED BY <2>6, <2>7
<1>. HIDE DEF c
<1>5. ContractFits("sql", c)
  BY <1>1, <1>2, <1>3, <1>4 DEF ContractFits
<1>. QED BY <1>5 DEF NodeFits, c

LEMMA MCPServerNodeFits ==
  ASSUME NEW w \in MCPWidgets, NEW previous, OtherOK("mcp", previous),
         NodeFits("mcp", previous)
  PROVE  NodeFits("mcp", MCPServerNode(w, previous, "mcp"))
<1>. DEFINE c == MCPServerNode(w, previous, "mcp").contract
            old == ContractOf(previous).secrets
            new == MCPServer(w).secrets
            ref == SecretRef(w.secret, w.secret, "server_env")
<1>1. c.commands = <<>> /\ c.secrets = old \o new /\ DOMAIN c.env = {"MCP_SERVERS_JSON"}
  BY DEF MCPServerNode, Contract
<1>2. old \in Seq(SecretRefs) /\ \A s \in Range(old) : s.var = "MCP_TOKEN"
  <2>1. CASE Wired(previous)
    <3>1. old = previous.contract.secrets /\ Touched(previous.contract) \subseteq SecretVarsFor["mcp"]
      BY <2>1 DEF ContractOf, NodeFits, ContractFits, OtherSlots
    <3>2. old \in Seq(SecretRefs)
      BY <2>1, <3>1 DEF OtherOK, ContractOK
    <3>. QED BY <3>1, <3>2, VarsAre DEF Touched, SecretVarsFor
  <2>2. CASE ~Wired(previous)
    <3>1. old = <<>>
      BY <2>2 DEF ContractOf, EmptyContract, Contract
    <3>. QED BY <3>1, NoItems
  <2>. QED BY <2>1, <2>2
<1>3. new \in Seq(SecretRefs) /\ \A s \in Range(new) : s.var = "MCP_TOKEN"
  <2>1. CASE w.secret = ""
    BY <2>1, NoItems DEF MCPServer
  <2>2. CASE w.secret # ""
    <3>1. new = <<ref>>
      BY <2>2 DEF MCPServer
    <3>2. w.secret = "MCP_TOKEN"
      BY <2>2 DEF MCPWidgets
    <3>3. ref \in SecretRefs /\ ref.var = "MCP_TOKEN"
      BY <3>2 DEF SecretRef, SecretRefs, SecretNames, SecretVars
    <3>. HIDE DEF ref
    <3>. QED BY <3>1, <3>3, OneItem
  <2>. QED BY <2>1, <2>2
<1>. HIDE DEF c, old, new
<1>4. Range(c.secrets) = Range(old) \union Range(new)
  BY <1>1, <1>2, <1>3, Concatenation
<1>5. \A s \in Range(c.secrets) : s.var = "MCP_TOKEN"
  BY <1>2, <1>3, <1>4
<1>6. DOMAIN c.env \intersect SecretVars = {} /\ "MCP_TOKEN" \notin DOMAIN c.env
  BY <1>1 DEF SecretVars
<1>7. SecretsTold(c)
  BY <1>5, <1>6 DEF SecretsTold
<1>8. Touched(c) \subseteq SecretVarsFor["mcp"]
  BY <1>5, <1>6, VarsAre DEF Touched, SecretVarsFor
<1>9. ContractFits("mcp", c)
  BY <1>1, <1>7, <1>8, NoneGenerated DEF ContractFits
<1>. QED BY <1>9 DEF NodeFits, c

LEMMA S3StorageNodeFits ==
  ASSUME NEW w
  PROVE  NodeFits("s3", S3StorageNode(w, "s3"))
<1>. DEFINE c == S3StorageNode(w, "s3").contract
            access == SecretRef(w.access, "AWS_ACCESS_KEY_ID", "runpod_secret")
            secret == SecretRef(w.secret, "AWS_SECRET_ACCESS_KEY", "runpod_secret")
<1>1. c.commands = <<>> /\ c.secrets = <<access, secret>>
  BY DEF S3StorageNode, Contract
<1>2. DOMAIN c.env = {"S3_ENDPOINT", "S3_BUCKET", "S3_REGION"}
  BY DEF S3StorageNode, Contract, Texts
<1>3. access.var = "AWS_ACCESS_KEY_ID" /\ secret.var = "AWS_SECRET_ACCESS_KEY"
  BY DEF SecretRef
<1>. HIDE DEF c, access, secret
<1>4. \A s \in Range(c.secrets) : s = access \/ s = secret
  <2>1. \A i \in DOMAIN <<access, secret>> :
          <<access, secret>>[i] = access \/ <<access, secret>>[i] = secret
    OBVIOUS
  <2>. QED BY <1>1, <2>1 DEF Range
<1>5. /\ DOMAIN c.env \intersect SecretVars = {} /\ "AWS_ACCESS_KEY_ID" \notin DOMAIN c.env
      /\ "AWS_SECRET_ACCESS_KEY" \notin DOMAIN c.env
  BY <1>2 DEF SecretVars
<1>6. SecretsTold(c)
  BY <1>3, <1>4, <1>5 DEF SecretsTold
<1>7. Touched(c) \subseteq SecretVarsFor["s3"]
  BY <1>3, <1>4, <1>5, VarsAre DEF Touched, SecretVarsFor, S3Keys
<1>8. ContractFits("s3", c)
  BY <1>1, <1>6, <1>7, NoneGenerated DEF ContractFits
<1>. QED BY <1>8 DEF NodeFits, c

LEMMA SkillNodeFits ==
  ASSUME NEW w, w.name \in SkillNames, NEW previous, NodeFits("skills", previous)
  PROVE  NodeFits("skills", SkillNode(w, previous, "skills"))
<1>. DEFINE spec == SkillNode(w, previous, "skills")
            c == spec.contract
            skills == Append(SkillsOf(previous), w.name)
            cs == SkillCommands(skills)
<1>1. spec.skills = skills /\ c.secrets = <<>> /\ c.commands = cs
      /\ DOMAIN c.env = {"RUNPOD_AGENT_SKILLS_JSON"}
  BY DEF SkillNode, Contract
<1>2. skills \in Seq(SkillNames)
  <2>1. CASE Wired(previous)
    BY <2>1, AppendProperties DEF SkillsOf, NodeFits
  <2>2. CASE ~Wired(previous)
    BY <2>2, NoItems, AppendProperties DEF SkillsOf
  <2>. QED BY <2>1, <2>2
<1>. HIDE DEF skills
<1>3. DOMAIN skills = 1 .. Len(skills) /\ Len(skills) \in Nat
      /\ \A i \in DOMAIN skills : skills[i] \in SkillNames
  BY <1>2, ElementOfSeq, LenProperties
<1>4. DOMAIN cs = DOMAIN skills
      /\ \A i \in DOMAIN cs :
           cs[i] = Command(skills[i], "before_start", -10000 + i - 1, "fail")
  BY DEF SkillCommands
<1>. HIDE DEF cs
<1>5. \A i \in DOMAIN cs : /\ cs[i] \in AnyCommands /\ cs[i].phase = "before_start"
                           /\ -40000 < cs[i].order
  <2>. TAKE i \in DOMAIN cs
  <2>1. i \in Nat /\ i >= 1 /\ skills[i] \in CommandNames
    <3>1. i \in 1 .. Len(skills) /\ skills[i] \in SkillNames
      BY <1>3, <1>4
    <3>2. SkillNames \subseteq CommandNames
      BY DEF CommandNames, SkillNames
    <3>. QED BY <1>3, <3>1, <3>2
  <2>. DEFINE n == -10000 + i - 1
  <2>2. n \in Int /\ -40000 < n
    BY <2>1
  <2>3. cs[i] = Command(skills[i], "before_start", n, "fail")
    BY <1>4
  <2>. HIDE DEF n
  <2>. QED BY <2>1, <2>2, <2>3 DEF Command, AnyCommands, Phases, Policies
<1>6. cs \in Seq(AnyCommands)
  <2>1. cs \in [1 .. Len(skills) -> AnyCommands]
    <3>1. cs = [i \in DOMAIN skills |-> cs[i]]
      BY DEF cs, SkillCommands
    <3>. QED BY <1>3, <1>4, <1>5, <3>1
  <2>. QED BY <1>3, <2>1, IsASeq
<1>7. Generated(cs)
  <2>1. \A x \in Range(cs) : x.phase = "before_start" /\ x.order \in Int /\ -40000 < x.order
    BY <1>5 DEF Range, AnyCommands
  <2>. QED BY <1>6, <2>1 DEF Generated
<1>. HIDE DEF c
<1>8. ContractFits("skills", c)
  BY <1>1, <1>7, PlainContractFits DEF OtherSlots, SecretVars
<1>. QED BY <1>1, <1>2, <1>8 DEF NodeFits, c

\* The commands of a chain are sorted, so that the last one's order is the
\* highest of them.
LEMMA InferredOrderIsInteger ==
  ASSUME NEW previous, NodeFits("commands", previous)
  PROVE  InferredCommandOrder(previous) \in Int
<1>1. CASE CommandsOf(previous) = <<>>
  BY <1>1 DEF InferredCommandOrder
<1>2. CASE CommandsOf(previous) # <<>>
  <2>. DEFINE cs == previous.commands
              O == {cs[i].order : i \in DOMAIN cs}
              m == cs[Len(cs)].order
              highest == CHOOSE n \in O : \A i \in DOMAIN cs : cs[i].order <= n
  <2>1. Wired(previous) /\ CommandsOf(previous) = cs
    BY <1>2 DEF CommandsOf
  <2>2. cs \in Seq(AnyCommands) /\ Ordered(cs) /\ cs # <<>>
    BY <1>2, <2>1 DEF NodeFits
  <2>3. InferredCommandOrder(previous) = 100 + highest
    BY <1>2 DEF InferredCommandOrder
  <2>. HIDE DEF cs
  <2>4. /\ Len(cs) \in DOMAIN cs /\ \A i \in DOMAIN cs : i <= Len(cs)
        /\ \A i \in DOMAIN cs : cs[i] \in AnyCommands
    <3>1. DOMAIN cs = 1 .. Len(cs) /\ Len(cs) \in Nat /\ Len(cs) # 0
      BY <2>2, LenProperties, EmptySeq
    <3>. QED BY <2>2, <3>1, ElementOfSeq
  <2>5. \A i \in DOMAIN cs : cs[i].order \in Int
    BY <2>4 DEF AnyCommands
  <2>6. m \in O /\ \A i \in DOMAIN cs : cs[i].order <= m
    BY <2>2, <2>4 DEF Ordered
  <2>7. highest \in O
    <3>. HIDE DEF O, m
    <3>. QED BY <2>6
  <2>8. O \subseteq Int
    BY <2>5
  <2>. HIDE DEF O, highest
  <2>. QED BY <2>3, <2>7, <2>8
<1>. QED BY <1>1, <1>2

LEMMA SSHCommandNodeFits ==
  ASSUME NEW w, w.what \in CommandNames, w.phase \in Phases, w.policy \in Policies,
         NEW previous, NodeFits("commands", previous)
  PROVE  NodeFits("commands", SSHCommandNode(w, previous, "commands"))
<1>. DEFINE old == CommandsOf(previous)
            new == Command(w.what, w.phase, InferredCommandOrder(previous), w.policy)
            cs == Append(old, new)
<1>1. SSHCommandNode(w, previous, "commands").commands = SortedByOrder(cs)
  BY DEF SSHCommandNode
<1>2. new \in AnyCommands
  BY InferredOrderIsInteger DEF Command, AnyCommands
<1>3. old \in Seq(AnyCommands)
  BY NoItems DEF CommandsOf, NodeFits
<1>. HIDE DEF old, new
<1>4. cs \in Seq(AnyCommands)
  BY <1>2, <1>3, AppendProperties
<1>. HIDE DEF cs
<1>5. \A i \in DOMAIN cs : cs[i] \in AnyCommands
  BY <1>4, ElementOfSeq, LenProperties
<1>6. Orders(cs)
  BY <1>5 DEF Orders, AnyCommands
<1>7. SortedByOrder(cs) \in Seq(AnyCommands) /\ Ordered(SortedByOrder(cs))
  BY <1>4, <1>6, SortedKeeps
<1>. QED BY <1>1, <1>7 DEF NodeFits, ServiceSlots, OtherSlots

LEMMA SetupNodeFits ==
  ASSUME NEW w \in SetupWidgets, NEW previous, NodeFits("commands", previous)
  PROVE  NodeFits("commands", SetupNode(w, previous, "commands"))
<1>. DEFINE phase == [phase |-> "before_start"]
            v == phase ## w
<1>1. /\ DOMAIN phase = {"phase"} /\ phase["phase"] = "before_start"
      /\ DOMAIN w = {"what", "policy"} /\ w.what \in CommandNames /\ w.policy \in Policies
  BY DEF SetupWidgets, CommandNames
<1>. HIDE DEF phase
<1>2. v["phase"] = phase["phase"] /\ v["what"] = w["what"] /\ v["policy"] = w["policy"]
  <2>1. /\ \A k \in DOMAIN phase : v[k] = phase[k]
        /\ \A k \in DOMAIN w : k \notin DOMAIN phase => v[k] = w[k]
    BY UpdateIs
  <2>. HIDE DEF v
  <2>. QED BY <1>1, <2>1
<1>3. SetupNode(w, previous, "commands") = SSHCommandNode(v, previous, "commands")
  BY DEF SetupNode, phase
<1>. HIDE DEF v
<1>4. v.what \in CommandNames /\ v.phase \in Phases /\ v.policy \in Policies
  BY <1>1, <1>2 DEF Phases
<1>. QED BY <1>3, <1>4, SSHCommandNodeFits

----------------------------------------------------------------------------
(* The inductive invariant, on top of that of the plans. *)

PartsFit == DOMAIN parts = Slots /\ \A slot \in Slots : NodeFits(slot, parts[slot])


\* A contract that is told and touches no other secret's variables than T.
Fits(c, T) ==
  /\ Generated(c.commands) /\ c.secrets \in Seq(SecretRefs) /\ SecretsTold(c)
  /\ Touched(c) \subseteq T

DeploymentFits(d) ==
  /\ \A role \in ServiceSlots : Wired(d.app.parts[role]) =>
       Fits(d.app.parts[role].contract, SecretVarsFor[role])
  /\ Fits(d.app.contract, SecretVarsFor["mcp"])
  /\ Wired(d.app.parts.terminal) => TerminalCommand \in Range(d.app.contract.commands)
  /\ Fits(ContractOf(d.s3), SecretVarsFor["s3"])
  /\ CommandsOf(d.commands) \in Seq(AnyCommands)

IsFitPlan(p) ==
  \E d, workflow, text :
    DeploymentOK(d) /\ DeploymentFits(d) /\ p = Plan(d, workflow, text)

CommandInv ==
  /\ PlanInv /\ PartsFit
  /\ runs >= 1 => IsFitPlan(plan)
  /\ runs = 2 => IsFitPlan(last)

LEMMA EmptyFits ==
  ASSUME NEW T
  PROVE  Fits(EmptyContract, T)
<1>1. /\ EmptyContract.commands = <<>> /\ EmptyContract.secrets = <<>>
      /\ EmptyContract.env = <<>>
  BY DEF EmptyContract, Contract
<1>2. DOMAIN EmptyContract.env \intersect SecretVars = {}
  BY <1>1, Fragments
<1>. QED BY <1>1, <1>2, NoneGenerated, NoItems, NothingToTell DEF Fits

LEMMA FitsTogether ==
  ASSUME NEW a, NEW b, NEW S, NEW T, Fits(a, S), Fits(b, T), S \intersect T = {}
  PROVE  Fits(a ++ b, S \union T)
         /\ Range((a ++ b).commands) = Range(a.commands) \union Range(b.commands)
<1>. DEFINE c == a ++ b
            env == b.env ## a.env
<1>1. /\ c.env = env /\ c.secrets = a.secrets \o b.secrets
      /\ c.commands = a.commands \o b.commands
  BY DEF ++, MergeContracts, Contract
<1>2. /\ DOMAIN env = DOMAIN a.env \union DOMAIN b.env
      /\ \A k \in DOMAIN b.env : env[k] = b.env[k]
      /\ \A k \in DOMAIN a.env : k \notin DOMAIN b.env => env[k] = a.env[k]
  <2>. DEFINE x == b.env
              y == a.env
  <2>1. /\ DOMAIN (x ## y) = DOMAIN x \union DOMAIN y
        /\ \A k \in DOMAIN x : (x ## y)[k] = x[k]
        /\ \A k \in DOMAIN y : k \notin DOMAIN x => (x ## y)[k] = y[k]
    <3>. HIDE DEF x, y
    <3>. QED BY UpdateIs
  <2>. QED BY <2>1
<1>. HIDE DEF c, env
<1>3. /\ c.secrets \in Seq(SecretRefs)
      /\ Range(c.secrets) = Range(a.secrets) \union Range(b.secrets)
  BY <1>1, Concatenation DEF Fits
<1>4. /\ Generated(c.commands)
      /\ Range(c.commands) = Range(a.commands) \union Range(b.commands)
  BY <1>1, GeneratedTogether DEF Fits
<1>5. VarsOf(c.secrets) = VarsOf(a.secrets) \union VarsOf(b.secrets)
  BY <1>3, VarsAre
<1>6. Touched(c) = Touched(a) \union Touched(b)
  BY <1>1, <1>2, <1>5 DEF Touched
<1>7. \A s \in Range(c.secrets) : s.var \in SecretVars
  <2>1. Range(c.secrets) \subseteq SecretRefs
    BY <1>3, RangeOfSeq
  <2>. QED BY <2>1 DEF SecretRefs
<1>8. /\ \A s \in Range(a.secrets) : s.var \in Touched(a) /\ s.var \in SecretVars
      /\ \A s \in Range(b.secrets) : s.var \in Touched(b) /\ s.var \in SecretVars
  BY <1>3, <1>7, VarsAre DEF Touched
<1>9. /\ \A k \in SecretVars : k \in DOMAIN a.env => k \in Touched(a)
      /\ \A k \in SecretVars : k \in DOMAIN b.env => k \in Touched(b)
      /\ \A k : ~(k \in Touched(a) /\ k \in Touched(b))
  BY DEF Touched, Fits
<1>10. \A k \in SecretVars : k \in DOMAIN a.env => k \notin DOMAIN b.env /\ c.env[k] = a.env[k]
  BY <1>1, <1>2, <1>9
<1>11. \A k \in DOMAIN b.env : c.env[k] = b.env[k]
  BY <1>1, <1>2
<1>12. ASSUME NEW s \in Range(c.secrets)
       PROVE  /\ s.var \in DOMAIN c.env => c.env[s.var] = SecretPlaceholder(s)
              /\ s.var = "DATABASE_PASSWORD" => s.var \in DOMAIN c.env
              /\ s.var = "OPENAI_API_KEY" => s.provider = "runpod_secret"
              /\ s.var = "DATABASE_URL" => s.provider = "server_env"
  <2>1. CASE s \in Range(a.secrets)
    <3>1. s.var \in DOMAIN c.env => s.var \in DOMAIN a.env
      BY <1>1, <1>2, <1>8, <1>9, <2>1
    <3>. QED BY <1>1, <1>2, <1>8, <1>10, <2>1, <3>1 DEF Fits, SecretsTold
  <2>2. CASE s \in Range(b.secrets)
    <3>1. s.var \in DOMAIN c.env => s.var \in DOMAIN b.env
      BY <1>1, <1>2, <1>8, <1>9, <2>2
    <3>. QED BY <1>1, <1>2, <1>11, <2>2, <3>1 DEF Fits, SecretsTold
  <2>. QED BY <1>3, <2>1, <2>2
<1>13. ASSUME NEW k \in DOMAIN c.env \intersect SecretVars
       PROVE  \/ k = "DATABASE_PASSWORD"
              \/ k = "OPENAI_API_KEY" /\ \E x : c.env[k] = Text(x)
              \/ k = "DATABASE_URL" /\ \E x : <<"crag", x>> \in c.env[k]
  <2>1. CASE k \in DOMAIN b.env
    BY <1>11, <2>1 DEF Fits, SecretsTold
  <2>2. CASE k \in DOMAIN a.env
    BY <1>10, <2>2 DEF Fits, SecretsTold
  <2>. QED BY <1>1, <1>2, <2>1, <2>2
<1>14. SecretsTold(c)
  BY <1>12, <1>13 DEF SecretsTold
<1>15. Fits(c, S \union T)
  BY <1>3, <1>4, <1>6, <1>14 DEF Fits
<1>. QED BY <1>4, <1>15 DEF c

LEMMA PartFits ==
  ASSUME NEW slot \in ServiceSlots \union OtherSlots, NEW spec, NodeFits(slot, spec),
         Wired(spec) => ContractOK(slot, spec.contract)
  PROVE  Fits(ContractOf(spec), SecretVarsFor[slot])
<1>1. CASE Wired(spec)
  BY <1>1 DEF NodeFits, ContractFits, ContractOK, ContractOf, Fits
<1>2. CASE ~Wired(spec)
  BY <1>2, EmptyFits DEF ContractOf
<1>. QED BY <1>1, <1>2

LEMMA AgentContractFits ==
  ASSUME NEW w, NEW p,
         \A slot \in OtherSlots \ {"s3"} : NodeFits(slot, p[slot]) /\ OtherOK(slot, p[slot])
  PROVE  LET c == AgentNode(w, p, "agent").contract
         IN  /\ Fits(c, SecretVarsFor["mcp"])
             /\ Wired(p.terminal) => TerminalCommand \in Range(c.commands)
<1>. DEFINE env == [AGENT_HARNESS |-> Text(w.harness),
                    AGENT_STARTUP_MODE |-> Text(w.startup)]
            own == Contract(env, <<>>, <<>>,
                     IF TerminalOnly(w, p) THEN <<>> ELSE <<HarnessCommand(w, p)>>)
            mcp == ContractOf(p.mcp)
            skills == ContractOf(p.skills)
            subagents == ContractOf(p.subagents)
            terminal == ContractOf(p.terminal)
            one == own ++ mcp
            two == one ++ skills
            three == two ++ subagents
            four == three ++ terminal
            M == SecretVarsFor["mcp"]
<1>1. AgentNode(w, p, "agent").contract = four
  BY DEF AgentNode
<1>2. Fits(own, {})
  <2>1. /\ own.secrets = <<>> /\ DOMAIN own.env = {"AGENT_HARNESS", "AGENT_STARTUP_MODE"}
        /\ own.commands = <<>> \/ own.commands = <<HarnessCommand(w, p)>>
    BY DEF Contract
  <2>2. Generated(<<HarnessCommand(w, p)>>)
    <3>. DEFINE policy == IF Wired(p.terminal) THEN "continue" ELSE "fail"
    <3>1. policy \in Policies /\ "harness" \in CommandNames
      BY DEF Policies, CommandNames
    <3>2. HarnessCommand(w, p) = Command("harness", "before_start", -30000, policy)
      BY DEF HarnessCommand
    <3>3. -30000 \in Int /\ -40000 < -30000
      OBVIOUS
    <3>. HIDE DEF policy
    <3>. QED BY <3>1, <3>2, <3>3, OneGenerated
  <2>. HIDE DEF own
  <2>3. DOMAIN own.env \intersect SecretVars = {}
    BY <2>1 DEF SecretVars
  <2>. QED BY <2>1, <2>2, <2>3, NoneGenerated, NothingToTell, NoItems DEF Fits
<1>3. Fits(mcp, M) /\ Fits(skills, {}) /\ Fits(subagents, {}) /\ Fits(terminal, {})
  <2>1. \A slot \in OtherSlots \ {"s3"} : Fits(ContractOf(p[slot]), SecretVarsFor[slot])
    BY PartFits DEF OtherOK
  <2>2. /\ SecretVarsFor["skills"] = {} /\ SecretVarsFor["subagents"] = {}
        /\ SecretVarsFor["terminal"] = {}
    BY DEF SecretVarsFor
  <2>. HIDE DEF M
  <2>. QED BY <2>1, <2>2 DEF OtherSlots, M
<1>4. Wired(p.terminal) => TerminalCommand \in Range(terminal.commands)
  BY DEF ContractOf, NodeFits, OtherSlots
<1>. HIDE DEF own, mcp, skills, subagents, terminal, M
<1>5. Fits(one, M)
  BY <1>2, <1>3, FitsTogether
<1>. HIDE DEF one
<1>6. Fits(two, M)
  BY <1>3, <1>5, FitsTogether
<1>. HIDE DEF two
<1>7. Fits(three, M)
  BY <1>3, <1>6, FitsTogether
<1>. HIDE DEF three
<1>8. Fits(four, M) /\ Range(four.commands) = Range(three.commands) \union Range(terminal.commands)
  BY <1>3, <1>7, FitsTogether
<1>. QED BY <1>1, <1>4, <1>8 DEF M

LEMMA DeploymentIsFit ==
  ASSUME PartsOK, PartsFit
  PROVE  DeploymentFits(Deployment)
<1>. DEFINE p == [s \in AgentSlots |-> parts[s]]
            d == Deployment
<1>1. d.app = AgentNode(agent, p, "agent") /\ d.s3 = parts.s3 /\ d.commands = parts.commands
  BY DEF Deployment, WithTerminalOptions, DeployNode
<1>2. d.app.parts = p
  BY <1>1 DEF AgentNode
<1>3. /\ \A slot \in OtherSlots \ {"s3"} : p[slot] = parts[slot] /\ slot \in Slots
      /\ \A slot \in ServiceSlots : p[slot] = parts[slot] /\ slot \in Slots
      /\ "s3" \in Slots /\ "s3" \in OtherSlots /\ "commands" \in Slots
      /\ p.terminal = parts.terminal
  BY DEF AgentSlots, OtherSlots, ServiceSlots, Slots
<1>. HIDE DEF p, d
<1>4. \A slot \in OtherSlots \ {"s3"} : NodeFits(slot, p[slot]) /\ OtherOK(slot, p[slot])
  BY <1>3 DEF PartsFit, PartsOK
<1>5. /\ Fits(d.app.contract, SecretVarsFor["mcp"])
      /\ Wired(d.app.parts.terminal) => TerminalCommand \in Range(d.app.contract.commands)
  BY <1>1, <1>2, <1>4, AgentContractFits
<1>6. ASSUME NEW role \in ServiceSlots, Wired(d.app.parts[role])
      PROVE  Fits(d.app.parts[role].contract, SecretVarsFor[role])
  <2>1. NodeFits(role, parts[role]) /\ ServiceOK(role, parts[role])
    BY <1>3 DEF PartsFit, PartsOK
  <2>. QED BY <1>2, <1>3, <1>6, <2>1, PartFits DEF ServiceOK, ContractOf
<1>7. Fits(ContractOf(d.s3), SecretVarsFor["s3"])
  <2>1. NodeFits("s3", parts.s3) /\ OtherOK("s3", parts.s3)
    BY <1>3 DEF PartsFit, PartsOK
  <2>. QED BY <1>1, <1>3, <2>1, PartFits DEF OtherOK
<1>8. CommandsOf(d.commands) \in Seq(AnyCommands)
  <2>1. NodeFits("commands", parts.commands)
    BY <1>3 DEF PartsFit
  <2>. QED BY <1>1, <2>1, NoItems DEF NodeFits, CommandsOf
<1>9. DeploymentFits(d)
  BY <1>5, <1>6, <1>7, <1>8 DEF DeploymentFits
<1>. QED BY <1>9 DEF d

LEMMA InitCommandInv == Init => CommandInv
<1>. SUFFICES ASSUME Init
              PROVE  CommandInv
  OBVIOUS
<1>1. DOMAIN parts = Slots /\ \A s \in Slots : parts[s] = None
  BY DEF Init
<1>2. ~Wired(None)
  BY DEF None, Wired
<1>3. PartsFit
  BY <1>1, <1>2 DEF PartsFit, NodeFits
<1>4. runs = 0
  BY DEF Init
<1>. QED BY <1>3, <1>4, InitPlanInv DEF CommandInv

LEMMA WireKeepsFit ==
  ASSUME PartsFit, NEW slot \in Slots, NEW spec, Wire(slot, spec), NodeFits(slot, spec)
  PROVE  PartsFit'
BY DEF PartsFit, Wire

\* Nodes are wired as their build methods make them.
LEMMA ChangeKeepsPartsFit ==
  ASSUME PlanInv, PartsFit, Next, parts' # parts
  PROVE  PartsFit' /\ UNCHANGED <<runs, plan, last>>
<1>. USE WidgetsAssumption
<1>0. /\ Slots = {"llm", "sql", "vector", "browser", "mcp", "skills", "subagents",
                  "terminal", "commands", "storage", "s3", "keep_alive"}
      /\ ServiceSlots \union OtherSlots
           = {"llm", "sql", "vector", "browser", "mcp", "skills", "subagents", "terminal", "s3"}
  BY DEF Slots, AgentSlots, ServiceSlots, OtherSlots
<1>. SUFFICES \E slot \in Slots : \E spec : Wire(slot, spec) /\ NodeFits(slot, spec)
  BY WireKeepsFit DEF Wire, Change
<1>1. CASE WireBrowser
  BY <1>0, <1>1, BrowserNodeFits DEF WireBrowser
<1>2. CASE WireTerminal
  BY <1>0, <1>2, WebTerminalNodeFits DEF WireTerminal
<1>3. CASE WireLLMServer
  BY <1>0, <1>3, LLMServerNodeFits DEF WireLLMServer
<1>4. CASE WireLLMApi
  BY <1>0, <1>4, LLMApiNodeFits DEF WireLLMApi
<1>5. CASE WireSQL
  BY <1>0, <1>5, RemoteSQLNodeFits, LocalSQLNodeFits DEF WireSQL
<1>6. CASE WireVector
  BY <1>0, <1>6, VectorNodeFits DEF WireVector
<1>7. CASE AddMCPServer
  <2>1. OtherOK("mcp", parts.mcp) /\ NodeFits("mcp", parts.mcp)
    BY <1>0 DEF PlanInv, PartsOK, PartsFit, OtherSlots
  <2>. QED BY <1>0, <1>7, <2>1, MCPServerNodeFits DEF AddMCPServer
<1>8. CASE AddSubagent
  BY <1>0, <1>8, SubagentNodeFits DEF AddSubagent
<1>9. CASE AddSkill
  <2>1. NodeFits("skills", parts.skills)
    BY <1>0 DEF PartsFit
  <2>2. PICK w : w.name \in SkillNames /\ Wire("skills", SkillNode(w, parts.skills, "skills"))
    <3>1. ASSUME NEW w \in Widgets.skill, Wire("skills", SkillNode(w, parts.skills, "skills"))
          PROVE  w.name \in SkillNames
      BY DEF SkillWidgets, SkillNames
    <3>2. ASSUME NEW w \in Widgets.framework
          PROVE  [name |-> w.framework].name \in SkillNames
      BY DEF SkillFrameworkWidgets, SkillNames
    <3>. QED BY <1>9, <3>1, <3>2 DEF AddSkill, SkillFrameworkNode
  <2>. QED BY <1>0, <2>1, <2>2, SkillNodeFits
<1>10. CASE AddCommand
  <2>1. NodeFits("commands", parts.commands)
    BY <1>0 DEF PartsFit
  <2>2. ASSUME NEW w \in Widgets.command,
               Wire("commands", SSHCommandNode(w, parts.commands, "commands"))
        PROVE  NodeFits("commands", SSHCommandNode(w, parts.commands, "commands"))
    <3>1. w.what \in CommandNames /\ w.phase \in Phases /\ w.policy \in Policies
      BY DEF SSHCommandWidgets, CommandNames
    <3>. QED BY <2>1, <3>1, SSHCommandNodeFits
  <2>3. ASSUME NEW w \in Widgets.setup,
               Wire("commands", SetupNode(w, parts.commands, "commands"))
        PROVE  NodeFits("commands", SetupNode(w, parts.commands, "commands"))
    BY <2>1, SetupNodeFits
  <2>. QED BY <1>0, <1>10, <2>2, <2>3 DEF AddCommand
<1>11. CASE WireStorage
  <2>1. \A spec : NodeFits("storage", spec)
    BY <1>0 DEF NodeFits
  <2>. QED BY <1>0, <1>11, <2>1, S3StorageNodeFits DEF WireStorage
<1>12. CASE WireKeepAlive
  <2>1. \A spec : NodeFits("keep_alive", spec)
    BY <1>0 DEF NodeFits
  <2>. QED BY <1>0, <1>12, <2>1 DEF WireKeepAlive
<1>13. CASE Unwire
  <2>1. \A slot : NodeFits(slot, None)
    BY DEF NodeFits, None, Wired
  <2>. QED BY <1>13, <2>1 DEF Unwire
<1>14. CASE SetAgent \/ TypePrompt \/ Run \/ RunRejected
  BY <1>14 DEF SetAgent, TypePrompt, Run, RunRejected
<1>. QED
  BY <1>1, <1>2, <1>3, <1>4, <1>5, <1>6, <1>7, <1>8, <1>9, <1>10, <1>11, <1>12, <1>13, <1>14
  DEF Next

LEMMA NextCommandInv == CommandInv /\ [Next]_vars => CommandInv'
<1>. SUFFICES ASSUME CommandInv, [Next]_vars
              PROVE  CommandInv'
  OBVIOUS
<1>1. PlanInv'
  BY NextPlanInv DEF CommandInv
<1>2. CASE Next /\ parts' # parts
  <2>1. PartsFit' /\ UNCHANGED <<runs, plan, last>>
    BY <1>2, ChangeKeepsPartsFit DEF CommandInv
  <2>. QED BY <1>1, <2>1 DEF CommandInv, IsFitPlan
<1>3. CASE Run
  <2>1. /\ last' = plan /\ runs' = runs + 1 /\ plan' = Plan(Deployment, runs + 1, prompt)
        /\ parts' = parts /\ runs \in 0 .. 2
    BY <1>3 DEF Run, CommandInv, PlanInv
  <2>2. DeploymentOK(Deployment) /\ DeploymentFits(Deployment)
    BY DeploymentIsOK, DeploymentIsFit DEF CommandInv, PlanInv
  <2>3. IsFitPlan(plan')
    BY <2>1, <2>2 DEF IsFitPlan
  <2>4. PartsFit'
    BY <2>1 DEF CommandInv, PartsFit
  <2>5. runs' = 2 => IsFitPlan(last')
    BY <2>1 DEF CommandInv, IsFitPlan
  <2>. QED BY <1>1, <2>3, <2>4, <2>5 DEF CommandInv, IsFitPlan
<1>4. CASE Next /\ parts' = parts /\ ~Run
  <2>1. UNCHANGED <<parts, runs, plan, last>>
    BY <1>4 DEF Next, WireBrowser, WireTerminal, WireLLMServer, WireLLMApi, WireSQL, WireVector,
       AddMCPServer, AddSubagent, AddSkill, AddCommand, WireStorage, WireKeepAlive, Unwire,
       SetAgent, TypePrompt, RunRejected, Wire, Change
  <2>. QED BY <1>1, <2>1 DEF CommandInv, PartsFit, IsFitPlan
<1>5. CASE UNCHANGED vars
  BY <1>1, <1>5 DEF vars, CommandInv, PartsFit, IsFitPlan
<1>. QED BY <1>2, <1>3, <1>4, <1>5

LEMMA AlwaysCommandInv == Spec => []CommandInv
BY InitCommandInv, NextCommandInv, PTL DEF Spec

----------------------------------------------------------------------------
(* The contract of the agent. *)

LEMMA HereFits ==
  ASSUME NEW d, DeploymentFits(d), NEW role \in ServiceSlots
  PROVE  /\ Here(d, role) = EmptyContract \/ There(d, role) = EmptyContract
         /\ Fits(Here(d, role), SecretVarsFor[role])
         /\ Fits(There(d, role), SecretVarsFor[role])
<1>1. Wired(d.app.parts[role]) => Fits(d.app.parts[role].contract, SecretVarsFor[role])
  BY DEF DeploymentFits
<1>2. InOwnPod(d, role) => Wired(d.app.parts[role])
  BY DEF InOwnPod
<1>. QED BY <1>1, <1>2, EmptyFits DEF Here, There

LEMMA MergedFits ==
  ASSUME NEW d, DeploymentFits(d)
  PROVE  /\ Fits(Merged(d), SecretVars)
         /\ Range(d.app.contract.commands) \subseteq Range(Merged(d).commands)
<1>. DEFINE L == SecretVarsFor["llm"]
            Q == SecretVarsFor["sql"]
            M == SecretVarsFor["mcp"]
            A == SecretVarsFor["s3"]
            served == HereOf(d, "llm_server")
            api == HereOf(d, "llm_api")
            far == There(d, "llm")
            L1 == IF served = EmptyContract THEN {} ELSE L
            L2 == IF api = EmptyContract THEN {} ELSE L
            L3 == IF far = EmptyContract THEN {} ELSE L
            near_sql == Here(d, "sql")
            far_sql == There(d, "sql")
            Q1 == IF near_sql = EmptyContract THEN {} ELSE Q
            Q2 == IF far_sql = EmptyContract THEN {} ELSE Q
            near_browser == Here(d, "browser")
            far_browser == There(d, "browser")
            near_vector == Here(d, "vector")
            far_vector == There(d, "vector")
            s3 == ContractOf(d.s3)
            c0 == d.app.contract
            c1 == c0 ++ near_browser
            c2 == c1 ++ served
            c3 == c2 ++ near_sql
            c4 == c3 ++ near_vector
            c5 == c4 ++ api
            c6 == c5 ++ s3
            c7 == c6 ++ far
            c8 == c7 ++ far_sql
            c9 == c8 ++ far_vector
            c10 == c9 ++ far_browser
<1>1. Merged(d) = c10
  BY DEF Merged, LocalContracts, Here, HereOf, There
<1>2. /\ L \intersect Q = {} /\ L \intersect M = {} /\ L \intersect A = {}
      /\ Q \intersect M = {} /\ Q \intersect A = {} /\ M \intersect A = {}
      /\ L \subseteq SecretVars /\ Q \subseteq SecretVars /\ M \subseteq SecretVars
      /\ A \subseteq SecretVars
      /\ SecretVarsFor["browser"] = {} /\ SecretVarsFor["vector"] = {}
  BY DEF SecretVarsFor, SecretVars, S3Keys
<1>3. \A role \in ServiceSlots :
        /\ Here(d, role) = EmptyContract \/ There(d, role) = EmptyContract
        /\ Fits(Here(d, role), SecretVarsFor[role])
        /\ Fits(There(d, role), SecretVarsFor[role])
  BY HereFits
<1>4. /\ Fits(near_browser, {}) /\ Fits(far_browser, {})
      /\ Fits(near_vector, {}) /\ Fits(far_vector, {})
  BY <1>2, <1>3 DEF ServiceSlots
<1>5. Fits(near_sql, Q1) /\ Fits(far_sql, Q2) /\ Q1 \intersect Q2 = {}
  <2>1. /\ near_sql = EmptyContract \/ far_sql = EmptyContract
        /\ Fits(near_sql, Q) /\ Fits(far_sql, Q)
    BY <1>3 DEF ServiceSlots
  <2>. HIDE DEF near_sql, far_sql, Q
  <2>. QED BY <2>1, EmptyFits
<1>6. /\ Fits(served, L1) /\ Fits(api, L2) /\ Fits(far, L3)
      /\ L1 \intersect L2 = {} /\ L1 \intersect L3 = {} /\ L2 \intersect L3 = {}
  <2>1. /\ Here(d, "llm") = EmptyContract \/ far = EmptyContract
        /\ Fits(Here(d, "llm"), L) /\ Fits(far, L)
    BY <1>3 DEF ServiceSlots
  <2>2. /\ served = EmptyContract \/ (served = Here(d, "llm") /\ api = EmptyContract)
        /\ api = EmptyContract \/ (api = Here(d, "llm") /\ served = EmptyContract)
    BY DEF HereOf
  <2>. HIDE DEF served, api, far, L
  <2>. QED BY <2>1, <2>2, EmptyFits
<1>7. L1 \subseteq L /\ L2 \subseteq L /\ L3 \subseteq L /\ Q1 \subseteq Q /\ Q2 \subseteq Q
  OBVIOUS
<1>8. Fits(c0, M) /\ Fits(s3, A)
  BY DEF DeploymentFits
<1>. HIDE DEF L, Q, M, A, served, api, far, near_sql, far_sql, near_browser, far_browser,
             near_vector, far_vector, s3, c0, L1, L2, L3, Q1, Q2
<1>9. Fits(c1, M) /\ Range(c1.commands) = Range(c0.commands) \union Range(near_browser.commands)
  BY <1>4, <1>8, FitsTogether
<1>. HIDE DEF c1
<1>10. /\ Fits(c2, M \union L1)
       /\ Range(c2.commands) = Range(c1.commands) \union Range(served.commands)
  <2>1. M \intersect L1 = {}
    BY <1>2, <1>7
  <2>. QED BY <1>6, <1>9, <2>1, FitsTogether
<1>. HIDE DEF c2
<1>11. /\ Fits(c3, M \union L1 \union Q1)
       /\ Range(c3.commands) = Range(c2.commands) \union Range(near_sql.commands)
  <2>1. (M \union L1) \intersect Q1 = {}
    BY <1>2, <1>7
  <2>. QED BY <1>5, <1>10, <2>1, FitsTogether
<1>. HIDE DEF c3
<1>12. /\ Fits(c4, M \union L1 \union Q1)
       /\ Range(c4.commands) = Range(c3.commands) \union Range(near_vector.commands)
  BY <1>4, <1>11, FitsTogether
<1>. HIDE DEF c4
<1>13. /\ Fits(c5, M \union L1 \union Q1 \union L2)
       /\ Range(c5.commands) = Range(c4.commands) \union Range(api.commands)
  <2>1. (M \union L1 \union Q1) \intersect L2 = {}
    BY <1>2, <1>6, <1>7
  <2>. QED BY <1>6, <1>12, <2>1, FitsTogether
<1>. HIDE DEF c5
<1>14. /\ Fits(c6, M \union L1 \union Q1 \union L2 \union A)
       /\ Range(c6.commands) = Range(c5.commands) \union Range(s3.commands)
  <2>1. (M \union L1 \union Q1 \union L2) \intersect A = {}
    BY <1>2, <1>7
  <2>. QED BY <1>8, <1>13, <2>1, FitsTogether
<1>. HIDE DEF c6
<1>15. /\ Fits(c7, M \union L1 \union Q1 \union L2 \union A \union L3)
       /\ Range(c7.commands) = Range(c6.commands) \union Range(far.commands)
  <2>1. (M \union L1 \union Q1 \union L2 \union A) \intersect L3 = {}
    BY <1>2, <1>6, <1>7
  <2>. QED BY <1>6, <1>14, <2>1, FitsTogether
<1>. HIDE DEF c7
<1>16. /\ Fits(c8, M \union L1 \union Q1 \union L2 \union A \union L3 \union Q2)
       /\ Range(c8.commands) = Range(c7.commands) \union Range(far_sql.commands)
  <2>1. (M \union L1 \union Q1 \union L2 \union A \union L3) \intersect Q2 = {}
    BY <1>2, <1>5, <1>7
  <2>. QED BY <1>5, <1>15, <2>1, FitsTogether
<1>. HIDE DEF c8
<1>. DEFINE T == M \union L1 \union Q1 \union L2 \union A \union L3 \union Q2
<1>17. T \subseteq SecretVars
  BY <1>2, <1>7
<1>. HIDE DEF T
<1>18. Fits(c9, T) /\ Range(c9.commands) = Range(c8.commands) \union Range(far_vector.commands)
  <2>1. Fits(c8, T)
    BY <1>16 DEF T
  <2>2. T \intersect {} = {} /\ T \union {} = T
    OBVIOUS
  <2>3. /\ Fits(c8 ++ far_vector, T \union {})
        /\ Range((c8 ++ far_vector).commands)
             = Range(c8.commands) \union Range(far_vector.commands)
    BY <1>4, <2>1, <2>2, FitsTogether
  <2>. QED BY <2>2, <2>3 DEF c9
<1>. HIDE DEF c9
<1>19. Fits(c10, T) /\ Range(c10.commands) = Range(c9.commands) \union Range(far_browser.commands)
  <2>2. T \intersect {} = {} /\ T \union {} = T
    OBVIOUS
  <2>3. /\ Fits(c9 ++ far_browser, T \union {})
        /\ Range((c9 ++ far_browser).commands)
             = Range(c9.commands) \union Range(far_browser.commands)
    BY <1>4, <1>18, <2>2, FitsTogether
  <2>. QED BY <2>2, <2>3 DEF c10
<1>. HIDE DEF c10
<1>20. Fits(c10, SecretVars)
  BY <1>17, <1>19 DEF Fits
<1>21. Range(c0.commands) \subseteq Range(c10.commands)
  BY <1>9, <1>10, <1>11, <1>12, <1>13, <1>14, <1>15, <1>16, <1>18, <1>19
<1>. QED BY <1>1, <1>20, <1>21 DEF c0

LEMMA AgentCommandsAre ==
  ASSUME NEW d, NEW workflow, NEW text
  PROVE  AgentContract(d, workflow, text).commands = Merged(d).commands
<1>. DEFINE all == LocalContracts(d) ++ There(d, "llm") ++ There(d, "sql")
                     ++ There(d, "vector") ++ There(d, "browser")
<1>1. AgentContract(d, workflow, text)
        = WithEnv(WithEnv(all, RunEnv(workflow, text)), KeepAliveEnv(d.keep_alive))
  BY DEF AgentContract, There, RunEnv
<1>2. all = Merged(d)
  BY DEF Merged
<1>3. DOMAIN Merged(d) = {"env", "secrets", "ports", "commands"}
  BY DEF Merged, ++, MergeContracts, Contract
<1>. HIDE DEF all
<1>. QED BY <1>1, <1>2 DEF WithEnv

----------------------------------------------------------------------------
(* The commands of a plan. *)

LEMMA CommandsOfPlan ==
  ASSUME NEW d, NEW workflow, NEW text, DeploymentOK(d), DeploymentFits(d)
  PROVE  LET p == Plan(d, workflow, text)
         IN  /\ p.contract.commands = Merged(d).commands
             /\ Generated(Merged(d).commands)
             /\ Carries(p.actions, InOrder(CommandsOf(d.commands), Merged(d).commands))
             /\ \E n : LaunchesAt(p.actions, n)
<1>. DEFINE c == AgentContract(d, workflow, text)
            p == Plan(d, workflow, text)
            deps == OwnPodDependencies(d)
<1>1. p.contract = c /\ p.actions = Actions(d, c, deps)
  BY DEF Plan
<1>2. c.commands = Merged(d).commands
  BY AgentCommandsAre
<1>3. Generated(Merged(d).commands)
  BY MergedFits DEF Fits
<1>4. deps \in Seq(ServiceSlots)
  BY OwnPodDependenciesAre
<1>5. CommandsOf(d.commands) \in Seq(AnyCommands)
  BY DEF DeploymentFits
<1>. HIDE DEF p, c, deps
<1>6. /\ c.commands \in Seq(AnyCommands)
      /\ \A x \in Range(c.commands) : x.phase = "before_start"
  BY <1>2, <1>3 DEF Generated
<1>7. /\ Carries(Actions(d, c, deps), InOrder(CommandsOf(d.commands), c.commands))
      /\ \E n : LaunchesAt(Actions(d, c, deps), n)
  BY <1>4, <1>5, <1>6, ActionsCarry
<1>. QED BY <1>1, <1>2, <1>3, <1>7 DEF p

LEMMA RunIndices ==
  ASSUME NEW s \in Seq(AnyActions), NEW phases \in SUBSET Phases
  PROVE  /\ {i \in DOMAIN s : s[i].do = "RUN_SSH_COMMAND" /\ s[i].command.phase \in phases}
              = KeptAt(s, RunsIn(phases))
         /\ {i \in DOMAIN s : s[i].do = "RUN_SSH_COMMAND"} = KeptAt(s, RunsIn(Phases))
<1>1. \A i \in DOMAIN s : s[i] \in AnyActions
  BY ElementOfSeq, LenProperties
<1>2. \A a \in AnyActions : a.do = "RUN_SSH_COMMAND" => a.command.phase \in Phases
  BY DEF AnyActions, AnyCommands
<1>. QED BY <1>1, <1>2 DEF KeptAt, RunsIn

LEMMA LocalCommandsAre ==
  ASSUME NEW p, NEW c, Carries(p.actions, c), NEW phases \in SUBSET Phases
  PROVE  LocalRuntimeCommands(p, phases) = InPhase(c, phases)
<1>. DEFINE mine == ItemsAt(p.actions,
                      {i \in DOMAIN p.actions :
                         /\ p.actions[i].do = "RUN_SSH_COMMAND"
                         /\ p.actions[i].command.phase \in phases})
            k == InPhase(c, phases)
<1>1. p.actions \in Seq(AnyActions) /\ c \in Seq(AnyCommands)
      /\ Kept(p.actions, RunsIn(phases)) = Runs(k)
  BY DEF Carries
<1>2. mine = Runs(k)
  BY <1>1, RunIndices DEF Kept
<1>3. LocalRuntimeCommands(p, phases) = [i \in DOMAIN mine |-> mine[i].command]
  BY DEF LocalRuntimeCommands
<1>4. k \in Seq(AnyCommands)
  BY <1>1, InPhaseKeeps
<1>. HIDE DEF mine, k
<1>5. [i \in DOMAIN Runs(k) |-> Runs(k)[i].command] = k
  BY <1>4, RunsAre
<1>. QED BY <1>2, <1>3, <1>5 DEF k

LEMMA CommandsRunAre ==
  ASSUME NEW p, NEW c, Carries(p.actions, c)
  PROVE  /\ CommandsRun(p) = c
         /\ ItemsAt(p.actions, {i \in DOMAIN p.actions : p.actions[i].do = "RUN_SSH_COMMAND"})
              = Runs(c)
<1>. DEFINE runs_ == ItemsAt(p.actions, {i \in DOMAIN p.actions:
                                           p.actions[i].do = "RUN_SSH_COMMAND"})
<1>1. p.actions \in Seq(AnyActions) /\ c \in Seq(AnyCommands)
      /\ Kept(p.actions, RunsIn(Phases)) = Runs(InPhase(c, Phases))
  BY DEF Carries
<1>2. InPhase(c, Phases) = c
  <2>1. Range(c) \subseteq AnyCommands
    BY <1>1, RangeOfSeq DEF Range
  <2>2. \A x \in AnyCommands : x.phase \in Phases
    BY DEF AnyCommands
  <2>. QED BY <1>1, <2>1, <2>2, InPhaseOfAll
<1>3. runs_ = Runs(c)
  <2>1. {i \in DOMAIN p.actions : p.actions[i].do = "RUN_SSH_COMMAND"}
          = KeptAt(p.actions, RunsIn(Phases))
    BY <1>1, RunIndices
  <2>. QED BY <1>1, <1>2, <2>1 DEF Kept
<1>4. CommandsRun(p) = [i \in DOMAIN runs_ |-> runs_[i].command]
  BY DEF CommandsRun
<1>5. [i \in DOMAIN Runs(c) |-> Runs(c)[i].command] = c
  BY <1>1, RunsAre
<1>. QED BY <1>3, <1>4, <1>5

----------------------------------------------------------------------------
(* The order of the commands. *)

\* What stands earlier in s is related to what stands later.
Arranged(s, R) == \A i, j \in DOMAIN s : i < j => <<s[i], s[j]>> \in R

LEMMA ArrangedTogether ==
  ASSUME NEW S, NEW a \in Seq(S), NEW b \in Seq(S), NEW R,
         Arranged(a, R), Arranged(b, R),
         \A x \in Range(a), y \in Range(b) : <<x, y>> \in R
  PROVE  Arranged(a \o b, R)
<1>. DEFINE c == a \o b
<1>. SUFFICES ASSUME NEW i \in DOMAIN c, NEW j \in DOMAIN c, i < j
              PROVE  <<c[i], c[j]>> \in R
  BY DEF Arranged
<1>1. /\ Len(a) \in Nat /\ Len(b) \in Nat
      /\ DOMAIN a = 1 .. Len(a) /\ DOMAIN b = 1 .. Len(b)
      /\ DOMAIN c = 1 .. (Len(a) + Len(b))
      /\ \A k \in DOMAIN a : c[k] = a[k]
      /\ \A k \in DOMAIN c : k \notin DOMAIN a =>
           k - Len(a) \in DOMAIN b /\ c[k] = b[k - Len(a)]
  BY ConcatenationIs
<1>. HIDE DEF c
<1>2. /\ \A k \in DOMAIN a : a[k] \in Range(a)
      /\ \A k \in DOMAIN b : b[k] \in Range(b)
  BY DEF Range
<1>3. CASE j \in DOMAIN a
  <2>1. i \in DOMAIN a
    BY <1>1, <1>3
  <2>. QED BY <1>1, <1>3, <2>1 DEF Arranged
<1>4. CASE i \in DOMAIN a /\ j \notin DOMAIN a
  BY <1>1, <1>2, <1>4
<1>5. CASE i \notin DOMAIN a /\ j \notin DOMAIN a
  <2>1. i - Len(a) < j - Len(a)
    BY <1>1
  <2>. QED BY <1>1, <1>5, <2>1 DEF Arranged
<1>. QED BY <1>3, <1>4, <1>5

StageOf(c) == CASE c.phase = "before_start" -> 0
                [] c.phase = "teardown" -> 2
                [] OTHER -> 1

\* The first of the two commands runs before the second, whoever asked for it.
Precedes(made, user) ==
  {p \in AnyCommands \X AnyCommands :
     \/ StageOf(p[1]) < StageOf(p[2])
     \/ /\ StageOf(p[1]) = StageOf(p[2])
        /\ (p[1] \in made /\ p[2] \in user) \/ p[1].order <= p[2].order}

LEMMA OrderedIsArranged ==
  ASSUME NEW s \in Seq(AnyCommands), Ordered(s), NEW n,
         \A x \in Range(s) : StageOf(x) = n, NEW made, NEW user
  PROVE  Arranged(s, Precedes(made, user))
<1>. SUFFICES ASSUME NEW i \in DOMAIN s, NEW j \in DOMAIN s, i < j
              PROVE  <<s[i], s[j]>> \in Precedes(made, user)
  BY DEF Arranged
<1>1. s[i] \in AnyCommands /\ s[j] \in AnyCommands /\ i \in Int /\ j \in Int
  BY ElementOfSeq, LenProperties
<1>2. s[i].order <= s[j].order
  BY <1>1 DEF Ordered
<1>3. StageOf(s[i]) = n /\ StageOf(s[j]) = n
  BY DEF Range
<1>. QED BY <1>1, <1>2, <1>3 DEF Precedes

LEMMA StagesAreThree ==
  /\ \A c : c.phase \in {"before_start"} => StageOf(c) = 0
  /\ \A c : c.phase \in {"teardown"} => StageOf(c) = 2
  /\ \A c \in AnyCommands : c.phase \in Late <=> StageOf(c) = 1
  /\ \A c \in AnyCommands : c.phase = "before_start" <=> StageOf(c) = 0
<1>1. \A c : c.phase \in {"before_start"} => StageOf(c) = 0
  BY DEF StageOf
<1>2. \A c : c.phase \in {"teardown"} => StageOf(c) = 2
  BY DEF StageOf
<1>3. \A c \in AnyCommands : c.phase \in Phases
  BY DEF AnyCommands
<1>. QED BY <1>1, <1>2, <1>3 DEF StageOf, Late, Phases

LEMMA CommandsAreOrders ==
  ASSUME NEW s \in Seq(AnyCommands)
  PROVE  Orders(s)
<1>1. \A i \in DOMAIN s : s[i] \in AnyCommands
  BY ElementOfSeq, LenProperties
<1>2. \A c \in AnyCommands : c.order \in Int
  BY DEF AnyCommands
<1>. QED BY <1>1, <1>2 DEF Orders

LEMMA InOrderIsArranged ==
  ASSUME NEW user \in Seq(AnyCommands), NEW made \in Seq(AnyCommands),
         \A c \in Range(made) : c.phase = "before_start"
  PROVE  Arranged(InOrder(user, made), Precedes(Range(made), Range(user)))
<1>. DEFINE R == Precedes(Range(made), Range(user))
            s == SortedByOrder(user)
            a == SortedByOrder(made)
            b == InPhase(s, {"before_start"})
            l == InPhase(s, Late)
            t == InPhase(s, {"teardown"})
            ab == a \o b
            abl == ab \o l
<1>1. /\ s \in Seq(AnyCommands) /\ Ordered(s) /\ Range(s) = Range(user)
      /\ a \in Seq(AnyCommands) /\ Ordered(a) /\ Range(a) = Range(made)
  BY CommandsAreOrders, SortedKeeps
<1>. HIDE DEF s, a
<1>2. /\ b \in Seq(AnyCommands) /\ Ordered(b)
      /\ \A c \in Range(b) : c \in Range(user) /\ c.phase \in {"before_start"}
  BY <1>1, InPhaseKeeps
<1>3. /\ l \in Seq(AnyCommands) /\ Ordered(l)
      /\ \A c \in Range(l) : c.phase \in Late
  BY <1>1, InPhaseKeeps
<1>4. /\ t \in Seq(AnyCommands) /\ Ordered(t)
      /\ \A c \in Range(t) : c.phase \in {"teardown"}
  BY <1>1, InPhaseKeeps
<1>. HIDE DEF b, l, t
<1>5. /\ Range(a) \subseteq AnyCommands /\ Range(b) \subseteq AnyCommands
      /\ Range(l) \subseteq AnyCommands /\ Range(t) \subseteq AnyCommands
  BY <1>1, <1>2, <1>3, <1>4, RangeOfSeq
<1>6. /\ \A c \in Range(a) : StageOf(c) = 0
      /\ \A c \in Range(b) : StageOf(c) = 0
      /\ \A c \in Range(l) : StageOf(c) = 1
      /\ \A c \in Range(t) : StageOf(c) = 2
  BY <1>1, <1>2, <1>3, <1>4, <1>5, StagesAreThree
<1>7. Arranged(a, R) /\ Arranged(b, R) /\ Arranged(l, R) /\ Arranged(t, R)
  <2>1. Arranged(a, R)
    BY <1>1, <1>6, OrderedIsArranged
  <2>2. Arranged(b, R)
    BY <1>2, <1>6, OrderedIsArranged
  <2>3. Arranged(l, R)
    BY <1>3, <1>6, OrderedIsArranged
  <2>4. Arranged(t, R)
    BY <1>4, <1>6, OrderedIsArranged
  <2>. QED BY <2>1, <2>2, <2>3, <2>4
<1>8. Arranged(ab, R)
  <2>1. \A x \in Range(a), y \in Range(b) : <<x, y>> \in R
    BY <1>1, <1>2, <1>5, <1>6 DEF Precedes
  <2>. QED BY <1>1, <1>2, <1>7, <2>1, ArrangedTogether
<1>9. /\ ab \in Seq(AnyCommands) /\ Range(ab) = Range(a) \union Range(b)
  BY <1>1, <1>2, Concatenation
<1>. HIDE DEF ab
<1>10. /\ Arranged(abl, R) /\ abl \in Seq(AnyCommands)
       /\ Range(abl) = Range(ab) \union Range(l)
  <2>1. \A x \in Range(ab), y \in Range(l) : <<x, y>> \in R
    BY <1>5, <1>6, <1>9 DEF Precedes
  <2>2. ab \in Seq(AnyCommands) /\ l \in Seq(AnyCommands)
    BY <1>3, <1>9
  <2>3. ab \o l \in Seq(AnyCommands) /\ Range(ab \o l) = Range(ab) \union Range(l)
    BY <2>2, Concatenation
  <2>4. Arranged(ab \o l, R)
    BY <1>7, <1>8, <2>1, <2>2, ArrangedTogether
  <2>. QED BY <2>3, <2>4
<1>. HIDE DEF abl
<1>11. Arranged(abl \o t, R)
  <2>1. \A x \in Range(abl), y \in Range(t) : <<x, y>> \in R
    BY <1>5, <1>6, <1>9, <1>10 DEF Precedes
  <2>. QED BY <1>4, <1>7, <1>10, <2>1, ArrangedTogether
<1>12. InOrder(user, made) = abl \o t
  BY DEF InOrder, ab, abl, a, b, l, t, s
<1>. QED BY <1>11, <1>12

LEMMA PartsOfThree ==
  ASSUME NEW A, NEW B, NEW C, NEW T, IsFiniteSet(T), T = A \union B \union C,
         A \intersect B = {}, (A \union B) \intersect C = {}
  PROVE  Cardinality(T) = Cardinality(A) + Cardinality(B) + Cardinality(C)
<1>1. IsFiniteSet(A) /\ IsFiniteSet(B) /\ IsFiniteSet(C)
  BY FS_Subset
<1>2. IsFiniteSet(A \union B)
  BY <1>1, FS_Union
<1>3. /\ Cardinality(A) \in Nat /\ Cardinality(B) \in Nat /\ Cardinality(C) \in Nat
      /\ Cardinality(A \union B) \in Nat
  BY <1>1, <1>2, FS_CardinalityType
<1>4. Cardinality(A \intersect B) = 0 /\ Cardinality((A \union B) \intersect C) = 0
  BY FS_EmptySet
<1>5. Cardinality(A \union B) = Cardinality(A) + Cardinality(B)
  <2>1. Cardinality(A \union B)
          = Cardinality(A) + Cardinality(B) - Cardinality(A \intersect B)
    BY <1>1, FS_Union
  <2>. QED BY <1>3, <1>4, <2>1
<1>. DEFINE AB == A \union B
<1>. HIDE DEF AB
<1>6. Cardinality(AB \union C) = Cardinality(AB) + Cardinality(C)
  <2>1. IsFiniteSet(AB) /\ Cardinality(AB) \in Nat /\ Cardinality(AB \intersect C) = 0
    BY <1>2, <1>3, <1>4 DEF AB
  <2>2. Cardinality(AB \union C)
          = Cardinality(AB) + Cardinality(C) - Cardinality(AB \intersect C)
    BY <1>1, <2>1, FS_Union
  <2>. QED BY <1>3, <2>1, <2>2
<1>. QED BY <1>3, <1>5, <1>6 DEF AB

LEMMA InOrderHasAll ==
  ASSUME NEW user \in Seq(AnyCommands), NEW made \in Seq(AnyCommands)
  PROVE  /\ InOrder(user, made) \in Seq(AnyCommands)
         /\ Len(InOrder(user, made)) = Len(user) + Len(made)
         /\ \A c \in AnyCommands :
              Times(c, InOrder(user, made)) = Times(c, user) + Times(c, made)
<1>. DEFINE s == SortedByOrder(user)
            a == SortedByOrder(made)
            b == InPhase(s, {"before_start"})
            l == InPhase(s, Late)
            t == InPhase(s, {"teardown"})
            ab == a \o b
            abl == ab \o l
<1>1. /\ s \in Seq(AnyCommands) /\ Len(s) = Len(user)
      /\ \A c : Times(c, s) = Times(c, user)
      /\ a \in Seq(AnyCommands) /\ Len(a) = Len(made)
      /\ \A c : Times(c, a) = Times(c, made)
  BY CommandsAreOrders, SortedKeeps
<1>. HIDE DEF s, a
<1>2. /\ b \in Seq(AnyCommands) /\ Len(b) = Cardinality(PhaseAt(s, {"before_start"}))
      /\ \A c : c.phase \in {"before_start"} => Times(c, b) = Times(c, s)
      /\ \A c : c.phase \notin {"before_start"} => Times(c, b) = 0
  BY <1>1, InPhaseKeeps
<1>3. /\ l \in Seq(AnyCommands) /\ Len(l) = Cardinality(PhaseAt(s, Late))
      /\ \A c : c.phase \in Late => Times(c, l) = Times(c, s)
      /\ \A c : c.phase \notin Late => Times(c, l) = 0
  BY <1>1, InPhaseKeeps
<1>4. /\ t \in Seq(AnyCommands) /\ Len(t) = Cardinality(PhaseAt(s, {"teardown"}))
      /\ \A c : c.phase \in {"teardown"} => Times(c, t) = Times(c, s)
      /\ \A c : c.phase \notin {"teardown"} => Times(c, t) = 0
  BY <1>1, InPhaseKeeps
<1>. HIDE DEF b, l, t
<1>5. Len(s) = Len(b) + Len(l) + Len(t)
  <2>1. \A i \in DOMAIN s : s[i].phase \in Phases
    <3>1. \A i \in DOMAIN s : s[i] \in AnyCommands
      BY <1>1, ElementOfSeq, LenProperties
    <3>. QED BY <3>1 DEF AnyCommands
  <2>2. /\ DOMAIN s = PhaseAt(s, {"before_start"}) \union PhaseAt(s, Late)
                        \union PhaseAt(s, {"teardown"})
        /\ PhaseAt(s, {"before_start"}) \intersect PhaseAt(s, Late) = {}
        /\ (PhaseAt(s, {"before_start"}) \union PhaseAt(s, Late))
             \intersect PhaseAt(s, {"teardown"}) = {}
    BY <2>1 DEF PhaseAt, Late, Phases
  <2>. DEFINE B == PhaseAt(s, {"before_start"})
              L == PhaseAt(s, Late)
              D == PhaseAt(s, {"teardown"})
  <2>3. IsFiniteSet(DOMAIN s) /\ Cardinality(DOMAIN s) = Len(s)
    BY <1>1, IndicesAreFinite
  <2>4. Cardinality(DOMAIN s) = Cardinality(B) + Cardinality(L) + Cardinality(D)
    <3>. HIDE DEF B, L, D
    <3>1. /\ DOMAIN s = B \union L \union D /\ B \intersect L = {}
          /\ (B \union L) \intersect D = {}
      BY <2>2 DEF B, L, D
    <3>. QED BY <2>3, <3>1, PartsOfThree
  <2>. QED BY <1>2, <1>3, <1>4, <2>3, <2>4
<1>6. /\ ab \in Seq(AnyCommands) /\ Len(ab) = Len(a) + Len(b)
      /\ \A c : Times(c, ab) = Times(c, a) + Times(c, b)
      /\ Len(a) \in Nat /\ Len(b) \in Nat
  <2>1. a \in Seq(AnyCommands) /\ b \in Seq(AnyCommands)
    BY <1>1, <1>2
  <2>2. /\ a \o b \in Seq(AnyCommands) /\ Len(a \o b) = Len(a) + Len(b)
        /\ Len(a) \in Nat /\ Len(b) \in Nat
    BY <2>1, ConcatenationIs
  <2>3. \A c : Times(c, a \o b) = Times(c, a) + Times(c, b)
    BY <2>1, TimesOfConcatenation
  <2>. QED BY <2>2, <2>3
<1>. HIDE DEF ab
<1>7. /\ abl \in Seq(AnyCommands) /\ Len(abl) = Len(ab) + Len(l)
      /\ \A c : Times(c, abl) = Times(c, ab) + Times(c, l)
      /\ Len(l) \in Nat
  <2>1. ab \in Seq(AnyCommands) /\ l \in Seq(AnyCommands)
    BY <1>3, <1>6
  <2>2. ab \o l \in Seq(AnyCommands) /\ Len(ab \o l) = Len(ab) + Len(l) /\ Len(l) \in Nat
    BY <2>1, ConcatenationIs
  <2>3. \A c : Times(c, ab \o l) = Times(c, ab) + Times(c, l)
    BY <2>1, TimesOfConcatenation
  <2>. QED BY <2>2, <2>3
<1>. HIDE DEF abl
<1>8. /\ abl \o t \in Seq(AnyCommands)
      /\ Len(abl \o t) = Len(abl) + Len(t)
      /\ \A c : Times(c, abl \o t) = Times(c, abl) + Times(c, t)
      /\ Len(t) \in Nat
  BY <1>4, <1>7, ConcatenationIs, TimesOfConcatenation
<1>9. InOrder(user, made) = abl \o t
  BY DEF InOrder, ab, abl, a, b, l, t, s
<1>10. Len(abl \o t) = Len(user) + Len(made)
  BY <1>1, <1>5, <1>6, <1>7, <1>8
<1>11. ASSUME NEW c \in AnyCommands
       PROVE  Times(c, abl \o t) = Times(c, user) + Times(c, made)
  <2>1. Times(c, abl \o t) = Times(c, a) + Times(c, b) + Times(c, l) + Times(c, t)
    BY <1>6, <1>7, <1>8
  <2>2. /\ Times(c, a) = Times(c, made) /\ Times(c, made) \in Nat
        /\ Times(c, user) \in Nat /\ Times(c, s) = Times(c, user)
    BY <1>1, TimesIsNatural
  <2>3. c.phase \in Phases
    BY <1>11 DEF AnyCommands
  <2>4. Times(c, b) + Times(c, l) + Times(c, t) = Times(c, s)
    <3>1. CASE c.phase = "before_start"
      <4>1. Times(c, b) = Times(c, s) /\ Times(c, l) = 0 /\ Times(c, t) = 0
        BY <1>2, <1>3, <1>4, <3>1 DEF Late
      <4>. QED BY <2>2, <4>1
    <3>2. CASE c.phase \in Late
      <4>1. Times(c, b) = 0 /\ Times(c, l) = Times(c, s) /\ Times(c, t) = 0
        BY <1>2, <1>3, <1>4, <3>2 DEF Late
      <4>. QED BY <2>2, <4>1
    <3>3. CASE c.phase = "teardown"
      <4>1. Times(c, b) = 0 /\ Times(c, l) = 0 /\ Times(c, t) = Times(c, s)
        BY <1>2, <1>3, <1>4, <3>3 DEF Late
      <4>. QED BY <2>2, <4>1
    <3>. QED BY <2>3, <3>1, <3>2, <3>3 DEF Phases, Late
  <2>5. Times(c, b) \in Nat /\ Times(c, l) \in Nat /\ Times(c, t) \in Nat
    BY <1>2, <1>3, <1>4, TimesIsNatural
  <2>. QED BY <2>1, <2>2, <2>4, <2>5
<1>. QED BY <1>8, <1>9, <1>10, <1>11

\* The place in the plan of the i-th command that it runs.
PlaceOf(p, i) ==
  CHOOSE n \in DOMAIN p.actions :
    /\ p.actions[n].do = "RUN_SSH_COMMAND"
    /\ Cardinality({m \in 1..n : p.actions[m].do = "RUN_SSH_COMMAND"}) = i

LEMMA PlacesAre ==
  ASSUME NEW p, NEW c, Carries(p.actions, c), NEW i \in DOMAIN c
  PROVE  /\ PlaceOf(p, i) \in DOMAIN p.actions
         /\ p.actions[PlaceOf(p, i)].do = "RUN_SSH_COMMAND"
         /\ p.actions[PlaceOf(p, i)].command = c[i]
<1>. DEFINE s == p.actions
            I == {n \in DOMAIN s : s[n].do = "RUN_SSH_COMMAND"}
            N == 1 .. Cardinality(I)
<1>1. s \in Seq(AnyActions) /\ c \in Seq(AnyCommands)
  BY DEF Carries
<1>2. ItemsAt(s, I) = Runs(c)
  BY CommandsRunAre
<1>3. /\ DOMAIN s = 1 .. Len(s) /\ Len(s) \in Nat
      /\ I \in SUBSET DOMAIN s /\ I \in SUBSET Int /\ IsFiniteSet(I)
      /\ \A n \in I : s[n].do = "RUN_SSH_COMMAND"
  <2>1. DOMAIN s = 1 .. Len(s) /\ Len(s) \in Nat
    BY <1>1, LenProperties
  <2>. QED BY <1>1, <2>1, IndicesAreFinite
<1>4. \A n \in DOMAIN s :
        {m \in 1 .. n : s[m].do = "RUN_SSH_COMMAND"} = {j \in I : <<j, n>> \in InPlace}
  BY <1>3 DEF InPlace
<1>. HIDE DEF s, I
<1>5. PICK e : Enumerates(e, I, InPlace)
  BY <1>1, <1>3, ItemsAtEnumerated
<1>6. IsOrder(InPlace, I)
  BY <1>3, InPlaceIsOrder
<1>7. /\ DOMAIN ItemsAt(s, I) = N
      /\ \A n \in N : e[n] \in I /\ ItemsAt(s, I)[n] = s[e[n]]
  BY <1>1, <1>3, <1>5, ItemsAtAre
<1>8. /\ DOMAIN Runs(c) = DOMAIN c /\ Runs(c)[i].command = c[i]
  BY <1>1, RunsAre
<1>9. i \in N /\ e[i] \in I /\ s[e[i]].command = c[i]
  BY <1>2, <1>7, <1>8
<1>10. \A n \in N : Rank(e[n], I, InPlace) = n
  BY <1>5, <1>6, EnumerationIsRank
<1>11. \A n \in I : \E m \in N : e[m] = n
  BY <1>5 DEF Enumerates, Bijection, Surjection
<1>12. \A n \in I : Rank(n, I, InPlace) = i => n = e[i]
  BY <1>9, <1>10, <1>11
<1>13. \A n \in DOMAIN s :
         s[n].do = "RUN_SSH_COMMAND"
           /\ Cardinality({m \in 1..n : s[m].do = "RUN_SSH_COMMAND"}) = i
         <=> n = e[i]
  <2>1. \A n \in DOMAIN s : n \in I <=> s[n].do = "RUN_SSH_COMMAND"
    BY DEF I
  <2>2. \A n \in DOMAIN s :
          Cardinality({m \in 1..n : s[m].do = "RUN_SSH_COMMAND"}) = Rank(n, I, InPlace)
    BY <1>4 DEF Rank
  <2>. QED BY <1>3, <1>9, <1>10, <1>12, <2>1, <2>2
<1>14. (CHOOSE n \in DOMAIN s :
          s[n].do = "RUN_SSH_COMMAND"
            /\ Cardinality({m \in 1..n : s[m].do = "RUN_SSH_COMMAND"}) = i) = e[i]
  BY <1>3, <1>9, <1>13
<1>15. PlaceOf(p, i) = e[i]
  BY <1>14 DEF PlaceOf, s
<1>. QED BY <1>3, <1>9, <1>15 DEF s

LEMMA LaunchIsAmongThem ==
  ASSUME NEW p, NEW c, Carries(p.actions, c), NEW i \in DOMAIN c,
         NEW n, LaunchesAt(p.actions, n)
  PROVE  StageOf(c[i]) = 0 <=> PlaceOf(p, i) < Position(p, "LAUNCH_AGENT")
<1>. DEFINE s == p.actions
            at == PlaceOf(p, i)
<1>1. s \in Seq(AnyActions) /\ c \in Seq(AnyCommands)
  BY DEF Carries
<1>2. /\ at \in DOMAIN s /\ s[at].do = "RUN_SSH_COMMAND" /\ s[at].command = c[i]
  BY PlacesAre
<1>3. DOMAIN s \subseteq Int
  BY <1>1, LenProperties
<1>4. /\ n \in DOMAIN s /\ s[n].do = "LAUNCH_AGENT"
      /\ \A k \in DOMAIN s : k < n => s[k] \in Starting
      /\ \A k \in DOMAIN s : n < k => s[k] \in Running
  BY DEF LaunchesAt
<1>. HIDE DEF s, at
<1>5. \A k \in DOMAIN s : s[k].do = "LAUNCH_AGENT" => k = n
  BY <1>3, <1>4 DEF Starting, Running
<1>6. Position(p, "LAUNCH_AGENT") = n
  <2>1. Position(p, "LAUNCH_AGENT") = CHOOSE k \in DOMAIN s : s[k].do = "LAUNCH_AGENT"
    BY DEF Position, s
  <2>. QED BY <1>4, <1>5, <2>1
<1>7. c[i] \in AnyCommands
  BY <1>1, ElementOfSeq, LenProperties
<1>8. CASE at < n
  <2>1. c[i].phase = "before_start"
    BY <1>2, <1>4, <1>8 DEF Starting
  <2>. QED BY <1>6, <1>7, <1>8, <2>1, StagesAreThree DEF at
<1>9. CASE n < at
  <2>1. c[i].phase # "before_start"
    BY <1>2, <1>4, <1>9 DEF Running
  <2>2. ~(at < n)
    BY <1>2, <1>3, <1>4, <1>9
  <2>. QED BY <1>6, <1>7, <2>1, <2>2, StagesAreThree DEF at
<1>10. at # n
  BY <1>2, <1>4
<1>. QED BY <1>2, <1>3, <1>4, <1>8, <1>9, <1>10

LEMMA FirstStays ==
  ASSUME NEW S, NEW x \in Seq(S), NEW y \in Seq(S), 1 \in DOMAIN x
  PROVE  x \o y \in Seq(S) /\ 1 \in DOMAIN (x \o y) /\ (x \o y)[1] = x[1]
BY ConcatenationIs

\* The web terminal comes first of all.
LEMMA TerminalIsFirst ==
  ASSUME NEW user \in Seq(AnyCommands), NEW made, Generated(made),
         TerminalCommand \in Range(made)
  PROVE  /\ 1 \in DOMAIN InOrder(user, made)
         /\ InOrder(user, made)[1] = TerminalCommand
<1>. DEFINE s == SortedByOrder(user)
            a == SortedByOrder(made)
<1>1. made \in Seq(AnyCommands)
  BY DEF Generated
<1>2. s \in Seq(AnyCommands)
      /\ a \in Seq(AnyCommands) /\ Ordered(a) /\ Range(a) = Range(made)
  BY <1>1, CommandsAreOrders, SortedKeeps
<1>3. PICK i \in DOMAIN a : a[i] = TerminalCommand
  BY <1>2 DEF Range
<1>. HIDE DEF s, a
<1>4. DOMAIN a = 1 .. Len(a) /\ Len(a) \in Nat /\ 1 \in DOMAIN a /\ 1 <= i
  BY <1>2, <1>3, LenProperties
<1>5. a[1].order <= -40000
  <2>1. a[1].order <= a[i].order
    BY <1>2, <1>3, <1>4 DEF Ordered
  <2>. QED BY <1>3, <2>1 DEF TerminalCommand, Command
<1>6. a[1] \in Range(made) /\ a[1] \in AnyCommands
  BY <1>2, <1>4, ElementOfSeq DEF Range
<1>7. a[1] = TerminalCommand
  <2>1. a[1].order \in Int
    BY <1>6 DEF AnyCommands
  <2>2. -40000 <= a[1].order /\ (a[1].order = -40000 => a[1] = TerminalCommand)
    BY <1>6 DEF Generated
  <2>. QED BY <1>5, <2>1, <2>2
<1>8. /\ InPhase(s, {"before_start"}) \in Seq(AnyCommands)
      /\ InPhase(s, Late) \in Seq(AnyCommands)
      /\ InPhase(s, {"teardown"}) \in Seq(AnyCommands)
  BY <1>2, InPhaseKeeps
<1>. DEFINE b == InPhase(s, {"before_start"})
            l == InPhase(s, Late)
            t == InPhase(s, {"teardown"})
            ab == a \o b
            abl == ab \o l
<1>9. InOrder(user, made) = abl \o t
  BY DEF InOrder, a, s
<1>10. b \in Seq(AnyCommands) /\ l \in Seq(AnyCommands) /\ t \in Seq(AnyCommands)
  BY <1>8
<1>. HIDE DEF b, l, t
<1>11. ab \in Seq(AnyCommands) /\ 1 \in DOMAIN ab /\ ab[1] = a[1]
  BY <1>2, <1>4, <1>10, FirstStays
<1>. HIDE DEF ab
<1>12. abl \in Seq(AnyCommands) /\ 1 \in DOMAIN abl /\ abl[1] = ab[1]
  BY <1>10, <1>11, FirstStays
<1>. HIDE DEF abl
<1>13. 1 \in DOMAIN (abl \o t) /\ (abl \o t)[1] = abl[1]
  BY <1>10, <1>12, FirstStays
<1>. QED BY <1>7, <1>9, <1>11, <1>12, <1>13

LEMMA PlannedCommands ==
  ASSUME CommandInv, Planned
  PROVE  LET user == CommandsOf(parts.commands)
             made == plan.contract.commands
         IN  /\ user \in Seq(AnyCommands) /\ Generated(made)
             /\ Carries(plan.actions, InOrder(user, made))
             /\ \E n : LaunchesAt(plan.actions, n)
             /\ Wired(parts.terminal) => TerminalCommand \in Range(made)
<1>. DEFINE d == Deployment
<1>1. plan = Plan(d, runs, prompt)
  BY DEF CommandInv, PlanInv
<1>2. PartsOK /\ PartsFit
  BY DEF CommandInv, PlanInv
<1>3. DeploymentOK(d) /\ DeploymentFits(d)
  BY <1>2, DeploymentIsOK, DeploymentIsFit
<1>4. d.commands = parts.commands /\ d.app.parts.terminal = parts.terminal
  BY DEF Deployment, WithTerminalOptions, DeployNode, AgentNode, AgentSlots
<1>. HIDE DEF d
<1>5. /\ plan.contract.commands = Merged(d).commands
      /\ Generated(Merged(d).commands)
      /\ Carries(plan.actions, InOrder(CommandsOf(d.commands), Merged(d).commands))
      /\ \E n : LaunchesAt(plan.actions, n)
  BY <1>1, <1>3, CommandsOfPlan
<1>6. Range(d.app.contract.commands) \subseteq Range(Merged(d).commands)
  BY <1>3, MergedFits
<1>7. /\ CommandsOf(d.commands) \in Seq(AnyCommands)
      /\ Wired(d.app.parts.terminal) => TerminalCommand \in Range(d.app.contract.commands)
  BY <1>3 DEF DeploymentFits
<1>. QED BY <1>4, <1>5, <1>6, <1>7

LEMMA CommandsFollow == CommandInv => CommandsInOrder
<1>. SUFFICES ASSUME CommandInv, Planned
              PROVE  CommandsInOrder
  BY DEF CommandsInOrder
<1>. DEFINE user == CommandsOf(parts.commands)
            made == plan.contract.commands
            done == CommandsRun(plan)
            launch == Position(plan, "LAUNCH_AGENT")
            Asked(c) == Cardinality({i \in DOMAIN user: user[i] = c})
                          + Cardinality({i \in DOMAIN made: made[i] = c})
<1>1. /\ user \in Seq(AnyCommands) /\ Generated(made)
      /\ Carries(plan.actions, InOrder(user, made))
      /\ \E n : LaunchesAt(plan.actions, n)
      /\ Wired(parts.terminal) => TerminalCommand \in Range(made)
  BY PlannedCommands
<1>2. made \in Seq(AnyCommands) /\ \A c \in Range(made) : c.phase = "before_start"
  BY <1>1 DEF Generated
<1>3. done = InOrder(user, made)
  BY <1>1, CommandsRunAre
<1>. HIDE DEF user, made, done, launch
<1>4. /\ done \in Seq(AnyCommands) /\ Len(done) = Len(user) + Len(made)
      /\ \A c \in AnyCommands : Times(c, done) = Times(c, user) + Times(c, made)
  BY <1>1, <1>2, <1>3, InOrderHasAll
<1>5. ASSUME NEW c \in Range(done)
      PROVE  Cardinality({i \in DOMAIN done: done[i] = c}) = Asked(c)
  <2>1. c \in AnyCommands
    BY <1>4, RangeOfSeq
  <2>. QED BY <1>4, <2>1 DEF Times, Where
<1>6. ASSUME NEW i \in DOMAIN done
      PROVE  (StageOf(done[i]) = 0) = (PlaceOf(plan, i) < launch)
  <2>1. StageOf(done[i]) = 0 <=> PlaceOf(plan, i) < launch
    BY <1>1, <1>3, LaunchIsAmongThem DEF launch
  <2>. HIDE DEF launch
  <2>2. (StageOf(done[i]) = 0) \in BOOLEAN /\ (PlaceOf(plan, i) < launch) \in BOOLEAN
    OBVIOUS
  <2>. QED BY <2>1, <2>2
<1>7. ASSUME NEW i \in DOMAIN done, NEW j \in DOMAIN done, i < j
      PROVE  \/ StageOf(done[i]) < StageOf(done[j])
             \/ /\ StageOf(done[i]) = StageOf(done[j])
                /\ \/ done[i] \in Range(made) /\ done[j] \in Range(user)
                   \/ done[i].order <= done[j].order
  <2>1. Arranged(done, Precedes(Range(made), Range(user)))
    BY <1>1, <1>2, <1>3, InOrderIsArranged
  <2>2. <<done[i], done[j]>> \in Precedes(Range(made), Range(user))
    BY <1>7, <2>1 DEF Arranged
  <2>. QED BY <2>2 DEF Precedes
<1>8. ASSUME Wired(parts.terminal)
      PROVE  /\ done[1].what = "web_terminal"
             /\ \A i \in DOMAIN done: done[i].policy = "fail" => i > 1
  <2>1. 1 \in DOMAIN done /\ done[1] = TerminalCommand
    BY <1>1, <1>3, <1>8, TerminalIsFirst
  <2>2. done[1].what = "web_terminal" /\ done[1].policy = "continue"
    BY <2>1 DEF TerminalCommand, Command
  <2>3. DOMAIN done = 1 .. Len(done)
    BY <1>4, LenProperties
  <2>. QED BY <2>2, <2>3
<1>. QED BY <1>4, <1>5, <1>6, <1>7, <1>8
         DEF CommandsInOrder, StageOf, PlaceOf, user, made, done, launch

\* The commands of every plan are those that were asked for, each as often as
\* it was, in the order that Planner._actions is meant to give them, around
\* the launch of the agent, and a web terminal before all of them.
THEOREM CommandsRunInOrder == Spec => []CommandsInOrder
BY AlwaysCommandInv, CommandsFollow, PTL

----------------------------------------------------------------------------
(* The script of a local container. *)

Done == Phases \ {"teardown"}

LEMMA PhasesInOrder ==
  ASSUME NEW user \in Seq(AnyCommands), NEW made \in Seq(AnyCommands),
         \A x \in Range(made) : x.phase = "before_start"
  PROVE  LET c == InOrder(user, made)
         IN  /\ InPhase(c, {"before_start"}) \in Seq(AnyCommands)
             /\ InPhase(c, Late) \in Seq(AnyCommands)
             /\ InPhase(c, {"teardown"}) \in Seq(AnyCommands)
             /\ InPhase(c, Phases) = c
             /\ InPhase(c, Done) = InPhase(c, {"before_start"}) \o InPhase(c, Late)
             /\ c = InPhase(c, {"before_start"}) \o InPhase(c, Late)
                      \o InPhase(c, {"teardown"})
<1>. DEFINE s == SortedByOrder(user)
            a == SortedByOrder(made)
            b == InPhase(s, {"before_start"})
            l == InPhase(s, Late)
            t == InPhase(s, {"teardown"})
            ab == a \o b
            abl == ab \o l
            c == InOrder(user, made)
<1>1. /\ s \in Seq(AnyCommands)
      /\ a \in Seq(AnyCommands) /\ Range(a) = Range(made)
  BY CommandsAreOrders, SortedKeeps
<1>2. c = abl \o t
  BY DEF InOrder
<1>. HIDE DEF s, a
<1>3. /\ b \in Seq(AnyCommands) /\ \A x \in Range(b) : x.phase \in {"before_start"}
      /\ l \in Seq(AnyCommands) /\ \A x \in Range(l) : x.phase \in Late
      /\ t \in Seq(AnyCommands) /\ \A x \in Range(t) : x.phase \in {"teardown"}
  BY <1>1, InPhaseKeeps
<1>. HIDE DEF b, l, t
<1>4. ab \in Seq(AnyCommands) /\ Range(ab) = Range(a) \union Range(b)
  BY <1>1, <1>3, Concatenation
<1>5. \A x \in Range(ab) : x.phase = "before_start"
  BY <1>1, <1>3, <1>4
<1>. HIDE DEF ab
<1>6. abl \in Seq(AnyCommands) /\ Range(abl) = Range(ab) \union Range(l)
  BY <1>3, <1>4, Concatenation
<1>7. ASSUME NEW phases
      PROVE  InPhase(c, phases)
               = InPhase(ab, phases) \o InPhase(l, phases) \o InPhase(t, phases)
  <2>1. InPhase(abl, phases) = InPhase(ab, phases) \o InPhase(l, phases)
    <3>1. ab \in Seq(AnyCommands) /\ l \in Seq(AnyCommands)
      BY <1>3, <1>4
    <3>. QED BY <3>1, InPhaseOfConcatenation
  <2>. HIDE DEF abl
  <2>2. InPhase(abl \o t, phases) = InPhase(abl, phases) \o InPhase(t, phases)
    <3>1. abl \in Seq(AnyCommands) /\ t \in Seq(AnyCommands)
      BY <1>3, <1>6
    <3>. QED BY <3>1, InPhaseOfConcatenation
  <2>. QED BY <1>2, <2>1, <2>2
<1>. HIDE DEF abl, c
<1>8. /\ InPhase(ab, {"before_start"}) = ab /\ InPhase(ab, Done) = ab
      /\ InPhase(ab, Late) = <<>> /\ InPhase(ab, {"teardown"}) = <<>>
      /\ InPhase(ab, Phases) = ab
  <2>1. \A x \in Range(ab) : /\ x.phase \in {"before_start"} /\ x.phase \in Done
                             /\ x.phase \notin Late /\ x.phase \notin {"teardown"}
                             /\ x.phase \in Phases
    BY <1>5 DEF Late, Done, Phases
  <2>. QED BY <1>4, <2>1, InPhaseOfAll, InPhaseOfNone
<1>9. /\ InPhase(l, {"before_start"}) = <<>> /\ InPhase(l, Done) = l
      /\ InPhase(l, Late) = l /\ InPhase(l, {"teardown"}) = <<>>
      /\ InPhase(l, Phases) = l
  <2>1. \A x \in Range(l) : /\ x.phase \notin {"before_start"} /\ x.phase \in Done
                            /\ x.phase \in Late /\ x.phase \notin {"teardown"}
                            /\ x.phase \in Phases
    BY <1>3 DEF Late, Done, Phases
  <2>. QED BY <1>3, <2>1, InPhaseOfAll, InPhaseOfNone
<1>10. /\ InPhase(t, {"before_start"}) = <<>> /\ InPhase(t, Done) = <<>>
       /\ InPhase(t, Late) = <<>> /\ InPhase(t, {"teardown"}) = t
       /\ InPhase(t, Phases) = t
  <2>1. \A x \in Range(t) : /\ x.phase \notin {"before_start"} /\ x.phase \notin Done
                            /\ x.phase \notin Late /\ x.phase \in {"teardown"}
                            /\ x.phase \in Phases
    BY <1>3 DEF Late, Done, Phases
  <2>. QED BY <1>3, <2>1, InPhaseOfAll, InPhaseOfNone
<1>11. /\ \A x \in Seq(AnyCommands) : x \o <<>> = x /\ <<>> \o x = x
       /\ <<>> \in Seq(AnyCommands)
  BY ConcatEmptySeq, EmptySeq
<1>12. InPhase(c, {"before_start"}) = ab
  <2>1. InPhase(c, {"before_start"}) = ab \o <<>> \o <<>>
    BY <1>7, <1>8, <1>9, <1>10
  <2>. QED BY <1>4, <1>11, <2>1
<1>13. InPhase(c, Late) = l
  <2>1. InPhase(c, Late) = <<>> \o l \o <<>>
    BY <1>7, <1>8, <1>9, <1>10
  <2>. QED BY <1>3, <1>11, <2>1
<1>14. InPhase(c, {"teardown"}) = t
  <2>1. InPhase(c, {"teardown"}) = <<>> \o <<>> \o t
    BY <1>7, <1>8, <1>9, <1>10
  <2>. QED BY <1>3, <1>11, <2>1
<1>15. InPhase(c, Done) = abl
  <2>1. InPhase(c, Done) = abl \o <<>>
    BY <1>7, <1>8, <1>9, <1>10 DEF abl
  <2>. QED BY <1>6, <1>11, <2>1
<1>16. InPhase(c, Phases) = c
  BY <1>2, <1>7, <1>8, <1>9, <1>10 DEF abl
<1>. QED BY <1>2, <1>3, <1>4, <1>12, <1>13, <1>14, <1>15, <1>16 DEF abl, c

LEMMA UpToIsOne == \A m, n \in Nat : 1 .. m = 1 .. n => m = n
<1>. SUFFICES ASSUME NEW m \in Nat, NEW n \in Nat, 1 .. m = 1 .. n
              PROVE  m = n
  OBVIOUS
<1>1. m = 0 \/ m \in 1 .. n
  OBVIOUS
<1>2. n = 0 \/ n \in 1 .. m
  OBVIOUS
<1>3. 1 \in 1 .. m <=> 1 \in 1 .. n
  OBVIOUS
<1>. QED BY <1>1, <1>2, <1>3

ScriptOf(p) ==
  ItemsAt(RunScript(p), {i \in DOMAIN RunScript(p) : RunScript(p)[i][1] = "run"})

\* The lines of the script that run a command, of those before the launch b
\* and of those after it f.
LEMMA ScriptIs ==
  ASSUME NEW p, NEW b \in Seq(AnyCommands), NEW f \in Seq(AnyCommands),
         BeforeCommands(p) = b, AfterCommands(p) = f
  PROVE  /\ DOMAIN ScriptOf(p) = DOMAIN (b \o f)
         /\ \A i \in DOMAIN (b \o f) : ScriptOf(p)[i][2] = <<i - 1, (b \o f)[i].phase>>
<1>. DEFINE L1 == [i \in DOMAIN b |-> <<"run", <<i - 1, b[i].phase>>, b[i].policy>>]
            L3 == [i \in DOMAIN f |->
                     <<"run", <<Len(b) + i - 1, f[i].phase>>, f[i].policy>>]
            launch == <<"launch", LaunchCommand(p)>>
            L2 == <<launch>>
            S == Range(L1) \union Range(L3) \union {launch}
            X == {x \in S : x[1] = "run"}
            before == L1 \o L2
            lines == RunScript(p)
<1>1. lines = before \o L3
  BY DEF RunScript, CommandFile
<1>2. /\ DOMAIN b = 1 .. Len(b) /\ Len(b) \in Nat
      /\ DOMAIN f = 1 .. Len(f) /\ Len(f) \in Nat
  BY LenProperties
<1>3. /\ DOMAIN L1 = DOMAIN b /\ DOMAIN L3 = DOMAIN f
      /\ \A i \in DOMAIN b : L1[i][1] = "run" /\ L1[i][2] = <<i - 1, b[i].phase>>
      /\ \A i \in DOMAIN f : L3[i][1] = "run" /\ L3[i][2] = <<Len(b) + i - 1, f[i].phase>>
      /\ launch[1] # "run" /\ launch \in S
      /\ \A i \in DOMAIN b : L1[i] \in S
      /\ \A i \in DOMAIN f : L3[i] \in S
  BY DEF Range
<1>4. L1 \in Seq(S) /\ Len(L1) = Len(b) /\ L3 \in Seq(S) /\ Len(L3) = Len(f)
  <2>1. L1 \in [1 .. Len(b) -> S] /\ L3 \in [1 .. Len(f) -> S]
    BY <1>2, <1>3
  <2>. HIDE DEF L1, L3, S
  <2>2. L1 \in Seq(S) /\ L3 \in Seq(S)
    BY <1>2, <2>1, SeqDef
  <2>3. /\ Len(L1) \in Nat /\ DOMAIN L1 = 1 .. Len(L1)
        /\ Len(L3) \in Nat /\ DOMAIN L3 = 1 .. Len(L3)
    BY <2>2, LenProperties
  <2>4. DOMAIN L1 = 1 .. Len(b) /\ DOMAIN L3 = 1 .. Len(f)
    BY <2>1
  <2>5. \A m, n \in Nat : 1 .. m = 1 .. n => m = n
    BY UpToIsOne
  <2>. QED BY <1>2, <2>2, <2>3, <2>4, <2>5
<1>5. L2 \in Seq(S) /\ DOMAIN L2 = {1} /\ L2[1] = launch
  <2>. HIDE DEF launch, S
  <2>. QED BY <1>3, OneItem
<1>. HIDE DEF L1, L2, L3, S, lines
<1>6. before \in Seq(S)
  BY <1>4, <1>5, ConcatenationIs
<1>. HIDE DEF before
<1>7. lines \in Seq(S)
  BY <1>1, <1>4, <1>6, ConcatenationIs
<1>8. ScriptOf(p) = Kept(lines, X)
  <2>1. \A i \in DOMAIN lines : lines[i] \in S
    BY <1>7, ElementOfSeq, LenProperties
  <2>2. {i \in DOMAIN lines : lines[i][1] = "run"} = KeptAt(lines, X)
    BY <2>1 DEF KeptAt
  <2>. QED BY <2>2 DEF ScriptOf, Kept, lines
<1>9. KeptAt(L1, X) = DOMAIN L1 /\ KeptAt(L2, X) = {} /\ KeptAt(L3, X) = DOMAIN L3
  <2>1. \A i \in DOMAIN L1 : L1[i] \in X
    BY <1>3
  <2>2. \A i \in DOMAIN L3 : L3[i] \in X
    BY <1>3
  <2>3. \A i \in DOMAIN L2 : L2[i] \notin X
    BY <1>3, <1>5
  <2>. HIDE DEF X
  <2>. QED BY <2>1, <2>2, <2>3 DEF KeptAt
<1>. HIDE DEF X
<1>10. Kept(L1, X) = L1 /\ Kept(L2, X) = <<>> /\ Kept(L3, X) = L3
  BY <1>4, <1>5, <1>9, AllItems, NoItemsAt DEF Kept
<1>11. Kept(before, X) = L1
  <2>1. Kept(before, X) = Kept(L1, X) \o Kept(L2, X)
    BY <1>4, <1>5, KeptOfConcatenation DEF before
  <2>. QED BY <1>4, <1>10, <2>1, ConcatEmptySeq
<1>12. Kept(lines, X) = L1 \o L3
  <2>1. Kept(before \o L3, X) = Kept(before, X) \o Kept(L3, X)
    BY <1>4, <1>6, KeptOfConcatenation
  <2>. QED BY <1>1, <1>10, <1>11, <2>1
<1>. DEFINE g == b \o f
            h == L1 \o L3
<1>13. /\ DOMAIN g = 1 .. (Len(b) + Len(f))
       /\ \A i \in DOMAIN b : g[i] = b[i]
       /\ \A i \in DOMAIN g : i \notin DOMAIN b =>
            i - Len(b) \in DOMAIN f /\ g[i] = f[i - Len(b)]
  BY ConcatenationIs
<1>14. /\ DOMAIN h = 1 .. (Len(L1) + Len(L3))
       /\ \A i \in DOMAIN L1 : h[i] = L1[i]
       /\ \A i \in DOMAIN h : i \notin DOMAIN L1 =>
            i - Len(L1) \in DOMAIN L3 /\ h[i] = L3[i - Len(L1)]
  <2>1. L1 \in Seq(S) /\ L3 \in Seq(S)
    BY <1>4
  <2>. QED BY <2>1, ConcatenationIs
<1>15. ScriptOf(p) = h
  BY <1>8, <1>12
<1>. HIDE DEF g, h
<1>16. DOMAIN h = DOMAIN g
  BY <1>4, <1>13, <1>14
<1>17. ASSUME NEW i \in DOMAIN g
       PROVE  h[i][2] = <<i - 1, g[i].phase>>
  <2>1. CASE i \in DOMAIN b
    BY <1>3, <1>13, <1>14, <2>1
  <2>2. CASE i \notin DOMAIN b
    <3>1. /\ i - Len(b) \in DOMAIN f /\ g[i] = f[i - Len(b)]
          /\ h[i] = L3[i - Len(b)]
      BY <1>3, <1>4, <1>13, <1>14, <1>16, <2>2
    <3>2. L3[i - Len(b)][2] = <<Len(b) + (i - Len(b)) - 1, f[i - Len(b)].phase>>
      BY <1>3, <3>1
    <3>3. Len(b) + (i - Len(b)) - 1 = i - 1
      BY <1>2, <1>13
    <3>. QED BY <3>1, <3>2, <3>3
  <2>. QED BY <2>1, <2>2
<1>. QED BY <1>15, <1>16, <1>17 DEF g

LEMMA FileAt ==
  ASSUME NEW p, NEW c \in Seq(AnyCommands), LocalRuntimeCommands(p, Phases) = c,
         NEW i \in DOMAIN c
  PROVE  /\ <<i - 1, c[i].phase>> \in DOMAIN CommandFiles(p)
         /\ CommandFiles(p)[<<i - 1, c[i].phase>>] = c[i]
<1>. DEFINE D == {<<j - 1, c[j].phase>> : j \in DOMAIN c}
            name == <<i - 1, c[i].phase>>
<1>1. CommandFiles(p) = [n \in D |-> c[n[1] + 1]]
  BY DEF CommandFiles, CommandFile
<1>2. name \in D /\ name[1] + 1 = i
  BY LenProperties
<1>. HIDE DEF D, name
<1>3. name \in DOMAIN CommandFiles(p) /\ CommandFiles(p)[name] = c[name[1] + 1]
  BY <1>1, <1>2
<1>. QED BY <1>2, <1>3 DEF name

LEMMA FileNames ==
  ASSUME NEW p, NEW c \in Seq(AnyCommands), LocalRuntimeCommands(p, Phases) = c,
         NEW name \in DOMAIN CommandFiles(p)
  PROVE  \E i \in DOMAIN c : name = <<i - 1, c[i].phase>>
<1>. DEFINE D == {<<j - 1, c[j].phase>> : j \in DOMAIN c}
<1>1. CommandFiles(p) = [n \in D |-> c[n[1] + 1]]
  BY DEF CommandFiles, CommandFile
<1>2. name \in D
  BY <1>1
<1>. QED BY <1>2

\* What the local runtime reads from a plan of these commands.
LEMMA LocalPhases ==
  ASSUME NEW p, NEW user \in Seq(AnyCommands), NEW made, Generated(made),
         Carries(p.actions, InOrder(user, made))
  PROVE  \E g, t \in Seq(AnyCommands) :
           /\ BeforeCommands(p) \in Seq(AnyCommands) /\ AfterCommands(p) \in Seq(AnyCommands)
           /\ g = BeforeCommands(p) \o AfterCommands(p)
           /\ \A x \in Range(t) : x.phase = "teardown"
           /\ LocalRuntimeCommands(p, Phases) = g \o t
           /\ CommandsRun(p) = g \o t
           /\ InPhase(CommandsRun(p), Phases \ {"teardown"}) = g
<1>. DEFINE c == InOrder(user, made)
            b == InPhase(c, {"before_start"})
            f == InPhase(c, Late)
            t == InPhase(c, {"teardown"})
            g == b \o f
<1>1. made \in Seq(AnyCommands) /\ \A x \in Range(made) : x.phase = "before_start"
  BY DEF Generated
<1>2. /\ b \in Seq(AnyCommands) /\ f \in Seq(AnyCommands) /\ t \in Seq(AnyCommands)
      /\ InPhase(c, Phases) = c /\ InPhase(c, Done) = g /\ c = g \o t
  BY <1>1, PhasesInOrder
<1>3. c \in Seq(AnyCommands) /\ Carries(p.actions, c)
  BY DEF Carries
<1>. HIDE DEF c
<1>4. {"before_start"} \in SUBSET Phases /\ Late \in SUBSET Phases /\ Phases \in SUBSET Phases
  BY DEF Phases, Late
<1>5. /\ LocalRuntimeCommands(p, {"before_start"}) = b
      /\ LocalRuntimeCommands(p, Late) = f
      /\ LocalRuntimeCommands(p, Phases) = c
  BY <1>2, <1>3, <1>4, LocalCommandsAre
<1>6. CommandsRun(p) = c
  BY <1>3, CommandsRunAre
<1>7. /\ BeforeCommands(p) = b /\ AfterCommands(p) = f
      /\ InPhase(CommandsRun(p), Phases \ {"teardown"}) = g
  BY <1>2, <1>5, <1>6 DEF BeforeCommands, AfterCommands, Late, Done
<1>8. \A x \in Range(t) : x.phase = "teardown"
  BY <1>3, InPhaseKeeps
<1>. HIDE DEF b, f, t
<1>9. g \in Seq(AnyCommands)
  BY <1>2, ConcatenationIs
<1>10. g = BeforeCommands(p) \o AfterCommands(p)
  BY <1>7
<1>. HIDE DEF g
<1>. QED BY <1>2, <1>5, <1>6, <1>7, <1>8, <1>9, <1>10

\* The commands that the script runs are the first of all.
LEMMA FirstOfAll ==
  ASSUME NEW g \in Seq(AnyCommands), NEW t \in Seq(AnyCommands),
         \A x \in Range(t) : x.phase = "teardown"
  PROVE  /\ g \o t \in Seq(AnyCommands) /\ DOMAIN g \subseteq DOMAIN (g \o t)
         /\ \A i \in DOMAIN g : (g \o t)[i] = g[i]
         /\ \A i \in DOMAIN (g \o t) : i \notin DOMAIN g => (g \o t)[i].phase = "teardown"
<1>1. /\ g \o t \in Seq(AnyCommands) /\ Len(g) \in Nat /\ Len(t) \in Nat
      /\ DOMAIN g = 1 .. Len(g) /\ DOMAIN (g \o t) = 1 .. (Len(g) + Len(t))
      /\ \A i \in DOMAIN g : (g \o t)[i] = g[i]
      /\ \A i \in DOMAIN (g \o t) : i \notin DOMAIN g =>
           i - Len(g) \in DOMAIN t /\ (g \o t)[i] = t[i - Len(g)]
  BY ConcatenationIs
<1>2. \A i \in DOMAIN t : t[i].phase = "teardown"
  BY DEF Range
<1>. QED BY <1>1, <1>2

LEMMA ScriptFollows == CommandInv => ScriptRunsItsCommands
<1>. SUFFICES ASSUME CommandInv, Planned
              PROVE  ScriptRunsItsCommands
  BY DEF ScriptRunsItsCommands
<1>. DEFINE user == CommandsOf(parts.commands)
            made == plan.contract.commands
            b == BeforeCommands(plan)
            f == AfterCommands(plan)
            files == CommandFiles(plan)
            script == ScriptOf(plan)
            done == InPhase(CommandsRun(plan), Phases \ {"teardown"})
<1>1. /\ user \in Seq(AnyCommands) /\ Generated(made)
      /\ Carries(plan.actions, InOrder(user, made))
  BY PlannedCommands
<1>2. PICK g, t \in Seq(AnyCommands) :
           /\ b \in Seq(AnyCommands) /\ f \in Seq(AnyCommands) /\ g = b \o f
           /\ \A x \in Range(t) : x.phase = "teardown"
           /\ LocalRuntimeCommands(plan, Phases) = g \o t /\ done = g
  <2>. HIDE DEF user, made
  <2>. QED BY <1>1, LocalPhases
<1>. DEFINE c == g \o t
<1>3. /\ DOMAIN script = DOMAIN g
      /\ \A i \in DOMAIN g : script[i][2] = <<i - 1, g[i].phase>>
  BY <1>2, ScriptIs
<1>. HIDE DEF script, done, b, f
<1>4. c \in Seq(AnyCommands) /\ DOMAIN g \subseteq DOMAIN c /\ \A i \in DOMAIN g : c[i] = g[i]
  BY <1>2, FirstOfAll
<1>5. LocalRuntimeCommands(plan, Phases) = c
  BY <1>2
<1>. HIDE DEF c
<1>6. ASSUME NEW i \in DOMAIN c
      PROVE  /\ <<i - 1, c[i].phase>> \in DOMAIN files
             /\ files[<<i - 1, c[i].phase>>] = c[i]
  BY <1>4, <1>5, FileAt
<1>. HIDE DEF files
<1>7. ASSUME NEW i \in DOMAIN script
      PROVE  script[i][2] \in DOMAIN files /\ files[script[i][2]] = g[i]
  <2>1. i \in DOMAIN g /\ i \in DOMAIN c /\ c[i] = g[i]
    BY <1>3, <1>4
  <2>2. script[i][2] = <<i - 1, c[i].phase>>
    BY <1>3, <2>1
  <2>. QED BY <1>6, <2>1, <2>2
<1>8. [i \in DOMAIN script |-> files[script[i][2]]] = done
  <2>1. [i \in DOMAIN script |-> files[script[i][2]]] = [i \in DOMAIN g |-> g[i]]
    BY <1>3, <1>7
  <2>2. g = [i \in DOMAIN g |-> g[i]]
    OBVIOUS
  <2>. QED BY <1>2, <2>1, <2>2
<1>. QED BY <1>7, <1>8 DEF ScriptRunsItsCommands, ScriptOf, files, script, done

\* The script of the agent's container runs, line by line, the files of the
\* commands that the plan has in those places, with none left out.
THEOREM ScriptRunsCommands == Spec => []ScriptRunsItsCommands
BY AlwaysCommandInv, ScriptFollows, PTL

----------------------------------------------------------------------------
(* The hash of the agent's container: what it covers. *)

\* The commands of a plan that fits, for the lemmas above.
LEMMA FitPlanCommands ==
  ASSUME NEW p, IsFitPlan(p)
  PROVE  \E g, t \in Seq(AnyCommands) :
           /\ g = BeforeCommands(p) \o AfterCommands(p)
           /\ \A x \in Range(t) : x.phase = "teardown"
           /\ LocalRuntimeCommands(p, Phases) = g \o t
<1>1. PICK d, workflow, text :
        DeploymentOK(d) /\ DeploymentFits(d) /\ p = Plan(d, workflow, text)
  BY DEF IsFitPlan
<1>. DEFINE user == CommandsOf(d.commands)
            made == Merged(d).commands
<1>2. Generated(made) /\ Carries(p.actions, InOrder(user, made))
  BY <1>1, CommandsOfPlan
<1>3. user \in Seq(AnyCommands)
  BY <1>1 DEF DeploymentFits
<1>. HIDE DEF user, made
<1>. QED BY <1>2, <1>3, LocalPhases

\* Plans that run the same commands before and after the launch have the same
\* files, but for those that only teardown would run.
LEMMA SameFiles ==
  ASSUME NEW p, NEW q, IsFitPlan(p), IsFitPlan(q),
         BeforeCommands(p) = BeforeCommands(q), AfterCommands(p) = AfterCommands(q),
         NEW f \in DOMAIN CommandFiles(p) \intersect DOMAIN CommandFiles(q),
         f[2] # "teardown"
  PROVE  CommandFiles(p)[f] = CommandFiles(q)[f]
<1>1. PICK g, t \in Seq(AnyCommands) :
           /\ g = BeforeCommands(p) \o AfterCommands(p)
           /\ \A x \in Range(t) : x.phase = "teardown"
           /\ LocalRuntimeCommands(p, Phases) = g \o t
  BY FitPlanCommands
<1>2. PICK v \in Seq(AnyCommands) :
           /\ \A x \in Range(v) : x.phase = "teardown"
           /\ LocalRuntimeCommands(q, Phases) = g \o v
  <2>1. PICK h, v \in Seq(AnyCommands) :
           /\ h = BeforeCommands(q) \o AfterCommands(q)
           /\ \A x \in Range(v) : x.phase = "teardown"
           /\ LocalRuntimeCommands(q, Phases) = h \o v
    BY FitPlanCommands
  <2>2. h = g
    BY <1>1, <2>1
  <2>. QED BY <2>1, <2>2
<1>. DEFINE c == g \o t
            e == g \o v
<1>3. /\ c \in Seq(AnyCommands) /\ \A i \in DOMAIN g : c[i] = g[i]
      /\ \A i \in DOMAIN c : i \notin DOMAIN g => c[i].phase = "teardown"
  <2>1. \A z \in Range(t) : z.phase = "teardown"
    BY <1>1
  <2>. QED BY <2>1, FirstOfAll
<1>4. /\ e \in Seq(AnyCommands) /\ \A i \in DOMAIN g : e[i] = g[i]
      /\ \A i \in DOMAIN e : i \notin DOMAIN g => e[i].phase = "teardown"
  <2>1. \A z \in Range(v) : z.phase = "teardown"
    BY <1>2
  <2>. QED BY <2>1, FirstOfAll
<1>5. LocalRuntimeCommands(p, Phases) = c /\ LocalRuntimeCommands(q, Phases) = e
  BY <1>1, <1>2
<1>. HIDE DEF c, e
<1>6. PICK i \in DOMAIN c : f = <<i - 1, c[i].phase>>
  <2>1. f \in DOMAIN CommandFiles(p)
    OBVIOUS
  <2>2. c \in Seq(AnyCommands) /\ LocalRuntimeCommands(p, Phases) = c
    BY <1>3, <1>5
  <2>3. \A name \in DOMAIN CommandFiles(p) :
          \E n \in DOMAIN c : name = <<n - 1, c[n].phase>>
    BY <2>2, FileNames
  <2>. QED BY <2>1, <2>3
<1>7. PICK j \in DOMAIN e : f = <<j - 1, e[j].phase>>
  <2>1. f \in DOMAIN CommandFiles(q)
    OBVIOUS
  <2>2. e \in Seq(AnyCommands) /\ LocalRuntimeCommands(q, Phases) = e
    BY <1>4, <1>5
  <2>3. \A name \in DOMAIN CommandFiles(q) :
          \E n \in DOMAIN e : name = <<n - 1, e[n].phase>>
    BY <2>2, FileNames
  <2>. QED BY <2>1, <2>3
<1>8. i = j
  <2>1. i \in Int /\ j \in Int
    BY <1>3, <1>4, LenProperties
  <2>2. i - 1 = j - 1
    BY <1>6, <1>7
  <2>. QED BY <2>1, <2>2
<1>9. c[i].phase # "teardown" /\ e[j].phase # "teardown"
  BY <1>6, <1>7
<1>10. c[i] = e[j]
  BY <1>3, <1>4, <1>6, <1>7, <1>8, <1>9
<1>11. CommandFiles(p)[f] = c[i]
  BY <1>3, <1>5, <1>6, FileAt
<1>12. CommandFiles(q)[f] = e[j]
  BY <1>4, <1>5, <1>7, FileAt
<1>. QED BY <1>10, <1>11, <1>12

LEMMA SameScript ==
  ASSUME NEW p, NEW q, StableAgentCommandShape(p) = StableAgentCommandShape(q)
  PROVE  /\ BeforeCommands(p) = BeforeCommands(q) /\ AfterCommands(p) = AfterCommands(q)
         /\ RunScript(p) = RunScript(q)
<1>. DEFINE b1 == BeforeCommands(p)
            b2 == BeforeCommands(q)
            f1 == AfterCommands(p)
            f2 == AfterCommands(q)
            l1 == LaunchCommand(p)
            l2 == LaunchCommand(q)
<1>1. [before |-> b1, after |-> f1, launcher |-> l1]
        = [before |-> b2, after |-> f2, launcher |-> l2]
  BY DEF StableAgentCommandShape
<1>. HIDE DEF b1, b2, f1, f2, l1, l2
<1>2. b1 = b2 /\ f1 = f2 /\ l1 = l2
  <2>1. /\ [before |-> b1, after |-> f1, launcher |-> l1].before = b1
        /\ [before |-> b1, after |-> f1, launcher |-> l1].after = f1
        /\ [before |-> b1, after |-> f1, launcher |-> l1].launcher = l1
    OBVIOUS
  <2>2. /\ [before |-> b2, after |-> f2, launcher |-> l2].before = b2
        /\ [before |-> b2, after |-> f2, launcher |-> l2].after = f2
        /\ [before |-> b2, after |-> f2, launcher |-> l2].launcher = l2
    OBVIOUS
  <2>. QED BY <1>1, <2>1, <2>2
<1>3. BeforeCommands(p) = BeforeCommands(q) /\ AfterCommands(p) = AfterCommands(q)
      /\ LaunchCommand(p) = LaunchCommand(q)
  BY <1>2 DEF b1, b2, f1, f2, l1, l2
<1>. QED BY <1>3 DEF RunScript

----------------------------------------------------------------------------
(* The environment of the agent's container. *)

BaseVars == {"CRAG_NODE_ID", "CRAG_ROLE", "CRAG_DESIRED_HASH"}
BaseEnv(d) ==
  [CRAG_NODE_ID |-> Text(d.app.id), CRAG_ROLE |-> Text("agent"),
   CRAG_DESIRED_HASH |-> {<<"hash", AgentHash(d)>>}]

LEMMA AgentEnvIs ==
  ASSUME NEW d, NEW workflow, NEW text
  PROVE  LET p == Plan(d, workflow, text)
         IN  /\ Agent(p) = AgentPod(d, workflow, text)
             /\ Agent(p).role = "agent" /\ Agent(p).image = d.app.image
             /\ Agent(p).policy = d.storage
             /\ Agent(p).env = BaseEnv(d) ## EnvForCreation(p.contract)
             /\ p.contract = AgentContract(d, workflow, text)
             /\ p.contract.env = KeepAliveEnv(d.keep_alive)
                                   ## (RunEnv(workflow, text) ## Merged(d).env)
             /\ p.contract.secrets = Merged(d).secrets
<1>. DEFINE p == Plan(d, workflow, text)
            pod == AgentPod(d, workflow, text)
<1>1. Agent(p) = pod
  BY PodsOfPlan
<1>2. p.contract = AgentContract(d, workflow, text)
  BY DEF Plan
<1>3. /\ pod.role = "agent" /\ pod.image = d.app.image
      /\ pod.env = BaseEnv(d) ## EnvForCreation(AgentContract(d, workflow, text))
  BY AgentPodFields DEF BaseEnv
<1>4. pod.policy = d.storage
  BY DEF AgentPod, PodInput
<1>5. /\ AgentContract(d, workflow, text).env
            = KeepAliveEnv(d.keep_alive) ## (RunEnv(workflow, text) ## Merged(d).env)
      /\ AgentContract(d, workflow, text).secrets = Merged(d).secrets
  BY AgentContractEnv
<1>. HIDE DEF p, pod
<1>. QED BY <1>1, <1>2, <1>3, <1>4, <1>5 DEF p, pod

\* Nothing is added for the agent: it is not a database.
LEMMA AgentComposeEnv ==
  ASSUME NEW a, a.role = "agent", NEW p
  PROVE  /\ DOMAIN ComposeEnv(a, p) = DOMAIN a.env
         /\ \A k \in DOMAIN a.env :
              ComposeEnv(a, p)[k] = ResolveLocalSecret(ResolveCragPlaceholders(a.env[k], p))
<1>. DEFINE env == Resolved(a.env, p)
            password == IF "DATABASE_PASSWORD" \in DOMAIN env
                        THEN env.DATABASE_PASSWORD ELSE Text("app")
            none == [k \in {} |-> password]
<1>1. ComposeEnv(a, p) = env ## none
  BY DEF ComposeEnv
<1>2. DOMAIN none = {}
  OBVIOUS
<1>3. DOMAIN env = DOMAIN a.env
      /\ \A k \in DOMAIN a.env :
           env[k] = ResolveLocalSecret(ResolveCragPlaceholders(a.env[k], p))
  BY DEF Resolved
<1>. HIDE DEF env, none
<1>4. /\ DOMAIN (env ## none) = DOMAIN env \union DOMAIN none
      /\ \A k \in DOMAIN env : (env ## none)[k] = env[k]
  BY UpdateIs
<1>. DEFINE u == env ## none
<1>5. DOMAIN u = DOMAIN a.env
      /\ \A k \in DOMAIN a.env :
           u[k] = ResolveLocalSecret(ResolveCragPlaceholders(a.env[k], p))
  BY <1>2, <1>3, <1>4
<1>6. ComposeEnv(a, p) = u
  BY <1>1
<1>. HIDE DEF u
<1>. QED BY <1>5, <1>6

\* The environments e1 and e2 differ in the variables K at most.
SameBut(K, e1, e2) ==
  \A k : k \notin K => /\ k \in DOMAIN e1 <=> k \in DOMAIN e2
                       /\ k \in DOMAIN e1 => e1[k] = e2[k]

LEMMA SameButUpdate ==
  ASSUME NEW K, NEW a1, NEW a2, NEW b1, NEW b2, SameBut(K, a1, a2), SameBut(K, b1, b2)
  PROVE  SameBut(K, a1 ## b1, a2 ## b2)
<1>. DEFINE u1 == a1 ## b1
            u2 == a2 ## b2
<1>1. /\ DOMAIN u1 = DOMAIN a1 \union DOMAIN b1
      /\ \A k \in DOMAIN a1 : u1[k] = a1[k]
      /\ \A k \in DOMAIN b1 : k \notin DOMAIN a1 => u1[k] = b1[k]
  BY UpdateIs
<1>2. /\ DOMAIN u2 = DOMAIN a2 \union DOMAIN b2
      /\ \A k \in DOMAIN a2 : u2[k] = a2[k]
      /\ \A k \in DOMAIN b2 : k \notin DOMAIN a2 => u2[k] = b2[k]
  BY UpdateIs
<1>. HIDE DEF u1, u2
<1>3. ASSUME NEW k, k \notin K
      PROVE  (k \in DOMAIN u1 <=> k \in DOMAIN u2) /\ (k \in DOMAIN u1 => u1[k] = u2[k])
  <2>1. /\ k \in DOMAIN a1 <=> k \in DOMAIN a2
        /\ k \in DOMAIN a1 => a1[k] = a2[k]
        /\ k \in DOMAIN b1 <=> k \in DOMAIN b2
        /\ k \in DOMAIN b1 => b1[k] = b2[k]
    BY <1>3 DEF SameBut
  <2>. QED BY <1>1, <1>2, <2>1
<1>4. SameBut(K, u1, u2)
  BY <1>3 DEF SameBut
<1>. QED BY <1>4 DEF u1, u2

LEMMA SameButWithout ==
  ASSUME NEW K, NEW e1, NEW e2, SameBut(K, e1, e2)
  PROVE  Without(e1, K) = Without(e2, K)
<1>1. DOMAIN e1 \ K = DOMAIN e2 \ K
  BY DEF SameBut
<1>2. \A k \in DOMAIN e1 \ K : e1[k] = e2[k]
  BY DEF SameBut
<1>. QED BY <1>1, <1>2 DEF Without

LEMMA WithoutIsSameBut ==
  ASSUME NEW K, NEW e1, NEW e2, Without(e1, K) = Without(e2, K)
  PROVE  SameBut(K, e1, e2)
<1>. DEFINE w1 == Without(e1, K)
            w2 == Without(e2, K)
<1>1. DOMAIN w1 = DOMAIN e1 \ K /\ \A k \in DOMAIN e1 \ K : w1[k] = e1[k]
  BY DEF Without
<1>2. DOMAIN w2 = DOMAIN e2 \ K /\ \A k \in DOMAIN e2 \ K : w2[k] = e2[k]
  BY DEF Without
<1>3. w1 = w2
  OBVIOUS
<1>. HIDE DEF w1, w2
<1>. QED BY <1>1, <1>2, <1>3 DEF SameBut

LEMMA SameDeploymentEnv ==
  ASSUME NEW d, NEW w, NEW x, NEW v, NEW y
  PROVE  SameBut(PerRun, Agent(Plan(d, w, x)).env, Agent(Plan(d, v, y)).env)
<1>. DEFINE p == Plan(d, w, x)
            q == Plan(d, v, y)
            s == Merged(d).secrets
            told == [var \in VarsOf(s) |-> SecretPlaceholder(LastFor(var, s))]
<1>1. /\ Agent(p).env = BaseEnv(d) ## EnvForCreation(p.contract)
      /\ p.contract.env = KeepAliveEnv(d.keep_alive) ## (RunEnv(w, x) ## Merged(d).env)
      /\ p.contract.secrets = s
  BY AgentEnvIs
<1>2. /\ Agent(q).env = BaseEnv(d) ## EnvForCreation(q.contract)
      /\ q.contract.env = KeepAliveEnv(d.keep_alive) ## (RunEnv(v, y) ## Merged(d).env)
      /\ q.contract.secrets = s
  BY AgentEnvIs
<1>. HIDE DEF p, q
<1>3. /\ EnvForCreation(p.contract) = told ## p.contract.env
      /\ EnvForCreation(q.contract) = told ## q.contract.env
  BY <1>1, <1>2 DEF EnvForCreation
<1>4. SameBut(PerRun, RunEnv(w, x), RunEnv(v, y))
  <2>1. DOMAIN RunEnv(w, x) = RunVars /\ DOMAIN RunEnv(v, y) = RunVars
    BY RunEnvIs
  <2>2. RunVars \subseteq PerRun \union {"CRAG_ROLE"}
    BY DEF RunVars, PerRun
  <2>3. RunEnv(w, x)["CRAG_ROLE"] = RunEnv(v, y)["CRAG_ROLE"]
    BY DEF RunEnv
  <2>. QED BY <2>1, <2>2, <2>3 DEF SameBut
<1>5. \A e : SameBut(PerRun, e, e)
  BY DEF SameBut
<1>. HIDE DEF told, s
<1>6. SameBut(PerRun, RunEnv(w, x) ## Merged(d).env, RunEnv(v, y) ## Merged(d).env)
  BY <1>4, <1>5, SameButUpdate
<1>7. SameBut(PerRun, p.contract.env, q.contract.env)
  BY <1>1, <1>2, <1>5, <1>6, SameButUpdate
<1>8. SameBut(PerRun, EnvForCreation(p.contract), EnvForCreation(q.contract))
  BY <1>3, <1>5, <1>7, SameButUpdate
<1>9. SameBut(PerRun, Agent(p).env, Agent(q).env)
  BY <1>1, <1>2, <1>5, <1>8, SameButUpdate
<1>. QED BY <1>9 DEF p, q

\* Without services in pods of their own nothing has to be resolved.
LEMMA NothingToResolve ==
  ASSUME NEW d, NEW w, NEW x, DeploymentOK(d), OwnRoles(d) = {}
  PROVE  LET p == Plan(d, w, x)
             a == Agent(p)
         IN  /\ DOMAIN ComposeEnv(a, p) = DOMAIN a.env
             /\ \A k \in DOMAIN a.env : ComposeEnv(a, p)[k] = ResolveLocalSecret(a.env[k])
<1>. DEFINE p == Plan(d, w, x)
            a == Agent(p)
<1>1. /\ a.role = "agent" /\ a.env = BaseEnv(d) ## EnvForCreation(p.contract)
      /\ p.contract = AgentContract(d, w, x)
  BY AgentEnvIs
<1>2. CragsWithin(p.contract.env, {})
  BY <1>1, AgentContractTells
<1>. HIDE DEF p, a
<1>3. CragsWithin(EnvForCreation(p.contract), {})
  BY <1>2, EnvForCreationCrags
<1>4. CragsWithin(BaseEnv(d), {})
  <2>1. DOMAIN BaseEnv(d) = BaseVars
    BY DEF BaseEnv, BaseVars
  <2>2. /\ BaseEnv(d)["CRAG_NODE_ID"] = Text(d.app.id)
        /\ BaseEnv(d)["CRAG_ROLE"] = Text("agent")
        /\ BaseEnv(d)["CRAG_DESIRED_HASH"] = {<<"hash", AgentHash(d)>>}
    BY DEF BaseEnv
  <2>3. \A f \in {<<"hash", AgentHash(d)>>} : f[1] # "crag"
    OBVIOUS
  <2>4. \A k \in BaseVars : \A f \in BaseEnv(d)[k] : f[1] # "crag"
    BY <2>2, <2>3, Fragments DEF BaseVars
  <2>. QED BY <2>1, <2>4 DEF CragsWithin
<1>5. CragsWithin(a.env, {})
  BY <1>1, <1>3, <1>4, CragsUpdate
<1>6. ASSUME NEW k \in DOMAIN a.env
      PROVE  ResolveCragPlaceholders(a.env[k], p) = a.env[k]
  <2>. DEFINE value == a.env[k]
              U == UNION {{<<"service", n>> : n \in ServiceFor(p, f[2])} :
                            f \in {z \in value: z[1] = "crag"}}
  <2>1. \A f \in value : f[1] # "crag"
    BY <1>5 DEF CragsWithin
  <2>2. U = {}
    BY <2>1
  <2>3. {f \in value : f[1] # "crag" \/ ServiceFor(p, f[2]) = {}} = value
    BY <2>1
  <2>4. ResolveCragPlaceholders(value, p)
          = {f \in value : f[1] # "crag" \/ ServiceFor(p, f[2]) = {}} \union U
    BY DEF ResolveCragPlaceholders
  <2>. HIDE DEF U, value
  <2>5. ResolveCragPlaceholders(value, p) = value
    BY <2>2, <2>3, <2>4
  <2>. QED BY <2>5 DEF value
<1>7. /\ DOMAIN ComposeEnv(a, p) = DOMAIN a.env
      /\ \A k \in DOMAIN a.env :
           ComposeEnv(a, p)[k] = ResolveLocalSecret(ResolveCragPlaceholders(a.env[k], p))
  BY <1>1, AgentComposeEnv
<1>8. \A k \in DOMAIN a.env : ComposeEnv(a, p)[k] = ResolveLocalSecret(a.env[k])
  BY <1>6, <1>7
<1>. QED BY <1>7, <1>8 DEF p, a

LEMMA SameDeploymentCommands ==
  ASSUME NEW d, NEW w, NEW x, NEW v, NEW y, DeploymentOK(d), DeploymentFits(d)
  PROVE  StableAgentCommandShape(Plan(d, w, x)) = StableAgentCommandShape(Plan(d, v, y))
<1>. DEFINE p == Plan(d, w, x)
            q == Plan(d, v, y)
            c == InOrder(CommandsOf(d.commands), Merged(d).commands)
<1>1. Carries(p.actions, c) /\ Carries(q.actions, c)
  BY CommandsOfPlan
<1>2. /\ p.keep_alive = q.keep_alive /\ p.startup = q.startup /\ p.harness = q.harness
  BY DEF Plan
<1>. HIDE DEF p, q, c
<1>3. {"before_start"} \in SUBSET Phases /\ Late \in SUBSET Phases
  BY DEF Phases, Late
<1>4. /\ LocalRuntimeCommands(p, {"before_start"}) = InPhase(c, {"before_start"})
      /\ LocalRuntimeCommands(q, {"before_start"}) = InPhase(c, {"before_start"})
      /\ LocalRuntimeCommands(p, Late) = InPhase(c, Late)
      /\ LocalRuntimeCommands(q, Late) = InPhase(c, Late)
  BY <1>1, <1>3, LocalCommandsAre
<1>5. BeforeCommands(p) = BeforeCommands(q) /\ AfterCommands(p) = AfterCommands(q)
  BY <1>4 DEF BeforeCommands, AfterCommands, Late
<1>6. LaunchCommand(p) = LaunchCommand(q)
  BY <1>2 DEF LaunchCommand
<1>7. StableAgentCommandShape(p) = StableAgentCommandShape(q)
  BY <1>5, <1>6 DEF StableAgentCommandShape
<1>. QED BY <1>7 DEF p, q

\* The first half: the same deployment has the same hash.
LEMMA SameDeploymentSameHash ==
  ASSUME NEW d, NEW w, NEW x, NEW v, NEW y, DeploymentOK(d), DeploymentFits(d),
         Resources(Plan(d, w, x)) = {Agent(Plan(d, w, x))},
         Agent(Plan(d, w, x)).volume = Agent(Plan(d, v, y)).volume
  PROVE  LocalDesiredHash(Agent(Plan(d, w, x)), Plan(d, w, x))
           = LocalDesiredHash(Agent(Plan(d, v, y)), Plan(d, v, y))
<1>. DEFINE p == Plan(d, w, x)
            q == Plan(d, v, y)
            a == Agent(p)
            b == Agent(q)
            e1 == ComposeEnv(a, p)
            e2 == ComposeEnv(b, q)
<1>1. a.role = "agent" /\ a.image = d.app.image /\ a.policy = d.storage
  BY AgentEnvIs
<1>2. b.role = "agent" /\ b.image = d.app.image /\ b.policy = d.storage
  BY AgentEnvIs
<1>3. OwnRoles(d) = {}
  <2>1. ASSUME NEW role \in OwnRoles(d)
        PROVE  FALSE
    <3>1. DependencyPod(d, w, role) \in Resources(p)
      BY ResourcesOfPlan
    <3>2. DependencyPod(d, w, role) = a
      BY <3>1
    <3>3. DependencyPod(d, w, role).role = role
      BY DEF DependencyPod, PodInput
    <3>4. role # "agent"
      BY DEF OwnRoles, ServiceSlots
    <3>. HIDE DEF a, p
    <3>. QED BY <1>1, <3>2, <3>3, <3>4
  <2>. QED BY <2>1
<1>4. /\ DOMAIN e1 = DOMAIN a.env
      /\ \A k \in DOMAIN a.env : e1[k] = ResolveLocalSecret(a.env[k])
  BY <1>3, NothingToResolve
<1>5. /\ DOMAIN e2 = DOMAIN b.env
      /\ \A k \in DOMAIN b.env : e2[k] = ResolveLocalSecret(b.env[k])
  BY <1>3, NothingToResolve
<1>6. SameBut(PerRun, a.env, b.env)
  BY SameDeploymentEnv
<1>7. StableAgentCommandShape(p) = StableAgentCommandShape(q)
  BY SameDeploymentCommands
<1>8. a.volume = b.volume
  OBVIOUS
<1>. HIDE DEF p, q, a, b, e1, e2
<1>9. Without(e1, PerRun) = Without(e2, PerRun)
  <2>1. SameBut(PerRun, e1, e2)
    BY <1>4, <1>5, <1>6 DEF SameBut
  <2>. QED BY <2>1, SameButWithout
<1>10. LocalImage(a) = LocalImage(b)
  BY <1>1, <1>2 DEF LocalImage
<1>11. LocalPortMappings(a) = LocalPortMappings(b)
  <2>1. "CRAG_WEB_TERMINAL" \in DOMAIN a.env <=> "CRAG_WEB_TERMINAL" \in DOMAIN b.env
    BY <1>6 DEF SameBut, PerRun
  <2>. QED BY <1>1, <1>2, <2>1 DEF LocalPortMappings
<1>12. VolumeMount(a) = VolumeMount(b)
  BY <1>1, <1>2, <1>8 DEF VolumeMount
<1>13. ComposeCommand(a, p) = StableAgentCommandShape(p)
       /\ ComposeCommand(b, q) = StableAgentCommandShape(q)
  BY <1>1, <1>2 DEF ComposeCommand
<1>14. /\ LocalDesiredHash(a, p) =
            [image |-> LocalImage(a), env |-> StableAgentEnv(e1),
             command |-> StableAgentCommandShape(p), ports |-> LocalPortMappings(a),
             volume |-> VolumeMount(a)]
       /\ LocalDesiredHash(b, q) =
            [image |-> LocalImage(b), env |-> StableAgentEnv(e2),
             command |-> StableAgentCommandShape(q), ports |-> LocalPortMappings(b),
             volume |-> VolumeMount(b)]
  BY <1>1, <1>2, <1>13 DEF LocalDesiredHash, e1, e2
<1>15. StableAgentEnv(e1) = StableAgentEnv(e2)
  <2>1. PerRun = {"AGENT_PROMPT", "CRAG_RUN_ID", "CRAG_WORKFLOW_HASH"}
    BY DEF PerRun
  <2>. QED BY <1>9, <2>1 DEF StableAgentEnv
<1>16. LocalDesiredHash(a, p) = LocalDesiredHash(b, q)
  BY <1>7, <1>10, <1>11, <1>12, <1>14, <1>15
<1>. QED BY <1>16 DEF a, b, p, q

\* What equal hashes of the agent's container say.
LEMMA HashSays ==
  ASSUME NEW p, NEW q, Agent(p).role = "agent", Agent(q).role = "agent",
         LocalDesiredHash(Agent(p), p) = LocalDesiredHash(Agent(q), q)
  PROVE  /\ SameBut(PerRun, ComposeEnv(Agent(p), p), ComposeEnv(Agent(q), q))
         /\ StableAgentCommandShape(p) = StableAgentCommandShape(q)
         /\ VolumeMount(Agent(p)) = VolumeMount(Agent(q))
<1>. DEFINE a == Agent(p)
            b == Agent(q)
            h1 == LocalDesiredHash(a, p)
            h2 == LocalDesiredHash(b, q)
            e1 == ComposeEnv(a, p)
            e2 == ComposeEnv(b, q)
<1>1. a.role = "agent" /\ b.role = "agent" /\ h1 = h2
  OBVIOUS
<1>. HIDE DEF a, b
<1>2. /\ h1.env = StableAgentEnv(e1) /\ h1.command = ComposeCommand(a, p)
      /\ h1.volume = VolumeMount(a)
  BY <1>1 DEF LocalDesiredHash
<1>3. /\ h2.env = StableAgentEnv(e2) /\ h2.command = ComposeCommand(b, q)
      /\ h2.volume = VolumeMount(b)
  BY <1>1 DEF LocalDesiredHash
<1>4. ComposeCommand(a, p) = StableAgentCommandShape(p)
       /\ ComposeCommand(b, q) = StableAgentCommandShape(q)
  BY <1>1 DEF ComposeCommand
<1>. HIDE DEF h1, h2, e1, e2
<1>5. Without(e1, PerRun) = Without(e2, PerRun)
  <2>1. PerRun = {"AGENT_PROMPT", "CRAG_RUN_ID", "CRAG_WORKFLOW_HASH"}
    BY DEF PerRun
  <2>. QED BY <1>1, <1>2, <1>3, <2>1 DEF StableAgentEnv
<1>6. SameBut(PerRun, e1, e2)
  BY <1>5, WithoutIsSameBut
<1>. QED BY <1>1, <1>2, <1>3, <1>4, <1>6 DEF a, b, e1, e2

----------------------------------------------------------------------------
(* The environment of a session is that of the container, which says more. *)

LEMMA LastIsOneOfThem ==
  ASSUME NEW s \in Seq(SecretRefs), NEW var \in VarsOf(s)
  PROVE  LastFor(var, s) \in Range(s) /\ LastFor(var, s).var = var
<1>1. PICK i : IsLast(i, var, s)
  BY LastExists
<1>2. LastFor(var, s) = s[i]
  BY <1>1, LastForIs
<1>. QED BY <1>1, <1>2 DEF IsLast, Range

\* The agent's own variables keep their values when its pod is created.
LEMMA OwnVarsKeepValues ==
  ASSUME NEW d, NEW w, NEW x, DeploymentOK(d), DeploymentFits(d)
  PROVE  LET p == Plan(d, w, x)
             env == p.contract.env
         IN  /\ \A k \in DOMAIN env : k \in DOMAIN Agent(p).env /\ Agent(p).env[k] = env[k]
             /\ \A k \in DOMAIN Agent(p).env \ DOMAIN env :
                  \/ k \in {"CRAG_NODE_ID", "CRAG_DESIRED_HASH"}
                  \/ \E s \in Range(Merged(d).secrets) :
                       k = s.var /\ Agent(p).env[k] = SecretPlaceholder(s)
             /\ {"CRAG_NODE_ID", "CRAG_DESIRED_HASH"} \intersect DOMAIN env = {}
             /\ \A k \in DOMAIN env \intersect SecretVars :
                  k \in DOMAIN Merged(d).env /\ env[k] = Merged(d).env[k]
             /\ DOMAIN Merged(d).env \subseteq DOMAIN env
<1>. DEFINE p == Plan(d, w, x)
            m == Merged(d)
            s == m.secrets
            env == p.contract.env
            run == RunEnv(w, x)
            keep == KeepAliveEnv(d.keep_alive)
            told == [var \in VarsOf(s) |-> SecretPlaceholder(LastFor(var, s))]
            e == told ## env
<1>1. /\ Agent(p).env = BaseEnv(d) ## EnvForCreation(p.contract)
      /\ env = keep ## (run ## m.env) /\ p.contract.secrets = s
  BY AgentEnvIs
<1>2. EnvForCreation(p.contract) = e
  BY <1>1 DEF EnvForCreation
<1>3. /\ s \in Seq(SecretRefs) /\ DOMAIN m.env \subseteq AllVars /\ SecretsTold(m)
  BY MergedTells, MergedFits DEF Clean, Fits
<1>4. /\ DOMAIN run = RunVars /\ run["CRAG_ROLE"] = Text("agent")
      /\ DOMAIN keep \subseteq KeepAliveVars
  BY RunEnvIs, KeepAliveEnvIs DEF RunEnv
<1>5. /\ DOMAIN BaseEnv(d) = BaseVars /\ BaseEnv(d)["CRAG_ROLE"] = Text("agent")
  BY DEF BaseEnv, BaseVars
<1>6. /\ DOMAIN told = VarsOf(s)
      /\ \A k \in VarsOf(s) : told[k] = SecretPlaceholder(LastFor(k, s))
  OBVIOUS
<1>7. VarsOf(s) \subseteq SecretVars
  <2>1. \A z \in Range(s) : z \in SecretRefs
    BY <1>3, RangeOfSeq
  <2>2. \A z \in SecretRefs : z.var \in SecretVars
    BY DEF SecretRefs
  <2>. QED BY <2>1, <2>2, VarsAre
<1>. HIDE DEF p, m, s, env, run, keep, told, e
<1>8. /\ AllVars \intersect BaseVars = {} /\ KeepAliveVars \intersect BaseVars = {}
      /\ RunVars \intersect BaseVars = {"CRAG_ROLE"}
      /\ SecretVars \intersect RunVars = {} /\ SecretVars \intersect KeepAliveVars = {}
      /\ SecretVars \intersect BaseVars = {}
      /\ KeepAliveVars \intersect RunVars = {} /\ AllVars \intersect RunVars = {}
      /\ AllVars \intersect KeepAliveVars = {}
  BY DEF AllVars, AgentVars, VarsFor, ServiceSlots, BaseVars, KeepAliveVars, RunVars, SecretVars
<1>9. /\ DOMAIN env = DOMAIN keep \union RunVars \union DOMAIN m.env
      /\ env["CRAG_ROLE"] = Text("agent")
      /\ \A k \in DOMAIN m.env : env[k] = m.env[k]
  <2>. DEFINE u == run ## m.env
  <2>1. /\ DOMAIN u = DOMAIN run \union DOMAIN m.env
        /\ \A k \in DOMAIN run : u[k] = run[k]
        /\ \A k \in DOMAIN m.env : k \notin DOMAIN run => u[k] = m.env[k]
    BY UpdateIs
  <2>. HIDE DEF u
  <2>2. /\ DOMAIN (keep ## u) = DOMAIN keep \union DOMAIN u
        /\ \A k \in DOMAIN u : k \notin DOMAIN keep => (keep ## u)[k] = u[k]
    BY UpdateIs
  <2>3. env = keep ## u
    BY <1>1 DEF u
  <2>4. "CRAG_ROLE" \in RunVars
    BY DEF RunVars
  <2>5. \A k \in RunVars \union DOMAIN m.env : k \notin DOMAIN keep
    BY <1>3, <1>4, <1>8
  <2>6. \A k \in DOMAIN m.env : k \notin DOMAIN run
    BY <1>3, <1>4, <1>8
  <2>. QED BY <1>4, <2>1, <2>2, <2>3, <2>4, <2>5, <2>6
<1>10. /\ DOMAIN e = VarsOf(s) \union DOMAIN env
       /\ \A k \in VarsOf(s) : e[k] = told[k]
       /\ \A k \in DOMAIN env : k \notin VarsOf(s) => e[k] = env[k]
  <2>1. /\ DOMAIN (told ## env) = DOMAIN told \union DOMAIN env
        /\ \A k \in DOMAIN told : (told ## env)[k] = told[k]
        /\ \A k \in DOMAIN env : k \notin DOMAIN told => (told ## env)[k] = env[k]
    BY UpdateIs
  <2>2. e = told ## env
    BY DEF e
  <2>. HIDE DEF e
  <2>3. /\ DOMAIN e = DOMAIN told \union DOMAIN env
        /\ \A k \in DOMAIN told : e[k] = told[k]
        /\ \A k \in DOMAIN env : k \notin DOMAIN told => e[k] = env[k]
    BY <2>1, <2>2
  <2>. QED BY <1>6, <2>3
<1>11. /\ DOMAIN Agent(p).env = BaseVars \union DOMAIN e
       /\ Agent(p).env["CRAG_ROLE"] = Text("agent")
       /\ \A k \in DOMAIN e : k \notin BaseVars => Agent(p).env[k] = e[k]
  <2>. DEFINE u == BaseEnv(d) ## e
  <2>1. /\ DOMAIN u = DOMAIN BaseEnv(d) \union DOMAIN e
        /\ \A k \in DOMAIN BaseEnv(d) : u[k] = BaseEnv(d)[k]
        /\ \A k \in DOMAIN e : k \notin DOMAIN BaseEnv(d) => u[k] = e[k]
    BY UpdateIs
  <2>2. Agent(p).env = u
    BY <1>1, <1>2
  <2>. HIDE DEF u
  <2>3. "CRAG_ROLE" \in BaseVars
    BY DEF BaseVars
  <2>. QED BY <1>5, <2>1, <2>2, <2>3
<1>12. \A k \in DOMAIN env \intersect VarsOf(s) :
         k \in DOMAIN m.env /\ env[k] = SecretPlaceholder(LastFor(k, s))
  <2>1. SUFFICES ASSUME NEW k \in DOMAIN env, k \in VarsOf(s)
                 PROVE  k \in DOMAIN m.env /\ env[k] = SecretPlaceholder(LastFor(k, s))
    OBVIOUS
  <2>2. k \in DOMAIN m.env /\ env[k] = m.env[k]
    BY <1>4, <1>7, <1>8, <1>9, <2>1
  <2>3. LastFor(k, s) \in Range(s) /\ LastFor(k, s).var = k
    BY <1>3, <2>1, LastIsOneOfThem
  <2>4. \A z \in Range(s) : z.var \in DOMAIN m.env => m.env[z.var] = SecretPlaceholder(z)
    BY <1>3 DEF SecretsTold, s
  <2>. QED BY <2>2, <2>3, <2>4
<1>13. \A k \in DOMAIN env : e[k] = env[k]
  BY <1>6, <1>10, <1>12
<1>14. ASSUME NEW k \in DOMAIN env
       PROVE  k \in DOMAIN Agent(p).env /\ Agent(p).env[k] = env[k]
  <2>1. k \in BaseVars => k = "CRAG_ROLE"
    BY <1>3, <1>4, <1>8, <1>9
  <2>. QED BY <1>9, <1>10, <1>11, <1>13, <2>1
<1>15. ASSUME NEW k \in DOMAIN Agent(p).env, k \notin DOMAIN env,
              k \notin {"CRAG_NODE_ID", "CRAG_DESIRED_HASH"}
       PROVE  \E z \in Range(s) : k = z.var /\ Agent(p).env[k] = SecretPlaceholder(z)
  <2>1. "CRAG_ROLE" \in DOMAIN env
    BY <1>9 DEF RunVars
  <2>2. k \notin BaseVars
    BY <1>15, <2>1 DEF BaseVars
  <2>3. k \in VarsOf(s)
    BY <1>10, <1>11, <1>15, <2>2
  <2>4. Agent(p).env[k] = SecretPlaceholder(LastFor(k, s))
    BY <1>6, <1>10, <1>11, <2>2, <2>3
  <2>. QED BY <1>3, <2>3, <2>4, LastIsOneOfThem
<1>16. {"CRAG_NODE_ID", "CRAG_DESIRED_HASH"} \intersect DOMAIN env = {}
  <2>1. /\ "CRAG_NODE_ID" \in BaseVars /\ "CRAG_DESIRED_HASH" \in BaseVars
        /\ "CRAG_NODE_ID" # "CRAG_ROLE" /\ "CRAG_DESIRED_HASH" # "CRAG_ROLE"
    BY DEF BaseVars
  <2>. QED BY <1>3, <1>4, <1>8, <1>9, <2>1
<1>17. \A k \in DOMAIN env \intersect SecretVars : k \in DOMAIN m.env /\ env[k] = m.env[k]
  BY <1>4, <1>8, <1>9
<1>. QED BY <1>9, <1>14, <1>15, <1>16, <1>17 DEF p, env, m, s

Told(value, p) == ResolveLocalSecret(ResolveCragPlaceholders(value, p))

\* Placeholders of secrets, of services and plain text stay apart.
LEMMA TextStaysText ==
  ASSUME NEW x, NEW p
  PROVE  <<"text", x>> \in Told(Text(x), p)
<1>. DEFINE t == <<"text", x>>
            value == ResolveCragPlaceholders(Text(x), p)
<1>1. t \in Text(x) /\ t[1] # "crag" /\ t[1] # "secret"
  BY DEF Text
<1>2. t \in value
  BY <1>1 DEF ResolveCragPlaceholders
<1>. HIDE DEF value
<1>3. \A s : value # {<<"secret", s>>}
  <2>1. \A s : t # <<"secret", s>>
    OBVIOUS
  <2>. QED BY <1>2, <2>1
<1>4. ResolveLocalSecret(value) = value
  BY <1>3 DEF ResolveLocalSecret
<1>. QED BY <1>2, <1>4 DEF Told, value

LEMMA AddressStaysAddress ==
  ASSUME NEW role, NEW value, <<"crag", role>> \in value, NEW p
  PROVE  \E f \in Told(value, p) : f[1] \in {"crag", "service"}
<1>. DEFINE v == ResolveCragPlaceholders(value, p)
            c == <<"crag", role>>
<1>1. c[1] = "crag" /\ c[2] = role
  OBVIOUS
<1>2. \E f \in v : f[1] \in {"crag", "service"}
  <2>1. CASE ServiceFor(p, role) = {}
    <3>1. c \in {f \in value: f[1] # "crag" \/ ServiceFor(p, f[2]) = {}}
      BY <1>1, <2>1
    <3>2. c \in v
      BY <3>1 DEF ResolveCragPlaceholders
    <3>. HIDE DEF v
    <3>. QED BY <1>1, <3>2
  <2>2. CASE ServiceFor(p, role) # {}
    <3>1. PICK n : n \in ServiceFor(p, role)
      BY <2>2
    <3>2. <<"service", n>> \in v
      BY <3>1, PlaceholderBecomesName
    <3>3. <<"service", n>>[1] = "service"
      OBVIOUS
    <3>. HIDE DEF v
    <3>. QED BY <3>2, <3>3
  <2>. QED BY <2>1, <2>2
<1>. HIDE DEF v
<1>3. \A s : v # {<<"secret", s>>}
  <2>1. \A s : <<"secret", s>>[1] = "secret"
    OBVIOUS
  <2>. QED BY <1>2, <2>1
<1>4. ResolveLocalSecret(v) = v
  BY <1>3 DEF ResolveLocalSecret
<1>. QED BY <1>2, <1>4 DEF Told, v

LEMMA SecretStaysSecret ==
  ASSUME NEW s, NEW p
  PROVE  \A f \in Told(SecretPlaceholder(s), p) :
           IF s.provider = "server_env" THEN f[1] = "server_env"
           ELSE f[1] \in {"secret", "value"}
<1>. DEFINE kind == IF s.provider = "server_env" THEN "server_env" ELSE "secret"
            t == <<kind, s.name>>
            value == SecretPlaceholder(s)
            v == ResolveCragPlaceholders(value, p)
<1>1. value = {t} /\ t[1] = kind
  BY DEF SecretPlaceholder
<1>2. kind # "crag"
  OBVIOUS
<1>. HIDE DEF t, kind, value
<1>3. v \subseteq {t}
  BY <1>1, <1>2 DEF ResolveCragPlaceholders
<1>. HIDE DEF v
<1>4. \A f \in Told(value, p) : f \in v \/ (f[1] = "value" /\ \E z : v = {<<"secret", z>>})
  <2>1. Told(value, p) = ResolveLocalSecret(v)
    BY DEF Told, v
  <2>2. CASE \E z \in LocalSecrets : v = {<<"secret", z>>}
    <3>1. ResolveLocalSecret(v) = {<<"value", f[2]>> : f \in v}
      BY <2>2 DEF ResolveLocalSecret
    <3>. QED BY <2>1, <2>2, <3>1
  <2>3. CASE ~\E z \in LocalSecrets : v = {<<"secret", z>>}
    <3>1. ResolveLocalSecret(v) = v
      BY <2>3 DEF ResolveLocalSecret
    <3>. QED BY <2>1, <3>1
  <2>. QED BY <2>2, <2>3
<1>5. (\E z : v = {<<"secret", z>>}) => kind = "secret"
  <2>1. \A z : <<"secret", z>>[1] = "secret"
    OBVIOUS
  <2>. QED BY <1>1, <1>3, <2>1
<1>6. \A f \in Told(value, p) : f[1] = kind \/ (f[1] = "value" /\ kind = "secret")
  BY <1>1, <1>3, <1>4, <1>5
<1>. QED BY <1>6 DEF kind, value

LEMMA SessionVariable ==
  ASSUME NEW d, NEW w, NEW x, NEW c, NEW v, NEW y,
         DeploymentOK(d), DeploymentFits(d), DeploymentOK(c), DeploymentFits(c),
         SameBut(PerRun, ComposeEnv(Agent(Plan(d, w, x)), Plan(d, w, x)),
                         ComposeEnv(Agent(Plan(c, v, y)), Plan(c, v, y))),
         NEW k \in DOMAIN Plan(d, w, x).contract.env, k \notin PerRun
  PROVE  /\ k \in DOMAIN Plan(c, v, y).contract.env
         /\ Told(Plan(d, w, x).contract.env[k], Plan(d, w, x))
              = Told(Plan(c, v, y).contract.env[k], Plan(c, v, y))
<1>. DEFINE p == Plan(d, w, x)
            q == Plan(c, v, y)
            a == Agent(p)
            b == Agent(q)
            e1 == p.contract.env
            e2 == q.contract.env
            m1 == Merged(d)
            m2 == Merged(c)
            f1 == ComposeEnv(a, p)
            f2 == ComposeEnv(b, q)
<1>1. a.role = "agent" /\ b.role = "agent"
  BY AgentEnvIs
<1>2. /\ \A n \in DOMAIN e1 : n \in DOMAIN a.env /\ a.env[n] = e1[n]
      /\ {"CRAG_NODE_ID", "CRAG_DESIRED_HASH"} \intersect DOMAIN e1 = {}
      /\ \A n \in DOMAIN e1 \intersect SecretVars : n \in DOMAIN m1.env /\ e1[n] = m1.env[n]
  BY OwnVarsKeepValues
<1>3. /\ \A n \in DOMAIN e2 : n \in DOMAIN b.env /\ b.env[n] = e2[n]
      /\ \A n \in DOMAIN b.env \ DOMAIN e2 :
           \/ n \in {"CRAG_NODE_ID", "CRAG_DESIRED_HASH"}
           \/ \E s \in Range(m2.secrets) : n = s.var /\ b.env[n] = SecretPlaceholder(s)
      /\ DOMAIN m2.env \subseteq DOMAIN e2
  BY OwnVarsKeepValues
<1>4. SecretsTold(m1) /\ SecretsTold(m2) /\ m2.secrets \in Seq(SecretRefs)
  BY MergedFits DEF Fits
<1>5. /\ k \in DOMAIN e1 /\ k \notin PerRun /\ SameBut(PerRun, f1, f2)
  OBVIOUS
<1>. HIDE DEF p, q, a, b, e1, e2, m1, m2
<1>6. /\ DOMAIN f1 = DOMAIN a.env /\ \A n \in DOMAIN a.env : f1[n] = Told(a.env[n], p)
  BY <1>1, AgentComposeEnv DEF Told
<1>7. /\ DOMAIN f2 = DOMAIN b.env /\ \A n \in DOMAIN b.env : f2[n] = Told(b.env[n], q)
  BY <1>1, AgentComposeEnv DEF Told
<1>. HIDE DEF f1, f2
<1>8. k \in DOMAIN b.env /\ Told(e1[k], p) = Told(b.env[k], q)
  BY <1>2, <1>5, <1>6, <1>7 DEF SameBut
<1>9. k \in DOMAIN e2
  <2>. SUFFICES ASSUME k \notin DOMAIN e2
                PROVE  FALSE
    OBVIOUS
  <2>1. k \notin {"CRAG_NODE_ID", "CRAG_DESIRED_HASH"}
    BY <1>2, <1>5
  <2>2. PICK s \in Range(m2.secrets) : k = s.var /\ b.env[k] = SecretPlaceholder(s)
    BY <1>3, <1>8, <2>1
  <2>3. k \in SecretVars
    <3>1. s \in SecretRefs
      BY <1>4, RangeOfSeq
    <3>. QED BY <2>2, <3>1 DEF SecretRefs
  <2>4. /\ s.var = "DATABASE_PASSWORD" => s.var \in DOMAIN m2.env
        /\ s.var = "OPENAI_API_KEY" => s.provider = "runpod_secret"
        /\ s.var = "DATABASE_URL" => s.provider = "server_env"
    BY <1>4 DEF SecretsTold
  <2>5. \/ k = "DATABASE_PASSWORD"
        \/ k = "OPENAI_API_KEY" /\ \E z : e1[k] = Text(z)
        \/ k = "DATABASE_URL" /\ \E z : <<"crag", z>> \in e1[k]
    <3>1. k \in DOMAIN m1.env \intersect SecretVars /\ e1[k] = m1.env[k]
      BY <1>2, <1>5, <2>3
    <3>. QED BY <1>4, <3>1 DEF SecretsTold
  <2>6. \A f \in Told(e1[k], p) : IF s.provider = "server_env" THEN f[1] = "server_env"
                                  ELSE f[1] \in {"secret", "value"}
    BY <1>8, <2>2, SecretStaysSecret
  <2>7. CASE k = "DATABASE_PASSWORD"
    BY <1>3, <2>2, <2>4, <2>7
  <2>8. CASE k = "OPENAI_API_KEY" /\ \E z : e1[k] = Text(z)
    <3>1. PICK z : e1[k] = Text(z)
      BY <2>8
    <3>2. <<"text", z>> \in Told(e1[k], p)
      BY <3>1, TextStaysText
    <3>3. <<"text", z>>[1] = "text"
      OBVIOUS
    <3>. QED BY <2>2, <2>4, <2>6, <2>8, <3>2, <3>3
  <2>9. CASE k = "DATABASE_URL" /\ \E z : <<"crag", z>> \in e1[k]
    <3>1. PICK f \in Told(e1[k], p) : f[1] \in {"crag", "service"}
      BY <2>9, AddressStaysAddress
    <3>. QED BY <2>2, <2>4, <2>6, <2>9, <3>1
  <2>. QED BY <2>5, <2>7, <2>8, <2>9
<1>10. Told(e1[k], p) = Told(e2[k], q)
  BY <1>3, <1>8, <1>9
<1>. QED BY <1>9, <1>10 DEF p, q, e1, e2

LEMMA SameSession ==
  ASSUME NEW p, NEW q, IsFitPlan(p), IsFitPlan(q),
         SameBut(PerRun, ComposeEnv(Agent(p), p), ComposeEnv(Agent(q), q))
  PROVE  Without(SessionEnv(p), PerRun) = Without(SessionEnv(q), PerRun)
<1>1. PICK d, w, x : DeploymentOK(d) /\ DeploymentFits(d) /\ p = Plan(d, w, x)
  BY DEF IsFitPlan
<1>2. PICK c, v, y : DeploymentOK(c) /\ DeploymentFits(c) /\ q = Plan(c, v, y)
  BY DEF IsFitPlan
<1>3. SameBut(PerRun, ComposeEnv(Agent(q), q), ComposeEnv(Agent(p), p))
  BY DEF SameBut
<1>4. \A k \in DOMAIN p.contract.env : k \notin PerRun =>
        /\ k \in DOMAIN q.contract.env
        /\ Told(p.contract.env[k], p) = Told(q.contract.env[k], q)
  BY <1>1, <1>2, SessionVariable
<1>5. \A k \in DOMAIN q.contract.env : k \notin PerRun => k \in DOMAIN p.contract.env
  BY <1>1, <1>2, <1>3, SessionVariable
<1>6. /\ DOMAIN SessionEnv(p) = DOMAIN p.contract.env
      /\ \A k \in DOMAIN p.contract.env : SessionEnv(p)[k] = Told(p.contract.env[k], p)
      /\ DOMAIN SessionEnv(q) = DOMAIN q.contract.env
      /\ \A k \in DOMAIN q.contract.env : SessionEnv(q)[k] = Told(q.contract.env[k], q)
  BY DEF SessionEnv, Resolved, Told
<1>7. SameBut(PerRun, SessionEnv(p), SessionEnv(q))
  BY <1>4, <1>5, <1>6 DEF SameBut
<1>. QED BY <1>7, SameButWithout

LEMMA HashFollows == CommandInv => LocalHashIsExact
<1>. SUFFICES ASSUME CommandInv, Planned, runs = 2
              PROVE  LocalHashIsExact
  BY DEF LocalHashIsExact
<1>1. IsFitPlan(plan) /\ IsFitPlan(last)
  BY DEF CommandInv
<1>2. PICK d, w, x : DeploymentOK(d) /\ DeploymentFits(d) /\ plan = Plan(d, w, x)
  BY <1>1 DEF IsFitPlan
<1>3. PICK c, v, y : DeploymentOK(c) /\ DeploymentFits(c) /\ last = Plan(c, v, y)
  BY <1>1 DEF IsFitPlan
<1>. DEFINE same == LocalDesiredHash(Agent(plan), plan) = LocalDesiredHash(Agent(last), last)
<1>4. ASSUME plan.deployment_hash = last.deployment_hash,
             Resources(plan) = {Agent(plan)}, Agent(plan).volume = Agent(last).volume
      PROVE  same
  <2>1. plan.deployment_hash = d /\ last.deployment_hash = c
    BY <1>2, <1>3 DEF Plan
  <2>2. last = Plan(d, v, y)
    BY <1>3, <1>4, <2>1
  <2>. QED BY <1>2, <1>4, <2>2, SameDeploymentSameHash
<1>5. ASSUME same
      PROVE  /\ RunScript(plan) = RunScript(last)
             /\ \A f \in DOMAIN CommandFiles(plan) \intersect DOMAIN CommandFiles(last):
                  f[2] # "teardown" => CommandFiles(plan)[f] = CommandFiles(last)[f]
             /\ Without(SessionEnv(plan), PerRun) = Without(SessionEnv(last), PerRun)
             /\ VolumeMount(Agent(plan)) = VolumeMount(Agent(last))
  <2>1. Agent(plan).role = "agent" /\ Agent(last).role = "agent"
    BY <1>2, <1>3, AgentEnvIs
  <2>2. /\ SameBut(PerRun, ComposeEnv(Agent(plan), plan), ComposeEnv(Agent(last), last))
        /\ StableAgentCommandShape(plan) = StableAgentCommandShape(last)
        /\ VolumeMount(Agent(plan)) = VolumeMount(Agent(last))
    BY <1>5, <2>1, HashSays
  <2>3. /\ BeforeCommands(plan) = BeforeCommands(last)
        /\ AfterCommands(plan) = AfterCommands(last)
        /\ RunScript(plan) = RunScript(last)
    BY <2>2, SameScript
  <2>4. \A f \in DOMAIN CommandFiles(plan) \intersect DOMAIN CommandFiles(last):
          f[2] # "teardown" => CommandFiles(plan)[f] = CommandFiles(last)[f]
    BY <1>1, <2>3, SameFiles
  <2>5. Without(SessionEnv(plan), PerRun) = Without(SessionEnv(last), PerRun)
    BY <1>1, <2>2, SameSession
  <2>. QED BY <2>2, <2>3, <2>4, <2>5
<1>. QED BY <1>4, <1>5 DEF LocalHashIsExact

\* The hash of the agent's container is the same for two runs of one deployment
\* that names no pod, and whatever starts in the container is the same, for two
\* runs of any deployments, where the hash is.
THEOREM LocalHashesAreExact == Spec => []LocalHashIsExact
BY AlwaysCommandInv, HashFollows, PTL
=============================================================================
