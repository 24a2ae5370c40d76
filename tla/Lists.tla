------------------------------- MODULE Lists -------------------------------
(***************************************************************************)
(* Places in a finite set that is ordered, and folds: what the proofs need *)
(* of ORDER BY ... LIMIT ... OFFSET, whatever is listed, and of the loops  *)
(* that go through a list.                                                 *)
(***************************************************************************)
EXTENDS Bitemporal, FiniteSetTheorems, WellFoundedInduction, TLAPS

\* A strict order of S in which every two elements are comparable, as pairs.
IsOrder(S, before) ==
  /\ before \subseteq S \X S
  /\ \A x \in S : <<x, x>> \notin before
  /\ \A x, y, z \in S : <<x, y>> \in before /\ <<y, z>> \in before => <<x, z>> \in before
  /\ \A x, y \in S : x # y => <<x, y>> \in before \/ <<y, x>> \in before

Below(S, before, x) == {y \in S : <<y, x>> \in before}

\* The 1-based place of x.
PlaceIn(S, before, x) == 1 + Cardinality(Below(S, before, x))

----------------------------------------------------------------------------
\* Numbers that are there have a least one.
LEMMA LeastExists ==
  ASSUME NEW T \in SUBSET Nat, T # {}
  PROVE  \E m \in T : \A n \in T : m <= n
  <1>1. PICK m \in T : \A n \in T : <<n, m>> \notin OpToRel(<, Nat)
    BY NatLessThanWellFounded, WFMin
  <1>2. \A n \in T : ~(n < m)
    BY <1>1 DEF OpToRel
  <1>3. QED
    BY <1>2

\* Numbers below a bound have a greatest one.
LEMMA GreatestExists ==
  ASSUME NEW T \in SUBSET Nat, T # {}, NEW b \in Nat, \A n \in T : n <= b
  PROVE  \E m \in T : \A n \in T : n <= m
  <1> DEFINE U == {u \in Nat : \A n \in T : n <= u}
  <1>1. PICK u \in U : \A v \in U : u <= v
    <2>1. b \in U
      OBVIOUS
    <2>2. QED
      BY <2>1, LeastExists
  <1>2. u \in T
    <2>1. SUFFICES ASSUME u \notin T PROVE FALSE
      OBVIOUS
    <2>2. \A n \in T : n <= u - 1
      BY <1>1, <2>1
    <2>3. u - 1 \in Nat
      <3>1. PICK n \in T : n <= u - 1
        BY <2>2
      <3>2. QED
        BY <3>1
    <2>4. QED
      BY <1>1, <2>2, <2>3
  <1>3. QED
    BY <1>1, <1>2

\* Induction: a set of numbers that has 0, and the successor of each of its
\* numbers, has them all.
LEMMA CountedUp ==
  ASSUME NEW T, 0 \in T, \A k \in Nat : k \in T => k + 1 \in T
  PROVE  \A k \in Nat : k \in T
  <1> DEFINE left == {k \in Nat : k \notin T}
  <1>1. SUFFICES ASSUME left # {} PROVE FALSE
    OBVIOUS
  <1>2. PICK m \in left : \A k \in left : m <= k
    BY <1>1, LeastExists
  <1>3. m # 0 /\ m - 1 \in Nat
    BY <1>2
  <1>4. m - 1 \notin left
    BY <1>2, <1>3
  <1>5. QED
    BY <1>2, <1>3, <1>4

LEMMA PlaceType ==
  ASSUME NEW S, IsFiniteSet(S), NEW before, IsOrder(S, before), NEW x \in S
  PROVE  /\ IsFiniteSet(Below(S, before, x))
         /\ Cardinality(Below(S, before, x)) \in Nat
         /\ PlaceIn(S, before, x) \in Nat \ {0}
         /\ PlaceIn(S, before, x) <= Cardinality(S)
  <1> DEFINE under == Below(S, before, x)
  <1>1. under \subseteq S \ {x}
    BY DEF Below, IsOrder
  <1>2. /\ IsFiniteSet(S \ {x}) /\ Cardinality(S \ {x}) = Cardinality(S) - 1
        /\ Cardinality(S) \in Nat
    BY FS_RemoveElement, FS_CardinalityType
  <1> HIDE DEF under
  <1>3. IsFiniteSet(under) /\ Cardinality(under) <= Cardinality(S) - 1
    BY <1>1, <1>2, FS_Subset
  <1>4. Cardinality(under) \in Nat
    BY <1>3, FS_CardinalityType
  <1>5. QED
    BY <1>2, <1>3, <1>4 DEF PlaceIn, under

\* Places follow the order, so that no two elements have the same one.
LEMMA PlaceMonotonic ==
  ASSUME NEW S, IsFiniteSet(S), NEW before, IsOrder(S, before),
         NEW x \in S, NEW y \in S
  PROVE  <<x, y>> \in before <=> PlaceIn(S, before, x) < PlaceIn(S, before, y)
  <1>1. ASSUME NEW a \in S, NEW b \in S, <<a, b>> \in before
        PROVE  PlaceIn(S, before, a) < PlaceIn(S, before, b)
    <2> DEFINE A == Below(S, before, a)
               B == Below(S, before, b)
    <2>1. A \cup {a} \subseteq B /\ a \notin A
      BY <1>1 DEF Below, IsOrder
    <2>2. IsFiniteSet(A) /\ IsFiniteSet(B) /\ Cardinality(A) \in Nat /\ Cardinality(B) \in Nat
      BY PlaceType
    <2> HIDE DEF A, B
    <2>3. Cardinality(A \cup {a}) = Cardinality(A) + 1
      BY <2>1, <2>2, FS_AddElement
    <2>4. Cardinality(A \cup {a}) <= Cardinality(B)
      BY <2>1, <2>2, FS_Subset
    <2>5. QED
      BY <2>2, <2>3, <2>4 DEF PlaceIn, A, B
  <1>2. PlaceIn(S, before, x) \in Nat /\ PlaceIn(S, before, y) \in Nat
    BY PlaceType
  <1>3. CASE <<x, y>> \in before
    BY <1>1, <1>3
  <1>4. CASE <<x, y>> \notin before
    <2>1. x = y \/ <<y, x>> \in before
      BY <1>4 DEF IsOrder
    <2>2. QED
      BY <1>1, <1>2, <1>4, <2>1
  <1>5. QED
    BY <1>3, <1>4

\* At most k elements have a place up to k.
LEMMA FewInFront ==
  ASSUME NEW S, IsFiniteSet(S), NEW before, IsOrder(S, before), NEW k \in Nat
  PROVE  LET front == {x \in S : PlaceIn(S, before, x) <= k}
         IN  IsFiniteSet(front) /\ Cardinality(front) \in Nat /\ Cardinality(front) <= k
  <1> DEFINE front == {x \in S : PlaceIn(S, before, x) <= k}
  <1>1. IsFiniteSet(front) /\ Cardinality(front) \in Nat
    BY FS_Subset, FS_CardinalityType
  <1>2. CASE front = {}
    BY <1>2, FS_EmptySet
  <1>3. CASE front # {}
    <2> DEFINE places == {PlaceIn(S, before, x) : x \in front}
    <2>1. places \subseteq Nat /\ places # {} /\ \A n \in places : n <= k
      BY <1>3, PlaceType
    <2>2. PICK m \in places : \A n \in places : n <= m
      BY <2>1, GreatestExists
    <2>3. PICK w \in front : m = PlaceIn(S, before, w)
      BY <2>2
    <2>4. front \subseteq Below(S, before, w) \cup {w}
      <3>1. ASSUME NEW x \in front, x # w
            PROVE  <<x, w>> \in before
        <4>1. PlaceIn(S, before, x) <= PlaceIn(S, before, w)
          BY <2>2, <2>3
        <4>2. <<w, x>> \notin before
          BY <4>1, PlaceMonotonic, PlaceType
        <4>3. QED
          BY <3>1, <4>2 DEF IsOrder
      <3>2. QED
        BY <3>1 DEF Below
    <2>5. /\ IsFiniteSet(Below(S, before, w)) /\ Cardinality(Below(S, before, w)) \in Nat
          /\ w \notin Below(S, before, w)
      BY PlaceType DEF Below, IsOrder
    <2>6. /\ IsFiniteSet(Below(S, before, w) \cup {w})
          /\ Cardinality(Below(S, before, w) \cup {w}) = PlaceIn(S, before, w)
      BY <2>5, FS_AddElement DEF PlaceIn
    <2> HIDE DEF front
    <2>7. Cardinality(front) <= PlaceIn(S, before, w)
      BY <2>4, <2>6, FS_Subset
    <2>8. PlaceIn(S, before, w) <= k /\ PlaceIn(S, before, w) \in Nat
      BY PlaceType DEF front
    <2>9. QED
      BY <1>1, <2>7, <2>8 DEF front
  <1>4. QED
    BY <1>1, <1>2, <1>3

\* Up to k there are k elements at least, if there is one beyond.
LEMMA EnoughInFront ==
  ASSUME NEW S, IsFiniteSet(S), NEW before, IsOrder(S, before), NEW k \in Nat,
         \E x \in S : PlaceIn(S, before, x) > k
  PROVE  /\ Cardinality({x \in S : PlaceIn(S, before, x) <= k}) >= k
         /\ \E x \in S : PlaceIn(S, before, x) = k + 1
  <1> DEFINE front == {x \in S : PlaceIn(S, before, x) <= k}
             places == {PlaceIn(S, before, x) : x \in S \ front}
  <1>1. places \subseteq Nat /\ places # {} /\ \A n \in places : n > k
    BY PlaceType
  <1>2. PICK m \in places : \A n \in places : m <= n
    BY <1>1, LeastExists
  <1>3. PICK z \in S \ front : m = PlaceIn(S, before, z)
    BY <1>2
  <1>4. Below(S, before, z) \subseteq front
    <2>1. ASSUME NEW y \in S, <<y, z>> \in before
          PROVE  y \in front
      <3>1. PlaceIn(S, before, y) < PlaceIn(S, before, z)
        BY <1>3, <2>1, PlaceMonotonic
      <3>2. PlaceIn(S, before, y) \in Nat /\ PlaceIn(S, before, z) \in Nat
        BY PlaceType
      <3>3. QED
        BY <1>2, <1>3, <3>1, <3>2
    <2>2. QED
      BY <2>1 DEF Below
  <1>5. IsFiniteSet(front) /\ Cardinality(front) \in Nat /\ Cardinality(front) <= k
    BY FewInFront
  <1>6. m > k /\ m \in Nat
    BY <1>1
  <1> HIDE DEF front, places
  <1>7. Cardinality(Below(S, before, z)) <= Cardinality(front)
    BY <1>4, <1>5, FS_Subset
  <1>8. Cardinality(Below(S, before, z)) \in Nat
    BY PlaceType
  <1>9. m = 1 + Cardinality(Below(S, before, z))
    BY <1>3 DEF PlaceIn
  <1>10. Cardinality(front) >= k /\ PlaceIn(S, before, z) = k + 1
    BY <1>3, <1>5, <1>6, <1>7, <1>8, <1>9
  <1>11. QED
    BY <1>10 DEF front

\* A page with something beyond it is full.
LEMMA PageFull ==
  ASSUME NEW S, IsFiniteSet(S), NEW before, IsOrder(S, before),
         NEW from \in Nat \ {0}, NEW size \in Nat,
         \E x \in S : PlaceIn(S, before, x) >= from + size
  PROVE  Cardinality({x \in S : from <= PlaceIn(S, before, x)
                                /\ PlaceIn(S, before, x) < from + size}) >= size
  <1> DEFINE A == {x \in S : PlaceIn(S, before, x) <= from - 1}
             B == {x \in S : PlaceIn(S, before, x) <= from + size - 1}
             page == {x \in S : from <= PlaceIn(S, before, x)
                                /\ PlaceIn(S, before, x) < from + size}
  <1>1. from - 1 \in Nat /\ from + size - 1 \in Nat
    OBVIOUS
  <1>2. IsFiniteSet(A) /\ Cardinality(A) \in Nat /\ Cardinality(A) <= from - 1
    BY <1>1, FewInFront
  <1>3. IsFiniteSet(B) /\ Cardinality(B) \in Nat
    BY <1>1, FewInFront
  <1>4. Cardinality(B) >= from + size - 1
    <2>1. \A x \in S : PlaceIn(S, before, x) \in Nat
      BY PlaceType
    <2>2. \E x \in S : PlaceIn(S, before, x) > from + size - 1
      BY <2>1
    <2>3. QED
      BY <1>1, <2>2, EnoughInFront
  <1>5. page = B \ A /\ B \cap A = A
    <2>1. \A x \in S : PlaceIn(S, before, x) \in Nat
      BY PlaceType
    <2>2. QED
      BY <2>1
  <1> HIDE DEF A, B, page
  <1>6. Cardinality(page) = Cardinality(B) - Cardinality(A)
    BY <1>3, <1>5, FS_Difference
  <1>7. Cardinality(page) >= size
    BY <1>2, <1>3, <1>4, <1>6
  <1>8. QED
    BY <1>7 DEF page
\* Every place up to the number of elements is taken.
LEMMA PlaceOnto ==
  ASSUME NEW S, IsFiniteSet(S), NEW before, IsOrder(S, before),
         NEW k \in 1..Cardinality(S)
  PROVE  \E x \in S : PlaceIn(S, before, x) = k
  <1>1. Cardinality(S) \in Nat /\ k - 1 \in Nat
    BY FS_CardinalityType
  <1>2. \E x \in S : PlaceIn(S, before, x) > k - 1
    <2> DEFINE front == {x \in S : PlaceIn(S, before, x) <= k - 1}
    <2>1. Cardinality(front) <= k - 1
      BY <1>1, FewInFront
    <2>2. front # S
      BY <1>1, <2>1
    <2>3. \A x \in S : PlaceIn(S, before, x) \in Nat
      BY PlaceType
    <2>4. QED
      BY <1>1, <2>2, <2>3
  <1>3. \E x \in S : PlaceIn(S, before, x) = k - 1 + 1
    BY <1>1, <1>2, EnoughInFront
  <1>4. QED
    BY <1>1, <1>3

\* The first m elements, in the order of their places.
Listing(S, place, m) == [k \in 1..m |-> CHOOSE x \in S : place[x] = k]

\* A listing is in order, and what it leaves out comes after all it shows.
LEMMA ListingInOrder ==
  ASSUME NEW S, IsFiniteSet(S), NEW before, IsOrder(S, before),
         NEW m \in Nat, m <= Cardinality(S),
         NEW place, place = [x \in S |-> PlaceIn(S, before, x)],
         NEW page, page = Listing(S, place, m)
  PROVE  /\ page \in Seq(S) /\ Len(page) = m
         /\ \A k, l \in 1..m : k < l => <<page[k], page[l]>> \in before
         /\ \A x \in S : (\E k \in 1..m : page[k] = x)
                         \/ (m < Cardinality(S) /\ \A k \in 1..m : <<page[k], x>> \in before)
  <1>1. Cardinality(S) \in Nat
    BY FS_CardinalityType
  <1>2. ASSUME NEW k \in 1..m
        PROVE  page[k] \in S /\ PlaceIn(S, before, page[k]) = k
    <2>1. k \in 1..Cardinality(S)
      BY <1>1
    <2>2. \E x \in S : place[x] = k
      BY <2>1, PlaceOnto
    <2>3. QED
      BY <2>2 DEF Listing
  <1>3. page \in Seq(S) /\ Len(page) = m
    <2> DEFINE at(k) == CHOOSE x \in S : place[x] = k
    <2>1. page = [k \in 1..m |-> at(k)]
      BY Zenon DEF Listing
    <2> HIDE DEF at
    <2>2. QED
      BY <1>2, <2>1
  <1>4. ASSUME NEW k \in 1..m, NEW x \in S, k < PlaceIn(S, before, x)
        PROVE  <<page[k], x>> \in before
    BY <1>2, <1>4, PlaceMonotonic
  <1>5. ASSUME NEW k \in 1..m, NEW l \in 1..m, k < l
        PROVE  <<page[k], page[l]>> \in before
    BY <1>2, <1>4, <1>5
  <1>6. ASSUME NEW x \in S, PlaceIn(S, before, x) <= m
        PROVE  \E k \in 1..m : page[k] = x
    <2> DEFINE k == PlaceIn(S, before, x)
    <2>1. k \in 1..m
      BY <1>6, PlaceType
    <2>2. page[k] \in S /\ PlaceIn(S, before, page[k]) = k
      BY <1>2, <2>1
    <2>3. <<page[k], x>> \notin before /\ <<x, page[k]>> \notin before
      BY <2>1, <2>2, PlaceMonotonic
    <2>4. page[k] = x
      BY <2>2, <2>3 DEF IsOrder
    <2>5. QED
      BY <2>1, <2>4
  <1>7. ASSUME NEW x \in S, ~(PlaceIn(S, before, x) <= m)
        PROVE  m < Cardinality(S) /\ \A k \in 1..m : <<page[k], x>> \in before
    <2>1. PlaceIn(S, before, x) \in Nat /\ PlaceIn(S, before, x) <= Cardinality(S)
      BY PlaceType
    <2>2. \A k \in 1..m : k < PlaceIn(S, before, x)
      BY <1>7, <2>1
    <2>3. QED
      BY <1>1, <1>4, <1>7, <2>1, <2>2
  <1>8. QED
    BY <1>3, <1>5, <1>6, <1>7
----------------------------------------------------------------------------
(* ORDER BY rank, id LIMIT n (FirstBy of Bitemporal).                      *)

\* Whether row i comes before row j.
RanksBefore(rank, i, j) == rank[i] < rank[j] \/ (rank[i] = rank[j] /\ i < j)

LEMMA MinOfTwo ==
  ASSUME NEW a \in Nat, NEW b \in Nat
  PROVE  /\ Min({a, b}) \in Nat /\ Min({a, b}) \in {a, b}
         /\ Min({a, b}) <= a /\ Min({a, b}) <= b
  <1>1. \E x \in {a, b} : \A y \in {a, b} : x <= y
    <2>1. CASE a <= b
      BY <2>1
    <2>2. CASE b <= a
      BY <2>2
    <2>3. QED
      BY <2>1, <2>2
  <1>2. QED
    BY <1>1 DEF Min

\* A page is in order, as long as its limit and the rows allow, and what it
\* leaves out comes after all it shows.
LEMMA FirstByPage ==
  ASSUME NEW ids \in SUBSET Nat, IsFiniteSet(ids),
         NEW rank, \A i \in ids : rank[i] \in Int, NEW n \in Nat,
         NEW page, page = FirstBy(ids, rank, n)
  PROVE  /\ page \in Seq(ids) /\ Len(page) = Min({n, Cardinality(ids)})
         /\ Len(page) \in Nat /\ Len(page) <= n /\ Cardinality(ids) \in Nat
         /\ \A k, l \in 1..Len(page) : k < l => RanksBefore(rank, page[k], page[l])
         /\ \A i \in ids : \/ \E k \in 1..Len(page) : page[k] = i
                           \/ /\ Len(page) = n
                              /\ \A k \in 1..Len(page) : RanksBefore(rank, page[k], i)
  <1> DEFINE before == {p \in ids \X ids : RanksBefore(rank, p[1], p[2])}
             m == Min({n, Cardinality(ids)})
  <1>1. \A i, j \in ids : <<i, j>> \in before <=> RanksBefore(rank, i, j)
    OBVIOUS
  <1>2. before \subseteq ids \X ids
    OBVIOUS
  <1> HIDE DEF before
  <1>3. IsOrder(ids, before)
    <2>1. \A i \in ids : i \in Nat
      OBVIOUS
    <2>2. \A i \in ids : ~RanksBefore(rank, i, i)
      BY <2>1 DEF RanksBefore
    <2>3. \A i, j, k \in ids :
             RanksBefore(rank, i, j) /\ RanksBefore(rank, j, k) => RanksBefore(rank, i, k)
      BY <2>1 DEF RanksBefore
    <2>4. \A i, j \in ids : i # j => RanksBefore(rank, i, j) \/ RanksBefore(rank, j, i)
      BY <2>1 DEF RanksBefore
    <2>5. QED
      BY <1>1, <1>2, <2>2, <2>3, <2>4 DEF IsOrder
  <1>4. Cardinality(ids) \in Nat
    BY FS_CardinalityType
  <1>5. m \in Nat /\ m <= Cardinality(ids) /\ m <= n /\ (m < Cardinality(ids) => m = n)
    BY <1>4, MinOfTwo
  <1> DEFINE place == [i \in ids |-> 1 + Cardinality({j \in ids : RanksBefore(rank, j, i)})]
  <1>6. page = Listing(ids, place, m)
    BY Zenon DEF FirstBy, RanksBefore, Listing
  <1>7. place = [i \in ids |-> PlaceIn(ids, before, i)]
    <2>1. \A i \in ids : {j \in ids : RanksBefore(rank, j, i)} = Below(ids, before, i)
      BY <1>1 DEF Below
    <2>2. QED
      BY <2>1 DEF PlaceIn
  <1> HIDE DEF place
  <1> HIDE DEF m
  <1>8. /\ page \in Seq(ids) /\ Len(page) = m
        /\ \A k, l \in 1..m : k < l => <<page[k], page[l]>> \in before
        /\ \A x \in ids : (\E k \in 1..m : page[k] = x)
                          \/ (m < Cardinality(ids) /\ \A k \in 1..m : <<page[k], x>> \in before)
    BY <1>3, <1>5, <1>6, <1>7, ListingInOrder
  <1>9. \A k \in 1..m : page[k] \in ids
    BY <1>8
  <1>10. QED
    BY <1>1, <1>4, <1>5, <1>8, <1>9 DEF m
\* A listing without a limit shows everything, once.
LEMMA FirstByAll ==
  ASSUME NEW ids \in SUBSET Nat, IsFiniteSet(ids),
         NEW rank, \A i \in ids : rank[i] \in Int,
         NEW page, page = FirstBy(ids, rank, Cardinality(ids))
  PROVE  /\ page \in Seq(ids) /\ Len(page) \in Nat /\ Len(page) = Cardinality(ids)
         /\ \A k, l \in 1..Len(page) : k < l => RanksBefore(rank, page[k], page[l])
         /\ \A i \in ids : \E k \in 1..Len(page) : page[k] = i
  <1> DEFINE n == Cardinality(ids)
             shown == {page[k] : k \in 1..Len(page)}
  <1>1. n \in Nat
    BY FS_CardinalityType
  <1>2. /\ page \in Seq(ids) /\ Len(page) = Min({n, n}) /\ Len(page) \in Nat
        /\ \A k, l \in 1..Len(page) : k < l => RanksBefore(rank, page[k], page[l])
    <2> HIDE DEF n
    <2>1. page = FirstBy(ids, rank, n)
      BY DEF n
    <2>2. n = Cardinality(ids)
      BY DEF n
    <2>3. Min({n, Cardinality(ids)}) = Min({n, n})
      BY <2>2
    <2>4. QED
      BY <1>1, <2>1, <2>3, FirstByPage
  <1>3. Len(page) = n
    BY <1>1, <1>2, MinOfTwo
  <1>4. \A k, l \in 1..n : k # l => page[k] # page[l]
    <2>1. \A i \in ids : ~RanksBefore(rank, i, i)
      BY DEF RanksBefore
    <2>2. \A k \in 1..n : page[k] \in ids
      BY <1>2, <1>3
    <2> HIDE DEF n
    <2>3. \A k, l \in 1..n : k < l => page[k] # page[l]
      BY <1>2, <1>3, <2>1, <2>2
    <2>4. QED
      BY <1>1, <2>3
  <1>5. shown = ids
    <2>1. shown \subseteq ids
      BY <1>2
    <2>2. Cardinality(shown) = n
      <3> DEFINE f == [k \in 1..n |-> page[k]]
      <3>1. f \in [1..n -> shown] /\ \A y \in shown : \E k \in 1..n : f[k] = y
        BY <1>3
      <3>2. \A k, l \in 1..n : f[k] = f[l] => k = l
        BY <1>4
      <3> HIDE DEF f, shown, n
      <3>3. f \in Bijection(1..n, shown)
        BY <3>1, <3>2 DEF Bijection, Injection, Surjection, IsInjective
      <3>4. ExistsBijection(1..n, shown)
        BY <3>3 DEF ExistsBijection
      <3>5. QED
        BY <1>1, <3>4, FS_CountingElements
    <2>3. QED
      BY <2>1, <2>2, FS_Subset
  <1>6. QED
    BY <1>2, <1>3, <1>5

----------------------------------------------------------------------------
(* Folds: FoldLeft goes through the subsets of the indices, the largest of *)
(* them first.                                                             *)

LEMMA MaxInside ==
  ASSUME NEW n \in Nat, NEW s \in SUBSET (1..n), s # {}
  PROVE  Max(s) \in s /\ \A k \in s : k <= Max(s)
  <1>1. s \in SUBSET Nat /\ \A k \in s : k <= n
    OBVIOUS
  <1>2. \E m \in s : \A k \in s : k <= m
    BY <1>1, GreatestExists
  <1>3. QED
    BY <1>2 DEF Max

LEMMA MaxOfPrefix ==
  ASSUME NEW k \in Nat
  PROVE  /\ 1..(k + 1) # {} /\ Max(1..(k + 1)) = k + 1
         /\ (1..(k + 1)) \ {k + 1} = 1..k
  <1>1. k + 1 \in 1..(k + 1) /\ k + 1 \in Nat
    OBVIOUS
  <1>2. Max(1..(k + 1)) \in 1..(k + 1) /\ \A j \in 1..(k + 1) : j <= Max(1..(k + 1))
    BY <1>1, MaxInside
  <1>3. Max(1..(k + 1)) = k + 1
    BY <1>1, <1>2
  <1>4. (1..(k + 1)) \ {k + 1} = 1..k
    OBVIOUS
  <1>5. QED
    BY <1>1, <1>3, <1>4

\* f is what the fold of step over the first n numbers computes.
IsFold(f, base, step, n) ==
  f = [s \in SUBSET (1..n) |->
         IF s = {} THEN base ELSE step[<<f[s \ {Max(s)}], Max(s)>>]]

\* A fold computes something, and of its own type.
LEMMA FoldExists ==
  ASSUME NEW n \in Nat, NEW V, NEW base \in V, NEW step \in [V \X (1..n) -> V]
  PROVE  \E f \in [SUBSET (1..n) -> V] : IsFold(f, base, step, n)
  <1> DEFINE Has(k) == \E f \in [SUBSET (1..k) -> V] : IsFold(f, base, step, k)
             T == {k \in Nat : k <= n => Has(k)}
  <1>1. Has(0)
    <2> DEFINE f == [s \in SUBSET (1..0) |-> base]
    <2>1. \A s \in SUBSET (1..0) : s = {}
      OBVIOUS
    <2>2. f \in [SUBSET (1..0) -> V]
      OBVIOUS
    <2>3. f = [s \in SUBSET (1..0) |->
                 IF s = {} THEN base ELSE step[<<f[s \ {Max(s)}], Max(s)>>]]
      BY <2>1
    <2> HIDE DEF f
    <2>4. QED
      BY <2>2, <2>3 DEF IsFold
  <1>2. ASSUME NEW k \in Nat, k + 1 <= n, Has(k)
        PROVE  Has(k + 1)
    <2>2. PICK g \in [SUBSET (1..k) -> V] : IsFold(g, base, step, k)
      BY <1>2
    <2> DEFINE f == [s \in SUBSET (1..(k + 1)) |->
                       IF k + 1 \in s THEN step[<<g[s \ {k + 1}], k + 1>>] ELSE g[s]]
    <2>3. \A s \in SUBSET (1..(k + 1)) : s \ {k + 1} \in SUBSET (1..k)
      OBVIOUS
    <2>4. k + 1 \in 1..n /\ k + 1 \in Nat
      BY <1>2
    <2>5. ASSUME NEW s \in SUBSET (1..(k + 1))
          PROVE  f[s] \in V
      <3>1. CASE k + 1 \in s
        <4>1. g[s \ {k + 1}] \in V
          BY <2>2, <2>3
        <4>2. f[s] = step[<<g[s \ {k + 1}], k + 1>>]
          BY <3>1
        <4>3. QED
          BY <2>4, <4>1, <4>2
      <3>2. CASE k + 1 \notin s
        <4>1. s \in SUBSET (1..k)
          BY <2>3, <3>2
        <4>2. f[s] = g[s]
          BY <3>2
        <4>3. QED
          BY <2>2, <4>1, <4>2
      <3>3. QED
        BY <3>1, <3>2
    <2>6. f \in [SUBSET (1..(k + 1)) -> V]
      BY <2>5
    <2>7. ASSUME NEW s \in SUBSET (1..k)
          PROVE  f[s] = g[s]
      <3>1. s \in SUBSET (1..(k + 1)) /\ k + 1 \notin s
        OBVIOUS
      <3>2. QED
        BY <3>1
    <2>8. ASSUME NEW s \in SUBSET (1..(k + 1))
          PROVE  f[s] = IF s = {} THEN base ELSE step[<<f[s \ {Max(s)}], Max(s)>>]
      <3>1. CASE k + 1 \in s
        <4>1. s # {} /\ \A j \in s : j <= k + 1
          BY <3>1
        <4>2. Max(s) \in s /\ \A j \in s : j <= Max(s)
          <5> HIDE DEF f
          <5>1. QED
            BY <2>4, <4>1, MaxInside
        <4>3. Max(s) = k + 1
          <5> HIDE DEF f
          <5>1. k + 1 <= Max(s) /\ Max(s) \in 1..(k + 1)
            BY <3>1, <4>2
          <5>2. QED
            BY <5>1
        <4>4. f[s \ {k + 1}] = g[s \ {k + 1}]
          BY <2>3, <2>7
        <4>5. f[s] = step[<<g[s \ {k + 1}], k + 1>>]
          BY <3>1
        <4> HIDE DEF f
        <4>6. QED
          BY <4>1, <4>3, <4>4, <4>5
      <3>2. CASE k + 1 \notin s
        <4>1. s \in SUBSET (1..k)
          BY <2>3, <3>2
        <4>2. f[s] = g[s] /\ f[s \ {Max(s)}] = g[s \ {Max(s)}]
          <5>1. s \ {Max(s)} \in SUBSET (1..k)
            BY <4>1
          <5>2. QED
            BY <2>7, <4>1, <5>1
        <4> HIDE DEF f
        <4>3. g[s] = IF s = {} THEN base ELSE step[<<g[s \ {Max(s)}], Max(s)>>]
          BY <2>2, <4>1 DEF IsFold
        <4>4. QED
          BY <4>2, <4>3
      <3>3. QED
        BY <3>1, <3>2
    <2>9. f = [s \in SUBSET (1..(k + 1)) |->
                 IF s = {} THEN base ELSE step[<<f[s \ {Max(s)}], Max(s)>>]]
      <3>1. f = [s \in SUBSET (1..(k + 1)) |-> f[s]]
        BY <2>6
      <3> HIDE DEF f
      <3>2. QED
        BY <2>8, <3>1
    <2> HIDE DEF f
    <2>10. QED
      BY <2>6, <2>9 DEF IsFold
  <1> HIDE DEF Has
  <1>3. 0 \in T
    BY <1>1
  <1>4. \A k \in Nat : k \in T => k + 1 \in T
    BY <1>2
  <1> HIDE DEF T
  <1>5. n \in T
    BY <1>3, <1>4, CountedUp
  <1>6. Has(n)
    BY <1>5 DEF T
  <1>7. QED
    BY <1>6 DEF Has
==============================================================================
