--------------------------- MODULE Orders_proofs ---------------------------
(***************************************************************************)
(* Facts about a sort by keys, for every list of rows: it only changes     *)
(* their order, puts the keys in order, and leaves a list already in order *)
(* as it is; and about the greatest of some numbers.                       *)
(***************************************************************************)
EXTENDS Orders, FiniteSetTheorems, FunctionTheorems, SequenceTheorems,
        WellFoundedInduction, TLAPS

\* key has n keys that can be compared.
Keys(key, n) ==
  /\ n \in Nat /\ DOMAIN key = 1..n
  /\ \A i \in 1..n : key[i] \in Int

------------------------------------------------------------------------------
(* The order. *)

\* One row comes before another, or they are the same.
LEMMA BeforeIsTotal ==
  ASSUME NEW key, NEW n, Keys(key, n), NEW i \in 1..n, NEW j \in 1..n
  PROVE  /\ ~Before(key, i, i)
         /\ i # j => Before(key, i, j) \/ Before(key, j, i)
         /\ Before(key, i, j) => ~Before(key, j, i)
         /\ \A k \in 1..n : Before(key, i, j) /\ Before(key, j, k) => Before(key, i, k)
BY DEF Before, Keys

NotAfter(key, i) == {j \in DOMAIN key : ~Before(key, i, j)}

\* A place is a number of rows.
LEMMA PlaceIsARow ==
  ASSUME NEW key, NEW n, Keys(key, n), NEW i \in 1..n
  PROVE  /\ IsFiniteSet(NotAfter(key, i)) /\ Place(key, i) = Cardinality(NotAfter(key, i))
         /\ Place(key, i) \in 1..n
<1>1. IsFiniteSet(1..n) /\ Cardinality(1..n) = n
  <2>1. 1 \in Int /\ n \in Int /\ n \in Nat
    BY DEF Keys
  <2>2. IsFiniteSet(1..n) /\ Cardinality(1..n) = IF 1 > n THEN 0 ELSE n - 1 + 1
    BY <2>1, FS_Interval, Zenon
  <2>3. QED
    BY <2>1, <2>2
<1>2. NotAfter(key, i) \in SUBSET (1..n) /\ i \in NotAfter(key, i)
  BY BeforeIsTotal DEF NotAfter, Keys
<1>3. IsFiniteSet(NotAfter(key, i)) /\ Cardinality(NotAfter(key, i)) <= n
  BY <1>1, <1>2, FS_Subset
<1>4. Cardinality(NotAfter(key, i)) \in Nat /\ Cardinality(NotAfter(key, i)) # 0
  BY <1>2, <1>3, FS_CardinalityType, FS_EmptySet
<1>5. Place(key, i) = Cardinality(NotAfter(key, i))
  BY DEF Place, NotAfter
<1>6. QED
  BY <1>3, <1>4, <1>5 DEF Keys

\* A row that comes before another has a smaller place.
LEMMA PlacesFollowTheOrder ==
  ASSUME NEW key, NEW n, Keys(key, n), NEW i \in 1..n, NEW j \in 1..n,
         Before(key, i, j)
  PROVE  Place(key, i) < Place(key, j)
<1>1. NotAfter(key, i) \in SUBSET NotAfter(key, j)
  <2>1. ASSUME NEW k \in 1..n, ~Before(key, i, k), Before(key, j, k) PROVE FALSE
    BY <2>1, BeforeIsTotal
  <2>2. QED
    BY <2>1 DEF NotAfter, Keys
<1>2. j \in NotAfter(key, j) /\ j \notin NotAfter(key, i)
  BY BeforeIsTotal DEF NotAfter, Keys
<1>3. /\ Cardinality(NotAfter(key, i)) <= Cardinality(NotAfter(key, j))
      /\ Cardinality(NotAfter(key, i)) # Cardinality(NotAfter(key, j))
  BY <1>1, <1>2, PlaceIsARow, FS_Subset
<1>4. QED
  <2>1. /\ Place(key, i) = Cardinality(NotAfter(key, i))
        /\ Place(key, j) = Cardinality(NotAfter(key, j))
        /\ Place(key, i) \in Int /\ Place(key, j) \in Int
    BY PlaceIsARow
  <2>2. QED
    BY <1>3, <2>1

------------------------------------------------------------------------------
(* Sorting. *)

\* The row that comes to each place.
Order(key) == [k \in DOMAIN key |-> RowAt(key, k)]

\* Every place is taken by exactly one row, and the keys are in order.
LEMMA SortingMovesRows ==
  ASSUME NEW key, NEW n, Keys(key, n)
  PROVE  /\ Order(key) \in Bijection(1..n, 1..n)
         /\ \A rows : DOMAIN rows = 1..n =>
                SortedBy(rows, key) = [k \in 1..n |-> rows[Order(key)[k]]]
         /\ \A k \in 1..n : Place(key, Order(key)[k]) = k
         /\ \A k, l \in 1..n : k < l => Before(key, Order(key)[k], Order(key)[l])
<1> DEFINE p == [i \in 1..n |-> Place(key, i)]
           r == Order(key)
<1>0. DOMAIN key = 1..n /\ n \in Nat
  BY DEF Keys
<1>1. p \in [1..n -> 1..n]
  BY PlaceIsARow
<1>2. \A i, j \in 1..n : p[i] = p[j] => i = j
  <2>1. SUFFICES ASSUME NEW i \in 1..n, NEW j \in 1..n, p[i] = p[j], i # j PROVE FALSE
    OBVIOUS
  <2>2. Before(key, i, j) \/ Before(key, j, i)
    BY <2>1, BeforeIsTotal
  <2>3. Place(key, i) < Place(key, j) \/ Place(key, j) < Place(key, i)
    BY <2>2, PlacesFollowTheOrder
  <2>4. Place(key, i) \in Int /\ Place(key, j) \in Int /\ Place(key, i) = Place(key, j)
    BY <2>1, PlaceIsARow
  <2>5. QED
    BY <2>3, <2>4
<1>3. p \in Injection(1..n, 1..n)
  BY <1>1, <1>2 DEF Injection, IsInjective
<1>4. IsFiniteSet(1..n)
  <2>1. 1 \in Int /\ n \in Int
    BY <1>0
  <2>2. QED
    BY <2>1, FS_Interval, Zenon
<1>5. p \in Surjection(1..n, 1..n)
  BY <1>3, <1>4, FS_Injection
<1>6. \A k \in 1..n : \E i \in 1..n : Place(key, i) = k
  <2>1. \A k \in 1..n : \E i \in 1..n : p[i] = k
    BY <1>5 DEF Surjection
  <2>2. QED
    BY <2>1
<1>7. r = [k \in 1..n |-> CHOOSE i \in 1..n : Place(key, i) = k]
  BY <1>0 DEF Order, RowAt
<1>8. \A k \in 1..n : r[k] \in 1..n /\ Place(key, r[k]) = k
  <2>1. TAKE k \in 1..n
  <2>2. \E i \in 1..n : Place(key, i) = k
    BY <1>6
  <2>3. r[k] = CHOOSE i \in 1..n : Place(key, i) = k
    BY <1>7
  <2>4. QED
    BY <2>2, <2>3
<1>9. \A k, l \in 1..n : r[k] = r[l] => k = l
  <2>1. TAKE k, l \in 1..n
  <2>2. HAVE r[k] = r[l]
  <2>3. QED
    BY <1>8, <2>2
<1>10. \A i \in 1..n : \E k \in 1..n : r[k] = i
  <2>1. TAKE i \in 1..n
  <2>2. p[i] \in 1..n /\ p[i] = Place(key, i)
    BY <1>1
  <2>3. Place(key, r[p[i]]) = p[i] /\ r[p[i]] \in 1..n
    BY <1>8, <2>2
  <2>4. p[r[p[i]]] = p[i]
    BY <2>3
  <2>5. r[p[i]] = i
    BY <1>2, <2>3, <2>4
  <2>6. QED
    BY <2>2, <2>5
<1>11. Order(key) \in Bijection(1..n, 1..n)
  <2>1. r \in [1..n -> 1..n]
    BY <1>7, <1>8
  <2>2. r \in Injection(1..n, 1..n)
    BY <2>1, <1>9 DEF Injection, IsInjective
  <2>3. r \in Surjection(1..n, 1..n)
    BY <2>1, <1>10 DEF Surjection
  <2>4. QED
    BY <2>2, <2>3 DEF Bijection
<1>12. \A rows : DOMAIN rows = 1..n =>
         SortedBy(rows, key) = [k \in 1..n |-> rows[Order(key)[k]]]
  BY <1>0 DEF SortedBy, Order
<1>13. ASSUME NEW k \in 1..n, NEW l \in 1..n, k < l
       PROVE  Before(key, r[k], r[l])
  <2>1. r[k] \in 1..n /\ r[l] \in 1..n /\ Place(key, r[k]) = k /\ Place(key, r[l]) = l
    BY <1>8
  <2>2. CASE Before(key, r[l], r[k])
    <3>1. Place(key, r[l]) < Place(key, r[k])
      BY <2>1, <2>2, PlacesFollowTheOrder
    <3>2. QED
      BY <1>0, <1>13, <2>1, <3>1
  <2>3. CASE r[k] = r[l]
    BY <1>0, <1>13, <2>1, <2>3
  <2>4. QED
    BY <2>1, <2>2, <2>3, BeforeIsTotal
<1>14. QED
  BY <1>8, <1>11, <1>12, <1>13

\* Rows that are in order are sorted already.
LEMMA SortedStaysSorted ==
  ASSUME NEW key, NEW n, Keys(key, n), NEW rows, rows = [k \in 1..n |-> rows[k]],
         \A k, l \in 1..n : k < l => key[k] < key[l]
  PROVE  SortedBy(rows, key) = rows
<1>0. n \in Nat /\ DOMAIN key = 1..n
  BY DEF Keys
<1>1. ASSUME NEW k \in 1..n PROVE Place(key, k) = k
  <2>1. NotAfter(key, k) = 1..k
    <3>1. ASSUME NEW j \in 1..n PROVE Before(key, k, j) <=> k < j
      <4>1. j < k => key[j] < key[k]
        OBVIOUS
      <4>2. k < j => key[k] < key[j]
        OBVIOUS
      <4>3. key[j] \in Int /\ key[k] \in Int
        BY DEF Keys
      <4>4. QED
        BY <4>1, <4>2, <4>3, <1>0 DEF Before
    <3>2. NotAfter(key, k) = {j \in 1..n : ~(k < j)}
      BY <1>0, <3>1 DEF NotAfter
    <3>3. \A j : j \in 1..n /\ ~(k < j) <=> j \in 1..k
      BY <1>0
    <3>4. QED
      BY <3>2, <3>3, Zenon
  <2>2. Cardinality(1..k) = k
    <3>1. 1 \in Int /\ k \in Int /\ ~(1 > k)
      BY <1>0
    <3>2. Cardinality(1..k) = k - 1 + 1
      BY <3>1, FS_Interval, Zenon
    <3>3. QED
      BY <3>1, <3>2
  <2>3. QED
    BY <2>1, <2>2, PlaceIsARow
<1>2. ASSUME NEW k \in 1..n PROVE Order(key)[k] = k
  <2>1. Order(key)[k] \in 1..n /\ Place(key, Order(key)[k]) = k
    BY SortingMovesRows DEF Bijection, Surjection
  <2>2. QED
    BY <1>1, <2>1
<1>3. SortedBy(rows, key) = [k \in 1..n |-> rows[Order(key)[k]]]
  BY SortingMovesRows
<1>4. QED
  BY <1>2, <1>3

------------------------------------------------------------------------------
(* The greatest of some numbers. *)

\* Naturals that are bounded have a greatest, which is one of them.
LEMMA GreatestExists ==
  ASSUME NEW T \in SUBSET Nat, T # {}, NEW b \in Nat, \A x \in T : x <= b
  PROVE  Greatest(T) \in T /\ \A x \in T : Greatest(T) >= x
<1> DEFINE D == {b - x : x \in T}
<1>1. D \in SUBSET Nat /\ D # {}
  <2>1. ASSUME NEW x \in T PROVE b - x \in Nat
    <3>1. x \in Nat /\ x <= b
      OBVIOUS
    <3>2. QED
      BY <3>1
  <2>2. QED
    BY <2>1
<1>2. PICK m \in D : \A d \in D : ~ (<<d, m>> \in OpToRel(<, Nat))
  BY <1>1, NatLessThanWellFounded, WFMin
<1>3. PICK g \in T : m = b - g
  OBVIOUS
<1>4. ASSUME NEW x \in T PROVE g >= x
  <2>1. b - x \in D /\ b - x \in Nat /\ m \in Nat
    BY <1>1
  <2>2. ~ (<<b - x, m>> \in OpToRel(<, Nat))
    BY <1>2, <2>1
  <2>3. ~ (b - x < m)
    BY <2>1, <2>2 DEF OpToRel
  <2>4. QED
    BY <1>3, <2>1, <2>3
<1>5. \E y \in T : \A x \in T : y >= x
  BY <1>4
<1>6. QED
  BY <1>5 DEF Greatest

=============================================================================
