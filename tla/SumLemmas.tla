------------------------------ MODULE SumLemmas ------------------------------
(***************************************************************************)
(* Facts about the sum of a function over a finite set, as MapThenSumSet   *)
(* computes it.  Each is an induction over the set; it is carried out on a *)
(* smallest counterexample, which exists because cardinalities are natural *)
(* numbers.                                                                *)
(***************************************************************************)
EXTENDS Integers, FiniteSets, FiniteSetsExt, FiniteSetTheorems, WellFoundedInduction, TLAPS

SumOf(f, S) == MapThenSumSet(LAMBDA x : f[x], S)

------------------------------------------------------------------------------
(* Smallest elements. *)

\* Every set of natural numbers with an element has a least one.
LEMMA LeastNumber ==
  ASSUME NEW T \in SUBSET Nat, T # {}
  PROVE  \E n \in T : \A m \in T : n <= m
<1>1. PICK n \in T : \A m \in T : ~ (<<m, n>> \in OpToRel(<, Nat))
  BY NatLessThanWellFounded, WFMin
<1>2. ASSUME NEW m \in T PROVE n <= m
  <2>1. <<m, n>> \in Nat \X Nat /\ ~ (m < n)
    BY <1>1 DEF OpToRel
  <2>2. QED
    BY <2>1
<1>3. QED
  BY <1>2

\* Every set of subsets of a finite set with an element has one of least size: no
\* set of the collection arises from it by taking an element away.
LEMMA SmallestSet ==
  ASSUME NEW S, IsFiniteSet(S), NEW C \in SUBSET (SUBSET S), C # {}
  PROVE  \E s \in C : \A x \in s : s \ {x} \notin C
<1> DEFINE Sizes == {Cardinality(s) : s \in C}
<1>1. \A s \in SUBSET S : IsFiniteSet(s) /\ Cardinality(s) \in Nat
  BY FS_Subset, FS_CardinalityType
<1>2. Sizes \in SUBSET Nat /\ Sizes # {}
  BY <1>1
<1>3. PICK n \in Sizes : \A m \in Sizes : n <= m
  BY <1>2, LeastNumber
<1>4. PICK s \in C : n = Cardinality(s)
  OBVIOUS
<1>5. ASSUME NEW x \in s, s \ {x} \in C PROVE FALSE
  <2>1. Cardinality(s \ {x}) = Cardinality(s) - 1
    BY <1>1, FS_RemoveElement
  <2>2. Cardinality(s) <= Cardinality(s \ {x})
    BY <1>3, <1>4, <1>5
  <2>3. QED
    BY <1>1, <2>1, <2>2
<1>6. QED
  BY <1>5

------------------------------------------------------------------------------
(* The function MapThenSumSet is defined by. *)

Pick(s) == CHOOSE x \in s : TRUE

\* g computes, for the sets of D, the sum that takes one element at a time.
Sums(g, f, D) ==
  \A s \in D : g[s] = IF s = {} THEN 0 ELSE f[Pick(s)] + g[s \ {Pick(s)}]

\* The defining equation of the recursion.
IsSum(g, f, S) ==
  g = [s \in SUBSET S |-> IF s = {} THEN 0 ELSE f[Pick(s)] + g[s \ {Pick(s)}]]

\* The function exists: it is built up from the smaller sets to the larger.
LEMMA SumsExist ==
  ASSUME NEW S, IsFiniteSet(S), NEW f
  PROVE  \E g : IsSum(g, f, S)
<1> DEFINE Small(n) == {s \in SUBSET S : Cardinality(s) <= n}
           Fails == {n \in Nat : ~ \E g : g = [s \in Small(n) |-> g[s]] /\ Sums(g, f, Small(n))}
<1>1. \A s \in SUBSET S : IsFiniteSet(s) /\ Cardinality(s) \in Nat
  BY FS_Subset, FS_CardinalityType
<1>2. \A s \in SUBSET S : s # {} =>
        /\ Pick(s) \in s /\ s \ {Pick(s)} \in SUBSET S
        /\ Cardinality(s \ {Pick(s)}) = Cardinality(s) - 1
  BY <1>1, FS_RemoveElement DEF Pick
<1>3. Fails = {}
  <2> SUFFICES ASSUME Fails # {} PROVE FALSE
    OBVIOUS
  <2>1. PICK n \in Fails : \A m \in Fails : n <= m
    BY LeastNumber
  <2>2. CASE n = 0
    <3> DEFINE g == [s \in Small(0) |-> 0]
    <3>1. \A s \in Small(0) : s = {}
      BY <1>1, FS_EmptySet
    <3>2. g = [s \in Small(0) |-> g[s]] /\ Sums(g, f, Small(0))
      BY <3>1 DEF Sums
    <3> HIDE DEF g
    <3>3. QED
      BY <2>1, <2>2, <3>2
  <2>3. CASE n # 0
    <3>1. n - 1 \in Nat /\ n - 1 \notin Fails
      <4>1. n \in Nat
        BY <2>1
      <4> HIDE DEF Fails
      <4>2. n - 1 \in Nat /\ ~ (n <= n - 1)
        BY <2>3, <4>1
      <4>3. QED
        BY <2>1, <4>2
    <3>2. PICK g : g = [s \in Small(n - 1) |-> g[s]] /\ Sums(g, f, Small(n - 1))
      BY <3>1
    <3> DEFINE h == [s \in Small(n) |-> IF s = {} THEN 0 ELSE f[Pick(s)] + g[s \ {Pick(s)}]]
    <3>3. ASSUME NEW s \in Small(n), s # {} PROVE h[s \ {Pick(s)}] = g[s \ {Pick(s)}]
      <4> DEFINE t == s \ {Pick(s)}
      <4>1. t \in Small(n - 1) /\ t \in Small(n)
        BY <1>1, <1>2, <3>1, <3>3
      <4>2. g[t] = IF t = {} THEN 0 ELSE f[Pick(t)] + g[t \ {Pick(t)}]
        BY <3>2, <4>1 DEF Sums
      <4>3. h[t] = IF t = {} THEN 0 ELSE f[Pick(t)] + g[t \ {Pick(t)}]
        BY <4>1
      <4>4. QED
        BY <4>2, <4>3
    <3>4. Sums(h, f, Small(n)) /\ h = [s \in Small(n) |-> h[s]]
      BY <3>3 DEF Sums
    <3> HIDE DEF h
    <3>5. QED
      BY <2>1, <3>4
  <2>4. QED
    BY <2>2, <2>3
<1>4. PICK g : g = [s \in Small(Cardinality(S)) |-> g[s]] /\ Sums(g, f, Small(Cardinality(S)))
  <2>1. Cardinality(S) \in Nat
    BY FS_CardinalityType
  <2>2. QED
    BY <1>3, <2>1
<1>5. Small(Cardinality(S)) = SUBSET S
  BY <1>1, FS_Subset
<1>6. IsSum(g, f, S)
  BY <1>4, <1>5 DEF Sums, IsSum
<1>7. QED
  BY <1>6

\* SumOf is the value at S of a function that sums every subset of S.
LEMMA SumIsComputed ==
  ASSUME NEW S, IsFiniteSet(S), NEW f
  PROVE  \E g : SumOf(f, S) = g[S] /\ Sums(g, f, SUBSET S)
<1> DEFINE g == CHOOSE h : IsSum(h, f, S)
<1>1. SumOf(f, S) = g[S]
  BY DEF SumOf, MapThenSumSet, MapThenFoldSet, Pick, IsSum
<1>2. IsSum(g, f, S)
  BY SumsExist, Zenon
<1> HIDE DEF g
<1>3. Sums(g, f, SUBSET S)
  BY <1>2 DEF Sums, IsSum
<1>4. QED
  BY <1>1, <1>3

------------------------------------------------------------------------------
(* Sums of natural numbers. *)

\* The sum of natural numbers is one, and at least each of them.
LEMMA SumOfNaturals ==
  ASSUME NEW S, IsFiniteSet(S), NEW f \in [S -> Nat]
  PROVE  /\ SumOf(f, S) \in Nat
         /\ \A x \in S : f[x] <= SumOf(f, S)
<1>1. PICK g : SumOf(f, S) = g[S] /\ Sums(g, f, SUBSET S)
  BY SumIsComputed
<1> DEFINE Good(s) == g[s] \in Nat /\ \A x \in s : f[x] <= g[s]
           Bad == {s \in SUBSET S : ~ Good(s)}
<1>2. Bad = {}
  <2> SUFFICES ASSUME Bad # {} PROVE FALSE
    OBVIOUS
  <2>1. PICK s \in Bad : \A x \in s : s \ {x} \notin Bad
    <3>1. Bad \in SUBSET (SUBSET S)
      OBVIOUS
    <3> HIDE DEF Bad
    <3>2. QED
      BY <3>1, SmallestSet
  <2>2. g[s] = IF s = {} THEN 0 ELSE f[Pick(s)] + g[s \ {Pick(s)}]
    BY <1>1 DEF Sums
  <2>3. s # {}
    BY <2>2
  <2>4. Pick(s) \in s /\ Pick(s) \in S
    BY <2>3 DEF Pick
  <2>5. Good(s \ {Pick(s)})
    BY <2>1, <2>4
  <2>6. f[Pick(s)] \in Nat /\ g[s \ {Pick(s)}] \in Nat /\ g[s] = f[Pick(s)] + g[s \ {Pick(s)}]
    BY <2>2, <2>3, <2>4, <2>5
  <2>7. ASSUME NEW x \in s PROVE f[x] <= g[s]
    <3>1. f[x] \in Nat
      OBVIOUS
    <3>2. CASE x = Pick(s)
      BY <2>6, <3>1, <3>2
    <3>3. CASE x # Pick(s)
      <4>1. f[x] <= g[s \ {Pick(s)}]
        BY <2>5, <3>3
      <4>2. QED
        BY <2>6, <3>1, <4>1
    <3>4. QED
      BY <3>2, <3>3
  <2>8. g[s] \in Nat
    BY <2>6
  <2>9. QED
    BY <2>1, <2>7, <2>8
<1>3. Good(S)
  BY <1>2
<1>4. QED
  BY <1>1, <1>3

\* Changing one term by n changes the sum by n.
LEMMA SumMoves ==
  ASSUME NEW S, IsFiniteSet(S), NEW f \in [S -> Nat],
         NEW o \in S, NEW n \in Int, f[o] + n \in Nat
  PROVE  SumOf([f EXCEPT ![o] = f[o] + n], S) = SumOf(f, S) + n
<1> DEFINE h == [f EXCEPT ![o] = f[o] + n]
<1>1. PICK g : SumOf(f, S) = g[S] /\ Sums(g, f, SUBSET S)
  BY SumIsComputed
<1>2. PICK k : SumOf(h, S) = k[S] /\ Sums(k, h, SUBSET S)
  BY SumIsComputed
<1>3. /\ h[o] = f[o] + n /\ f[o] \in Nat
      /\ \A x \in S \ {o} : h[x] = f[x] /\ f[x] \in Nat
  OBVIOUS
<1> HIDE DEF h
<1> DEFINE Good(s) == g[s] \in Int /\ k[s] = g[s] + (IF o \in s THEN n ELSE 0)
           Bad == {s \in SUBSET S : ~ Good(s)}
<1>4. Bad = {}
  <2> SUFFICES ASSUME Bad # {} PROVE FALSE
    OBVIOUS
  <2>1. PICK s \in Bad : \A x \in s : s \ {x} \notin Bad
    <3>1. Bad \in SUBSET (SUBSET S)
      OBVIOUS
    <3> HIDE DEF Bad
    <3>2. QED
      BY <3>1, SmallestSet
  <2>2. /\ g[s] = IF s = {} THEN 0 ELSE f[Pick(s)] + g[s \ {Pick(s)}]
        /\ k[s] = IF s = {} THEN 0 ELSE h[Pick(s)] + k[s \ {Pick(s)}]
    BY <1>1, <1>2 DEF Sums
  <2>3. s # {}
    BY <2>2
  <2>4. Pick(s) \in s /\ Pick(s) \in S
    BY <2>3 DEF Pick
  <2>5. Good(s \ {Pick(s)})
    BY <2>1, <2>4
  <2> DEFINE t == s \ {Pick(s)}
  <2>6. g[s] = f[Pick(s)] + g[t] /\ k[s] = h[Pick(s)] + k[t] /\ f[Pick(s)] \in Int
    BY <1>3, <2>2, <2>3, <2>4
  <2>7. CASE Pick(s) = o
    <3>1. o \in s /\ o \notin t
      BY <2>4, <2>7
    <3>2. k[t] = g[t] /\ g[t] \in Int
      BY <2>5, <3>1
    <3> HIDE DEF t
    <3>3. Good(s)
      BY <1>3, <2>6, <2>7, <3>1, <3>2
    <3>4. QED
      BY <2>1, <3>3
  <2>8. CASE Pick(s) # o
    <3>1. o \in s <=> o \in t
      BY <2>8
    <3>2. h[Pick(s)] = f[Pick(s)]
      BY <1>3, <2>4, <2>8
    <3>3. g[t] \in Int /\ k[t] = g[t] + (IF o \in t THEN n ELSE 0)
      BY <2>5
    <3> HIDE DEF t
    <3>4. Good(s)
      BY <2>6, <3>1, <3>2, <3>3
    <3>5. QED
      BY <2>1, <3>4
  <2>9. QED
    BY <2>7, <2>8
<1>5. Good(S)
  BY <1>4
<1>6. QED
  BY <1>1, <1>2, <1>5 DEF h

\* A sum of natural numbers that are all zero is zero, and no other one is.
LEMMA SumIsZero ==
  ASSUME NEW S, IsFiniteSet(S), NEW f \in [S -> Nat]
  PROVE  SumOf(f, S) = 0 <=> \A x \in S : f[x] = 0
<1>1. ASSUME SumOf(f, S) = 0, NEW x \in S PROVE f[x] = 0
  BY <1>1, SumOfNaturals
<1>2. ASSUME \A x \in S : f[x] = 0 PROVE SumOf(f, S) = 0
  <2>1. PICK g : SumOf(f, S) = g[S] /\ Sums(g, f, SUBSET S)
    BY SumIsComputed
  <2> DEFINE Bad == {s \in SUBSET S : g[s] # 0}
  <2>2. ASSUME Bad # {} PROVE FALSE
    <3>1. PICK s \in Bad : \A x \in s : s \ {x} \notin Bad
      <4>1. Bad \in SUBSET (SUBSET S)
        OBVIOUS
      <4> HIDE DEF Bad
      <4>2. QED
        BY <2>2, <4>1, SmallestSet
    <3>2. g[s] = IF s = {} THEN 0 ELSE f[Pick(s)] + g[s \ {Pick(s)}]
      BY <2>1 DEF Sums
    <3>3. s # {} /\ Pick(s) \in s
      BY <3>2 DEF Pick
    <3>4. g[s \ {Pick(s)}] = 0 /\ f[Pick(s)] = 0
      BY <1>2, <3>1, <3>3
    <3>5. QED
      BY <3>1, <3>2, <3>3, <3>4
  <2>3. QED
    BY <2>1, <2>2
<1>3. QED
  BY <1>1, <1>2

------------------------------------------------------------------------------
(* Sums of the same numbers. *)

\* Two functions that sum the subsets of S agree when the terms do.
LEMMA SumsAgree ==
  ASSUME NEW S, IsFiniteSet(S), NEW f, NEW h, \A x \in S : f[x] = h[x]
  PROVE  SumOf(f, S) = SumOf(h, S)
<1>1. PICK g : SumOf(f, S) = g[S] /\ Sums(g, f, SUBSET S)
  BY SumIsComputed
<1>2. PICK k : SumOf(h, S) = k[S] /\ Sums(k, h, SUBSET S)
  BY SumIsComputed
<1> DEFINE Bad == {s \in SUBSET S : g[s] # k[s]}
<1>3. ASSUME Bad # {} PROVE FALSE
  <2>1. PICK s \in Bad : \A x \in s : s \ {x} \notin Bad
    <3>1. Bad \in SUBSET (SUBSET S)
      OBVIOUS
    <3> HIDE DEF Bad
    <3>2. QED
      BY <1>3, <3>1, SmallestSet
  <2>2. /\ g[s] = IF s = {} THEN 0 ELSE f[Pick(s)] + g[s \ {Pick(s)}]
        /\ k[s] = IF s = {} THEN 0 ELSE h[Pick(s)] + k[s \ {Pick(s)}]
    BY <1>1, <1>2 DEF Sums
  <2>3. s # {} /\ Pick(s) \in s
    BY <2>1, <2>2 DEF Pick
  <2>4. g[s \ {Pick(s)}] = k[s \ {Pick(s)}] /\ f[Pick(s)] = h[Pick(s)]
    BY <2>1, <2>3
  <2>5. QED
    BY <2>1, <2>2, <2>3, <2>4
<1>4. QED
  BY <1>1, <1>2, <1>3

\* g is, for every element of a set, that element's term and g of the others.
Peels(g, f, S) ==
  \A s \in SUBSET S : g[s] \in Nat /\ \A x \in s : g[s] = f[x] + g[s \ {x}]

\* A function that sums the subsets of S gives, for every element, that element's
\* term and the sum of the others.
LEMMA AnyElementFirst ==
  ASSUME NEW S, IsFiniteSet(S), NEW f \in [S -> Nat], NEW g, Sums(g, f, SUBSET S)
  PROVE  Peels(g, f, S)
<1> DEFINE NoNumber == {s \in SUBSET S : g[s] \notin Nat}
           Bad == {s \in SUBSET S : ~ \A x \in s : g[s] = f[x] + g[s \ {x}]}
<1>1. \A s \in SUBSET S :
        /\ g[s] = IF s = {} THEN 0 ELSE f[Pick(s)] + g[s \ {Pick(s)}]
        /\ s # {} => Pick(s) \in s
        /\ \A x \in s : f[x] \in Nat /\ s \ {x} \in SUBSET S
  BY DEF Sums, Pick
<1>2. ASSUME NoNumber # {} PROVE FALSE
  <2>1. PICK s \in NoNumber : \A x \in s : s \ {x} \notin NoNumber
    <3>1. NoNumber \in SUBSET (SUBSET S)
      OBVIOUS
    <3> HIDE DEF NoNumber
    <3>2. QED
      BY <1>2, <3>1, SmallestSet
  <2>2. s # {}
    <3>1. s \in SUBSET S /\ g[s] \notin Nat
      OBVIOUS
    <3>2. g[s] = IF s = {} THEN 0 ELSE f[Pick(s)] + g[s \ {Pick(s)}]
      BY <1>1, <3>1
    <3> HIDE DEF NoNumber
    <3>3. QED
      BY <3>1, <3>2
  <2>3. g[s \ {Pick(s)}] \in Nat /\ f[Pick(s)] \in Nat /\ g[s] = f[Pick(s)] + g[s \ {Pick(s)}]
    BY <1>1, <2>1, <2>2
  <2>4. QED
    BY <2>1, <2>3
<1>3. \A s \in SUBSET S : g[s] \in Nat
  BY <1>2
<1>4. ASSUME Bad # {} PROVE FALSE
  <2>1. PICK s \in Bad : \A x \in s : s \ {x} \notin Bad
    <3>1. Bad \in SUBSET (SUBSET S)
      OBVIOUS
    <3> HIDE DEF Bad
    <3>2. QED
      BY <1>4, <3>1, SmallestSet
  <2> DEFINE p == Pick(s)
  <2>2. s # {} /\ p \in s
    BY <1>1, <2>1
  <2>3. g[s] = f[p] + g[s \ {p}]
    BY <1>1, <2>1, <2>2
  <2> HIDE DEF p
  <2>4. ASSUME NEW x \in s, x # p PROVE g[s] = f[x] + g[s \ {x}]
    <3> DEFINE t == (s \ {x}) \ {p}
    <3>1. x \in s \ {p} /\ p \in s \ {x} /\ (s \ {p}) \ {x} = t
      BY <2>2, <2>4
    <3>2. g[s \ {p}] = f[x] + g[t] /\ g[s \ {x}] = f[p] + g[t]
      <4>1. \A y \in s : \A z \in s \ {y} : g[s \ {y}] = f[z] + g[(s \ {y}) \ {z}]
        BY <1>1, <2>1
      <4>2. QED
        BY <2>2, <3>1, <4>1
    <3>3. t \in SUBSET S /\ f[x] \in Nat /\ f[p] \in Nat
      BY <2>1, <2>2
    <3> HIDE DEF t
    <3>4. g[t] \in Nat
      BY <1>3, <3>3
    <3>5. QED
      BY <2>3, <3>2, <3>3, <3>4
  <2>5. QED
    BY <2>1, <2>3, <2>4
<1>5. QED
  BY <1>3, <1>4 DEF Peels

\* A sum is any one term and the sum of the others.
LEMMA SumWithout ==
  ASSUME NEW S, IsFiniteSet(S), NEW f \in [S -> Nat], NEW x \in S
  PROVE  SumOf(f, S) = f[x] + SumOf(f, S \ {x})
<1>1. PICK g : SumOf(f, S) = g[S] /\ Sums(g, f, SUBSET S)
  BY SumIsComputed
<1>2. PICK k : SumOf(f, S \ {x}) = k[S \ {x}] /\ Sums(k, f, SUBSET (S \ {x}))
  <2>1. IsFiniteSet(S \ {x})
    BY FS_Subset
  <2>2. QED
    BY <2>1, SumIsComputed
<1>3. g[S] = f[x] + g[S \ {x}]
  <2>1. Peels(g, f, S)
    BY <1>1, AnyElementFirst
  <2>2. S \in SUBSET S
    OBVIOUS
  <2>3. QED
    BY <2>1, <2>2 DEF Peels
<1> DEFINE Bad == {s \in SUBSET (S \ {x}) : g[s] # k[s]}
<1>4. ASSUME Bad # {} PROVE FALSE
  <2>1. PICK s \in Bad : \A y \in s : s \ {y} \notin Bad
    <3>1. Bad \in SUBSET (SUBSET S)
      OBVIOUS
    <3> HIDE DEF Bad
    <3>2. QED
      BY <1>4, <3>1, SmallestSet
  <2>2. /\ g[s] = IF s = {} THEN 0 ELSE f[Pick(s)] + g[s \ {Pick(s)}]
        /\ k[s] = IF s = {} THEN 0 ELSE f[Pick(s)] + k[s \ {Pick(s)}]
    BY <1>1, <1>2 DEF Sums
  <2>3. s # {} /\ Pick(s) \in s
    BY <2>1, <2>2 DEF Pick
  <2>4. g[s \ {Pick(s)}] = k[s \ {Pick(s)}]
    BY <2>1, <2>3
  <2>5. QED
    BY <2>1, <2>2, <2>3, <2>4
<1>5. QED
  BY <1>1, <1>2, <1>3, <1>4

\* The sums of the subsets of S, as one function.
LEMMA SumsOfParts ==
  ASSUME NEW S, IsFiniteSet(S), NEW f \in [S -> Nat]
  PROVE  \E g : Peels(g, f, S) /\ \A T \in SUBSET S : SumOf(f, T) = g[T]
<1>1. PICK g : SumOf(f, S) = g[S] /\ Sums(g, f, SUBSET S)
  BY SumIsComputed
<1>2. ASSUME NEW T \in SUBSET S PROVE SumOf(f, T) = g[T]
  <2>1. IsFiniteSet(T)
    BY FS_Subset
  <2>2. PICK k : SumOf(f, T) = k[T] /\ Sums(k, f, SUBSET T)
    BY <2>1, SumIsComputed
  <2> DEFINE Bad == {s \in SUBSET T : g[s] # k[s]}
  <2>3. ASSUME Bad # {} PROVE FALSE
    <3>1. PICK s \in Bad : \A x \in s : s \ {x} \notin Bad
      <4>1. Bad \in SUBSET (SUBSET T)
        OBVIOUS
      <4> HIDE DEF Bad
      <4>2. QED
        BY <2>1, <2>3, <4>1, SmallestSet
    <3>2. s \in SUBSET T /\ s \in SUBSET S
      OBVIOUS
    <3>3. /\ g[s] = IF s = {} THEN 0 ELSE f[Pick(s)] + g[s \ {Pick(s)}]
          /\ k[s] = IF s = {} THEN 0 ELSE f[Pick(s)] + k[s \ {Pick(s)}]
      BY <1>1, <2>2, <3>2 DEF Sums
    <3>4. s # {} /\ Pick(s) \in s
      BY <3>1, <3>3 DEF Pick
    <3>5. g[s \ {Pick(s)}] = k[s \ {Pick(s)}]
      BY <3>1, <3>4
    <3>6. QED
      BY <3>1, <3>3, <3>4, <3>5
  <2>4. QED
    BY <2>2, <2>3
<1>3. Peels(g, f, S)
  BY <1>1, AnyElementFirst
<1>4. QED
  BY <1>2, <1>3

\* A sum over fewer natural numbers is no greater.
LEMMA SumOfPart ==
  ASSUME NEW S, IsFiniteSet(S), NEW f \in [S -> Nat],
         NEW U \in SUBSET S, NEW T \in SUBSET U
  PROVE  SumOf(f, T) \in Nat /\ SumOf(f, U) \in Nat /\ SumOf(f, T) <= SumOf(f, U)
<1>1. PICK g : Peels(g, f, S) /\ \A s \in SUBSET S : SumOf(f, s) = g[s]
  BY SumsOfParts
<1>2. \A s \in SUBSET S : g[s] \in Nat /\ \A x \in s : g[s] = f[x] + g[s \ {x}]
  BY <1>1 DEF Peels
<1> DEFINE Bad == {s \in SUBSET U : T \subseteq s /\ ~(g[T] <= g[s])}
<1>3. ASSUME Bad # {} PROVE FALSE
  <2>1. PICK s \in Bad : \A x \in s : s \ {x} \notin Bad
    <3>1. Bad \in SUBSET (SUBSET U) /\ IsFiniteSet(U)
      BY FS_Subset
    <3> HIDE DEF Bad
    <3>2. QED
      BY <1>3, <3>1, SmallestSet
  <2>2. s # T
    BY <1>2, <2>1
  <2>3. PICK x \in s : x \notin T
    BY <2>1, <2>2
  <2>4. g[T] <= g[s \ {x}] /\ s \ {x} \in SUBSET S
    BY <2>1, <2>3
  <2>5. /\ g[s] = f[x] + g[s \ {x}] /\ f[x] \in Nat
        /\ g[s] \in Nat /\ g[s \ {x}] \in Nat /\ g[T] \in Nat
    BY <1>2, <2>1, <2>4
  <2>6. g[T] <= g[s]
    BY <2>4, <2>5
  <2>7. QED
    BY <2>1, <2>6
<1>4. T \in SUBSET S /\ g[T] <= g[U]
  BY <1>3
<1>5. QED
  BY <1>1, <1>2, <1>4

\* The sum of sums.
LEMMA SumOfSums ==
  ASSUME NEW S, IsFiniteSet(S), NEW f \in [S -> Nat], NEW h \in [S -> Nat]
  PROVE  SumOf([x \in S |-> f[x] + h[x]], S) = SumOf(f, S) + SumOf(h, S)
<1> DEFINE both == [x \in S |-> f[x] + h[x]]
<1>1. PICK g : SumOf(f, S) = g[S] /\ Sums(g, f, SUBSET S)
  BY SumIsComputed
<1>2. PICK k : SumOf(h, S) = k[S] /\ Sums(k, h, SUBSET S)
  BY SumIsComputed
<1>3. PICK b : SumOf(both, S) = b[S] /\ Sums(b, both, SUBSET S)
  BY SumIsComputed
<1>4. \A x \in S : both[x] = f[x] + h[x] /\ f[x] \in Nat /\ h[x] \in Nat
  OBVIOUS
<1> DEFINE Good(s) == g[s] \in Int /\ k[s] \in Int /\ b[s] = g[s] + k[s]
           Bad == {s \in SUBSET S : ~Good(s)}
<1> HIDE DEF both
<1>5. ASSUME Bad # {} PROVE FALSE
  <2>1. PICK s \in Bad : \A x \in s : s \ {x} \notin Bad
    <3>1. Bad \in SUBSET (SUBSET S)
      OBVIOUS
    <3> HIDE DEF Bad
    <3>2. QED
      BY <1>5, <3>1, SmallestSet
  <2>2. /\ g[s] = IF s = {} THEN 0 ELSE f[Pick(s)] + g[s \ {Pick(s)}]
        /\ k[s] = IF s = {} THEN 0 ELSE h[Pick(s)] + k[s \ {Pick(s)}]
        /\ b[s] = IF s = {} THEN 0 ELSE both[Pick(s)] + b[s \ {Pick(s)}]
    BY <1>1, <1>2, <1>3 DEF Sums
  <2>3. s # {} /\ Pick(s) \in s /\ Pick(s) \in S
    BY <2>1, <2>2 DEF Pick
  <2>4. Good(s \ {Pick(s)})
    BY <2>1, <2>3
  <2>5. Good(s)
    BY <1>4, <2>2, <2>3, <2>4
  <2>6. QED
    BY <2>1, <2>5
<1>6. Good(S)
  BY <1>5
<1>7. QED
  BY <1>1, <1>2, <1>3, <1>6 DEF both

=============================================================================
