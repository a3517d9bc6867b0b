------------------------------- MODULE Orders -------------------------------
(***************************************************************************)
(* Two things Python does with an order: max(...), and sorted(rows,        *)
(* key=...), which puts rows in the order of their keys and leaves rows    *)
(* with equal keys as they were.  The sorted list is written by place: the *)
(* k-th row is the one that has k rows up to it.                           *)
(***************************************************************************)
EXTENDS Integers, FiniteSets

Greatest(S) == CHOOSE x \in S : \A y \in S : x >= y

\* key[i] is the key of row i.
Before(key, i, j) == key[i] < key[j] \/ (key[i] = key[j] /\ i < j)

Place(key, i) == Cardinality({j \in DOMAIN key : ~Before(key, i, j)})

RowAt(key, k) == CHOOSE i \in DOMAIN key : Place(key, i) = k

SortedBy(rows, key) == [k \in DOMAIN rows |-> rows[RowAt(key, k)]]

=============================================================================
