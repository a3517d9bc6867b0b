---------------------- MODULE AdmissionController_proofs ----------------------
(***************************************************************************)
(* TLAPS proofs about AdmissionController, for every finite set of requests*)
(* and every limit: its invariants hold in every reachable state.  IInv is *)
(* inductive as it stands; each action gets one lemma.                     *)
(***************************************************************************)
EXTENDS AdmissionPool, FiniteSetTheorems, SequenceTheorems, TLAPS

Futures == {"none", "pending", "granted", "cancelled"}

\* The five invariants of the runs are inductive together.
IInv ==
  /\ TypeOK
  /\ DequeIsTheWaiters
  /\ SlotsConserved
  /\ CountersTellTheTruth
  /\ NoLostWakeup

------------------------------------------------------------------------------
(* Sets of requests. *)

\* Every set of requests is finite and has a natural cardinality.
LEMMA SetsOfRequests ==
  ASSUME NEW S \in SUBSET Requests
  PROVE  IsFiniteSet(S) /\ Cardinality(S) \in Nat
BY RequestsFinite, FS_Subset, FS_CardinalityType

\* When one call moves on, it joins its new state's set and leaves its old one;
\* the other sets stay.
LEMMA CallMoves ==
  ASSUME TypeOK, NEW r \in Requests, NEW a \in Calls, NEW s \in Calls \ {a},
         call[r] = a, call' = [call EXCEPT ![r] = s]
  PROVE  /\ call' \in [Requests -> Calls]
         /\ In(s)' = In(s) \cup {r} /\ r \notin In(s)
         /\ Cardinality(In(s)') = Cardinality(In(s)) + 1
         /\ In(a)' = In(a) \ {r} /\ r \in In(a)
         /\ Cardinality(In(a)') = Cardinality(In(a)) - 1
         /\ \A t \in Calls \ {s, a} : In(t)' = In(t)
<1>1. /\ In(s)' = In(s) \cup {r} /\ r \notin In(s)
      /\ In(a)' = In(a) \ {r} /\ r \in In(a)
      /\ \A t \in Calls \ {s, a} : In(t)' = In(t)
  BY DEF In, TypeOK
<1>2. IsFiniteSet(In(s)) /\ IsFiniteSet(In(a))
  BY SetsOfRequests DEF In
<1>3. Cardinality(In(s) \cup {r}) = Cardinality(In(s)) + 1
  BY <1>1, <1>2, FS_AddElement
<1>4. Cardinality(In(a) \ {r}) = Cardinality(In(a)) - 1
  BY <1>1, <1>2, FS_RemoveElement
<1>5. QED
  BY <1>1, <1>3, <1>4 DEF TypeOK

------------------------------------------------------------------------------
(* The deque, seen as a sequence without repetition. *)

\* A newcomer goes to the back; nobody is in the deque twice.
LEMMA AppendToDeque ==
  ASSUME NEW s \in Seq(Requests), NEW r \in Requests,
         \A i, j \in DOMAIN s : s[i] = s[j] => i = j,
         \A i \in DOMAIN s : s[i] # r
  PROVE  LET t == Append(s, r)
         IN  /\ t \in Seq(Requests)
             /\ \A i, j \in DOMAIN t : t[i] = t[j] => i = j
             /\ \A q \in Requests : (\E i \in DOMAIN t : t[i] = q)
                   <=> q = r \/ \E i \in DOMAIN s : s[i] = q
<1> DEFINE t == Append(s, r)
<1>1. t \in Seq(Requests) /\ Len(t) = Len(s) + 1 /\ t[Len(s) + 1] = r
  OBVIOUS
<1>2. \A i \in 1..Len(s) : t[i] = s[i]
  OBVIOUS
<1>3. DOMAIN s = 1..Len(s) /\ DOMAIN t = 1..Len(t) /\ Len(s) \in Nat
  BY <1>1
<1>4. \A i \in DOMAIN t : i \in DOMAIN s \/ i = Len(s) + 1
  BY <1>1, <1>3
<1> HIDE DEF t
<1>5. \A i, j \in DOMAIN t : t[i] = t[j] => i = j
  BY <1>1, <1>2, <1>3, <1>4
<1>6. \A q \in Requests : (\E i \in DOMAIN t : t[i] = q)
        <=> q = r \/ \E i \in DOMAIN s : s[i] = q
  BY <1>1, <1>2, <1>3, <1>4
<1>7. QED
  BY <1>1, <1>5, <1>6 DEF t

\* What is left of a sequence without its first k.
LEMMA TailIs ==
  ASSUME NEW X, NEW s, NEW n \in Nat, NEW k \in 0..n, \A i \in 1..n : s[i] \in X
  PROVE  /\ SubSeq(s, k + 1, n) \in Seq(X) /\ Len(SubSeq(s, k + 1, n)) = n - k
         /\ \A i \in 1..(n - k) : SubSeq(s, k + 1, n)[i] = s[k + i]
<1> DEFINE b == SubSeq(s, k + 1, n)
<1>1. k + 1 \in Int /\ n \in Int /\ \A i \in (k + 1)..n : s[i] \in X
  OBVIOUS
<1>2. /\ b \in Seq(X)
      /\ Len(b) = IF k + 1 <= n THEN n - (k + 1) + 1 ELSE 0
      /\ \A i \in 1..(n - (k + 1) + 1) : b[i] = s[(k + 1) + i - 1]
  BY <1>1, SubSeqProperties
<1> HIDE DEF b
<1>3. Len(b) = n - k /\ n - (k + 1) + 1 = n - k
  BY <1>2
<1>4. \A i \in 1..(n - k) : (k + 1) + i - 1 = k + i
  OBVIOUS
<1>5. \A i \in 1..(n - k) : b[i] = s[k + i]
  BY <1>2, <1>3, <1>4
<1>6. QED
  BY <1>2, <1>3, <1>5 DEF b

\* RemoveAt closes the gap.
LEMMA RemoveAtIs ==
  ASSUME NEW X, NEW s \in Seq(X), NEW k \in 1..Len(s)
  PROVE  LET t == RemoveAt(s, k)
         IN  /\ t \in Seq(X) /\ Len(t) = Len(s) - 1 /\ DOMAIN t = 1..(Len(s) - 1)
             /\ \A i \in 1..(Len(s) - 1) : t[i] = IF i < k THEN s[i] ELSE s[i + 1]
<1> DEFINE t == RemoveAt(s, k)
           a == SubSeq(s, 1, k - 1)
           b == SubSeq(s, k + 1, Len(s))
<1>1. Len(s) \in Nat /\ DOMAIN s = 1..Len(s) /\ \A i \in 1..Len(s) : s[i] \in X
  OBVIOUS
<1>2. /\ a \in Seq(X) /\ Len(a) = k - 1
      /\ \A i \in 1..(k - 1) : a[i] = s[i]
  BY <1>1, SubSeqProperties
<1>3. /\ b \in Seq(X) /\ Len(b) = Len(s) - k
      /\ \A i \in 1..(Len(s) - k) : b[i] = s[k + i]
  <2> DEFINE n == Len(s)
  <2>1. n \in Nat /\ k \in 0..n /\ \A i \in 1..n : s[i] \in X
    BY <1>1
  <2> HIDE DEF n
  <2>2. /\ SubSeq(s, k + 1, n) \in Seq(X) /\ Len(SubSeq(s, k + 1, n)) = n - k
        /\ \A i \in 1..(n - k) : SubSeq(s, k + 1, n)[i] = s[k + i]
    BY <2>1, TailIs
  <2>3. QED
    BY <2>2 DEF n
<1>4. t = a \o b
  BY DEF RemoveAt
<1> HIDE DEF a, b, t
<1>5. t \in Seq(X) /\ Len(t) = Len(s) - 1 /\ DOMAIN t = 1..(Len(s) - 1)
  <2>1. a \o b \in Seq(X) /\ Len(a \o b) = Len(a) + Len(b)
    BY <1>2, <1>3, ConcatProperties
  <2>2. (k - 1) + (Len(s) - k) = Len(s) - 1
    BY <1>1
  <2>3. t \in Seq(X) /\ Len(t) = Len(s) - 1
    BY <1>2, <1>3, <1>4, <2>1, <2>2
  <2>4. QED
    BY <2>3
<1>6. \A i \in 1..(Len(s) - 1) : t[i] = IF i < k THEN s[i] ELSE s[i + 1]
  <2> TAKE i \in 1..(Len(s) - 1)
  <2>1. i \in 1..(Len(a) + Len(b))
    BY <1>1, <1>2, <1>3
  <2>2. t[i] = IF i <= Len(a) THEN a[i] ELSE b[i - Len(a)]
    <3>1. \A j \in 1..(Len(a) + Len(b)) :
            (a \o b)[j] = IF j <= Len(a) THEN a[j] ELSE b[j - Len(a)]
      BY <1>2, <1>3, ConcatProperties, SMTT(60)
    <3>2. QED
      BY <1>4, <2>1, <3>1
  <2>3. CASE i < k
    BY <1>1, <1>2, <2>2, <2>3
  <2>4. CASE i >= k
    <3>1. i - (k - 1) \in 1..(Len(s) - k) /\ ~(i <= k - 1)
      BY <1>1, <2>4
    <3>2. b[i - (k - 1)] = s[k + (i - (k - 1))] /\ k + (i - (k - 1)) = i + 1
      BY <1>1, <1>3, <3>1
    <3>3. QED
      BY <1>1, <1>2, <2>2, <2>4, <3>1, <3>2
  <2>5. QED
    BY <1>1, <2>3, <2>4
<1>7. QED
  BY <1>5, <1>6 DEF t

\* Leaving the deque from anywhere takes out one request and no other.
LEMMA RemoveFromDeque ==
  ASSUME NEW s \in Seq(Requests), NEW k \in DOMAIN s,
         \A i, j \in DOMAIN s : s[i] = s[j] => i = j
  PROVE  LET t == RemoveAt(s, k)
         IN  /\ t \in Seq(Requests)
             /\ \A i, j \in DOMAIN t : t[i] = t[j] => i = j
             /\ \A q \in Requests : (\E i \in DOMAIN t : t[i] = q)
                   <=> q # s[k] /\ \E i \in DOMAIN s : s[i] = q
<1> DEFINE t == RemoveAt(s, k)
<1>1. /\ s \in Seq(Requests) /\ k \in 1..Len(s)
      /\ Len(s) \in Nat /\ DOMAIN s = 1..Len(s)
  OBVIOUS
<1>2. /\ t \in Seq(Requests) /\ Len(t) = Len(s) - 1 /\ DOMAIN t = 1..(Len(s) - 1)
      /\ \A i \in 1..(Len(s) - 1) : t[i] = IF i < k THEN s[i] ELSE s[i + 1]
  <2>1. s \in Seq(Requests) /\ k \in 1..Len(s)
    BY <1>1
  <2>2. QED
    BY <2>1, RemoveAtIs, Zenon
<1> HIDE DEF t
<1>3. ASSUME NEW i \in DOMAIN t, NEW j \in DOMAIN t, t[i] = t[j]
      PROVE  i = j
  <2> DEFINE from(n) == IF n < k THEN n ELSE n + 1
  <2>1. from(i) \in DOMAIN s /\ from(j) \in DOMAIN s
    BY <1>1, <1>2
  <2>2. s[from(i)] = t[i] /\ s[from(j)] = t[j]
    BY <1>2
  <2>3. from(i) = from(j)
    BY <1>3, <2>1, <2>2
  <2>4. QED
    BY <1>1, <1>2, <2>3
<1>4. ASSUME NEW q \in Requests, NEW i \in DOMAIN t, t[i] = q
      PROVE  q # s[k] /\ \E j \in DOMAIN s : s[j] = q
  <2> DEFINE j == IF i < k THEN i ELSE i + 1
  <2>1. j \in DOMAIN s /\ j # k
    BY <1>1, <1>2
  <2>2. s[j] = q
    BY <1>2, <1>4
  <2>3. QED
    BY <1>1, <2>1, <2>2
<1>5. ASSUME NEW q \in Requests, q # s[k], NEW j \in DOMAIN s, s[j] = q
      PROVE  \E i \in DOMAIN t : t[i] = q
  <2>1. CASE j < k
    BY <1>1, <1>2, <1>5, <2>1
  <2>2. CASE j > k
    <3>1. j - 1 \in DOMAIN t /\ t[j - 1] = q
      BY <1>1, <1>2, <1>5, <2>2
    <3>2. QED
      BY <3>1
  <2>3. QED
    BY <1>1, <1>5, <2>1, <2>2
<1>6. QED
  BY <1>2, <1>3, <1>4, <1>5 DEF t

------------------------------------------------------------------------------
(* The wake-up, seen as a step on value and fut alone. *)

\* Waking moves units of the value to granted futures, one for one, and leaves
\* no future pending unless it spent all n wake-ups.
LEMMA WakeMovesUnits ==
  ASSUME TypeOK, NEW v \in Nat, NEW n \in Nat, n <= v,
         NEW f \in [Requests -> Futures],
         \A r \in Requests : fut[r] = "pending" <=> f[r] = "pending",
         Wake(v, n, f)
  PROVE  /\ value' \in Nat /\ value' <= v /\ v - value' <= n
         /\ fut' \in [Requests -> Futures]
         /\ value' + Cardinality(Granted')
              = v + Cardinality({r \in Requests : f[r] = "granted"})
         /\ \A r \in Requests : fut'[r] = "none" <=> f[r] = "none"
         /\ \A r \in Requests :
              IF f[r] = "pending" THEN fut'[r] \in {"pending", "granted"}
                                  ELSE fut'[r] = f[r]
         /\ v - value' < n => Pending' = {}
         /\ value' < v => \E r \in Requests : fut[r] = "pending" /\ fut'[r] = "granted"
<1> DEFINE G == {r \in Requests : f[r] = "granted"}
<1>1. PICK W \in SUBSET Pending :
        /\ Cardinality(W) <= n
        /\ Cardinality(W) < n => W = Pending
        /\ value' = v - Cardinality(W)
        /\ fut' = [r \in Requests |-> IF r \in W THEN "granted" ELSE f[r]]
  BY DEF Wake
<1>2. W \subseteq Requests /\ IsFiniteSet(W) /\ Cardinality(W) \in Nat
  BY <1>1, SetsOfRequests DEF Pending
<1>3. IsFiniteSet(G) /\ Cardinality(G) \in Nat
  BY SetsOfRequests
<1>4. Granted' = G \cup W /\ G \cap W = {}
  BY <1>1 DEF Granted, Pending
<1>5. Cardinality(Granted') = Cardinality(G) + Cardinality(W)
  <2>1. Cardinality(G \cup W)
          = Cardinality(G) + Cardinality(W) - Cardinality(G \cap W)
    BY <1>2, <1>3, FS_Union
  <2>2. Cardinality({}) = 0
    BY FS_EmptySet
  <2>3. QED
    BY <1>2, <1>3, <1>4, <2>1, <2>2
<1>6. value' \in Nat /\ value' <= v /\ v - value' = Cardinality(W)
  BY <1>1, <1>2
<1>7. fut' \in [Requests -> Futures]
  BY <1>1 DEF Futures
<1>8. v - value' < n => Pending' = {}
  BY <1>1, <1>6 DEF Pending
<1>9. ASSUME value' < v
      PROVE  \E r \in Requests : fut[r] = "pending" /\ fut'[r] = "granted"
  <2>1. W # {}
    BY <1>6, <1>9, FS_EmptySet
  <2>2. QED
    BY <1>1, <2>1 DEF Pending
<1>10. value' + Cardinality(Granted') = v + Cardinality(G)
  BY <1>1, <1>2, <1>3, <1>5
<1>11. /\ \A r \in Requests : fut'[r] = "none" <=> f[r] = "none"
       /\ \A r \in Requests :
            IF f[r] = "pending" THEN fut'[r] \in {"pending", "granted"}
                                ELSE fut'[r] = f[r]
  BY <1>1 DEF Pending
<1>12. v - value' <= n
  BY <1>1, <1>6
<1>13. QED
  BY <1>6, <1>7, <1>8, <1>9, <1>10, <1>11, <1>12

------------------------------------------------------------------------------
(* The actions, one lemma each. *)

LEMMA InitEstablishesIInv == Init => IInv
<1> SUFFICES ASSUME Init PROVE IInv
  OBVIOUS
<1>1. TypeOK
  BY LimitsPositive DEF Init, TypeOK, Calls
<1>2. DequeIsTheWaiters
  BY DEF Init, DequeIsTheWaiters, FuturesMatchCalls
<1>3. /\ Granted = {} /\ Pending = {}
      /\ \A s \in Calls \ {"idle"} : In(s) = {}
  BY DEF Init, Granted, Pending, In
<1>4. /\ Cardinality(Granted) = 0
      /\ \A s \in Calls \ {"idle"} : Cardinality(In(s)) = 0
  BY <1>3, FS_EmptySet
<1>5. value = capacity /\ in_flight = 0 /\ value \in Nat
  BY <1>1 DEF Init, TypeOK
<1>6. SlotsConserved
  BY <1>4, <1>5 DEF SlotsConserved, Calls
<1>7. CountersTellTheTruth
  BY <1>4 DEF Init, CountersTellTheTruth, Calls
<1>8. NoLostWakeup
  BY <1>3 DEF NoLostWakeup
<1>9. QED
  BY <1>1, <1>2, <1>6, <1>7, <1>8 DEF IInv

LEMMA AcquireFreePreservesIInv ==
  ASSUME IInv, NEW r \in Requests, AcquireFree(r)
  PROVE  IInv'
<1> USE DEF IInv
<1>1. value > 0 /\ Pending = {}
  BY DEF AcquireFree, locked, TypeOK
<1>2. TypeOK'
  BY <1>1 DEF AcquireFree, TypeOK, Calls, settings
<1>3. DequeIsTheWaiters'
  BY DEF AcquireFree, DequeIsTheWaiters, FuturesMatchCalls, TypeOK
<1>4. Granted' = Granted /\ Pending' = Pending
  BY DEF AcquireFree, Granted, Pending
<1>5. /\ Cardinality(In("holding")') = Cardinality(In("holding")) + 1
      /\ \A s \in {"waiting", "returned", "refused"} : In(s)' = In(s)
  <2>1. call[r] = "idle" /\ call' = [call EXCEPT ![r] = "holding"]
    BY DEF AcquireFree
  <2>2. "idle" \in Calls /\ "holding" \in Calls \ {"idle"}
    BY DEF Calls
  <2>3. QED
    BY <2>1, <2>2, CallMoves DEF Calls, In
<1>6. /\ Cardinality(Granted) \in Nat
      /\ \A s \in Calls : Cardinality(In(s)) \in Nat
  BY SetsOfRequests DEF Granted, In
<1>7. SlotsConserved'
  BY <1>4, <1>5, <1>6 DEF AcquireFree, SlotsConserved, TypeOK, settings
<1>8. CountersTellTheTruth'
  BY <1>5, <1>6 DEF AcquireFree, CountersTellTheTruth, Calls
<1>9. NoLostWakeup'
  BY <1>1, <1>4 DEF NoLostWakeup
<1>10. QED
  BY <1>2, <1>3, <1>7, <1>8, <1>9

LEMMA AcquireRefusedPreservesIInv ==
  ASSUME IInv, NEW r \in Requests, AcquireRefused(r)
  PROVE  IInv'
<1> USE DEF IInv
<1>1. TypeOK'
  BY DEF AcquireRefused, TypeOK, Calls, settings, semaphore
<1>2. DequeIsTheWaiters'
  BY DEF AcquireRefused, DequeIsTheWaiters, FuturesMatchCalls, TypeOK, semaphore
<1>3. Granted' = Granted /\ Pending' = Pending
  BY DEF AcquireRefused, Granted, Pending, semaphore
<1>4. /\ Cardinality(In("refused")') = Cardinality(In("refused")) + 1
      /\ \A s \in {"waiting", "returned", "holding"} : In(s)' = In(s)
  <2>1. call[r] = "idle" /\ call' = [call EXCEPT ![r] = "refused"]
    BY DEF AcquireRefused
  <2>2. "idle" \in Calls /\ "refused" \in Calls \ {"idle"}
    BY DEF Calls
  <2>3. QED
    BY <2>1, <2>2, CallMoves DEF Calls, In
<1>5. SlotsConserved'
  BY <1>3, <1>4 DEF AcquireRefused, SlotsConserved, settings, semaphore
<1>6. CountersTellTheTruth'
  BY <1>4 DEF AcquireRefused, CountersTellTheTruth
<1>7. NoLostWakeup'
  BY <1>3, <1>4 DEF AcquireRefused, NoLostWakeup, semaphore
<1>8. QED
  BY <1>1, <1>2, <1>5, <1>6, <1>7

LEMMA AcquireQueuedPreservesIInv ==
  ASSUME IInv, NEW r \in Requests, AcquireQueued(r)
  PROVE  IInv'
<1> USE DEF IInv
<1>1. /\ fut[r] = "none" /\ interrupt[r] = "none"
      /\ \A i \in DOMAIN waiters : waiters[i] # r
  BY DEF AcquireQueued, DequeIsTheWaiters, FuturesMatchCalls
<1>2. /\ waiters' \in Seq(Requests)
      /\ \A i, j \in DOMAIN waiters' : waiters'[i] = waiters'[j] => i = j
      /\ \A q \in Requests : (\E i \in DOMAIN waiters' : waiters'[i] = q)
           <=> q = r \/ \E i \in DOMAIN waiters : waiters[i] = q
  BY <1>1, AppendToDeque DEF AcquireQueued, DequeIsTheWaiters, TypeOK
<1>3. TypeOK'
  BY <1>2 DEF AcquireQueued, TypeOK, Calls, settings
<1>4. FuturesMatchCalls'
  BY <1>1 DEF AcquireQueued, DequeIsTheWaiters, FuturesMatchCalls, TypeOK
<1>5. DequeIsTheWaiters'
  <2>1. \A q \in Requests :
          (\E i \in DOMAIN waiters' : waiters'[i] = q) <=> call'[q] = "waiting"
    <3>1. \A q \in Requests : call'[q] = "waiting" <=> q = r \/ call[q] = "waiting"
      BY DEF AcquireQueued, TypeOK
    <3>2. QED
      BY <1>2, <3>1 DEF DequeIsTheWaiters
  <2>2. QED
    BY <1>2, <1>4, <2>1 DEF DequeIsTheWaiters
<1>6. Granted' = Granted
  BY <1>1 DEF AcquireQueued, Granted, TypeOK
<1>7. /\ Cardinality(In("waiting")') = Cardinality(In("waiting")) + 1
      /\ In("waiting")' = In("waiting") \cup {r}
      /\ \A s \in {"holding", "returned", "refused"} : In(s)' = In(s)
  <2>1. call[r] = "idle" /\ call' = [call EXCEPT ![r] = "waiting"]
    BY DEF AcquireQueued
  <2>2. "idle" \in Calls /\ "waiting" \in Calls \ {"idle"}
    BY DEF Calls
  <2>3. QED
    BY <2>1, <2>2, CallMoves DEF Calls, In
<1>8. SlotsConserved'
  BY <1>6, <1>7 DEF AcquireQueued, SlotsConserved, settings
<1>9. CountersTellTheTruth'
  BY <1>7 DEF AcquireQueued, CountersTellTheTruth
<1>10. NoLostWakeup'
  \* The newcomer found the semaphore locked: either no value is left, or a
  \* waiter due to run is ahead of it.
  <2>1. SUFFICES ASSUME value > 0
                 PROVE  \E q \in In("waiting") : fut[q] # "pending"
    BY <1>7 DEF AcquireQueued, NoLostWakeup, In, TypeOK
  <2>2. Pending # {} \/ Granted # {}
    BY <2>1 DEF AcquireQueued, locked
  <2>3. CASE Pending # {}
    BY <2>1, <2>3 DEF NoLostWakeup
  <2>4. CASE Granted # {}
    BY <2>4 DEF Granted, DequeIsTheWaiters, FuturesMatchCalls, In
  <2>5. QED
    BY <2>2, <2>3, <2>4
<1>11. QED
  BY <1>3, <1>5, <1>8, <1>9, <1>10

LEMMA InterruptPreservesIInv ==
  ASSUME IInv, NEW r \in Requests, TimerFires(r) \/ CancelWaiter(r)
  PROVE  IInv'
<1> USE DEF IInv
<1>1. PICK cause \in {"timeout", "cancel"} :
        call[r] = "waiting" /\ Interrupt(r, cause)
  BY DEF TimerFires, CancelWaiter
<1>2. UNCHANGED <<capacity, may_queue, value, waiters, call, counters>>
  BY <1>1 DEF Interrupt, settings
<1>3. TypeOK'
  BY <1>1, <1>2 DEF Interrupt, TypeOK, counters
<1>4. DequeIsTheWaiters'
  <2>1. FuturesMatchCalls'
    BY <1>1, <1>2 DEF Interrupt, DequeIsTheWaiters, FuturesMatchCalls, TypeOK
  <2>2. QED
    BY <1>2, <2>1 DEF DequeIsTheWaiters
<1>5. Granted' = Granted /\ Pending' \subseteq Pending
  BY <1>1 DEF Interrupt, Granted, Pending, TypeOK
<1>6. \A s \in Calls : In(s)' = In(s)
  BY <1>2 DEF In
<1>7. SlotsConserved'
  BY <1>2, <1>5, <1>6 DEF SlotsConserved, counters, Calls
<1>8. CountersTellTheTruth'
  BY <1>2, <1>6 DEF CountersTellTheTruth, counters, Calls
<1>9. NoLostWakeup'
  BY <1>1, <1>2 DEF Interrupt, NoLostWakeup, In, TypeOK
<1>10. QED
  BY <1>3, <1>4, <1>7, <1>8, <1>9

\* Leaving the deque takes r out, wakes as many waiters as v allows, and keeps
\* the account of the units: what r had been granted is for the caller to place.
LEMMA LeavingDeque ==
  ASSUME IInv, NEW r \in Requests, NEW v \in Nat, NEW s \in Calls \ {"waiting"},
         call[r] = "waiting", fut[r] # "pending",
         LeaveDeque(r, v),
         call' = [call EXCEPT ![r] = s],
         interrupt' = [interrupt EXCEPT ![r] = "none"]
  PROVE  /\ waiters' \in Seq(Requests)
         /\ value' \in Nat /\ fut' \in [Requests -> Futures]
         /\ interrupt' \in [Requests -> {"none", "timeout", "cancel"}]
         /\ waiting' \in Nat /\ waiting' = Cardinality(In("waiting")')
         /\ value' + Cardinality(Granted')
              = v + (IF fut[r] = "granted" THEN Cardinality(Granted) - 1
                                           ELSE Cardinality(Granted))
         /\ DequeIsTheWaiters'
         /\ NoLostWakeup'
<1> USE DEF IInv
<1> DEFINE f == [fut EXCEPT ![r] = "none"]
<1>1. PICK k \in DOMAIN waiters : waiters[k] = r /\ waiters' = RemoveAt(waiters, k)
  BY DEF LeaveDeque
<1>2. /\ waiters' \in Seq(Requests)
      /\ \A i, j \in DOMAIN waiters' : waiters'[i] = waiters'[j] => i = j
      /\ \A q \in Requests : (\E i \in DOMAIN waiters' : waiters'[i] = q)
           <=> q # r /\ \E i \in DOMAIN waiters : waiters[i] = q
  <2>1. waiters \in Seq(Requests)
    BY DEF TypeOK
  <2>2. \A i, j \in DOMAIN waiters : waiters[i] = waiters[j] => i = j
    BY DEF DequeIsTheWaiters
  <2> DEFINE t == RemoveAt(waiters, k)
  <2>3. /\ t \in Seq(Requests)
        /\ \A i, j \in DOMAIN t : t[i] = t[j] => i = j
        /\ \A q \in Requests : (\E i \in DOMAIN t : t[i] = q)
             <=> q # waiters[k] /\ \E i \in DOMAIN waiters : waiters[i] = q
    BY <2>1, <2>2, RemoveFromDeque
  <2>4. waiters' = t /\ waiters[k] = r
    BY <1>1
  <2> HIDE DEF t
  <2>5. QED
    BY <2>3, <2>4
<1>3. /\ f \in [Requests -> Futures]
      /\ \A q \in Requests : fut[q] = "pending" <=> f[q] = "pending"
      /\ \A q \in Requests : f[q] = IF q = r THEN "none" ELSE fut[q]
  BY DEF TypeOK, Futures
<1>4. Wake(v, v, f)
  BY DEF LeaveDeque
<1> HIDE DEF f
<1>5. /\ value' \in Nat /\ value' <= v
      /\ fut' \in [Requests -> Futures]
      /\ value' + Cardinality(Granted')
           = v + Cardinality({q \in Requests : f[q] = "granted"})
      /\ \A q \in Requests : fut'[q] = "none" <=> f[q] = "none"
      /\ \A q \in Requests :
           IF f[q] = "pending" THEN fut'[q] \in {"pending", "granted"}
                               ELSE fut'[q] = f[q]
      /\ v - value' < v => Pending' = {}
  <2>1. /\ v <= v
        /\ \A q \in Requests : fut[q] = "pending" <=> f[q] = "pending"
    BY <1>3
  <2>2. TypeOK
    OBVIOUS
  <2> HIDE DEF IInv
  <2>3. QED
    BY <1>3, <1>4, <2>1, <2>2, WakeMovesUnits, ZenonT(120)
<1>6. /\ Cardinality(In("waiting")') = Cardinality(In("waiting")) - 1
      /\ r \in In("waiting")
  <2>1. "waiting" \in Calls
    BY DEF Calls
  <2>2. QED
    BY <2>1, CallMoves DEF Calls, In
<1>7. waiting' \in Nat /\ waiting' = Cardinality(In("waiting")')
  <2>1. Cardinality(In("waiting")) \in Nat /\ IsFiniteSet(In("waiting"))
    BY SetsOfRequests DEF In
  <2>2. Cardinality(In("waiting")) # 0
    BY <1>6, <2>1, FS_EmptySet
  <2>3. waiting' = Cardinality(In("waiting")) - 1
    BY DEF LeaveDeque, CountersTellTheTruth
  <2>4. QED
    BY <1>6, <2>1, <2>2, <2>3
<1>8. Cardinality({q \in Requests : f[q] = "granted"})
        = IF fut[r] = "granted" THEN Cardinality(Granted) - 1
                                ELSE Cardinality(Granted)
  <2>1. {q \in Requests : f[q] = "granted"} = Granted \ {r}
    BY <1>3 DEF Granted
  <2>2. IsFiniteSet(Granted)
    BY SetsOfRequests DEF Granted
  <2>3. r \in Granted <=> fut[r] = "granted"
    BY DEF Granted
  <2>4. QED
    BY <2>1, <2>2, <2>3, FS_RemoveElement
<1>9. DequeIsTheWaiters'
  <2>1. \A q \in Requests : call'[q] = "waiting"
          <=> q # r /\ call[q] = "waiting"
    BY DEF TypeOK
  <2>2. \A q \in Requests : call'[q] = "waiting"
          <=> \E i \in DOMAIN waiters' : waiters'[i] = q
    BY <1>2, <2>1 DEF DequeIsTheWaiters
  <2>3. FuturesMatchCalls'
    <3>1. \A q \in Requests :
            interrupt'[q] = IF q = r THEN "none" ELSE interrupt[q]
      BY DEF TypeOK
    <3>2. QED
      BY <1>3, <1>5, <2>1, <3>1 DEF DequeIsTheWaiters, FuturesMatchCalls
  <2>4. QED
    BY <1>2, <2>2, <2>3 DEF DequeIsTheWaiters
<1>10. NoLostWakeup'
  BY <1>5 DEF NoLostWakeup
<1>11. interrupt' \in [Requests -> {"none", "timeout", "cancel"}]
  BY DEF TypeOK
<1>12. QED
  BY <1>2, <1>5, <1>6, <1>7, <1>8, <1>9, <1>10, <1>11

LEMMA ResumeAdmittedPreservesIInv ==
  ASSUME IInv, NEW r \in Requests, ResumeAdmitted(r)
  PROVE  IInv'
<1> USE DEF IInv
<1>1. /\ call[r] = "waiting" /\ fut[r] = "granted"
      /\ call' = [call EXCEPT ![r] = "holding"]
      /\ value \in Nat /\ "holding" \in Calls \ {"waiting"}
      /\ LeaveDeque(r, value)
      /\ interrupt' = [interrupt EXCEPT ![r] = "none"]
  BY DEF ResumeAdmitted, TypeOK, Calls
<1>2. /\ waiters' \in Seq(Requests)
      /\ value' \in Nat /\ fut' \in [Requests -> Futures]
      /\ interrupt' \in [Requests -> {"none", "timeout", "cancel"}]
      /\ waiting' \in Nat /\ waiting' = Cardinality(In("waiting")')
      /\ value' + Cardinality(Granted')
           = value + (IF fut[r] = "granted" THEN Cardinality(Granted) - 1
                                            ELSE Cardinality(Granted))
      /\ DequeIsTheWaiters'
      /\ NoLostWakeup'
  BY <1>1, LeavingDeque
<1>3. /\ call' \in [Requests -> Calls]
      /\ Cardinality(In("holding")') = Cardinality(In("holding")) + 1
      /\ In("returned")' = In("returned") /\ In("refused")' = In("refused")
  BY <1>1, "waiting" \in Calls, CallMoves DEF Calls, In
<1>4. TypeOK'
  BY <1>2, <1>3 DEF ResumeAdmitted, TypeOK, settings, Futures
<1>5. /\ Cardinality(Granted) \in Nat /\ Cardinality(Granted') \in Nat
      /\ Cardinality(In("holding")) \in Nat /\ Cardinality(In("returned")) \in Nat
  <2>1. Granted' \in SUBSET Requests
    BY DEF Granted
  <2>2. QED
    BY <2>1, SetsOfRequests DEF Granted, In
<1>6. SlotsConserved'
  BY <1>1, <1>2, <1>3, <1>4, <1>5, SMTT(60)
     DEF ResumeAdmitted, SlotsConserved, TypeOK, settings
<1>7. CountersTellTheTruth'
  BY <1>2, <1>3, <1>5 DEF ResumeAdmitted, CountersTellTheTruth
<1>8. QED
  BY <1>2, <1>4, <1>6, <1>7

LEMMA ResumeInterruptedPreservesIInv ==
  ASSUME IInv, NEW r \in Requests, ResumeInterrupted(r)
  PROVE  IInv'
<1> USE DEF IInv
<1> DEFINE v == IF fut[r] = "granted" THEN value + 1 ELSE value
<1>1. PICK s \in {"refused", "cancelled"} :
        /\ call' = [call EXCEPT ![r] = s]
        /\ rejected_total' = IF s = "refused" THEN rejected_total + 1
                                              ELSE rejected_total
  BY DEF ResumeInterrupted
<1>2. /\ call[r] = "waiting" /\ fut[r] # "pending"
      /\ v \in Nat /\ s \in Calls \ {"waiting"}
      /\ LeaveDeque(r, v)
      /\ interrupt' = [interrupt EXCEPT ![r] = "none"]
  BY DEF ResumeInterrupted, TypeOK, Calls, DequeIsTheWaiters, FuturesMatchCalls
<1>3. /\ waiters' \in Seq(Requests)
      /\ value' \in Nat /\ fut' \in [Requests -> Futures]
      /\ interrupt' \in [Requests -> {"none", "timeout", "cancel"}]
      /\ waiting' \in Nat /\ waiting' = Cardinality(In("waiting")')
      /\ value' + Cardinality(Granted')
           = v + (IF fut[r] = "granted" THEN Cardinality(Granted) - 1
                                        ELSE Cardinality(Granted))
      /\ DequeIsTheWaiters'
      /\ NoLostWakeup'
  <2> HIDE DEF v
  <2>1. QED
    BY <1>1, <1>2, LeavingDeque
<1>4. /\ call' \in [Requests -> Calls]
      /\ Cardinality(In(s)') = Cardinality(In(s)) + 1
      /\ \A t \in Calls \ {s, "waiting"} : In(t)' = In(t)
  BY <1>1, <1>2, "waiting" \in Calls, CallMoves DEF Calls, In
<1>5. TypeOK'
  BY <1>1, <1>3, <1>4 DEF ResumeInterrupted, TypeOK, settings, Futures
<1>6. /\ Cardinality(Granted) \in Nat /\ Cardinality(Granted') \in Nat
      /\ \A t \in Calls : Cardinality(In(t)) \in Nat
  <2>1. Granted' \in SUBSET Requests
    BY DEF Granted
  <2>2. QED
    BY <2>1, SetsOfRequests DEF Granted, In
<1>7. SlotsConserved'
  <2>1. In("holding")' = In("holding")
    BY <1>1, <1>4 DEF Calls, In
  <2>2. value' + Cardinality(Granted') = value + Cardinality(Granted)
    BY <1>3, <1>6 DEF TypeOK
  <2>3. QED
    BY <2>1, <2>2 DEF ResumeInterrupted, SlotsConserved, settings
<1>8. CountersTellTheTruth'
  <2>1. In("holding")' = In("holding") /\ In("returned")' = In("returned")
    BY <1>1, <1>4 DEF Calls, In
  <2>2. rejected_total' = Cardinality(In("refused")')
    <3>1. CASE s = "refused"
      BY <1>1, <1>4, <3>1 DEF CountersTellTheTruth
    <3>2. CASE s = "cancelled"
      BY <1>1, <1>4, <3>2 DEF CountersTellTheTruth, Calls, In
    <3>3. QED
      BY <3>1, <3>2
  <2>3. QED
    BY <1>3, <2>1, <2>2 DEF ResumeInterrupted, CountersTellTheTruth
<1>9. QED
  BY <1>3, <1>5, <1>7, <1>8

\* What Wake leaves is the value it was given, or less.
LEMMA NothingSpent ==
  ASSUME NEW v \in Nat, NEW w \in Nat, ~(w < v + 1)
  PROVE  (v + 1) - w < 1
  OBVIOUS

LEMMA ReleasePreservesIInv ==
  ASSUME IInv, NEW r \in Requests, Release(r)
  PROVE  IInv'
<1> USE DEF IInv
<1>1. /\ call[r] = "holding" /\ call' = [call EXCEPT ![r] = "returned"]
      /\ "holding" \in Calls /\ "returned" \in Calls \ {"holding"}
  BY DEF Release, Calls
<1>2. /\ call' \in [Requests -> Calls]
      /\ Cardinality(In("returned")') = Cardinality(In("returned")) + 1
      /\ Cardinality(In("holding")') = Cardinality(In("holding")) - 1
      /\ In("waiting")' = In("waiting") /\ In("refused")' = In("refused")
      /\ r \in In("holding")
  BY <1>1, CallMoves DEF Calls, In
<1>3. /\ Cardinality(Granted) \in Nat /\ Cardinality(Granted') \in Nat
      /\ Cardinality(In("holding")) \in Nat /\ Cardinality(In("returned")) \in Nat
  <2>1. Granted' \in SUBSET Requests
    BY DEF Granted
  <2>2. QED
    BY <2>1, SetsOfRequests DEF Granted, In
<1>4. in_flight \in Nat /\ in_flight >= 1
  \* A request that holds a slot is counted, so release() does not return early.
  <2>1. IsFiniteSet(In("holding"))
    BY SetsOfRequests DEF In
  <2>2. Cardinality(In("holding")) # 0
    BY <1>2, <2>1, FS_EmptySet
  <2>3. QED
    BY <1>3, <2>2 DEF SlotsConserved
<1>5. in_flight' = in_flight - 1 /\ Wake(value + 1, 1, fut)
  BY <1>4 DEF Release, ReleaseCalls
<1>6. /\ value' \in Nat /\ fut' \in [Requests -> Futures]
      /\ value' + Cardinality(Granted')
           = (value + 1) + Cardinality({q \in Requests : fut[q] = "granted"})
      /\ \A q \in Requests : fut'[q] = "none" <=> fut[q] = "none"
      /\ \A q \in Requests :
           IF fut[q] = "pending" THEN fut'[q] \in {"pending", "granted"}
                                 ELSE fut'[q] = fut[q]
      /\ (value + 1) - value' < 1 => Pending' = {}
      /\ value' < value + 1
           => \E q \in Requests : fut[q] = "pending" /\ fut'[q] = "granted"
  <2>1. /\ value + 1 \in Nat /\ 1 <= value + 1
        /\ fut \in [Requests -> Futures]
    BY DEF TypeOK, Futures
  <2>2. QED
    BY <1>5, <2>1, WakeMovesUnits
<1>7. value' + Cardinality(Granted') = value + 1 + Cardinality(Granted)
  BY <1>6 DEF Granted
<1>8. TypeOK'
  BY <1>2, <1>4, <1>5, <1>6 DEF Release, TypeOK, settings, Futures
<1>9. DequeIsTheWaiters'
  <2>1. \A q \in Requests : call'[q] = "waiting" <=> call[q] = "waiting"
    BY <1>1 DEF TypeOK
  <2>2. FuturesMatchCalls'
    BY <1>6, <2>1 DEF Release, DequeIsTheWaiters, FuturesMatchCalls
  <2>3. QED
    BY <2>1, <2>2 DEF Release, DequeIsTheWaiters
<1>10. SlotsConserved'
  BY <1>2, <1>3, <1>4, <1>5, <1>7, <1>8 DEF Release, SlotsConserved, TypeOK, settings
<1>11. CountersTellTheTruth'
  BY <1>2, <1>3 DEF Release, CountersTellTheTruth
<1>12. NoLostWakeup'
  \* Either nobody was pending, or the one woken is now due to run.
  <2>1. CASE value' < value + 1
    <3>1. PICK q \in Requests : fut[q] = "pending" /\ fut'[q] = "granted"
      BY <1>6, <2>1
    <3>2. call[q] = "waiting"
      BY <3>1 DEF DequeIsTheWaiters, FuturesMatchCalls
    <3>3. call'[q] = "waiting"
      BY <1>1, <3>2 DEF TypeOK
    <3>4. QED
      BY <3>1, <3>3 DEF NoLostWakeup, In
  <2>2. CASE ~(value' < value + 1)
    <3>1. value \in Nat /\ value' \in Nat
      BY <1>6 DEF TypeOK
    <3>2. (value + 1) - value' < 1
      BY <2>2, <3>1, NothingSpent
    <3>3. Pending' = {}
      BY <1>6, <3>2
    <3>4. QED
      BY <3>3 DEF NoLostWakeup
  <2>3. QED
    BY <1>6, <2>1, <2>2 DEF TypeOK
<1>13. QED
  BY <1>8, <1>9, <1>10, <1>11, <1>12

------------------------------------------------------------------------------
(* The theorems. *)

LEMMA NextPreservesIInv == IInv /\ [Next]_vars => IInv'
<1> SUFFICES ASSUME IInv, [Next]_vars PROVE IInv'
  OBVIOUS
<1>1. CASE UNCHANGED vars
  BY <1>1 DEF vars, settings, semaphore, counters, IInv, TypeOK, DequeIsTheWaiters,
     FuturesMatchCalls, SlotsConserved, CountersTellTheTruth, NoLostWakeup,
     Granted, Pending, In
<1>2. ASSUME NEW r \in Requests, AcquireFree(r) PROVE IInv'
  BY <1>2, AcquireFreePreservesIInv
<1>3. ASSUME NEW r \in Requests, AcquireRefused(r) PROVE IInv'
  BY <1>3, AcquireRefusedPreservesIInv
<1>4. ASSUME NEW r \in Requests, AcquireQueued(r) PROVE IInv'
  BY <1>4, AcquireQueuedPreservesIInv
<1>5. ASSUME NEW r \in Requests, TimerFires(r) \/ CancelWaiter(r) PROVE IInv'
  BY <1>5, InterruptPreservesIInv
<1>6. ASSUME NEW r \in Requests, ResumeAdmitted(r) PROVE IInv'
  BY <1>6, ResumeAdmittedPreservesIInv
<1>7. ASSUME NEW r \in Requests, ResumeInterrupted(r) PROVE IInv'
  BY <1>7, ResumeInterruptedPreservesIInv
<1>8. ASSUME NEW r \in Requests, Release(r) PROVE IInv'
  BY <1>8, ReleasePreservesIInv
<1>9. QED
  BY <1>1, <1>2, <1>3, <1>4, <1>5, <1>6, <1>7, <1>8 DEF Next, Finished

\* The invariants of the runs hold together in every reachable state.
THEOREM AdmissionInvariant == Spec => []IInv
<1>1. Init => IInv
  BY InitEstablishesIInv
<1>2. IInv /\ [Next]_vars => IInv'
  BY NextPreservesIInv
<1>3. QED
  BY <1>1, <1>2, PTL DEF Spec

\* Every variable keeps its type: in particular no counter and no semaphore
\* value ever goes negative.
THEOREM TypeCorrect == Spec => []TypeOK
BY AdmissionInvariant, PTL DEF IInv

\* No timeout, cancellation or release loses a unit of capacity or makes one.
THEOREM SlotsAreConserved == Spec => []SlotsConserved
BY AdmissionInvariant, PTL DEF IInv

\* The counters /metrics reports agree with what became of every request.
THEOREM CountersAreTrue == Spec => []CountersTellTheTruth
BY AdmissionInvariant, PTL DEF IInv

\* A slot free while somebody waits is about to be passed on.
THEOREM NoWakeupIsLost == Spec => []NoLostWakeup
BY AdmissionInvariant, PTL DEF IInv

\* The deque holds exactly the blocked calls, each once.
THEOREM DequeIsExact == Spec => []DequeIsTheWaiters
BY AdmissionInvariant, PTL DEF IInv

\* What the class promises: never more requests hold a slot than max_concurrent.
NeverOverCapacity == Cardinality(In("holding")) <= capacity

THEOREM CapacityIsACap == Spec => []NeverOverCapacity
<1>1. IInv => NeverOverCapacity
  <2>1. Cardinality(Granted) \in Nat
    BY SetsOfRequests DEF Granted
  <2>2. QED
    BY <2>1 DEF IInv, TypeOK, SlotsConserved, NeverOverCapacity
<1>2. QED
  BY <1>1, AdmissionInvariant, PTL

\* With a zero wait budget nobody ever waits.
ZeroBudgetNeverQueues == ~may_queue => In("waiting") = {}

LEMMA ZeroBudgetInvariant == Spec => []ZeroBudgetNeverQueues
<1>1. Init => ZeroBudgetNeverQueues
  BY DEF Init, ZeroBudgetNeverQueues, In
<1>2. TypeOK /\ ZeroBudgetNeverQueues /\ [Next]_vars => ZeroBudgetNeverQueues'
  BY DEF TypeOK, ZeroBudgetNeverQueues, Next, vars, In, Finished, AcquireFree,
     AcquireRefused, AcquireQueued, TimerFires, CancelWaiter, Interrupt,
     ResumeAdmitted, ResumeInterrupted, Release, settings
<1>3. QED
  BY <1>1, <1>2, TypeCorrect, PTL DEF Spec

\* A zero-budget request is refused only when every slot is in use.
THEOREM RefusalsAreHonest == Spec => ShedOnlyWhenFull
<1>1. ASSUME IInv, ZeroBudgetNeverQueues, [Next]_vars,
             NEW r \in Requests, call[r] = "idle", call'[r] = "refused"
      PROVE  in_flight = capacity
  <2>1. AcquireRefused(r)
    BY <1>1 DEF Next, vars, IInv, TypeOK, Finished, AcquireFree, AcquireRefused,
       AcquireQueued, TimerFires, CancelWaiter, Interrupt, ResumeAdmitted,
       ResumeInterrupted, Release
  <2>2. In("waiting") = {} /\ locked
    BY <1>1, <2>1 DEF AcquireRefused, ZeroBudgetNeverQueues
  <2>3. Granted = {} /\ Pending = {}
    BY <1>1, <2>2 DEF IInv, DequeIsTheWaiters, FuturesMatchCalls, In, Granted, Pending
  <2>4. value = 0 /\ Cardinality(Granted) = 0
    BY <2>2, <2>3, FS_EmptySet DEF locked
  <2>5. QED
    BY <1>1, <2>4 DEF IInv, SlotsConserved, TypeOK
<1>2. IInv /\ ZeroBudgetNeverQueues /\ [Next]_vars
        => [\A r \in Requests :
              call[r] = "idle" /\ call'[r] = "refused" => in_flight = capacity]_vars
  BY <1>1
<1>3. QED
  BY <1>2, AdmissionInvariant, ZeroBudgetInvariant, PTL DEF Spec, ShedOnlyWhenFull

------------------------------------------------------------------------------
(* A finite set in the order of the numbers its elements were given. *)

\* How many elements of S come no later than r.
RankIn(S, p, r) == Cardinality({q \in S : p[q] <= p[r]})

\* p numbers the elements of the finite set S, no two alike.
Numbered(S, p) ==
  /\ IsFiniteSet(S)
  /\ \A q \in S : p[q] \in Nat
  /\ \A q, r \in S : p[q] = p[r] => q = r

\* How many numbers there are up to n.
LEMMA UpTo ==
  ASSUME NEW n \in Nat
  PROVE  IsFiniteSet(1..n) /\ Cardinality(1..n) = n
<1>1. 1 \in Int /\ n \in Int
  OBVIOUS
<1>2. IsFiniteSet(1..n) /\ Cardinality(1..n) = IF 1 > n THEN 0 ELSE n - 1 + 1
  BY <1>1, FS_Interval, Zenon
<1>3. QED
  BY <1>2

\* A set without one of another's elements is smaller.
LEMMA SmallerWithout ==
  ASSUME NEW T, IsFiniteSet(T), NEW U \in SUBSET T, NEW x \in T, x \notin U
  PROVE  Cardinality(U) < Cardinality(T)
<1>1. /\ IsFiniteSet(U) /\ Cardinality(U) <= Cardinality(T)
      /\ Cardinality(T) = Cardinality(U) => T = U
  BY FS_Subset
<1>2. Cardinality(U) \in Nat /\ Cardinality(T) \in Nat
  BY <1>1, FS_CardinalityType
<1>3. QED
  BY <1>1, <1>2

\* Ranks follow the numbers, and are places in a sequence of all of S.
LEMMA RanksFollow ==
  ASSUME NEW S, NEW p, Numbered(S, p)
  PROVE  /\ Cardinality(S) \in Nat
         /\ \A r \in S : RankIn(S, p, r) \in 1..Cardinality(S)
         /\ \A q, r \in S : p[q] < p[r] => RankIn(S, p, q) < RankIn(S, p, r)
         /\ \A q, r \in S : RankIn(S, p, q) = RankIn(S, p, r) => q = r
<1> DEFINE upTo(r) == {q \in S : p[q] <= p[r]}
<1>1. IsFiniteSet(S) /\ Cardinality(S) \in Nat
  BY FS_CardinalityType DEF Numbered
<1>2. ASSUME NEW r \in S
      PROVE  /\ IsFiniteSet(upTo(r)) /\ r \in upTo(r)
             /\ RankIn(S, p, r) \in 1..Cardinality(S)
  <2>1. upTo(r) \in SUBSET S /\ r \in upTo(r)
    BY DEF Numbered
  <2>2. IsFiniteSet(upTo(r)) /\ Cardinality(upTo(r)) <= Cardinality(S)
    BY <1>1, <2>1, FS_Subset
  <2>3. Cardinality(upTo(r)) \in Nat /\ Cardinality(upTo(r)) # 0
    BY <2>1, <2>2, FS_CardinalityType, FS_EmptySet
  <2>4. RankIn(S, p, r) = Cardinality(upTo(r))
    BY DEF RankIn
  <2> HIDE DEF upTo
  <2>5. QED
    BY <1>1, <2>1, <2>2, <2>3, <2>4
<1>3. ASSUME NEW q \in S, NEW r \in S, p[q] < p[r]
      PROVE  RankIn(S, p, q) < RankIn(S, p, r)
  <2>1. /\ upTo(q) \in SUBSET upTo(r) /\ r \notin upTo(q) /\ r \in upTo(r)
    BY <1>3 DEF Numbered
  <2>2. IsFiniteSet(upTo(r)) /\ IsFiniteSet(upTo(q))
    BY <1>2
  <2>3. Cardinality(upTo(q)) < Cardinality(upTo(r))
    <3> HIDE DEF upTo
    <3>1. QED
      BY <2>1, <2>2, SmallerWithout
  <2>4. RankIn(S, p, q) = Cardinality(upTo(q))
    BY DEF RankIn
  <2>5. RankIn(S, p, r) = Cardinality(upTo(r))
    BY DEF RankIn
  <2> HIDE DEF upTo
  <2>6. QED
    BY <2>3, <2>4, <2>5
<1> HIDE DEF upTo
<1>r. \A r \in S : RankIn(S, p, r) \in 1..Cardinality(S)
  BY <1>2
<1>4. ASSUME NEW q \in S, NEW r \in S, RankIn(S, p, q) = RankIn(S, p, r)
      PROVE  q = r
  <2>1. RankIn(S, p, q) \in Nat /\ RankIn(S, p, r) \in Nat
    BY <1>1, <1>r
  <2>2. ~(p[q] < p[r]) /\ ~(p[r] < p[q])
    BY <1>3, <1>4, <2>1
  <2>3. p[q] \in Nat /\ p[r] \in Nat
    BY DEF Numbered
  <2>4. QED
    BY <2>2, <2>3 DEF Numbered
<1>5. QED
  BY <1>1, <1>r, <1>3, <1>4

\* A sequence of all of S, in the order of the numbers, is the only one there is.
LEMMA OnlyOrder ==
  ASSUME NEW S, NEW p, Numbered(S, p), NEW s \in [1..Cardinality(S) -> S],
         \A i, j \in 1..Cardinality(S) : i < j => p[s[i]] < p[s[j]]
  PROVE  InOrder(S, p) = s
<1> DEFINE n == Cardinality(S)
<1>1. n \in Nat /\ IsFiniteSet(S)
  BY RanksFollow DEF Numbered
<1>2. \A i, j \in 1..n : s[i] = s[j] => i = j
  <2> SUFFICES ASSUME NEW i \in 1..n, NEW j \in 1..n, s[i] = s[j] PROVE i = j
    OBVIOUS
  <2>1. p[s[i]] \in Nat /\ p[s[j]] \in Nat
    BY DEF Numbered
  <2>2. QED
    BY <1>1, <2>1
<1>3. \A i, j \in 1..n : p[s[j]] <= p[s[i]] <=> j <= i
  <2> SUFFICES ASSUME NEW i \in 1..n, NEW j \in 1..n PROVE p[s[j]] <= p[s[i]] <=> j <= i
    OBVIOUS
  <2>1. p[s[i]] \in Nat /\ p[s[j]] \in Nat
    BY DEF Numbered
  <2>2. i < j \/ i = j \/ j < i
    BY <1>1
  <2>3. QED
    BY <1>1, <2>1, <2>2
<1>4. \A r \in S : \E i \in 1..n : s[i] = r
  <2>1. IsFiniteSet(1..n) /\ Cardinality(1..n) = n
    BY <1>1, UpTo
  <2>2. s \in Injection(1..n, S)
    BY <1>2 DEF Injection, IsInjective
  <2>3. s \in Surjection(1..n, S)
    BY <1>1, <2>1, <2>2, FS_Injection
  <2>4. QED
    BY <2>3 DEF Surjection
<1>5. ASSUME NEW k \in 1..n PROVE RankIn(S, p, s[k]) = k
  <2> DEFINE T == {q \in S : p[q] <= p[s[k]]}
             g == [i \in 1..k |-> s[i]]
  <2>1. k \in Nat /\ IsFiniteSet(1..k) /\ Cardinality(1..k) = k
    BY <1>1, UpTo
  <2>2. \A i \in 1..k : i \in 1..n /\ s[i] \in T
    BY <1>1, <1>3
  <2>3. \A q \in T : \E i \in 1..k : s[i] = q
    BY <1>1, <1>3, <1>4
  <2> HIDE DEF T
  <2>4. g \in Bijection(1..k, T)
    <3>1. g \in [1..k -> T]
      BY <2>2
    <3>2. \A i, j \in 1..k : g[i] = g[j] => i = j
      BY <1>2, <2>2
    <3>3. \A q \in T : \E i \in 1..k : g[i] = q
      BY <2>3
    <3>4. g \in Injection(1..k, T)
      BY <3>1, <3>2 DEF Injection, IsInjective
    <3>5. g \in Surjection(1..k, T)
      BY <3>1, <3>3 DEF Surjection
    <3>6. QED
      BY <3>4, <3>5 DEF Bijection
  <2>5. Cardinality(T) = k
    BY <2>1, <2>4, FS_Bijection DEF ExistsBijection
  <2>6. QED
    BY <2>5 DEF RankIn, T
<1>6. ASSUME NEW k \in 1..n
      PROVE  (CHOOSE r \in S : RankIn(S, p, r) = k) = s[k]
  <2>1. s[k] \in S /\ RankIn(S, p, s[k]) = k
    BY <1>5
  <2>2. \A r \in S : RankIn(S, p, r) = k => r = s[k]
    BY <2>1, RanksFollow
  <2>3. QED
    BY <2>1, <2>2, Zenon
<1>7. InOrder(S, p) = [k \in 1..n |-> CHOOSE r \in S : RankIn(S, p, r) = k]
  BY DEF InOrder, RankIn
<1>8. QED
  BY <1>6, <1>7

\* And there is one.
LEMMA OrderExists ==
  ASSUME NEW S, NEW p, Numbered(S, p)
  PROVE  /\ InOrder(S, p) \in [1..Cardinality(S) -> S]
         /\ \A i, j \in 1..Cardinality(S) :
              i < j => p[InOrder(S, p)[i]] < p[InOrder(S, p)[j]]
         /\ \A r \in S : InOrder(S, p)[RankIn(S, p, r)] = r
<1> DEFINE n == Cardinality(S)
           rank == [r \in S |-> RankIn(S, p, r)]
           s == InOrder(S, p)
<1>1. n \in Nat /\ IsFiniteSet(S)
  BY RanksFollow DEF Numbered
<1>2. rank \in Injection(S, 1..n)
  BY RanksFollow DEF Injection, IsInjective
<1>3. rank \in Surjection(S, 1..n)
  <2>1. IsFiniteSet(1..n) /\ Cardinality(1..n) = n
    BY <1>1, UpTo
  <2>2. QED
    BY <1>2, <2>1, FS_Injection
<1>4. \A k \in 1..n : \E r \in S : RankIn(S, p, r) = k
  BY <1>3 DEF Surjection
<1>5. s = [k \in 1..n |-> CHOOSE r \in S : RankIn(S, p, r) = k]
  BY DEF InOrder, RankIn
<1> HIDE DEF s, rank
<1>6. \A k \in 1..n : s[k] \in S /\ RankIn(S, p, s[k]) = k
  <2> SUFFICES ASSUME NEW k \in 1..n PROVE s[k] \in S /\ RankIn(S, p, s[k]) = k
    OBVIOUS
  <2>1. s[k] = CHOOSE r \in S : RankIn(S, p, r) = k
    BY <1>5
  <2>2. QED
    BY <1>4, <2>1, Zenon
<1>7. s \in [1..n -> S]
  BY <1>5, <1>6
<1>8. ASSUME NEW i \in 1..n, NEW j \in 1..n, i < j
      PROVE  p[s[i]] < p[s[j]]
  <2>1. p[s[i]] \in Nat /\ p[s[j]] \in Nat /\ s[i] # s[j]
    BY <1>1, <1>6, <1>8 DEF Numbered
  <2>2. p[s[j]] < p[s[i]] => j < i
    BY <1>6, RanksFollow
  <2>3. p[s[i]] # p[s[j]]
    BY <1>6, <2>1 DEF Numbered
  <2>4. QED
    BY <1>1, <1>8, <2>1, <2>2, <2>3
<1>9. ASSUME NEW r \in S PROVE s[RankIn(S, p, r)] = r
  <2>1. RankIn(S, p, r) \in 1..n
    BY RanksFollow
  <2>2. QED
    BY <1>6, <2>1, RanksFollow
<1>10. QED
  BY <1>7, <1>8, <1>9 DEF s

------------------------------------------------------------------------------
(* What happens to the order when the set changes. *)

\* p and o agree on the order of S.
SameOrder(S, p, o) == \A q, r \in S : p[q] < p[r] => o[q] < o[r]

\* The order is a sequence of all of S, each once.
LEMMA OrderShape ==
  ASSUME NEW S, NEW p, Numbered(S, p)
  PROVE  LET s == InOrder(S, p)
         IN  /\ Cardinality(S) \in Nat /\ DOMAIN s = 1..Cardinality(S)
             /\ s \in Seq(S) /\ Len(s) = Cardinality(S)
             /\ \A i \in 1..Cardinality(S) : s[i] \in S
             /\ \A i, j \in 1..Cardinality(S) : s[i] = s[j] => i = j
             /\ \A r \in S : \E i \in 1..Cardinality(S) : s[i] = r
<1> DEFINE s == InOrder(S, p)
           n == Cardinality(S)
<1>1. n \in Nat
  BY RanksFollow
<1>2. /\ s \in [1..n -> S] /\ \A i, j \in 1..n : i < j => p[s[i]] < p[s[j]]
      /\ \A r \in S : s[RankIn(S, p, r)] = r
  BY OrderExists
<1> HIDE DEF s
<1>3. s \in Seq(S) /\ Len(s) = n /\ DOMAIN s = 1..n /\ \A i \in 1..n : s[i] \in S
  BY <1>1, <1>2
<1>4. \A i, j \in 1..n : s[i] = s[j] => i = j
  <2> SUFFICES ASSUME NEW i \in 1..n, NEW j \in 1..n, s[i] = s[j] PROVE i = j
    OBVIOUS
  <2>1. p[s[i]] \in Nat /\ p[s[j]] \in Nat
    BY <1>3 DEF Numbered
  <2>2. QED
    BY <1>1, <1>2, <2>1
<1>5. \A r \in S : \E i \in 1..n : s[i] = r
  BY <1>2, RanksFollow
<1>6. QED
  BY <1>1, <1>3, <1>4, <1>5 DEF s

\* The same elements in the same order.
LEMMA OrderStays ==
  ASSUME NEW S, NEW p, NEW o, Numbered(S, p), Numbered(S, o), SameOrder(S, p, o)
  PROVE  InOrder(S, o) = InOrder(S, p)
<1> DEFINE s == InOrder(S, p)
<1>1. s \in [1..Cardinality(S) -> S]
      /\ \A i, j \in 1..Cardinality(S) : i < j => p[s[i]] < p[s[j]]
  BY OrderExists
<1> HIDE DEF s
<1>2. \A i, j \in 1..Cardinality(S) : i < j => o[s[i]] < o[s[j]]
  BY <1>1 DEF SameOrder
<1>3. InOrder(S, o) = s
  BY <1>1, <1>2, OnlyOrder
<1>4. QED
  BY <1>3 DEF s

\* A newcomer with the highest number goes to the end.
LEMMA OrderGrows ==
  ASSUME NEW S, NEW p, NEW o, NEW r, r \notin S, Numbered(S, p), Numbered(S \cup {r}, o),
         SameOrder(S, p, o), \A q \in S : o[q] < o[r]
  PROVE  InOrder(S \cup {r}, o) = Append(InOrder(S, p), r)
<1> DEFINE s == InOrder(S, p)
           n == Cardinality(S)
           T == S \cup {r}
<1>1. /\ n \in Nat /\ s \in [1..n -> S] /\ s \in Seq(S) /\ Len(s) = n
      /\ \A i, j \in 1..n : i < j => p[s[i]] < p[s[j]]
  BY OrderExists, OrderShape
<1>2. Cardinality(T) = n + 1
  BY FS_AddElement DEF Numbered
<1> HIDE DEF s
<1> DEFINE t == Append(s, r)
<1>3. /\ DOMAIN t = 1..(n + 1) /\ t[n + 1] = r /\ \A i \in 1..n : t[i] = s[i]
      /\ t = [i \in 1..(n + 1) |-> t[i]]
  <2>1. s \in Seq(T) /\ r \in T
    BY <1>1
  <2>2. /\ t \in Seq(T) /\ Len(t) = Len(s) + 1 /\ t[Len(s) + 1] = r
        /\ \A i \in 1..Len(s) : t[i] = s[i]
    BY <2>1, AppendProperties
  <2> HIDE DEF t
  <2>3. DOMAIN t = 1..(n + 1)
    BY <1>1, <2>2
  <2>4. t = [i \in 1..(n + 1) |-> t[i]]
    <3>1. t \in Seq(T)
      BY <2>2
    <3> HIDE DEF n, T
    <3>2. t = [i \in 1..Len(t) |-> t[i]]
      BY <3>1
    <3>3. Len(t) = n + 1
      BY <1>1, <2>2
    <3>4. QED
      BY <3>2, <3>3
  <2>5. QED
    BY <1>1, <2>2, <2>3, <2>4
<1> HIDE DEF t
<1>4. \A i \in 1..(n + 1) : i \in 1..n \/ i = n + 1
  BY <1>1
<1>5. \A i \in 1..(n + 1) : t[i] \in T
  BY <1>1, <1>3, <1>4
<1>6. t \in [1..(n + 1) -> T]
  BY <1>3, <1>5
<1>7. ASSUME NEW i \in 1..(n + 1), NEW j \in 1..(n + 1), i < j
      PROVE  o[t[i]] < o[t[j]]
  <2>1. i \in 1..n
    BY <1>1, <1>7
  <2>2. CASE j \in 1..n
    <3>1. p[s[i]] < p[s[j]] /\ s[i] \in S /\ s[j] \in S
      BY <1>1, <1>7, <2>1, <2>2
    <3>2. QED
      BY <1>3, <2>1, <2>2, <3>1 DEF SameOrder
  <2>3. CASE j = n + 1
    BY <1>1, <1>3, <2>1, <2>3
  <2>4. QED
    BY <1>4, <2>2, <2>3
<1> HIDE DEF n, T
<1>8. InOrder(T, o) = t
  BY <1>2, <1>6, <1>7, OnlyOrder DEF T
<1>9. QED
  BY <1>8 DEF T, t, s

\* Whoever leaves, leaves the others in their order.
LEMMA OrderLoses ==
  ASSUME NEW S, NEW p, NEW o, NEW r \in S, Numbered(S, p), Numbered(S \ {r}, o),
         SameOrder(S \ {r}, p, o)
  PROVE  \E i \in DOMAIN InOrder(S, p) :
           /\ InOrder(S, p)[i] = r
           /\ InOrder(S \ {r}, o) = RemoveAt(InOrder(S, p), i)
<1> DEFINE s == InOrder(S, p)
           n == Cardinality(S)
           T == S \ {r}
<1>1. /\ n \in Nat /\ s \in [1..n -> S] /\ s \in Seq(S) /\ Len(s) = n /\ DOMAIN s = 1..n
      /\ \A i, j \in 1..n : i < j => p[s[i]] < p[s[j]]
      /\ \A i, j \in 1..n : s[i] = s[j] => i = j
      /\ \E i \in 1..n : s[i] = r
  BY OrderExists, OrderShape
<1>2. Cardinality(T) = n - 1 /\ n - 1 \in Nat
  <2>1. Cardinality(T) = n - 1
    BY FS_RemoveElement DEF Numbered
  <2>2. n # 0
    BY <1>1
  <2>3. QED
    BY <1>1, <2>1, <2>2
<1> HIDE DEF s
<1>3. PICK k \in 1..n : s[k] = r
  BY <1>1
<1> DEFINE t == RemoveAt(s, k)
<1>4. /\ t \in Seq(S) /\ DOMAIN t = 1..(n - 1)
      /\ \A i \in 1..(n - 1) : t[i] = IF i < k THEN s[i] ELSE s[i + 1]
  <2>1. s \in Seq(S) /\ k \in 1..Len(s) /\ Len(s) = n
    BY <1>1
  <2>2. /\ t \in Seq(S) /\ Len(t) = Len(s) - 1 /\ DOMAIN t = 1..(Len(s) - 1)
        /\ \A i \in 1..(Len(s) - 1) : t[i] = IF i < k THEN s[i] ELSE s[i + 1]
    BY <2>1, RemoveAtIs, Zenon
  <2> HIDE DEF n, t
  <2>3. QED
    BY <2>1, <2>2, Zenon
<1> HIDE DEF t
<1> DEFINE from(i) == IF i < k THEN i ELSE i + 1
<1>5. /\ \A i \in 1..(n - 1) : from(i) \in 1..n /\ from(i) # k /\ t[i] = s[from(i)]
      /\ \A i, j \in 1..(n - 1) : i < j => from(i) < from(j)
  BY <1>1, <1>4
<1> HIDE DEF from
<1>6. \A i \in 1..(n - 1) : t[i] \in T
  BY <1>1, <1>3, <1>5
<1>7. t \in [1..(n - 1) -> T]
  <2>1. t = [i \in 1..(n - 1) |-> t[i]]
    BY <1>4
  <2>2. QED
    BY <1>6, <2>1
<1>8. ASSUME NEW i \in 1..(n - 1), NEW j \in 1..(n - 1), i < j
      PROVE  o[t[i]] < o[t[j]]
  <2>1. p[t[i]] < p[t[j]]
    BY <1>1, <1>5, <1>8
  <2>2. QED
    BY <1>6, <2>1 DEF SameOrder
<1> HIDE DEF n, T
<1>9. InOrder(T, o) = t
  BY <1>2, <1>7, <1>8, OnlyOrder DEF T
<1>10. QED
  BY <1>1, <1>3, <1>9 DEF T, t, s

\* With one of them, W has everybody before it.
IsAHead(S, p, W) == \A q \in S, r \in W : p[q] < p[r] => q \in W

\* W is the head of s, and t what is left of it.
IsServed(s, W, t) ==
  /\ Cardinality(W) \in 0..Len(s)
  /\ W = {s[i] : i \in 1..Cardinality(W)}
  /\ t = SubSeq(s, Cardinality(W) + 1, Len(s))

\* The first of them leave together: W is everybody up to some number.
LEMMA OrderServes ==
  ASSUME NEW S, NEW p, NEW o, NEW W \in SUBSET S, Numbered(S, p), Numbered(S \ W, o),
         SameOrder(S \ W, p, o), IsAHead(S, p, W)
  PROVE  IsServed(InOrder(S, p), W, InOrder(S \ W, o))
<1> DEFINE s == InOrder(S, p)
           n == Cardinality(S)
           k == Cardinality(W)
           T == S \ W
<1>1. /\ n \in Nat /\ s \in [1..n -> S] /\ s \in Seq(S) /\ Len(s) = n /\ DOMAIN s = 1..n
      /\ \A i, j \in 1..n : i < j => p[s[i]] < p[s[j]]
      /\ \A i, j \in 1..n : s[i] = s[j] => i = j
      /\ \A r \in S : s[RankIn(S, p, r)] = r
      /\ \A r \in S : RankIn(S, p, r) \in 1..n
  BY OrderExists, OrderShape, RanksFollow
<1>2. IsFiniteSet(S) /\ IsFiniteSet(W) /\ k \in Nat /\ k <= n /\ \A q \in S : p[q] \in Nat
  BY FS_Subset, FS_CardinalityType DEF Numbered
<1>3. Cardinality(T) = n - k
  <2>1. S \cap W = W
    OBVIOUS
  <2>2. QED
    BY <1>2, <2>1, FS_Difference
<1> HIDE DEF s
<1>4. ASSUME NEW r \in S PROVE r \in W <=> RankIn(S, p, r) <= k
  <2> DEFINE U == {q \in S : p[q] <= p[r]}
  <2>1. IsFiniteSet(U) /\ r \in U /\ Cardinality(U) = RankIn(S, p, r)
    <3>1. U \in SUBSET S /\ r \in U
      BY <1>2
    <3>2. IsFiniteSet(U)
      BY <1>2, <3>1, FS_Subset
    <3>3. QED
      BY <3>1, <3>2 DEF RankIn
  <2>2. CASE r \in W
    <3>1. U \in SUBSET W
      <4>1. ASSUME NEW q \in U PROVE q \in W
        <5>1. p[q] \in Nat /\ p[r] \in Nat /\ (p[q] = p[r] => q = r)
          BY <1>2 DEF Numbered
        <5>2. p[q] < p[r] \/ q = r
          BY <5>1
        <5>3. QED
          BY <2>2, <5>2 DEF IsAHead
      <4>2. QED
        BY <4>1
    <3> HIDE DEF U
    <3>2. Cardinality(U) <= Cardinality(W)
      BY <1>2, <3>1, FS_Subset
    <3>3. QED
      BY <2>1, <2>2, <3>2
  <2>3. CASE r \notin W
    <3>1. W \in SUBSET U
      <4>1. ASSUME NEW q \in W PROVE q \in U
        <5>1. ~(p[r] < p[q]) /\ p[q] \in Nat /\ p[r] \in Nat
          BY <1>2, <2>3 DEF IsAHead
        <5>2. QED
          BY <5>1
      <4>2. QED
        BY <4>1
    <3> HIDE DEF U
    <3>2. Cardinality(W) < Cardinality(U)
      BY <2>1, <2>3, <3>1, SmallerWithout
    <3>3. QED
      BY <1>1, <1>2, <2>1, <2>3, <3>2
  <2>4. QED
    BY <2>2, <2>3
<1>5. W = {s[i] : i \in 1..k}
  <2>1. ASSUME NEW i \in 1..k PROVE s[i] \in W
    <3>1. i \in 1..n /\ s[i] \in S
      BY <1>1, <1>2
    <3>2. RankIn(S, p, s[i]) = i
      BY <1>1, <3>1
    <3>3. QED
      BY <1>4, <3>1, <3>2
  <2>2. ASSUME NEW r \in W PROVE \E i \in 1..k : s[i] = r
    <3>1. RankIn(S, p, r) \in 1..k
      BY <1>1, <1>2, <1>4
    <3>2. QED
      BY <1>1, <3>1
  <2>3. QED
    BY <2>1, <2>2
<1> DEFINE t == SubSeq(s, k + 1, Len(s))
<1>6. /\ DOMAIN t = 1..(n - k) /\ t = [i \in 1..(n - k) |-> t[i]]
      /\ \A i \in 1..(n - k) : t[i] = s[k + i]
  <2>1. /\ Len(t) = n - k /\ t \in Seq(S)
        /\ \A i \in 1..(n - k) : t[i] = s[k + i]
    BY <1>1, <1>2, SubSeqProperties, SMTT(60)
  <2> HIDE DEF t
  <2>2. QED
    BY <2>1
<1> HIDE DEF t
<1>7. \A i \in 1..(n - k) : t[i] \in T
  <2> SUFFICES ASSUME NEW i \in 1..(n - k) PROVE t[i] \in T
    OBVIOUS
  <2>1. k + i \in 1..n /\ t[i] = s[k + i]
    BY <1>1, <1>2, <1>6
  <2>2. RankIn(S, p, s[k + i]) = k + i /\ s[k + i] \in S
    BY <1>1, <2>1
  <2>3. ~(k + i <= k)
    BY <1>2
  <2>4. QED
    BY <1>4, <2>1, <2>2, <2>3
<1>8. t \in [1..(n - k) -> T]
  BY <1>6, <1>7
<1>9. ASSUME NEW i \in 1..(n - k), NEW j \in 1..(n - k), i < j
      PROVE  o[t[i]] < o[t[j]]
  <2>1. k + i \in 1..n /\ k + j \in 1..n /\ k + i < k + j
    BY <1>1, <1>2, <1>9
  <2>2. p[t[i]] < p[t[j]]
    BY <1>1, <1>6, <2>1
  <2>3. QED
    BY <1>7, <2>2 DEF SameOrder
<1>10. k \in 0..Len(s)
  BY <1>1, <1>2
<1> HIDE DEF n, T
<1>11. InOrder(T, o) = t
  BY <1>3, <1>8, <1>9, OnlyOrder DEF T
<1>12. QED
  BY <1>5, <1>10, <1>11 DEF T, t, s, IsServed

------------------------------------------------------------------------------
(* The deque as an order on the requests in it. *)

\* Where each member of S stands in s.
PlacesIn(s, S) == [r \in S |-> CHOOSE i \in DOMAIN s : s[i] = r]

\* s is a line: nobody is in it twice, and all of S is in it.
LinesUp(s, S) ==
  /\ IsFiniteSet(S) /\ DOMAIN s = 1..Len(s) /\ Len(s) \in Nat
  /\ \A i, j \in DOMAIN s : s[i] = s[j] => i = j
  /\ \A r \in S : \E i \in DOMAIN s : s[i] = r

\* Places number the members, each by the one place it stands in.
LEMMA PlacesNumber ==
  ASSUME NEW s, NEW S, LinesUp(s, S)
  PROVE  /\ Numbered(S, PlacesIn(s, S))
         /\ \A r \in S : PlacesIn(s, S)[r] \in DOMAIN s /\ s[PlacesIn(s, S)[r]] = r
         /\ \A i \in DOMAIN s : s[i] \in S => PlacesIn(s, S)[s[i]] = i
<1> DEFINE p == PlacesIn(s, S)
<1>1. ASSUME NEW r \in S PROVE p[r] \in DOMAIN s /\ s[p[r]] = r
  <2>1. \E i \in DOMAIN s : s[i] = r
    BY DEF LinesUp
  <2>2. p[r] = CHOOSE i \in DOMAIN s : s[i] = r
    BY DEF PlacesIn
  <2>3. QED
    BY <2>1, <2>2
<1> HIDE DEF p
<1>2. \A i \in DOMAIN s : s[i] \in S => p[s[i]] = i
  BY <1>1 DEF LinesUp
<1>3. Numbered(S, p)
  <2>1. \A r \in S : p[r] \in Nat
    BY <1>1 DEF LinesUp
  <2>2. \A q, r \in S : p[q] = p[r] => q = r
    BY <1>1
  <2>3. QED
    BY <2>1, <2>2 DEF LinesUp, Numbered
<1>4. QED
  BY <1>1, <1>2, <1>3 DEF p

\* t keeps the order that s puts on S.
KeepsOrder(s, t, S) ==
  \A i, j \in DOMAIN s : i < j /\ s[i] \in S /\ s[j] \in S =>
    \E m, n \in DOMAIN t : m < n /\ t[m] = s[i] /\ t[n] = s[j]

LEMMA PlacesKeepOrder ==
  ASSUME NEW s, NEW t, NEW A, NEW B, LinesUp(s, A), LinesUp(t, B),
         NEW S \in SUBSET A, S \in SUBSET B, KeepsOrder(s, t, S)
  PROVE  SameOrder(S, PlacesIn(s, A), PlacesIn(t, B))
<1> DEFINE p == PlacesIn(s, A)
           o == PlacesIn(t, B)
<1>1. /\ \A r \in A : p[r] \in DOMAIN s /\ s[p[r]] = r
      /\ \A i \in DOMAIN t : t[i] \in B => o[t[i]] = i
  BY PlacesNumber, Zenon
<1> HIDE DEF p, o
<1>2. ASSUME NEW q \in S, NEW r \in S, p[q] < p[r] PROVE o[q] < o[r]
  <2>1. PICK m \in DOMAIN t, n \in DOMAIN t : m < n /\ t[m] = q /\ t[n] = r
    BY <1>1, <1>2 DEF KeepsOrder
  <2>2. o[q] = m /\ o[r] = n
    BY <1>1, <2>1
  <2>3. QED
    BY <2>1, <2>2
<1>3. QED
  BY <1>2 DEF SameOrder, p, o

\* A deque that does not change keeps its order, and so does one that somebody
\* outside S leaves.
LEMMA DequeKeepsOrder ==
  ASSUME NEW X, NEW s \in Seq(X), NEW S
  PROVE  /\ KeepsOrder(s, s, S)
         /\ \A k \in DOMAIN s : s[k] \notin S => KeepsOrder(s, RemoveAt(s, k), S)
<1>1. KeepsOrder(s, s, S)
  BY DEF KeepsOrder
<1>2. ASSUME NEW k \in DOMAIN s, s[k] \notin S
      PROVE  KeepsOrder(s, RemoveAt(s, k), S)
  <2> DEFINE t == RemoveAt(s, k)
  <2>1. DOMAIN s = 1..Len(s) /\ Len(s) \in Nat
    OBVIOUS
  <2>2. /\ DOMAIN t = 1..(Len(s) - 1)
        /\ \A i \in 1..(Len(s) - 1) : t[i] = IF i < k THEN s[i] ELSE s[i + 1]
    BY <2>1, RemoveAtIs
  <2> HIDE DEF t
  <2> DEFINE to(i) == IF i < k THEN i ELSE i - 1
  <2>3. ASSUME NEW i \in DOMAIN s, i # k PROVE to(i) \in DOMAIN t /\ t[to(i)] = s[i]
    <3>1. CASE i < k
      BY <2>1, <2>2, <3>1
    <3>2. CASE i > k
      <4>1. i - 1 \in 1..(Len(s) - 1) /\ ~(i - 1 < k) /\ i - 1 + 1 = i
        BY <2>1, <3>2
      <4>2. QED
        BY <2>2, <3>2, <4>1
    <3>3. QED
      BY <2>1, <2>3, <3>1, <3>2
  <2>4. ASSUME NEW i \in DOMAIN s, NEW j \in DOMAIN s, i < j, i # k, j # k
        PROVE  to(i) < to(j)
    BY <2>1, <2>4
  <2> HIDE DEF to
  <2>5. QED
    BY <1>2, <2>3, <2>4 DEF KeepsOrder, t
<1>3. QED
  BY <1>1, <1>2

------------------------------------------------------------------------------
(* The line of the pool, in a state of the controller. *)

LEMMA LineIs ==
  /\ Line = InOrder(Pending, PlacesIn(waiters, Pending))
  /\ Line' = InOrder(Pending', PlacesIn(waiters', Pending'))
BY DEF Line, PlaceOf, PlacesIn, Pending

LEMMA PendingLineUp ==
  ASSUME TypeOK, DequeIsTheWaiters
  PROVE  waiters \in Seq(Requests) /\ LinesUp(waiters, Pending)
<1>1. Pending \in SUBSET Requests /\ IsFiniteSet(Pending)
  BY SetsOfRequests DEF Pending
<1>2. waiters \in Seq(Requests) /\ DOMAIN waiters = 1..Len(waiters) /\ Len(waiters) \in Nat
  BY DEF TypeOK
<1>3. \A r \in Pending : \E i \in DOMAIN waiters : waiters[i] = r
  BY DEF DequeIsTheWaiters, FuturesMatchCalls, Pending
<1>4. QED
  BY <1>1, <1>2, <1>3 DEF DequeIsTheWaiters, LinesUp

\* The same in the state after a step.
LEMMA PendingLineUpNext ==
  ASSUME TypeOK', DequeIsTheWaiters'
  PROVE  waiters' \in Seq(Requests) /\ LinesUp(waiters', Pending')
<1>1. Pending' \in SUBSET Requests /\ IsFiniteSet(Pending')
  <2>1. Pending' \in SUBSET Requests
    BY DEF Pending
  <2>2. QED
    BY <2>1, SetsOfRequests
<1>2. /\ waiters' \in Seq(Requests) /\ DOMAIN waiters' = 1..Len(waiters')
      /\ Len(waiters') \in Nat
  BY DEF TypeOK
<1>3. \A r \in Pending' : \E i \in DOMAIN waiters' : waiters'[i] = r
  BY DEF DequeIsTheWaiters, FuturesMatchCalls, Pending
<1>4. QED
  BY <1>1, <1>2, <1>3 DEF DequeIsTheWaiters, LinesUp

\* The line is the pending waiters, and empty when there are none.
LEMMA LineShape ==
  ASSUME TypeOK, DequeIsTheWaiters
  PROVE  /\ DOMAIN Line = 1..Len(Line) /\ Len(Line) \in Nat /\ Line \in Seq(Pending)
         /\ \A i \in DOMAIN Line : Line[i] \in Pending
         /\ Pending = {} => Line = << >>
<1>1. Numbered(Pending, PlacesIn(waiters, Pending))
  BY PendingLineUp, PlacesNumber
<1>2. /\ Cardinality(Pending) \in Nat /\ DOMAIN Line = 1..Cardinality(Pending)
      /\ Line \in Seq(Pending) /\ Len(Line) = Cardinality(Pending)
      /\ \A i \in 1..Cardinality(Pending) : Line[i] \in Pending
  BY <1>1, OrderShape, LineIs
<1>3. Pending = {} => Cardinality(Pending) = 0
  BY FS_EmptySet
<1>4. Pending = {} => Line = << >>
  BY <1>2, <1>3
<1>5. QED
  BY <1>2, <1>4

\* Nobody joins or leaves the line: it stays.
LEMMA LineStays ==
  ASSUME IInv, IInv', Pending' = Pending,
         \/ waiters' = waiters
         \/ \E k \in DOMAIN waiters :
              waiters[k] \notin Pending /\ waiters' = RemoveAt(waiters, k)
  PROVE  Line' = Line
<1> DEFINE p == PlacesIn(waiters, Pending)
           o == PlacesIn(waiters', Pending)
<1>1. /\ waiters \in Seq(Requests) /\ LinesUp(waiters, Pending)
      /\ LinesUp(waiters', Pending)
  BY PendingLineUp, PendingLineUpNext DEF IInv
<1>2. Numbered(Pending, p) /\ Numbered(Pending, o)
  BY <1>1, PlacesNumber
<1>3. KeepsOrder(waiters, waiters', Pending)
  BY <1>1, DequeKeepsOrder
<1>4. SameOrder(Pending, p, o)
  BY <1>1, <1>3, PlacesKeepOrder
<1> HIDE DEF p, o
<1>5. InOrder(Pending, o) = InOrder(Pending, p)
  BY <1>2, <1>4, OrderStays
<1>6. QED
  BY <1>5, LineIs DEF p, o

\* Who starts to wait goes to the end of the line.
LEMMA LineGrows ==
  ASSUME IInv, IInv', NEW r \in Requests, r \notin Pending,
         Pending' = Pending \cup {r}, waiters' = Append(waiters, r)
  PROVE  Line' = Append(Line, r)
<1> DEFINE p == PlacesIn(waiters, Pending)
           o == PlacesIn(waiters', Pending \cup {r})
<1>1. /\ waiters \in Seq(Requests) /\ LinesUp(waiters, Pending)
      /\ LinesUp(waiters', Pending \cup {r})
  BY PendingLineUp, PendingLineUpNext DEF IInv
<1>2. /\ Numbered(Pending, p) /\ Numbered(Pending \cup {r}, o)
      /\ \A q \in Pending : p[q] \in DOMAIN waiters /\ waiters[p[q]] = q
      /\ \A i \in DOMAIN waiters' :
           waiters'[i] \in Pending \cup {r} => o[waiters'[i]] = i
  <2>1. /\ Numbered(Pending, p)
        /\ \A q \in Pending : p[q] \in DOMAIN waiters /\ waiters[p[q]] = q
    BY <1>1, PlacesNumber
  <2>2. /\ Numbered(Pending \cup {r}, o)
        /\ \A i \in DOMAIN waiters' :
             waiters'[i] \in Pending \cup {r} => o[waiters'[i]] = i
    BY <1>1, PlacesNumber, Zenon
  <2> HIDE DEF p, o
  <2>3. QED
    BY <2>1, <2>2
<1>3. /\ DOMAIN waiters = 1..Len(waiters) /\ Len(waiters) \in Nat
      /\ DOMAIN waiters' = 1..(Len(waiters) + 1)
      /\ waiters'[Len(waiters) + 1] = r
      /\ \A i \in DOMAIN waiters : waiters'[i] = waiters[i] /\ i \in DOMAIN waiters'
  <2> DEFINE t == Append(waiters, r)
  <2>1. /\ t \in Seq(Requests) /\ Len(t) = Len(waiters) + 1 /\ t[Len(waiters) + 1] = r
        /\ \A i \in 1..Len(waiters) : t[i] = waiters[i]
    BY <1>1, AppendProperties
  <2>2. waiters' = t
    OBVIOUS
  <2> HIDE DEF t
  <2>3. /\ DOMAIN waiters = 1..Len(waiters) /\ Len(waiters) \in Nat
        /\ DOMAIN t = 1..(Len(waiters) + 1)
    BY <1>1, <2>1
  <2>4. QED
    BY <2>1, <2>2, <2>3
<1>4. KeepsOrder(waiters, waiters', Pending)
  BY <1>3, Zenon DEF KeepsOrder
<1>5. SameOrder(Pending, p, o)
  BY <1>1, <1>4, PlacesKeepOrder
<1> HIDE DEF p, o
<1>6. \A q \in Pending : o[q] < o[r]
  <2> TAKE q \in Pending
  <2>1. p[q] \in DOMAIN waiters /\ waiters'[p[q]] = q /\ p[q] \in DOMAIN waiters'
    BY <1>2, <1>3
  <2>2. o[q] = p[q]
    BY <1>2, <2>1
  <2>3. o[r] = Len(waiters) + 1
    <3>1. Len(waiters) + 1 \in DOMAIN waiters'
      BY <1>3
    <3>2. QED
      BY <1>2, <1>3, <3>1
  <2>4. QED
    BY <1>3, <2>1, <2>2, <2>3
<1>7. InOrder(Pending \cup {r}, o) = Append(InOrder(Pending, p), r)
  BY <1>2, <1>5, <1>6, OrderGrows
<1>8. QED
  BY <1>7, LineIs DEF p, o

\* Whose future is cancelled is no longer in line, wherever it stood.
LEMMA LineLoses ==
  ASSUME IInv, IInv', NEW r \in Pending, Pending' = Pending \ {r}, waiters' = waiters
  PROVE  \E i \in DOMAIN Line : Line[i] = r /\ Line' = RemoveAt(Line, i)
<1> DEFINE p == PlacesIn(waiters, Pending)
           o == PlacesIn(waiters, Pending \ {r})
<1>1. /\ waiters \in Seq(Requests) /\ LinesUp(waiters, Pending)
      /\ LinesUp(waiters, Pending \ {r})
  BY PendingLineUp, PendingLineUpNext DEF IInv
<1>2. Numbered(Pending, p) /\ Numbered(Pending \ {r}, o)
  BY <1>1, PlacesNumber
<1>3. KeepsOrder(waiters, waiters, Pending \ {r})
  BY <1>1, DequeKeepsOrder
<1>4. SameOrder(Pending \ {r}, p, o)
  <2>1. Pending \ {r} \in SUBSET Pending /\ Pending \ {r} \in SUBSET (Pending \ {r})
    OBVIOUS
  <2>2. QED
    BY <1>1, <1>3, <2>1, PlacesKeepOrder
<1> HIDE DEF p, o
<1>5. \E i \in DOMAIN InOrder(Pending, p) :
        /\ InOrder(Pending, p)[i] = r
        /\ InOrder(Pending \ {r}, o) = RemoveAt(InOrder(Pending, p), i)
  BY <1>2, <1>4, OrderLoses
<1>6. Line = InOrder(Pending, p) /\ Line' = InOrder(Pending \ {r}, o)
  BY LineIs DEF p, o
<1>7. QED
  BY <1>5, <1>6

\* Those a wake-up grants are the head of the line, and the rest keep their order.
LEMMA LineServed ==
  ASSUME IInv, IInv', NEW W \in SUBSET Pending, FirstOfLine(W), Pending' = Pending \ W,
         \/ waiters' = waiters
         \/ \E k \in DOMAIN waiters :
              waiters[k] \notin Pending /\ waiters' = RemoveAt(waiters, k)
  PROVE  IsServed(Line, W, Line')
<1> DEFINE p == PlacesIn(waiters, Pending)
           o == PlacesIn(waiters', Pending \ W)
<1>1. /\ waiters \in Seq(Requests) /\ LinesUp(waiters, Pending)
      /\ LinesUp(waiters', Pending \ W)
  BY PendingLineUp, PendingLineUpNext DEF IInv
<1>2. /\ Numbered(Pending, p) /\ Numbered(Pending \ W, o)
      /\ \A q \in Pending : p[q] \in DOMAIN waiters /\ waiters[p[q]] = q
  BY <1>1, PlacesNumber, Zenon
<1>3. KeepsOrder(waiters, waiters', Pending \ W)
  BY <1>1, DequeKeepsOrder
<1>4. SameOrder(Pending \ W, p, o)
  <2>1. Pending \ W \in SUBSET Pending /\ Pending \ W \in SUBSET (Pending \ W)
    OBVIOUS
  <2>2. QED
    BY <1>1, <1>3, <2>1, PlacesKeepOrder
<1> HIDE DEF p, o
<1>5. IsAHead(Pending, p, W)
  BY <1>2 DEF FirstOfLine, IsAHead
<1>6. IsServed(InOrder(Pending, p), W, InOrder(Pending \ W, o))
  <2>1. /\ Numbered(Pending, p) /\ Numbered(Pending \ W, o)
        /\ SameOrder(Pending \ W, p, o) /\ W \in SUBSET Pending
    BY <1>2, <1>4
  <2>2. QED
    BY <1>5, <2>1, OrderServes
<1>7. Line = InOrder(Pending, p) /\ Line' = InOrder(Pending \ W, o)
  BY LineIs DEF p, o
<1>8. QED
  BY <1>6, <1>7

------------------------------------------------------------------------------
(* Every step of the controller is a step of the pool. *)

\* The owners fit: they are the units that are not in the semaphore.
LEMMA OwnersFit ==
  ASSUME IInv
  PROVE  Cardinality(Owners) <= capacity
<1>1. In("holding") \in SUBSET Requests /\ Granted \in SUBSET Requests
  BY DEF In, Granted
<1>2. /\ IsFiniteSet(In("holding")) /\ IsFiniteSet(Granted)
      /\ Cardinality(In("holding")) \in Nat /\ Cardinality(Granted) \in Nat
  BY <1>1, SetsOfRequests
<1>3. In("holding") \cap Granted = {}
  BY DEF IInv, DequeIsTheWaiters, FuturesMatchCalls, In, Granted
<1>4. Cardinality(Owners) = Cardinality(In("holding")) + Cardinality(Granted)
  <2>1. Cardinality(In("holding") \cup Granted)
          = Cardinality(In("holding")) + Cardinality(Granted)
              - Cardinality(In("holding") \cap Granted)
    BY <1>2, FS_Union
  <2>2. Cardinality(In("holding") \cap Granted) = 0
    BY <1>3, FS_EmptySet
  <2>3. QED
    BY <1>2, <2>1, <2>2 DEF Owners
<1>5. QED
  BY <1>2, <1>4 DEF IInv, SlotsConserved, TypeOK

LEMMA OwnersFitNext ==
  ASSUME IInv'
  PROVE  Cardinality(Owners') <= capacity'
<1>1. In("holding")' \in SUBSET Requests /\ Granted' \in SUBSET Requests
  BY DEF In, Granted
<1>2. /\ IsFiniteSet(In("holding")') /\ IsFiniteSet(Granted')
      /\ Cardinality(In("holding")') \in Nat /\ Cardinality(Granted') \in Nat
  BY <1>1, SetsOfRequests
<1>3. In("holding")' \cap Granted' = {}
  BY DEF IInv, DequeIsTheWaiters, FuturesMatchCalls, In, Granted
<1>4. Cardinality(Owners') = Cardinality(In("holding")') + Cardinality(Granted')
  <2>1. Cardinality(In("holding")' \cup Granted')
          = Cardinality(In("holding")') + Cardinality(Granted')
              - Cardinality(In("holding")' \cap Granted')
    BY <1>2, FS_Union
  <2>2. Cardinality(In("holding")' \cap Granted') = 0
    BY <1>3, FS_EmptySet
  <2>3. QED
    BY <1>2, <2>1, <2>2 DEF Owners
<1>5. QED
  BY <1>2, <1>4 DEF IInv, SlotsConserved, TypeOK

\* The pool counts, lists and removes as its library does.
LEMMA PoolCounts == \A S : Pool!Cardinality(S) = Cardinality(S)
BY DEF Pool!Cardinality, Cardinality

LEMMA PoolLists == \A s, i : Pool!ToSet(s) = ToSet(s) /\ Pool!RemoveAt(s, i) = RemoveAt(s, i)
BY DEF Pool!ToSet, ToSet, Pool!RemoveAt, RemoveAt

LEMMA AcquireFreeEnters ==
  ASSUME IInv, IInv', NEW r \in Requests, AcquireFree(r)
  PROVE  Pool!Enter(r)
<1>1. /\ call \in [Requests -> Calls] /\ call[r] = "idle"
      /\ call' = [call EXCEPT ![r] = "holding"]
      /\ fut' = fut /\ waiters' = waiters /\ capacity' = capacity
      /\ Pending = {} /\ Granted = {}
  BY DEF AcquireFree, IInv, TypeOK, settings, locked
<1>2. Owners' = Owners \cup {r} /\ r \notin Owners
  BY <1>1 DEF Owners, In, Granted
<1>3. Line = << >>
  BY <1>1, LineShape DEF IInv
<1>4. Line' = Line
  <2>1. Pending' = Pending
    BY <1>1 DEF Pending
  <2>2. QED
    BY <1>1, <2>1, LineStays
<1>5. Cardinality(Owners') <= capacity
  BY <1>1, OwnersFitNext
<1>6. QED
  BY <1>1, <1>2, <1>3, <1>4, <1>5, PoolCounts DEF Pool!Enter

LEMMA AcquireRefusedStutters ==
  ASSUME IInv, IInv', NEW r \in Requests, AcquireRefused(r)
  PROVE  UNCHANGED Pool!pool
<1>1. /\ call \in [Requests -> Calls] /\ call[r] = "idle"
      /\ call' = [call EXCEPT ![r] = "refused"]
      /\ fut' = fut /\ waiters' = waiters /\ capacity' = capacity
  BY DEF AcquireRefused, IInv, TypeOK, settings, semaphore
<1>2. Owners' = Owners
  BY <1>1 DEF Owners, In, Granted
<1>3. Line' = Line
  <2>1. Pending' = Pending
    BY <1>1 DEF Pending
  <2>2. QED
    BY <1>1, <2>1, LineStays
<1>4. QED
  BY <1>1, <1>2, <1>3 DEF Pool!pool

LEMMA AcquireQueuedJoins ==
  ASSUME IInv, IInv', NEW r \in Requests, AcquireQueued(r)
  PROVE  Pool!JoinLine(r)
<1>1. /\ call \in [Requests -> Calls] /\ call[r] = "idle"
      /\ call' = [call EXCEPT ![r] = "waiting"]
      /\ fut \in [Requests -> Futures] /\ fut[r] = "none"
      /\ fut' = [fut EXCEPT ![r] = "pending"]
      /\ waiters' = Append(waiters, r) /\ capacity' = capacity
  BY DEF AcquireQueued, IInv, TypeOK, DequeIsTheWaiters, FuturesMatchCalls, settings, Futures
<1>2. Owners' = Owners /\ r \notin Owners
  BY <1>1 DEF Owners, In, Granted
<1>3. Pending' = Pending \cup {r} /\ r \notin Pending
  BY <1>1 DEF Pending
<1>4. Line' = Append(Line, r)
  BY <1>1, <1>3, LineGrows
<1>5. r \notin ToSet(Line)
  BY <1>3, LineShape DEF ToSet, IInv
<1>6. QED
  BY <1>1, <1>2, <1>4, <1>5, PoolLists DEF Pool!JoinLine

\* A timer or a cancellation takes a pending waiter out of the line; one that
\* was granted a slot keeps it until its task runs.
LEMMA InterruptGivesUp ==
  ASSUME IInv, IInv', NEW r \in Requests, NEW cause, Interrupt(r, cause)
  PROVE  Pool!GiveUp(r) \/ UNCHANGED Pool!pool
<1>1. /\ fut \in [Requests -> Futures]
      /\ fut' = [fut EXCEPT ![r] = IF @ = "pending" THEN "cancelled" ELSE @]
      /\ waiters' = waiters /\ call' = call /\ capacity' = capacity
  BY DEF Interrupt, IInv, TypeOK, settings, Futures
<1>2. Owners' = Owners
  BY <1>1 DEF Owners, In, Granted
<1>3. CASE r \in Pending
  <2>1. Pending' = Pending \ {r}
    BY <1>1, <1>3 DEF Pending
  <2>2. \E i \in DOMAIN Line : Line[i] = r /\ Line' = RemoveAt(Line, i)
    BY <1>1, <1>3, <2>1, LineLoses
  <2>3. QED
    BY <1>1, <1>2, <2>2, PoolLists DEF Pool!GiveUp
<1>4. CASE r \notin Pending
  <2>1. Pending' = Pending
    BY <1>1, <1>4 DEF Pending
  <2>2. Line' = Line
    BY <1>1, <2>1, LineStays
  <2>3. QED
    BY <1>1, <1>2, <2>2 DEF Pool!pool
<1>5. QED
  BY <1>3, <1>4

\* Whoever is served from the head of the line is served as the pool serves.
LEMMA ServesTheHead ==
  ASSUME IInv', NEW W, IsServed(Line, W, Line'), NEW staying,
         Owners' = staying \cup W, capacity' = capacity
  PROVE  Cardinality(W) \in 0..Len(Line) /\ Pool!Serve(Cardinality(W), staying)
<1>1. Cardinality(Owners') <= capacity
  BY OwnersFitNext
<1>2. /\ Cardinality(W) \in 0..Len(Line)
      /\ W = {Line[i] : i \in 1..Cardinality(W)}
      /\ Line' = SubSeq(Line, Cardinality(W) + 1, Len(Line))
  BY DEF IsServed
<1>3. Cardinality(W) <= Len(Line)
  BY <1>2
<1>4. Owners' = staying \cup {Line[i] : i \in 1..Cardinality(W)}
  BY <1>2, Zenon
<1>5. QED
  BY <1>1, <1>2, <1>3, <1>4, PoolCounts, Zenon DEF Pool!Serve

\* An owner leaves and others are served in the same step.
LEMMA OwnerLeaves ==
  ASSUME IInv', NEW r \in Owners, NEW W, IsServed(Line, W, Line'),
         Owners' = (Owners \ {r}) \cup W, capacity' = capacity
  PROVE  Pool!Leave(r)
<1>1. Cardinality(W) \in 0..Len(Line) /\ Pool!Serve(Cardinality(W), Owners \ {r})
  BY ServesTheHead, Zenon
<1>2. QED
  BY <1>1, Zenon DEF Pool!Leave

\* Free slots go to the line, if anybody is served at all.
LEMMA LineAdvances ==
  ASSUME IInv, IInv', NEW W \in SUBSET Pending, IsServed(Line, W, Line'),
         W = {} => Line' = Line,
         Owners' = Owners \cup W, capacity' = capacity
  PROVE  Pool!Advance \/ UNCHANGED Pool!pool
<1>1. CASE W = {}
  BY <1>1 DEF Pool!pool
<1>2. CASE W # {}
  <2>1. Cardinality(W) \in 0..Len(Line) /\ Pool!Serve(Cardinality(W), Owners)
    BY ServesTheHead, Zenon
  <2>2. Cardinality(W) # 0
    <3>1. W \in SUBSET Requests
      BY DEF Pending
    <3>2. IsFiniteSet(W)
      BY <3>1, SetsOfRequests
    <3>3. QED
      BY <1>2, <3>2, FS_EmptySet
  <2>3. Cardinality(W) \in 1..Len(Line)
    BY <2>1, <2>2, LineShape DEF IInv
  <2>4. QED
    BY <2>1, <2>3, Zenon DEF Pool!Advance
<1>3. QED
  BY <1>1, <1>2

\* The wake-up of a step that leaves f: some of the pending are granted, and
\* they are the head of the line.
LEMMA WakeServes ==
  ASSUME IInv, IInv', NEW v, NEW n, NEW f \in [Requests -> Futures], Wake(v, n, f),
         \A q \in Requests : fut[q] = "pending" <=> f[q] = "pending",
         \/ waiters' = waiters
         \/ \E k \in DOMAIN waiters :
              waiters[k] \notin Pending /\ waiters' = RemoveAt(waiters, k)
  PROVE  \E W \in SUBSET Pending :
           /\ Granted' = {q \in Requests : f[q] = "granted"} \cup W
           /\ IsServed(Line, W, Line')
           /\ W = {} => Line' = Line
<1>1. PICK W \in SUBSET Pending :
        /\ FirstOfLine(W)
        /\ fut' = [q \in Requests |-> IF q \in W THEN "granted" ELSE f[q]]
  BY DEF Wake
<1>2. Granted' = {q \in Requests : f[q] = "granted"} \cup W
  BY <1>1 DEF Granted, Pending
<1>3. Pending' = Pending \ W
  BY <1>1 DEF Pending
<1>4. IsServed(Line, W, Line')
  BY <1>1, <1>3, LineServed
<1>5. ASSUME W = {} PROVE Line' = Line
  <2>1. Pending' = Pending
    BY <1>3, <1>5
  <2>2. QED
    BY <2>1, LineStays
<1>6. QED
  BY <1>2, <1>4, <1>5

\* A task that leaves the deque was no longer pending: its grant, if it had one,
\* is what is left to place.
LEMMA LeavingServes ==
  ASSUME IInv, IInv', NEW r \in Requests, NEW v, fut[r] # "pending", LeaveDeque(r, v)
  PROVE  \E W \in SUBSET Pending :
           /\ Granted' = (Granted \ {r}) \cup W
           /\ IsServed(Line, W, Line')
           /\ W = {} => Line' = Line
<1> DEFINE f == [fut EXCEPT ![r] = "none"]
<1>1. /\ f \in [Requests -> Futures] /\ Wake(v, v, f)
      /\ \A q \in Requests : fut[q] = "pending" <=> f[q] = "pending"
      /\ {q \in Requests : f[q] = "granted"} = Granted \ {r}
  BY DEF LeaveDeque, IInv, TypeOK, Futures, Granted
<1>2. \E k \in DOMAIN waiters :
        waiters[k] \notin Pending /\ waiters' = RemoveAt(waiters, k)
  BY DEF LeaveDeque, Pending
<1> HIDE DEF f
<1>3. \E W \in SUBSET Pending :
        /\ Granted' = {q \in Requests : f[q] = "granted"} \cup W
        /\ IsServed(Line, W, Line')
        /\ W = {} => Line' = Line
  BY <1>1, <1>2, WakeServes
<1>4. QED
  BY <1>1, <1>3

LEMMA ResumeAdmittedAdvances ==
  ASSUME IInv, IInv', NEW r \in Requests, ResumeAdmitted(r)
  PROVE  Pool!Advance \/ UNCHANGED Pool!pool
<1>1. /\ call \in [Requests -> Calls] /\ call[r] = "waiting"
      /\ call' = [call EXCEPT ![r] = "holding"]
      /\ fut[r] = "granted" /\ LeaveDeque(r, value) /\ capacity' = capacity
  BY DEF ResumeAdmitted, IInv, TypeOK, settings
<1>2. PICK W \in SUBSET Pending :
        /\ Granted' = (Granted \ {r}) \cup W
        /\ IsServed(Line, W, Line')
        /\ W = {} => Line' = Line
  BY <1>1, LeavingServes
<1>3. In("holding")' = In("holding") \cup {r} /\ r \in Granted
  BY <1>1 DEF In, Granted
<1>4. Owners' = Owners \cup W
  BY <1>2, <1>3 DEF Owners
<1>5. QED
  BY <1>1, <1>2, <1>4, LineAdvances

LEMMA ResumeInterruptedLeaves ==
  ASSUME IInv, IInv', NEW r \in Requests, ResumeInterrupted(r)
  PROVE  Pool!Leave(r) \/ Pool!Advance \/ UNCHANGED Pool!pool
<1>1. /\ call \in [Requests -> Calls] /\ call[r] = "waiting"
      /\ \E s \in {"refused", "cancelled"} : call' = [call EXCEPT ![r] = s]
      /\ fut[r] # "pending" /\ capacity' = capacity
      /\ LeaveDeque(r, IF fut[r] = "granted" THEN value + 1 ELSE value)
  BY DEF ResumeInterrupted, IInv, TypeOK, DequeIsTheWaiters, FuturesMatchCalls, settings
<1>2. PICK W \in SUBSET Pending :
        /\ Granted' = (Granted \ {r}) \cup W
        /\ IsServed(Line, W, Line')
        /\ W = {} => Line' = Line
  <2> DEFINE v == IF fut[r] = "granted" THEN value + 1 ELSE value
  <2>1. LeaveDeque(r, v) /\ fut[r] # "pending"
    BY <1>1
  <2> HIDE DEF v
  <2>2. QED
    BY <2>1, LeavingServes
<1>3. In("holding")' = In("holding") /\ r \notin In("holding")
  BY <1>1 DEF In
<1>4. CASE r \in Granted
  <2>1. Owners' = (Owners \ {r}) \cup W /\ r \in Owners
    BY <1>2, <1>3, <1>4 DEF Owners
  <2>2. QED
    BY <1>1, <1>2, <2>1, OwnerLeaves
<1>5. CASE r \notin Granted
  <2>1. Owners' = Owners \cup W
    BY <1>2, <1>3, <1>5 DEF Owners
  <2>2. QED
    BY <1>1, <1>2, <2>1, LineAdvances
<1>6. QED
  BY <1>4, <1>5

LEMMA ReleaseLeaves ==
  ASSUME IInv, IInv', NEW r \in Requests, Release(r)
  PROVE  Pool!Leave(r)
<1>1. /\ call \in [Requests -> Calls] /\ call[r] = "holding"
      /\ call' = [call EXCEPT ![r] = "returned"]
      /\ fut \in [Requests -> Futures] /\ fut[r] = "none"
      /\ waiters' = waiters /\ capacity' = capacity /\ ReleaseCalls(1)
  BY DEF Release, IInv, TypeOK, DequeIsTheWaiters, FuturesMatchCalls, settings, Futures
<1>2. \E v, n : Wake(v, n, fut)
  BY <1>1 DEF ReleaseCalls
<1>3. PICK W \in SUBSET Pending :
        /\ Granted' = {q \in Requests : fut[q] = "granted"} \cup W
        /\ IsServed(Line, W, Line')
        /\ W = {} => Line' = Line
  <2>1. PICK v, n : Wake(v, n, fut)
    BY <1>2
  <2>2. QED
    BY <1>1, <2>1, WakeServes
<1>4. Granted' = Granted \cup W
  BY <1>3 DEF Granted
<1>5. /\ In("holding")' = In("holding") \ {r} /\ r \in In("holding") /\ r \notin Granted
      /\ r \notin W
  BY <1>1 DEF In, Granted, Pending
<1>6. Owners' = (Owners \ {r}) \cup W /\ r \in Owners
  BY <1>4, <1>5 DEF Owners
<1>7. QED
  BY <1>1, <1>3, <1>6, OwnerLeaves

LEMMA InitIsPoolInit == Init => Pool!Init
<1> SUFFICES ASSUME Init PROVE Pool!Init
  OBVIOUS
<1>1. IInv
  BY InitEstablishesIInv
<1>2. Pending = {} /\ Owners = {} /\ capacity \in Limits
  BY DEF Init, Pending, Owners, In, Granted
<1>3. Line = << >>
  BY <1>1, <1>2, LineShape DEF IInv
<1>4. QED
  BY <1>2, <1>3 DEF Pool!Init

LEMMA NextIsPoolNext == IInv /\ IInv' /\ [Next]_vars => [Pool!Next]_(Pool!pool)
<1> SUFFICES ASSUME IInv, IInv', [Next]_vars PROVE Pool!Next \/ UNCHANGED Pool!pool
  OBVIOUS
<1>1. CASE UNCHANGED vars
  <2>1. /\ capacity' = capacity /\ waiters' = waiters /\ Pending' = Pending
        /\ Owners' = Owners
    BY <1>1 DEF vars, settings, semaphore, Pending, Owners, In, Granted
  <2>2. Line' = Line
    BY <2>1, LineStays
  <2>3. QED
    BY <2>1, <2>2 DEF Pool!pool
<1>2. ASSUME NEW r \in Requests, AcquireFree(r) PROVE Pool!Next
  BY <1>2, AcquireFreeEnters DEF Pool!Next
<1>3. ASSUME NEW r \in Requests, AcquireRefused(r) PROVE UNCHANGED Pool!pool
  BY <1>3, AcquireRefusedStutters
<1>4. ASSUME NEW r \in Requests, AcquireQueued(r) PROVE Pool!Next
  BY <1>4, AcquireQueuedJoins DEF Pool!Next
<1>5. ASSUME NEW r \in Requests, TimerFires(r) \/ CancelWaiter(r)
      PROVE  Pool!Next \/ UNCHANGED Pool!pool
  <2>1. \E cause : Interrupt(r, cause)
    BY <1>5 DEF TimerFires, CancelWaiter
  <2>2. Pool!GiveUp(r) \/ UNCHANGED Pool!pool
    BY <2>1, InterruptGivesUp
  <2>3. QED
    BY <2>2 DEF Pool!Next
<1>6. ASSUME NEW r \in Requests, ResumeAdmitted(r)
      PROVE  Pool!Next \/ UNCHANGED Pool!pool
  BY <1>6, ResumeAdmittedAdvances DEF Pool!Next
<1>7. ASSUME NEW r \in Requests, ResumeInterrupted(r)
      PROVE  Pool!Next \/ UNCHANGED Pool!pool
  BY <1>7, ResumeInterruptedLeaves DEF Pool!Next
<1>8. ASSUME NEW r \in Requests, Release(r) PROVE Pool!Next
  BY <1>8, ReleaseLeaves DEF Pool!Next
<1>9. QED
  BY <1>1, <1>2, <1>3, <1>4, <1>5, <1>6, <1>7, <1>8 DEF Next, Finished

\* gateway/limits.py implements the slot pool of SlotPool, for every number of
\* requests and every limit: a slot has one owner, never more owners than
\* slots, and a slot that comes free goes to whoever has waited longest, in
\* every race of a grant with a timer, a cancellation and a newcomer.
THEOREM ControllerIsASlotPool == Spec => Pool!Steps
<1>1. Init => Pool!Init
  BY InitIsPoolInit
<1>2. IInv /\ IInv' /\ [Next]_vars => [Pool!Next]_(Pool!pool)
  BY NextIsPoolNext
<1>3. QED
  BY <1>1, <1>2, AdmissionInvariant, PTL DEF Spec, Pool!Steps

=============================================================================
