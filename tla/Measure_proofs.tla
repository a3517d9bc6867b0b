--------------------------- MODULE Measure_proofs ---------------------------
(***************************************************************************)
(* What is proved about the measurement's parts that run on their own.     *)
(* For the engine client: whatever the server writes, whenever it writes   *)
(* it and however it leaves the connection, the times and counts of a      *)
(* result are those of the stream.  For the comparison of a session's      *)
(* variants: the frontier, the best and the verdict agree.  For the two    *)
(* scrapes around a rate step: a quantile of their difference lies in the  *)
(* bucket of the true one.  For a launch: what starts is what was built,   *)
(* without the flags this engine lacks, and nothing doctor would stop.     *)
(***************************************************************************)
EXTENDS Client, Scrapes, Tuning, Launch, SumLemmas, Orders_proofs

------------------------------------------------------------------------------
(* The fields of a result. *)

StatusCodes == {0, 200, 500}
Moments == Nat \cup {NONE}
GapLists == Seq(Nat)

LEMMA ResultIs ==
  Result = [status : StatusCodes, error : BOOLEAN, start : Nat, ttft : Moments,
            itl : GapLists, last : Moments, e2e : Nat, read : Nat]
BY DEF Result, StatusCodes, Moments, GapLists

\* A result with one field set to a value of its type is a result.
LEMMA StatusIsAField ==
  ASSUME NEW r \in Result, NEW code \in StatusCodes
  PROVE  [r EXCEPT !.status = code] \in Result
BY ResultIs

LEMMA ErrorIsAField ==
  ASSUME NEW r \in Result
  PROVE  [r EXCEPT !.error = TRUE] \in Result
BY ResultIs

LEMMA StartIsAField ==
  ASSUME NEW r \in Result, NEW t \in Nat
  PROVE  [r EXCEPT !.start = t] \in Result
BY ResultIs

LEMMA FirstIsAField ==
  ASSUME NEW r \in Result, NEW t \in Nat
  PROVE  [r EXCEPT !.ttft = t] \in Result
<1>1. t \in Moments
  BY DEF Moments
<1>2. QED
  BY <1>1, ResultIs

LEMMA LastIsAField ==
  ASSUME NEW r \in Result, NEW t \in Nat
  PROVE  [r EXCEPT !.last = t] \in Result
<1>1. t \in Moments
  BY DEF Moments
<1>2. QED
  BY <1>1, ResultIs

LEMMA GapsAreAField ==
  ASSUME NEW r \in Result, NEW gaps \in Seq(Nat)
  PROVE  [r EXCEPT !.itl = gaps] \in Result
<1>1. gaps \in GapLists
  BY DEF GapLists
<1>2. QED
  BY <1>1, ResultIs

LEMMA DurationIsAField ==
  ASSUME NEW r \in Result, NEW t \in Nat
  PROVE  [r EXCEPT !.e2e = t] \in Result
BY ResultIs

LEMMA ReadIsAField ==
  ASSUME NEW r \in Result, NEW n \in Nat
  PROVE  [r EXCEPT !.read = n] \in Result
BY ResultIs

------------------------------------------------------------------------------
(* The gaps of a result. *)

\* The sum of the first gaps is a number and grows by one gap at a time.
LEMMA GapsAddUp ==
  ASSUME NEW itl \in Seq(Nat), NEW m \in Nat, m <= Len(itl)
  PROVE  /\ SumOf(itl, 1..m) \in Nat
         /\ m = 0 => SumOf(itl, 1..m) = 0
         /\ m > 0 => SumOf(itl, 1..m) = itl[m] + SumOf(itl, 1..(m - 1))
<1> DEFINE S == 1..m
           f == [i \in S |-> itl[i]]
<1>1. IsFiniteSet(S)
  <2>1. 1 \in Int /\ m \in Int
    OBVIOUS
  <2>2. QED
    BY <2>1, FS_Interval, Zenon
<1>2. f \in [S -> Nat] /\ \A i \in S : itl[i] = f[i]
  OBVIOUS
<1>3. SumOf(itl, S) = SumOf(f, S)
  BY <1>1, <1>2, SumsAgree
<1>4. SumOf(f, S) \in Nat
  BY <1>1, <1>2, SumOfNaturals
<1>5. ASSUME m = 0 PROVE SumOf(f, S) = 0
  <2>1. \A i \in S : f[i] = 0
    BY <1>5
  <2> HIDE DEF f, S
  <2>2. QED
    BY <1>1, <1>2, <2>1, SumIsZero
<1>6. ASSUME m > 0 PROVE SumOf(itl, S) = itl[m] + SumOf(itl, 1..(m - 1))
  <2>1. m \in S /\ S \ {m} = 1..(m - 1) /\ f[m] = itl[m]
    BY <1>6
  <2>2. SumOf(f, S) = f[m] + SumOf(f, S \ {m})
    <3> HIDE DEF f, S
    <3>1. QED
      BY <1>1, <1>2, <2>1, SumWithout
  <2>3. SumOf(f, S \ {m}) = SumOf(itl, S \ {m})
    <3>1. IsFiniteSet(S \ {m}) /\ \A i \in S \ {m} : f[i] = itl[i]
      BY <1>1, <1>2, FS_Subset
    <3> HIDE DEF f, S
    <3>2. QED
      BY <3>1, SumsAgree
  <2>4. QED
    BY <1>3, <2>1, <2>2, <2>3
<1>7. QED
  BY <1>3, <1>4, <1>5, <1>6

\* A further gap leaves the sums of those before it.
LEMMA GapsBeforeStay ==
  ASSUME NEW itl \in Seq(Nat), NEW gap \in Nat, NEW m \in Nat, m <= Len(itl)
  PROVE  SumOf(Append(itl, gap), 1..m) = SumOf(itl, 1..m)
<1>1. IsFiniteSet(1..m)
  <2>1. 1 \in Int /\ m \in Int
    OBVIOUS
  <2>2. QED
    BY <2>1, FS_Interval, Zenon
<1>2. \A i \in 1..m : Append(itl, gap)[i] = itl[i]
  OBVIOUS
<1>3. QED
  BY <1>1, <1>2, SumsAgree

------------------------------------------------------------------------------
(* The tokens of a result. *)

SeenIn(w, r) == {j \in 1..r.read : w[j].kind = "content"}
WhichOf(lines, j) == Cardinality({k \in lines : k <= j})

\* The result r agrees with the lines w.
Timely(w, r) ==
  LET there == SeenIn(w, r)
      n == Cardinality(there)
  IN  /\ Observed(r) = n
      /\ (r.ttft = NONE) = (n = 0)
      /\ (r.last = NONE) = (n = 0)
      /\ \A j \in there : TokenAt(r, WhichOf(there, j)) >= w[j].at
      /\ n > 0 => TokenAt(r, n) = r.last

\* The lines read are finitely many, and each token is one of the first n.
LEMMA SeenIsFinite ==
  ASSUME NEW w, NEW r \in Result
  PROVE  /\ IsFiniteSet(SeenIn(w, r)) /\ Cardinality(SeenIn(w, r)) \in Nat
         /\ \A j \in SeenIn(w, r) : WhichOf(SeenIn(w, r), j) \in 1..Cardinality(SeenIn(w, r))
<1>1. IsFiniteSet(1..r.read)
  <2>1. 1 \in Int /\ r.read \in Int
    BY DEF Result
  <2>2. QED
    BY <2>1, FS_Interval, Zenon
<1>2. IsFiniteSet(SeenIn(w, r)) /\ Cardinality(SeenIn(w, r)) \in Nat
  BY <1>1, FS_Subset, FS_CardinalityType DEF SeenIn
<1>3. ASSUME NEW j \in SeenIn(w, r)
      PROVE  WhichOf(SeenIn(w, r), j) \in 1..Cardinality(SeenIn(w, r))
  <2> DEFINE upto == {k \in SeenIn(w, r) : k <= j}
  <2>1. upto \in SUBSET SeenIn(w, r) /\ j \in upto
    BY DEF SeenIn
  <2>2. IsFiniteSet(upto) /\ Cardinality(upto) <= Cardinality(SeenIn(w, r))
    BY <1>2, <2>1, FS_Subset
  <2>3. Cardinality(upto) \in Nat /\ Cardinality(upto) # 0
    BY <2>1, <2>2, FS_CardinalityType, FS_EmptySet
  <2>4. WhichOf(SeenIn(w, r), j) = Cardinality(upto)
    BY DEF WhichOf
  <2>5. QED
    BY <1>2, <2>2, <2>3, <2>4
<1>4. QED
  BY <1>2, <1>3

\* A time of a token is a start, a first token and gaps.
LEMMA TokenTimes ==
  ASSUME NEW r, NEW i
  PROVE  TokenAt(r, i) = r.start + r.ttft + SumOf(r.itl, 1..(i - 1))
BY DEF TokenAt, Total, SumOf

\* Before a line is read there is no token.
LEMMA NothingSeenYet ==
  ASSUME NEW w, NEW r \in Result, r.read = 0, r.ttft = NONE, r.last = NONE, r.itl = <<>>
  PROVE  Timely(w, r)
<1>1. SeenIn(w, r) = {}
  BY DEF SeenIn
<1>2. Cardinality(SeenIn(w, r)) = 0
  BY <1>1, FS_EmptySet
<1>3. Observed(r) = 0
  BY DEF Observed
<1>4. QED
  BY <1>1, <1>2, <1>3 DEF Timely

\* What agrees goes on to agree when no line with content is read.
LEMMA NoTokenSeen ==
  ASSUME NEW w, NEW r, NEW v, NEW q, Timely(w, r),
         SeenIn(v, q) = SeenIn(w, r), \A j \in SeenIn(w, r) : v[j] = w[j],
         q.start = r.start, q.ttft = r.ttft, q.itl = r.itl, q.last = r.last
  PROVE  Timely(v, q)
<1>1. \A i : TokenAt(q, i) = TokenAt(r, i)
  BY TokenTimes
<1>2. Observed(q) = Observed(r)
  BY DEF Observed
<1>3. QED
  BY <1>1, <1>2 DEF Timely

\* Reading a line with content adds one token, at the time it is read.
LEMMA TokenSeen ==
  ASSUME NEW w, NEW r \in Result, Timely(w, r), w[r.read + 1].kind = "content",
         NEW t \in Nat, w[r.read + 1].at <= t, r.start <= t, r.last <= t,
         NEW q \in Result, q.read = r.read + 1, q.start = r.start, q.last = t,
         IF r.last = NONE THEN q.ttft = t - r.start /\ q.itl = r.itl
                          ELSE q.ttft = r.ttft /\ q.itl = Append(r.itl, t - r.last)
  PROVE  Timely(w, q)
<1> DEFINE j == r.read + 1
           s == SeenIn(w, r)
           n == Cardinality(s)
<1>1. /\ r.start \in Nat /\ r.read \in Nat /\ r.itl \in Seq(Nat) /\ r.last \in Nat \cup {NONE}
      /\ r.ttft \in Nat \cup {NONE} /\ q.itl \in Seq(Nat)
  BY DEF Result
<1>2. IsFiniteSet(s) /\ n \in Nat /\ \A k \in s : WhichOf(s, k) \in 1..n
  BY SeenIsFinite
<1>3. j \notin s /\ SeenIn(w, q) = s \cup {j} /\ \A k \in s : k <= j /\ ~(j <= k) /\ k \in Nat
  <2>1. 1..(r.read + 1) = 1..r.read \cup {r.read + 1}
    BY <1>1
  <2>2. QED
    BY <1>1, <2>1 DEF SeenIn
<1>4. Cardinality(SeenIn(w, q)) = n + 1
  <2>1. IsFiniteSet(s) /\ j \notin s /\ SeenIn(w, q) = s \cup {j}
    BY <1>2, <1>3
  <2> HIDE DEF s, j
  <2>2. Cardinality(s \cup {j}) = Cardinality(s) + 1
    BY <2>1, FS_AddElement
  <2>3. QED
    BY <2>1, <2>2
<1>5. WhichOf(SeenIn(w, q), j) = n + 1
  <2>1. {k \in SeenIn(w, q) : k <= j} = SeenIn(w, q)
    BY <1>1, <1>3
  <2>2. QED
    BY <1>4, <2>1 DEF WhichOf
<1>6. \A k \in s : WhichOf(SeenIn(w, q), k) = WhichOf(s, k)
  <2>1. ASSUME NEW k \in s PROVE WhichOf(SeenIn(w, q), k) = WhichOf(s, k)
    <3>1. {l \in SeenIn(w, q) : l <= k} = {l \in s : l <= k}
      BY <1>3
    <3>2. QED
      BY <3>1 DEF WhichOf
  <2>2. QED
    BY <2>1
<1>7. /\ Observed(r) = n
      /\ (r.ttft = NONE) = (n = 0) /\ (r.last = NONE) = (n = 0)
      /\ \A k \in s : TokenAt(r, WhichOf(s, k)) >= w[k].at
      /\ n > 0 => TokenAt(r, n) = r.last
  BY DEF Timely
<1>8. Len(r.itl) = IF n = 0 THEN 0 ELSE n - 1
  <2>1. Len(r.itl) \in Nat
    BY <1>1
  <2>2. Len(r.itl) + (IF r.ttft # NONE THEN 1 ELSE 0) = n
    BY <1>7 DEF Observed
  <2> HIDE DEF s, n, j
  <2>3. CASE n = 0
    <3>1. r.ttft = NONE
      BY <1>7, <2>3
    <3>2. QED
      BY <2>1, <2>2, <2>3, <3>1
  <2>4. CASE n # 0
    <3>1. r.ttft # NONE
      BY <1>7, <2>4
    <3>2. QED
      BY <1>2, <2>1, <2>2, <2>4, <3>1
  <2>5. QED
    BY <2>3, <2>4
<1> HIDE DEF s, n, j
<1>9. CASE n = 0
  <2>1. q.ttft = t - r.start /\ q.itl = r.itl /\ q.ttft \in Nat /\ q.ttft # NONE
    BY <1>1, <1>7, <1>9 DEF NONE
  <2>2. Observed(q) = n + 1
    BY <1>8, <1>9, <2>1 DEF Observed
  <2>3. TokenAt(q, 1) = t
    <3>1. SumOf(q.itl, 1..0) = 0
      BY <1>1, GapsAddUp
    <3>2. TokenAt(q, 1) = q.start + q.ttft + SumOf(q.itl, 1..0)
      BY TokenTimes
    <3>3. QED
      BY <1>1, <2>1, <3>1, <3>2
  <2>4. s = {}
    BY <1>2, <1>9, FS_EmptySet DEF n
  <2>5. \A k \in SeenIn(w, q) : TokenAt(q, WhichOf(SeenIn(w, q), k)) >= w[k].at
    BY <1>3, <1>5, <1>9, <2>3, <2>4 DEF j
  <2>6. QED
    BY <1>4, <1>9, <2>1, <2>2, <2>3, <2>5 DEF Timely, NONE
<1>10. CASE n > 0
  <2>1. /\ q.ttft = r.ttft /\ r.ttft \in Nat /\ r.last \in Nat
        /\ q.itl = Append(r.itl, t - r.last) /\ t - r.last \in Nat
    BY <1>1, <1>7, <1>10, SMTT(30)
  <2>2. Len(r.itl) = n - 1 /\ Len(q.itl) = n /\ q.itl[n] = t - r.last
    BY <1>1, <1>2, <1>8, <1>10, <2>1, SMTT(30)
  <2>3. Observed(q) = n + 1
    <3>1. Observed(q) = Len(q.itl) + (IF q.ttft # NONE THEN 1 ELSE 0)
      BY DEF Observed
    <3>2. q.ttft # NONE
      BY <2>1 DEF NONE
    <3>3. QED
      BY <1>2, <2>2, <3>1, <3>2
  <2>4. ASSUME NEW i \in 1..n PROVE TokenAt(q, i) = TokenAt(r, i)
    <3>1. i - 1 \in Nat /\ i - 1 <= Len(r.itl)
      BY <1>2, <2>2
    <3>2. SumOf(q.itl, 1..(i - 1)) = SumOf(r.itl, 1..(i - 1))
      BY <1>1, <2>1, <3>1, GapsBeforeStay
    <3>3. QED
      BY <2>1, <3>2, TokenTimes
  <2>5. TokenAt(q, n + 1) = t
    <3>1. SumOf(q.itl, 1..n) = q.itl[n] + SumOf(q.itl, 1..(n - 1))
      <4>1. q.itl \in Seq(Nat) /\ n \in Nat /\ n <= Len(q.itl) /\ n > 0
        BY <1>1, <1>2, <1>10, <2>2
      <4>2. QED
        BY <4>1, GapsAddUp, Zenon
    <3>2. SumOf(q.itl, 1..(n - 1)) \in Nat
      BY <1>1, <1>2, <1>10, <2>2, GapsAddUp
    <3>3. /\ TokenAt(q, n) = q.start + q.ttft + SumOf(q.itl, 1..(n - 1))
          /\ TokenAt(q, n + 1) = q.start + q.ttft + SumOf(q.itl, 1..n)
      <4>1. n + 1 - 1 = n
        BY <1>2
      <4>2. TokenAt(q, n + 1) = q.start + q.ttft + SumOf(q.itl, 1..(n + 1 - 1))
        BY <1>2, TokenTimes
      <4>3. TokenAt(q, n) = q.start + q.ttft + SumOf(q.itl, 1..(n - 1))
        BY TokenTimes
      <4>4. QED
        BY <4>1, <4>2, <4>3
    <3>4. TokenAt(q, n) = r.last
      BY <1>2, <1>7, <1>10, <2>4
    <3>5. q.start + q.ttft \in Nat
      BY <1>1, <2>1
    <3>6. QED
      BY <2>1, <2>2, <3>1, <3>2, <3>3, <3>4, <3>5
  <2>6. \A k \in SeenIn(w, q) : TokenAt(q, WhichOf(SeenIn(w, q), k)) >= w[k].at
    <3>1. ASSUME NEW k \in s PROVE TokenAt(q, WhichOf(SeenIn(w, q), k)) >= w[k].at
      BY <1>2, <1>6, <1>7, <2>4
    <3>2. TokenAt(q, WhichOf(SeenIn(w, q), j)) >= w[j].at
      BY <1>5, <2>5 DEF j
    <3>3. QED
      BY <1>3, <3>1, <3>2
  <2>7. q.ttft # NONE /\ q.last # NONE /\ n + 1 # 0 /\ n + 1 > 0
    BY <1>2, <2>1 DEF NONE
  <2>8. QED
    BY <1>4, <2>3, <2>5, <2>6, <2>7 DEF Timely
<1>11. QED
  BY <1>2, <1>9, <1>10

------------------------------------------------------------------------------
(* The client's invariant. *)

\* Nothing is written before the answer begins, what is read comes with a 200, and
\* a request that is ok had one.
Stages ==
  /\ phase \in {"idle", "sent", "posted"} => wire = <<>>
  /\ phase = "reading" => result.status = 200
  /\ phase = "returned" /\ Ok(result) => result.status = 200

\* What has a time lies in the past, and a result's last token within the request.
Clocks ==
  /\ \A j \in 1..Len(wire) : wire[j].at <= now
  /\ result.start <= now /\ result.last <= now
  /\ phase = "returned" /\ result.last # NONE => result.last <= result.start + result.e2e

ClientInv == ClientTypeOK /\ Stages /\ Clocks /\ Timely(wire, result)

\* The parts in a form of their own, by what a line or a result is.
LEMMA ClientShapes ==
  ASSUME ClientTypeOK
  PROVE  /\ now \in Nat /\ Len(wire) \in Nat /\ result \in Result
         /\ DOMAIN wire = 1..Len(wire)
         /\ \A j \in 1..Len(wire) : wire[j].kind \in Lines /\ wire[j].at \in Nat
         /\ result.start \in Nat /\ result.read \in Nat /\ result.read <= Len(wire)
         /\ result.last \in Nat \cup {NONE} /\ result.itl \in Seq(Nat)
<1>1. now \in Nat /\ result \in Result /\ result.read <= Len(wire)
  BY ClientBounds DEF ClientTypeOK
<1> DEFINE T == [kind : Lines, at : 0..MaxClock]
<1>2. wire \in Seq(T)
  BY DEF ClientTypeOK
<1>3. /\ Len(wire) \in Nat /\ DOMAIN wire = 1..Len(wire)
      /\ \A j \in 1..Len(wire) : wire[j] \in T
  <2> HIDE DEF T
  <2>1. QED
    BY <1>2
<1>4. \A j \in 1..Len(wire) : wire[j].kind \in Lines /\ wire[j].at \in Nat
  BY <1>3, ClientBounds
<1>5. /\ result.start \in Nat /\ result.read \in Nat
      /\ result.last \in Nat \cup {NONE} /\ result.itl \in Seq(Nat)
  BY <1>1 DEF Result
<1>6. QED
  BY <1>1, <1>3, <1>4, <1>5

LEMMA ClientStarts ==
  ASSUME ClientInit
  PROVE  ClientInv
<1>1. ClientTypeOK
  BY ClientBounds DEF ClientInit, ClientTypeOK, Result, NONE
<1>2. Stages /\ Clocks
  BY DEF ClientInit, Stages, Clocks, NONE
<1>3. Timely(wire, result)
  <2>1. result \in Result
    BY <1>1, ClientShapes
  <2>2. result.read = 0 /\ result.ttft = NONE /\ result.last = NONE /\ result.itl = <<>>
    BY DEF ClientInit
  <2>3. QED
    BY <2>1, <2>2, NothingSeenYet
<1>4. QED
  BY <1>1, <1>2, <1>3 DEF ClientInv

\* A step that only sets other fields of the result, and no line.
Retains(r, q) ==
  /\ q.read = r.read /\ q.start = r.start /\ q.ttft = r.ttft
  /\ q.itl = r.itl /\ q.last = r.last

Failed(r, code) == [r EXCEPT !.status = code, !.error = TRUE]
Answered(r, code) == [r EXCEPT !.status = code]
Broken(r) == [r EXCEPT !.error = TRUE]

LEMMA StatusKeeps ==
  ASSUME NEW r \in Result, NEW code \in {0, 200, 500}
  PROVE  /\ Answered(r, code) \in Result /\ Retains(r, Answered(r, code))
         /\ Answered(r, code).status = code /\ Answered(r, code).error = r.error
<1>1. Answered(r, code) \in Result
  <2>1. code \in StatusCodes
    BY DEF StatusCodes
  <2>2. QED
    BY <2>1, StatusIsAField DEF Answered
<1>2. /\ Retains(r, Answered(r, code)) /\ Answered(r, code).status = code
      /\ Answered(r, code).error = r.error
  BY ResultIs DEF Answered, Retains
<1>3. QED
  BY <1>1, <1>2

LEMMA BreakingKeeps ==
  ASSUME NEW r \in Result
  PROVE  Broken(r) \in Result /\ Retains(r, Broken(r)) /\ Broken(r).error = TRUE
<1>1. Broken(r) \in Result
  BY ErrorIsAField DEF Broken
<1>2. Retains(r, Broken(r)) /\ Broken(r).error = TRUE
  BY ResultIs DEF Broken, Retains
<1>3. QED
  BY <1>1, <1>2

LEMMA FailureKeeps ==
  ASSUME NEW r \in Result, NEW code \in {0, 200, 500}
  PROVE  /\ Failed(r, code) \in Result /\ Retains(r, Failed(r, code))
         /\ Failed(r, code).error
<1>1. Broken(r) \in Result /\ Retains(r, Broken(r)) /\ Broken(r).error = TRUE
  BY BreakingKeeps
<1>2. Failed(r, code) = Answered(Broken(r), code)
  BY ResultIs DEF Failed, Answered, Broken
<1>3. /\ Failed(r, code) \in Result /\ Retains(Broken(r), Failed(r, code))
      /\ Failed(r, code).error = TRUE
  BY <1>1, <1>2, StatusKeeps
<1>4. Retains(r, Failed(r, code))
  BY <1>1, <1>3 DEF Retains
<1>5. QED
  BY <1>3, <1>4

LEMMA KeepsTimes ==
  ASSUME Timely(wire, result), wire' = wire, Retains(result, result')
  PROVE  Timely(wire, result)'
<1>1. SeenIn(wire', result') = SeenIn(wire, result)
  BY DEF SeenIn, Retains
<1>2. Timely(wire', result')
  BY <1>1, NoTokenSeen DEF Retains
<1>3. QED
  BY <1>2

\* The way out, from a result in which nothing but the verdict has changed.
LEMMA ReturnKeeps ==
  ASSUME ClientInv, NEW r \in Result, Retains(result, r), Returns(r),
         ~r.error => r.status = 200, UNCHANGED <<now, wire, closing>>
  PROVE  ClientInv'
<1>1. /\ now \in Nat /\ result.start \in Nat /\ result.start <= now
      /\ result.last \in Nat \cup {NONE} /\ result.last <= now /\ now - r.start \in Nat
  BY ClientShapes DEF ClientInv, Clocks, Retains
<1>2. /\ result' \in Result /\ Retains(result, result') /\ phase' = "returned"
      /\ result'.error = r.error /\ result'.status = r.status /\ result'.e2e = now - r.start
  <2> DEFINE took == now - r.start
  <2>1. took \in Nat /\ result' = [r EXCEPT !.e2e = took] /\ phase' = "returned"
    BY <1>1 DEF Returns
  <2> HIDE DEF took
  <2>2. result' \in Result
    BY <2>1, DurationIsAField
  <2>3. /\ result'.e2e = took /\ result'.error = r.error /\ result'.status = r.status
        /\ Retains(r, result')
    BY <2>1, ResultIs DEF Retains
  <2>4. Retains(result, result')
    BY <2>3 DEF Retains
  <2>5. QED
    BY <2>1, <2>2, <2>3, <2>4 DEF took
<1>3. ClientTypeOK'
  BY <1>2 DEF ClientInv, ClientTypeOK, Retains
<1>4. Stages'
  BY <1>2 DEF Stages, Ok
<1>5. Clocks'
  <2>1. result'.start = result.start /\ result'.last = result.last
    BY <1>2 DEF Retains
  <2>2. result'.start + result'.e2e = now
    BY <1>1, <1>2 DEF Retains
  <2>3. QED
    BY <1>1, <2>1, <2>2 DEF ClientInv, Clocks
<1>6. Timely(wire, result)'
  BY <1>2, KeepsTimes DEF ClientInv
<1>7. QED
  BY <1>3, <1>4, <1>5, <1>6 DEF ClientInv

LEMMA TickKeeps ==
  ASSUME ClientInv, Tick
  PROVE  ClientInv'
<1>1. ClientTypeOK'
  BY ClientBounds DEF ClientInv, ClientTypeOK, Tick
<1>2. Stages' /\ Timely(wire, result)'
  BY KeepsTimes DEF ClientInv, Stages, Tick, Retains, Ok
<1>3. Clocks'
  <2>1. now \in Nat /\ now' = now + 1 /\ wire' = wire /\ result' = result /\ phase' = phase
    BY ClientShapes DEF ClientInv, Tick
  <2>2. \A j \in 1..Len(wire) : wire[j].at \in Nat
    BY ClientShapes DEF ClientInv
  <2>3. result.start \in Int /\ result.last \in Int
    BY ClientShapes DEF ClientInv, NONE
  <2>4. QED
    BY <2>1, <2>2, <2>3 DEF ClientInv, Clocks
<1>4. QED
  BY <1>1, <1>2, <1>3 DEF ClientInv

LEMMA SendsKeeps ==
  ASSUME ClientInv, Sends
  PROVE  ClientInv'
<1>1. /\ phase = "idle" /\ phase' \in {"sent", "posted"} /\ wire = <<>> /\ wire' = wire
      /\ result' = [result EXCEPT !.start = now] /\ now' = now /\ closing' = closing
  BY DEF Sends, ClientInv, Stages
<1>2. now \in Nat /\ result \in Result /\ result.read = 0
  BY <1>1, ClientShapes DEF ClientInv
<1>3. /\ result' \in Result /\ result'.read = 0 /\ result'.start = now
      /\ result'.last = result.last /\ result'.ttft = result.ttft /\ result'.itl = result.itl
  <2>1. now \in Nat /\ result' = [result EXCEPT !.start = now] /\ result \in Result
    BY <1>1, <1>2
  <2>2. result' \in Result
    BY <2>1, StartIsAField
  <2>3. QED
    BY <1>2, <2>1, <2>2, ResultIs
<1>4. ClientTypeOK'
  BY <1>1, <1>2, <1>3 DEF ClientInv, ClientTypeOK
<1>5. Stages' /\ Clocks'
  BY <1>1, <1>2, <1>3 DEF ClientInv, Stages, Clocks
<1>6. result.ttft = NONE /\ result.last = NONE /\ result.itl = <<>>
  <2>1. SeenIn(wire, result) = {}
    BY <1>2 DEF SeenIn
  <2>2. Cardinality(SeenIn(wire, result)) = 0
    BY <2>1, FS_EmptySet
  <2>3. result.ttft = NONE /\ result.last = NONE /\ Observed(result) = 0
    BY <2>2 DEF ClientInv, Timely
  <2>4. Len(result.itl) = 0 /\ result.itl \in Seq(Nat)
    BY <1>2, <2>3 DEF Observed, Result
  <2>5. QED
    BY <2>3, <2>4
<1>7. Timely(wire', result')
  BY <1>3, <1>6, NothingSeenYet
<1>8. QED
  BY <1>4, <1>5, <1>7 DEF ClientInv

LEMMA AnswersKeeps ==
  ASSUME ClientInv, Answers
  PROVE  ClientInv'
<1>0. result \in Result
  BY ClientShapes DEF ClientInv
<1>1. CASE phase' = "reading" /\ result' = [result EXCEPT !.status = 200]
  <2>0. result' = Answered(result, 200)
    BY <1>1 DEF Answered
  <2>1. /\ result' \in Result /\ Retains(result, result') /\ result'.status = 200
        /\ wire' = wire /\ now' = now /\ closing' = closing
    BY <1>0, <2>0, StatusKeeps DEF Answers
  <2>2. ClientTypeOK' /\ Stages' /\ Clocks'
    BY <1>1, <2>1 DEF ClientInv, ClientTypeOK, Stages, Clocks, Retains
  <2>3. Timely(wire, result)'
    BY <2>1, KeepsTimes DEF ClientInv
  <2>4. QED
    BY <2>2, <2>3 DEF ClientInv
<1>2. CASE Returns([result EXCEPT !.status = 500, !.error = TRUE])
  <2>1. Returns(Failed(result, 500))
    BY <1>2 DEF Failed
  <2>2. Failed(result, 500) \in Result /\ Retains(result, Failed(result, 500))
        /\ Failed(result, 500).error
    BY <1>0, FailureKeeps
  <2>3. QED
    BY <2>1, <2>2, ReturnKeeps DEF Answers
<1>3. QED
  BY <1>1, <1>2 DEF Answers

LEMMA AnswersWholeKeeps ==
  ASSUME ClientInv, AnswersWhole
  PROVE  ClientInv'
<1>0. result \in Result
  BY ClientShapes DEF ClientInv
<1>1. CASE Returns([result EXCEPT !.status = 200])
  <2> DEFINE r == [result EXCEPT !.status = 200]
  <2>1. r = Answered(result, 200)
    BY DEF Answered
  <2> HIDE DEF r
  <2>2. r \in Result /\ Retains(result, r) /\ r.status = 200
    BY <1>0, <2>1, StatusKeeps
  <2>3. Returns(r)
    BY <1>1 DEF r
  <2>4. QED
    BY <2>2, <2>3, ReturnKeeps DEF AnswersWhole
<1>2. CASE Returns([result EXCEPT !.status = 200, !.error = TRUE])
  <2>1. Returns(Failed(result, 200))
    BY <1>2 DEF Failed
  <2>2. Failed(result, 200) \in Result /\ Retains(result, Failed(result, 200))
        /\ Failed(result, 200).error
    BY <1>0, FailureKeeps
  <2>3. QED
    BY <2>1, <2>2, ReturnKeeps DEF AnswersWhole
<1>3. CASE Returns([result EXCEPT !.status = 500, !.error = TRUE])
  <2>1. Returns(Failed(result, 500))
    BY <1>3 DEF Failed
  <2>2. Failed(result, 500) \in Result /\ Retains(result, Failed(result, 500))
        /\ Failed(result, 500).error
    BY <1>0, FailureKeeps
  <2>3. QED
    BY <2>1, <2>2, ReturnKeeps DEF AnswersWhole
<1>4. QED
  BY <1>1, <1>2, <1>3 DEF AnswersWhole

LEMMA FailsKeeps ==
  ASSUME ClientInv, Fails
  PROVE  ClientInv'
<1> DEFINE r == [result EXCEPT !.error = TRUE]
<1>1. r \in Result /\ Retains(result, r) /\ r.error
  <2>1. result \in Result
    BY ClientShapes DEF ClientInv
  <2>2. r = Broken(result)
    BY DEF Broken
  <2> HIDE DEF r
  <2>3. QED
    BY <2>1, <2>2, BreakingKeeps
<1>2. QED
  BY <1>1, ReturnKeeps DEF Fails

LEMMA StreamEndsKeeps ==
  ASSUME ClientInv, StreamEnds
  PROVE  ClientInv'
<1>1. result \in Result /\ Retains(result, result) /\ result.status = 200
  BY ClientShapes DEF ClientInv, Stages, StreamEnds, Retains
<1>2. QED
  BY <1>1, ReturnKeeps DEF StreamEnds

LEMMA ClosesKeeps ==
  ASSUME ClientInv, Closes
  PROVE  ClientInv'
<1>1. wire' = wire /\ result' = result /\ now' = now /\ phase' = phase
  BY DEF Closes
<1>2. ClientTypeOK' /\ Stages' /\ Clocks'
  BY <1>1 DEF ClientInv, ClientTypeOK, Stages, Clocks, Closes, Ok
<1>3. Timely(wire, result)'
  BY <1>1, KeepsTimes DEF ClientInv, Retains
<1>4. QED
  BY <1>2, <1>3 DEF ClientInv

LEMMA WritesKeeps ==
  ASSUME ClientInv, NEW kind \in Lines, Writes(kind)
  PROVE  ClientInv'
<1>1. /\ wire' = Append(wire, [kind |-> kind, at |-> now]) /\ phase = "reading"
      /\ now' = now /\ phase' = phase /\ result' = result /\ closing' = closing
  BY DEF Writes
<1>2. now \in 0..MaxClock /\ wire \in Seq([kind : Lines, at : 0..MaxClock])
  BY DEF ClientInv, ClientTypeOK
<1>3. /\ wire' \in Seq([kind : Lines, at : 0..MaxClock]) /\ Len(wire') = Len(wire) + 1
      /\ \A j \in 1..Len(wire) : wire'[j] = wire[j]
      /\ wire'[Len(wire) + 1].at = now
  BY <1>1, <1>2
<1>4. ClientTypeOK'
  <2>1. result.read \in Nat /\ Len(wire) \in Nat /\ result.read <= Len(wire)
    BY ClientShapes DEF ClientInv
  <2>2. result'.read <= Len(wire')
    BY <1>1, <1>3, <2>1
  <2>3. QED
    BY <1>1, <1>3, <2>2 DEF ClientInv, ClientTypeOK
<1>5. Stages'
  BY <1>1 DEF ClientInv, Stages, Ok
<1>6. Clocks'
  <2>1. Len(wire) \in Nat /\ now \in Nat
    BY ClientShapes DEF ClientInv
  <2>2. ASSUME NEW j \in 1..Len(wire') PROVE wire'[j].at <= now
    <3>1. j \in 1..Len(wire) \/ j = Len(wire) + 1
      BY <1>3, <2>1
    <3>2. QED
      BY <1>3, <2>1, <3>1 DEF ClientInv, Clocks
  <2>3. QED
    BY <1>1, <2>2 DEF ClientInv, Clocks
<1>7. Timely(wire', result')
  <2>1. SeenIn(wire', result') = SeenIn(wire, result)
        /\ \A j \in SeenIn(wire, result) : wire'[j] = wire[j]
    BY <1>1, <1>3, ClientShapes DEF SeenIn, ClientInv
  <2>2. QED
    BY <1>1, <2>1, NoTokenSeen DEF ClientInv
<1>8. QED
  BY <1>4, <1>5, <1>6, <1>7 DEF ClientInv

\* Reading a line: the sentinel ends the request, content adds a token, the rest is
\* passed over.
LEMMA ReadsKeeps ==
  ASSUME ClientInv, ReadsLine
  PROVE  ClientInv'
<1> DEFINE j == result.read + 1
           res == [result EXCEPT !.read = @ + 1]
<1>1. /\ phase = "reading" /\ result.read < Len(wire) /\ result.status = 200
      /\ now' = now /\ wire' = wire /\ closing' = closing
      /\ result \in Result /\ result.read \in Nat /\ Len(wire) \in Nat /\ now \in Nat
      /\ result.start \in Nat /\ result.last \in Nat \cup {NONE} /\ result.itl \in Seq(Nat)
      /\ result.start <= now /\ result.last <= now
  BY ClientShapes DEF ReadsLine, ClientInv, Stages, Clocks
<1>2. j \in 1..Len(wire) /\ j \in Nat /\ wire[j].at <= now /\ wire[j].kind \in Lines
  <2>1. j \in 1..Len(wire) /\ j \in Nat
    BY <1>1
  <2>2. QED
    BY <2>1, ClientShapes DEF ClientInv, Clocks
<1>3. /\ res \in Result /\ res.read = j /\ res.start = result.start /\ res.ttft = result.ttft
      /\ res.itl = result.itl /\ res.last = result.last /\ res.status = 200
      /\ res.error = result.error
  <2>1. res = [result EXCEPT !.read = j] /\ j \in Nat /\ result \in Result
    BY <1>1, <1>2 DEF Result
  <2> HIDE DEF j, res
  <2>2. res \in Result
    BY <2>1, ReadIsAField
  <2>3. QED
    BY <1>1, <2>1, <2>2, ResultIs
<1>4. wire[j].kind # "content" => SeenIn(wire, res) = SeenIn(wire, result)
  <2>1. 1..j = 1..result.read \cup {j}
    BY <1>1
  <2> HIDE DEF res
  <2>2. QED
    BY <1>3, <2>1 DEF SeenIn
<1>5. \/ wire[j].kind = "done" /\ Returns(res)
      \/ wire[j].kind = "content" /\ result' = Timed(res) /\ phase' = phase
      \/ wire[j].kind \in {"bare", "other"} /\ result' = res /\ phase' = phase
  BY <1>2 DEF ReadsLine, Tokens, Lines, Deltas
<1> HIDE DEF res
<1>6. CASE wire[j].kind = "done" /\ Returns(res)
  <2>1. now - res.start \in Nat
    BY <1>1, <1>3
  <2>2. /\ result' \in Result /\ phase' = "returned" /\ result'.e2e = now - res.start
        /\ Retains(res, result') /\ result'.status = 200
    <3> DEFINE took == now - res.start
    <3>1. result' = [res EXCEPT !.e2e = took] /\ phase' = "returned"
      BY <1>6 DEF Returns
    <3>2. took \in Nat /\ res \in Result
      BY <1>3, <2>1
    <3> HIDE DEF took
    <3>3. result' \in Result
      BY <3>1, <3>2, DurationIsAField
    <3>4. result'.e2e = took /\ Retains(res, result') /\ result'.status = 200
      BY <1>3, <3>1, <3>2, ResultIs DEF Retains
    <3>5. QED
      BY <3>1, <3>3, <3>4 DEF took
  <2>3. /\ result'.read = j /\ result'.start = result.start /\ result'.ttft = result.ttft
        /\ result'.itl = result.itl /\ result'.last = result.last
    BY <1>3, <2>2 DEF Retains
  <2>4. ClientTypeOK' /\ Stages'
    BY <1>1, <1>2, <2>2, <2>3 DEF ClientInv, ClientTypeOK, Stages
  <2>5. Clocks'
    BY <1>1, <1>3, <2>2, <2>3 DEF ClientInv, Clocks
  <2>6. SeenIn(wire', result') = SeenIn(wire, result)
    BY <1>1, <1>3, <1>4, <1>6, <2>3 DEF SeenIn
  <2>7. Timely(wire', result')
    BY <1>1, <2>3, <2>6, NoTokenSeen DEF ClientInv
  <2>8. QED
    BY <2>4, <2>5, <2>7 DEF ClientInv
<1>7. CASE wire[j].kind = "content" /\ result' = Timed(res) /\ phase' = phase
  <2>1. /\ result' \in Result /\ result'.read = j /\ result'.start = result.start
        /\ result'.last = now /\ result'.status = 200
        /\ IF result.last = NONE
             THEN result'.ttft = now - result.start /\ result'.itl = result.itl
             ELSE result'.ttft = result.ttft /\ result'.itl = Append(result.itl, now - result.last)
    <3>1. CASE res.last = NONE
      <4>1. result' = [res EXCEPT !.ttft = now - res.start, !.last = now]
        BY <1>7, <3>1 DEF Timed
      <4>2. now - res.start \in Nat
        BY <1>1, <1>3
      <4>3. result' \in Result
        <5> DEFINE q == [res EXCEPT !.ttft = now - res.start]
        <5>1. q \in Result
          BY <1>3, <4>2, FirstIsAField
        <5>2. result' = [q EXCEPT !.last = now]
          BY <1>3, <4>1, ResultIs
        <5> HIDE DEF q
        <5>3. QED
          BY <1>1, <5>1, <5>2, LastIsAField
      <4>4. /\ result'.read = res.read /\ result'.start = res.start /\ result'.last = now
            /\ result'.status = res.status /\ result'.ttft = now - res.start
            /\ result'.itl = res.itl
        BY <1>3, <4>1, ResultIs
      <4>5. QED
        BY <1>3, <3>1, <4>3, <4>4
    <3>2. CASE res.last # NONE
      <4>1. result' = [res EXCEPT !.itl = Append(res.itl, now - res.last), !.last = now]
        BY <1>3, <1>7, <3>2 DEF Timed, Result
      <4>2. now - res.last \in Nat /\ Append(res.itl, now - res.last) \in Seq(Nat)
        BY <1>1, <1>3, <3>2
      <4>3. result' \in Result
        <5> DEFINE q == [res EXCEPT !.itl = Append(res.itl, now - res.last)]
        <5>1. q \in Result
          BY <1>3, <4>2, GapsAreAField
        <5>2. result' = [q EXCEPT !.last = now]
          BY <1>3, <4>1, ResultIs
        <5> HIDE DEF q
        <5>3. QED
          BY <1>1, <5>1, <5>2, LastIsAField
      <4>4. /\ result'.read = res.read /\ result'.start = res.start /\ result'.last = now
            /\ result'.status = res.status /\ result'.ttft = res.ttft
            /\ result'.itl = Append(res.itl, now - res.last)
        BY <1>3, <4>1, ResultIs
      <4>5. QED
        BY <1>3, <3>2, <4>3, <4>4
    <3>3. QED
      BY <3>1, <3>2
  <2>2. ClientTypeOK' /\ Stages'
    BY <1>1, <1>2, <1>7, <2>1 DEF ClientInv, ClientTypeOK, Stages
  <2>3. Clocks'
    BY <1>1, <1>7, <2>1 DEF ClientInv, Clocks
  <2>4. Timely(wire, result')
    <3>1. /\ result \in Result /\ Timely(wire, result) /\ now \in Nat
          /\ result.start <= now /\ result.last <= now
      BY <1>1 DEF ClientInv
    <3>2. wire[result.read + 1].kind = "content" /\ wire[result.read + 1].at <= now
      BY <1>2, <1>7
    <3>3. result'.read = result.read + 1
      BY <2>1
    <3> HIDE DEF j
    <3>4. QED
      BY <2>1, <3>1, <3>2, <3>3, TokenSeen
  <2>5. QED
    BY <1>1, <2>2, <2>3, <2>4 DEF ClientInv
<1>8. CASE wire[j].kind \in {"bare", "other"} /\ result' = res /\ phase' = phase
  <2>1. ClientTypeOK' /\ Stages' /\ Clocks'
    BY <1>1, <1>2, <1>3, <1>8 DEF ClientInv, ClientTypeOK, Stages, Clocks
  <2>2. Timely(wire', result')
    BY <1>1, <1>3, <1>4, <1>8, NoTokenSeen, SMTT(30) DEF ClientInv
  <2>3. QED
    BY <2>1, <2>2 DEF ClientInv
<1>9. QED
  BY <1>5, <1>6, <1>7, <1>8

LEMMA ClientStep ==
  ASSUME ClientInv, [ClientNext]_client
  PROVE  ClientInv'
<1>1. CASE ClientNext
  <2>1. \/ Tick \/ Sends \/ Answers \/ AnswersWhole \/ Fails \/ ReadsLine \/ StreamEnds
        \/ Closes \/ \E kind \in Lines : Writes(kind)
    BY <1>1 DEF ClientNext
  <2>2. QED
    BY <2>1, TickKeeps, SendsKeeps, AnswersKeeps, AnswersWholeKeeps, FailsKeeps, ReadsKeeps,
       StreamEndsKeeps, ClosesKeeps, WritesKeeps, Zenon
<1>2. CASE UNCHANGED client
  <2>1. now' = now /\ phase' = phase /\ wire' = wire /\ closing' = closing /\ result' = result
    BY <1>2 DEF client
  <2>2. ClientTypeOK' /\ Stages' /\ Clocks'
    BY <2>1 DEF ClientInv, ClientTypeOK, Stages, Clocks, Ok
  <2>3. Timely(wire, result)'
    BY <2>1 DEF ClientInv
  <2>4. QED
    BY <2>2, <2>3 DEF ClientInv
<1>3. QED
  BY <1>1, <1>2

\* The invariant says it all but the mean gap, which is one more sum: all gaps together
\* are the time from the first token to the last.
LEMMA TheInvariantIsEnough ==
  ASSUME ClientInv
  PROVE  TimesAreTheStream
<1> DEFINE n == Cardinality(Seen)
<1>1. Seen = SeenIn(wire, result) /\ \A j : Which(j) = WhichOf(SeenIn(wire, result), j)
  BY DEF Seen, SeenIn, Which, WhichOf
<1>2. /\ Observed(result) = n /\ (result.ttft = NONE) = (n = 0) /\ (result.last = NONE) = (n = 0)
      /\ \A j \in Seen : TokenAt(result, Which(j)) >= wire[j].at
      /\ n > 0 => TokenAt(result, n) = result.last
  BY <1>1 DEF ClientInv, Timely
<1>3. n \in Nat /\ result \in Result
  BY <1>1, SeenIsFinite, ClientShapes DEF ClientInv
<1>4. /\ result.start \in Nat /\ result.ttft \in Nat \cup {NONE} /\ result.itl \in Seq(Nat)
      /\ result.last \in Nat \cup {NONE} /\ Len(result.itl) \in Nat
  BY <1>3 DEF Result
<1>5. Len(result.itl) + (IF result.ttft # NONE THEN 1 ELSE 0) = n
  BY <1>2 DEF Observed
<1> HIDE DEF n
<1>6. ASSUME n > 1 PROVE Tpot(result) = <<result.last - TokenAt(result, 1), n - 1>>
  <2>1. result.ttft # NONE /\ result.ttft \in Nat /\ Len(result.itl) = n - 1
    <3>1. n # 0
      BY <1>6
    <3>2. result.ttft # NONE
      BY <1>2, <3>1
    <3>3. QED
      BY <1>3, <1>4, <1>5, <3>2
  <2>2. SumOf(result.itl, 1..0) = 0 /\ SumOf(result.itl, 1..(n - 1)) \in Nat
    <3>1. n - 1 \in Nat /\ n - 1 <= Len(result.itl)
      BY <1>3, <1>6, <2>1
    <3>2. SumOf(result.itl, 1..(n - 1)) \in Nat
      BY <1>4, <3>1, GapsAddUp
    <3>3. SumOf(result.itl, 1..0) = 0
      BY <1>4, GapsAddUp
    <3>4. QED
      BY <3>2, <3>3
  <2>3. /\ TokenAt(result, 1) = result.start + result.ttft + SumOf(result.itl, 1..0)
        /\ TokenAt(result, n) = result.start + result.ttft + SumOf(result.itl, 1..(n - 1))
    BY <1>3, TokenTimes
  <2>4. Tpot(result) = <<SumOf(result.itl, 1..(n - 1)), n - 1>>
    BY <2>1 DEF Tpot, Total, SumOf
  <2>5. TokenAt(result, n) = result.last
    BY <1>2, <1>3, <1>6
  <2>6. SumOf(result.itl, 1..(n - 1)) = result.last - TokenAt(result, 1)
    BY <1>4, <2>1, <2>2, <2>3, <2>5
  <2>7. QED
    BY <2>4, <2>6
<1>7. ASSUME phase = "returned"
      PROVE  /\ n > 0 => TokenAt(result, n) <= result.start + result.e2e
             /\ Ok(result) => result.status = 200
  <2>1. n > 0 => result.last # NONE
    BY <1>2, <1>3
  <2>2. QED
    BY <1>2, <1>7, <2>1 DEF ClientInv, Clocks, Stages
<1>8. QED
  BY <1>2, <1>6, <1>7 DEF TimesAreTheStream, n

\* The invariant of a request, whatever the server does.
THEOREM ClientInvariant == ClientSpec => []ClientInv
<1>1. ClientInit => ClientInv
  BY ClientStarts
<1>2. ClientInv /\ [ClientNext]_client => ClientInv'
  BY ClientStep
<1>3. QED
  BY <1>1, <1>2, PTL DEF ClientSpec

\* The times and counts of a result are those of the stream (EngineClient.chat_stream),
\* for any number of lines of any kind, read as late as it may be.
THEOREM TimesAreTrue == ClientSpec => []TimesAreTheStream
<1>1. ClientInv => TimesAreTheStream
  BY TheInvariantIsEnough
<1>2. QED
  BY <1>1, ClientInvariant, PTL

------------------------------------------------------------------------------
(* One variant's curve. *)

\* A report: steps, of which what was sent has a rate above zero.
IsCurve(report) ==
  /\ report \in Seq(Steps)
  /\ \A i \in DOMAIN report : report[i].sent > 0 => report[i].rate > 0

\* The steps in the order of their rates: the same steps, the rates rising.
LEMMA OrderedSteps ==
  ASSUME NEW report, IsCurve(report)
  PROVE  LET n == Len(report)
             steps == Ordered(report)
         IN  /\ n \in Nat /\ DOMAIN report = 1..n /\ DOMAIN steps = 1..n /\ Len(steps) = n
             /\ \A k \in 1..n : steps[k] \in Steps /\ (steps[k].sent > 0 => steps[k].rate > 0)
             /\ \A i \in 1..n : \E k \in 1..n : steps[k] = report[i]
             /\ \A k, l \in 1..n : k < l => steps[k].rate <= steps[l].rate
             /\ RatesDiffer(report) =>
                  \A k, l \in 1..n : k < l /\ steps[k].rate > 0 => steps[k].rate < steps[l].rate
<1> DEFINE n == Len(report)
           steps == Ordered(report)
           key == Rates(report)
           r == Order(key)
<1>1. n \in Nat /\ DOMAIN report = 1..n /\ \A i \in 1..n : report[i] \in Steps
  BY DEF IsCurve
<1>2. Keys(key, n) /\ \A i \in 1..n : key[i] = report[i].rate
  BY <1>1 DEF Keys, Rates, Steps
<1>3. /\ r \in Bijection(1..n, 1..n)
      /\ steps = [k \in 1..n |-> report[r[k]]]
      /\ \A k, l \in 1..n : k < l => Before(key, r[k], r[l])
  BY <1>1, <1>2, SortingMovesRows DEF Ordered
<1> HIDE DEF n, steps, key, r
<1>4. /\ \A k \in 1..n : r[k] \in 1..n
      /\ \A i \in 1..n : \E k \in 1..n : r[k] = i
  BY <1>3 DEF Bijection, Surjection
<1>5. \A k \in 1..n : r[k] \in 1..n /\ steps[k] = report[r[k]]
  BY <1>3, <1>4
<1>6. ASSUME NEW k \in 1..n
      PROVE  steps[k] \in Steps /\ (steps[k].sent > 0 => steps[k].rate > 0)
  BY <1>1, <1>5 DEF IsCurve
<1>7. ASSUME NEW i \in 1..n PROVE \E k \in 1..n : steps[k] = report[i]
  BY <1>4, <1>5
<1>8. ASSUME NEW k \in 1..n, NEW l \in 1..n, k < l
      PROVE  /\ steps[k].rate <= steps[l].rate
             /\ RatesDiffer(report) /\ steps[k].rate > 0 => steps[k].rate < steps[l].rate
  <2>1. /\ Before(key, r[k], r[l]) /\ r[k] \in 1..n /\ r[l] \in 1..n
        /\ key[r[k]] = steps[k].rate /\ key[r[l]] = steps[l].rate
        /\ report[r[k]].rate = steps[k].rate /\ report[r[l]].rate = steps[l].rate
    BY <1>2, <1>3, <1>5, <1>8
  <2>2. steps[k].rate \in Int /\ steps[l].rate \in Int
    BY <1>2, <2>1 DEF Keys
  <2>3. steps[k].rate <= steps[l].rate /\ r[k] # r[l]
    BY <1>1, <2>1, <2>2 DEF Before
  <2>4. ASSUME RatesDiffer(report), steps[k].rate > 0 PROVE steps[k].rate # steps[l].rate
    BY <1>1, <2>1, <2>3, <2>4 DEF RatesDiffer
  <2>5. QED
    BY <2>2, <2>3, <2>4
<1>9. DOMAIN steps = 1..n /\ Len(steps) = n
  <2>1. DOMAIN steps = 1..n /\ steps \in Seq(Steps)
    <3>1. steps \in [1..n -> Steps]
      BY <1>3, <1>5, <1>6
    <3>2. QED
      BY <1>1, <3>1, SeqDef
  <2>2. QED
    BY <1>1, <2>1
<1>10. QED
  BY <1>1, <1>6, <1>7, <1>8, <1>9 DEF n, steps

\* The last step before the first unhealthy one.
LEMMA SustainedStep ==
  ASSUME NEW report, IsCurve(report)
  PROVE  \E last \in 0..Len(report) :
           LET steps == Ordered(report) IN
           /\ MaxSustainable(report) = IF last = 0 THEN NoRate ELSE steps[last].rate
           /\ \A k \in 1..last : Healthy(steps[k])
           /\ last > 0 => MaxSustainable(report) > 0
<1> DEFINE n == Len(report)
           steps == Ordered(report)
           broken == {i \in DOMAIN steps : ~Healthy(steps[i])}
           last == IF broken = {} THEN Len(steps)
                   ELSE (CHOOSE i \in broken : \A j \in broken : i <= j) - 1
<1>1. n \in Nat /\ DOMAIN steps = 1..n /\ Len(steps) = n
  BY OrderedSteps
<1>2. \A k \in 1..n : steps[k] \in Steps /\ (steps[k].sent > 0 => steps[k].rate > 0)
  BY OrderedSteps
<1>3. MaxSustainable(report) = IF last = 0 THEN NoRate ELSE steps[last].rate
  BY DEF MaxSustainable
<1>4. last \in 0..n /\ \A k \in 1..last : k \in 1..n /\ Healthy(steps[k])
  <2>1. CASE broken = {}
    BY <1>1, <2>1
  <2>2. CASE broken # {}
    <3>1. broken \in SUBSET Nat
      BY <1>1
    <3>2. \E i \in broken : \A j \in broken : i <= j
      <4> HIDE DEF broken
      <4>1. QED
        BY <2>2, <3>1, LeastNumber
    <3>3. last + 1 \in broken /\ \A j \in broken : last + 1 <= j
      <4> DEFINE first == CHOOSE i \in broken : \A j \in broken : i <= j
      <4>1. first \in broken /\ \A j \in broken : first <= j
        BY <3>2
      <4>2. last = first - 1 /\ first \in Nat
        BY <2>2, <3>1, <4>1
      <4> HIDE DEF first, last, broken
      <4>3. last + 1 = first
        BY <4>2
      <4>4. QED
        BY <4>1, <4>3
    <3> HIDE DEF last
    <3>4. last + 1 \in 1..n
      BY <1>1, <3>3
    <3>5. last \in Int
      BY <2>2, <3>1, <3>2 DEF last
    <3>6. QED
      BY <1>1, <3>3, <3>4, <3>5
  <2>3. QED
    BY <2>1, <2>2
<1> HIDE DEF last, steps, n
<1>5. ASSUME last > 0 PROVE MaxSustainable(report) > 0
  <2>1. last \in 1..last /\ last # 0 /\ last \in 1..n
    BY <1>1, <1>4, <1>5
  <2>2. steps[last].rate > 0
    BY <1>2, <1>4, <2>1 DEF Healthy
  <2>3. QED
    BY <1>3, <2>1, <2>2
<1>6. QED
  BY <1>3, <1>4, <1>5 DEF n, steps

\* The latency quoted beside a sustainable rate is a healthy step's, there is one exactly
\* if there is such a rate, and every step up to that rate was healthy.
LEMMA RateIsSustained ==
  ASSUME NEW r, IsCurve(r.report), RatesDiffer(r.report), r.ran
  PROVE  /\ SustainableRate(r) \in Nat
         /\ \A s \in StepAtSustainable(r) : Healthy(s)
         /\ (SustainableRate(r) = NoRate) = (StepAtSustainable(r) = {})
         /\ \A k \in DOMAIN r.report :
              SustainableRate(r) # NoRate /\ r.report[k].rate <= SustainableRate(r)
                => Healthy(r.report[k])
<1> DEFINE n == Len(r.report)
           steps == Ordered(r.report)
           rate == SustainableRate(r)
           there == {i \in DOMAIN steps : steps[i].rate = rate}
           quoted == {j \in there : rate # NoRate /\ \A k \in there : j <= k}
<1>1. /\ n \in Nat /\ DOMAIN r.report = 1..n /\ DOMAIN steps = 1..n
      /\ \A k \in 1..n : steps[k] \in Steps
      /\ \A i \in 1..n : \E k \in 1..n : steps[k] = r.report[i]
      /\ \A k, l \in 1..n : k < l => steps[k].rate <= steps[l].rate
      /\ \A k, l \in 1..n : k < l /\ steps[k].rate > 0 => steps[k].rate < steps[l].rate
  BY OrderedSteps
<1>2. rate = MaxSustainable(r.report)
  BY DEF SustainableRate
<1>3. PICK last \in 0..n :
        /\ rate = IF last = 0 THEN NoRate ELSE steps[last].rate
        /\ \A k \in 1..last : Healthy(steps[k])
        /\ last > 0 => rate > 0
  BY <1>2, SustainedStep
<1>4. StepAtSustainable(r) = {steps[i] : i \in quoted}
  BY DEF StepAtSustainable
<1> HIDE DEF n, steps, rate
<1>5. \A k \in 1..n : steps[k].rate \in Nat
  BY <1>1 DEF Steps
<1>6. rate \in Nat /\ (rate = NoRate <=> last = 0)
  <2>1. CASE last = 0
    BY <1>3, <2>1 DEF NoRate
  <2>2. CASE last # 0
    <3>0. n \in Nat
      BY <1>1
    <3>1. last \in 1..n /\ last > 0
      BY <2>2, <3>0
    <3>2. rate = steps[last].rate /\ rate > 0
      BY <1>3, <3>1
    <3>3. QED
      BY <1>5, <2>2, <3>1, <3>2 DEF NoRate
  <2>3. QED
    BY <2>1, <2>2
<1>7. ASSUME NEW j \in quoted PROVE Healthy(steps[j])
  <2>1. last > 0 /\ last \in there /\ j \in 1..n
    BY <1>1, <1>3, <1>6
  <2>2. j <= last
    BY <2>1
  <2>3. j \in 1..last
    BY <1>1, <2>1, <2>2
  <2>4. QED
    BY <1>3, <2>3
<1>8. ASSUME last > 0 PROVE quoted # {}
  <2>1. last \in there /\ there \in SUBSET Nat /\ rate # NoRate
    <3>1. last \in 1..n /\ last # 0
      BY <1>1, <1>8
    <3>2. rate = steps[last].rate /\ rate # NoRate
      BY <1>3, <1>6, <3>1
    <3>3. QED
      BY <1>1, <3>1, <3>2
  <2>2. \E j \in there : \A k \in there : j <= k
    <3> HIDE DEF there
    <3>1. QED
      BY <2>1, LeastNumber
  <2>3. QED
    BY <2>1, <2>2
<1>9. last = 0 => quoted = {}
  BY <1>6
<1>10. ASSUME NEW k \in 1..n, rate # NoRate, r.report[k].rate <= rate
       PROVE  Healthy(r.report[k])
  <2>1. PICK p \in 1..n : steps[p] = r.report[k]
    BY <1>1
  <2>2. last \in 1..n /\ rate = steps[last].rate /\ rate > 0
    BY <1>1, <1>3, <1>6, <1>10
  <2>3. ~(last < p)
    <3>1. ASSUME last < p PROVE FALSE
      <4>1. steps[last].rate < steps[p].rate
        BY <1>1, <2>2, <3>1
      <4>2. steps[p].rate <= steps[last].rate
        BY <1>10, <2>1, <2>2
      <4>3. steps[p].rate \in Nat /\ steps[last].rate \in Nat
        BY <1>5, <2>2
      <4>4. QED
        BY <4>1, <4>2, <4>3
    <3>2. QED
      BY <3>1
  <2>4. p \in 1..last
    BY <1>1, <2>2, <2>3
  <2>5. QED
    BY <1>3, <2>1, <2>4
<1>11. (rate = NoRate) = (StepAtSustainable(r) = {})
  <2>1. rate = NoRate <=> quoted = {}
    BY <1>1, <1>3, <1>6, <1>8, <1>9
  <2>2. StepAtSustainable(r) = {} <=> quoted = {}
    BY <1>4
  <2>3. QED
    BY <2>1, <2>2
<1>12. QED
  BY <1>1, <1>4, <1>6, <1>7, <1>10, <1>11 DEF rate

\* Finitely many naturals have a greatest.
LEMMA GreatestOfFinite ==
  ASSUME NEW T \in SUBSET Nat, IsFiniteSet(T), T # {}
  PROVE  Greatest(T) \in T /\ \A x \in T : Greatest(T) >= x
<1> DEFINE f == [x \in T |-> x]
<1>1. f \in [T -> Nat] /\ \A x \in T : f[x] = x
  OBVIOUS
<1> HIDE DEF f
<1>2. SumOf(f, T) \in Nat /\ \A x \in T : x <= SumOf(f, T)
  BY <1>1, SumOfNaturals
<1>3. QED
  BY <1>2, GreatestExists

\* A variant's place in the comparison is a pair of numbers.
LEMMA PeakIsANumber ==
  ASSUME NEW r, IsCurve(r.report)
  PROVE  PeakGoodput(r) \in Nat
<1> DEFINE n == Len(r.report)
           goodput == [i \in 1..n |-> r.report[i].goodput]
           T == {r.report[i].goodput : i \in DOMAIN r.report}
<1>1. n \in Nat /\ DOMAIN r.report = 1..n /\ \A i \in 1..n : r.report[i].goodput \in Nat
  <2>1. n \in Nat /\ DOMAIN r.report = 1..n /\ \A i \in 1..n : r.report[i] \in Steps
    BY DEF IsCurve
  <2>2. QED
    BY <2>1 DEF Steps
<1>2. T \in SUBSET Nat /\ T = {r.report[i].goodput : i \in 1..n}
  BY <1>1
<1>3. IsFiniteSet(T)
  <2>1. 1 \in Int /\ n \in Int
    BY <1>1
  <2>2. IsFiniteSet(1..n)
    BY <2>1, FS_Interval, Zenon
  <2>3. goodput \in Surjection(1..n, T)
    BY <1>1, <1>2 DEF Surjection
  <2> HIDE DEF goodput, T, n
  <2>4. QED
    BY <2>2, <2>3, FS_Surjection
<1>4. IsFiniteSet(T \cup {0}) /\ T \cup {0} \in SUBSET Nat /\ T \cup {0} # {}
  <2> HIDE DEF T
  <2>1. QED
    BY <1>2, <1>3, FS_AddElement
<1>5. Greatest(T \cup {0}) \in Nat
  <2> HIDE DEF T
  <2>1. QED
    BY <1>4, GreatestOfFinite
<1>6. QED
  BY <1>5 DEF PeakGoodput

------------------------------------------------------------------------------
(* The comparison of points. *)

\* points gives every variant of valid a pair of numbers, and valid is finite.
ArePoints(valid, points) ==
  /\ IsFiniteSet(valid)
  /\ \A i \in valid : points[i][1] \in Nat /\ points[i][2] \in Nat

\* Dominance is a strict partial order that raises the sum of the axes.
LEMMA DominanceIsAnOrder ==
  ASSUME NEW valid, NEW points, ArePoints(valid, points),
         NEW i \in valid, NEW j \in valid, NEW k \in valid,
         Dominates(points[k], points[j])
  PROVE  /\ ~Dominates(points[j], points[k]) /\ k # j
         /\ Dominates(points[j], points[i]) => Dominates(points[k], points[i])
         /\ points[k][1] + points[k][2] > points[j][1] + points[j][2]
<1>1. /\ points[i][1] \in Nat /\ points[i][2] \in Nat
      /\ points[j][1] \in Nat /\ points[j][2] \in Nat
      /\ points[k][1] \in Nat /\ points[k][2] \in Nat
  BY DEF ArePoints
<1>2. QED
  BY <1>1 DEF Dominates

\* Whatever is off the frontier is dominated by something on it.
LEMMA FrontierDominates ==
  ASSUME NEW valid, NEW points, ArePoints(valid, points),
         NEW i \in valid, i \notin Frontier(valid, points)
  PROVE  \E j \in Frontier(valid, points) : Dominates(points[j], points[i])
<1> DEFINE f == [k \in valid |-> points[k][1] + points[k][2]]
           D == {k \in valid : Dominates(points[k], points[i])}
           T == {f[k] : k \in D}
<1>1. IsFiniteSet(valid) /\ f \in [valid -> Nat]
  BY DEF ArePoints
<1>2. D # {}
  BY DEF Frontier
<1>3. T \in SUBSET Nat /\ T # {}
  BY <1>1, <1>2
<1>4. SumOf(f, valid) \in Nat /\ \A x \in T : x <= SumOf(f, valid)
  <2>1. SumOf(f, valid) \in Nat /\ \A k \in valid : f[k] <= SumOf(f, valid)
    <3> HIDE DEF f
    <3>1. QED
      BY <1>1, SumOfNaturals
  <2>2. QED
    BY <2>1
<1>5. Greatest(T) \in T /\ \A x \in T : Greatest(T) >= x
  <2> HIDE DEF T
  <2>1. QED
    BY <1>3, <1>4, GreatestExists
<1>6. PICK j \in D : Greatest(T) = f[j]
  BY <1>5
<1>7. ASSUME NEW k \in valid, Dominates(points[k], points[j]) PROVE FALSE
  <2>1. j \in valid /\ Dominates(points[j], points[i])
    OBVIOUS
  <2>2. /\ Dominates(points[k], points[i])
        /\ points[k][1] + points[k][2] > points[j][1] + points[j][2]
    BY <1>7, <2>1, DominanceIsAnOrder
  <2>3. f[k] \in T /\ f[k] > f[j] /\ f[k] \in Nat /\ f[j] \in Nat
    BY <1>1, <2>1, <2>2
  <2>4. f[j] >= f[k]
    BY <1>5, <1>6, <2>3
  <2> HIDE DEF f
  <2>5. QED
    BY <2>3, <2>4
<1>8. j \in Frontier(valid, points) /\ Dominates(points[j], points[i])
  BY <1>7 DEF Frontier
<1>9. QED
  BY <1>8

\* The walk over the results that best_sustainable is: its value after each of them.
IsWalk(b, valid, points, n) ==
  b = [i \in 0..n |->
         IF i = 0 THEN 0 ELSE IF Replaces(valid, points, i, b[i - 1]) THEN i ELSE b[i - 1]]

Walks(b, valid, points, n) ==
  /\ b[0] = 0
  /\ \A i \in 1..n : b[i] = IF Replaces(valid, points, i, b[i - 1]) THEN i ELSE b[i - 1]

LEMMA WalkExists ==
  ASSUME NEW valid, NEW points, NEW n \in Nat
  PROVE  \E b : IsWalk(b, valid, points, n)
<1> DEFINE T == {m \in Nat : ~ \E b : IsWalk(b, valid, points, m)}
<1>1. ASSUME T # {} PROVE FALSE
  <2>1. PICK m \in T : \A k \in T : m <= k
    <3>1. T \in SUBSET Nat
      OBVIOUS
    <3> HIDE DEF T
    <3>2. QED
      BY <1>1, <3>1, LeastNumber
  <2>2. CASE m = 0
    <3> DEFINE b == [i \in 0..0 |-> 0]
    <3>1. IsWalk(b, valid, points, 0)
      BY DEF IsWalk
    <3> HIDE DEF b
    <3>2. QED
      BY <2>1, <2>2, <3>1
  <2>3. CASE m # 0
    <3>1. m \in Nat /\ m - 1 \in Nat /\ m - 1 \notin T
      <4>1. m \in Nat
        BY <2>1
      <4> HIDE DEF T
      <4>2. m - 1 \in Nat /\ ~ (m <= m - 1)
        BY <2>3, <4>1
      <4>3. QED
        BY <2>1, <4>1, <4>2
    <3>2. PICK b : IsWalk(b, valid, points, m - 1)
      BY <3>1
    <3> DEFINE next(i) == IF Replaces(valid, points, i, b[i - 1]) THEN i ELSE b[i - 1]
               c == [i \in 0..m |-> IF i = 0 THEN 0 ELSE next(i)]
    <3>3. \A i \in 0..(m - 1) : b[i] = IF i = 0 THEN 0 ELSE next(i)
      BY <3>2 DEF IsWalk
    <3>4. \A i \in 0..(m - 1) : c[i] = b[i]
      BY <3>1, <3>3
    <3>5. \A i \in 0..m : c[i] = IF i = 0 THEN 0
                                 ELSE IF Replaces(valid, points, i, c[i - 1]) THEN i ELSE c[i - 1]
      <4>1. TAKE i \in 0..m
      <4>2. i # 0 => i - 1 \in 0..(m - 1)
        BY <3>1
      <4>3. i # 0 => c[i - 1] = b[i - 1]
        <5> HIDE DEF c
        <5>1. QED
          BY <3>4, <4>2
      <4>4. QED
        BY <4>3
    <3>6. IsWalk(c, valid, points, m)
      <4>1. c = [i \in 0..m |-> c[i]]
        OBVIOUS
      <4> HIDE DEF c
      <4>2. QED
        BY <3>5, <4>1 DEF IsWalk
    <3> HIDE DEF c
    <3>7. QED
      BY <2>1, <3>6
  <2>4. QED
    BY <2>2, <2>3
<1>2. QED
  BY <1>1

\* Best is where the walk over the results ends.
LEMMA BestIsComputed ==
  ASSUME NEW valid, NEW points, Len(results) \in Nat
  PROVE  \E b : Best(valid, points) = b[Len(results)] /\ Walks(b, valid, points, Len(results))
<1> DEFINE b == CHOOSE c : IsWalk(c, valid, points, Len(results))
<1>1. Best(valid, points) = b[Len(results)]
  BY DEF Best, IsWalk
<1>2. IsWalk(b, valid, points, Len(results))
  BY WalkExists, Zenon
<1> HIDE DEF b
<1>3. Walks(b, valid, points, Len(results))
  <2>1. \A i \in 0..Len(results) :
          b[i] = IF i = 0 THEN 0 ELSE IF Replaces(valid, points, i, b[i - 1]) THEN i ELSE b[i - 1]
    BY <1>2 DEF IsWalk
  <2>2. 0 \in 0..Len(results) /\ \A i \in 1..Len(results) : i \in 0..Len(results) /\ i # 0
    OBVIOUS
  <2>3. QED
    BY <2>1, <2>2 DEF Walks
<1>4. QED
  BY <1>1, <1>3

\* What the best is: among those that sustain a rate none is above it, and none before it
\* is as good.
IsBest(best, valid, points, n) ==
  LET eligible == {i \in valid : i \in 1..n /\ points[i][1] # NoRate} IN
  /\ best = 0 <=> eligible = {}
  /\ best # 0 =>
       /\ best \in eligible
       /\ \A i \in eligible : ~Above(points[i], points[best])
       /\ \A i \in eligible : points[i] = points[best] => best <= i

LEMMA WalkFindsTheBest ==
  ASSUME NEW valid, NEW points, ArePoints(valid, points), NEW n \in Nat,
         NEW b, Walks(b, valid, points, n)
  PROVE  \A m \in 0..n : IsBest(b[m], valid, points, m)
<1> DEFINE T == {m \in 0..n : ~IsBest(b[m], valid, points, m)}
<1>1. ASSUME T # {} PROVE FALSE
  <2>1. PICK m \in T : \A k \in T : m <= k
    <3>1. T \in SUBSET Nat
      OBVIOUS
    <3> HIDE DEF T
    <3>2. QED
      BY <1>1, <3>1, LeastNumber
  <2>2. m \in 0..n /\ ~IsBest(b[m], valid, points, m)
    OBVIOUS
  <2>3. m # 0
    BY <2>2 DEF IsBest, Walks
  <2>4. IsBest(b[m - 1], valid, points, m - 1)
    <3>1. m - 1 \in 0..n /\ ~(m <= m - 1)
      BY <2>2, <2>3
    <3>2. QED
      BY <2>1, <3>1
  <2>5. m \in 1..n /\ 1..m = 1..(m - 1) \cup {m}
    BY <2>2, <2>3
  <2>6. b[m] = IF Replaces(valid, points, m, b[m - 1]) THEN m ELSE b[m - 1]
    BY <2>5 DEF Walks
  <2>7. \A i \in valid : points[i][1] \in Nat /\ points[i][2] \in Nat
    BY DEF ArePoints
  <2> DEFINE old == {i \in valid : i \in 1..(m - 1) /\ points[i][1] # NoRate}
             new == {i \in valid : i \in 1..m /\ points[i][1] # NoRate}
  <2> HIDE DEF T
  <2>8. CASE Replaces(valid, points, m, b[m - 1])
    <3>1. /\ b[m] = m /\ m \in new /\ new = old \cup {m} /\ m # 0
          /\ b[m - 1] = 0 \/ Above(points[m], points[b[m - 1]])
      BY <2>3, <2>5, <2>6, <2>8 DEF Replaces
    <3>2. \A i \in old : ~Above(points[i], points[m]) /\ points[i] # points[m]
      <4>1. CASE b[m - 1] = 0
        BY <2>4, <4>1 DEF IsBest
      <4>2. CASE b[m - 1] # 0
        <5>1. /\ b[m - 1] \in old /\ Above(points[m], points[b[m - 1]])
              /\ \A i \in old : ~Above(points[i], points[b[m - 1]])
          BY <2>4, <3>1, <4>2 DEF IsBest
        <5>2. QED
          BY <2>7, <3>1, <5>1 DEF Above
      <4>3. QED
        BY <4>1, <4>2
    <3>3. ~Above(points[m], points[m])
      BY <2>7, <3>1 DEF Above
    <3>4. m <= m
      BY <2>2
    <3>5. IsBest(b[m], valid, points, m)
      BY <3>1, <3>2, <3>3, <3>4 DEF IsBest
    <3>6. QED
      BY <2>2, <3>5
  <2>9. CASE ~Replaces(valid, points, m, b[m - 1])
    <3>1. b[m] = b[m - 1]
      BY <2>6, <2>9
    <3>2. CASE m \notin new
      <4>1. new = old
        BY <2>5, <3>2
      <4>2. IsBest(b[m], valid, points, m)
        BY <2>4, <3>1, <4>1 DEF IsBest
      <4>3. QED
        BY <2>2, <4>2
    <3>3. CASE m \in new
      <4>1. /\ b[m - 1] # 0 /\ ~Above(points[m], points[b[m - 1]])
            /\ new = old \cup {m}
        BY <2>5, <2>9, <3>3 DEF Replaces
      <4>2. /\ b[m - 1] \in old
            /\ \A i \in old : ~Above(points[i], points[b[m - 1]])
            /\ \A i \in old : points[i] = points[b[m - 1]] => b[m - 1] <= i
        BY <2>4, <4>1 DEF IsBest
      <4>3. b[m - 1] <= m
        BY <2>2, <4>2
      <4>4. IsBest(b[m], valid, points, m)
        BY <3>1, <4>1, <4>2, <4>3 DEF IsBest
      <4>5. QED
        BY <2>2, <4>4
    <3>4. QED
      BY <3>2, <3>3
  <2>10. QED
    BY <2>8, <2>9
<1>2. QED
  BY <1>1

------------------------------------------------------------------------------
(* The comparison's invariant. *)

\* A plan's variants have names of their own, and so have the results.
NamesDiffer == \A i, j \in DOMAIN plan : plan[i].name = plan[j].name => i = j

TuningInv == TuningTypeOK /\ NamesDiffer

LEMMA TuningStarts ==
  ASSUME TuningInit
  PROVE  TuningInv
<1>1. plan = <<>> /\ results = <<>> /\ parsing = TRUE /\ refused = FALSE
  BY DEF TuningInit
<1>2. plan \in Seq(Items) /\ results \in Seq(Outcomes) /\ Len(plan) = 0 /\ Len(results) = 0
  BY <1>1
<1>3. TuningTypeOK
  <2>1. {parsing, refused} \subseteq BOOLEAN
    BY <1>1
  <2>2. MaxVariants \in Nat
    BY SpecItems
  <2>3. QED
    BY <1>2, <2>1, <2>2 DEF TuningTypeOK
<1>4. NamesDiffer
  <2>1. DOMAIN plan = {}
    BY <1>1
  <2>2. QED
    BY <2>1 DEF NamesDiffer
<1>5. QED
  BY <1>3, <1>4 DEF TuningInv

LEMMA ParsesSegmentKeeps ==
  ASSUME TuningInv, ParsesSegment
  PROVE  TuningInv'
<1>1. /\ plan \in Seq(Items) /\ Len(plan) < MaxVariants /\ MaxVariants \in Nat
      /\ Len(results) <= Len(plan) /\ results' = results /\ Len(plan) \in Nat
      /\ results \in Seq(Outcomes) /\ Len(results) \in Nat
  BY SpecItems DEF TuningInv, TuningTypeOK, ParsesSegment
<1>2. PICK item \in Items :
        IF KnownFields(item.fields) /\ ~Clashes(item)
          THEN plan' = Append(plan, item) /\ UNCHANGED <<parsing, refused>>
          ELSE refused' = TRUE /\ parsing' = FALSE /\ UNCHANGED plan
  BY DEF ParsesSegment
<1>3. CASE ~Clashes(item) /\ plan' = Append(plan, item) /\ UNCHANGED <<parsing, refused>>
  <2>1. /\ plan' \in Seq(Items) /\ Len(plan') = Len(plan) + 1
        /\ DOMAIN plan' = 1..(Len(plan) + 1) /\ DOMAIN plan = 1..Len(plan)
        /\ plan'[Len(plan) + 1] = item
        /\ \A i \in 1..Len(plan) : plan'[i] = plan[i]
    BY <1>1, <1>3
  <2>2. TuningTypeOK'
    BY <1>1, <1>3, <2>1 DEF TuningInv, TuningTypeOK
  <2>3. ASSUME NEW i \in DOMAIN plan', NEW j \in DOMAIN plan', plan'[i].name = plan'[j].name
        PROVE  i = j
    <3>1. \A k \in 1..Len(plan) : plan[k].name # item.name
      BY <1>3, <2>1 DEF Clashes
    <3>2. (i \in 1..Len(plan) \/ i = Len(plan) + 1) /\ (j \in 1..Len(plan) \/ j = Len(plan) + 1)
      BY <1>1, <2>1
    <3>3. QED
      BY <2>1, <2>3, <3>1, <3>2 DEF TuningInv, NamesDiffer
  <2>4. QED
    BY <2>2, <2>3 DEF TuningInv, NamesDiffer
<1>4. CASE refused' = TRUE /\ parsing' = FALSE /\ UNCHANGED plan
  BY <1>1, <1>4 DEF TuningInv, TuningTypeOK, NamesDiffer
<1>5. QED
  BY <1>2, <1>3, <1>4

LEMMA TuningStep ==
  ASSUME TuningInv, [TuningNext]_tuning
  PROVE  TuningInv'
<1>1. CASE ParsesSegment
  BY <1>1, ParsesSegmentKeeps
<1>2. CASE ParsesEnd
  BY <1>2 DEF ParsesEnd, TuningInv, TuningTypeOK, NamesDiffer
<1>3. CASE Measured
  <2>1. PICK r \in Outcomes : results' = Append(results, r)
    BY <1>3 DEF Measured
  <2>2. /\ results \in Seq(Outcomes) /\ Len(results) < Len(plan)
        /\ plan' = plan /\ parsing' = parsing /\ refused' = refused
        /\ plan \in Seq(Items)
    BY <1>3 DEF Measured, TuningInv, TuningTypeOK
  <2>3. results' \in Seq(Outcomes) /\ Len(results') <= Len(plan)
    BY <2>1, <2>2
  <2>4. QED
    BY <2>2, <2>3 DEF TuningInv, TuningTypeOK, NamesDiffer
<1>4. CASE UNCHANGED tuning
  BY <1>4 DEF tuning, TuningInv, TuningTypeOK, NamesDiffer
<1>5. QED
  BY <1>1, <1>2, <1>3, <1>4 DEF TuningNext

\* After every result the comparison stands by itself.
LEMMA ComparisonStands ==
  ASSUME TuningInv, CurvesRise
  PROVE  FrontierIsWhatNothingBeats
<1> DEFINE valid == Candidates
           points == Points
           frontier == Frontier(valid, points)
           best == Best(valid, points)
           tied == {i \in valid : best # 0 /\ points[i] = points[best]}
           n == Len(results)
<1>1. /\ n \in Nat /\ DOMAIN results = 1..n /\ n <= Len(plan) /\ DOMAIN plan = 1..Len(plan)
      /\ Len(plan) \in Nat /\ \A i \in 1..n : results[i] \in Outcomes
  BY DEF TuningInv, TuningTypeOK
<1>2. /\ valid \in SUBSET (1..n) /\ \A i \in valid : Valid(results[i])
      /\ \A i \in 1..n : i \notin valid => ~Valid(results[i])
  BY <1>1 DEF Candidates
<1>3. \A i \in valid :
        /\ results[i].ran /\ IsCurve(results[i].report) /\ RatesDiffer(results[i].report)
        /\ points[i] = <<SustainableRate(results[i]), PeakGoodput(results[i])>>
  BY <1>1, <1>2, MeasuredSteps DEF CurvesRise, IsCurve, Valid, OkResult, Points
<1>4. ArePoints(valid, points)
  <2>1. 1 \in Int /\ n \in Int
    BY <1>1
  <2>2. IsFiniteSet(1..n)
    BY <2>1, FS_Interval, Zenon
  <2>3. IsFiniteSet(valid)
    BY <1>2, <2>2, FS_Subset
  <2>4. ASSUME NEW i \in valid PROVE points[i][1] \in Nat /\ points[i][2] \in Nat
    <3>1. SustainableRate(results[i]) \in Nat
      BY <1>3, RateIsSustained
    <3>2. PeakGoodput(results[i]) \in Nat
      BY <1>3, PeakIsANumber
    <3>3. QED
      BY <1>3, <3>1, <3>2
  <2>5. QED
    BY <2>3, <2>4 DEF ArePoints
<1> HIDE DEF valid, points
<1>5. \A i \in valid : points[i][1] \in Nat /\ points[i][2] \in Nat
  BY <1>4 DEF ArePoints
<1>6. \A i \in valid : i \notin frontier <=> \E j \in frontier : Dominates(points[j], points[i])
  <2>1. ASSUME NEW i \in valid, i \notin frontier
        PROVE  \E j \in frontier : Dominates(points[j], points[i])
    BY <1>4, <2>1, FrontierDominates
  <2>2. ASSUME NEW i \in valid, NEW j \in frontier, Dominates(points[j], points[i])
        PROVE  i \notin frontier
    BY <2>2 DEF Frontier
  <2>3. QED
    BY <2>1, <2>2
<1>7. frontier \in SUBSET valid
  BY DEF Frontier
<1>8. ASSUME NEW i \in frontier, NEW j \in valid, points[j][1] > points[i][1]
      PROVE  points[j][2] < points[i][2]
  <2>1. ~Dominates(points[j], points[i]) /\ i \in valid
    BY DEF Frontier
  <2>2. QED
    BY <1>5, <1>8, <2>1 DEF Dominates
<1>9. \A i \in 1..n : MarkedOnFrontier(frontier, i) <=> i \in frontier
  <2>1. \A i \in 1..n : i \in DOMAIN plan
    BY <1>1
  <2>2. \A j \in frontier : j \in 1..n
    BY <1>2, <1>7
  <2> HIDE DEF frontier, n
  <2>3. QED
    BY <2>1, <2>2 DEF MarkedOnFrontier, TuningInv, NamesDiffer
<1>10. IsBest(best, valid, points, n)
  <2>1. PICK b : best = b[n] /\ Walks(b, valid, points, n)
    BY <1>1, BestIsComputed
  <2>2. n \in 0..n
    BY <1>1
  <2>3. IsBest(b[n], valid, points, n)
    <3> HIDE DEF n
    <3>1. QED
      BY <1>1, <1>4, <2>1, <2>2, WalkFindsTheBest
  <2>4. QED
    BY <2>1, <2>3
<1> HIDE DEF best
<1>11. (best = 0) = (\A i \in valid : points[i][1] = NoRate)
  <2>1. best = 0 <=> \A i \in valid : points[i][1] = NoRate
    BY <1>2, <1>10 DEF IsBest
  <2>2. QED
    BY <2>1
<1>12. ASSUME best # 0
       PROVE  /\ {best} \subseteq tied /\ tied \subseteq frontier
              /\ \A i \in valid : points[i][1] <= points[best][1]
              /\ \A i \in tied : best <= i
  <2>1. /\ best \in valid /\ points[best][1] # NoRate
        /\ \A i \in valid : points[i][1] # NoRate => ~Above(points[i], points[best])
        /\ \A i \in valid : points[i][1] # NoRate /\ points[i] = points[best] => best <= i
    BY <1>2, <1>10, <1>12 DEF IsBest
  <2>2. \A i \in valid : points[i][1] <= points[best][1]
    <3>1. ASSUME NEW i \in valid PROVE points[i][1] <= points[best][1]
      <4>1. /\ points[i][1] \in Nat /\ points[i][2] \in Nat
            /\ points[best][1] \in Nat /\ points[best][2] \in Nat
        BY <1>5, <2>1
      <4>2. CASE points[i][1] = NoRate
        BY <4>1, <4>2 DEF NoRate
      <4>3. CASE points[i][1] # NoRate
        BY <2>1, <4>1, <4>3 DEF Above
      <4>4. QED
        BY <4>2, <4>3
    <3>2. QED
      BY <3>1
  <2>3. ASSUME NEW i \in valid PROVE ~Dominates(points[i], points[best])
    <3>1. /\ points[i][1] \in Nat /\ points[i][2] \in Nat
          /\ points[best][1] \in Nat /\ points[best][2] \in Nat
      BY <1>5, <2>1
    <3>2. ASSUME Dominates(points[i], points[best]) PROVE FALSE
      <4>1. Above(points[i], points[best]) /\ points[i][1] >= points[best][1]
        BY <3>1, <3>2 DEF Dominates, Above
      <4>2. points[i][1] # NoRate
        BY <2>1, <3>1, <4>1 DEF NoRate
      <4>3. QED
        BY <2>1, <4>1, <4>2
    <3>3. QED
      BY <3>2
  <2>4. \A i \in tied : i \in frontier /\ best <= i
    BY <2>1, <2>3 DEF Frontier
  <2>5. QED
    BY <1>12, <2>1, <2>2, <2>4
<1>13. /\ Verdict(valid, points, best).tied = tied
       /\ Verdict(valid, points, best).invalid
            = {i \in 1..n : OkResult(results[i]) /\ ~Valid(results[i])}
       /\ Verdict(valid, points, best).failed = {i \in 1..n : ~OkResult(results[i])}
  BY <1>1 DEF Verdict
<1>14. /\ Verdict(valid, points, best).invalid \cap Verdict(valid, points, best).failed = {}
       /\ Verdict(valid, points, best).invalid \cup Verdict(valid, points, best).failed
            = DOMAIN results \ valid
  <2>1. \A i \in 1..n : i \in valid <=> Valid(results[i])
    BY <1>2
  <2>2. \A i \in 1..n : Valid(results[i]) => OkResult(results[i])
    BY DEF Valid
  <2> HIDE DEF n
  <2>3. QED
    BY <1>1, <1>13, <2>1, <2>2, <1>2
<1>15. ASSUME NEW i \in valid
       PROVE  /\ \A s \in StepAtSustainable(results[i]) : Healthy(s)
              /\ (points[i][1] = NoRate) = (StepAtSustainable(results[i]) = {})
              /\ \A k \in DOMAIN results[i].report :
                   points[i][1] # NoRate /\ results[i].report[k].rate <= points[i][1]
                     => Healthy(results[i].report[k])
  <2>1. points[i][1] = SustainableRate(results[i])
    BY <1>3
  <2>2. QED
    BY <1>3, <2>1, RateIsSustained
<1>16. QED
  BY <1>1, <1>6, <1>8, <1>9, <1>11, <1>12, <1>13, <1>14, <1>15
     DEF FrontierIsWhatNothingBeats, valid, points, best

\* The frontier, the best variant, its ties, the table and the verdict agree after every
\* result (TuningReport.frontier, best_sustainable, verdict, to_dict), for any variants
\* and any outcomes whose curves measure no rate twice.
THEOREM ComparisonAgrees ==
  ASSUME CurvesRise
  PROVE  TuningSpec => []FrontierIsWhatNothingBeats
<1>1. TuningInit => TuningInv
  BY TuningStarts
<1>2. TuningInv /\ [TuningNext]_tuning => TuningInv'
  BY TuningStep
<1>3. TuningInv => FrontierIsWhatNothingBeats
  BY ComparisonStands
<1>4. QED
  BY <1>1, <1>2, <1>3, PTL DEF TuningSpec

------------------------------------------------------------------------------
(* The arithmetic of a quantile. *)

\* LeastOf finds the least number.
LEMMA LeastIsFound ==
  ASSUME NEW T \in SUBSET Nat, T # {}
  PROVE  LeastOf(T) \in T /\ \A y \in T : LeastOf(T) <= y
BY LeastNumber DEF LeastOf

\* Counts that do not decrease.
Cumulative(counts) ==
  /\ counts \in Seq(Nat)
  /\ \A i, j \in 1..Len(counts) : i <= j => counts[i] <= counts[j]

\* The greatest so far never decreases, and is the count itself where that does not.
LEMMA RunningRises ==
  ASSUME NEW c \in Seq(Nat)
  PROVE  /\ Cumulative(Running(c)) /\ Len(Running(c)) = Len(c)
         /\ Cumulative(c) => Running(c) = c
<1> DEFINE T(i) == {0} \cup {c[j] : j \in 1..i}
           n == Len(c)
<1>1. n \in Nat /\ DOMAIN c = 1..n /\ \A i \in 1..n : c[i] \in Nat
  OBVIOUS
<1>2. \A i \in 1..n : T(i) \in SUBSET Nat /\ T(i) # {}
  BY <1>1
<1>3. PICK b \in Nat : \A i \in 1..n : c[i] <= b
  <2> DEFINE f == [i \in 1..n |-> c[i]]
  <2>1. IsFiniteSet(1..n)
    <3>1. 1 \in Int /\ n \in Int
      BY <1>1
    <3> HIDE DEF n
    <3>2. QED
      BY <3>1, FS_Interval, Zenon
  <2>2. f \in [1..n -> Nat] /\ \A i \in 1..n : f[i] = c[i]
    BY <1>1
  <2> HIDE DEF f, n
  <2>3. QED
    BY <2>1, <2>2, SumOfNaturals
<1>4. \A i \in 1..n : Running(c)[i] = Greatest(T(i))
  BY <1>1 DEF Running
<1>5. ASSUME NEW i \in 1..n
      PROVE  /\ Running(c)[i] \in T(i) /\ \A x \in T(i) : Running(c)[i] >= x
  <2>1. \A x \in T(i) : x <= b
    BY <1>3
  <2> HIDE DEF T
  <2>2. QED
    BY <1>2, <1>3, <1>4, <2>1, GreatestExists
<1>6. Running(c) = [i \in 1..n |-> Running(c)[i]]
  BY <1>1 DEF Running
<1>7. \A i \in 1..n : Running(c)[i] \in Nat
  BY <1>2, <1>5
<1>8. Running(c) \in Seq(Nat) /\ Len(Running(c)) = n
  <2> HIDE DEF n
  <2>1. QED
    BY <1>1, <1>6, <1>7
<1>9. \A i, j \in 1..n : i <= j => Running(c)[i] <= Running(c)[j]
  <2> SUFFICES ASSUME NEW i \in 1..n, NEW j \in 1..n, i <= j
               PROVE  Running(c)[i] <= Running(c)[j]
    OBVIOUS
  <2>1. T(i) \subseteq T(j)
    OBVIOUS
  <2>2. Running(c)[j] >= Running(c)[i]
    BY <1>5, <2>1
  <2>3. QED
    BY <1>7, <2>2
<1>10. ASSUME Cumulative(c), NEW i \in 1..n PROVE Running(c)[i] = c[i]
  <2>1. \A x \in T(i) : x <= c[i]
    BY <1>1, <1>10 DEF Cumulative
  <2>2. c[i] \in T(i)
    OBVIOUS
  <2>3. Running(c)[i] <= c[i] /\ Running(c)[i] >= c[i]
    BY <1>5, <2>1, <2>2
  <2>4. QED
    BY <1>1, <1>7, <2>3
<1>11. ASSUME Cumulative(c) PROVE Running(c) = c
  <2>1. c = [i \in 1..n |-> c[i]]
    OBVIOUS
  <2>2. QED
    BY <1>6, <1>10, <1>11, <2>1
<1>12. QED
  BY <1>8, <1>9, <1>11 DEF Cumulative

\* A product grows with its factors.
LEMMA ProductsGrow ==
  ASSUME NEW a \in Nat, NEW b \in Nat, NEW d \in Nat, a <= b
  PROVE  a * d \in Nat /\ b * d \in Nat /\ a * d <= b * d /\ d * a = a * d
<1>1. a * d \in Nat /\ b * d \in Nat /\ d * a = a * d
  OBVIOUS
<1>2. b * d = a * d + (b - a) * d /\ (b - a) * d \in Nat
  <2>1. b - a \in Nat
    OBVIOUS
  <2>2. (b - a) * d \in Nat
    BY <2>1
  <2>3. b * d = a * d + (b - a) * d
    OBVIOUS
  <2>4. QED
    BY <2>2, <2>3
<1>3. QED
  BY <1>1, <1>2

\* The bucket a quantile falls into: the first whose count reaches the rank.
Reaching(count, q) == {i \in 1..Len(count) : count[i] * q[2] >= q[1] * count[Len(count)]}

LEMMA SomeBucketReaches ==
  ASSUME NEW count, Cumulative(count), Len(count) > 0, NEW q, IsQuantile(q)
  PROVE  /\ LeastOf(Reaching(count, q)) \in Reaching(count, q)
         /\ \A i \in Reaching(count, q) : LeastOf(Reaching(count, q)) <= i
<1>1. q[1] \in Nat /\ q[2] \in Nat /\ q[1] <= q[2] /\ Len(count) \in 1..Len(count)
      /\ count[Len(count)] \in Nat
  BY DEF IsQuantile, Cumulative
<1>2. count[Len(count)] * q[2] >= q[1] * count[Len(count)]
  <2> DEFINE m == count[Len(count)]
  <2>1. m \in Nat
    BY <1>1
  <2> HIDE DEF m
  <2>2. q[1] * m <= q[2] * m /\ m * q[2] = q[2] * m
    BY <1>1, <2>1, ProductsGrow
  <2>3. q[1] * m \in Nat /\ q[2] * m \in Nat
    BY <1>1, <2>1
  <2>4. m * q[2] >= q[1] * m
    BY <2>2, <2>3
  <2>5. QED
    BY <2>4 DEF m
<1>3. Reaching(count, q) \in SUBSET Nat /\ Reaching(count, q) # {}
  BY <1>1, <1>2 DEF Reaching
<1>4. QED
  BY <1>3, LeastIsFound

\* Between start and end, at a share w / (p * d) of the way.
LEMMA InterpolationStaysInside ==
  ASSUME NEW start \in Nat, NEW end \in Nat, start <= end,
         NEW p \in Nat, NEW d \in Nat, NEW w \in Nat, w <= p * d
  PROVE  /\ start * p * d + (end - start) * w \in Nat
         /\ start * (p * d) <= start * p * d + (end - start) * w
         /\ start * p * d + (end - start) * w <= end * (p * d)
<1> DEFINE pd == p * d
           gap == end - start
<1>1. pd \in Nat /\ gap \in Nat /\ start * p * d = start * pd
  <2>1. p * d \in Nat /\ end - start \in Nat
    OBVIOUS
  <2>2. start * p * d = start * (p * d)
    OBVIOUS
  <2>3. QED
    BY <2>1, <2>2
<1>2. end * pd = start * pd + gap * pd
  <2>1. end = start + gap
    OBVIOUS
  <2> HIDE DEF pd, gap
  <2>2. (start + gap) * pd = start * pd + gap * pd
    BY <1>1
  <2>3. QED
    BY <2>1, <2>2
<1>3. gap * w <= gap * pd /\ gap * w \in Nat /\ gap * pd \in Nat
  <2>1. w <= pd
    OBVIOUS
  <2> HIDE DEF pd, gap
  <2>2. w * gap <= pd * gap /\ w * gap = gap * w /\ pd * gap = gap * pd
    BY <1>1, <2>1, ProductsGrow
  <2>3. gap * w \in Nat /\ gap * pd \in Nat
    BY <1>1
  <2>4. QED
    BY <2>2, <2>3
<1>4. start * pd \in Nat
  <2> HIDE DEF pd
  <2>1. QED
    BY <1>1
<1>5. start * p * d + (end - start) * w = start * pd + gap * w
  BY <1>1
<1> HIDE DEF pd, gap
<1>6. /\ start * pd + gap * w \in Nat
      /\ start * pd <= start * pd + gap * w
      /\ start * pd + gap * w <= end * pd
  BY <1>2, <1>3, <1>4
<1>7. QED
  BY <1>5, <1>6 DEF pd

\* A fraction that is the last finite bound, or in the bucket of the index.
Bracketed(l, index, value) ==
  /\ value[1] \in Nat /\ value[2] \in Nat
  /\ index = Len(l) + 1 => value[1] = l[Len(l)] * value[2]
  /\ index <= Len(l) =>
       /\ value[1] <= l[index] * value[2]
       /\ index > 1 => value[1] >= l[index - 1] * value[2]

\* A quantile exists exactly if there is a finite bound and something was counted,
\* and then it lies in the first bucket whose count reaches its rank.
LEMMA QuantileIsBracketed ==
  ASSUME NEW l, IsLayout(l), NEW c \in Seq(Nat), Len(c) = Len(l) + 1, NEW q, IsQuantile(q)
  PROVE  /\ (Len(l) = 0 \/ Running(c)[Len(c)] = 0) => Quantile(View(l, c), q) = NOTHING
         /\ ~(Len(l) = 0 \/ Running(c)[Len(c)] = 0) =>
              Bracketed(l, LeastOf(Reaching(Running(c), q)), Quantile(View(l, c), q))
<1> DEFINE count == Running(c)
           n == Len(count)
           rank == q[1] * count[n]
           index == LeastOf({i \in 1..n : count[i] * q[2] >= rank})
           start == IF index = 1 THEN 0 ELSE l[index - 1]
           below == IF index = 1 THEN 0 ELSE count[index - 1]
           population == count[index] - below
           end == l[index]
           value == Quantile(View(l, c), q)
<1>1. /\ l \in Seq(Nat) /\ \A i, j \in 1..Len(l) : i < j => l[i] < l[j]
      /\ Len(l) \in Nat /\ q[1] \in Nat /\ q[2] \in Nat /\ q[2] > 0
  <2>1. l \in Seq(Nat) /\ \A i, j \in DOMAIN l : i < j => l[i] < l[j]
    BY DEF IsLayout
  <2>2. DOMAIN l = 1..Len(l) /\ Len(l) \in Nat
    BY <2>1
  <2>3. q[1] \in Nat /\ q[2] \in Nat /\ q[2] > 0
    BY DEF IsQuantile
  <2>4. QED
    BY <2>1, <2>2, <2>3
<1>2. Cumulative(count) /\ n = Len(l) + 1
  BY <1>1, RunningRises
<1>3. value = IF n < 2 \/ count[n] = 0 THEN NOTHING
              ELSE IF index = n THEN <<l[n - 1], 1>>
              ELSE IF population = 0 \/ (index = 1 /\ end = 0) THEN <<end, 1>>
              ELSE <<start * population * q[2] + (end - start) * (rank - below * q[2]),
                     population * q[2]>>
  BY DEF Quantile, View
<1>4. index = LeastOf(Reaching(count, q)) /\ index \in Reaching(count, q)
      /\ \A i \in Reaching(count, q) : index <= i
  <2>1. index = LeastOf(Reaching(count, q))
    BY DEF Reaching
  <2> HIDE DEF count, index
  <2>2. Len(count) > 0
    BY <1>1, <1>2
  <2>3. QED
    BY <1>2, <2>1, <2>2, SomeBucketReaches
<1>5. /\ index \in 1..n /\ count[index] * q[2] >= rank
      /\ \A i \in 1..n : i < index => ~(count[i] * q[2] >= rank)
      /\ \A i \in 1..n : count[i] \in Nat
      /\ \A i, j \in 1..n : i <= j => count[i] <= count[j]
  <2> HIDE DEF index, count
  <2>1. index \in 1..n /\ count[index] * q[2] >= rank
    BY <1>4 DEF Reaching
  <2>2. \A i \in 1..n : i < index => i \notin Reaching(count, q)
    BY <1>4, <2>1
  <2>3. \A i \in 1..n : i < index => ~(count[i] * q[2] >= rank)
    BY <2>2 DEF Reaching
  <2>4. QED
    BY <1>2, <2>1, <2>3 DEF Cumulative
<1> HIDE DEF value, index, count
<1>6. CASE Len(l) = 0 \/ count[n] = 0
  BY <1>1, <1>2, <1>3, <1>6 DEF count, value
<1>7. CASE ~(Len(l) = 0 \/ count[n] = 0)
  <2>1. ~(n < 2 \/ count[n] = 0) /\ n \in Nat /\ n - 1 = Len(l) /\ Len(l) \in 1..Len(l)
    BY <1>1, <1>2, <1>7
  <2>2. CASE index = n
    <3>1. value = <<l[Len(l)], 1>>
      BY <1>3, <2>1, <2>2
    <3>2. l[Len(l)] \in Nat
      BY <1>1, <2>1
    <3>3. value[1] = l[Len(l)] /\ value[2] = 1 /\ l[Len(l)] * 1 = l[Len(l)]
      BY <3>1, <3>2
    <3>4. ~(index <= Len(l))
      BY <1>2, <2>1, <2>2
    <3>5. Bracketed(l, index, value)
      BY <3>2, <3>3, <3>4 DEF Bracketed
    <3>6. QED
      BY <1>2, <1>4, <1>7, <3>5 DEF count, value
  <2>3. CASE index # n
    <3>1. index \in 1..Len(l) /\ index # Len(l) + 1 /\ index \in Nat
      BY <1>2, <1>5, <2>1, <2>3
    <3>2. end \in Nat /\ start \in Nat /\ start <= end /\ (index > 1 => start = l[index - 1])
      <4>1. CASE index = 1
        BY <1>1, <3>1, <4>1
      <4>2. CASE index # 1
        <5>1. Len(l) \in Nat
          BY <1>1
        <5>2. index - 1 \in 1..Len(l) /\ index - 1 < index
          BY <3>1, <4>2, <5>1
        <5>3. \A i \in 1..Len(l) : l[i] \in Nat
          <6>1. l \in Seq(Nat)
            BY <1>1
          <6>2. QED
            BY <6>1
        <5>4. start = l[index - 1] /\ start \in Nat /\ end \in Nat
          BY <3>1, <4>2, <5>2, <5>3
        <5>5. l[index - 1] < l[index]
          BY <1>1, <3>1, <5>2
        <5>6. QED
          BY <5>4, <5>5
      <4>3. QED
        BY <4>1, <4>2
    <3>3. below \in Nat /\ below <= count[index] /\ count[index] \in Nat
          /\ below * q[2] \in Nat /\ below * q[2] <= rank
      <4>1. rank \in Nat
        <5>1. count[n] \in Nat
          BY <1>5, <1>2, <1>1
        <5>2. QED
          BY <1>1, <5>1
      <4>2. CASE index = 1
        BY <1>1, <1>5, <4>1, <4>2, SMTT(30)
      <4>3. CASE index # 1
        <5>1. index - 1 \in 1..n /\ index - 1 < index /\ index - 1 <= index /\ index \in 1..n
          BY <1>2, <3>1, <4>3
        <5>2. below = count[index - 1] /\ below \in Nat /\ below <= count[index]
          BY <1>5, <4>3, <5>1
        <5>3. ~(below * q[2] >= rank)
          BY <1>5, <5>1, <5>2
        <5>4. below * q[2] \in Nat
          BY <1>1, <5>2
        <5> HIDE DEF below, rank
        <5>5. below * q[2] <= rank
          BY <4>1, <5>3, <5>4
        <5>6. QED
          BY <1>5, <5>1, <5>2, <5>4, <5>5
      <4>4. QED
        BY <4>2, <4>3
    <3>4. CASE population = 0 \/ (index = 1 /\ end = 0)
      <4>1. value = <<end, 1>>
        BY <1>3, <2>1, <2>3, <3>4
      <4>2. value[1] = end /\ value[2] = 1 /\ end * 1 = end /\ start * 1 = start
        BY <3>2, <4>1
      <4>3. Bracketed(l, index, value)
        <5> HIDE DEF start
        <5>1. QED
          BY <3>1, <3>2, <4>2 DEF Bracketed
      <4>4. QED
        BY <1>2, <1>4, <1>7, <4>3 DEF count, value
    <3>5. CASE ~(population = 0 \/ (index = 1 /\ end = 0))
      <4> DEFINE w == rank - below * q[2]
                 at1 == start * population * q[2] + (end - start) * w
                 size == population * q[2]
      <4>1. value = <<at1, size>>
        BY <1>3, <2>1, <2>3, <3>5
      <4>2. population \in Nat
        BY <3>3
      <4>3. w \in Nat /\ w <= size /\ size \in Nat
        <5>1. rank \in Nat
          <6>1. count[n] \in Nat
            BY <1>5, <1>2, <1>1
          <6>2. QED
            BY <1>1, <6>1
        <5>2. size = count[index] * q[2] - below * q[2]
          <6> HIDE DEF below
          <6>1. QED
            BY <1>1, <3>3
        <5>3. count[index] * q[2] \in Nat /\ rank <= count[index] * q[2]
          <6> HIDE DEF rank
          <6>1. count[index] * q[2] \in Nat
            BY <1>1, <3>3
          <6>2. QED
            BY <1>5, <5>1, <6>1
        <5>4. size \in Nat
          BY <1>1, <4>2
        <5> HIDE DEF rank, below, size, population
        <5>5. QED
          BY <3>3, <5>1, <5>2, <5>3, <5>4
      <4> HIDE DEF w, start, end, population
      <4>4. at1 \in Nat /\ start * size <= at1 /\ at1 <= end * size
        BY <1>1, <3>2, <4>2, <4>3, InterpolationStaysInside
      <4> HIDE DEF at1, size
      <4>5. value[1] = at1 /\ value[2] = size
        BY <4>1
      <4>6. Bracketed(l, index, value)
        BY <3>1, <3>2, <4>3, <4>4, <4>5 DEF Bracketed, end
      <4>7. QED
        BY <1>2, <1>4, <1>7, <4>6 DEF count, value
    <3>6. QED
      BY <3>4, <3>5
  <2>4. QED
    BY <2>2, <2>3
<1>8. QED
  BY <1>6, <1>7

------------------------------------------------------------------------------
(* Tallies and their cumulative counts. *)

Tallies == [Values -> Nat]

LEMMA TalliesAreSums ==
  ASSUME NEW t \in Tallies, NEW x
  PROVE  UpTo(t, x) = SumOf(t, {v \in Values : v <= x}) /\ All(t) = SumOf(t, Values)
BY DEF UpTo, All, SumOf

\* More bounds, more observations.
LEMMA TallyGrows ==
  ASSUME NEW t \in Tallies, NEW x \in Nat, NEW y \in Nat, x <= y
  PROVE  /\ UpTo(t, x) \in Nat /\ UpTo(t, y) \in Nat /\ All(t) \in Nat
         /\ UpTo(t, x) <= UpTo(t, y) /\ UpTo(t, y) <= All(t)
<1> DEFINE Low(z) == {v \in Values : v <= z}
<1>1. IsFiniteSet(Values) /\ t \in [Values -> Nat] /\ Values \subseteq Nat
  BY Latencies DEF Tallies
<1>2. Low(x) \in SUBSET Low(y) /\ Low(y) \in SUBSET Values /\ Values \in SUBSET Values
  <2>1. ASSUME NEW v \in Low(x) PROVE v \in Low(y)
    <3>1. v \in Nat /\ v <= x
      BY <1>1
    <3>2. v <= y
      BY <3>1
    <3>3. QED
      BY <3>2
  <2>2. QED
    BY <2>1
<1>3. /\ UpTo(t, x) = SumOf(t, Low(x)) /\ UpTo(t, y) = SumOf(t, Low(y))
      /\ All(t) = SumOf(t, Values)
  BY TalliesAreSums
<1> HIDE DEF Low
<1>4. SumOf(t, Low(x)) \in Nat /\ SumOf(t, Low(y)) \in Nat /\ SumOf(t, Low(x)) <= SumOf(t, Low(y))
  BY <1>1, <1>2, SumOfPart
<1>5. SumOf(t, Values) \in Nat /\ SumOf(t, Low(y)) <= SumOf(t, Values)
  BY <1>1, <1>2, SumOfPart
<1>6. QED
  BY <1>3, <1>4, <1>5

LEMMA CountsAccumulate ==
  ASSUME NEW l, IsLayout(l), NEW t \in Tallies
  PROVE  Cumulative(Counts(l, t)) /\ Len(Counts(l, t)) = Len(l) + 1
<1> DEFINE n == Len(l) + 1
           c == Counts(l, t)
<1>1. Len(l) \in Nat /\ \A i \in 1..Len(l) : l[i] \in Nat
  BY DEF IsLayout
<1>2. \A i, j \in 1..Len(l) : i < j => l[i] < l[j]
  BY DEF IsLayout
<1>3. c = [i \in 1..n |-> IF i <= Len(l) THEN UpTo(t, l[i]) ELSE All(t)]
  BY DEF Counts
<1>4. \A i \in 1..n : c[i] = IF i <= Len(l) THEN UpTo(t, l[i]) ELSE All(t)
  BY <1>3
<1> HIDE DEF c
<1>5. ASSUME NEW i \in 1..n PROVE c[i] \in Nat
  <2>1. CASE i <= Len(l)
    <3>1. i \in 1..Len(l)
      BY <1>1, <2>1
    <3>2. l[i] \in Nat /\ l[i] <= l[i]
      BY <1>1, <3>1
    <3>3. UpTo(t, l[i]) \in Nat
      BY <3>2, TallyGrows
    <3>4. QED
      BY <1>4, <2>1, <3>3
  <2>2. CASE ~(i <= Len(l))
    <3>1. All(t) \in Nat
      <4>1. 0 \in Nat /\ 0 <= 0
        OBVIOUS
      <4>2. QED
        BY <4>1, TallyGrows
    <3>2. QED
      BY <1>4, <2>2, <3>1
  <2>3. QED
    BY <2>1, <2>2
<1>6. n \in Nat
  BY <1>1
<1>7. c \in Seq(Nat) /\ Len(c) = n
  <2>1. c = [i \in 1..n |-> c[i]]
    BY <1>3
  <2> HIDE DEF n
  <2>2. QED
    BY <1>5, <1>6, <2>1
<1>8. ASSUME NEW i \in 1..n, NEW j \in 1..n, i <= j PROVE c[i] <= c[j]
  <2>1. CASE j <= Len(l)
    <3>1. i \in 1..Len(l) /\ j \in 1..Len(l)
      BY <1>1, <1>8, <2>1
    <3>2. l[i] \in Nat /\ l[j] \in Nat /\ l[i] <= l[j]
      <4>1. CASE i = j
        BY <1>1, <3>1, <4>1
      <4>2. CASE i # j
        <5>1. i < j
          BY <1>8, <3>1, <4>2
        <5>2. l[i] < l[j] /\ l[i] \in Nat /\ l[j] \in Nat
          BY <1>1, <1>2, <3>1, <5>1
        <5>3. QED
          BY <5>2
      <4>3. QED
        BY <4>1, <4>2
    <3>3. UpTo(t, l[i]) <= UpTo(t, l[j])
      BY <3>2, TallyGrows
    <3>4. i <= Len(l)
      BY <3>1
    <3>5. QED
      BY <1>4, <2>1, <3>3, <3>4
  <2>2. CASE ~(j <= Len(l)) /\ i <= Len(l)
    <3>1. i \in 1..Len(l)
      BY <1>1, <2>2
    <3>2. l[i] \in Nat /\ l[i] <= l[i]
      BY <1>1, <3>1
    <3>3. UpTo(t, l[i]) <= All(t)
      BY <3>2, TallyGrows
    <3>4. QED
      BY <1>4, <2>2, <3>3
  <2>3. CASE ~(j <= Len(l)) /\ ~(i <= Len(l))
    <3>1. c[i] = All(t) /\ c[j] = All(t) /\ c[i] \in Nat
      BY <1>4, <1>5, <2>3
    <3>2. QED
      BY <3>1
  <2>4. QED
    BY <2>1, <2>2, <2>3
<1>9. QED
  BY <1>7, <1>8 DEF Cumulative, c

\* What two tallies count together.
Together(t, d) == [v \in Values |-> t[v] + d[v]]

LEMMA TalliesAddUp ==
  ASSUME NEW t \in Tallies, NEW d \in Tallies, NEW S \in SUBSET Values
  PROVE  SumOf(Together(t, d), S) = SumOf(t, S) + SumOf(d, S)
<1> DEFINE f == [v \in S |-> t[v]]
           h == [v \in S |-> d[v]]
           both == [v \in S |-> f[v] + h[v]]
<1>1. IsFiniteSet(S)
  BY Latencies, FS_Subset
<1>2. f \in [S -> Nat] /\ h \in [S -> Nat]
  BY DEF Tallies
<1>3. \A v \in S : t[v] = f[v] /\ d[v] = h[v] /\ Together(t, d)[v] = both[v]
  BY DEF Together
<1> HIDE DEF f, h
<1>4. SumOf(both, S) = SumOf(f, S) + SumOf(h, S)
  BY <1>1, <1>2, SumOfSums
<1> HIDE DEF both
<1>5. SumOf(Together(t, d), S) = SumOf(both, S)
  BY <1>1, <1>3, SumsAgree
<1>6. SumOf(t, S) = SumOf(f, S) /\ SumOf(d, S) = SumOf(h, S)
  BY <1>1, <1>3, SumsAgree
<1>7. QED
  BY <1>4, <1>5, <1>6

\* Subtracting what was counted before leaves what was counted since.
LEMMA CountsSubtract ==
  ASSUME NEW l, IsLayout(l), NEW t \in Tallies, NEW d \in Tallies
  PROVE  Delta(View(l, Counts(l, Together(t, d))), View(l, Counts(l, t))) = View(l, Counts(l, d))
<1> DEFINE n == Len(l) + 1
           later == Counts(l, Together(t, d))
           earlier == Counts(l, t)
           c == Counts(l, d)
<1>1. Together(t, d) \in Tallies
  BY DEF Together, Tallies
<1>2. /\ later = [i \in 1..n |-> IF i <= Len(l) THEN UpTo(Together(t, d), l[i])
                                 ELSE All(Together(t, d))]
      /\ earlier = [i \in 1..n |-> IF i <= Len(l) THEN UpTo(t, l[i]) ELSE All(t)]
      /\ c = [i \in 1..n |-> IF i <= Len(l) THEN UpTo(d, l[i]) ELSE All(d)]
  BY DEF Counts
<1>3. ASSUME NEW x PROVE UpTo(Together(t, d), x) = UpTo(t, x) + UpTo(d, x)
  <2> DEFINE S == {v \in Values : v <= x}
  <2>1. S \in SUBSET Values
    OBVIOUS
  <2>2. /\ UpTo(Together(t, d), x) = SumOf(Together(t, d), S)
        /\ UpTo(t, x) = SumOf(t, S) /\ UpTo(d, x) = SumOf(d, S)
    BY <1>1, TalliesAreSums
  <2> HIDE DEF S
  <2>3. QED
    BY <2>1, <2>2, TalliesAddUp
<1>4. All(Together(t, d)) = All(t) + All(d)
  <2>1. Values \in SUBSET Values
    OBVIOUS
  <2>2. SumOf(Together(t, d), Values) = SumOf(t, Values) + SumOf(d, Values)
    BY <2>1, TalliesAddUp
  <2>3. \A u \in Tallies : All(u) = SumOf(u, Values)
    BY TalliesAreSums
  <2>4. QED
    BY <1>1, <2>2, <2>3
<1>5. /\ Cumulative(earlier) /\ Len(earlier) = n
      /\ Cumulative(c) /\ Len(c) = n
  BY CountsAccumulate
<1>6. \A i \in 1..n : earlier[i] \in Nat /\ c[i] \in Nat
  <2> HIDE DEF earlier, c
  <2>1. QED
    BY <1>5 DEF Cumulative
<1>7. \A i \in 1..n : later[i] = earlier[i] + c[i]
  <2> TAKE i \in 1..n
  <2>1. CASE i <= Len(l)
    <3>1. /\ later[i] = UpTo(Together(t, d), l[i])
          /\ earlier[i] = UpTo(t, l[i]) /\ c[i] = UpTo(d, l[i])
      BY <1>2, <2>1
    <3>2. QED
      BY <1>3, <3>1
  <2>2. CASE ~(i <= Len(l))
    <3>1. later[i] = All(Together(t, d)) /\ earlier[i] = All(t) /\ c[i] = All(d)
      BY <1>2, <2>2
    <3>2. QED
      BY <1>4, <3>1
  <2>3. QED
    BY <2>1, <2>2
<1>8. DOMAIN later = 1..n /\ c = [i \in 1..n |-> c[i]]
  BY <1>2
<1> HIDE DEF later, earlier, c, n
<1>9. \A i \in 1..n : later[i] - earlier[i] = c[i] /\ ~(c[i] < 0)
  BY <1>6, <1>7
<1>10. [i \in DOMAIN later |-> later[i] - earlier[i]] = c
  BY <1>8, <1>9
<1>11. QED
  BY <1>8, <1>9, <1>10 DEF Delta, View, later, earlier, c

------------------------------------------------------------------------------
(* The quantile of a tally. *)

\* At least as many observations as the rank of the quantile asks for.
Enough(t, q, y) == UpTo(t, y) * q[2] >= q[1] * All(t)

\* The least value up to which there are enough observations is the quantile; up to any
\* other bound there are enough if and only if it is no smaller.
LEMMA QuantileDivides ==
  ASSUME NEW t \in Tallies, All(t) > 0, NEW q, IsQuantile(q), q[1] > 0
  PROVE  /\ TrueQuantile(t, q) \in Nat
         /\ \A y \in Nat : Enough(t, q, y) <=> y >= TrueQuantile(t, q)
<1> DEFINE X == {v \in Values : UpTo(t, v) >= 1 /\ UpTo(t, v) * q[2] >= q[1] * All(t)}
           x == TrueQuantile(t, q)
           Low(y) == {v \in Values : v <= y}
<1>1. /\ q[1] \in Nat /\ q[2] \in Nat /\ q[1] <= q[2] /\ q[1] > 0 /\ q[2] > 0
      /\ Values \subseteq Nat /\ IsFiniteSet(Values)
  BY Latencies DEF IsQuantile
<1>2. All(t) \in Nat /\ \A y \in Nat : UpTo(t, y) \in Nat
  <2>1. \A y \in Nat : y <= y
    OBVIOUS
  <2>2. QED
    BY <2>1, TallyGrows
<1>3. q[1] * All(t) \in Nat /\ q[1] * All(t) > 0
  <2>1. \A a, b \in Nat : a > 0 /\ b > 0 => a * b \in Nat /\ a * b > 0
    OBVIOUS
  <2>2. QED
    BY <1>1, <1>2, <2>1
<1>4. ASSUME NEW y \in Nat, Enough(t, q, y) PROVE UpTo(t, y) >= 1
  <2>1. CASE UpTo(t, y) = 0
    <3>1. UpTo(t, y) * q[2] = 0
      BY <1>1, <2>1
    <3>2. QED
      BY <1>3, <1>4, <3>1 DEF Enough
  <2>2. CASE UpTo(t, y) # 0
    BY <1>2, <2>2
  <2>3. QED
    BY <2>1, <2>2
<1>5. ASSUME NEW y \in Nat, Enough(t, q, y) PROVE \E v \in X : v <= y
  <2>1. UpTo(t, y) >= 1 /\ UpTo(t, y) = SumOf(t, Low(y))
    BY <1>4, <1>5, TalliesAreSums
  <2>2. Low(y) # {}
    <3>1. ASSUME Low(y) = {} PROVE FALSE
      <4>1. SumOf(t, {}) = 0
        <5> DEFINE f == [v \in {} |-> 0]
        <5>1. IsFiniteSet({}) /\ f \in [{} -> Nat] /\ \A v \in {} : f[v] = 0
          BY FS_EmptySet
        <5>2. \A v \in {} : t[v] = f[v]
          OBVIOUS
        <5> HIDE DEF f
        <5>3. SumOf(f, {}) = 0 /\ SumOf(t, {}) = SumOf(f, {})
          BY <5>1, <5>2, SumIsZero, SumsAgree
        <5>4. QED
          BY <5>3
      <4>2. SumOf(t, Low(y)) = SumOf(t, {})
        BY <3>1
      <4> HIDE DEF Low
      <4>3. QED
        BY <2>1, <4>1, <4>2
    <3>2. QED
      BY <3>1
  <2>3. Low(y) \in SUBSET Nat /\ \A v \in Low(y) : v <= y
    BY <1>1
  <2> DEFINE g == Greatest(Low(y))
  <2>4. g \in Low(y) /\ \A v \in Low(y) : g >= v
    <3> HIDE DEF Low
    <3>1. QED
      BY <2>2, <2>3, GreatestExists
  <2> HIDE DEF g
  <2>5. g \in Values /\ g \in Nat /\ g <= y
    BY <1>1, <2>4
  <2>6. Low(g) = Low(y)
    <3>1. ASSUME NEW v \in Low(g) PROVE v \in Low(y)
      <4>1. v \in Nat /\ v <= g
        BY <1>1
      <4>2. v <= y
        BY <2>5, <4>1
      <4>3. QED
        BY <4>2
    <3>2. ASSUME NEW v \in Low(y) PROVE v \in Low(g)
      <4>1. v \in Nat /\ g >= v
        BY <1>1, <2>4
      <4>2. v <= g
        BY <2>5, <4>1
      <4>3. QED
        BY <4>2
    <3>3. QED
      BY <3>1, <3>2
  <2>7. UpTo(t, g) = UpTo(t, y)
    BY <2>1, <2>6, TalliesAreSums
  <2>8. g \in X
    BY <1>5, <2>1, <2>5, <2>7 DEF Enough
  <2>9. QED
    BY <2>5, <2>8
<1>6. X \in SUBSET Nat /\ X # {}
  <2>1. X \in SUBSET Nat
    BY <1>1
  <2>2. PICK b \in Nat : \A v \in Values : v <= b
    <3> DEFINE f == [v \in Values |-> v]
    <3>1. f \in [Values -> Nat] /\ \A v \in Values : f[v] = v
      BY <1>1
    <3> HIDE DEF f
    <3>2. SumOf(f, Values) \in Nat /\ \A v \in Values : f[v] <= SumOf(f, Values)
      BY <1>1, <3>1, SumOfNaturals
    <3>3. QED
      BY <3>1, <3>2
  <2>3. Low(b) = Values
    BY <2>2
  <2>4. UpTo(t, b) = All(t)
    BY <2>3, TalliesAreSums
  <2>5. Enough(t, q, b)
    <3>1. q[1] * All(t) <= q[2] * All(t) /\ q[2] * All(t) \in Nat
      BY <1>1, <1>2, ProductsGrow
    <3>2. All(t) * q[2] = q[2] * All(t)
      BY <1>1, <1>2
    <3>3. QED
      BY <1>3, <2>4, <3>1, <3>2 DEF Enough
  <2>6. QED
    BY <1>5, <2>1, <2>5
<1>7. x \in X /\ \A v \in X : x <= v
  <2>1. x = LeastOf(X)
    BY DEF TrueQuantile
  <2> HIDE DEF X, x
  <2>2. QED
    BY <1>6, <2>1, LeastIsFound
<1>8. x \in Nat /\ Enough(t, q, x)
  <2>1. x \in Nat
    BY <1>6, <1>7
  <2> HIDE DEF x
  <2>2. QED
    BY <1>7, <2>1 DEF Enough
<1>9. ASSUME NEW y \in Nat, y >= x PROVE Enough(t, q, y)
  <2>1. UpTo(t, x) \in Nat /\ UpTo(t, y) \in Nat /\ UpTo(t, x) <= UpTo(t, y)
    BY <1>8, <1>9, TallyGrows
  <2>2. /\ UpTo(t, x) * q[2] <= UpTo(t, y) * q[2]
        /\ UpTo(t, x) * q[2] \in Nat /\ UpTo(t, y) * q[2] \in Nat
    BY <1>1, <2>1, ProductsGrow
  <2> HIDE DEF x
  <2>3. QED
    BY <1>3, <1>8, <2>2 DEF Enough
<1>10. ASSUME NEW y \in Nat, Enough(t, q, y) PROVE y >= x
  <2>1. PICK v \in X : v <= y
    BY <1>5, <1>10
  <2>2. v \in Nat /\ x <= v
    BY <1>6, <1>7
  <2> HIDE DEF x, X
  <2>3. QED
    BY <1>8, <2>1, <2>2
<1>11. QED
  BY <1>8, <1>9, <1>10

\* The quantile that is computed from the counts of a tally lies in the bucket of the
\* tally's own quantile.
LEMMA QuantileMatches ==
  ASSUME IsLayout(layout), layout # <<>>, NEW t \in Tallies, All(t) > 0,
         NEW q, IsQuantile(q), q[1] > 0
  PROVE  InBucket(TrueQuantile(t, q), Quantile(View(layout, Counts(layout, t)), q))
<1> DEFINE c == Counts(layout, t)
           n == Len(layout) + 1
           x == TrueQuantile(t, q)
           R == Reaching(Running(c), q)
           index == LeastOf(R)
           value == Quantile(View(layout, c), q)
           above == {i \in DOMAIN layout : layout[i] >= x}
<1>1. /\ Len(layout) \in Nat /\ Len(layout) # 0 /\ DOMAIN layout = 1..Len(layout)
      /\ \A i \in 1..Len(layout) : layout[i] \in Nat
  BY DEF IsLayout
<1>2. Cumulative(c) /\ Len(c) = n /\ Running(c) = c /\ c \in Seq(Nat)
  <2>1. Cumulative(c) /\ Len(c) = n
    BY CountsAccumulate
  <2>2. c \in Seq(Nat)
    BY <2>1 DEF Cumulative
  <2> HIDE DEF c
  <2>3. QED
    BY <2>1, <2>2, RunningRises
<1>3. /\ n \in 1..n /\ c[n] = All(t)
      /\ \A i \in 1..Len(layout) : c[i] = UpTo(t, layout[i]) /\ i \in 1..n
  <2>1. n \in 1..n /\ ~(n <= Len(layout))
    BY <1>1
  <2>2. \A i \in 1..Len(layout) : i <= Len(layout) /\ i \in 1..n
    BY <1>1
  <2>3. c = [i \in 1..n |-> IF i <= Len(layout) THEN UpTo(t, layout[i]) ELSE All(t)]
    BY DEF Counts
  <2> HIDE DEF c, n
  <2>4. QED
    BY <2>1, <2>2, <2>3
<1>4. x \in Nat /\ \A y \in Nat : Enough(t, q, y) <=> y >= x
  BY QuantileDivides
<1>5. R = {i \in 1..n : c[i] * q[2] >= q[1] * All(t)}
  BY <1>2, <1>3 DEF Reaching
<1>6. \A i \in 1..Len(layout) : i \in R <=> i \in above
  <2> TAKE i \in 1..Len(layout)
  <2>1. i \in R <=> Enough(t, q, layout[i])
    BY <1>3, <1>5 DEF Enough
  <2>2. QED
    BY <1>1, <1>4, <2>1
<1>7. index \in R /\ \A i \in R : index <= i
  <2>1. Len(c) > 0
    BY <1>1, <1>2
  <2> HIDE DEF c
  <2>2. QED
    BY <1>2, <2>1, SomeBucketReaches
<1>8. index \in 1..n
  BY <1>5, <1>7
<1>9. Bracketed(layout, index, value)
  <2>1. Running(c)[Len(c)] # 0
    BY <1>2, <1>3
  <2> HIDE DEF c
  <2>2. QED
    BY <1>1, <1>2, <2>1, QuantileIsBracketed
<1> HIDE DEF c, R, index, value, x
<1>10. CASE above = {}
  <2>1. index \notin 1..Len(layout)
    BY <1>6, <1>7, <1>10
  <2>2. index = Len(layout) + 1
    BY <1>1, <1>8, <2>1
  <2>3. value[1] = layout[Len(layout)] * value[2]
    BY <1>9, <2>2 DEF Bracketed
  <2>4. QED
    BY <1>10, <2>3 DEF InBucket, c, x, value
<1>11. CASE above # {}
  <2>1. above \in SUBSET Nat
    BY <1>1
  <2> DEFINE i == LeastOf(above)
  <2>2. i \in above /\ \A y \in above : i <= y
    <3> HIDE DEF above
    <3>1. QED
      BY <1>11, <2>1, LeastIsFound
  <2>3. i \in 1..Len(layout) /\ i \in R
    BY <1>1, <1>6, <2>2
  <2> HIDE DEF i
  <2>4. index <= i
    BY <1>7, <2>3
  <2>5. index \in 1..Len(layout) /\ index \in Nat /\ i \in Nat
    BY <1>1, <1>8, <2>3, <2>4
  <2>6. index \in above
    BY <1>6, <1>7, <2>5
  <2>7. i = index
    BY <2>2, <2>4, <2>5, <2>6
  <2>8. /\ value[1] <= layout[i] * value[2]
        /\ i > 1 => value[1] >= layout[i - 1] * value[2]
    BY <1>9, <2>5, <2>7 DEF Bracketed
  <2>9. QED
    BY <1>11, <2>8 DEF InBucket, c, x, value, i
<1>12. QED
  BY <1>10, <1>11

------------------------------------------------------------------------------
(* The invariant of the scrapes. *)

\* The label sets the reading finds.
Found == IF wanted = "any" THEN exposed ELSE exposed \cap {wanted}

IsView(l, r) == \E c \in Seq(Nat) : Len(c) = Len(l) + 1 /\ r = View(l, c)
IsReading(l, r) == r = NOTHING \/ r = AMBIGUOUS \/ IsView(l, r)

ScrapeTypes ==
  /\ layout \in Layouts /\ exposed \in SUBSET Models /\ wanted \in Models \cup {"any"}
  /\ tally \in [Models -> Tallies] /\ seen \in Tallies
  /\ step \in {"idle", "loaded", "measured"}
  /\ torn \in BOOLEAN /\ restarted \in BOOLEAN
  /\ IsReading(layout, before) /\ IsReading(layout, after)
  /\ step = "idle" => before = NOTHING /\ seen = Zero /\ ~restarted

\* The first scrape read a tally t of the one model that is asked for, which has since
\* counted what was seen; the second read both together.
ReadOf(t) ==
  /\ before = View(layout, Counts(layout, t))
  /\ step = "loaded" => \E m \in exposed : Found = {m} /\ tally[m] = Together(t, seen)
  /\ step = "measured" /\ after.is = "view" =>
       after = View(layout, Counts(layout, Together(t, seen)))

ReadInv == ~torn /\ ~restarted /\ before.is = "view" => \E t \in Tallies : ReadOf(t)

Refused ==
  step = "measured" /\ wanted = "any" /\ Cardinality(exposed) > 1 => after = AMBIGUOUS

ScrapeInv == ScrapeTypes /\ ReadInv /\ Refused

\* A reading is a view exactly if one label set was found, and then that one's.
LEMMA OneIsRead ==
  ASSUME exposed \in SUBSET Models, NEW l, NEW viewOf, \A m \in exposed : IsView(l, viewOf[m])
  PROVE  /\ IsReading(l, OneHistogram(viewOf, wanted))
         /\ wanted = "any" /\ Cardinality(exposed) > 1
              => OneHistogram(viewOf, wanted) = AMBIGUOUS
         /\ OneHistogram(viewOf, wanted).is = "view" =>
              \E m \in exposed : Found = {m} /\ OneHistogram(viewOf, wanted) = viewOf[m]
<1> DEFINE r == OneHistogram(viewOf, wanted)
<1>1. r = IF Found = {} THEN NOTHING
          ELSE IF Cardinality(Found) > 1 THEN AMBIGUOUS
          ELSE viewOf[CHOOSE m \in Found : TRUE]
  BY DEF OneHistogram, Found
<1>2. IsFiniteSet(exposed) /\ IsFiniteSet(Found) /\ Found \subseteq exposed
  <2>1. IsFiniteSet(exposed)
    BY ModelsAreFew, FS_Subset
  <2>2. Found \subseteq exposed
    BY DEF Found
  <2>3. QED
    BY <2>1, <2>2, FS_Subset
<1> HIDE DEF r
<1>3. CASE Found = {}
  <2>1. r = NOTHING
    BY <1>1, <1>3
  <2>2. ~(wanted = "any" /\ Cardinality(exposed) > 1)
    <3>1. ASSUME wanted = "any" PROVE ~(Cardinality(exposed) > 1)
      <4>1. Cardinality(exposed) = 0
        BY <1>3, <3>1, FS_EmptySet DEF Found
      <4>2. QED
        BY <4>1
    <3>2. QED
      BY <3>1
  <2>3. NOTHING.is # "view"
    BY DEF NOTHING
  <2>4. QED
    BY <2>1, <2>2, <2>3 DEF IsReading, r
<1>4. CASE Found # {} /\ Cardinality(Found) > 1
  <2>1. r = AMBIGUOUS
    BY <1>1, <1>4
  <2>2. AMBIGUOUS.is # "view"
    BY DEF AMBIGUOUS
  <2>3. QED
    BY <2>1, <2>2 DEF IsReading, r
<1>5. CASE Found # {} /\ ~(Cardinality(Found) > 1)
  <2>1. PICK m : Found = {m}
    <3>1. Cardinality(Found) \in Nat /\ Cardinality(Found) # 0
      BY <1>2, <1>5, FS_CardinalityType, FS_EmptySet
    <3>2. Cardinality(Found) = 1
      BY <1>5, <3>1
    <3>3. QED
      BY <1>2, <3>2, FS_Singleton
  <2>2. m \in exposed /\ r = viewOf[m]
    BY <1>1, <1>2, <1>5, <2>1
  <2>3. IsReading(l, r)
    BY <2>2 DEF IsReading
  <2>4. ~(wanted = "any" /\ Cardinality(exposed) > 1)
    BY <1>5 DEF Found
  <2>5. QED
    BY <2>1, <2>2, <2>3, <2>4 DEF r
<1>6. QED
  BY <1>3, <1>4, <1>5

LEMMA LayoutIsOne == ScrapeTypes => IsLayout(layout)
BY LayoutsAscend DEF ScrapeTypes

LEMMA TalliesAreViews ==
  ASSUME NEW l, IsLayout(l), NEW t \in Tallies
  PROVE  IsView(l, View(l, Counts(l, t)))
<1>1. Counts(l, t) \in Seq(Nat) /\ Len(Counts(l, t)) = Len(l) + 1
  BY CountsAccumulate DEF Cumulative
<1>2. QED
  BY <1>1 DEF IsView

LEMMA ZeroIsATally == Zero \in Tallies /\ \A t \in Tallies : Together(t, Zero) = t
<1>1. Zero \in Tallies
  BY DEF Zero, Tallies
<1>2. ASSUME NEW t \in Tallies PROVE Together(t, Zero) = t
  <2>1. t = [v \in Values |-> t[v]] /\ \A v \in Values : t[v] \in Nat
    BY DEF Tallies
  <2>2. \A v \in Values : t[v] + Zero[v] = t[v]
    BY <2>1 DEF Zero
  <2>3. QED
    BY <2>1, <2>2 DEF Together
<1>3. QED
  BY <1>1, <1>2

LEMMA ScrapesStart == ScrapesInit => ScrapeInv
<1> SUFFICES ASSUME ScrapesInit PROVE ScrapeInv
  OBVIOUS
<1>1. Zero \in Tallies
  BY ZeroIsATally
<1>2. ScrapeTypes
  BY <1>1 DEF ScrapesInit, ScrapeTypes, IsReading
<1>3. before.is # "view" /\ step # "measured"
  BY DEF ScrapesInit, NOTHING
<1>4. QED
  BY <1>2, <1>3 DEF ScrapeInv, ReadInv, Refused

\* One more observation of a tally.
Plus(t, v) == [t EXCEPT ![v] = @ + 1]

LEMMA ObservesCounts ==
  ASSUME ScrapeTypes, NEW m, NEW v, v \in Values, Observes(m, v)
  PROVE  /\ m \in exposed /\ m \in Models /\ step # "measured"
         /\ tally' \in [Models -> Tallies] /\ seen' \in Tallies
         /\ tally'[m] = Plus(tally[m], v) /\ \A n \in Models : n # m => tally'[n] = tally[n]
         /\ seen' = IF step = "loaded" /\ wanted \in {m, "any"} THEN Plus(seen, v) ELSE seen
<1>1. \A t \in Tallies : Plus(t, v) \in Tallies
  BY DEF Tallies, Plus
<1>2. m \in exposed /\ m \in Models /\ step # "measured"
  BY DEF Observes, ScrapeTypes
<1>3. tally' = [tally EXCEPT ![m] = Plus(tally[m], v)]
  BY <1>2 DEF Observes, Plus, ScrapeTypes
<1>4. seen' = IF step = "loaded" /\ wanted \in {m, "any"} THEN Plus(seen, v) ELSE seen
  BY DEF Observes, Plus
<1>5. tally \in [Models -> Tallies] /\ seen \in Tallies
  BY DEF ScrapeTypes
<1>6. Plus(tally[m], v) \in Tallies /\ seen' \in Tallies
  BY <1>1, <1>2, <1>4, <1>5
<1>7. QED
  BY <1>2, <1>3, <1>4, <1>5, <1>6

LEMMA ObserveKeeps == ScrapeInv /\ Observe => ScrapeInv'
<1> SUFFICES ASSUME ScrapeInv, Observe PROVE ScrapeInv'
  OBVIOUS
<1>1. PICK m \in Models, v \in Values : Observes(m, v)
  BY DEF Observe
<1>2. UNCHANGED <<layout, exposed, wanted, before, after, step, torn, restarted>>
  BY DEF Observe
<1>3. /\ m \in exposed /\ step # "measured"
      /\ tally' \in [Models -> Tallies] /\ seen' \in Tallies
      /\ tally'[m] = Plus(tally[m], v) /\ \A n \in Models : n # m => tally'[n] = tally[n]
      /\ seen' = IF step = "loaded" /\ wanted \in {m, "any"} THEN Plus(seen, v) ELSE seen
  BY <1>1, ObservesCounts DEF ScrapeInv
<1>4. ScrapeTypes'
  <2>1. step = "idle" => before' = NOTHING /\ seen' = Zero /\ ~restarted'
    BY <1>2, <1>3 DEF ScrapeInv, ScrapeTypes
  <2>2. QED
    BY <1>2, <1>3, <2>1 DEF ScrapeInv, ScrapeTypes
<1>5. ReadInv'
  <2> SUFFICES ASSUME ~torn, ~restarted, before.is = "view" PROVE (\E t \in Tallies : ReadOf(t))'
    BY <1>2 DEF ReadInv
  <2>1. PICK t \in Tallies : ReadOf(t)
    BY DEF ScrapeInv, ReadInv
  <2>2. ASSUME step = "loaded"
        PROVE  \E n \in exposed : Found = {n} /\ tally'[n] = Together(t, seen')
    <3>1. PICK n \in exposed : Found = {n} /\ tally[n] = Together(t, seen)
      BY <2>1, <2>2 DEF ReadOf
    <3>2. n \in Models /\ seen \in Tallies
      BY DEF ScrapeInv, ScrapeTypes
    <3>3. CASE n = m
      <4>1. wanted \in {m, "any"}
        BY <3>1, <3>3 DEF Found
      <4>2. seen' = Plus(seen, v) /\ tally'[m] = Plus(Together(t, seen), v)
        BY <1>3, <2>2, <3>1, <3>3, <4>1
      <4>3. Plus(Together(t, seen), v) = Together(t, Plus(seen, v))
        <5>1. \A w \in Values : t[w] \in Nat /\ seen[w] \in Nat
          BY <3>2 DEF Tallies
        <5>2. seen = [w \in Values |-> seen[w]]
          BY <3>2 DEF Tallies
        <5>3. \A w \in Values : Plus(seen, v)[w] = IF w = v THEN seen[w] + 1 ELSE seen[w]
          BY <5>2 DEF Plus
        <5>4. Plus(Together(t, seen), v)
                = [w \in Values |-> IF w = v THEN (t[w] + seen[w]) + 1 ELSE t[w] + seen[w]]
          BY DEF Plus, Together
        <5>5. \A w \in Values : t[w] + Plus(seen, v)[w]
                = IF w = v THEN (t[w] + seen[w]) + 1 ELSE t[w] + seen[w]
          BY <5>1, <5>3
        <5>6. QED
          BY <5>4, <5>5 DEF Together
      <4>4. QED
        BY <3>1, <3>3, <4>2, <4>3
    <3>4. CASE n # m
      <4>1. wanted \notin {m, "any"}
        BY <1>3, <3>1, <3>4 DEF Found
      <4>2. seen' = seen /\ tally'[n] = tally[n]
        BY <1>3, <3>2, <3>4, <4>1
      <4>3. QED
        BY <3>1, <4>2
    <3>5. QED
      BY <3>3, <3>4
  <2>3. Found' = Found
    BY <1>2 DEF Found
  <2>4. ReadOf(t)'
    BY <1>2, <1>3, <2>1, <2>2, <2>3 DEF ReadOf
  <2>5. QED
    BY <2>4
<1>6. Refused'
  BY <1>2, <1>3 DEF Refused
<1>7. QED
  BY <1>4, <1>5, <1>6 DEF ScrapeInv

LEMMA RestartKeeps == ScrapeInv /\ Restart => ScrapeInv'
<1> SUFFICES ASSUME ScrapeInv, Restart PROVE ScrapeInv'
  OBVIOUS
<1>1. Zero \in Tallies
  BY ZeroIsATally
<1>2. ScrapeTypes'
  BY <1>1 DEF ScrapeInv, ScrapeTypes, Restart
<1>3. restarted' /\ step' # "measured"
  BY DEF Restart
<1>4. QED
  BY <1>2, <1>3 DEF ScrapeInv, ReadInv, Refused

\* What keeping a reading does, whatever it was read from.
LEMMA KeptReading ==
  ASSUME ScrapeInv, NEW viewOf, \A m \in exposed : IsView(layout, viewOf[m]), Keeps(viewOf),
         UNCHANGED <<layout, exposed, wanted>>
  PROVE  /\ IsReading(layout, before') /\ IsReading(layout, after')
         /\ step' \in {"loaded", "measured"} /\ Refused'
<1> DEFINE r == OneHistogram(viewOf, wanted)
<1>1. /\ IsReading(layout, r)
      /\ wanted = "any" /\ Cardinality(exposed) > 1 => r = AMBIGUOUS
  BY OneIsRead DEF ScrapeInv, ScrapeTypes
<1>2. \/ step = "idle" /\ step' = "loaded" /\ before' = r /\ UNCHANGED after
      \/ step = "loaded" /\ step' = "measured" /\ after' = r /\ UNCHANGED before
  BY DEF Keeps
<1>3. IsReading(layout, before) /\ IsReading(layout, after)
  BY DEF ScrapeInv, ScrapeTypes
<1> HIDE DEF r
<1>4. QED
  BY <1>1, <1>2, <1>3 DEF Refused

LEMMA ScrapeKeeps == ScrapeInv /\ Scrape => ScrapeInv'
<1> SUFFICES ASSUME ScrapeInv, Scrape PROVE ScrapeInv'
  OBVIOUS
<1> DEFINE viewOf == [m \in Models |-> View(layout, Counts(layout, tally[m]))]
           r == OneHistogram(viewOf, wanted)
<1>1. UNCHANGED <<layout, exposed, wanted, tally, seen, torn, restarted>> /\ Keeps(viewOf)
  BY DEF Scrape
<1>2. \A m \in Models : tally[m] \in Tallies /\ viewOf[m] = View(layout, Counts(layout, tally[m]))
  BY DEF ScrapeInv, ScrapeTypes
<1>3. exposed \in SUBSET Models /\ IsLayout(layout)
  BY LayoutIsOne DEF ScrapeInv, ScrapeTypes
<1>4. \A m \in exposed : IsView(layout, viewOf[m])
  BY <1>2, <1>3, TalliesAreViews
<1>5. r.is = "view" => \E m \in exposed : Found = {m} /\ r = viewOf[m]
  <2> HIDE DEF viewOf
  <2>1. QED
    BY <1>3, <1>4, OneIsRead
<1>6. \/ step = "idle" /\ step' = "loaded" /\ before' = r /\ UNCHANGED after
      \/ step = "loaded" /\ step' = "measured" /\ after' = r /\ UNCHANGED before
  BY <1>1 DEF Keeps
<1> HIDE DEF viewOf, r
<1>7. /\ IsReading(layout, before') /\ IsReading(layout, after')
      /\ step' \in {"loaded", "measured"} /\ Refused'
  BY <1>1, <1>4, KeptReading
<1>8. ScrapeTypes'
  BY <1>1, <1>7 DEF ScrapeInv, ScrapeTypes
<1>9. ReadInv'
  <2> SUFFICES ASSUME ~torn, ~restarted, before'.is = "view" PROVE (\E t \in Tallies : ReadOf(t))'
    BY <1>1 DEF ReadInv
  <2>1. Found' = Found
    BY <1>1 DEF Found
  <2>2. CASE step = "idle" /\ step' = "loaded" /\ before' = r
    <3>1. PICK m \in exposed : Found = {m} /\ r = viewOf[m]
      BY <1>5, <2>2
    <3>2. tally[m] \in Tallies /\ before' = View(layout, Counts(layout, tally[m]))
      BY <1>2, <1>3, <2>2, <3>1
    <3>3. tally[m] = Together(tally[m], seen)
      BY <2>2, <3>2, ZeroIsATally DEF ScrapeInv, ScrapeTypes
    <3>4. ReadOf(tally[m])'
      BY <1>1, <2>1, <2>2, <3>1, <3>2, <3>3 DEF ReadOf
    <3>5. QED
      BY <1>1, <3>2, <3>4
  <2>3. CASE step = "loaded" /\ step' = "measured" /\ after' = r /\ before' = before
    <3>1. PICK t \in Tallies : ReadOf(t)
      BY <2>3 DEF ScrapeInv, ReadInv
    <3>2. PICK n \in exposed : Found = {n} /\ tally[n] = Together(t, seen)
      BY <2>3, <3>1 DEF ReadOf
    <3>3. ASSUME r.is = "view" PROVE r = View(layout, Counts(layout, Together(t, seen)))
      <4>1. PICK m \in exposed : Found = {m} /\ r = viewOf[m]
        BY <1>5, <3>3
      <4>2. m = n /\ m \in Models
        BY <1>3, <3>2, <4>1
      <4>3. QED
        BY <1>2, <3>2, <4>1, <4>2
    <3>4. ReadOf(t)'
      BY <1>1, <2>3, <3>1, <3>3 DEF ReadOf
    <3>5. QED
      BY <3>4
  <2>4. QED
    BY <1>6, <2>2, <2>3
<1>10. QED
  BY <1>7, <1>8, <1>9 DEF ScrapeInv

LEMMA ScrapeTornKeeps == ScrapeInv /\ ScrapeTorn => ScrapeInv'
<1> SUFFICES ASSUME ScrapeInv, ScrapeTorn PROVE ScrapeInv'
  OBVIOUS
<1>1. PICK m \in Models, v \in Values, k \in 1..Len(layout) :
        /\ Observes(m, v)
        /\ LET old == Counts(layout, tally[m])
               new == Counts(layout, tally'[m])
               mixed == [i \in DOMAIN old |-> IF i <= k THEN new[i] ELSE old[i]]
           IN  Keeps([n \in Models |->
                        View(layout, IF n = m THEN mixed ELSE Counts(layout, tally[n]))])
  BY DEF ScrapeTorn
<1>2. torn' = TRUE /\ UNCHANGED <<layout, exposed, wanted, restarted>>
  BY DEF ScrapeTorn
<1>3. tally' \in [Models -> Tallies] /\ seen' \in Tallies
  BY <1>1, ObservesCounts DEF ScrapeInv
<1> DEFINE old == Counts(layout, tally[m])
           new == Counts(layout, tally'[m])
           mixed == [i \in DOMAIN old |-> IF i <= k THEN new[i] ELSE old[i]]
           viewOf == [n \in Models |->
                        View(layout, IF n = m THEN mixed ELSE Counts(layout, tally[n]))]
<1>4. IsLayout(layout) /\ exposed \in SUBSET Models /\ tally \in [Models -> Tallies]
  BY LayoutIsOne DEF ScrapeInv, ScrapeTypes
<1>5. /\ old \in Seq(Nat) /\ Len(old) = Len(layout) + 1
      /\ new \in Seq(Nat) /\ Len(new) = Len(layout) + 1
  <2>1. tally[m] \in Tallies /\ tally'[m] \in Tallies
    BY <1>3, <1>4
  <2>2. QED
    BY <1>4, <2>1, CountsAccumulate DEF Cumulative
<1>6. mixed \in Seq(Nat) /\ Len(mixed) = Len(layout) + 1
  <2> HIDE DEF old, new
  <2>1. DOMAIN old = 1..Len(old) /\ DOMAIN new = DOMAIN old /\ Len(old) \in Nat
    BY <1>5
  <2>2. \A i \in DOMAIN old : mixed[i] \in Nat
    BY <1>5, <2>1, SMTT(30)
  <2>3. mixed = [i \in 1..Len(old) |-> mixed[i]]
    BY <2>1
  <2> HIDE DEF mixed
  <2>4. QED
    BY <1>5, <2>1, <2>2, <2>3
<1> HIDE DEF mixed
<1>7. ASSUME NEW n \in exposed PROVE IsView(layout, viewOf[n])
  <2>1. n \in Models /\ tally[n] \in Tallies
    BY <1>4
  <2>2. CASE n = m
    <3>1. viewOf[n] = View(layout, mixed)
      BY <2>1, <2>2
    <3>2. QED
      BY <1>6, <3>1 DEF IsView
  <2>3. CASE n # m
    <3>1. viewOf[n] = View(layout, Counts(layout, tally[n]))
      BY <2>1, <2>3
    <3>2. QED
      BY <1>4, <2>1, <3>1, TalliesAreViews
  <2>4. QED
    BY <2>2, <2>3
<1>8. Keeps(viewOf)
  BY <1>1 DEF mixed
<1> HIDE DEF viewOf
<1>9. /\ IsReading(layout, before') /\ IsReading(layout, after')
      /\ step' \in {"loaded", "measured"} /\ Refused'
  BY <1>2, <1>7, <1>8, KeptReading
<1>10. ScrapeTypes'
  BY <1>2, <1>3, <1>9 DEF ScrapeInv, ScrapeTypes
<1>11. QED
  BY <1>2, <1>9, <1>10 DEF ScrapeInv, ReadInv

\* Two views of one layout subtract to a view, or to nothing after a counter went down.
LEMMA DeltaIsAView ==
  ASSUME NEW l, IsLayout(l), NEW a, IsView(l, a), NEW b, IsView(l, b), Delta(b, a) # NOTHING
  PROVE  IsView(l, Delta(b, a))
<1>1. PICK c \in Seq(Nat) : Len(c) = Len(l) + 1 /\ a = View(l, c)
  BY DEF IsView
<1>2. PICK e \in Seq(Nat) : Len(e) = Len(l) + 1 /\ b = View(l, e)
  BY DEF IsView
<1> DEFINE n == Len(l) + 1
           diff == [i \in DOMAIN e |-> e[i] - c[i]]
<1>3. n \in Nat /\ DOMAIN e = 1..n /\ \A i \in 1..n : e[i] \in Nat /\ c[i] \in Nat
  BY <1>1, <1>2 DEF IsLayout
<1>4. Delta(b, a) = IF \E i \in DOMAIN diff : diff[i] < 0 THEN NOTHING ELSE View(l, diff)
  BY <1>1, <1>2 DEF Delta, View
<1>5. ~(\E i \in DOMAIN diff : diff[i] < 0) /\ Delta(b, a) = View(l, diff)
  BY <1>4
<1> HIDE DEF n
<1>6. DOMAIN diff = 1..n /\ \A i \in 1..n : diff[i] = e[i] - c[i]
  BY <1>3
<1>7. \A i \in 1..n : ~(diff[i] < 0)
  BY <1>5, <1>6
<1>8. diff = [i \in 1..n |-> diff[i]]
  BY <1>3
<1> HIDE DEF diff
<1>9. ASSUME NEW i \in 1..n PROVE diff[i] \in Nat
  <2>1. e[i] \in Nat /\ c[i] \in Nat /\ diff[i] = e[i] - c[i] /\ ~(diff[i] < 0)
    BY <1>3, <1>6, <1>7
  <2>2. QED
    BY <2>1
<1>10. diff \in Seq(Nat) /\ Len(diff) = n
  <2>1. diff \in [1..n -> Nat]
    BY <1>8, <1>9
  <2>2. ASSUME NEW s \in [1..n -> Nat] PROVE s \in Seq(Nat) /\ Len(s) = n
    BY <1>3
  <2>3. QED
    BY <2>1, <2>2
<1>11. QED
  BY <1>5, <1>10 DEF IsView, n

\* A quantile of any view lies between zero and the last bound.
LEMMA QuantileIsBounded ==
  ASSUME NEW l, IsLayout(l), NEW d, IsView(l, d), NEW q, IsQuantile(q),
         Quantile(d, q) # NOTHING
  PROVE  Quantile(d, q)[1] \in 0..(l[Len(l)] * Quantile(d, q)[2])
<1>1. PICK c \in Seq(Nat) : Len(c) = Len(l) + 1 /\ d = View(l, c)
  BY DEF IsView
<1> DEFINE index == LeastOf(Reaching(Running(c), q))
           value == Quantile(d, q)
<1>2. ~(Len(l) = 0 \/ Running(c)[Len(c)] = 0) /\ Bracketed(l, index, value)
  BY <1>1, QuantileIsBracketed
<1>3. /\ Len(l) \in Nat /\ Len(l) \in 1..Len(l)
      /\ \A i \in 1..Len(l) : l[i] \in Nat
      /\ \A i, j \in 1..Len(l) : i < j => l[i] < l[j]
  BY <1>2 DEF IsLayout
<1>4. index \in 1..(Len(l) + 1)
  <2>1. Cumulative(Running(c)) /\ Len(Running(c)) = Len(l) + 1 /\ Len(Running(c)) > 0
    BY <1>1, <1>3, RunningRises
  <2>2. index \in Reaching(Running(c), q)
    BY <2>1, SomeBucketReaches
  <2>3. QED
    BY <2>1, <2>2 DEF Reaching
<1> HIDE DEF index, value
<1>5. value[1] \in Nat /\ value[2] \in Nat
  BY <1>2 DEF Bracketed
<1>6. value[1] <= l[Len(l)] * value[2] /\ l[Len(l)] * value[2] \in Nat
  <2>1. l[Len(l)] \in Nat /\ l[Len(l)] * value[2] \in Nat
    BY <1>3, <1>5
  <2>2. CASE index = Len(l) + 1
    <3>1. value[1] = l[Len(l)] * value[2]
      BY <1>2, <2>2 DEF Bracketed
    <3>2. QED
      BY <2>1, <3>1
  <2>3. CASE index # Len(l) + 1
    <3>1. index \in 1..Len(l) /\ index <= Len(l)
      BY <1>3, <1>4, <2>3
    <3>2. l[index] \in Nat /\ l[index] <= l[Len(l)]
      <4>1. CASE index = Len(l)
        BY <2>1, <4>1
      <4>2. CASE index # Len(l)
        <5>1. index < Len(l)
          BY <3>1, <4>2
        <5>2. l[index] < l[Len(l)] /\ l[index] \in Nat
          BY <1>3, <3>1, <5>1
        <5>3. QED
          BY <2>1, <5>2
      <4>3. QED
        BY <4>1, <4>2
    <3>3. value[1] <= l[index] * value[2]
      BY <1>2, <3>1 DEF Bracketed
    <3>4. l[index] * value[2] <= l[Len(l)] * value[2] /\ l[index] * value[2] \in Nat
      BY <1>5, <2>1, <3>2, ProductsGrow
    <3>5. QED
      BY <1>5, <2>1, <3>3, <3>4
  <2>4. QED
    BY <2>2, <2>3
<1>7. value[1] \in 0..(l[Len(l)] * value[2])
  BY <1>5, <1>6
<1>8. QED
  BY <1>7 DEF value

LEMMA ReadingsAreViews ==
  ASSUME NEW l, NEW r, IsReading(l, r), r.is = "view"
  PROVE  IsView(l, r)
<1>1. NOTHING.is # "view" /\ AMBIGUOUS.is # "view"
  BY DEF NOTHING, AMBIGUOUS
<1>2. QED
  BY <1>1 DEF IsReading

\* The invariant says what the property asks for.
LEMMA QuantileStands == ScrapeInv => QuantileInItsBucket
<1> SUFFICES ASSUME ScrapeInv PROVE QuantileInItsBucket
  OBVIOUS
<1> DEFINE delta == Delta(after, before)
<1>1. step = "measured" /\ wanted = "any" /\ Cardinality(exposed) > 1 => after = AMBIGUOUS
  BY DEF ScrapeInv, Refused
<1>2. IsLayout(layout) /\ seen \in Tallies
  BY LayoutIsOne DEF ScrapeInv, ScrapeTypes
<1>3. ASSUME step = "measured", before.is = "view", after.is = "view", ~restarted, ~torn
      PROVE  /\ delta # NOTHING /\ delta.counts = Counts(layout, seen)
             /\ \A q \in Quantiles :
                  IF All(seen) = 0 \/ layout = <<>> THEN Quantile(delta, q) = NOTHING
                  ELSE q[1] > 0 => InBucket(TrueQuantile(seen, q), Quantile(delta, q))
  <2>1. PICK t \in Tallies : ReadOf(t)
    BY <1>3 DEF ScrapeInv, ReadInv
  <2>2. /\ before = View(layout, Counts(layout, t))
        /\ after = View(layout, Counts(layout, Together(t, seen)))
    BY <1>3, <2>1 DEF ReadOf
  <2> DEFINE c == Counts(layout, seen)
  <2>3. delta = View(layout, c)
    BY <1>2, <2>2, CountsSubtract
  <2>4. Cumulative(c) /\ Len(c) = Len(layout) + 1 /\ c \in Seq(Nat)
    <3>1. Cumulative(c) /\ Len(c) = Len(layout) + 1
      BY <1>2, CountsAccumulate
    <3> HIDE DEF c
    <3>2. QED
      BY <3>1 DEF Cumulative
  <2>5. c[Len(layout) + 1] = All(seen)
    <3>1. Len(layout) \in Nat
      BY <1>2 DEF IsLayout
    <3>2. Len(layout) + 1 \in 1..(Len(layout) + 1) /\ ~(Len(layout) + 1 <= Len(layout))
      BY <3>1
    <3>3. QED
      BY <3>2 DEF Counts
  <2>6. All(seen) \in Nat
    <3>1. 0 \in Nat /\ 0 <= 0
      OBVIOUS
    <3>2. QED
      BY <1>2, <3>1, TallyGrows
  <2> HIDE DEF c, delta
  <2>7. Running(c) = c
    BY <2>4, RunningRises
  <2>8. delta.is = "view" /\ delta.counts = c /\ NOTHING.is # "view"
    BY <2>3 DEF View, NOTHING
  <2>9. ASSUME NEW q \in Quantiles
        PROVE  IF All(seen) = 0 \/ layout = <<>> THEN Quantile(delta, q) = NOTHING
               ELSE q[1] > 0 => InBucket(TrueQuantile(seen, q), Quantile(delta, q))
    <3>1. IsQuantile(q)
      BY QuantilesInRange
    <3>2. CASE All(seen) = 0 \/ layout = <<>>
      <4>1. Len(layout) = 0 \/ Running(c)[Len(c)] = 0
        BY <2>4, <2>5, <2>7, <3>2
      <4>2. Quantile(delta, q) = NOTHING
        BY <1>2, <2>3, <2>4, <3>1, <4>1, QuantileIsBracketed
      <4>3. QED
        BY <3>2, <4>2
    <3>3. CASE ~(All(seen) = 0 \/ layout = <<>>)
      <4>1. All(seen) > 0
        BY <2>6, <3>3
      <4>2. q[1] > 0 => InBucket(TrueQuantile(seen, q), Quantile(delta, q))
        BY <1>2, <2>3, <3>1, <3>3, <4>1, QuantileMatches DEF c
      <4>3. QED
        BY <3>3, <4>2
    <3>4. QED
      BY <3>2, <3>3
  <2>10. QED
    BY <2>8, <2>9 DEF c
<1>4. ASSUME step = "measured", before.is = "view", after.is = "view", delta # NOTHING,
             NEW q \in Quantiles, Quantile(delta, q) # NOTHING
      PROVE  Quantile(delta, q)[1] \in 0..(layout[Len(layout)] * Quantile(delta, q)[2])
  <2>1. IsView(layout, before) /\ IsView(layout, after)
    BY <1>4, ReadingsAreViews DEF ScrapeInv, ScrapeTypes
  <2>2. IsView(layout, delta)
    BY <1>2, <1>4, <2>1, DeltaIsAView
  <2>3. IsQuantile(q)
    BY QuantilesInRange
  <2> HIDE DEF delta
  <2>4. QED
    BY <1>2, <1>4, <2>2, <2>3, QuantileIsBounded
<1>5. QED
  BY <1>1, <1>3, <1>4 DEF QuantileInItsBucket

\* For every layout, every stream of observations, other models, a restart and a scrape
\* caught half-way: a step's quantile lies in the bucket of the true one whenever both
\* scrapes are intact, and never beyond the last bound (histogram_delta,
\* quantile_from_buckets).
THEOREM QuantilesAreTheSteps == ScrapesSpec => []QuantileInItsBucket
<1>1. ScrapeInv /\ [ScrapesNext]_scrapes => ScrapeInv'
  <2> SUFFICES ASSUME ScrapeInv, [ScrapesNext]_scrapes PROVE ScrapeInv'
    OBVIOUS
  <2>1. CASE Observe
    BY <2>1, ObserveKeeps
  <2>2. CASE Restart
    BY <2>2, RestartKeeps
  <2>3. CASE Scrape
    BY <2>3, ScrapeKeeps
  <2>4. CASE ScrapeTorn
    BY <2>4, ScrapeTornKeeps
  <2>5. CASE UNCHANGED scrapes
    BY <2>5 DEF scrapes, ScrapeInv, ScrapeTypes, ReadInv, ReadOf, Refused, Found
  <2>6. QED
    BY <2>1, <2>2, <2>3, <2>4, <2>5 DEF ScrapesNext
<1>2. QED
  BY <1>1, ScrapesStart, QuantileStands, PTL DEF ScrapesSpec

------------------------------------------------------------------------------
(* What is left of a command. *)

PlaceIn(K, k) == CHOOSE i \in K : Cardinality({j \in K : j <= i}) = k
UpToPlace(K, i) == {j \in K : j <= i}

\* A finite set of places is gone through from the first to the last.
LEMMA PlacesInOrder ==
  ASSUME NEW K \in SUBSET Nat, IsFiniteSet(K)
  PROVE  /\ Cardinality(K) \in Nat
         /\ \A k \in 1..Cardinality(K) : PlaceIn(K, k) \in K
         /\ \A i \in K : \E k \in 1..Cardinality(K) : PlaceIn(K, k) = i
         /\ \A k, l \in 1..Cardinality(K) : k < l => PlaceIn(K, k) < PlaceIn(K, l)
<1> DEFINE m == Cardinality(K)
           rank == [i \in K |-> Cardinality(UpToPlace(K, i))]
<1>1. m \in Nat
  BY FS_CardinalityType
<1>2. ASSUME NEW i \in K PROVE IsFiniteSet(UpToPlace(K, i)) /\ rank[i] \in 1..m
  <2>1. UpToPlace(K, i) \in SUBSET K /\ i \in UpToPlace(K, i)
    BY DEF UpToPlace
  <2>2. IsFiniteSet(UpToPlace(K, i)) /\ Cardinality(UpToPlace(K, i)) <= m
    BY <2>1, FS_Subset
  <2>3. Cardinality(UpToPlace(K, i)) \in Nat /\ Cardinality(UpToPlace(K, i)) # 0
    BY <2>1, <2>2, FS_CardinalityType, FS_EmptySet
  <2>4. QED
    BY <1>1, <2>2, <2>3
<1>3. ASSUME NEW i \in K, NEW j \in K, i < j PROVE rank[i] < rank[j]
  <2>1. UpToPlace(K, i) \in SUBSET UpToPlace(K, j)
    <3>1. ASSUME NEW x \in K, x <= i PROVE x <= j
      <4>1. x \in Nat /\ i \in Nat /\ j \in Nat
        OBVIOUS
      <4>2. QED
        BY <1>3, <3>1, <4>1
    <3>2. QED
      BY <3>1 DEF UpToPlace
  <2>2. j \in UpToPlace(K, j) /\ j \notin UpToPlace(K, i)
    BY <1>3 DEF UpToPlace
  <2>3. /\ Cardinality(UpToPlace(K, i)) <= Cardinality(UpToPlace(K, j))
        /\ Cardinality(UpToPlace(K, i)) # Cardinality(UpToPlace(K, j))
    <3>1. IsFiniteSet(UpToPlace(K, j))
      BY <1>2
    <3>2. UpToPlace(K, i) # UpToPlace(K, j)
      BY <2>2
    <3>3. QED
      BY <2>1, <3>1, <3>2, FS_Subset
  <2>4. rank[i] \in Int /\ rank[j] \in Int
    BY <1>1, <1>2
  <2>5. rank[i] = Cardinality(UpToPlace(K, i)) /\ rank[j] = Cardinality(UpToPlace(K, j))
    OBVIOUS
  <2> HIDE DEF rank
  <2>6. QED
    BY <2>3, <2>4, <2>5
<1> HIDE DEF rank
<1>4. rank \in [K -> 1..m]
  <2>1. rank = [i \in K |-> rank[i]]
    BY DEF rank
  <2>2. QED
    BY <1>2, <2>1
<1>5. \A i, j \in K : rank[i] = rank[j] => i = j
  <2>1. ASSUME NEW i \in K, NEW j \in K, rank[i] = rank[j], i # j PROVE FALSE
    <3>1. i < j \/ j < i
      BY <2>1
    <3>2. rank[i] < rank[j] \/ rank[j] < rank[i]
      BY <1>3, <3>1
    <3>3. rank[i] \in Int
      BY <1>1, <1>2
    <3>4. QED
      BY <2>1, <3>2, <3>3
  <2>2. QED
    BY <2>1
<1>6. rank \in Injection(K, 1..m)
  BY <1>4, <1>5 DEF Injection, IsInjective
<1>7. IsFiniteSet(1..m) /\ Cardinality(1..m) = m
  <2>1. 1 \in Int /\ m \in Int
    BY <1>1
  <2>2. IsFiniteSet(1..m) /\ Cardinality(1..m) = IF 1 > m THEN 0 ELSE m - 1 + 1
    BY <2>1, FS_Interval, Zenon
  <2>3. QED
    BY <1>1, <2>2
<1>8. rank \in Surjection(K, 1..m)
  BY <1>6, <1>7, FS_Injection
<1>9. \A k \in 1..m : \E i \in K : rank[i] = k
  BY <1>8 DEF Surjection
<1>10. ASSUME NEW k \in 1..m PROVE PlaceIn(K, k) \in K /\ rank[PlaceIn(K, k)] = k
  <2>1. PICK i \in K : rank[i] = k
    BY <1>9
  <2>2. Cardinality({j \in K : j <= i}) = k
    BY <2>1 DEF rank, UpToPlace
  <2>3. PlaceIn(K, k) \in K /\ Cardinality({j \in K : j <= PlaceIn(K, k)}) = k
    BY <2>2, Zenon DEF PlaceIn
  <2>4. QED
    BY <2>3 DEF rank, UpToPlace
<1>11. ASSUME NEW i \in K PROVE \E k \in 1..m : PlaceIn(K, k) = i
  <2>1. rank[i] \in 1..m /\ PlaceIn(K, rank[i]) \in K /\ rank[PlaceIn(K, rank[i])] = rank[i]
    BY <1>2, <1>10
  <2>2. PlaceIn(K, rank[i]) = i
    BY <1>5, <2>1
  <2>3. QED
    BY <2>1, <2>2
<1>12. ASSUME NEW k \in 1..m, NEW l \in 1..m, k < l PROVE PlaceIn(K, k) < PlaceIn(K, l)
  <2> DEFINE i == PlaceIn(K, k)
             j == PlaceIn(K, l)
  <2>1. i \in K /\ j \in K /\ rank[i] = k /\ rank[j] = l
    BY <1>10
  <2> HIDE DEF i, j
  <2>2. i # j /\ ~(j < i)
    <3>1. ASSUME j < i PROVE FALSE
      <4>1. rank[j] < rank[i]
        BY <1>3, <2>1, <3>1
      <4>2. QED
        BY <1>1, <1>12, <2>1, <4>1
    <3>2. QED
      BY <1>1, <1>12, <2>1, <3>1
  <2>3. i < j
    BY <2>1, <2>2
  <2>4. QED
    BY <2>3 DEF i, j
<1>13. QED
  BY <1>1, <1>10, <1>11, <1>12

Kept(cmd, unwanted) == DOMAIN cmd \ Stripped(cmd, unwanted)

\* A command and its places.
LEMMA CommandPlaces ==
  ASSUME NEW cmd \in Seq(Arguments), NEW u
  PROVE  /\ Len(cmd) \in Nat /\ DOMAIN cmd = 1..Len(cmd)
         /\ Kept(cmd, u) \in SUBSET (1..Len(cmd)) /\ Kept(cmd, u) \in SUBSET Nat
         /\ IsFiniteSet(Kept(cmd, u))
         /\ IsFiniteSet(1..Len(cmd)) /\ Cardinality(1..Len(cmd)) = Len(cmd)
         /\ StripFlags(cmd, u)
              = [k \in 1..Cardinality(Kept(cmd, u)) |-> cmd[PlaceIn(Kept(cmd, u), k)]]
<1>1. Len(cmd) \in Nat /\ DOMAIN cmd = 1..Len(cmd)
  OBVIOUS
<1>2. IsFiniteSet(1..Len(cmd)) /\ Cardinality(1..Len(cmd)) = Len(cmd)
  <2>1. 1 \in Int /\ Len(cmd) \in Int
    BY <1>1
  <2>2. /\ IsFiniteSet(1..Len(cmd))
        /\ Cardinality(1..Len(cmd)) = IF 1 > Len(cmd) THEN 0 ELSE Len(cmd) - 1 + 1
    BY <2>1, FS_Interval, Zenon
  <2>3. QED
    BY <1>1, <2>2
<1>3. Kept(cmd, u) \in SUBSET (1..Len(cmd))
  BY <1>1 DEF Kept
<1>4. IsFiniteSet(Kept(cmd, u))
  BY <1>2, <1>3, FS_Subset
<1>5. Kept(cmd, u) \in SUBSET Nat
  BY <1>1, <1>3
<1>6. StripFlags(cmd, u)
        = [k \in 1..Cardinality(Kept(cmd, u)) |-> cmd[PlaceIn(Kept(cmd, u), k)]]
  BY DEF StripFlags, Kept, PlaceIn
<1>7. QED
  BY <1>1, <1>2, <1>3, <1>4, <1>5, <1>6

\* What is kept: every token that is not unwanted and whose flag is not.
LEMMA WhatIsKept ==
  ASSUME NEW cmd \in Seq(Arguments), NEW u \in SUBSET Flags, NEW i \in 1..Len(cmd)
  PROVE  i \in Kept(cmd, u) <=>
           cmd[i] \notin u /\ (i > 1 /\ cmd[i - 1] \in u => cmd[i] \in Flags)
BY CommandPlaces DEF Kept, Stripped

\* Every token is a flag, comes before the first flag, or is the value of the flag
\* before it.
Paired(cmd) ==
  \A i \in 1..Len(cmd) :
    \/ cmd[i] \in Flags
    \/ \A j \in 1..Len(cmd) : j < i => cmd[j] \notin Flags
    \/ i > 1 /\ cmd[i - 1] \in Flags

ValueAt(cmd, i) == IF i < Len(cmd) /\ cmd[i + 1] \notin Flags THEN cmd[i + 1] ELSE NOVALUE

LEMMA ParsedIs ==
  ASSUME NEW cmd \in Seq(Arguments), NEW p
  PROVE  p \in Parsed(cmd) <=>
           \E i \in 1..Len(cmd) : cmd[i] \in Flags /\ p = <<cmd[i], ValueAt(cmd, i)>>
<1>1. DOMAIN cmd = 1..Len(cmd)
  OBVIOUS
<1>2. QED
  BY <1>1 DEF Parsed, ValueAt

\* Nothing unwanted, nothing stripped.
LEMMA NothingStripped ==
  ASSUME NEW cmd \in Seq(Arguments)
  PROVE  StripFlags(cmd, {}) = cmd
<1> DEFINE n == Len(cmd)
<1>1. n \in Nat /\ cmd = [k \in 1..n |-> cmd[k]]
  OBVIOUS
<1>2. Kept(cmd, {}) = 1..n
  BY CommandPlaces DEF Kept, Stripped
<1>3. ASSUME NEW k \in 1..n PROVE PlaceIn(1..n, k) = k
  <2>1. ASSUME NEW i \in 1..n PROVE Cardinality({j \in 1..n : j <= i}) = i
    <3>1. {j \in 1..n : j <= i} = 1..i
      BY <1>1
    <3>2. 1 \in Int /\ i \in Int /\ i >= 1
      BY <1>1
    <3>3. Cardinality(1..i) = IF 1 > i THEN 0 ELSE i - 1 + 1
      BY <3>2, FS_Interval, Zenon
    <3>4. Cardinality(1..i) = i
      BY <3>2, <3>3
    <3>5. QED
      BY <3>1, <3>4
  <2>2. Cardinality({j \in 1..n : j <= k}) = k
    BY <2>1
  <2>3. /\ PlaceIn(1..n, k) \in 1..n
        /\ Cardinality({j \in 1..n : j <= PlaceIn(1..n, k)}) = k
    BY <2>2, Zenon DEF PlaceIn
  <2>4. QED
    BY <2>1, <2>3
<1>4. StripFlags(cmd, {}) = [k \in 1..n |-> cmd[PlaceIn(1..n, k)]]
  BY <1>2, CommandPlaces
<1>5. QED
  BY <1>1, <1>3, <1>4

\* What is left of a command: the tokens that are kept, in their order.
LEMMA WhatIsLeft ==
  ASSUME NEW cmd \in Seq(Arguments), NEW u \in SUBSET Flags
  PROVE  LET K == Kept(cmd, u)
             m == Cardinality(K)
             left == StripFlags(cmd, u)
         IN  /\ left \in Seq(Arguments) /\ Len(left) = m /\ m \in Nat
             /\ \A k \in 1..m : PlaceIn(K, k) \in K /\ left[k] = cmd[PlaceIn(K, k)]
             /\ \A i \in K : \E k \in 1..m : PlaceIn(K, k) = i
             /\ \A k, l \in 1..m : k < l => PlaceIn(K, k) < PlaceIn(K, l)
<1> DEFINE K == Kept(cmd, u)
           m == Cardinality(K)
           left == StripFlags(cmd, u)
<1>1. /\ K \in SUBSET (1..Len(cmd)) /\ K \in SUBSET Nat /\ IsFiniteSet(K)
      /\ left = [k \in 1..m |-> cmd[PlaceIn(K, k)]]
  BY CommandPlaces
<1> HIDE DEF K, left
<1>2. /\ m \in Nat /\ \A k \in 1..m : PlaceIn(K, k) \in K
      /\ \A i \in K : \E k \in 1..m : PlaceIn(K, k) = i
      /\ \A k, l \in 1..m : k < l => PlaceIn(K, k) < PlaceIn(K, l)
  BY <1>1, PlacesInOrder
<1> HIDE DEF m
<1>3. \A i \in 1..Len(cmd) : cmd[i] \in Arguments
  OBVIOUS
<1>4. \A k \in 1..m : cmd[PlaceIn(K, k)] \in Arguments
  BY <1>1, <1>2, <1>3
<1>5. left \in [1..m -> Arguments]
  BY <1>1, <1>4
<1>6. left \in Seq(Arguments) /\ Len(left) = m
  <2>1. ASSUME NEW s \in [1..m -> Arguments] PROVE s \in Seq(Arguments) /\ Len(s) = m
    BY <1>2
  <2>2. QED
    BY <1>5, <2>1
<1>7. \A k \in 1..m : left[k] = cmd[PlaceIn(K, k)]
  BY <1>1
<1>8. QED
  BY <1>2, <1>6, <1>7 DEF K, m, left

\* The flags that are left are those that were not unwanted.
LEMMA FlagsLeft ==
  ASSUME NEW cmd \in Seq(Arguments), NEW u \in SUBSET Flags
  PROVE  FlagsIn(StripFlags(cmd, u)) = FlagsIn(cmd) \ u
<1> DEFINE K == Kept(cmd, u)
           m == Cardinality(K)
           left == StripFlags(cmd, u)
<1>1. /\ left \in Seq(Arguments) /\ Len(left) = m /\ m \in Nat
      /\ \A k \in 1..m : PlaceIn(K, k) \in K /\ left[k] = cmd[PlaceIn(K, k)]
      /\ \A i \in K : \E k \in 1..m : PlaceIn(K, k) = i
  BY WhatIsLeft
<1>2. K \in SUBSET (1..Len(cmd)) /\ DOMAIN cmd = 1..Len(cmd)
  BY CommandPlaces
<1>3. \A i \in 1..Len(cmd) : i \in K <=>
        cmd[i] \notin u /\ (i > 1 /\ cmd[i - 1] \in u => cmd[i] \in Flags)
  BY WhatIsKept
<1> HIDE DEF K, m, left
<1>4. DOMAIN left = 1..m
  BY <1>1
<1>5. ASSUME NEW f \in FlagsIn(left) PROVE f \in FlagsIn(cmd) \ u
  <2>1. PICK k \in 1..m : left[k] = f
    BY <1>4 DEF FlagsIn, ToSet
  <2>2. f \in Flags /\ PlaceIn(K, k) \in K /\ f = cmd[PlaceIn(K, k)]
    BY <1>1, <2>1 DEF FlagsIn
  <2>3. PlaceIn(K, k) \in 1..Len(cmd) /\ f \notin u
    BY <1>2, <1>3, <2>2
  <2>4. QED
    BY <1>2, <2>2, <2>3 DEF FlagsIn, ToSet
<1>6. ASSUME NEW f \in FlagsIn(cmd) \ u PROVE f \in FlagsIn(left)
  <2>1. PICK i \in 1..Len(cmd) : cmd[i] = f
    BY <1>2 DEF FlagsIn, ToSet
  <2>2. f \in Flags /\ f \notin u
    BY DEF FlagsIn
  <2>3. i \in K
    BY <1>3, <2>1, <2>2
  <2>4. PICK k \in 1..m : PlaceIn(K, k) = i
    BY <1>1, <2>3
  <2>5. left[k] = f
    BY <1>1, <2>1, <2>4
  <2>6. QED
    BY <1>4, <2>2, <2>5 DEF FlagsIn, ToSet
<1>7. QED
  BY <1>5, <1>6 DEF left

\* Every flag that is left has the value it had.
LEMMA ValuesStay ==
  ASSUME NEW cmd \in Seq(Arguments), Paired(cmd), NEW u \in SUBSET Flags,
         NEW k \in 1..Cardinality(Kept(cmd, u)),
         cmd[PlaceIn(Kept(cmd, u), k)] \in Flags
  PROVE  ValueAt(StripFlags(cmd, u), k) = ValueAt(cmd, PlaceIn(Kept(cmd, u), k))
<1> DEFINE K == Kept(cmd, u)
           m == Cardinality(K)
           left == StripFlags(cmd, u)
           i == PlaceIn(K, k)
           n == Len(cmd)
<1>1. /\ left \in Seq(Arguments) /\ Len(left) = m /\ m \in Nat
      /\ \A l \in 1..m : PlaceIn(K, l) \in K /\ left[l] = cmd[PlaceIn(K, l)]
      /\ \A j \in K : \E l \in 1..m : PlaceIn(K, l) = j
      /\ \A l, j \in 1..m : l < j => PlaceIn(K, l) < PlaceIn(K, j)
  BY WhatIsLeft
<1>2. K \in SUBSET (1..n) /\ n \in Nat
  BY CommandPlaces
<1>3. \A j \in 1..n : j \in K <=>
        cmd[j] \notin u /\ (j > 1 /\ cmd[j - 1] \in u => cmd[j] \in Flags)
  BY WhatIsKept
<1>4. k \in 1..m /\ cmd[i] \in Flags
  OBVIOUS
<1> HIDE DEF K, m, left, i
<1>5. i \in K /\ i \in 1..n /\ cmd[i] \notin u
  BY <1>1, <1>2, <1>3, <1>4 DEF i
<1>6. ASSUME i < n, cmd[i + 1] \notin Flags
      PROVE  k < m /\ left[k + 1] = cmd[i + 1]
  <2>1. i + 1 \in 1..n /\ (i + 1) - 1 = i
    BY <1>2, <1>5, <1>6
  <2>2. i + 1 \in K
    BY <1>3, <1>5, <1>6, <2>1
  <2>3. PICK l \in 1..m : PlaceIn(K, l) = i + 1
    BY <1>1, <2>2
  <2>4. k < l
    <3>1. k # l /\ ~(l < k)
      <4>1. i < i + 1 /\ i \in Int
        BY <1>5
      <4>2. ASSUME l < k PROVE FALSE
        <5>1. i + 1 < i
          BY <1>1, <1>4, <2>3, <4>2 DEF i
        <5>2. QED
          BY <4>1, <5>1
      <4>3. QED
        BY <2>3, <4>1, <4>2 DEF i
    <3>2. QED
      BY <1>4, <3>1
  <2>5. k + 1 \in 1..m /\ k < k + 1 /\ ~(l < k + 1)
    BY <1>1, <1>4, <2>4
  <2>6. l = k + 1
    <3>1. ASSUME k + 1 < l PROVE FALSE
      <4>1. i < PlaceIn(K, k + 1) /\ PlaceIn(K, k + 1) < i + 1
        BY <1>1, <1>4, <2>3, <2>5, <3>1 DEF i
      <4>2. PlaceIn(K, k + 1) \in Int /\ i \in Int
        <5>1. PlaceIn(K, k + 1) \in K
          BY <1>1, <2>5
        <5>2. PlaceIn(K, k + 1) \in 1..n
          BY <1>2, <5>1
        <5>3. QED
          BY <1>2, <1>5, <5>2
      <4>3. QED
        BY <4>1, <4>2
    <3>2. QED
      BY <1>1, <1>4, <2>5, <3>1
  <2>7. QED
    BY <1>1, <2>3, <2>5, <2>6
<1>7. ASSUME k < m, left[k + 1] \notin Flags
      PROVE  i < n /\ cmd[i + 1] \notin Flags /\ left[k + 1] = cmd[i + 1]
  <2> DEFINE j == PlaceIn(K, k + 1)
  <2>1. k + 1 \in 1..m /\ k < k + 1
    BY <1>1, <1>4, <1>7
  <2>2. j \in K /\ left[k + 1] = cmd[j] /\ i < j
    BY <1>1, <1>4, <2>1 DEF i
  <2> HIDE DEF j
  <2>3. j \in 1..n /\ cmd[j] \notin Flags /\ i \in 1..n
    BY <1>2, <1>5, <1>7, <2>2
  <2>4. j > 1 /\ cmd[j - 1] \in Flags
    BY <1>4, <2>2, <2>3 DEF Paired
  <2>5. j - 1 \in 1..n
    BY <1>2, <2>3, <2>4
  <2>6. j - 1 \in K
    <3>1. cmd[j - 1] \notin u
      BY <1>3, <2>2, <2>3, <2>4
    <3>2. QED
      BY <1>3, <2>4, <2>5, <3>1
  <2>7. PICK l \in 1..m : PlaceIn(K, l) = j - 1
    BY <1>1, <2>6
  <2>8. l = k
    <3>1. ASSUME l < k PROVE FALSE
      <4>1. j - 1 < i
        BY <1>1, <1>4, <2>7, <3>1 DEF i
      <4>2. QED
        BY <2>2, <2>3, <4>1
    <3>2. ASSUME k + 1 < l PROVE FALSE
      <4>1. j < j - 1
        BY <1>1, <2>1, <2>7, <3>2 DEF j
      <4>2. QED
        BY <2>3, <4>1
    <3>3. l # k + 1
      BY <2>3, <2>7 DEF j
    <3>4. l \in Int /\ k \in Int
      BY <1>1, <1>4
    <3>5. QED
      BY <3>1, <3>2, <3>3, <3>4
  <2>9. j = i + 1
    <3>1. i = j - 1
      BY <2>7, <2>8 DEF i
    <3>2. QED
      BY <2>3, <3>1
  <2>10. QED
    BY <1>2, <2>2, <2>3, <2>9
<1>8. ValueAt(left, k) = IF k < m /\ left[k + 1] \notin Flags THEN left[k + 1] ELSE NOVALUE
  BY <1>1 DEF ValueAt
<1>9. ValueAt(cmd, i) = IF i < n /\ cmd[i + 1] \notin Flags THEN cmd[i + 1] ELSE NOVALUE
  BY DEF ValueAt
<1>10. ValueAt(left, k) = ValueAt(cmd, i)
  <2>1. CASE i < n /\ cmd[i + 1] \notin Flags
    <3>1. k < m /\ left[k + 1] = cmd[i + 1]
      BY <1>6, <2>1
    <3>2. QED
      BY <1>8, <1>9, <2>1, <3>1
  <2>2. CASE ~(i < n /\ cmd[i + 1] \notin Flags)
    <3>1. ~(k < m /\ left[k + 1] \notin Flags)
      BY <1>7, <2>2
    <3>2. QED
      BY <1>8, <1>9, <2>2, <3>1
  <2>3. QED
    BY <2>1, <2>2
<1>11. QED
  BY <1>10 DEF left, i, K

\* What is left parses as before, without the unwanted flags.
LEMMA LeftParses ==
  ASSUME NEW cmd \in Seq(Arguments), Paired(cmd), NEW u \in SUBSET Flags
  PROVE  Parsed(StripFlags(cmd, u)) = {p \in Parsed(cmd) : p[1] \notin u}
<1> DEFINE K == Kept(cmd, u)
           m == Cardinality(K)
           left == StripFlags(cmd, u)
<1>1. /\ left \in Seq(Arguments) /\ Len(left) = m /\ m \in Nat
      /\ \A k \in 1..m : PlaceIn(K, k) \in K /\ left[k] = cmd[PlaceIn(K, k)]
      /\ \A i \in K : \E k \in 1..m : PlaceIn(K, k) = i
  BY WhatIsLeft
<1>2. K \in SUBSET (1..Len(cmd))
  BY CommandPlaces
<1>3. \A i \in 1..Len(cmd) : i \in K <=>
        cmd[i] \notin u /\ (i > 1 /\ cmd[i - 1] \in u => cmd[i] \in Flags)
  BY WhatIsKept
<1>4. \A k \in 1..m : cmd[PlaceIn(K, k)] \in Flags =>
                        ValueAt(left, k) = ValueAt(cmd, PlaceIn(K, k))
  BY ValuesStay
<1> HIDE DEF K, m, left
<1>5. ASSUME NEW p \in Parsed(left) PROVE p \in Parsed(cmd) /\ p[1] \notin u
  <2>1. PICK k \in 1..m : left[k] \in Flags /\ p = <<left[k], ValueAt(left, k)>>
    BY <1>1, ParsedIs
  <2> DEFINE i == PlaceIn(K, k)
  <2>2. i \in K /\ left[k] = cmd[i] /\ ValueAt(left, k) = ValueAt(cmd, i)
    BY <1>1, <1>4, <2>1
  <2> HIDE DEF i
  <2>3. i \in 1..Len(cmd) /\ cmd[i] \in Flags /\ p = <<cmd[i], ValueAt(cmd, i)>>
    BY <1>2, <2>1, <2>2
  <2>4. cmd[i] \notin u /\ p[1] = cmd[i]
    BY <1>3, <2>2, <2>3
  <2>5. p \in Parsed(cmd)
    BY <2>3, ParsedIs
  <2>6. QED
    BY <2>4, <2>5
<1>6. ASSUME NEW p \in Parsed(cmd), p[1] \notin u PROVE p \in Parsed(left)
  <2>1. PICK i \in 1..Len(cmd) : cmd[i] \in Flags /\ p = <<cmd[i], ValueAt(cmd, i)>>
    BY ParsedIs
  <2>2. cmd[i] \notin u
    BY <1>6, <2>1
  <2>3. i \in K
    BY <1>3, <2>1, <2>2
  <2>4. PICK k \in 1..m : PlaceIn(K, k) = i
    BY <1>1, <2>3
  <2>5. left[k] = cmd[i] /\ ValueAt(left, k) = ValueAt(cmd, i)
    BY <1>1, <1>4, <2>1, <2>4
  <2>6. QED
    BY <1>1, <2>1, <2>5, ParsedIs
<1>7. QED
  BY <1>5, <1>6 DEF left

------------------------------------------------------------------------------
(* What a command says. *)

IsCommand(cmd) == cmd \in Seq(Arguments) /\ Paired(cmd)
Begins(cmd) == cmd = <<>> \/ cmd[1] \in Flags

\* A command and more arguments.
LEMMA Joined ==
  ASSUME NEW a, IsCommand(a), NEW b, IsCommand(b), Begins(b)
  PROVE  IsCommand(a \o b) /\ Parsed(a \o b) = Parsed(a) \cup Parsed(b)
<1> DEFINE c == a \o b
           n == Len(a)
           m == Len(b)
<1>1. /\ a \in Seq(Arguments) /\ b \in Seq(Arguments) /\ c \in Seq(Arguments)
      /\ n \in Nat /\ m \in Nat /\ Len(c) = n + m
  BY DEF IsCommand
<1>2. /\ \A i \in 1..n : c[i] = a[i]
      /\ \A i \in 1..m : c[n + i] = b[i]
  BY <1>1
<1>3. m > 0 => b[1] \in Flags
  BY <1>1 DEF Begins
<1> HIDE DEF c, n, m
<1>4. \A i \in 1..(n + m) : i \in 1..n \/ (i - n \in 1..m /\ i = n + (i - n) /\ i > n)
  BY <1>1
<1>5. Paired(a) /\ Paired(b)
  BY DEF IsCommand
<1>6. ASSUME NEW i \in 1..(n + m)
      PROVE  \/ c[i] \in Flags
             \/ \A j \in 1..(n + m) : j < i => c[j] \notin Flags
             \/ i > 1 /\ c[i - 1] \in Flags
  <2>1. CASE i \in 1..n
    <3>1. \/ a[i] \in Flags
          \/ \A j \in 1..n : j < i => a[j] \notin Flags
          \/ i > 1 /\ a[i - 1] \in Flags
      BY <1>5, <2>1 DEF Paired, n
    <3>2. c[i] = a[i]
      BY <1>2, <2>1
    <3>3. ASSUME NEW j \in 1..(n + m), j < i PROVE j \in 1..n /\ c[j] = a[j]
      BY <1>1, <1>2, <2>1, <3>3
    <3>4. i > 1 => i - 1 \in 1..n /\ c[i - 1] = a[i - 1]
      BY <1>1, <1>2, <2>1
    <3>5. QED
      BY <3>1, <3>2, <3>3, <3>4
  <2>2. CASE i \notin 1..n
    <3> DEFINE k == i - n
    <3>1. k \in 1..m /\ i = n + k /\ i > n
      BY <1>4, <2>2
    <3>2. c[i] = b[k]
      BY <1>2, <3>1
    <3> HIDE DEF k
    <3>3. CASE k = 1
      BY <1>1, <1>3, <3>1, <3>2, <3>3
    <3>4. CASE k # 1
      <4>1. k > 1 /\ 1 \in 1..m /\ 1 < k /\ b[1] \in Flags
        BY <1>1, <1>3, <3>1, <3>4
      <4>2. b[k] \in Flags \/ b[k - 1] \in Flags
        BY <1>5, <3>1, <4>1 DEF Paired, m
      <4>3. k - 1 \in 1..m /\ i - 1 = n + (k - 1) /\ i > 1
        BY <1>1, <3>1, <4>1
      <4>4. c[i - 1] = b[k - 1]
        BY <1>2, <4>3
      <4>5. QED
        BY <3>2, <4>2, <4>3, <4>4
    <3>5. QED
      BY <3>3, <3>4
  <2>3. QED
    BY <2>1, <2>2
<1>7. IsCommand(c)
  BY <1>1, <1>6 DEF IsCommand, Paired
<1>8. ASSUME NEW i \in 1..n PROVE c[i] = a[i] /\ ValueAt(c, i) = ValueAt(a, i)
  <2>1. CASE i < n
    <3>1. i + 1 \in 1..n /\ i < n + m
      BY <1>1, <2>1
    <3>2. c[i] = a[i] /\ c[i + 1] = a[i + 1]
      BY <1>2, <3>1
    <3>3. ValueAt(c, i) = IF c[i + 1] \notin Flags THEN c[i + 1] ELSE NOVALUE
      BY <1>1, <3>1 DEF ValueAt
    <3>4. ValueAt(a, i) = IF a[i + 1] \notin Flags THEN a[i + 1] ELSE NOVALUE
      BY <2>1 DEF ValueAt, n
    <3>5. ValueAt(c, i) = ValueAt(a, i)
      BY <3>2, <3>3, <3>4
    <3>6. QED
      BY <3>2, <3>5
  <2>2. CASE ~(i < n)
    <3>1. i = n /\ c[i] = a[i]
      BY <1>1, <1>2, <2>2
    <3>2. ValueAt(a, i) = NOVALUE
      BY <2>2 DEF ValueAt, n
    <3>3. ValueAt(c, i) = NOVALUE
      <4>1. CASE m > 0
        <5>1. 1 \in 1..m /\ i + 1 = n + 1
          BY <1>1, <3>1, <4>1
        <5>2. c[i + 1] \in Flags
          BY <1>2, <1>3, <4>1, <5>1
        <5>3. QED
          BY <5>2 DEF ValueAt
      <4>2. CASE ~(m > 0)
        <5>1. ~(i < Len(c))
          BY <1>1, <3>1, <4>2
        <5>2. QED
          BY <5>1 DEF ValueAt
      <4>3. QED
        BY <4>1, <4>2
    <3>4. QED
      BY <3>1, <3>2, <3>3
  <2>3. QED
    BY <2>1, <2>2
<1>9. ASSUME NEW k \in 1..m PROVE c[n + k] = b[k] /\ ValueAt(c, n + k) = ValueAt(b, k)
  <2>1. CASE k < m
    <3>1. k + 1 \in 1..m /\ n + k < n + m /\ (n + k) + 1 = n + (k + 1)
      BY <1>1, <2>1
    <3>2. c[n + k] = b[k] /\ c[(n + k) + 1] = b[k + 1]
      BY <1>2, <3>1
    <3>3. ValueAt(c, n + k) = IF c[(n + k) + 1] \notin Flags THEN c[(n + k) + 1] ELSE NOVALUE
      BY <1>1, <3>1 DEF ValueAt
    <3>4. ValueAt(b, k) = IF b[k + 1] \notin Flags THEN b[k + 1] ELSE NOVALUE
      BY <2>1 DEF ValueAt, m
    <3>5. ValueAt(c, n + k) = ValueAt(b, k)
      BY <3>2, <3>3, <3>4
    <3>6. QED
      BY <3>2, <3>5
  <2>2. CASE ~(k < m)
    <3>1. ~(n + k < Len(c)) /\ c[n + k] = b[k]
      BY <1>1, <1>2, <2>2
    <3>2. ValueAt(c, n + k) = NOVALUE
      BY <3>1 DEF ValueAt
    <3>3. ValueAt(b, k) = NOVALUE
      BY <2>2 DEF ValueAt, m
    <3>4. QED
      BY <3>1, <3>2, <3>3
  <2>3. QED
    BY <2>1, <2>2
<1>10. ASSUME NEW p \in Parsed(c) PROVE p \in Parsed(a) \cup Parsed(b)
  <2>1. PICK i \in 1..(n + m) : c[i] \in Flags /\ p = <<c[i], ValueAt(c, i)>>
    BY <1>1, ParsedIs
  <2>2. CASE i \in 1..n
    <3>1. a[i] \in Flags /\ p = <<a[i], ValueAt(a, i)>>
      BY <1>8, <2>1, <2>2
    <3>2. p \in Parsed(a)
      BY <1>1, <2>2, <3>1, ParsedIs DEF n
    <3>3. QED
      BY <3>2
  <2>3. CASE i \notin 1..n
    <3>1. PICK k \in 1..m : i = n + k
      BY <1>4, <2>3
    <3>2. b[k] \in Flags /\ p = <<b[k], ValueAt(b, k)>>
      BY <1>9, <2>1, <3>1
    <3>3. p \in Parsed(b)
      BY <1>1, <3>2, ParsedIs DEF m
    <3>4. QED
      BY <3>3
  <2>4. QED
    BY <2>2, <2>3
<1>11. ASSUME NEW p \in Parsed(a) PROVE p \in Parsed(c)
  <2>1. PICK i \in 1..n : a[i] \in Flags /\ p = <<a[i], ValueAt(a, i)>>
    BY <1>1, ParsedIs DEF n
  <2>2. i \in 1..Len(c) /\ c[i] \in Flags /\ p = <<c[i], ValueAt(c, i)>>
    <3>1. i \in 1..Len(c)
      BY <1>1
    <3>2. QED
      BY <1>8, <2>1, <3>1
  <2>3. QED
    BY <1>1, <2>2, ParsedIs
<1>12. ASSUME NEW p \in Parsed(b) PROVE p \in Parsed(c)
  <2>1. PICK k \in 1..m : b[k] \in Flags /\ p = <<b[k], ValueAt(b, k)>>
    BY <1>1, ParsedIs DEF m
  <2>2. n + k \in 1..Len(c) /\ c[n + k] \in Flags /\ p = <<c[n + k], ValueAt(c, n + k)>>
    <3>1. n + k \in 1..Len(c)
      BY <1>1
    <3>2. QED
      BY <1>9, <2>1, <3>1
  <2>3. QED
    BY <1>1, <2>2, ParsedIs
<1>13. QED
  BY <1>7, <1>10, <1>11, <1>12 DEF c

\* One argument: a flag with its value, or alone.
LEMMA OneArgument ==
  ASSUME NEW f \in Flags
  PROVE  /\ IsCommand(<<f>>) /\ Begins(<<f>>) /\ Parsed(<<f>>) = {<<f, NOVALUE>>}
         /\ \A v \in Words :
              IsCommand(<<f, v>>) /\ Begins(<<f, v>>) /\ Parsed(<<f, v>>) = {<<f, v>>}
<1>0. f \in Arguments /\ \A v \in Words : v \in Arguments /\ v \notin Flags
  BY Configured DEF Arguments
<1> DEFINE g == <<f>>
<1>1. g \in Seq(Arguments) /\ Len(g) = 1 /\ g[1] = f /\ \A i \in 1..1 : i = 1
  BY <1>0
<1> HIDE DEF g
<1>2. IsCommand(g) /\ Begins(g)
  BY <1>1 DEF IsCommand, Paired, Begins
<1>3. Parsed(g) = {<<f, NOVALUE>>}
  <2>1. ValueAt(g, 1) = NOVALUE
    BY <1>1 DEF ValueAt
  <2>2. \A p : p \in Parsed(g) <=>
          \E i \in 1..1 : g[i] \in Flags /\ p = <<g[i], ValueAt(g, i)>>
    BY <1>1, ParsedIs
  <2>3. \A p : p \in Parsed(g) <=> p = <<f, NOVALUE>>
    BY <1>1, <2>1, <2>2
  <2>4. QED
    BY <2>3
<1>4. ASSUME NEW v \in Words
      PROVE  IsCommand(<<f, v>>) /\ Begins(<<f, v>>) /\ Parsed(<<f, v>>) = {<<f, v>>}
  <2> DEFINE t == <<f, v>>
  <2>0. v \in Arguments /\ v \notin Flags
    BY <1>0
  <2>1. /\ t \in Seq(Arguments) /\ Len(t) = 2 /\ t[1] = f /\ t[2] = v
        /\ \A i \in 1..2 : i = 1 \/ i = 2
    BY <1>0, <2>0
  <2> HIDE DEF t
  <2>2. IsCommand(t) /\ Begins(t)
    BY <2>1 DEF IsCommand, Paired, Begins
  <2>3. Parsed(t) = {<<f, v>>}
    <3>1. ValueAt(t, 1) = v
      BY <2>0, <2>1 DEF ValueAt
    <3>2. \A p : p \in Parsed(t) <=>
            \E i \in 1..2 : t[i] \in Flags /\ p = <<t[i], ValueAt(t, i)>>
      BY <2>1, ParsedIs
    <3>3. \A p : p \in Parsed(t) <=> p = <<f, v>>
      BY <2>0, <2>1, <3>1, <3>2
    <3>4. QED
      BY <3>3
  <2>4. QED
    BY <2>2, <2>3 DEF t
<1>5. QED
  BY <1>2, <1>3, <1>4 DEF g

\* No argument, and words before the first flag.
LEMMA NoArgument ==
  /\ IsCommand(<<>>) /\ Begins(<<>>) /\ Parsed(<<>>) = {}
  /\ \A cmd \in Seq(Arguments) : (\A i \in 1..Len(cmd) : cmd[i] \notin Flags) =>
       IsCommand(cmd) /\ Parsed(cmd) = {}
<1>1. ASSUME NEW cmd \in Seq(Arguments), \A i \in 1..Len(cmd) : cmd[i] \notin Flags
      PROVE  IsCommand(cmd) /\ Parsed(cmd) = {}
  <2>1. IsCommand(cmd)
    BY <1>1 DEF IsCommand, Paired
  <2>2. \A p : p \notin Parsed(cmd)
    BY <1>1, ParsedIs
  <2>3. QED
    BY <2>1, <2>2
<1>2. <<>> \in Seq(Arguments) /\ Len(<<>>) = 0
  OBVIOUS
<1>3. \A i \in 1..Len(<<>>) : <<>>[i] \notin Flags
  BY <1>2
<1>4. QED
  BY <1>1, <1>2, <1>3 DEF Begins

Has(condition, pair) == IF condition THEN {pair} ELSE {}

\* What the command of some settings says.
Says(cfg) ==
  UNION {
    {<<"--host", "localhost">>, <<"--port", "8000">>, <<"--device", cfg.device>>,
     <<"--max-model-len", "2048">>, <<"--max-num-seqs", cfg.max_num_seqs>>},
    Has(cfg.dtype # "auto", <<"--dtype", cfg.dtype>>),
    Has(cfg.device = "cuda", <<"--gpu-memory-utilization", "0.9">>),
    Has(cfg.device = "cuda" /\ cfg.tensor_parallel_size > 1,
        <<"--tensor-parallel-size", ToString(cfg.tensor_parallel_size)>>),
    Has(cfg.device = "cuda" /\ cfg.kv_cache_dtype # "auto",
        <<"--kv-cache-dtype", cfg.kv_cache_dtype>>),
    Has(cfg.quantization # "null", <<"--quantization", cfg.quantization>>),
    Has(cfg.enable_chunked_prefill = "true", <<"--enable-chunked-prefill", NOVALUE>>),
    Has(cfg.enable_chunked_prefill = "false", <<"--no-enable-chunked-prefill", NOVALUE>>),
    Has(cfg.enable_prefix_caching = "true", <<"--enable-prefix-caching", NOVALUE>>),
    Parsed(cfg.extra_args) }

\* Every field has its value; the extra arguments are flags with one value or none.
AllSet(cfg) == AreSettings(cfg) /\ Set \subseteq DOMAIN cfg
Lone(a) == \A i \in DOMAIN a : a[i] \in Flags \/ (i > 1 /\ a[i - 1] \in Flags)

LEMMA KnownFlags ==
  /\ {"--host", "--port", "--max-model-len", "--gpu-memory-utilization",
      "--no-enable-chunked-prefill"} \subseteq Flags
  /\ {"--device", "--dtype", "--max-num-seqs", "--tensor-parallel-size", "--kv-cache-dtype",
      "--quantization", "--enable-chunked-prefill", "--enable-prefix-caching"} \subseteq Flags
<1>1. \A f \in Set : FlagOf[f] \in Flags
  BY DEF Flags
<1>2. /\ {"device", "dtype", "max_num_seqs", "tensor_parallel_size", "kv_cache_dtype",
          "quantization", "enable_chunked_prefill", "enable_prefix_caching"} \subseteq Set
      /\ FlagOf["device"] = "--device" /\ FlagOf["dtype"] = "--dtype"
      /\ FlagOf["max_num_seqs"] = "--max-num-seqs"
      /\ FlagOf["tensor_parallel_size"] = "--tensor-parallel-size"
      /\ FlagOf["kv_cache_dtype"] = "--kv-cache-dtype"
      /\ FlagOf["quantization"] = "--quantization"
      /\ FlagOf["enable_chunked_prefill"] = "--enable-chunked-prefill"
      /\ FlagOf["enable_prefix_caching"] = "--enable-prefix-caching"
  BY DEF Set, FlagOf
<1>3. {"--host", "--port", "--max-model-len", "--gpu-memory-utilization",
       "--no-enable-chunked-prefill"} \subseteq Flags
  BY DEF Flags
<1>4. QED
  BY <1>1, <1>2, <1>3

\* The words of some settings.
LEMMA SettingsAreWords ==
  ASSUME NEW cfg, AllSet(cfg)
  PROVE  /\ {cfg.device, cfg.dtype, cfg.max_num_seqs, cfg.kv_cache_dtype, cfg.quantization,
             ToString(cfg.tensor_parallel_size)} \subseteq Words
         /\ cfg.tensor_parallel_size \in Int
         /\ cfg.extra_args \in Seq(Arguments)
<1>1. {"device", "dtype", "max_num_seqs", "kv_cache_dtype", "quantization"}
        \subseteq (DOMAIN cfg \cap Set) \ {"tensor_parallel_size", "extra_args"}
  BY DEF AllSet, Set, FlagOf
<1>2. "tensor_parallel_size" \in DOMAIN cfg /\ "extra_args" \in DOMAIN cfg
  BY DEF AllSet, Set, FlagOf
<1>3. QED
  BY <1>1, <1>2 DEF AllSet, AreSettings

\* Arguments that may be there.
LEMMA Perhaps ==
  ASSUME NEW a, IsCommand(a), NEW condition \in BOOLEAN, NEW t, IsCommand(t), Begins(t)
  PROVE  /\ IsCommand(a \o When(condition, t))
         /\ Parsed(a \o When(condition, t))
              = Parsed(a) \cup (IF condition THEN Parsed(t) ELSE {})
<1>1. CASE condition
  <2>1. When(condition, t) = t
    BY <1>1 DEF When
  <2>2. IsCommand(a \o t) /\ Parsed(a \o t) = Parsed(a) \cup Parsed(t)
    BY Joined
  <2>3. QED
    BY <1>1, <2>1, <2>2
<1>2. CASE ~condition
  <2>1. When(condition, t) = <<>>
    BY <1>2 DEF When
  <2>2. IsCommand(a \o <<>>) /\ Parsed(a \o <<>>) = Parsed(a) \cup Parsed(<<>>)
    BY Joined, NoArgument
  <2>3. QED
    BY <1>2, <2>1, <2>2, NoArgument
<1>3. QED
  BY <1>1, <1>2

\* The words before the first flag.
LEMMA ThreeWords ==
  ASSUME NEW u \in Words, NEW v \in Words, NEW w \in Words
  PROVE  IsCommand(<<u, v, w>>) /\ Parsed(<<u, v, w>>) = {}
<1> DEFINE words == <<u, v, w>>
<1>1. words \in Seq(Words) /\ Len(words) = 3
  OBVIOUS
<1> HIDE DEF words
<1>2. Words \cap Flags = {} /\ Words \subseteq Arguments
  BY Configured DEF Arguments
<1>3. words \in Seq(Arguments) /\ \A i \in 1..Len(words) : words[i] \notin Flags
  <2>1. \A i \in 1..Len(words) : words[i] \in Words
    <3>1. ASSUME NEW s \in Seq(Words), NEW i \in 1..Len(s) PROVE s[i] \in Words
      OBVIOUS
    <3>2. QED
      BY <1>1, <3>1
  <2>2. words \in Seq(Arguments)
    BY <1>1, <1>2
  <2>3. QED
    BY <1>2, <2>1, <2>2
<1>4. QED
  BY <1>3, NoArgument DEF words

\* The command of some settings says what they say.
LEMMA CommandSays ==
  ASSUME NEW cfg, AllSet(cfg), Lone(cfg.extra_args)
  PROVE  IsCommand(BuildCommand(cfg)) /\ Parsed(BuildCommand(cfg)) = Says(cfg)
<1> DEFINE onCuda == cfg.device = "cuda"
           w == <<"vllm", "serve", "model">>
           th == <<"--host", "localhost">>
           tp == <<"--port", "8000">>
           td == <<"--device", cfg.device>>
           wh == w \o th
           wp == wh \o tp
           c0 == wp \o td
           t1 == <<"--dtype", cfg.dtype>>
           tm == <<"--max-model-len", "2048">>
           ts == <<"--max-num-seqs", cfg.max_num_seqs>>
           t3 == <<"--gpu-memory-utilization", "0.9">>
           t4 == <<"--tensor-parallel-size", ToString(cfg.tensor_parallel_size)>>
           t5 == <<"--kv-cache-dtype", cfg.kv_cache_dtype>>
           t6 == <<"--quantization", cfg.quantization>>
           t7 == <<"--enable-chunked-prefill">>
           t8 == <<"--no-enable-chunked-prefill">>
           t9 == <<"--enable-prefix-caching">>
           parallel == onCuda /\ cfg.tensor_parallel_size > 1
           cached == onCuda /\ cfg.kv_cache_dtype # "auto"
           on == cfg.enable_chunked_prefill = "true"
           off == cfg.enable_chunked_prefill = "false"
           prefix == cfg.enable_prefix_caching = "true"
           c1 == c0 \o When(cfg.dtype # "auto", t1)
           cm == c1 \o tm
           c2 == cm \o ts
           c3 == c2 \o When(onCuda, t3)
           c4 == c3 \o When(parallel, t4)
           c5 == c4 \o When(cached, t5)
           c6 == c5 \o When(cfg.quantization # "null", t6)
           c7 == c6 \o When(on, t7)
           c8 == c7 \o When(off, t8)
           c9 == c8 \o When(prefix, t9)
           c10 == c9 \o cfg.extra_args
<1>1. BuildCommand(cfg) = c10
  BY DEF BuildCommand
<1>2. /\ {cfg.device, cfg.dtype, cfg.max_num_seqs, cfg.kv_cache_dtype, cfg.quantization,
          ToString(cfg.tensor_parallel_size), "2048", "0.9", "localhost", "8000"} \subseteq Words
      /\ cfg.tensor_parallel_size \in Int /\ cfg.extra_args \in Seq(Arguments)
  BY SettingsAreWords, Configured
<1>3. IsCommand(w) /\ Parsed(w) = {}
  <2>1. "vllm" \in Words /\ "serve" \in Words /\ "model" \in Words
    BY Configured
  <2>2. QED
    BY <2>1, ThreeWords
<1>4. /\ IsCommand(t1) /\ Begins(t1) /\ Parsed(t1) = {<<"--dtype", cfg.dtype>>}
      /\ IsCommand(t3) /\ Begins(t3) /\ Parsed(t3) = {<<"--gpu-memory-utilization", "0.9">>}
      /\ IsCommand(t4) /\ Begins(t4)
      /\ Parsed(t4) = {<<"--tensor-parallel-size", ToString(cfg.tensor_parallel_size)>>}
      /\ IsCommand(t5) /\ Begins(t5) /\ Parsed(t5) = {<<"--kv-cache-dtype", cfg.kv_cache_dtype>>}
      /\ IsCommand(t6) /\ Begins(t6) /\ Parsed(t6) = {<<"--quantization", cfg.quantization>>}
  BY <1>2, KnownFlags, OneArgument
<1>5. /\ IsCommand(t7) /\ Begins(t7) /\ Parsed(t7) = {<<"--enable-chunked-prefill", NOVALUE>>}
      /\ IsCommand(t8) /\ Begins(t8) /\ Parsed(t8) = {<<"--no-enable-chunked-prefill", NOVALUE>>}
      /\ IsCommand(t9) /\ Begins(t9) /\ Parsed(t9) = {<<"--enable-prefix-caching", NOVALUE>>}
  BY KnownFlags, OneArgument
<1>6. /\ IsCommand(th) /\ Begins(th) /\ Parsed(th) = {<<"--host", "localhost">>}
      /\ IsCommand(tp) /\ Begins(tp) /\ Parsed(tp) = {<<"--port", "8000">>}
      /\ IsCommand(td) /\ Begins(td) /\ Parsed(td) = {<<"--device", cfg.device>>}
      /\ IsCommand(tm) /\ Begins(tm) /\ Parsed(tm) = {<<"--max-model-len", "2048">>}
      /\ IsCommand(ts) /\ Begins(ts) /\ Parsed(ts) = {<<"--max-num-seqs", cfg.max_num_seqs>>}
  BY <1>2, KnownFlags, OneArgument
<1>7. IsCommand(cfg.extra_args) /\ Begins(cfg.extra_args)
  <2> DEFINE x == cfg.extra_args
  <2>1. x \in Seq(Arguments) /\ Lone(x) /\ DOMAIN x = 1..Len(x) /\ Len(x) \in Nat
    BY <1>2
  <2> HIDE DEF x
  <2>2. Len(x) > 0 => 1 \in 1..Len(x)
    BY <2>1
  <2>3. x # <<>> => x[1] \in Flags
    BY <2>1, <2>2 DEF Lone
  <2>4. QED
    BY <2>1, <2>3 DEF IsCommand, Paired, Begins, Lone, x
<1> HIDE DEF w, th, tp, td, tm, ts, t1, t3, t4, t5, t6, t7, t8, t9,
             onCuda, parallel, cached, on, off, prefix
<1>8. /\ (cfg.dtype # "auto") \in BOOLEAN /\ onCuda \in BOOLEAN /\ parallel \in BOOLEAN
      /\ cached \in BOOLEAN /\ (cfg.quantization # "null") \in BOOLEAN /\ on \in BOOLEAN
      /\ off \in BOOLEAN /\ prefix \in BOOLEAN
  BY DEF onCuda, parallel, cached, on, off, prefix
<1> DEFINE p(condition, t) == IF condition THEN Parsed(t) ELSE {}
<1>9. IsCommand(wh) /\ Parsed(wh) = Parsed(w) \cup Parsed(th)
  BY <1>3, <1>6, Joined
<1> HIDE DEF wh
<1>10. IsCommand(wp) /\ Parsed(wp) = Parsed(wh) \cup Parsed(tp)
  BY <1>6, <1>9, Joined
<1> HIDE DEF wp
<1>101. IsCommand(c0) /\ Parsed(c0) = Parsed(wp) \cup Parsed(td)
  BY <1>6, <1>10, Joined
<1> HIDE DEF c0
<1>11. IsCommand(c1) /\ Parsed(c1) = Parsed(c0) \cup p(cfg.dtype # "auto", t1)
  BY <1>4, <1>8, <1>101, Perhaps
<1> HIDE DEF c1
<1>111. IsCommand(cm) /\ Parsed(cm) = Parsed(c1) \cup Parsed(tm)
  BY <1>6, <1>11, Joined
<1> HIDE DEF cm
<1>12. IsCommand(c2) /\ Parsed(c2) = Parsed(cm) \cup Parsed(ts)
  BY <1>6, <1>111, Joined
<1> HIDE DEF c2
<1>13. IsCommand(c3) /\ Parsed(c3) = Parsed(c2) \cup p(onCuda, t3)
  BY <1>4, <1>8, <1>12, Perhaps
<1> HIDE DEF c3
<1>14. IsCommand(c4) /\ Parsed(c4) = Parsed(c3) \cup p(parallel, t4)
  BY <1>4, <1>8, <1>13, Perhaps
<1> HIDE DEF c4
<1>15. IsCommand(c5) /\ Parsed(c5) = Parsed(c4) \cup p(cached, t5)
  BY <1>4, <1>8, <1>14, Perhaps
<1> HIDE DEF c5
<1>16. IsCommand(c6) /\ Parsed(c6) = Parsed(c5) \cup p(cfg.quantization # "null", t6)
  BY <1>4, <1>8, <1>15, Perhaps
<1> HIDE DEF c6
<1>17. IsCommand(c7) /\ Parsed(c7) = Parsed(c6) \cup p(on, t7)
  BY <1>5, <1>8, <1>16, Perhaps
<1> HIDE DEF c7
<1>18. IsCommand(c8) /\ Parsed(c8) = Parsed(c7) \cup p(off, t8)
  BY <1>5, <1>8, <1>17, Perhaps
<1> HIDE DEF c8
<1>19. IsCommand(c9) /\ Parsed(c9) = Parsed(c8) \cup p(prefix, t9)
  BY <1>5, <1>8, <1>18, Perhaps
<1> HIDE DEF c9
<1>20. IsCommand(c10) /\ Parsed(c10) = Parsed(c9) \cup Parsed(cfg.extra_args)
  BY <1>7, <1>19, Joined
<1> HIDE DEF c10
<1>21. Parsed(c10) =
         UNION {Parsed(th), Parsed(tp), Parsed(td), Parsed(tm), Parsed(ts),
                p(cfg.dtype # "auto", t1), p(onCuda, t3), p(parallel, t4), p(cached, t5),
                p(cfg.quantization # "null", t6), p(on, t7), p(off, t8), p(prefix, t9),
                Parsed(cfg.extra_args)}
  <2> HIDE DEF p
  <2>1. QED
    BY <1>3, <1>9, <1>10, <1>101, <1>11, <1>111, <1>12, <1>13, <1>14, <1>15, <1>16,
       <1>17, <1>18, <1>19, <1>20
<1>22. Parsed(c10) = Says(cfg)
  <2>1. /\ p(cfg.dtype # "auto", t1) = Has(cfg.dtype # "auto", <<"--dtype", cfg.dtype>>)
        /\ p(onCuda, t3) = Has(onCuda, <<"--gpu-memory-utilization", "0.9">>)
        /\ p(parallel, t4)
             = Has(parallel, <<"--tensor-parallel-size", ToString(cfg.tensor_parallel_size)>>)
        /\ p(cached, t5) = Has(cached, <<"--kv-cache-dtype", cfg.kv_cache_dtype>>)
        /\ p(cfg.quantization # "null", t6)
             = Has(cfg.quantization # "null", <<"--quantization", cfg.quantization>>)
        /\ p(on, t7) = Has(on, <<"--enable-chunked-prefill", NOVALUE>>)
        /\ p(off, t8) = Has(off, <<"--no-enable-chunked-prefill", NOVALUE>>)
        /\ p(prefix, t9) = Has(prefix, <<"--enable-prefix-caching", NOVALUE>>)
    BY <1>4, <1>5 DEF Has
  <2>2. UNION {Parsed(th), Parsed(tp), Parsed(td), Parsed(tm), Parsed(ts)} =
          {<<"--host", "localhost">>, <<"--port", "8000">>, <<"--device", cfg.device>>,
           <<"--max-model-len", "2048">>, <<"--max-num-seqs", cfg.max_num_seqs>>}
    BY <1>6
  <2> HIDE DEF p
  <2>3. Says(cfg) =
          UNION {UNION {Parsed(th), Parsed(tp), Parsed(td), Parsed(tm), Parsed(ts)},
                 p(cfg.dtype # "auto", t1), p(onCuda, t3), p(parallel, t4), p(cached, t5),
                 p(cfg.quantization # "null", t6), p(on, t7), p(off, t8), p(prefix, t9),
                 Parsed(cfg.extra_args)}
    BY <2>1, <2>2 DEF Says, onCuda, parallel, cached, on, off, prefix
  <2>4. QED
    BY <1>21, <2>3
<1>23. QED
  BY <1>1, <1>20, <1>22 DEF c10

\* Settings over settings.
LEMMA OverIsSet ==
  ASSUME NEW u, AreSettings(u), NEW l, AllSet(l),
         "extra_args" \in DOMAIN u => Lone(u.extra_args), Lone(l.extra_args)
  PROVE  /\ AllSet(Over(u, l)) /\ Lone(Over(u, l).extra_args)
         /\ \A f \in Set : Over(u, l)[f] = IF f \in DOMAIN u THEN u[f] ELSE l[f]
<1> DEFINE cfg == Over(u, l)
<1>1. DOMAIN cfg = Set /\ \A f \in Set : cfg[f] = IF f \in DOMAIN u THEN u[f] ELSE l[f]
  BY DEF Over
<1>2. "tensor_parallel_size" \in Set /\ "extra_args" \in Set /\ Set \subseteq DOMAIN l
  BY DEF Set, FlagOf, AllSet
<1> HIDE DEF cfg
<1>3. ASSUME NEW f \in Set \ {"tensor_parallel_size", "extra_args"} PROVE cfg[f] \in Words
  <2>1. CASE f \in DOMAIN u
    BY <1>1, <2>1 DEF AreSettings
  <2>2. CASE f \notin DOMAIN u
    <3>1. l[f] \in Words
      BY <1>2 DEF AllSet, AreSettings
    <3>2. QED
      BY <1>1, <2>2, <3>1
  <2>3. QED
    BY <2>1, <2>2
<1>4. /\ cfg["tensor_parallel_size"] \in Int
      /\ ToString(cfg["tensor_parallel_size"]) \in Words
  <2>1. CASE "tensor_parallel_size" \in DOMAIN u
    BY <1>1, <1>2, <2>1 DEF AreSettings
  <2>2. CASE "tensor_parallel_size" \notin DOMAIN u
    BY <1>1, <1>2, <2>2 DEF AllSet, AreSettings
  <2>3. QED
    BY <2>1, <2>2
<1>5. cfg["extra_args"] \in Seq(Arguments) /\ Lone(cfg["extra_args"])
  <2>1. CASE "extra_args" \in DOMAIN u
    BY <1>1, <1>2, <2>1 DEF AreSettings
  <2>2. CASE "extra_args" \notin DOMAIN u
    BY <1>1, <1>2, <2>2 DEF AllSet, AreSettings
  <2>3. QED
    BY <2>1, <2>2
<1>6. AllSet(cfg) /\ Lone(cfg.extra_args)
  BY <1>1, <1>3, <1>4, <1>5 DEF AllSet, AreSettings
<1>7. QED
  BY <1>1, <1>6 DEF cfg

\* Nothing overridden.
LEMMA NothingOverridden ==
  AreSettings(NoSettings) /\ DOMAIN NoSettings = {}
BY DEF NoSettings, AreSettings

\* The settings of a launch, however they were put together.
LEMMA ChosenIsSet ==
  ASSUME LoneValues, NEW e \in Environments, NEW p \in DOMAIN Profiles
  PROVE  LET s == Over(e, Over(Profiles[p], Defaults)) IN AllSet(s) /\ Lone(s.extra_args)
<1>1. \A s \in Sources : AreSettings(s) /\ ("extra_args" \in DOMAIN s => Lone(s.extra_args))
  BY Configured DEF LoneValues, Lone
<1>2. e \in Sources /\ Profiles[p] \in Sources /\ Defaults \in Sources
  BY DEF Sources
<1>3. AllSet(Defaults) /\ Lone(Defaults.extra_args)
  <2>1. DOMAIN Defaults = Set /\ "extra_args" \in Set
    BY Configured DEF Set, FlagOf
  <2>2. QED
    BY <1>1, <1>2, <2>1 DEF AllSet
<1>4. /\ AllSet(Over(Profiles[p], Defaults))
      /\ Lone(Over(Profiles[p], Defaults).extra_args)
  BY <1>1, <1>2, <1>3, OverIsSet
<1>5. QED
  BY <1>1, <1>2, <1>4, OverIsSet

\* What a variant adds to a command are the flags it is about.
LEMMA VariantSays ==
  ASSUME VariantsNameTheirFlags, NEW s, AllSet(s), Lone(s.extra_args),
         NEW o \in Overrides, AreSettings(o), DOMAIN o \subseteq Set,
         "extra_args" \in DOMAIN o => Lone(o.extra_args),
         NEW pair \in Says(Over(o, s)), pair \notin Says(s)
  PROVE  pair[1] \in {FlagOf[f] : f \in DOMAIN o \cap Set}
<1> DEFINE cfg == Over(o, s)
           names == {FlagOf[f] : f \in DOMAIN o \cap Set}
<1>1. \A f \in Set : cfg[f] = IF f \in DOMAIN o THEN o[f] ELSE s[f]
  BY OverIsSet
<1>2. /\ {"device", "dtype", "max_num_seqs", "tensor_parallel_size", "kv_cache_dtype",
          "quantization", "enable_chunked_prefill", "enable_prefix_caching",
          "extra_args"} \subseteq Set
      /\ FlagOf["dtype"] = "--dtype" /\ FlagOf["max_num_seqs"] = "--max-num-seqs"
      /\ FlagOf["tensor_parallel_size"] = "--tensor-parallel-size"
      /\ FlagOf["kv_cache_dtype"] = "--kv-cache-dtype"
      /\ FlagOf["quantization"] = "--quantization"
      /\ FlagOf["enable_chunked_prefill"] = "--enable-chunked-prefill"
      /\ FlagOf["enable_prefix_caching"] = "--enable-prefix-caching"
  BY DEF Set, FlagOf
<1>3. cfg.device = s.device /\ cfg.extra_args = s.extra_args
  BY <1>1, <1>2 DEF VariantsNameTheirFlags
<1>4. ASSUME NEW f \in Set, FlagOf[f] \notin names PROVE cfg[f] = s[f]
  BY <1>1, <1>4
<1> HIDE DEF cfg, names
<1>5. SUFFICES ASSUME pair[1] \notin names PROVE FALSE
  BY DEF names
<1>6. CASE pair \in {<<"--host", "localhost">>, <<"--port", "8000">>, <<"--device", cfg.device>>,
                     <<"--max-model-len", "2048">>}
  BY <1>3, <1>6 DEF Says
<1>7. CASE pair = <<"--max-num-seqs", cfg.max_num_seqs>>
  <2>1. cfg.max_num_seqs = s.max_num_seqs
    BY <1>2, <1>4, <1>5, <1>7
  <2>2. QED
    BY <1>7, <2>1 DEF Says
<1>8. CASE pair \in Has(cfg.dtype # "auto", <<"--dtype", cfg.dtype>>)
  <2>1. pair = <<"--dtype", cfg.dtype>> /\ cfg.dtype # "auto"
    BY <1>8 DEF Has
  <2>2. cfg.dtype = s.dtype
    BY <1>2, <1>4, <1>5, <2>1
  <2>3. pair \in Has(s.dtype # "auto", <<"--dtype", s.dtype>>)
    BY <2>1, <2>2 DEF Has
  <2>4. QED
    BY <2>3 DEF Says
<1>9. CASE pair \in Has(cfg.device = "cuda", <<"--gpu-memory-utilization", "0.9">>)
  BY <1>3, <1>9 DEF Says
<1>10. CASE pair \in Has(cfg.device = "cuda" /\ cfg.tensor_parallel_size > 1,
                 <<"--tensor-parallel-size", ToString(cfg.tensor_parallel_size)>>)
  <2>1. pair = <<"--tensor-parallel-size", ToString(cfg.tensor_parallel_size)>>
    BY <1>10 DEF Has
  <2>2. cfg.tensor_parallel_size = s.tensor_parallel_size
    BY <1>2, <1>4, <1>5, <2>1
  <2>3. pair \in Has(s.device = "cuda" /\ s.tensor_parallel_size > 1,
                 <<"--tensor-parallel-size", ToString(s.tensor_parallel_size)>>)
    BY <1>3, <1>10, <2>2
  <2>4. QED
    BY <2>3 DEF Says
<1>11. CASE pair \in Has(cfg.device = "cuda" /\ cfg.kv_cache_dtype # "auto",
                 <<"--kv-cache-dtype", cfg.kv_cache_dtype>>)
  <2>1. pair = <<"--kv-cache-dtype", cfg.kv_cache_dtype>>
    BY <1>11 DEF Has
  <2>2. cfg.kv_cache_dtype = s.kv_cache_dtype
    BY <1>2, <1>4, <1>5, <2>1
  <2>3. pair \in Has(s.device = "cuda" /\ s.kv_cache_dtype # "auto",
                 <<"--kv-cache-dtype", s.kv_cache_dtype>>)
    BY <1>3, <1>11, <2>2
  <2>4. QED
    BY <2>3 DEF Says
<1>12. CASE pair \in Has(cfg.quantization # "null", <<"--quantization", cfg.quantization>>)
  <2>1. pair = <<"--quantization", cfg.quantization>>
    BY <1>12 DEF Has
  <2>2. cfg.quantization = s.quantization
    BY <1>2, <1>4, <1>5, <2>1
  <2>3. pair \in Has(s.quantization # "null", <<"--quantization", s.quantization>>)
    BY <1>12, <2>2
  <2>4. QED
    BY <2>3 DEF Says
<1>13. CASE pair \in Has(cfg.enable_chunked_prefill = "true",
                 <<"--enable-chunked-prefill", NOVALUE>>)
  <2>1. pair = <<"--enable-chunked-prefill", NOVALUE>>
    BY <1>13 DEF Has
  <2>2. cfg.enable_chunked_prefill = s.enable_chunked_prefill
    BY <1>2, <1>4, <1>5, <2>1
  <2>3. pair \in Has(s.enable_chunked_prefill = "true", <<"--enable-chunked-prefill", NOVALUE>>)
    BY <1>13, <2>2
  <2>4. QED
    BY <2>3 DEF Says
<1>14. CASE pair \in Has(cfg.enable_chunked_prefill = "false",
                 <<"--no-enable-chunked-prefill", NOVALUE>>)
  <2>1. cfg.enable_chunked_prefill = "false"
    BY <1>14 DEF Has
  <2>2. cfg.enable_chunked_prefill = s.enable_chunked_prefill
    BY <1>1, <1>2, <2>1 DEF VariantsNameTheirFlags
  <2>3. pair \in Has(s.enable_chunked_prefill = "false",
                 <<"--no-enable-chunked-prefill", NOVALUE>>)
    BY <1>14, <2>2
  <2>4. QED
    BY <2>3 DEF Says
<1>15. CASE pair \in Has(cfg.enable_prefix_caching = "true",
                 <<"--enable-prefix-caching", NOVALUE>>)
  <2>1. pair = <<"--enable-prefix-caching", NOVALUE>>
    BY <1>15 DEF Has
  <2>2. cfg.enable_prefix_caching = s.enable_prefix_caching
    BY <1>2, <1>4, <1>5, <2>1
  <2>3. pair \in Has(s.enable_prefix_caching = "true", <<"--enable-prefix-caching", NOVALUE>>)
    BY <1>15, <2>2
  <2>4. QED
    BY <2>3 DEF Says
<1>16. CASE pair \in Parsed(cfg.extra_args)
  BY <1>3, <1>16 DEF Says
<1>17. QED
  <2>1. pair \in Says(cfg)
    BY DEF cfg
  <2>2. QED
    BY <2>1, <1>6, <1>7, <1>8, <1>9, <1>10, <1>11, <1>12, <1>13, <1>14, <1>15, <1>16 DEF Says

------------------------------------------------------------------------------
(* The launch. *)

\* The profile was found and the settings are what it and the environment say.
Chosen ==
  /\ label \in DOMAIN Profiles
  /\ settings = Over(environ, Over(Profiles[label], Defaults))

\* A kernel built the command of its variant.
BuiltForVariant ==
  /\ via = "kernel" /\ DOMAIN overrides \subseteq Set
  /\ built = BuildCommand(Over(overrides, settings))

\* How the launched command came about.
LaunchedAs ==
  \/ /\ via \in SERVES /\ supported = {}
     /\ built = BuildCommand(settings) /\ argv = built
  \/ /\ BuiltForVariant /\ Wanted \cap UnsupportedFlags(built) = {}
     /\ argv = StripFlags(built, UnsupportedFlags(built))

PASSED == {"apply", "flags", "strip", "launched", "fits"}

LaunchInv ==
  /\ environ \in Environments /\ overrides \in Overrides \cup {NoSettings}
  /\ gpus \in Machines \cup {<<>>} /\ lowRam \in BOOLEAN
  /\ at \in {"probe", "load", "check", "refused"} \cup PASSED
  /\ at \in {"probe", "load", "check"} => issues = {}
  /\ at \in {"probe", "load", "check", "apply", "flags"} => supported = {}
  /\ at \in {"check"} \cup PASSED => Chosen
  /\ at \in PASSED => issues = CheckProfile(settings) /\ ~Stops(Worst(issues))
  /\ issues # {} => Chosen /\ issues = CheckProfile(settings)
  /\ at = "fits" => via \in DOCTORS
  /\ at \in {"flags", "strip"} => BuiltForVariant /\ argv = built
  /\ at = "launched" => LaunchedAs

LEMMA LaunchBegins == LaunchInit => LaunchInv
BY DEF LaunchInit, LaunchInv, PASSED

LEMMA ProbeKeeps == LaunchInv /\ ProbesMachine => LaunchInv'
BY DEF LaunchInv, ProbesMachine, PASSED

LEMMA LoadKeeps == LaunchInv /\ (LoadsSettings \/ UnknownProfile) => LaunchInv'
<1> SUFFICES ASSUME LaunchInv, LoadsSettings \/ UnknownProfile PROVE LaunchInv'
  OBVIOUS
<1>1. CASE LoadsSettings
  BY <1>1 DEF LaunchInv, LoadsSettings, PASSED, Chosen
<1>2. CASE UnknownProfile
  BY <1>2 DEF LaunchInv, UnknownProfile, PASSED
<1>3. QED
  BY <1>1, <1>2

LEMMA CheckKeeps == LaunchInv /\ ChecksProfile => LaunchInv'
<1> SUFFICES ASSUME LaunchInv, ChecksProfile PROVE LaunchInv'
  OBVIOUS
<1>1. /\ at = "check" /\ Chosen /\ supported = {} /\ issues' = CheckProfile(settings)
      /\ UNCHANGED <<via, gpus, lowRam, label, environ, settings, overrides,
                     supported, built, argv>>
      /\ at' = IF Stops(Worst(issues')) THEN "refused"
               ELSE IF via \in DOCTORS THEN "fits" ELSE "apply"
  BY DEF LaunchInv, ChecksProfile
<1>2. Chosen' /\ CheckProfile(settings)' = CheckProfile(settings)
  BY <1>1 DEF Chosen, CheckProfile, HasCuda, Bfloat16, Marlin, Fp8, Capability
<1>3. Stops(Worst(issues))' = Stops(Worst(issues'))
  BY <1>1 DEF Stops
<1>4. at' \in {"refused", "fits", "apply"}
  BY <1>1
<1>5. at' \in PASSED => ~Stops(Worst(issues))' /\ (at' = "fits" => via' \in DOCTORS)
  BY <1>1, <1>3 DEF PASSED
<1>6. QED
  BY <1>1, <1>2, <1>4, <1>5 DEF LaunchInv, PASSED

\* From the checks on nothing the checks looked at changes.
LEMMA ChecksStand ==
  ASSUME LaunchInv, at \in PASSED,
         UNCHANGED <<via, gpus, lowRam, label, environ, settings, issues>>
  PROVE  /\ Chosen' /\ (issues = CheckProfile(settings))' /\ (~Stops(Worst(issues)))'
         /\ (issues # {} => Chosen /\ issues = CheckProfile(settings))'
<1>1. Chosen' /\ CheckProfile(settings)' = CheckProfile(settings)
  BY DEF LaunchInv, Chosen, CheckProfile, HasCuda, Bfloat16, Marlin, Fp8, Capability
<1>2. Stops(Worst(issues))' = Stops(Worst(issues))
  BY DEF Stops
<1>3. QED
  BY <1>1, <1>2 DEF LaunchInv

LEMMA ApplyKeeps == LaunchInv /\ AppliesVariant => LaunchInv'
<1> SUFFICES ASSUME LaunchInv, AppliesVariant PROVE LaunchInv'
  OBVIOUS
<1>1. /\ at = "apply" /\ via = "kernel" /\ argv' = built'
      /\ UNCHANGED <<via, gpus, lowRam, label, environ, settings, overrides, issues, supported>>
  BY DEF AppliesVariant
<1>2. at \in PASSED
  BY <1>1 DEF PASSED
<1>3. /\ Chosen' /\ (issues = CheckProfile(settings))' /\ (~Stops(Worst(issues)))'
      /\ (issues # {} => Chosen /\ issues = CheckProfile(settings))'
  BY <1>1, <1>2, ChecksStand
<1>4. at' = "refused" \/ (at' = "flags" /\ BuiltForVariant')
  BY <1>1 DEF AppliesVariant, BuiltForVariant
<1>5. QED
  BY <1>1, <1>3, <1>4 DEF LaunchInv, PASSED

LEMMA FlagsKeep == LaunchInv /\ ProbesFlags => LaunchInv'
<1> SUFFICES ASSUME LaunchInv, ProbesFlags PROVE LaunchInv'
  OBVIOUS
<1>1. /\ at = "flags" /\ at' = "strip"
      /\ UNCHANGED <<via, gpus, lowRam, label, environ, settings, overrides, issues, built, argv>>
  BY DEF ProbesFlags
<1>2. at \in PASSED
  BY <1>1 DEF PASSED
<1>3. /\ Chosen' /\ (issues = CheckProfile(settings))' /\ (~Stops(Worst(issues)))'
      /\ (issues # {} => Chosen /\ issues = CheckProfile(settings))'
  BY <1>1, <1>2, ChecksStand
<1>4. BuiltForVariant' /\ argv' = built'
  BY <1>1 DEF LaunchInv, BuiltForVariant
<1>5. QED
  BY <1>1, <1>3, <1>4 DEF LaunchInv, PASSED

LEMMA PrepareKeeps == LaunchInv /\ Prepares => LaunchInv'
<1> SUFFICES ASSUME LaunchInv, Prepares PROVE LaunchInv'
  OBVIOUS
<1>1. /\ at = "strip" /\ BuiltForVariant /\ argv = built
      /\ UNCHANGED <<via, gpus, lowRam, label, environ, settings, overrides,
                     issues, supported, built>>
  BY DEF LaunchInv, Prepares
<1>2. at \in PASSED
  BY <1>1 DEF PASSED
<1>3. /\ Chosen' /\ (issues = CheckProfile(settings))' /\ (~Stops(Worst(issues)))'
      /\ (issues # {} => Chosen /\ issues = CheckProfile(settings))'
  BY <1>1, <1>2, ChecksStand
<1>4. BuiltForVariant' /\ Wanted' = Wanted /\ UnsupportedFlags(built)' = UnsupportedFlags(built)
  BY <1>1 DEF BuiltForVariant, Wanted, UnsupportedFlags
<1>5. \/ at' = "refused"
      \/ /\ at' = "launched" /\ Wanted \cap UnsupportedFlags(built) = {}
         /\ argv' = StripFlags(built, UnsupportedFlags(built))
  BY <1>1 DEF Prepares
<1>6. StripFlags(built, UnsupportedFlags(built))' = StripFlags(built, UnsupportedFlags(built))
  BY <1>1, <1>4 DEF StripFlags, Stripped
<1>7. at' = "refused" \/ (at' = "launched" /\ LaunchedAs')
  BY <1>4, <1>5, <1>6 DEF LaunchedAs
<1>8. QED
  BY <1>1, <1>3, <1>7 DEF LaunchInv, PASSED

LEMMA ServeKeeps == LaunchInv /\ LaunchesAsBuilt => LaunchInv'
<1> SUFFICES ASSUME LaunchInv, LaunchesAsBuilt PROVE LaunchInv'
  OBVIOUS
<1>1. /\ at = "apply" /\ via \in SERVES /\ at' = "launched" /\ supported = {}
      /\ built' = BuildCommand(settings) /\ argv' = built'
      /\ UNCHANGED <<via, gpus, lowRam, label, environ, settings, overrides, issues, supported>>
  BY DEF LaunchInv, LaunchesAsBuilt
<1>2. at \in PASSED
  BY <1>1 DEF PASSED
<1>3. /\ Chosen' /\ (issues = CheckProfile(settings))' /\ (~Stops(Worst(issues)))'
      /\ (issues # {} => Chosen /\ issues = CheckProfile(settings))'
  BY <1>1, <1>2, ChecksStand
<1>4. LaunchedAs'
  BY <1>1 DEF LaunchedAs
<1>5. QED
  BY <1>1, <1>3, <1>4 DEF LaunchInv, PASSED

\* A launched command is what was built, without the flags the engine lacks.
LEMMA LaunchedMeansBuilt ==
  ASSUME LoneValues, VariantsNameTheirFlags, LaunchInv, at = "launched"
  PROVE  /\ supported # {} => FlagsIn(argv) \subseteq supported
         /\ supported = {} => argv = built
         /\ Parsed(argv) = {p \in Parsed(built) : supported = {} \/ p[1] \in supported}
         /\ OwnFlagsSurvive
<1>1. Chosen /\ LaunchedAs /\ environ \in Environments
  BY DEF LaunchInv, PASSED
<1>2. AllSet(settings) /\ Lone(settings.extra_args)
  BY <1>1, ChosenIsSet DEF Chosen
<1>3. \A cmd, p : p \in Parsed(cmd) => p[1] \in FlagsIn(cmd)
  <2>1. SUFFICES ASSUME NEW cmd, NEW p \in Parsed(cmd) PROVE p[1] \in FlagsIn(cmd)
    OBVIOUS
  <2>2. PICK i \in DOMAIN cmd : cmd[i] \in Flags /\ p[1] = cmd[i]
    BY DEF Parsed
  <2>3. QED
    BY <2>2 DEF FlagsIn, ToSet
<1>4. CASE /\ via \in SERVES /\ supported = {}
           /\ built = BuildCommand(settings) /\ argv = built
  BY <1>4 DEF OwnFlagsSurvive
<1>5. CASE /\ BuiltForVariant /\ Wanted \cap UnsupportedFlags(built) = {}
           /\ argv = StripFlags(built, UnsupportedFlags(built))
  <2> DEFINE u == UnsupportedFlags(built)
             cfg == Over(overrides, settings)
  <2>1. /\ AreSettings(overrides) /\ DOMAIN overrides \subseteq Set
        /\ "extra_args" \in DOMAIN overrides => Lone(overrides.extra_args)
        /\ overrides \in Overrides \/ overrides = NoSettings
    <3>1. overrides \in Overrides \/ overrides = NoSettings
      BY DEF LaunchInv
    <3>2. CASE overrides = NoSettings
      BY <1>5, <3>1, <3>2, NothingOverridden DEF BuiltForVariant
    <3>3. CASE overrides \in Overrides
      BY <1>5, <3>1, <3>3, Configured DEF BuiltForVariant, LoneValues, Lone, Sources
    <3>4. QED
      BY <3>1, <3>2, <3>3
  <2>2. AllSet(cfg) /\ Lone(cfg.extra_args)
    BY <1>2, <2>1, OverIsSet
  <2>3. /\ IsCommand(built) /\ Parsed(built) = Says(cfg)
        /\ Parsed(BuildCommand(settings)) = Says(settings)
    BY <1>2, <1>5, <2>2, CommandSays DEF BuiltForVariant
  <2>4. u \in SUBSET Flags
    BY DEF UnsupportedFlags, FlagsIn
  <2> HIDE DEF cfg
  <2>5. supported = {} => argv = built
    <3>1. ASSUME supported = {} PROVE u = {}
      BY <3>1 DEF UnsupportedFlags
    <3>2. built \in Seq(Arguments)
      BY <2>3 DEF IsCommand
    <3> HIDE DEF u
    <3>3. QED
      BY <1>5, <3>1, <3>2, NothingStripped DEF u
  <2>6. FlagsIn(argv) = FlagsIn(built) \ u /\ Parsed(argv) = {p \in Parsed(built) : p[1] \notin u}
    <3>1. built \in Seq(Arguments) /\ Paired(built)
      BY <2>3 DEF IsCommand
    <3>2. argv = StripFlags(built, u)
      BY <1>5
    <3> HIDE DEF u
    <3>3. QED
      BY <2>4, <3>1, <3>2, FlagsLeft, LeftParses
  <2>7. supported # {} => FlagsIn(argv) \subseteq supported
    BY <2>6 DEF UnsupportedFlags
  <2>8. \A p \in Parsed(built) : p[1] \notin u <=> (supported = {} \/ p[1] \in supported)
    BY <1>3 DEF UnsupportedFlags
  <2>9. Parsed(argv) = {p \in Parsed(built) : supported = {} \/ p[1] \in supported}
    BY <2>6, <2>8
  <2>10. ASSUME NEW p \in Parsed(built), p \notin Parsed(BuildCommand(settings))
         PROVE  p \in Parsed(argv)
    <3>1. p \in Says(cfg) /\ p \notin Says(settings)
      BY <2>3, <2>10
    <3>2. CASE overrides \in Overrides
      <4>1. p[1] \in {FlagOf[f] : f \in DOMAIN overrides \cap Set}
        BY <1>2, <2>1, <3>1, <3>2, VariantSays DEF cfg
      <4>2. p[1] \notin u
        BY <1>5, <4>1 DEF Wanted
      <4>3. QED
        BY <2>6, <4>2
    <3>3. CASE overrides = NoSettings
      <4>1. \A f \in Set : cfg[f] = settings[f]
        BY <1>2, <2>1, <3>3, OverIsSet, NothingOverridden DEF cfg
      <4>2. {"device", "dtype", "max_num_seqs", "tensor_parallel_size", "kv_cache_dtype",
             "quantization", "enable_chunked_prefill", "enable_prefix_caching",
             "extra_args"} \subseteq Set
        BY DEF Set, FlagOf
      <4>3. Says(cfg) = Says(settings)
        BY <4>1, <4>2 DEF Says
      <4>4. QED
        BY <3>1, <4>3
    <3>4. QED
      BY <2>1, <3>2, <3>3
  <2>11. OwnFlagsSurvive
    BY <2>10 DEF OwnFlagsSurvive
  <2>12. QED
    BY <2>5, <2>7, <2>9, <2>11
<1>6. QED
  BY <1>1, <1>4, <1>5 DEF LaunchedAs

\* Only these are reported, and an error is the worst of them.
LEMMA WhatIsReported ==
  /\ CheckProfile(settings) \subseteq {"error", "warning", "info"}
  /\ \A s : "error" \in s <=> Worst(s) = "error"
  /\ \A s : "warning" \in s /\ "error" \notin s => Worst(s) = "warning"
<1>1. CheckProfile(settings) \subseteq {"error", "warning", "info"}
  BY DEF CheckProfile
<1>2. QED
  BY <1>1 DEF Worst

\* The recommended profile has no error.
LEMMA RecommendedFits ==
  ASSUME LoneValues, ProfilesAreModest, LaunchInv, label = Recommended, DOMAIN environ = {}
  PROVE  "error" \notin issues
<1>1. SUFFICES ASSUME issues # {}, "error" \in CheckProfile(settings) PROVE FALSE
  BY DEF LaunchInv
<1>2. Chosen /\ environ \in Environments /\ gpus \in Machines \cup {<<>>}
  BY <1>1 DEF LaunchInv
<1> DEFINE cfg == Over(Profiles[label], Defaults)
<1>3. \A f \in Set : settings[f] = cfg[f]
  BY <1>2 DEF Chosen, Over
<1>4. {"device", "dtype", "tensor_parallel_size", "quantization"} \subseteq Set
  BY DEF Set, FlagOf
<1>5. /\ cfg.dtype # "bfloat16" /\ cfg.quantization # "fp8"
      /\ IF label = "kaggle-2xt4" THEN cfg.tensor_parallel_size <= 2 /\ cfg.device # "cpu"
                                  ELSE cfg.tensor_parallel_size <= 1
      /\ label = "local-cpu" => cfg.device # "cuda"
  BY <1>2 DEF Chosen, ProfilesAreModest, Recommended
<1> HIDE DEF cfg
<1>6. settings.tensor_parallel_size \in Int
  BY <1>2, ChosenIsSet, SettingsAreWords DEF Chosen
<1>7. Len(gpus) \in Int
  BY <1>2, Configured
<1>8. \/ settings.device = "cuda" /\ ~HasCuda
      \/ settings.dtype = "bfloat16" /\ ~Bfloat16
      \/ /\ settings.tensor_parallel_size > 1
         /\ Len(gpus) < settings.tensor_parallel_size \/ settings.device = "cpu"
      \/ settings.quantization = "fp8" /\ ~Fp8
  BY <1>1 DEF CheckProfile
<1>9. /\ settings.dtype # "bfloat16" /\ settings.quantization # "fp8"
      /\ IF label = "kaggle-2xt4"
           THEN settings.tensor_parallel_size <= 2 /\ settings.device # "cpu"
           ELSE settings.tensor_parallel_size <= 1
      /\ label = "local-cpu" => settings.device # "cuda"
  BY <1>3, <1>4, <1>5
<1>10. ~HasCuda => label = "local-cpu"
  BY DEF Recommended
<1>11. label = "kaggle-2xt4" => Len(gpus) >= 2
  BY DEF Recommended
<1>12. QED
  BY <1>6, <1>7, <1>8, <1>9, <1>10, <1>11

\* The invariant says what the property asks for.
LEMMA LaunchStands ==
  ASSUME LoneValues, VariantsNameTheirFlags, ProfilesAreModest, LaunchInv
  PROVE  CommandIsAccepted
<1>1. at = "launched" /\ via # "force" => "error" \notin issues
  BY WhatIsReported DEF LaunchInv, PASSED, Stops
<1>2. at = "fits" => issues \subseteq (IF via = "strict" THEN {"info"} ELSE {"info", "warning"})
  <2>1. SUFFICES ASSUME at = "fits"
                 PROVE  issues \subseteq (IF via = "strict" THEN {"info"} ELSE {"info", "warning"})
    OBVIOUS
  <2>2. via \in DOCTORS /\ issues = CheckProfile(settings) /\ ~Stops(Worst(issues))
    BY <2>1 DEF LaunchInv, PASSED
  <2>3. via # "force" /\ "error" \notin issues
    BY <2>2, WhatIsReported DEF DOCTORS, Stops
  <2>4. via = "strict" => "warning" \notin issues
    BY <2>2, <2>3, WhatIsReported DEF Stops
  <2>5. QED
    BY <2>2, <2>3, <2>4, WhatIsReported
<1>3. label = Recommended /\ DOMAIN environ = {} => "error" \notin issues
  BY RecommendedFits
<1>4. QED
  BY <1>1, <1>2, <1>3, LaunchedMeansBuilt DEF CommandIsAccepted

\* For every machine, profile, environment and help text, and every variant whose flags
\* are named after its fields: the command that is launched has only flags the engine
\* takes, each with the value that was built, and nothing is launched, unless forced,
\* with a profile that doctor would stop (_build_vllm_command, strip_flags,
\* prepare_engine, check_profile).  LoneValues is what strip_flags relies on.
THEOREM LaunchedIsAccepted ==
  ASSUME LoneValues, VariantsNameTheirFlags, ProfilesAreModest
  PROVE  LaunchSpec => []CommandIsAccepted
<1>1. LaunchInv /\ [LaunchNext]_launch => LaunchInv'
  <2> SUFFICES ASSUME LaunchInv, [LaunchNext]_launch PROVE LaunchInv'
    OBVIOUS
  <2>1. CASE ProbesMachine
    BY <2>1, ProbeKeeps
  <2>2. CASE LoadsSettings \/ UnknownProfile
    BY <2>2, LoadKeeps
  <2>3. CASE ChecksProfile
    BY <2>3, CheckKeeps
  <2>4. CASE LaunchesAsBuilt
    BY <2>4, ServeKeeps
  <2>5. CASE AppliesVariant
    BY <2>5, ApplyKeeps
  <2>6. CASE ProbesFlags
    BY <2>6, FlagsKeep
  <2>7. CASE Prepares
    BY <2>7, PrepareKeeps
  <2>8. CASE UNCHANGED launch
    <3>1. UNCHANGED <<via, at, gpus, lowRam, label, environ, settings, overrides, issues, supported,
                      built, argv>>
      BY <2>8 DEF launch
    <3>2. Stops(Worst(issues))' = Stops(Worst(issues)) /\ Chosen' = Chosen
      BY <3>1 DEF Stops, Chosen
    <3>3. CheckProfile(settings)' = CheckProfile(settings)
      BY <3>1 DEF CheckProfile, HasCuda, Bfloat16, Marlin, Fp8, Capability
    <3>4. /\ BuiltForVariant' = BuiltForVariant /\ Wanted' = Wanted
          /\ UnsupportedFlags(built)' = UnsupportedFlags(built)
      BY <3>1 DEF BuiltForVariant, Wanted, UnsupportedFlags
    <3>5. StripFlags(built, UnsupportedFlags(built))'
            = StripFlags(built, UnsupportedFlags(built))
      BY <3>1, <3>4 DEF StripFlags, Stripped
    <3>6. LaunchedAs' = LaunchedAs
      BY <3>1, <3>4, <3>5 DEF LaunchedAs
    <3>7. QED
      BY <3>1, <3>2, <3>3, <3>4, <3>6 DEF LaunchInv
  <2>9. QED
    BY <2>1, <2>2, <2>3, <2>4, <2>5, <2>6, <2>7, <2>8 DEF LaunchNext
<1>2. LaunchInv => CommandIsAccepted
  BY LaunchStands
<1>3. QED
  BY <1>1, <1>2, LaunchBegins, PTL DEF LaunchSpec

=============================================================================
