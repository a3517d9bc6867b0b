------------------------------ MODULE Scrapes ------------------------------
(***************************************************************************)
(* Quantiles of one rate step, from two scrapes of the engine              *)
(* (observability/histograms.py, observability/engine.py): the engine      *)
(* counts every latency since its boot into buckets, one series per model; *)
(* a scrape before and one after the load are subtracted, and a quantile   *)
(* is interpolated from the difference.                                    *)
(***************************************************************************)
EXTENDS Orders, Sequences, FiniteSetsExt

CONSTANTS Layouts,    \* bucket layouts: sequences of finite bounds, ascending
          Values,     \* latencies
          Models,     \* label values: one series each
          Quantiles,  \* pairs <<num, den>>
          MaxSeen     \* bound: observations since boot, of all models

\* A layout's bounds ascend; a quantile is a fraction between 0 and 1.
IsLayout(l) == l \in Seq(Nat) /\ \A i, j \in DOMAIN l : i < j => l[i] < l[j]
IsQuantile(q) == q \in Nat \X Nat /\ q[1] <= q[2] /\ q[2] > 0

ASSUME Latencies == Values \subseteq Nat /\ IsFiniteSet(Values) /\ MaxSeen \in Nat
ASSUME ModelsAreFew == IsFiniteSet(Models)
ASSUME LayoutsAscend == \A l \in Layouts : IsLayout(l)
ASSUME QuantilesInRange == \A q \in Quantiles : IsQuantile(q)

NOTHING == [is |-> "nothing"]       \* no series of that name, or None
AMBIGUOUS == [is |-> "ambiguous"]   \* AmbiguousSignalError

VARIABLES layout,     \* the engine's finite bounds
          exposed,    \* the models its exposition has series for
          wanted,     \* the model a label filter asks for, or "any"
          tally,      \* what each model's series has counted since boot
          before, after,   \* the two scrapes
          step,       \* "idle", "loaded", "measured"
          seen,       \* ghost: what the wanted model did between them
          torn,       \* ghost: a scrape caught an observation half-way
          restarted   \* ghost

scrapes == <<layout, exposed, wanted, tally, before, after, step, seen, torn, restarted>>

LeastOf(S) == CHOOSE x \in S : \A y \in S : x <= y

\* How many of a tally's observations are at most x.
UpTo(t, x) == MapThenSumSet(LAMBDA v : t[v], {v \in Values : v <= x})

All(t) == MapThenSumSet(LAMBDA v : t[v], Values)

\* The cumulative counts of a series; the last one is the +Inf bucket.
Counts(l, t) == [i \in 1..(Len(l) + 1) |-> IF i <= Len(l) THEN UpTo(t, l[i]) ELSE All(t)]

View(l, counts) == [is |-> "view", bounds |-> l, counts |-> counts]

Zero == [v \in Values |-> 0]

------------------------------------------------------------------------------
(* The arithmetic. *)

\* Counts that must not decrease and may appear to: the greatest so far.
Running(counts) == [i \in DOMAIN counts |-> Greatest({0} \cup {counts[j] : j \in 1..i})]

\* quantile_from_buckets, as a fraction.  The +Inf bucket is always there: the
\* engine writes it, and so does a view built from its samples.
Quantile(view, q) ==
  LET count == Running(view.counts)
      n == Len(count)
      rank == q[1] * count[n]               \* times q[2], as below
      index == LeastOf({i \in 1..n : count[i] * q[2] >= rank})
      start == IF index = 1 THEN 0 ELSE view.bounds[index - 1]
      below == IF index = 1 THEN 0 ELSE count[index - 1]
      population == count[index] - below
      end == view.bounds[index]
  IN  IF n < 2 \/ count[n] = 0 THEN NOTHING
      ELSE IF index = n THEN <<view.bounds[n - 1], 1>>
      ELSE IF population = 0 \/ (index = 1 /\ end = 0) THEN <<end, 1>>
      ELSE <<start * population * q[2] + (end - start) * (rank - below * q[2]),
             population * q[2]>>

\* Mutant of Delta: the later scrape, as if it began with the step.
Delta_SinceBoot(later, earlier) == later

\* histogram_delta: None when a counter went down.
Delta(later, earlier) ==
  LET diff == [i \in DOMAIN later.counts |-> later.counts[i] - earlier.counts[i]] IN
    IF \E i \in DOMAIN diff : diff[i] < 0 THEN NOTHING ELSE View(later.bounds, diff)

\* build_histograms, _filter and _one_histogram: a view per label set, and only one.
OneHistogram(viewOf, filter) ==
  LET found == IF filter = "any" THEN exposed ELSE exposed \cap {filter} IN
    IF found = {} THEN NOTHING
    ELSE IF Cardinality(found) > 1 THEN AMBIGUOUS
    ELSE viewOf[CHOOSE m \in found : TRUE]

------------------------------------------------------------------------------
(* The engine, and the two scrapes. *)

ScrapesInit ==
  /\ layout \in Layouts /\ exposed \in SUBSET Models
  /\ wanted \in Models \cup {"any"}
  /\ tally = [m \in Models |-> Zero]
  /\ before = NOTHING /\ after = NOTHING /\ step = "idle"
  /\ seen = Zero /\ torn = FALSE /\ restarted = FALSE

Observes(m, v) ==
  /\ m \in exposed /\ step # "measured"
  /\ MapThenSumSet(LAMBDA n : All(tally[n]), Models) < MaxSeen
  /\ tally' = [tally EXCEPT ![m][v] = @ + 1]
  /\ seen' = IF step = "loaded" /\ wanted \in {m, "any"} THEN [seen EXCEPT ![v] = @ + 1] ELSE seen

Observe ==
  /\ \E m \in Models, v \in Values : Observes(m, v)
  /\ UNCHANGED <<layout, exposed, wanted, before, after, step, torn, restarted>>

\* It may come back with other models.
Restart ==
  /\ step = "loaded" /\ ~restarted
  /\ restarted' = TRUE
  /\ tally' = [m \in Models |-> Zero]
  /\ exposed' \in SUBSET Models
  /\ UNCHANGED <<layout, wanted, before, after, step, seen, torn>>

\* scrape_engine: one reading of every series, which the step keeps.
Keeps(viewOf) ==
  LET reading == OneHistogram(viewOf, wanted) IN
    \/ step = "idle" /\ step' = "loaded" /\ before' = reading /\ UNCHANGED after
    \/ step = "loaded" /\ step' = "measured" /\ after' = reading /\ UNCHANGED before

Scrape ==
  /\ Keeps([m \in Models |-> View(layout, Counts(layout, tally[m]))])
  /\ UNCHANGED <<layout, exposed, wanted, tally, seen, torn, restarted>>

\* An observation between the reading of two buckets: those up to k have it.
ScrapeTorn ==
  /\ \E m \in Models, v \in Values, k \in 1..Len(layout) :
       /\ Observes(m, v)
       /\ LET old == Counts(layout, tally[m])
              new == Counts(layout, tally'[m])
              mixed == [i \in DOMAIN old |-> IF i <= k THEN new[i] ELSE old[i]]
          IN  Keeps([n \in Models |->
                       View(layout, IF n = m THEN mixed ELSE Counts(layout, tally[n]))])
  /\ torn' = TRUE
  /\ UNCHANGED <<layout, exposed, wanted, restarted>>

ScrapesNext == Observe \/ Restart \/ Scrape \/ ScrapeTorn

ScrapesSpec == ScrapesInit /\ [][ScrapesNext]_scrapes

------------------------------------------------------------------------------

\* The nearest-rank observation of a tally, which the quantile estimates.
TrueQuantile(t, q) ==
  LeastOf({x \in Values : UpTo(t, x) >= 1 /\ UpTo(t, x) * q[2] >= q[1] * All(t)})

\* The value is in the bucket of x; past the last bound it is that bound.
InBucket(x, value) ==
  LET above == {i \in DOMAIN layout : layout[i] >= x}
      i == LeastOf(above)
  IN  IF above = {} THEN value[1] = layout[Len(layout)] * value[2]
      ELSE /\ value[1] <= layout[i] * value[2]
           /\ i > 1 => value[1] >= layout[i - 1] * value[2]

\* A step's quantile describes the step: with both scrapes intact and no restart it
\* lies in the bucket of the true one, whatever the engine counted before and for
\* other models; past the last bound it is that bound.  (The 0-quantile, which the
\* code never asks for, is the first bound.)  With counters that were torn it is
\* still between zero and the last bound.  Several series never become one: an
\* unfiltered reading of them is refused.
QuantileInItsBucket ==
  LET delta == Delta(after, before) IN
  /\ step = "measured" /\ wanted = "any" /\ Cardinality(exposed) > 1 => after = AMBIGUOUS
  /\ step = "measured" /\ before.is = "view" /\ after.is = "view" =>
       /\ ~restarted /\ ~torn =>
            /\ delta # NOTHING /\ delta.counts = Counts(layout, seen)
            /\ \A q \in Quantiles :
                 IF All(seen) = 0 \/ layout = <<>> THEN Quantile(delta, q) = NOTHING
                 ELSE q[1] > 0 => InBucket(TrueQuantile(seen, q), Quantile(delta, q))
       /\ delta # NOTHING => \A q \in Quantiles :
            LET value == Quantile(delta, q) IN
              value # NOTHING => value[1] \in 0..(layout[Len(layout)] * value[2])

=============================================================================
