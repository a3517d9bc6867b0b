------------------------------- MODULE Tuning -------------------------------
(***************************************************************************)
(* The comparison of a tuning session's variants (bench/tuning.py, over    *)
(* the sweep reports of bench/report.py): a plan of variants with distinct *)
(* names and directories, one result after the other, and after each of    *)
(* them the frontier, the best variant and the verdict over all so far.    *)
(* Rates are numbered; fractions are compared by multiplication.           *)
(***************************************************************************)
EXTENDS Orders, Sequences

CONSTANTS Items,       \* variants a spec may list: [name, slug, fields]
          Fields,      \* EngineConfig's fields
          Outcomes,    \* results a variant may have: [error, ran, report]
          MaxVariants  \* bound: variants in a plan

Percent == 95    \* KEEPING_UP, in percent
NoRate == 0

ASSUME SpecItems ==
  /\ MaxVariants \in Nat
  /\ \A i \in Items : DOMAIN i = {"name", "slug", "fields"}

\* A step: what was offered and sent, what came back and met the service level.  What is
\* sent has a span, and so a rate above zero; a step whose schedule is empty has none.
Steps == [rate : Nat, sent : Nat, completed : Nat, met : Nat, late : BOOLEAN, goodput : Nat]

ASSUME MeasuredSteps ==
  \A r \in Outcomes :
    /\ {r.error, r.ran} \subseteq BOOLEAN /\ r.report \in Seq(Steps)
    /\ \A i \in DOMAIN r.report : r.report[i].sent > 0 => r.report[i].rate > 0

VARIABLES plan,      \* the variants parsed so far, in the order of the spec
          parsing,   \* TRUE until the spec is read or refused
          refused,   \* parse_variants raised
          results    \* TuningReport.results

tuning == <<plan, parsing, refused, results>>

TuningTypeOK ==
  /\ plan \in Seq(Items) /\ Len(plan) <= MaxVariants
  /\ {parsing, refused} \subseteq BOOLEAN
  /\ results \in Seq(Outcomes) /\ Len(results) <= Len(plan)

------------------------------------------------------------------------------
(* One variant's sweep. *)

KeepingUp(s) == s.sent = 0 \/ s.completed * 100 >= Percent * s.sent

\* healthy; attainment is 0 when nothing was sent.
Healthy(s) == KeepingUp(s) /\ s.sent > 0 /\ s.met * 100 >= Percent * s.sent

\* SweepReport.ordered
Rates(report) == [i \in DOMAIN report |-> report[i].rate]

Ordered(report) == SortedBy(report, Rates(report))

\* Mutant of MaxSustainable: the highest healthy rate, wherever it falls.
MaxSustainable_AnyHealthy(report) ==
  LET healthy == {report[i].rate : i \in {j \in DOMAIN report : Healthy(report[j])}} IN
    IF healthy = {} THEN NoRate ELSE Greatest(healthy)

\* max_sustainable_rate_per_s: the last step before the first unhealthy one; no
\* rate is 0, as in sustainable_rate.
MaxSustainable(report) ==
  LET steps == Ordered(report)
      broken == {i \in DOMAIN steps : ~Healthy(steps[i])}
      last == IF broken = {} THEN Len(steps)
              ELSE (CHOOSE i \in broken : \A j \in broken : i <= j) - 1
  IN  IF last = 0 THEN NoRate ELSE steps[last].rate

GeneratorKeptUp(report) == \A i \in DOMAIN report : ~report[i].late

OkResult(r) == r.ran /\ ~r.error
Valid(r) == OkResult(r) /\ GeneratorKeptUp(r.report)

SustainableRate(r) == IF r.ran THEN MaxSustainable(r.report) ELSE NoRate

\* step_at_sustainable: the first step at that rate, in the order of the rates, when
\* there is such a rate; the table quotes its latency.
StepAtSustainable(r) ==
  LET steps == Ordered(r.report)
      there == {i \in DOMAIN steps : steps[i].rate = SustainableRate(r)}
  IN  {steps[i] : i \in {j \in there : SustainableRate(r) # NoRate /\ \A k \in there : j <= k}}

\* peak_goodput, 0 without a step.
PeakGoodput(r) ==
  IF r.ran THEN Greatest({r.report[i].goodput : i \in DOMAIN r.report} \cup {0}) ELSE 0

------------------------------------------------------------------------------
(* The comparison: results are named by their place in the list.           *)

Candidates == {i \in DOMAIN results : Valid(results[i])}

Points == [i \in DOMAIN results |-> <<SustainableRate(results[i]), PeakGoodput(results[i])>>]

\* _dominates, on the two axes.
Dominates(p, q) == p[1] >= q[1] /\ p[2] >= q[2] /\ (p[1] > q[1] \/ p[2] > q[2])

Above(p, q) == p[1] > q[1] \/ (p[1] = q[1] /\ p[2] > q[2])

Frontier(valid, points) == {i \in valid : \A j \in valid : ~Dominates(points[j], points[i])}

\* best_sustainable: only a strictly better one replaces an earlier one; 0 for none.
Replaces(valid, points, i, best) ==
  /\ i \in valid /\ points[i][1] # NoRate
  /\ best = 0 \/ Above(points[i], points[best])

Best(valid, points) ==
  LET best[i \in 0..Len(results)] ==
        IF i = 0 THEN 0 ELSE IF Replaces(valid, points, i, best[i - 1]) THEN i ELSE best[i - 1]
  IN  best[Len(results)]

\* The row of a variant in the table: on the frontier if its *name* is there.
MarkedOnFrontier(frontier, i) == \E j \in frontier : plan[j].name = plan[i].name

\* verdict: who is named with the best, and who as invalid or failed.
Verdict(valid, points, best) ==
  [tied    |-> {i \in valid : best # 0 /\ points[i] = points[best]},
   invalid |-> {i \in DOMAIN results : OkResult(results[i]) /\ ~Valid(results[i])},
   failed  |-> {i \in DOMAIN results : ~OkResult(results[i])}]

------------------------------------------------------------------------------

TuningInit == plan = <<>> /\ parsing = TRUE /\ refused = FALSE /\ results = <<>>

\* A name given twice, or a directory shared when case is ignored.
Clashes(item) ==
  \E i \in DOMAIN plan : plan[i].name = item.name \/ plan[i].slug = item.slug

\* _check_fields
KnownFields(overridden) == overridden \subseteq Fields

\* parse_variants, one segment: a variant, or a ValueError for the whole spec.
ParsesSegment ==
  /\ parsing /\ Len(plan) < MaxVariants
  /\ \E item \in Items :
       IF KnownFields(item.fields) /\ ~Clashes(item)
         THEN plan' = Append(plan, item) /\ UNCHANGED <<parsing, refused>>
         ELSE refused' = TRUE /\ parsing' = FALSE /\ UNCHANGED plan
  /\ UNCHANGED results

ParsesEnd ==
  /\ parsing /\ plan # <<>>
  /\ parsing' = FALSE
  /\ UNCHANGED <<plan, refused, results>>

\* run_session collects one result per variant, in the plan's order.
Measured ==
  /\ ~parsing /\ ~refused /\ Len(results) < Len(plan)
  /\ \E r \in Outcomes : results' = Append(results, r)
  /\ UNCHANGED <<plan, parsing, refused>>

TuningNext == ParsesSegment \/ ParsesEnd \/ Measured

TuningSpec == TuningInit /\ [][TuningNext]_tuning

------------------------------------------------------------------------------

\* What makes a curve readable from its rates: no two steps of a report have the same
\* one, unless nothing was sent in them.
RatesDiffer(report) ==
  \A i, j \in DOMAIN report : report[i].rate = report[j].rate /\ report[i].rate > 0 => i = j

CurvesRise == \A r \in Outcomes : RatesDiffer(r.report)

\* After every result, the comparison stands by itself: a valid variant is off the
\* frontier exactly if one on it is at least as good on both axes and better on
\* one; the table marks those and no other; the best is on the frontier, no valid
\* variant sustains more, an earlier one none as well, and the verdict names all
\* its ties, which are on the frontier, too, and lists every other variant that is
\* not ranked, once; and a rate called sustainable was healthy together with every
\* lower one, and the latency quoted beside it is a healthy step's.
FrontierIsWhatNothingBeats ==
  LET valid == Candidates
      points == Points
      frontier == Frontier(valid, points)
      best == Best(valid, points)
      verdict == Verdict(valid, points, best)
      tied == verdict.tied
  IN
  /\ \A i \in valid : i \notin frontier <=> \E j \in frontier : Dominates(points[j], points[i])
  /\ \A i \in frontier, j \in valid : points[j][1] > points[i][1] => points[j][2] < points[i][2]
  /\ \A i \in DOMAIN results : MarkedOnFrontier(frontier, i) <=> i \in frontier
  /\ (best = 0) = (\A i \in valid : points[i][1] = NoRate)
  /\ best # 0 =>
       /\ {best} \subseteq tied /\ tied \subseteq frontier
       /\ \A i \in valid : points[i][1] <= points[best][1]
       /\ \A i \in tied : best <= i
  /\ verdict.invalid \cap verdict.failed = {}
  /\ verdict.invalid \cup verdict.failed = DOMAIN results \ valid
  /\ \A i \in valid : \A s \in StepAtSustainable(results[i]) : Healthy(s)
  /\ \A i \in valid : (points[i][1] = NoRate) = (StepAtSustainable(results[i]) = {})
  /\ \A i \in valid : \A k \in DOMAIN results[i].report :
       points[i][1] # NoRate /\ results[i].report[k].rate <= points[i][1]
         => Healthy(results[i].report[k])

=============================================================================
