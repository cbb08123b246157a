------------------------------ MODULE Grading -------------------------------
(***************************************************************************)
(* The exact graders of evaluation/graders.py: how close the sequence of   *)
(* tools a run called is to the expected one, how many calls were not      *)
(* needed, nearest-rank percentiles, and the sums of a mode.  The offline  *)
(* engine carries its own copy of the first two.  A rate is a pair         *)
(* <<numerator, denominator>>, an exact fraction as in the code.           *)
(*                                                                         *)
(* An operator introduced by "Mutation:" is used by no definition; it is   *)
(* the definition that follows it with a mistake in it.                    *)
(***************************************************************************)
EXTENDS Integers, Sequences, FiniteSets, TLC

Larger(a, b) == IF a >= b THEN a ELSE b

\* Mutation: an item that matches may be matched again.
ForgetfulRow(item, right, previous) ==
  LET entry[j \in 0..Len(right)] ==
        IF j = 0 THEN 0
        ELSE IF item = right[j] THEN entry[j - 1] + 1
        ELSE Larger(previous[j], entry[j - 1])
  IN  entry

\* One pass of the loop of _lcs_length: the row after one more left item.
NextRow(item, right, previous) ==
  LET entry[j \in 0..Len(right)] ==
        IF j = 0 THEN 0
        ELSE IF item = right[j] THEN previous[j - 1] + 1
        ELSE Larger(previous[j], entry[j - 1])
  IN  entry

\* The rows of the table, by the number of left items consumed.
LcsRow(left, right) ==
  LET rows[i \in 0..Len(left)] ==
        IF i = 0 THEN [j \in 0..Len(right) |-> 0]
        ELSE NextRow(left[i], right, rows[i - 1])
  IN  rows[Len(left)]

LcsLength(left, right) == LcsRow(left, right)[Len(right)]

\* tool_sequence_grade: accuracy is 1 when nothing was expected or called.
SequenceGrade(expected, actual) ==
  IF Len(expected) + Len(actual) = 0 THEN <<1, 1>>
  ELSE <<LcsLength(expected, actual), Larger(Len(expected), Len(actual))>>

Count(seq, x) == Cardinality({i \in DOMAIN seq : seq[i] = x})

Total(f) ==
  LET sum[k \in 0..Len(f)] == IF k = 0 THEN 0 ELSE sum[k - 1] + f[k]
  IN  sum[Len(f)]

\* Mutation: the excess of the two totals, whatever was called.
ExcessLength(expected, actual) == Larger(0, Len(actual) - Len(expected))

\* unnecessary_call_count: the calls beyond the multiset that was expected.
\* A name is counted where it occurs first.
UnnecessaryCalls(expected, actual) ==
  Total([i \in DOMAIN actual |->
           IF \E k \in 1..(i - 1) : actual[k] = actual[i] THEN 0
           ELSE Larger(0, Count(actual, actual[i]) - Count(expected, actual[i]))])

\* Mutation: the rank is rounded down.
FloorPercent(percent, n) == Larger(1, (percent * n) \div 100)

\* ceil(percent / 100 * n)
CeilPercent(percent, n) == (percent * n + 99) \div 100

\* sorted(values): behind a value are the smaller ones and its equals before it.
Rank(values, i) ==
  Cardinality({j \in DOMAIN values :
                 values[j] < values[i] \/ (values[j] = values[i] /\ j <= i)})

Sorted(values) ==
  [k \in DOMAIN values |->
     values[CHOOSE i \in DOMAIN values : Rank(values, i) = k]]

\* nearest_rank_percentile
Percentile(values, percent) ==
  IF values = <<>> THEN 0
  ELSE Sorted(values)[CeilPercent(percent, Len(values))]

\* aggregate_cases: the sums of one mode.  The rates of the report are their
\* exact quotients; latency and cost are left out.
Metrics(cases) ==
  LET sum(counter(_)) == Total([i \in DOMAIN cases |-> counter(cases[i])])
      grade(c) == <<c.counts.match, c.counts.denominator>>
  IN  [count |-> Len(cases),
       correct |-> sum(LAMBDA c : IF c.counts.correct THEN 1 ELSE 0),
       succeeded |-> sum(LAMBDA c : IF c.claims.status = "succeeded"
                                    THEN 1 ELSE 0),
       grades |-> [i \in DOMAIN cases |-> grade(cases[i])],
       recovered |-> sum(LAMBDA c : c.counts.recovered),
       faults |-> sum(LAMBDA c : c.counts.transients),
       accepted |-> sum(LAMBDA c : Len(c.claims.accepted)),
       acceptedInvalid |-> sum(LAMBDA c : c.counts.acceptedInvalid),
       rejectedInvalid |-> sum(LAMBDA c : Len(c.claims.invalid)),
       malformed |-> sum(LAMBDA c : c.counts.malformed),
       unneeded |-> sum(LAMBDA c : c.counts.unneeded),
       retries |-> sum(LAMBDA c : c.counts.retries)]

=============================================================================
