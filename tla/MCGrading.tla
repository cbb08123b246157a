------------------------------ MODULE MCGrading -----------------------------
(***************************************************************************)
(* The loop of graders.py against reference definitions, over all pairs of *)
(* short sequences.  A name is a number, so that a sequence of names can   *)
(* also be read as a sequence of latencies.                                *)
(***************************************************************************)
EXTENDS Grading

CONSTANTS
  Items, \* tool names, also latencies
  Bound  \* length of the longest sequence

ASSUME GradingAssumption == Items \subseteq Int /\ Bound \in Nat

VARIABLES
  expected, actual, \* the inputs of one grading
  previous,         \* `previous' of _lcs_length
  done              \* the left items consumed

gradingVars == <<expected, actual, previous, done>>

Inputs == UNION {[1..n -> Items] : n \in 0..Bound}

GradingInit ==
  /\ expected \in Inputs /\ actual \in Inputs
  /\ previous = [j \in 0..Len(actual) |-> 0]
  /\ done = 0

Loop ==
  /\ done < Len(expected)
  /\ previous' = NextRow(expected[done + 1], actual, previous)
  /\ done' = done + 1
  /\ UNCHANGED <<expected, actual>>

GradingSpec == GradingInit /\ [][Loop]_gradingVars

-----------------------------------------------------------------------------
(* Reference definitions *)

\* seq without the items at the positions outside keep.
Kept(seq, keep) ==
  LET position(k) == CHOOSE i \in keep :
                       Cardinality({j \in keep : j <= i}) = k
  IN  [k \in 1..Cardinality(keep) |-> seq[position(k)]]

Subsequences(seq) == {Kept(seq, keep) : keep \in SUBSET DOMAIN seq}

\* The longest common subsequence, by enumeration.
Common(left, right) ==
  LET lengths == {Len(s) : s \in Subsequences(left) \cap Subsequences(right)}
  IN  CHOOSE n \in lengths : \A m \in lengths : m <= n

\* The fewest calls to take away so that no tool is called too often.
FewestRemovals ==
  LET enough == {drop \in SUBSET DOMAIN actual :
                   \A x \in Items :
                     Cardinality({i \in DOMAIN actual \ drop : actual[i] = x})
                       <= Count(expected, x)}
      sizes == {Cardinality(drop) : drop \in enough}
  IN  CHOOSE n \in sizes : \A m \in sizes : n <= m

-----------------------------------------------------------------------------
(* Properties *)

\* Loop invariant of _lcs_length: after each pass the row holds the longest
\* common subsequence of what was consumed with every prefix of the calls.
RowIsLcs ==
  \A j \in 0..Len(actual) :
    previous[j] = Common(SubSeq(expected, 1, done), SubSeq(actual, 1, j))

\* unnecessary_call_count is the smallest number of calls to take away, and no
\* call that is not needed can count as a match in the sequence grade.
UnnecessaryIsFewest ==
  /\ UnnecessaryCalls(expected, actual) = FewestRemovals
  /\ LcsLength(expected, actual) + UnnecessaryCalls(expected, actual)
       <= Len(actual)

\* A nearest-rank percentile is the least measured value that at least that
\* share of the measurements does not exceed; p50 never exceeds p95.
PercentileIsLeastCover ==
  actual # <<>> =>
    /\ \A percent \in {1, 50, 95, 100} :
         LET covers(v) ==
               100 * Cardinality({i \in DOMAIN actual : actual[i] <= v})
                 >= percent * Len(actual)
             value == Percentile(actual, percent)
         IN  /\ value \in {actual[i] : i \in DOMAIN actual}
             /\ covers(value)
             /\ \A i \in DOMAIN actual : covers(actual[i]) => value <= actual[i]
    /\ Percentile(actual, 50) <= Percentile(actual, 95)

=============================================================================
