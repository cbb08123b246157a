--------------------------- MODULE GradingProofs ---------------------------
(* Facts about the graders, for sequences of any length.                     *)
(*                                                                           *)
(* Graders are loops, which the modules state as recursive functions.  What  *)
(* such a function computes is proved in two steps, both over sets: a        *)
(* solution of its recursion exists (Recursion), and a set that holds 0 and  *)
(* with every number the next holds them all (Induct).  On these rest: a     *)
(* pass of _lcs_length keeps its row the longest common subsequence          *)
(* (NextRowIsLongest), a Total is a sum, which counts a set tool by tool     *)
(* (ByToolCounts), the calls in excess are the fewest that can be taken away *)
(* (FewestAreEnough), and ranks sort (PercentileIsLeast).                    *)
EXTENDS Grading, FiniteSetTheorems, TLAPS

-----------------------------------------------------------------------------
(* Induction *)

LEMMA Least ==
  ASSUME NEW S \in SUBSET Nat, S # {}
  PROVE  \E x \in S : \A y \in S : x <= y
<1>1. PICK x \in S : \A y \in S : <<y, x>> \notin OpToRel(<, Nat)
  BY NatLessThanWellFounded, WFMin
<1>2. \A y \in S : ~(y < x)
  BY <1>1 DEF OpToRel
<1> QED BY <1>2

\* A set that holds 0 and with every number the next holds them all.
LEMMA Induct ==
  ASSUME NEW S, 0 \in S, \A n \in Nat : n \in S => n + 1 \in S
  PROVE  Nat \subseteq S
<1> DEFINE T == Nat \ S
<1>1. SUFFICES ASSUME T # {} PROVE FALSE
  OBVIOUS
<1>2. PICK x \in T : \A y \in T : x <= y
  BY <1>1, Least
<1>3. x # 0 /\ x - 1 \in Nat /\ x - 1 \notin T
  BY <1>2
<1> QED BY <1>3

\* r is what a loop of m steps through values of T computes.
Steps(m, T) == [(1..m) \X T -> T]

Solves(r, m, T, first, step) ==
  /\ r \in [0..m -> T] /\ r[0] = first
  /\ \A i \in 1..m : r[i] = step[<<i, r[i - 1]>>]

\* A recursion over the numbers up to m has a solution.
LEMMA Recursion ==
  ASSUME NEW m \in Nat, NEW T, NEW first \in T, NEW step \in Steps(m, T)
  PROVE  \E r : Solves(r, m, T, first, step)
<1> USE DEF Steps, Solves
<1> DEFINE P(n, r) == /\ r \in [0..n -> T] /\ r[0] = first
                      /\ \A i \in 1..n : r[i] = step[<<i, r[i - 1]>>]
           S == {n \in Nat : n <= m => \E r : P(n, r)}
<1>1. 0 \in S
  <2> DEFINE r == [i \in 0..0 |-> first]
  <2>1. P(0, r)
    OBVIOUS
  <2> QED BY <2>1
<1>2. ASSUME NEW n \in Nat, n \in S PROVE n + 1 \in S
  <2> SUFFICES ASSUME n + 1 <= m PROVE \E r : P(n + 1, r)
    OBVIOUS
  <2>1. PICK r : P(n, r)
    BY <1>2
  <2> DEFINE q == [i \in 0..(n + 1) |->
                     IF i = n + 1 THEN step[<<n + 1, r[n]>>] ELSE r[i]]
  <2>2. step[<<n + 1, r[n]>>] \in T
    <3>1. <<n + 1, r[n]>> \in (1..m) \X T
      BY <2>1
    <3> QED BY <3>1
  <2>3. q \in [0..(n + 1) -> T] /\ q[0] = first
    BY <2>1, <2>2
  <2>4. ASSUME NEW i \in 1..(n + 1) PROVE q[i] = step[<<i, q[i - 1]>>]
    <3>1. CASE i = n + 1
      <4>1. q[n + 1] = step[<<n + 1, r[n]>>] /\ q[n] = r[n] /\ i - 1 = n
        BY <3>1
      <4> QED BY <4>1, <3>1
    <3>2. CASE i \in 1..n
      <4>1. q[i] = r[i] /\ q[i - 1] = r[i - 1]
        BY <3>2
      <4> QED BY <4>1, <3>2, <2>1
    <3> QED BY <3>1, <3>2
  <2>5. P(n + 1, q)
    BY <2>3, <2>4
  <2> QED BY <2>5
<1> HIDE DEF S
<1>3. m \in S
  BY <1>1, <1>2, Induct
<1> QED BY <1>3 DEF S

-----------------------------------------------------------------------------
(* Counting and ranks *)

LEMMA Disjoint ==
  ASSUME NEW A, IsFiniteSet(A), NEW B, IsFiniteSet(B), A \cap B = {}
  PROVE  Cardinality(A \cup B) = Cardinality(A) + Cardinality(B)
<1>1. Cardinality(A) \in Nat /\ Cardinality(B) \in Nat /\ Cardinality({}) = 0
  BY FS_CardinalityType, FS_EmptySet
<1>2. Cardinality(A \cup B) = Cardinality(A) + Cardinality(B) - Cardinality(A \cap B)
  BY FS_Union
<1> DEFINE C == A \cap B
<1>3. Cardinality(C) = 0
  BY FS_EmptySet
<1> HIDE DEF C
<1>4. Cardinality(A \cup B) = Cardinality(A) + Cardinality(B) - Cardinality(C)
  BY <1>2 DEF C
<1> QED BY <1>1, <1>3, <1>4

IsOrder(S, R) ==
  /\ \A a \in S : <<a, a>> \in R
  /\ \A a, b \in S : <<a, b>> \in R \/ <<b, a>> \in R
  /\ \A a, b \in S : <<a, b>> \in R /\ <<b, a>> \in R => a = b
  /\ \A a, b, c \in S : <<a, b>> \in R /\ <<b, c>> \in R => <<a, c>> \in R

RankIn(S, R, a) == Cardinality({b \in S : <<b, a>> \in R})

\* The ranks are 1, 2, .. in the order R.
InOrder(S, R) ==
  /\ \A a \in S : RankIn(S, R, a) \in 1..Cardinality(S)
  /\ \A a, b \in S : <<a, b>> \in R => RankIn(S, R, a) <= RankIn(S, R, b)
  /\ \A a, b \in S : RankIn(S, R, a) <= RankIn(S, R, b) => <<a, b>> \in R
  /\ \A k \in 1..Cardinality(S) : \E a \in S : RankIn(S, R, a) = k

LEMMA RanksInOrder ==
  ASSUME NEW S, IsFiniteSet(S), NEW R, IsOrder(S, R)
  PROVE  InOrder(S, R)
<1> USE DEF IsOrder
<1> DEFINE Below(a) == {b \in S : <<b, a>> \in R}
           rank(a) == Cardinality(Below(a))
           n == Cardinality(S)
           f == [a \in S |-> rank(a)]
<1>1. n \in Nat
  BY FS_CardinalityType
<1>2. ASSUME NEW a \in S
      PROVE  IsFiniteSet(Below(a)) /\ Cardinality(Below(a)) \in 1..n
  <2>1. Below(a) \in SUBSET S /\ a \in Below(a)
    OBVIOUS
  <2>2. IsFiniteSet(Below(a)) /\ Cardinality(Below(a)) <= n
    BY <2>1, FS_Subset
  <2>3. Cardinality(Below(a)) \in Nat /\ Cardinality(Below(a)) # 0
    BY <2>1, <2>2, FS_EmptySet, FS_CardinalityType
  <2> QED BY <2>2, <2>3, <1>1
<1>3. f \in [S -> 1..n] /\ \A a \in S : f[a] = rank(a)
  BY <1>2
<1>4. ASSUME NEW a \in S, NEW b \in S, <<a, b>> \in R, a # b
      PROVE  f[a] < f[b]
  <2>1. Below(a) \in SUBSET Below(b) /\ Below(a) # Below(b)
    BY <1>4
  <2>2. Cardinality(Below(a)) <= Cardinality(Below(b))
    BY <2>1, <1>2, FS_Subset
  <2>3. Cardinality(Below(a)) # Cardinality(Below(b))
    BY <2>1, <1>2, FS_Subset
  <2> HIDE DEF Below, f
  <2> QED BY <2>2, <2>3, <1>2, <1>3
<1> HIDE DEF f
<1>5. \A a, b \in S : <<a, b>> \in R => f[a] <= f[b]
  <2> HIDE DEF rank
  <2> QED BY <1>3, <1>4
<1>6. ASSUME NEW a \in S, NEW b \in S, f[a] <= f[b] PROVE <<a, b>> \in R
  <2>1. f[a] \in Int /\ f[b] \in Int
    BY <1>1, <1>3
  <2>2. SUFFICES ASSUME <<a, b>> \notin R PROVE FALSE
    OBVIOUS
  <2>3. <<b, a>> \in R /\ a # b
    BY <2>2
  <2>4. f[b] < f[a]
    BY <2>3, <1>4
  <2> QED BY <2>1, <2>4, <1>6
<1>7. f \in Injection(S, 1..n)
  <2>1. ASSUME NEW a \in S, NEW b \in S, f[a] = f[b] PROVE a = b
    <3>1. f[a] \in Int /\ f[a] <= f[b] /\ f[b] <= f[a]
      BY <2>1, <1>1, <1>3
    <3>2. <<a, b>> \in R /\ <<b, a>> \in R
      BY <3>1, <1>6
    <3> QED BY <3>2
  <2>2. f \in [S -> 1..n]
    BY <1>3
  <2>3. \A a, b \in S : f[a] = f[b] => a = b
    BY <2>1
  <2> QED BY <2>2, <2>3 DEF Injection, IsInjective
<1>8. IsFiniteSet(1..n) /\ Cardinality(1..n) = n
  BY <1>1, FS_Interval
<1>9. f \in Surjection(S, 1..n)
  BY <1>7, <1>8, FS_Injection
<1>10. \A k \in 1..n : \E a \in S : f[a] = k
  BY <1>9 DEF Surjection
<1>11. \A a \in S : rank(a) \in 1..Cardinality(S)
  BY <1>2
<1>12. \A k \in 1..n : \E a \in S : rank(a) = k
  <2> HIDE DEF rank
  <2> QED BY <1>10, <1>3
<1>13. /\ \A a, b \in S : <<a, b>> \in R => rank(a) <= rank(b)
       /\ \A a, b \in S : rank(a) <= rank(b) => <<a, b>> \in R
  <2> HIDE DEF rank
  <2> QED BY <1>3, <1>5, <1>6
<1> QED BY <1>11, <1>12, <1>13 DEF InOrder, RankIn

-----------------------------------------------------------------------------
(* The table of _lcs_length *)

\* p lists n of the positions up to m, in order.
Rising(p, n, m) == p \in [1..n -> 1..m] /\ \A a, b \in 1..n : a < b => p[a] < p[b]

\* The first i items of left and the first j of right have n items in common,
\* in the same order.
Shared(left, right, i, j, n) ==
  \E p, q : /\ Rising(p, n, i) /\ Rising(q, n, j)
            /\ \A k \in 1..n : left[p[k]] = right[q[k]]

\* They have n, and never more.
Longest(left, right, i, j, n) ==
  /\ n \in Nat /\ Shared(left, right, i, j, n)
  /\ \A m \in Nat : Shared(left, right, i, j, m) => m <= n

LEMMA RisingInit ==
  ASSUME NEW p, NEW n \in Nat, NEW m \in Nat, n # 0, Rising(p, n, m)
  PROVE  /\ p[n] \in 1..m
         /\ \A r \in Nat : p[n] <= r => Rising(p, n, r)
         /\ Rising([k \in 1..(n - 1) |-> p[k]], n - 1, p[n] - 1)
<1>1. p[n] \in 1..m /\ \A k \in 1..n : p[k] \in 1..m /\ p[k] <= p[n]
  <2>1. \A k \in 1..n : p[k] \in 1..m /\ (k # n => k < n)
    BY DEF Rising
  <2> QED BY <2>1 DEF Rising
<1>2. \A k \in 1..(n - 1) : k \in 1..n /\ p[k] \in 1..(p[n] - 1)
  BY <1>1 DEF Rising
<1>3. ASSUME NEW r \in Nat, p[n] <= r PROVE Rising(p, n, r)
  <2>1. \A k \in 1..n : p[k] \in 1..r
    BY <1>1, <1>3
  <2> QED BY <2>1 DEF Rising
<1>4. Rising([k \in 1..(n - 1) |-> p[k]], n - 1, p[n] - 1)
  BY <1>2 DEF Rising
<1> QED BY <1>1, <1>3, <1>4

LEMMA RisingWiden ==
  ASSUME NEW p, NEW n \in Nat, NEW m \in Nat, NEW r \in Nat, m <= r, Rising(p, n, m)
  PROVE  Rising(p, n, r)
<1>1. \A k \in 1..n : p[k] \in 1..r
  BY DEF Rising
<1> QED BY <1>1 DEF Rising

LEMMA RisingAppend ==
  ASSUME NEW p, NEW n \in Nat, NEW m \in Nat, Rising(p, n, m)
  PROVE  Rising([k \in 1..(n + 1) |-> IF k = n + 1 THEN m + 1 ELSE p[k]], n + 1, m + 1)
<1> DEFINE q == [k \in 1..(n + 1) |-> IF k = n + 1 THEN m + 1 ELSE p[k]]
<1>1. \A k \in 1..n : q[k] = p[k] /\ p[k] \in 1..m
  BY DEF Rising
<1>2. q[n + 1] = m + 1
  OBVIOUS
<1>3. \A k \in 1..(n + 1) : q[k] \in 1..(m + 1)
  <2>1. \A k \in 1..(n + 1) : k = n + 1 \/ k \in 1..n
    OBVIOUS
  <2>2. 1..m \subseteq 1..(m + 1) /\ m + 1 \in 1..(m + 1)
    OBVIOUS
  <2> HIDE DEF q
  <2> QED BY <1>1, <1>2, <2>1, <2>2
<1>4. ASSUME NEW a \in 1..(n + 1), NEW b \in 1..(n + 1), a < b PROVE q[a] < q[b]
  <2>1. CASE b = n + 1
    <3>1. a \in 1..n
      BY <2>1, <1>4
    <3>2. q[a] \in 1..m /\ q[b] = m + 1
      BY <3>1, <2>1, <1>1, <1>2
    <3> QED BY <3>2
  <2>2. CASE b \in 1..n
    <3>1. a \in 1..n /\ p[a] < p[b]
      BY <2>2, <1>4 DEF Rising
    <3> QED BY <3>1, <2>2, <1>1
  <2> QED BY <2>1, <2>2
<1> QED BY <1>3, <1>4 DEF Rising

LEMMA LongestOfNone ==
  ASSUME NEW left, NEW right, NEW i \in Nat, NEW j \in Nat, i = 0 \/ j = 0
  PROVE  Longest(left, right, i, j, 0)
<1> DEFINE none == [k \in 1..0 |-> 0]
<1>1. Rising(none, 0, i) /\ Rising(none, 0, j)
  BY DEF Rising
<1>2. Shared(left, right, i, j, 0)
  <2>1. \A k \in 1..0 : left[none[k]] = right[none[k]]
    OBVIOUS
  <2> HIDE DEF none
  <2> QED BY <1>1, <2>1 DEF Shared
<1>3. ASSUME NEW m \in Nat, Shared(left, right, i, j, m) PROVE m <= 0
  <2>1. PICK p, q : Rising(p, m, i) /\ Rising(q, m, j)
    BY <1>3 DEF Shared
  <2>2. m # 0 => p[m] \in 1..i /\ q[m] \in 1..j
    BY <2>1, RisingInit
  <2> QED BY <2>2
<1> QED BY <1>2, <1>3 DEF Longest

LEMMA LongestOfMatch ==
  ASSUME NEW left, NEW right, NEW i \in Nat, NEW j \in Nat, NEW n,
         left[i + 1] = right[j + 1], Longest(left, right, i, j, n)
  PROVE  Longest(left, right, i + 1, j + 1, n + 1)
<1>1. n \in Nat
  BY DEF Longest
<1>2. Shared(left, right, i + 1, j + 1, n + 1)
  <2>1. PICK p, q : /\ Rising(p, n, i) /\ Rising(q, n, j)
                    /\ \A k \in 1..n : left[p[k]] = right[q[k]]
    BY DEF Longest, Shared
  <2> DEFINE pp == [k \in 1..(n + 1) |-> IF k = n + 1 THEN i + 1 ELSE p[k]]
             qq == [k \in 1..(n + 1) |-> IF k = n + 1 THEN j + 1 ELSE q[k]]
  <2>2. Rising(pp, n + 1, i + 1) /\ Rising(qq, n + 1, j + 1)
    BY <2>1, <1>1, RisingAppend
  <2>3. ASSUME NEW k \in 1..(n + 1) PROVE left[pp[k]] = right[qq[k]]
    <3>1. CASE k = n + 1
      BY <3>1, <1>1
    <3>2. CASE k \in 1..n
      BY <3>2, <2>1, <1>1
    <3> QED BY <3>1, <3>2, <1>1
  <2> HIDE DEF pp, qq
  <2> QED BY <2>2, <2>3 DEF Shared
<1>3. ASSUME NEW m \in Nat, Shared(left, right, i + 1, j + 1, m) PROVE m <= n + 1
  <2>1. CASE m = 0
    BY <2>1, <1>1
  <2>2. CASE m # 0
    <3>1. PICK p, q : /\ Rising(p, m, i + 1) /\ Rising(q, m, j + 1)
                      /\ \A k \in 1..m : left[p[k]] = right[q[k]]
      BY <1>3 DEF Shared
    <3> DEFINE pp == [k \in 1..(m - 1) |-> p[k]]
               qq == [k \in 1..(m - 1) |-> q[k]]
    <3>2. /\ p[m] \in 1..(i + 1) /\ Rising(pp, m - 1, p[m] - 1)
          /\ q[m] \in 1..(j + 1) /\ Rising(qq, m - 1, q[m] - 1)
      BY <3>1, <2>2, RisingInit
    <3>3. m - 1 \in Nat /\ p[m] - 1 \in Nat /\ q[m] - 1 \in Nat /\ p[m] - 1 <= i /\ q[m] - 1 <= j
      BY <3>2, <2>2
    <3>4. \A k \in 1..(m - 1) : left[pp[k]] = right[qq[k]]
      BY <3>1
    <3> HIDE DEF pp, qq
    <3>5. Rising(pp, m - 1, i) /\ Rising(qq, m - 1, j)
      BY <3>2, <3>3, RisingWiden
    <3>6. m - 1 <= n
      BY <3>3, <3>4, <3>5 DEF Longest, Shared
    <3> QED BY <3>6, <1>1
  <2> QED BY <2>1, <2>2
<1> QED BY <1>1, <1>2, <1>3 DEF Longest

LEMMA LongestOfMiss ==
  ASSUME NEW left, NEW right, NEW i \in Nat, NEW j \in Nat, NEW a, NEW b,
         left[i + 1] # right[j + 1],
         Longest(left, right, i, j + 1, a), Longest(left, right, i + 1, j, b)
  PROVE  Longest(left, right, i + 1, j + 1, Larger(a, b))
<1>1. a \in Nat /\ b \in Nat /\ Larger(a, b) \in {a, b} /\ a <= Larger(a, b) /\ b <= Larger(a, b)
  BY DEF Longest, Larger
<1>2. Shared(left, right, i + 1, j + 1, a)
  <2>1. PICK p, q : /\ Rising(p, a, i) /\ Rising(q, a, j + 1)
                    /\ \A k \in 1..a : left[p[k]] = right[q[k]]
    BY DEF Longest, Shared
  <2>2. Rising(p, a, i + 1)
    BY <2>1, <1>1, RisingWiden
  <2> QED BY <2>1, <2>2 DEF Shared
<1>3. Shared(left, right, i + 1, j + 1, b)
  <2>1. PICK p, q : /\ Rising(p, b, i + 1) /\ Rising(q, b, j)
                    /\ \A k \in 1..b : left[p[k]] = right[q[k]]
    BY DEF Longest, Shared
  <2>2. Rising(q, b, j + 1)
    BY <2>1, <1>1, RisingWiden
  <2> QED BY <2>1, <2>2 DEF Shared
<1>4. ASSUME NEW m \in Nat, Shared(left, right, i + 1, j + 1, m) PROVE m <= Larger(a, b)
  <2>1. CASE m = 0
    BY <2>1, <1>1
  <2>2. CASE m # 0
    <3>1. PICK p, q : /\ Rising(p, m, i + 1) /\ Rising(q, m, j + 1)
                      /\ \A k \in 1..m : left[p[k]] = right[q[k]]
      BY <1>4 DEF Shared
    <3>2. /\ p[m] \in 1..(i + 1) /\ q[m] \in 1..(j + 1)
          /\ p[m] <= i => Rising(p, m, i)
          /\ q[m] <= j => Rising(q, m, j)
      <4>1. i + 1 \in Nat /\ j + 1 \in Nat
        OBVIOUS
      <4>2. p[m] \in 1..(i + 1) /\ \A r \in Nat : p[m] <= r => Rising(p, m, r)
        BY <4>1, <3>1, <2>2, RisingInit
      <4>3. q[m] \in 1..(j + 1) /\ \A r \in Nat : q[m] <= r => Rising(q, m, r)
        BY <4>1, <3>1, <2>2, RisingInit
      <4> QED BY <4>2, <4>3
    <3>3. p[m] <= i \/ q[m] <= j
      <4>1. p[m] # i + 1 \/ q[m] # j + 1
        BY <3>1, <2>2
      <4> QED BY <4>1, <3>2
    <3>4. CASE p[m] <= i
      <4>1. m <= a
        BY <3>4, <3>1, <3>2 DEF Longest, Shared
      <4> QED BY <4>1, <1>1
    <3>5. CASE q[m] <= j
      <4>1. m <= b
        BY <3>5, <3>1, <3>2 DEF Longest, Shared
      <4> QED BY <4>1, <1>1
    <3> QED BY <3>3, <3>4, <3>5
  <2> QED BY <2>1, <2>2
<1> QED BY <1>1, <1>2, <1>3, <1>4 DEF Longest

\* What a pass of the loop writes into the entries of a row, one after the other.
Follows(e, item, right, row) ==
  /\ e \in [0..Len(right) -> Nat]
  /\ e[0] = 0
  /\ \A j \in 1..Len(right) :
       e[j] = IF item = right[j] THEN row[j - 1] + 1 ELSE Larger(row[j], e[j - 1])

LEMMA NextRowFollows ==
  ASSUME NEW item, NEW S, NEW right \in Seq(S), NEW row,
         \A j \in 0..Len(right) : row[j] \in Nat
  PROVE  Follows(NextRow(item, right, row), item, right, row)
<1> DEFINE m == Len(right)
           step == [x \in (1..m) \X Nat |->
                      IF item = right[x[1]] THEN row[x[1] - 1] + 1
                      ELSE Larger(row[x[1]], x[2])]
           Entries(r) == r = [j \in 0..m |->
                               IF j = 0 THEN 0
                               ELSE IF item = right[j] THEN row[j - 1] + 1
                               ELSE Larger(row[j], r[j - 1])]
<1>1. m \in Nat
  OBVIOUS
<1>2. step \in Steps(m, Nat)
  BY DEF Larger, Steps
<1>3. PICK r \in [0..m -> Nat] :
        r[0] = 0 /\ \A j \in 1..m : r[j] = step[<<j, r[j - 1]>>]
  <2> HIDE DEF step, m
  <2>1. \E r : Solves(r, m, Nat, 0, step)
    BY <1>1, <1>2, Recursion
  <2> QED BY <2>1 DEF Solves
<1>4. ASSUME NEW j \in 1..m
      PROVE  r[j] = IF item = right[j] THEN row[j - 1] + 1 ELSE Larger(row[j], r[j - 1])
  <2>1. <<j, r[j - 1]>> \in (1..m) \X Nat
    <3>1. j - 1 \in 0..m
      BY <1>1
    <3> QED BY <3>1, <1>3
  <2> QED BY <2>1, <1>3
<1>5. Entries(r)
  <2> HIDE DEF step
  <2>1. \A j \in 0..m : j = 0 \/ j \in 1..m
    BY <1>1
  <2> QED BY <1>3, <1>4, <2>1
<1>6. NextRow(item, right, row) = CHOOSE e : Entries(e)
  BY DEF NextRow
<1> DEFINE e == CHOOSE x : Entries(x)
<1>7. Entries(e)
  BY <1>5
<1> HIDE DEF e
<1>8. e[0] = 0 /\ \A j \in 1..m : e[j] = IF item = right[j] THEN row[j - 1] + 1
                                         ELSE Larger(row[j], e[j - 1])
  BY <1>1, <1>7
<1> DEFINE T == {j \in Nat : j <= m => e[j] \in Nat}
<1>9. 0 \in T
  BY <1>8
<1>10. ASSUME NEW j \in Nat, j \in T PROVE j + 1 \in T
  <2> SUFFICES ASSUME j + 1 <= m PROVE e[j + 1] \in Nat
    OBVIOUS
  <2>1. e[j] \in Nat /\ row[j] \in Nat /\ row[j + 1] \in Nat /\ j + 1 \in 1..m /\ (j + 1) - 1 = j
    BY <1>1, <1>10
  <2>2. e[j + 1] = IF item = right[j + 1] THEN row[j] + 1 ELSE Larger(row[j + 1], e[j])
    BY <2>1, <1>8
  <2> QED BY <2>1, <2>2 DEF Larger
<1> HIDE DEF T
<1>11. \A j \in 0..m : e[j] \in Nat
  <2>1. Nat \subseteq T
    BY <1>9, <1>10, Induct
  <2> QED BY <2>1, <1>1 DEF T
<1>12. e \in [0..m -> Nat]
  BY <1>7, <1>11
<1>13. e = NextRow(item, right, row)
  BY <1>6 DEF e
<1> QED BY <1>8, <1>12, <1>13 DEF Follows

\* A pass of the loop takes the lengths for i left items to those for i + 1.
LEMMA NextRowIsLongest ==
  ASSUME NEW S, NEW left, NEW right \in Seq(S), NEW i \in Nat, NEW row,
         \A j \in 0..Len(right) : Longest(left, right, i, j, row[j])
  PROVE  LET e == NextRow(left[i + 1], right, row)
         IN  /\ e \in [0..Len(right) -> Nat]
             /\ \A j \in 0..Len(right) : Longest(left, right, i + 1, j, e[j])
<1> DEFINE m == Len(right)
           e == NextRow(left[i + 1], right, row)
           T == {j \in Nat : j <= m => Longest(left, right, i + 1, j, e[j])}
<1>1. \A j \in 0..m : row[j] \in Nat
  BY DEF Longest
<1>2. /\ e \in [0..m -> Nat]
      /\ e[0] = 0
      /\ \A j \in 1..m : e[j] = IF left[i + 1] = right[j] THEN row[j - 1] + 1
                                ELSE Larger(row[j], e[j - 1])
  <2>1. Follows(NextRow(left[i + 1], right, row), left[i + 1], right, row)
    BY <1>1, NextRowFollows
  <2> QED BY <2>1 DEF Follows
<1> HIDE DEF e
<1>3. 0 \in T
  BY <1>2, LongestOfNone
<1>4. ASSUME NEW j \in Nat, j \in T PROVE j + 1 \in T
  <2> SUFFICES ASSUME j + 1 <= m PROVE Longest(left, right, i + 1, j + 1, e[j + 1])
    OBVIOUS
  <2>1. m \in Nat /\ j + 1 \in 1..m /\ (j + 1) - 1 = j /\ j \in 0..m /\ j + 1 \in 0..m
    OBVIOUS
  <2>2. e[j + 1] = IF left[i + 1] = right[j + 1] THEN row[j] + 1 ELSE Larger(row[j + 1], e[j])
    BY <2>1, <1>2
  <2>3. CASE left[i + 1] = right[j + 1]
    <3>1. Longest(left, right, i, j, row[j])
      BY <2>1
    <3> QED BY <3>1, <2>2, <2>3, LongestOfMatch
  <2>4. CASE left[i + 1] # right[j + 1]
    <3>1. Longest(left, right, i, j + 1, row[j + 1]) /\ Longest(left, right, i + 1, j, e[j])
      BY <2>1, <1>4
    <3> QED BY <3>1, <2>2, <2>4, LongestOfMiss
  <2> QED BY <2>3, <2>4
<1> HIDE DEF T
<1>5. Nat \subseteq T
  BY <1>3, <1>4, Induct
<1> QED BY <1>2, <1>5 DEF T, e

-----------------------------------------------------------------------------
(* Sums *)

\* s holds the sums of the first items of f.
Sums(s, f) ==
  /\ s \in [0..Len(f) -> Int]
  /\ s[0] = 0
  /\ \A k \in 1..Len(f) : s[k] = s[k - 1] + f[k]

LEMMA TotalSums ==
  ASSUME NEW f \in Seq(Int)
  PROVE  \E s : Sums(s, f) /\ Total(f) = s[Len(f)]
<1> DEFINE m == Len(f)
           step == [x \in (1..m) \X Int |-> x[2] + f[x[1]]]
           Entries(s) == s = [k \in 0..m |-> IF k = 0 THEN 0 ELSE s[k - 1] + f[k]]
<1>1. m \in Nat /\ \A k \in 1..m : f[k] \in Int
  OBVIOUS
<1>2. step \in Steps(m, Int)
  BY <1>1 DEF Steps
<1>3. PICK r \in [0..m -> Int] :
        r[0] = 0 /\ \A k \in 1..m : r[k] = step[<<k, r[k - 1]>>]
  <2> HIDE DEF step, m
  <2>1. 0 \in Int
    OBVIOUS
  <2>2. \E r : Solves(r, m, Int, 0, step)
    BY <2>1, <1>1, <1>2, Recursion
  <2> QED BY <2>2 DEF Solves
<1>4. ASSUME NEW k \in 1..m PROVE r[k] = r[k - 1] + f[k]
  <2>1. k - 1 \in 0..m
    BY <1>1
  <2>2. <<k, r[k - 1]>> \in (1..m) \X Int
    BY <2>1, <1>3
  <2> QED BY <2>2, <1>3
<1>5. Entries(r)
  <2> HIDE DEF step
  <2>1. \A k \in 0..m : k = 0 \/ k \in 1..m
    BY <1>1
  <2> QED BY <1>3, <1>4, <2>1
<1> DEFINE s == CHOOSE x : Entries(x)
<1>6. Entries(s)
  BY <1>5
<1>7. Total(f) = s[m]
  BY DEF Total
<1> HIDE DEF s
<1>8. s[0] = 0 /\ \A k \in 1..m : s[k] = s[k - 1] + f[k]
  BY <1>1, <1>6, SMTT(20)
<1> DEFINE T == {k \in Nat : k <= m => s[k] \in Int}
<1>9. 0 \in T
  BY <1>8
<1>10. ASSUME NEW k \in Nat, k \in T PROVE k + 1 \in T
  <2> SUFFICES ASSUME k + 1 <= m PROVE s[k + 1] \in Int
    OBVIOUS
  <2>1. k + 1 \in 1..m /\ (k + 1) - 1 = k /\ s[k] \in Int
    BY <1>1, <1>10
  <2>2. s[k + 1] = s[k] + f[k + 1]
    BY <2>1, <1>8
  <2> QED BY <2>1, <2>2, <1>1
<1> HIDE DEF T
<1>11. \A k \in 0..m : s[k] \in Int
  <2>1. Nat \subseteq T
    BY <1>9, <1>10, Induct
  <2> QED BY <2>1, <1>1 DEF T
<1>12. s \in [0..m -> Int]
  BY <1>6, <1>11
<1> QED BY <1>7, <1>8, <1>12 DEF Sums

\* Sums of items that are nowhere larger are not larger.
LEMMA TotalMonotone ==
  ASSUME NEW f \in Seq(Int), NEW g \in Seq(Int), Len(f) = Len(g),
         \A k \in 1..Len(f) : f[k] <= g[k]
  PROVE  Total(f) \in Int /\ Total(g) \in Int /\ Total(f) <= Total(g)
<1> DEFINE m == Len(f)
<1>1. PICK s : Sums(s, f) /\ Total(f) = s[m]
  BY TotalSums
<1>2. PICK t : Sums(t, g) /\ Total(g) = t[m]
  BY TotalSums
<1> DEFINE T == {k \in Nat : k <= m => s[k] <= t[k]}
<1>3. 0 \in T
  BY <1>1, <1>2 DEF Sums
<1>4. ASSUME NEW k \in Nat, k \in T PROVE k + 1 \in T
  <2> SUFFICES ASSUME k + 1 <= m PROVE s[k + 1] <= t[k + 1]
    OBVIOUS
  <2>1. k + 1 \in 1..m /\ (k + 1) - 1 = k /\ k \in 0..m /\ s[k] <= t[k]
    BY <1>4
  <2>2. s[k + 1] = s[k] + f[k + 1] /\ t[k + 1] = t[k] + g[k + 1]
    BY <2>1, <1>1, <1>2 DEF Sums
  <2>3. s[k] \in Int /\ t[k] \in Int /\ f[k + 1] \in Int /\ g[k + 1] \in Int
    <3>1. k \in 0..Len(f) /\ k \in 0..Len(g) /\ k + 1 \in 1..Len(f) /\ k + 1 \in 1..Len(g)
      BY <2>1
    <3>2. s[k] \in Int /\ t[k] \in Int
      BY <3>1, <1>1, <1>2 DEF Sums
    <3>3. f[k + 1] \in Int /\ g[k + 1] \in Int
      BY <3>1
    <3> QED BY <3>2, <3>3
  <2> QED BY <2>1, <2>2, <2>3
<1> HIDE DEF T
<1>5. Nat \subseteq T
  BY <1>3, <1>4, Induct
<1>6. m \in Nat /\ m \in T
  BY <1>5
<1>7. s[m] <= t[m] /\ s[m] \in Int /\ t[m] \in Int
  BY <1>1, <1>2, <1>6 DEF T, Sums
<1> QED BY <1>1, <1>2, <1>7

-----------------------------------------------------------------------------
(* unnecessary_call_count *)

\* The positions of actual in D, counted by tool where the tool occurs first.
ByTool(actual, D) ==
  [i \in DOMAIN actual |->
     IF \E k \in 1..(i - 1) : actual[k] = actual[i] THEN 0
     ELSE Cardinality({j \in D : actual[j] = actual[i]})]

LEMMA ByToolCounts ==
  ASSUME NEW S, NEW actual \in Seq(S), NEW D \in SUBSET DOMAIN actual
  PROVE  /\ ByTool(actual, D) \in Seq(Int) /\ Len(ByTool(actual, D)) = Len(actual)
         /\ Total(ByTool(actual, D)) = Cardinality(D)
<1> DEFINE m == Len(actual)
           f == ByTool(actual, D)
           Seen(k) == {j \in D : \E i \in 1..k : actual[i] = actual[j]}
           New(k) == {j \in D : actual[j] = actual[k]}
<1>1. m \in Nat /\ DOMAIN actual = 1..m /\ D \subseteq 1..m
  OBVIOUS
<1>2. IsFiniteSet(D)
  <2>1. IsFiniteSet(1..m)
    BY <1>1, FS_Interval
  <2> QED BY <1>1, <2>1, FS_Subset
<1>3. ASSUME NEW E \in SUBSET D PROVE IsFiniteSet(E) /\ Cardinality(E) \in Nat
  BY <1>2, FS_Subset, FS_CardinalityType
<1>4. \A k \in 1..m : Cardinality(New(k)) \in Nat
  <2>1. \A k \in 1..m : New(k) \in SUBSET D
    OBVIOUS
  <2> QED BY <1>3, <2>1
<1>5. f \in Seq(Int) /\ Len(f) = m
  <2>1. f \in [1..m -> Int]
    BY <1>1, <1>4 DEF ByTool
  <2> HIDE DEF f
  <2> QED BY <2>1, <1>1
<1>6. PICK s : Sums(s, f) /\ Total(f) = s[m]
  BY <1>5, TotalSums
<1>7. s[0] = 0 /\ \A k \in 1..m : s[k] = s[k - 1] + f[k]
  BY <1>5, <1>6 DEF Sums
<1> DEFINE T == {k \in Nat : k <= m => s[k] = Cardinality(Seen(k))}
<1>8. 0 \in T
  <2>1. Seen(0) = {}
    OBVIOUS
  <2> QED BY <2>1, <1>7, FS_EmptySet
<1>9. ASSUME NEW k \in Nat, k \in T PROVE k + 1 \in T
  <2> SUFFICES ASSUME k + 1 <= m PROVE s[k + 1] = Cardinality(Seen(k + 1))
    OBVIOUS
  <2>1. k + 1 \in 1..m /\ (k + 1) - 1 = k /\ s[k] = Cardinality(Seen(k))
    BY <1>1, <1>9
  <2>2. s[k + 1] = s[k] + f[k + 1]
    BY <2>1, <1>7
  <2>3. Seen(k + 1) = Seen(k) \cup New(k + 1)
    <3>1. 1..(k + 1) = (1..k) \cup {k + 1}
      OBVIOUS
    <3> QED BY <3>1
  <2>4. f[k + 1] = IF \E i \in 1..k : actual[i] = actual[k + 1] THEN 0
                   ELSE Cardinality(New(k + 1))
    BY <2>1, <1>1 DEF ByTool
  <2>5. Seen(k) \in SUBSET D /\ New(k + 1) \in SUBSET D /\ Seen(k) \cap New(k + 1) \in SUBSET D
    OBVIOUS
  <2>6. /\ IsFiniteSet(Seen(k)) /\ Cardinality(Seen(k)) \in Nat
        /\ IsFiniteSet(New(k + 1)) /\ Cardinality(New(k + 1)) \in Nat
    BY <2>5, <1>3
  <2>7. CASE \E i \in 1..k : actual[i] = actual[k + 1]
    <3>1. New(k + 1) \subseteq Seen(k)
      BY <2>7
    <3>2. Seen(k + 1) = Seen(k)
      BY <3>1, <2>3
    <3> HIDE DEF f, Seen, New
    <3> QED BY <3>2, <2>1, <2>2, <2>4, <2>6, <2>7
  <2>8. CASE ~ \E i \in 1..k : actual[i] = actual[k + 1]
    <3>1. Seen(k) \cap New(k + 1) = {}
      BY <2>8
    <3>2. Cardinality(Seen(k + 1)) = Cardinality(Seen(k)) + Cardinality(New(k + 1))
      <4> HIDE DEF Seen, New
      <4> QED BY <3>1, <2>3, <2>6, Disjoint
    <3> HIDE DEF f, Seen, New
    <3> QED BY <3>2, <2>1, <2>2, <2>4, <2>8
  <2> QED BY <2>7, <2>8
<1>10. Nat \subseteq T
  <2> HIDE DEF T
  <2> QED BY <1>8, <1>9, Induct
<1>11. Seen(m) = D
  BY <1>1
<1>12. s[m] = Cardinality(Seen(m))
  BY <1>1, <1>10
<1> QED BY <1>5, <1>6, <1>11, <1>12

\* Without the calls in drop no tool is called more often than expected.
Enough(expected, actual, drop) ==
  /\ drop \subseteq DOMAIN actual
  /\ \A i \in DOMAIN actual :
       Cardinality({j \in DOMAIN actual \ drop : actual[j] = actual[i]})
         <= Count(expected, actual[i])

\* What UnnecessaryCalls sums up.
Excesses(expected, actual) ==
  [i \in DOMAIN actual |->
     IF \E k \in 1..(i - 1) : actual[k] = actual[i] THEN 0
     ELSE Larger(0, Count(actual, actual[i]) - Count(expected, actual[i]))]

LEMMA CountsAreNumbers ==
  ASSUME NEW S, NEW seq \in Seq(S), NEW x
  PROVE  Count(seq, x) \in Nat
<1>1. IsFiniteSet(DOMAIN seq)
  <2>1. DOMAIN seq = 1..Len(seq) /\ Len(seq) \in Nat
    OBVIOUS
  <2> QED BY <2>1, FS_Interval
<1>2. {i \in DOMAIN seq : seq[i] = x} \in SUBSET DOMAIN seq
  OBVIOUS
<1>3. IsFiniteSet({i \in DOMAIN seq : seq[i] = x})
  BY <1>1, <1>2, FS_Subset
<1> QED BY <1>3, FS_CardinalityType DEF Count

LEMMA ExcessesAreNumbers ==
  ASSUME NEW S, NEW expected \in Seq(S), NEW actual \in Seq(S)
  PROVE  /\ Excesses(expected, actual) \in Seq(Int)
         /\ Len(Excesses(expected, actual)) = Len(actual)
<1> DEFINE f == Excesses(expected, actual)
<1>1. Len(actual) \in Nat /\ DOMAIN actual = 1..Len(actual)
  OBVIOUS
<1>2. \A x : Count(actual, x) \in Nat /\ Count(expected, x) \in Nat
  BY CountsAreNumbers
<1>3. f \in [1..Len(actual) -> Int]
  BY <1>1, <1>2 DEF Excesses, Larger
<1> HIDE DEF f
<1>4. f \in Seq(Int) /\ Len(f) = Len(actual)
  BY <1>1, <1>3
<1> QED BY <1>4 DEF f

LEMMA EnoughIsMany ==
  ASSUME NEW S, NEW expected \in Seq(S), NEW actual \in Seq(S), NEW drop,
         Enough(expected, actual, drop)
  PROVE  UnnecessaryCalls(expected, actual) <= Cardinality(drop)
<1> DEFINE m == Len(actual)
           f == Excesses(expected, actual)
           g == ByTool(actual, drop)
<1>1. m \in Nat /\ DOMAIN actual = 1..m /\ drop \in SUBSET DOMAIN actual
  BY DEF Enough
<1>2. IsFiniteSet(1..m)
  BY <1>1, FS_Interval
<1>3. f \in Seq(Int) /\ Len(f) = m
  BY ExcessesAreNumbers
<1>4. g \in Seq(Int) /\ Len(g) = m /\ Total(g) = Cardinality(drop)
  BY <1>1, ByToolCounts
<1>5. ASSUME NEW i \in 1..m PROVE f[i] <= g[i]
  <2> DEFINE Called == {j \in DOMAIN actual : actual[j] = actual[i]}
             Dropped == {j \in drop : actual[j] = actual[i]}
             Stay == {j \in DOMAIN actual \ drop : actual[j] = actual[i]}
  <2>1. Called = Dropped \cup Stay /\ Dropped \cap Stay = {}
    BY <1>1
  <2>2. Dropped \in SUBSET (1..m) /\ Stay \in SUBSET (1..m)
    BY <1>1
  <2>3. IsFiniteSet(Dropped) /\ IsFiniteSet(Stay)
    BY <2>2, <1>2, FS_Subset
  <2>4. Cardinality(Dropped) \in Nat /\ Cardinality(Stay) \in Nat
    BY <2>3, FS_CardinalityType
  <2>5. Cardinality(Called) = Cardinality(Dropped) + Cardinality(Stay)
    <3> HIDE DEF Called, Dropped, Stay
    <3> QED BY <2>1, <2>3, Disjoint
  <2>6. Cardinality(Stay) <= Count(expected, actual[i]) /\ Cardinality(Called) = Count(actual, actual[i])
    BY <1>1 DEF Enough, Count
  <2>7. Count(expected, actual[i]) \in Nat
    BY CountsAreNumbers
  <2> DEFINE earlier == \E k \in 1..(i - 1) : actual[k] = actual[i]
  <2>8. /\ f[i] = IF earlier THEN 0
                  ELSE Larger(0, Count(actual, actual[i]) - Count(expected, actual[i]))
        /\ g[i] = IF earlier THEN 0 ELSE Cardinality(Dropped)
    BY <1>1 DEF Excesses, ByTool
  <2> HIDE DEF f, g, Called, Dropped, Stay, earlier
  <2> QED BY <2>4, <2>5, <2>6, <2>7, <2>8 DEF Larger
<1>6. Total(f) <= Total(g)
  <2> HIDE DEF f, g
  <2> QED BY <1>3, <1>4, <1>5, TotalMonotone
<1>7. UnnecessaryCalls(expected, actual) = Total(f)
  BY DEF UnnecessaryCalls, Excesses
<1> QED BY <1>4, <1>6, <1>7

\* The rank of a among the numbers of S.
NumberRank(S, a) == Cardinality({b \in S : b <= a})

\* A set of numbers is counted through in order.
LEMMA NumberRanks ==
  ASSUME NEW S \in SUBSET Int, IsFiniteSet(S)
  PROVE  /\ Cardinality(S) \in Nat
         /\ \A a \in S : NumberRank(S, a) \in 1..Cardinality(S)
         /\ \A a, b \in S : NumberRank(S, a) <= NumberRank(S, b) <=> a <= b
         /\ \A k \in 1..Cardinality(S) : \E a \in S : NumberRank(S, a) = k
<1> DEFINE R == {x \in S \X S : x[1] <= x[2]}
<1>1. \A a, b \in S : <<a, b>> \in R <=> a <= b
  OBVIOUS
<1>2. \A a \in S : {b \in S : <<b, a>> \in R} = {b \in S : b <= a}
  BY <1>1
<1>3. \A a \in S : RankIn(S, R, a) = NumberRank(S, a)
  BY <1>2 DEF RankIn, NumberRank
<1> HIDE DEF R
<1>4. IsOrder(S, R)
  BY <1>1 DEF IsOrder
<1>5. InOrder(S, R)
  BY <1>4, RanksInOrder
<1>6. Cardinality(S) \in Nat
  BY FS_CardinalityType
<1>7. \A k \in 1..Cardinality(S) : \E a \in S : NumberRank(S, a) = k
  BY <1>3, <1>5 DEF InOrder
<1>8. \A a \in S : NumberRank(S, a) \in 1..Cardinality(S)
  BY <1>3, <1>5 DEF InOrder
<1>9. ASSUME NEW a \in S, NEW b \in S
      PROVE  NumberRank(S, a) <= NumberRank(S, b) <=> a <= b
  <2>1. NumberRank(S, a) = RankIn(S, R, a) /\ NumberRank(S, b) = RankIn(S, R, b)
    BY <1>3
  <2>2. <<a, b>> \in R <=> a <= b
    BY <1>1
  <2>3. RankIn(S, R, a) <= RankIn(S, R, b) <=> <<a, b>> \in R
    BY <1>5 DEF InOrder
  <2> QED BY <2>1, <2>2, <2>3
<1> QED BY <1>6, <1>7, <1>8, <1>9

LEMMA RanksDiffer ==
  ASSUME NEW S \in SUBSET Int, IsFiniteSet(S), NEW a \in S, NEW b \in S,
         NumberRank(S, a) = NumberRank(S, b)
  PROVE  a = b
<1>1. NumberRank(S, a) \in Int /\ a \in Int /\ b \in Int
  BY NumberRanks
<1>2. a <= b /\ b <= a
  BY <1>1, NumberRanks
<1> QED BY <1>1, <1>2

Above(S, e) == {a \in S : NumberRank(S, a) > e}

UpTo(S, e) == {a \in S : NumberRank(S, a) <= e}

\* Those of rank above e, and those of rank up to e.
LEMMA RanksAbove ==
  ASSUME NEW S \in SUBSET Int, IsFiniteSet(S), NEW e \in Nat
  PROVE  /\ Cardinality(Above(S, e)) = Larger(0, Cardinality(S) - e)
         /\ Cardinality(UpTo(S, e)) <= e
<1> DEFINE n == Cardinality(S)
           f == [a \in S |-> NumberRank(S, a)]
<1>1. n \in Nat
  BY FS_CardinalityType
<1>2. f \in [S -> 1..n] /\ \A k \in 1..n : \E a \in S : f[a] = k
  BY NumberRanks
<1>3. \A a, b \in S : f[a] = f[b] => a = b
  BY RanksDiffer
<1>4. \A a \in S : f[a] \in Int /\ f[a] >= 1 /\ f[a] <= n
  BY <1>1, <1>2
<1>5. /\ \A a : a \in Above(S, e) <=> a \in S /\ f[a] > e
      /\ \A a : a \in UpTo(S, e) <=> a \in S /\ f[a] <= e
  BY DEF Above, UpTo
<1> HIDE DEF f, n
<1>6. Cardinality(Above(S, e)) = Larger(0, n - e)
  <2> DEFINE A == Above(S, e)
             g == [a \in A |-> f[a]]
             T == (e + 1)..n
  <2>1. IsFiniteSet(T) /\ Cardinality(T) = Larger(0, n - e)
    <3>1. e + 1 \in Int /\ n \in Int
      BY <1>1
    <3>2. IsFiniteSet(T) /\ Cardinality(T) = IF e + 1 > n THEN 0 ELSE n - (e + 1) + 1
      BY <3>1, FS_Interval
    <3> HIDE DEF T
    <3> QED BY <3>2, <1>1 DEF Larger
  <2>2. ASSUME NEW a \in A PROVE a \in S /\ f[a] \in T
    <3>1. a \in S /\ f[a] \in Int /\ 1 <= f[a] /\ f[a] <= n
      BY <1>4, <1>5
    <3> QED BY <3>1, <1>1, <1>5
  <2>3. \A k \in T : \E a \in A : f[a] = k
    <3>1. \A k \in T : k \in 1..n /\ k > e
      BY <1>1
    <3> QED BY <3>1, <1>2, <1>5
  <2> HIDE DEF A, T
  <2>4. g \in Injection(A, T)
    BY <2>2, <1>3 DEF Injection, IsInjective
  <2>5. g \in Surjection(A, T)
    BY <2>2, <2>3 DEF Surjection
  <2>6. Cardinality(A) = Cardinality(T)
    <3> HIDE DEF g
    <3> QED BY <2>1, <2>4, <2>5, FS_Injection
  <2> QED BY <2>1, <2>6 DEF A
<1>7. Cardinality(UpTo(S, e)) <= e
  <2> DEFINE A == UpTo(S, e)
             g == [a \in A |-> f[a]]
             T == 1..e
  <2>1. IsFiniteSet(T) /\ Cardinality(T) = e
    BY FS_Interval
  <2>2. ASSUME NEW a \in A PROVE a \in S /\ f[a] \in T
    <3>1. a \in S /\ f[a] \in Int /\ 1 <= f[a] /\ f[a] <= n
      BY <1>4, <1>5
    <3> QED BY <3>1, <1>1, <1>5
  <2> HIDE DEF A, T
  <2>3. g \in Injection(A, T)
    BY <2>2, <1>3 DEF Injection, IsInjective
  <2>4. Cardinality(A) <= Cardinality(T)
    <3> HIDE DEF g
    <3> QED BY <2>1, <2>3, FS_Injection
  <2> QED BY <2>1, <2>4 DEF A
<1> QED BY <1>6, <1>7 DEF n

\* Dropping the calls beyond the expected number of their tool is enough, and
\* takes as many as are unnecessary.
LEMMA FewestAreEnough ==
  ASSUME NEW S, NEW expected \in Seq(S), NEW actual \in Seq(S)
  PROVE  \E drop : /\ Enough(expected, actual, drop)
                   /\ Cardinality(drop) = UnnecessaryCalls(expected, actual)
<1> DEFINE m == Len(actual)
           Called(x) == {j \in DOMAIN actual : actual[j] = x}
           drop == {i \in DOMAIN actual :
                      i \in Above(Called(actual[i]), Count(expected, actual[i]))}
           f == Excesses(expected, actual)
           g == ByTool(actual, drop)
<1>1. m \in Nat /\ DOMAIN actual = 1..m /\ drop \in SUBSET DOMAIN actual
  OBVIOUS
<1>2. ASSUME NEW i \in 1..m
      PROVE  /\ Cardinality({j \in drop : actual[j] = actual[i]})
                  = Larger(0, Count(actual, actual[i]) - Count(expected, actual[i]))
             /\ Cardinality({j \in DOMAIN actual \ drop : actual[j] = actual[i]})
                  <= Count(expected, actual[i])
  <2> DEFINE C == Called(actual[i])
             e == Count(expected, actual[i])
  <2>1. C \in SUBSET Int /\ IsFiniteSet(C)
    <3>1. C \in SUBSET (1..m) /\ IsFiniteSet(1..m)
      BY <1>1, FS_Interval
    <3> QED BY <3>1, FS_Subset
  <2>2. e \in Nat /\ Cardinality(C) = Count(actual, actual[i])
    BY CountsAreNumbers DEF Count
  <2>3. \A j \in C : j \in drop <=> j \in Above(C, e)
    OBVIOUS
  <2>4. \A j \in C : NumberRank(C, j) \in Int
    <3> HIDE DEF C
    <3> QED BY <2>1, NumberRanks
  <2>5. /\ {j \in drop : actual[j] = actual[i]} = Above(C, e)
        /\ {j \in DOMAIN actual \ drop : actual[j] = actual[i]} = UpTo(C, e)
    <3>1. /\ {j \in drop : actual[j] = actual[i]} = {j \in C : j \in drop}
          /\ {j \in DOMAIN actual \ drop : actual[j] = actual[i]} = {j \in C : j \notin drop}
      OBVIOUS
    <3> HIDE DEF C, e, drop
    <3>2. {j \in C : j \in drop} = Above(C, e)
      BY <2>3 DEF Above
    <3>3. {j \in C : j \notin drop} = UpTo(C, e)
      BY <2>2, <2>3, <2>4 DEF Above, UpTo
    <3> QED BY <3>1, <3>2, <3>3
  <2>6. /\ Cardinality(Above(C, e)) = Larger(0, Cardinality(C) - e)
        /\ Cardinality(UpTo(C, e)) <= e
    <3> HIDE DEF C, e
    <3> QED BY <2>1, <2>2, RanksAbove
  <2> QED BY <2>2, <2>5, <2>6
<1> HIDE DEF drop
<1>3. Enough(expected, actual, drop)
  BY <1>1, <1>2 DEF Enough
<1>4. f = g
  BY <1>1, <1>2 DEF Excesses, ByTool
<1>5. Total(g) = Cardinality(drop)
  BY <1>1, ByToolCounts
<1>6. UnnecessaryCalls(expected, actual) = Total(f)
  BY DEF UnnecessaryCalls, Excesses
<1> QED BY <1>3, <1>4, <1>5, <1>6

\* A call that is not needed is no match.
LEMMA MatchesAreNeeded ==
  ASSUME NEW S, NEW expected \in Seq(S), NEW actual \in Seq(S), NEW n \in Nat,
         Shared(expected, actual, Len(expected), Len(actual), n)
  PROVE  n + UnnecessaryCalls(expected, actual) <= Len(actual)
<1> DEFINE m == Len(actual)
<1>1. m \in Nat /\ DOMAIN actual = 1..m /\ Len(expected) \in Nat
      /\ DOMAIN expected = 1..Len(expected)
  OBVIOUS
<1>2. PICK p, q : /\ Rising(p, n, Len(expected)) /\ Rising(q, n, m)
                  /\ \A k \in 1..n : expected[p[k]] = actual[q[k]]
  BY DEF Shared
<1>3. /\ p \in [1..n -> DOMAIN expected] /\ \A a, b \in 1..n : p[a] = p[b] => a = b
      /\ q \in [1..n -> DOMAIN actual] /\ \A a, b \in 1..n : q[a] = q[b] => a = b
  <2>1. \A a, b \in 1..n : a # b => p[a] # p[b] /\ q[a] # q[b]
    <3>1. \A a, b \in 1..n : a < b => p[a] < p[b] /\ p[a] \in Int /\ q[a] < q[b] /\ q[a] \in Int
      BY <1>2 DEF Rising
    <3>2. \A a, b \in 1..n : a # b => a < b \/ b < a
      OBVIOUS
    <3> QED BY <3>1, <3>2
  <2> QED BY <1>1, <1>2, <2>1 DEF Rising
<1> DEFINE matched == {q[k] : k \in 1..n}
           drop == (DOMAIN actual) \ matched
           all == 1..m
           pairs == 1..n
<1>4. /\ matched \in SUBSET all
      /\ IsFiniteSet(all) /\ Cardinality(all) = m
      /\ IsFiniteSet(pairs) /\ Cardinality(pairs) = n
  <2>1. matched \in SUBSET all
    BY <1>1, <1>3
  <2>2. IsFiniteSet(all) /\ Cardinality(all) = m
    <3> HIDE DEF m
    <3> QED BY <1>1, FS_Interval
  <2>3. IsFiniteSet(pairs) /\ Cardinality(pairs) = n
    BY FS_Interval
  <2> QED BY <2>1, <2>2, <2>3
<1>5. IsFiniteSet(matched) /\ Cardinality(matched) = n
  <2>1. q \in Surjection(pairs, matched)
    BY <1>3 DEF Surjection
  <2>2. q \in Injection(pairs, matched)
    BY <1>3 DEF Injection, IsInjective
  <2> HIDE DEF matched, pairs
  <2> QED BY <2>1, <2>2, <1>4, FS_Surjection
<1>6. IsFiniteSet(drop) /\ Cardinality(drop) = m - n
  <2>1. drop = all \ matched
    BY <1>1
  <2> HIDE DEF matched, all, drop
  <2>2. all \cap matched = matched
    BY <1>4
  <2>3. IsFiniteSet(drop) /\ Cardinality(drop) = Cardinality(all) - Cardinality(all \cap matched)
    BY <2>1, <1>4, FS_Difference
  <2> QED BY <2>2, <2>3, <1>4, <1>5
<1>7. ASSUME NEW i \in DOMAIN actual
      PROVE  Cardinality({j \in DOMAIN actual \ drop : actual[j] = actual[i]})
               <= Count(expected, actual[i])
  <2> DEFINE x == actual[i]
             A == {j \in DOMAIN actual \ drop : actual[j] = x}
             B == {j \in DOMAIN expected : expected[j] = x}
             K(j) == CHOOSE k \in 1..n : q[k] = j
             f == [j \in A |-> p[K(j)]]
  <2>1. \A j \in A : K(j) \in 1..n /\ q[K(j)] = j
    OBVIOUS
  <2> HIDE DEF K
  <2>2. \A j \in A : f[j] \in B
    <3>1. \A j \in A : p[K(j)] \in DOMAIN expected /\ expected[p[K(j)]] = x
      BY <2>1, <1>2, <1>3
    <3> QED BY <3>1
  <2>3. ASSUME NEW a \in A, NEW b \in A, f[a] = f[b] PROVE a = b
    <3>1. K(a) = K(b)
      BY <2>1, <2>3, <1>3
    <3> QED BY <3>1, <2>1
  <2>4. f \in Injection(A, B)
    <3>1. f \in [A -> B]
      BY <2>2
    <3>2. \A a, b \in A : f[a] = f[b] => a = b
      BY <2>3
    <3> HIDE DEF f, A, B
    <3> QED BY <3>1, <3>2 DEF Injection, IsInjective
  <2>5. IsFiniteSet(B)
    <3>1. B \in SUBSET (1..Len(expected)) /\ IsFiniteSet(1..Len(expected))
      BY <1>1, FS_Interval
    <3> QED BY <3>1, FS_Subset
  <2>6. Cardinality(A) <= Cardinality(B)
    <3> HIDE DEF A, B, f
    <3> QED BY <2>4, <2>5, FS_Injection
  <2> QED BY <2>6 DEF Count
<1>8. Enough(expected, actual, drop)
  BY <1>7 DEF Enough
<1>9. UnnecessaryCalls(expected, actual) <= m - n
  <2> HIDE DEF drop
  <2>1. UnnecessaryCalls(expected, actual) <= Cardinality(drop)
    BY <1>8, EnoughIsMany
  <2> QED BY <1>6, <2>1
<1>10. UnnecessaryCalls(expected, actual) \in Int
  <2> DEFINE f == Excesses(expected, actual)
  <2>1. UnnecessaryCalls(expected, actual) = Total(f)
    BY DEF UnnecessaryCalls, Excesses
  <2>2. f \in Seq(Int)
    BY ExcessesAreNumbers
  <2> HIDE DEF f
  <2>3. \A k \in 1..Len(f) : f[k] <= f[k]
    BY <2>2
  <2> QED BY <2>1, <2>2, <2>3, TotalMonotone
<1> QED BY <1>1, <1>9, <1>10

-----------------------------------------------------------------------------
(* nearest_rank_percentile *)

\* The measurements that do not exceed v.
UpToValue(values, v) == {i \in DOMAIN values : values[i] <= v}

LEMMA SortedByRank ==
  ASSUME NEW values \in Seq(Int), NEW k \in DOMAIN values
  PROVE  \E i \in DOMAIN values :
           /\ Sorted(values)[k] = values[i]
           /\ k <= Cardinality(UpToValue(values, values[i]))
           /\ \A w \in Int : w < values[i] => Cardinality(UpToValue(values, w)) < k
<1> DEFINE S == DOMAIN values
           R == {x \in S \X S : \/ values[x[1]] < values[x[2]]
                                \/ values[x[1]] = values[x[2]] /\ x[1] <= x[2]}
           Before(i) == {j \in S : <<j, i>> \in R}
<1>1. S = 1..Len(values) /\ Len(values) \in Nat /\ \A i \in S : values[i] \in Int
  OBVIOUS
<1>2. IsFiniteSet(S) /\ Cardinality(S) = Len(values)
  <2> DEFINE m == Len(values)
  <2> HIDE DEF m
  <2>1. m \in Nat => IsFiniteSet(1..m) /\ Cardinality(1..m) = m
    BY FS_Interval
  <2> QED BY <2>1, <1>1 DEF m
<1>3. \A i, j \in S : <<i, j>> \in R <=> \/ values[i] < values[j]
                                         \/ values[i] = values[j] /\ i <= j
  OBVIOUS
<1>4. \A i \in S : Rank(values, i) = RankIn(S, R, i) /\ RankIn(S, R, i) = Cardinality(Before(i))
  <2>1. \A i \in S : {j \in S : \/ values[j] < values[i]
                                \/ values[j] = values[i] /\ j <= i} = Before(i)
    BY <1>3
  <2> QED BY <2>1 DEF Rank, RankIn
<1> HIDE DEF R
<1>5. IsOrder(S, R)
  <2>1. \A a, b \in S : a \in Int /\ b \in Int /\ values[a] \in Int /\ values[b] \in Int
    BY <1>1
  <2> HIDE DEF S
  <2>2. ASSUME NEW a \in S, NEW b \in S
        PROVE  /\ <<a, a>> \in R
               /\ <<a, b>> \in R \/ <<b, a>> \in R
               /\ <<a, b>> \in R /\ <<b, a>> \in R => a = b
    BY <1>3, <2>1, SMTT(20)
  <2>3. ASSUME NEW a \in S, NEW b \in S, NEW c \in S, <<a, b>> \in R, <<b, c>> \in R
        PROVE  <<a, c>> \in R
    <3>1. \/ values[a] < values[b]
          \/ values[a] = values[b] /\ a <= b
      BY <1>3, <2>3
    <3>2. \/ values[b] < values[c]
          \/ values[b] = values[c] /\ b <= c
      BY <1>3, <2>3
    <3>3. \/ values[a] < values[c]
          \/ values[a] = values[c] /\ a <= c
      BY <3>1, <3>2, <2>1
    <3> QED BY <3>3, <1>3
  <2> QED BY <2>2, <2>3 DEF IsOrder
<1>6. InOrder(S, R)
  BY <1>2, <1>5, RanksInOrder
<1>7. k \in 1..Cardinality(S)
  BY <1>1, <1>2
<1> DEFINE i == CHOOSE i \in S : Rank(values, i) = k
<1>8. i \in S /\ Rank(values, i) = k
  <2>1. \E a \in S : RankIn(S, R, a) = k
    BY <1>6, <1>7 DEF InOrder
  <2> QED BY <2>1, <1>4
<1>9. Sorted(values)[k] = values[i]
  BY DEF Sorted
<1> HIDE DEF i
<1>10. Before(i) \in SUBSET S /\ Cardinality(Before(i)) = k
  BY <1>4, <1>8
<1>11. ASSUME NEW w \in Int
       PROVE  IsFiniteSet(UpToValue(values, w)) /\ Cardinality(UpToValue(values, w)) \in Nat
  <2>1. UpToValue(values, w) \in SUBSET S
    BY DEF UpToValue
  <2> QED BY <2>1, <1>2, FS_Subset, FS_CardinalityType
<1>12. k <= Cardinality(UpToValue(values, values[i]))
  <2>1. Before(i) \in SUBSET UpToValue(values, values[i])
    BY <1>1, <1>3, <1>8 DEF UpToValue
  <2>2. values[i] \in Int
    BY <1>1, <1>8
  <2> QED BY <2>1, <2>2, <1>10, <1>11, FS_Subset
<1>13. ASSUME NEW w \in Int, w < values[i]
       PROVE  Cardinality(UpToValue(values, w)) < k
  <2>1. values[i] \in Int /\ \A j \in UpToValue(values, w) : j \in S /\ values[j] < values[i]
    BY <1>1, <1>8, <1>13 DEF UpToValue
  <2>2. UpToValue(values, w) \in SUBSET Before(i)
    BY <2>1, <1>3, <1>8
  <2>3. i \in Before(i) /\ i \notin UpToValue(values, w)
    BY <2>1, <1>3, <1>8
  <2>4. IsFiniteSet(Before(i))
    BY <1>2, <1>10, FS_Subset
  <2>5. Cardinality(UpToValue(values, w)) <= k /\ Cardinality(UpToValue(values, w)) # k
    BY <2>2, <2>3, <2>4, <1>10, FS_Subset
  <2> QED BY <2>5, <1>7, <1>11
<1> QED BY <1>8, <1>9, <1>12, <1>13

\* As a share of a hundred.
Covers(values, percent, v) ==
  100 * Cardinality(UpToValue(values, v)) >= percent * Len(values)

\* A percentile is the least value that covers its share.
LEMMA PercentileIsLeast ==
  ASSUME NEW values \in Seq(Int), values # <<>>, NEW percent \in 1..100
  PROVE  /\ Percentile(values, percent) \in {values[i] : i \in DOMAIN values}
         /\ Covers(values, percent, Percentile(values, percent))
         /\ \A w \in Int : Covers(values, percent, w) => Percentile(values, percent) <= w
<1> DEFINE n == Len(values)
           share == percent * n
           k == CeilPercent(percent, n)
           v == Percentile(values, percent)
<1>1. n \in Nat /\ n >= 1 /\ DOMAIN values = 1..n /\ \A i \in DOMAIN values : values[i] \in Int
  OBVIOUS
<1>2. share \in Int /\ 1 <= share /\ share <= 100 * n
  <2> HIDE DEF n
  <2>1. share \in Int
    BY <1>1
  <2>2. 1 <= share /\ share <= 100 * n
    BY <1>1
  <2> QED BY <2>1, <2>2
<1>3. k \in 1..n /\ 100 * k >= share /\ 100 * (k - 1) < share
  <2>1. k = (share + 99) \div 100
    BY DEF CeilPercent
  <2> HIDE DEF n, share, k
  <2> QED BY <2>1, <1>1, <1>2
<1>4. v = Sorted(values)[k]
  BY DEF Percentile
<1>5. PICK i \in DOMAIN values :
        /\ Sorted(values)[k] = values[i]
        /\ k <= Cardinality(UpToValue(values, values[i]))
        /\ \A w \in Int : w < values[i] => Cardinality(UpToValue(values, w)) < k
  <2> HIDE DEF k
  <2>1. k \in DOMAIN values
    BY <1>1, <1>3
  <2> QED BY <2>1, SortedByRank
<1> HIDE DEF k, v, share
<1>6. ASSUME NEW w PROVE Cardinality(UpToValue(values, w)) \in Nat
  <2> DEFINE m == n
  <2>1. IsFiniteSet(1..m)
    <3> HIDE DEF m, n
    <3>1. m \in Nat
      BY <1>1 DEF m
    <3> QED BY <3>1, FS_Interval
  <2>2. UpToValue(values, w) \in SUBSET (1..n)
    BY <1>1 DEF UpToValue
  <2> QED BY <2>1, <2>2, FS_Subset, FS_CardinalityType
<1>7. Covers(values, percent, v)
  <2>1. 100 * Cardinality(UpToValue(values, v)) >= share
    <3>1. Cardinality(UpToValue(values, v)) \in Nat /\ k <= Cardinality(UpToValue(values, v))
      BY <1>4, <1>5, <1>6
    <3> HIDE DEF n
    <3> QED BY <3>1, <1>1, <1>2, <1>3
  <2> QED BY <2>1 DEF Covers, share
<1>8. ASSUME NEW w \in Int, Covers(values, percent, w) PROVE v <= w
  <2>1. SUFFICES ASSUME w < v PROVE FALSE
    <3>1. v \in Int
      BY <1>1, <1>4, <1>5
    <3> QED BY <3>1
  <2>2. Cardinality(UpToValue(values, w)) < k /\ Cardinality(UpToValue(values, w)) \in Nat
    BY <2>1, <1>4, <1>5, <1>6
  <2>3. 100 * Cardinality(UpToValue(values, w)) >= share
    BY <1>8 DEF Covers, share
  <2> HIDE DEF n
  <2> QED BY <2>2, <2>3, <1>1, <1>2, <1>3
<1> QED BY <1>4, <1>5, <1>7, <1>8 DEF v

-----------------------------------------------------------------------------
(* Counting by parts *)

\* f counts the n parts of P, which are disjoint.
CountsParts(f, P, n) ==
  /\ f \in Seq(Int) /\ Len(f) = n
  /\ \A i \in 1..n : IsFiniteSet(P[i]) /\ f[i] = Cardinality(P[i])
  /\ \A i, j \in 1..n : i # j => P[i] \cap P[j] = {}

LEMMA TotalOfParts ==
  ASSUME NEW n \in Nat, NEW P, NEW f, CountsParts(f, P, n)
  PROVE  /\ IsFiniteSet(UNION {P[i] : i \in 1..n})
         /\ Total(f) = Cardinality(UNION {P[i] : i \in 1..n})
<1> DEFINE U(k) == UNION {P[i] : i \in 1..k}
           T == {k \in Nat : k <= n => IsFiniteSet(U(k)) /\ \A s : Sums(s, f) =>
                                         s[k] = Cardinality(U(k))}
<1>0. /\ f \in Seq(Int) /\ Len(f) = n
      /\ \A i \in 1..n : IsFiniteSet(P[i]) /\ f[i] = Cardinality(P[i])
      /\ \A i, j \in 1..n : i # j => P[i] \cap P[j] = {}
  BY DEF CountsParts
<1>1. 0 \in T
  <2>1. U(0) = {}
    OBVIOUS
  <2>2. IsFiniteSet(U(0)) /\ Cardinality(U(0)) = 0
    BY <2>1, FS_EmptySet
  <2> HIDE DEF U
  <2> QED BY <1>0, <2>2 DEF Sums
<1>2. ASSUME NEW k \in Nat, k \in T PROVE k + 1 \in T
  <2> SUFFICES ASSUME k + 1 <= n
               PROVE  /\ IsFiniteSet(U(k + 1))
                      /\ \A s : Sums(s, f) => s[k + 1] = Cardinality(U(k + 1))
    OBVIOUS
  <2>1. k + 1 \in 1..n /\ k <= n /\ (k + 1) - 1 = k
    OBVIOUS
  <2>2. IsFiniteSet(U(k)) /\ \A s : Sums(s, f) => s[k] = Cardinality(U(k))
    BY <1>2, <2>1
  <2>3. U(k + 1) = U(k) \cup P[k + 1]
    <3>1. 1..(k + 1) = (1..k) \cup {k + 1}
      OBVIOUS
    <3> QED BY <3>1
  <2>4. U(k) \cap P[k + 1] = {}
    <3>1. \A i \in 1..k : i \in 1..n /\ i # k + 1
      BY <2>1
    <3>2. \A i \in 1..k : P[i] \cap P[k + 1] = {}
      BY <1>0, <2>1, <3>1
    <3> QED BY <3>2
  <2>5. IsFiniteSet(P[k + 1]) /\ f[k + 1] = Cardinality(P[k + 1])
    BY <1>0, <2>1
  <2> HIDE DEF U
  <2>6. /\ IsFiniteSet(U(k + 1))
        /\ Cardinality(U(k + 1)) = Cardinality(U(k)) + Cardinality(P[k + 1])
    <3>1. PICK A, B : A = U(k) /\ B = P[k + 1]
      OBVIOUS
    <3>2. IsFiniteSet(A) /\ IsFiniteSet(B) /\ A \cap B = {}
      BY <2>2, <2>4, <2>5, <3>1
    <3>3. IsFiniteSet(A \cup B)
      BY <3>2, FS_Union
    <3>4. Cardinality(A \cup B) = Cardinality(A) + Cardinality(B)
      BY <3>2, Disjoint
    <3> QED BY <2>3, <3>1, <3>3, <3>4
  <2>7. ASSUME NEW s, Sums(s, f) PROVE s[k + 1] = s[k] + f[k + 1]
    BY <1>0, <2>1, <2>7 DEF Sums
  <2> QED BY <2>2, <2>5, <2>6, <2>7
<1>3. n \in T
  <2> HIDE DEF T
  <2> QED BY <1>1, <1>2, Induct
<1>4. PICK s : Sums(s, f) /\ Total(f) = s[n]
  BY <1>0, TotalSums
<1> HIDE DEF U
<1>5. IsFiniteSet(U(n)) /\ s[n] = Cardinality(U(n))
  BY <1>3, <1>4
<1> QED BY <1>4, <1>5 DEF U

\* A one-to-one function counts its arguments.
LEMMA ImageCounts ==
  ASSUME NEW f, NEW S, IsFiniteSet(S),
         \A x, y \in S : f[x] = f[y] => x = y
  PROVE  /\ IsFiniteSet({f[x] : x \in S})
         /\ Cardinality({f[x] : x \in S}) = Cardinality(S)
<1> DEFINE T == {f[x] : x \in S}
           g == [x \in S |-> f[x]]
<1>1. g \in Bijection(S, T)
  BY DEF Bijection, Injection, Surjection, IsInjective
<1>2. ExistsBijection(S, T)
  BY <1>1 DEF ExistsBijection
<1> QED BY <1>2, FS_Bijection

\* f matches the members of S with those of T.
Matches(f, S, T) ==
  /\ \A x \in S : f[x] \in T
  /\ \A y \in T : \E x \in S : y = f[x]
  /\ \A x, y \in S : f[x] = f[y] => x = y

LEMMA MatchedCounts ==
  ASSUME NEW f, NEW S, NEW T, IsFiniteSet(T), Matches(f, S, T)
  PROVE  IsFiniteSet(S) /\ Cardinality(S) = Cardinality(T)
<1> DEFINE g == [x \in S |-> f[x]]
<1>1. g \in Injection(S, T) /\ g \in Surjection(S, T)
  BY DEF Matches, Injection, Surjection, IsInjective
<1> QED BY <1>1, FS_Injection

\* The pairs of i and a member of S.
PairsWith(i, S) == {<<i, x>> : x \in S}

LEMMA PairCounts ==
  ASSUME NEW i, NEW S, IsFiniteSet(S)
  PROVE  /\ IsFiniteSet(PairsWith(i, S))
         /\ Cardinality(PairsWith(i, S)) = Cardinality(S)
<1> DEFINE g == [f \in S |-> <<i, f>>]
<1>1. PairsWith(i, S) = {g[f] : f \in S}
  BY DEF PairsWith
<1>2. \A f, h \in S : g[f] = g[h] => f = h
  OBVIOUS
<1> HIDE DEF g
<1> QED BY <1>1, <1>2, ImageCounts

\* The pairs of a case and a member of its part.
Pairs(n, A) == UNION {PairsWith(i, A[i]) : i \in 1..n}

LEMMA PairsCounted ==
  ASSUME NEW n \in Nat, NEW A, \A i \in 1..n : IsFiniteSet(A[i]),
         NEW f, DOMAIN f = 1..n, f = [i \in 1..n |-> f[i]],
         \A i \in 1..n : f[i] = Cardinality(A[i])
  PROVE  /\ f \in Seq(Int) /\ Len(f) = n
         /\ IsFiniteSet(Pairs(n, A)) /\ Total(f) = Cardinality(Pairs(n, A))
<1> DEFINE P == [i \in 1..n |-> PairsWith(i, A[i])]
<1>1. ASSUME NEW i \in 1..n
      PROVE  IsFiniteSet(P[i]) /\ Cardinality(P[i]) = Cardinality(A[i])
  <2>1. PICK B : B = A[i] /\ IsFiniteSet(B)
    OBVIOUS
  <2>2. IsFiniteSet(PairsWith(i, B)) /\ Cardinality(PairsWith(i, B)) = Cardinality(B)
    BY <2>1, PairCounts
  <2>3. P[i] = PairsWith(i, B)
    BY <2>1
  <2> HIDE DEF P
  <2> QED BY <2>1, <2>2, <2>3
<1>2. \A i \in 1..n : f[i] \in Int
  BY FS_CardinalityType
<1>3. f \in Seq(Int) /\ Len(f) = n
  <2>1. f \in [1..n -> Int]
    BY <1>2
  <2> QED BY <2>1
<1>4. \A i, j \in 1..n : i # j => P[i] \cap P[j] = {}
  BY DEF PairsWith
<1>5. Pairs(n, A) = UNION {P[i] : i \in 1..n}
  BY DEF Pairs
<1> HIDE DEF P
<1>6. \A i \in 1..n : IsFiniteSet(P[i]) /\ f[i] = Cardinality(P[i])
  BY <1>1
<1>7. CountsParts(f, P, n)
  BY <1>3, <1>4, <1>6 DEF CountsParts
<1> QED BY <1>3, <1>5, <1>7, TotalOfParts

=============================================================================
