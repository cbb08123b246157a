--------------------------- MODULE EvidenceProofs ---------------------------
(***************************************************************************)
(* Proofs about what the gate makes of a report, for every suite and       *)
(* whatever its files hold: an honest report is taken as evidence, one     *)
(* that passes is earned, and of an edited one it takes no trace in which  *)
(* a gated call started before its approval or a call succeeded twice.     *)
(*                                                                         *)
(* Honest relates a run to its trace: where the run is, how far the reader *)
(* of TraceGate has come with the events written so far, and what it has   *)
(* collected.  Every step of a run keeps it; at the end of the run it says *)
(* that reading the trace (TraceClaims) finds what the runner filtered     *)
(* from it (Claims).  GradedInv and WrittenInv relate the counters of a    *)
(* report to the faults of the scenarios, one by one.  Heard says of any   *)
(* trace at all what the reader has listed of its first events.            *)
(***************************************************************************)
EXTENDS EvaluationProofs

-----------------------------------------------------------------------------
(* How the gate reads a trace, event by event *)

\* f holds the states of the reader after each of the first n events.
Reads(f, n, t, actions, mode) ==
  /\ f = [i \in 0..n |-> f[i]] /\ f[0] = Start
  /\ \A i \in 1..n : f[i] = Step(f[i - 1], t[i], actions, mode)

LEMMA ReadsExist ==
  ASSUME NEW t, NEW actions, NEW mode, NEW n \in Nat
  PROVE  \E f : Reads(f, n, t, actions, mode)
<1> DEFINE T == {k \in Nat : \E f : Reads(f, k, t, actions, mode)}
<1>1. 0 \in T
  <2> DEFINE f == [i \in 0..0 |-> Start]
  <2>1. Reads(f, 0, t, actions, mode)
    BY DEF Reads
  <2> QED BY <2>1
<1>2. ASSUME NEW k \in Nat, k \in T PROVE k + 1 \in T
  <2>1. PICK f : Reads(f, k, t, actions, mode)
    BY <1>2
  <2> DEFINE last == Step(f[k], t[k + 1], actions, mode)
             g == [i \in 0..(k + 1) |-> IF i = k + 1 THEN last ELSE f[i]]
  <2>2. g[k + 1] = last /\ \A i \in 0..k : g[i] = f[i]
    OBVIOUS
  <2>3. g = [i \in 0..(k + 1) |-> g[i]]
    OBVIOUS
  <2> HIDE DEF g
  <2>4. g[0] = Start
    BY <2>1, <2>2 DEF Reads
  <2>5. ASSUME NEW i \in 1..(k + 1) PROVE g[i] = Step(g[i - 1], t[i], actions, mode)
    <3>1. CASE i = k + 1
      BY <2>2, <3>1
    <3>2. CASE i \in 1..k
      <4>1. i \in 0..k /\ i - 1 \in 0..k
        BY <3>2
      <4> QED BY <2>1, <2>2, <3>2, <4>1 DEF Reads
    <3> QED BY <3>1, <3>2
  <2>6. Reads(g, k + 1, t, actions, mode)
    BY <2>3, <2>4, <2>5 DEF Reads
  <2> QED BY <2>6
<1> HIDE DEF T
<1>3. n \in T
  BY <1>1, <1>2, Induct
<1> QED BY <1>3 DEF T

LEMMA ReadsAgree ==
  ASSUME NEW actions, NEW mode, NEW n \in Nat, NEW k \in Nat, n <= k,
         NEW f, NEW g, NEW t, NEW u,
         Reads(f, n, t, actions, mode), Reads(g, k, u, actions, mode),
         \A i \in 1..n : t[i] = u[i]
  PROVE  f[n] = g[n]
<1> DEFINE T == {i \in Nat : i <= n => f[i] = g[i]}
<1>1. 0 \in T
  BY DEF Reads
<1>2. ASSUME NEW i \in Nat, i \in T PROVE i + 1 \in T
  <2> SUFFICES ASSUME i + 1 <= n PROVE f[i + 1] = g[i + 1]
    OBVIOUS
  <2>1. i + 1 \in 1..n /\ i + 1 \in 1..k /\ (i + 1) - 1 = i /\ f[i] = g[i]
    BY <1>2
  <2>2. /\ f[i + 1] = Step(f[i], t[i + 1], actions, mode)
        /\ g[i + 1] = Step(g[i], u[i + 1], actions, mode)
    BY <2>1 DEF Reads
  <2> QED BY <2>1, <2>2
<1> HIDE DEF T
<1>3. n \in T
  BY <1>1, <1>2, Induct
<1> QED BY <1>3 DEF T

LEMMA ReadIs ==
  ASSUME NEW t, NEW actions, NEW mode, Len(t) \in Nat
  PROVE  \E f : /\ Reads(f, Len(t), t, actions, mode)
                /\ Read(t, actions, mode) = f[Len(t)]
<1> DEFINE n == Len(t)
           Is(f) == f = [i \in 0..n |-> IF i = 0 THEN Start
                                        ELSE Step(f[i - 1], t[i], actions, mode)]
           r == CHOOSE f : Is(f)
<1>1. \E f : Reads(f, n, t, actions, mode)
  BY ReadsExist
<1>2. ASSUME NEW f, Reads(f, n, t, actions, mode) PROVE Is(f)
  <2>1. \A i \in 0..n : i = 0 \/ i \in 1..n
    OBVIOUS
  <2> QED BY <1>2, <2>1 DEF Reads
<1>3. ASSUME NEW f, Is(f) PROVE Reads(f, n, t, actions, mode)
  BY <1>3 DEF Reads
<1>4. Is(r)
  BY <1>1, <1>2
<1>5. Read(t, actions, mode) = r[n]
  BY DEF Read
<1> HIDE DEF r, Is
<1> QED BY <1>3, <1>4, <1>5

LEMMA ReadStarts ==
  ASSUME NEW actions, NEW mode
  PROVE  Read(<<>>, actions, mode) = Start
<1>1. Len(<<>>) = 0
  OBVIOUS
<1> QED BY <1>1, ReadIs DEF Reads

LEMMA ReadAppend ==
  ASSUME NEW S, NEW t \in Seq(S), NEW e, NEW actions, NEW mode
  PROVE  Read(Append(t, e), actions, mode)
           = Step(Read(t, actions, mode), e, actions, mode)
<1> DEFINE u == Append(t, e)
           n == Len(t)
<1>1. n \in Nat /\ Len(u) = n + 1 /\ u[n + 1] = e /\ \A i \in 1..n : t[i] = u[i]
  BY Appended
<1> HIDE DEF u, n
<1>2. PICK f : /\ Reads(f, n, t, actions, mode)
               /\ Read(t, actions, mode) = f[n]
  BY <1>1, ReadIs DEF n
<1>3. PICK g : /\ Reads(g, n + 1, u, actions, mode)
               /\ Read(u, actions, mode) = g[n + 1]
  <2>1. Len(u) \in Nat
    BY <1>1
  <2> QED BY <1>1, <2>1, ReadIs
<1>4. f[n] = g[n]
  <2>1. n + 1 \in Nat /\ n <= n + 1
    BY <1>1
  <2> QED BY <1>1, <1>2, <1>3, <2>1, ReadsAgree
<1>5. g[n + 1] = Step(g[n], u[n + 1], actions, mode)
  <2>1. n + 1 \in 1..(n + 1) /\ (n + 1) - 1 = n
    BY <1>1
  <2> QED BY <1>3, <2>1 DEF Reads
<1> QED BY <1>1, <1>2, <1>3, <1>4, <1>5 DEF u

-----------------------------------------------------------------------------
(* Items at some positions *)

Picking(f, n, items, positions) ==
  /\ f = [i \in 0..n |-> f[i]] /\ f[0] = <<>>
  /\ \A i \in 1..n : f[i] = IF i \in positions THEN Append(f[i - 1], items[i])
                            ELSE f[i - 1]

LEMMA PickingExists ==
  ASSUME NEW items, NEW positions, NEW n \in Nat
  PROVE  \E f : Picking(f, n, items, positions)
<1> DEFINE T == {k \in Nat : \E f : Picking(f, k, items, positions)}
<1>1. 0 \in T
  <2> DEFINE f == [i \in 0..0 |-> <<>>]
  <2>1. Picking(f, 0, items, positions)
    BY DEF Picking
  <2> QED BY <2>1
<1>2. ASSUME NEW k \in Nat, k \in T PROVE k + 1 \in T
  <2>1. PICK f : Picking(f, k, items, positions)
    BY <1>2
  <2> DEFINE last == IF k + 1 \in positions THEN Append(f[k], items[k + 1]) ELSE f[k]
             g == [i \in 0..(k + 1) |-> IF i = k + 1 THEN last ELSE f[i]]
  <2>2. g[k + 1] = last /\ \A i \in 0..k : g[i] = f[i]
    OBVIOUS
  <2>3. g = [i \in 0..(k + 1) |-> g[i]]
    OBVIOUS
  <2> HIDE DEF g
  <2>4. g[0] = <<>>
    BY <2>1, <2>2 DEF Picking
  <2>5. ASSUME NEW i \in 1..(k + 1)
        PROVE  g[i] = IF i \in positions THEN Append(g[i - 1], items[i]) ELSE g[i - 1]
    <3>1. CASE i = k + 1
      BY <2>2, <3>1
    <3>2. CASE i \in 1..k
      <4>1. i \in 0..k /\ i - 1 \in 0..k
        BY <3>2
      <4> QED BY <2>1, <2>2, <3>2, <4>1 DEF Picking
    <3> QED BY <3>1, <3>2
  <2>6. Picking(g, k + 1, items, positions)
    BY <2>3, <2>4, <2>5 DEF Picking
  <2> QED BY <2>6
<1> HIDE DEF T
<1>3. n \in T
  BY <1>1, <1>2, Induct
<1> QED BY <1>3 DEF T

LEMMA PickingAgrees ==
  ASSUME NEW n \in Nat, NEW k \in Nat, n <= k, NEW f, NEW g, NEW items, NEW more,
         NEW positions, NEW others,
         Picking(f, n, items, positions), Picking(g, k, more, others),
         \A i \in 1..n : items[i] = more[i] /\ (i \in positions <=> i \in others)
  PROVE  f[n] = g[n]
<1> DEFINE T == {i \in Nat : i <= n => f[i] = g[i]}
<1>1. 0 \in T
  BY DEF Picking
<1>2. ASSUME NEW i \in Nat, i \in T PROVE i + 1 \in T
  <2> SUFFICES ASSUME i + 1 <= n PROVE f[i + 1] = g[i + 1]
    OBVIOUS
  <2>1. i + 1 \in 1..n /\ i + 1 \in 1..k /\ (i + 1) - 1 = i /\ f[i] = g[i]
    BY <1>2
  <2>2. /\ f[i + 1] = IF i + 1 \in positions THEN Append(f[i], items[i + 1]) ELSE f[i]
        /\ g[i + 1] = IF i + 1 \in others THEN Append(g[i], more[i + 1]) ELSE g[i]
    BY <2>1 DEF Picking
  <2> QED BY <2>1, <2>2
<1> HIDE DEF T
<1>3. n \in T
  BY <1>1, <1>2, Induct
<1> QED BY <1>3 DEF T

LEMMA PickedIs ==
  ASSUME NEW items, NEW positions, Len(items) \in Nat
  PROVE  \E f : /\ Picking(f, Len(items), items, positions)
                /\ Picked(items, positions) = f[Len(items)]
<1> DEFINE n == Len(items)
           Is(f) == f = [i \in 0..n |->
                           IF i = 0 THEN <<>>
                           ELSE IF i \in positions THEN Append(f[i - 1], items[i])
                           ELSE f[i - 1]]
           r == CHOOSE f : Is(f)
<1>1. \E f : Picking(f, n, items, positions)
  BY PickingExists
<1>2. ASSUME NEW f, Picking(f, n, items, positions) PROVE Is(f)
  <2>1. \A i \in 0..n : i = 0 \/ i \in 1..n
    OBVIOUS
  <2> QED BY <1>2, <2>1 DEF Picking
<1>3. ASSUME NEW f, Is(f) PROVE Picking(f, n, items, positions)
  <2>1. \A i \in 0..n : f[i] = IF i = 0 THEN <<>>
                               ELSE IF i \in positions THEN Append(f[i - 1], items[i])
                               ELSE f[i - 1]
    BY <1>3
  <2>2. f = [i \in 0..n |-> f[i]]
    BY <1>3
  <2>3. f[0] = <<>>
    BY <2>1
  <2>4. \A i \in 1..n : f[i] = IF i \in positions THEN Append(f[i - 1], items[i])
                               ELSE f[i - 1]
    BY <2>1
  <2> QED BY <2>2, <2>3, <2>4 DEF Picking
<1>4. Is(r)
  BY <1>1, <1>2
<1>5. Picked(items, positions) = r[n]
  BY DEF Picked
<1> HIDE DEF r, Is
<1> QED BY <1>3, <1>4, <1>5

LEMMA NothingPicked ==
  ASSUME NEW positions
  PROVE  Picked(<<>>, positions) = <<>>
<1>1. Len(<<>>) = 0
  OBVIOUS
<1> QED BY <1>1, PickedIs DEF Picking

LEMMA PickedAppend ==
  ASSUME NEW S, NEW items \in Seq(S), NEW x, NEW positions, NEW others,
         \A i \in 1..Len(items) : i \in positions <=> i \in others
  PROVE  Picked(Append(items, x), others)
           = IF Len(items) + 1 \in others THEN Append(Picked(items, positions), x)
             ELSE Picked(items, positions)
<1> DEFINE u == Append(items, x)
           n == Len(items)
<1>1. n \in Nat /\ Len(u) = n + 1 /\ u[n + 1] = x /\ \A i \in 1..n : items[i] = u[i]
  BY Appended
<1> HIDE DEF u, n
<1>2. PICK f : /\ Picking(f, n, items, positions)
               /\ Picked(items, positions) = f[n]
  BY <1>1, PickedIs DEF n
<1>3. PICK g : /\ Picking(g, n + 1, u, others)
               /\ Picked(u, others) = g[n + 1]
  <2>1. Len(u) \in Nat
    BY <1>1
  <2> QED BY <1>1, <2>1, PickedIs
<1>4. f[n] = g[n]
  <2>1. n + 1 \in Nat /\ n <= n + 1
    BY <1>1
  <2>2. \A i \in 1..n : items[i] = u[i] /\ (i \in positions <=> i \in others)
    BY <1>1 DEF n
  <2> QED BY <1>1, <1>2, <1>3, <2>1, <2>2, PickingAgrees
<1>5. g[n + 1] = IF n + 1 \in others THEN Append(g[n], u[n + 1]) ELSE g[n]
  <2>1. n + 1 \in 1..(n + 1) /\ (n + 1) - 1 = n
    BY <1>1
  <2> QED BY <1>3, <2>1 DEF Picking
<1> QED BY <1>1, <1>2, <1>3, <1>4, <1>5 DEF u, n

-----------------------------------------------------------------------------
(* Sequences that grow at the end *)

Listed(x) == \E S : x \in Seq(S)

LEMMA ListGrows ==
  ASSUME NEW s, Listed(s), NEW x
  PROVE  /\ Listed(Append(s, x)) /\ Len(s) \in Nat /\ DOMAIN s = 1..Len(s)
         /\ Len(Append(s, x)) = Len(s) + 1
         /\ DOMAIN Append(s, x) = 1..(Len(s) + 1)
         /\ \A i \in 1..Len(s) : Append(s, x)[i] = s[i]
         /\ Append(s, x)[Len(s) + 1] = x
         /\ Append(s, x) # <<>> /\ Last(Append(s, x)) = x
<1>1. PICK S : s \in Seq(S)
  BY DEF Listed
<1>2. /\ Append(s, x) \in Seq(S \cup {x})
      /\ Len(s) \in Nat /\ DOMAIN s = 1..Len(s)
      /\ Len(Append(s, x)) = Len(s) + 1
      /\ DOMAIN Append(s, x) = 1..(Len(s) + 1)
      /\ \A i \in 1..Len(s) : Append(s, x)[i] = s[i]
      /\ Append(s, x)[Len(s) + 1] = x
  BY <1>1, Appended
<1> DEFINE u == Append(s, x)
<1> HIDE DEF u
<1>3. Last(u) = x
  BY <1>2 DEF Last, u
<1>4. u # <<>>
  BY <1>2, EmptySeq DEF u
<1> QED BY <1>2, <1>3, <1>4 DEF Listed, u

LEMMA JoinedOne ==
  ASSUME NEW s, Listed(s), NEW x
  PROVE  s \o <<x>> = Append(s, x)
<1>1. PICK S : s \in Seq(S)
  BY DEF Listed
<1>2. s \in Seq(S \cup {x}) /\ x \in S \cup {x}
  BY <1>1, SeqMonotonic
<1> QED BY <1>2, AppendIsConcat

LEMMA JoinedTwo ==
  ASSUME NEW s, Listed(s), NEW x, NEW y
  PROVE  s \o <<x, y>> = Append(Append(s, x), y)
<1>1. PICK S : s \in Seq(S)
  BY DEF Listed
<1>2. PICK T : T = S \cup {x, y}
  OBVIOUS
<1>3. s \in Seq(T) /\ x \in T /\ y \in T
  BY <1>1, <1>2, SeqMonotonic
<1> QED BY <1>3

LEMMA NothingListed == Listed(<<>>)
BY DEF Listed

LEMMA AtAppend ==
  ASSUME NEW s, Listed(s), NEW x, NEW step
  PROVE  At(Append(s, x), step)
           = IF x.step = step THEN Append(At(s, step), x) ELSE At(s, step)
<1> DEFINE u == Append(s, x)
           n == Len(s)
           positions == {i \in DOMAIN s : s[i].step = step}
           others == {i \in DOMAIN u : u[i].step = step}
<1>1. /\ n \in Nat /\ DOMAIN s = 1..n /\ DOMAIN u = 1..(n + 1)
      /\ u[n + 1] = x /\ \A i \in 1..n : u[i] = s[i]
  BY ListGrows
<1> HIDE DEF u, n
<1>2. (\A i \in 1..n : i \in positions <=> i \in others) /\ (n + 1 \in others <=> x.step = step)
  BY <1>1
<1> HIDE DEF positions, others
<1>3. PICK S : s \in Seq(S)
  BY DEF Listed
<1>4. Picked(u, others) = IF n + 1 \in others THEN Append(Picked(s, positions), x)
                          ELSE Picked(s, positions)
  BY <1>2, <1>3, PickedAppend DEF u, n
<1> QED BY <1>2, <1>4 DEF At, u, positions, others

LEMMA OfTypeAppend ==
  ASSUME NEW s, Listed(s), NEW x, NEW types
  PROVE  OfType(Append(s, x), types)
           = IF x.type \in types THEN Append(OfType(s, types), x)
             ELSE OfType(s, types)
<1> DEFINE u == Append(s, x)
           n == Len(s)
           positions == {i \in DOMAIN s : s[i].type \in types}
           others == {i \in DOMAIN u : u[i].type \in types}
<1>1. /\ n \in Nat /\ DOMAIN s = 1..n /\ DOMAIN u = 1..(n + 1)
      /\ u[n + 1] = x /\ \A i \in 1..n : u[i] = s[i]
  BY ListGrows
<1> HIDE DEF u, n
<1>2. /\ \A i \in 1..n : i \in positions <=> i \in others
      /\ n + 1 \in others <=> x.type \in types
  BY <1>1
<1> HIDE DEF positions, others
<1>3. PICK S : s \in Seq(S)
  BY DEF Listed
<1>4. Picked(u, others) = IF n + 1 \in others THEN Append(Picked(s, positions), x)
                          ELSE Picked(s, positions)
  BY <1>2, <1>3, PickedAppend DEF u, n
<1> QED BY <1>2, <1>4 DEF OfType, u, positions, others

\* Nothing is at positions that a sequence does not have.
LEMMA NonePicked ==
  ASSUME NEW items, Len(items) \in Nat, NEW positions,
         \A i \in 1..Len(items) : i \notin positions
  PROVE  Picked(items, positions) = <<>>
<1> DEFINE n == Len(items)
<1>1. PICK f : /\ Picking(f, n, items, positions)
               /\ Picked(items, positions) = f[n]
  BY PickedIs
<1> DEFINE T == {i \in Nat : i <= n => f[i] = <<>>}
<1>2. 0 \in T
  BY <1>1 DEF Picking
<1>3. ASSUME NEW i \in Nat, i \in T PROVE i + 1 \in T
  <2> SUFFICES ASSUME i + 1 <= n PROVE f[i + 1] = <<>>
    OBVIOUS
  <2>1. i + 1 \in 1..n /\ (i + 1) - 1 = i /\ f[i] = <<>>
    BY <1>3
  <2> QED BY <1>1, <2>1 DEF Picking
<1> HIDE DEF T
<1>4. n \in T
  BY <1>2, <1>3, Induct
<1> QED BY <1>1, <1>4 DEF T

LEMMA PickingIsListed ==
  ASSUME NEW n \in Nat, NEW f, NEW items, NEW positions,
         Picking(f, n, items, positions), NEW k \in 0..n
  PROVE  Listed(f[k])
<1> DEFINE T == {i \in Nat : i <= n => Listed(f[i])}
<1>1. 0 \in T
  BY NothingListed DEF Picking
<1>2. ASSUME NEW i \in Nat, i \in T PROVE i + 1 \in T
  <2> SUFFICES ASSUME i + 1 <= n PROVE Listed(f[i + 1])
    OBVIOUS
  <2>1. i + 1 \in 1..n /\ (i + 1) - 1 = i /\ Listed(f[i])
    BY <1>2
  <2>2. Listed(Append(f[i], items[i + 1]))
    BY <2>1, ListGrows
  <2> QED BY <2>1, <2>2 DEF Picking
<1> HIDE DEF T
<1>3. k \in T
  BY <1>1, <1>2, Induct
<1> QED BY <1>3 DEF T

\* The last item is picked last.
LEMMA LastPicked ==
  ASSUME NEW items, Len(items) \in Nat \ {0}, NEW positions, Len(items) \in positions
  PROVE  /\ Picked(items, positions) # <<>>
         /\ Last(Picked(items, positions)) = items[Len(items)]
<1> DEFINE n == Len(items)
<1>1. PICK f : /\ Picking(f, n, items, positions)
               /\ Picked(items, positions) = f[n]
  BY PickedIs
<1>2. n \in 1..n /\ n - 1 \in 0..n
  OBVIOUS
<1>3. Listed(f[n - 1])
  BY <1>1, <1>2, PickingIsListed
<1>4. f[n] = Append(f[n - 1], items[n])
  BY <1>1, <1>2 DEF Picking
<1> QED BY <1>1, <1>3, <1>4, ListGrows

LEMMA SameList ==
  ASSUME NEW x, NEW y, Listed(x), Listed(y), Len(x) = Len(y),
         \A i \in 1..Len(x) : x[i] = y[i]
  PROVE  x = y
<1>1. PICK S, T : x \in Seq(S) /\ y \in Seq(T)
  BY DEF Listed
<1>2. x \in Seq(S \cup T) /\ y \in Seq(S \cup T)
  BY <1>1, SeqMonotonic
<1> QED BY <1>2, SeqEqual

LEMMA TableListed ==
  ASSUME NEW n \in Nat, NEW f, DOMAIN f = 1..n, f = [i \in 1..n |-> f[i]]
  PROVE  Listed(f) /\ Len(f) = n
<1> DEFINE S == {f[i] : i \in 1..n}
<1>1. f \in [1..n -> S]
  OBVIOUS
<1>2. f \in Seq(S)
  BY <1>1, SeqDef
<1>3. Len(f) = n
  BY <1>2, LenProperties
<1> QED BY <1>2, <1>3 DEF Listed

\* The tables that Claims makes of the events it filters.
AttemptsOf(ends) == [i \in DOMAIN ends |-> Attempt(ends[i])]

FaultsOf(injected) == [i \in DOMAIN injected |-> FaultEvidence(injected[i])]

InvalidOf(rejected) == [i \in DOMAIN rejected |-> Identity(rejected[i])]

LEMMA AttemptsGrow ==
  ASSUME NEW x, Listed(x), NEW e
  PROVE  AttemptsOf(Append(x, e)) = Append(AttemptsOf(x), Attempt(e))
<1> DEFINE n == Len(x)
           u == Append(x, e)
           y == AttemptsOf(x)
           z == AttemptsOf(u)
           v == Attempt(e)
<1>1. /\ n \in Nat /\ DOMAIN x = 1..n /\ DOMAIN u = 1..(n + 1)
      /\ u[n + 1] = e /\ \A i \in 1..n : u[i] = x[i]
  BY ListGrows
<1> HIDE DEF n, u
<1>2. /\ DOMAIN y = 1..n /\ y = [i \in 1..n |-> y[i]]
      /\ \A i \in 1..n : y[i] = Attempt(x[i])
  BY <1>1 DEF AttemptsOf
<1>3. /\ DOMAIN z = 1..(n + 1) /\ z = [i \in 1..(n + 1) |-> z[i]]
      /\ \A i \in 1..(n + 1) : z[i] = Attempt(u[i])
  BY <1>1 DEF AttemptsOf
<1> HIDE DEF y, z, v
<1>4. Listed(y) /\ Len(y) = n /\ Listed(z) /\ Len(z) = n + 1
  BY <1>1, <1>2, <1>3, TableListed
<1>5. /\ Listed(Append(y, v)) /\ Len(Append(y, v)) = n + 1
      /\ Append(y, v)[n + 1] = v /\ \A i \in 1..n : Append(y, v)[i] = y[i]
  BY <1>4, ListGrows
<1>6. ASSUME NEW i \in 1..(n + 1) PROVE z[i] = Append(y, v)[i]
  <2>1. CASE i = n + 1
    BY <1>1, <1>3, <1>5, <2>1 DEF v
  <2>2. CASE i \in 1..n
    BY <1>1, <1>2, <1>3, <1>5, <2>2
  <2>3. i = n + 1 \/ i \in 1..n
    BY <1>1
  <2> QED BY <2>1, <2>2, <2>3
<1>7. z = Append(y, v)
  BY <1>4, <1>5, <1>6, SameList
<1> QED BY <1>7 DEF z, y, v, u

LEMMA FaultsGrow ==
  ASSUME NEW x, Listed(x), NEW e
  PROVE  FaultsOf(Append(x, e)) = Append(FaultsOf(x), FaultEvidence(e))
<1> DEFINE n == Len(x)
           u == Append(x, e)
           y == FaultsOf(x)
           z == FaultsOf(u)
           v == FaultEvidence(e)
<1>1. /\ n \in Nat /\ DOMAIN x = 1..n /\ DOMAIN u = 1..(n + 1)
      /\ u[n + 1] = e /\ \A i \in 1..n : u[i] = x[i]
  BY ListGrows
<1> HIDE DEF n, u
<1>2. /\ DOMAIN y = 1..n /\ y = [i \in 1..n |-> y[i]]
      /\ \A i \in 1..n : y[i] = FaultEvidence(x[i])
  BY <1>1 DEF FaultsOf
<1>3. /\ DOMAIN z = 1..(n + 1) /\ z = [i \in 1..(n + 1) |-> z[i]]
      /\ \A i \in 1..(n + 1) : z[i] = FaultEvidence(u[i])
  BY <1>1 DEF FaultsOf
<1> HIDE DEF y, z, v
<1>4. Listed(y) /\ Len(y) = n /\ Listed(z) /\ Len(z) = n + 1
  BY <1>1, <1>2, <1>3, TableListed
<1>5. /\ Listed(Append(y, v)) /\ Len(Append(y, v)) = n + 1
      /\ Append(y, v)[n + 1] = v /\ \A i \in 1..n : Append(y, v)[i] = y[i]
  BY <1>4, ListGrows
<1>6. ASSUME NEW i \in 1..(n + 1) PROVE z[i] = Append(y, v)[i]
  <2>1. CASE i = n + 1
    BY <1>1, <1>3, <1>5, <2>1 DEF v
  <2>2. CASE i \in 1..n
    BY <1>1, <1>2, <1>3, <1>5, <2>2
  <2>3. i = n + 1 \/ i \in 1..n
    BY <1>1
  <2> QED BY <2>1, <2>2, <2>3
<1>7. z = Append(y, v)
  BY <1>4, <1>5, <1>6, SameList
<1> QED BY <1>7 DEF z, y, v, u

LEMMA InvalidGrow ==
  ASSUME NEW x, Listed(x), NEW e
  PROVE  InvalidOf(Append(x, e)) = Append(InvalidOf(x), Identity(e))
<1> DEFINE n == Len(x)
           u == Append(x, e)
           y == InvalidOf(x)
           z == InvalidOf(u)
           v == Identity(e)
<1>1. /\ n \in Nat /\ DOMAIN x = 1..n /\ DOMAIN u = 1..(n + 1)
      /\ u[n + 1] = e /\ \A i \in 1..n : u[i] = x[i]
  BY ListGrows
<1> HIDE DEF n, u
<1>2. /\ DOMAIN y = 1..n /\ y = [i \in 1..n |-> y[i]]
      /\ \A i \in 1..n : y[i] = Identity(x[i])
  BY <1>1 DEF InvalidOf
<1>3. /\ DOMAIN z = 1..(n + 1) /\ z = [i \in 1..(n + 1) |-> z[i]]
      /\ \A i \in 1..(n + 1) : z[i] = Identity(u[i])
  BY <1>1 DEF InvalidOf
<1> HIDE DEF y, z, v
<1>4. Listed(y) /\ Len(y) = n /\ Listed(z) /\ Len(z) = n + 1
  BY <1>1, <1>2, <1>3, TableListed
<1>5. /\ Listed(Append(y, v)) /\ Len(Append(y, v)) = n + 1
      /\ Append(y, v)[n + 1] = v /\ \A i \in 1..n : Append(y, v)[i] = y[i]
  BY <1>4, ListGrows
<1>6. ASSUME NEW i \in 1..(n + 1) PROVE z[i] = Append(y, v)[i]
  <2>1. CASE i = n + 1
    BY <1>1, <1>3, <1>5, <2>1 DEF v
  <2>2. CASE i \in 1..n
    BY <1>1, <1>2, <1>3, <1>5, <2>2
  <2>3. i = n + 1 \/ i \in 1..n
    BY <1>1
  <2> QED BY <2>1, <2>2, <2>3
<1>7. z = Append(y, v)
  BY <1>4, <1>5, <1>6, SameList
<1> QED BY <1>7 DEF z, y, v, u

-----------------------------------------------------------------------------
(* What one more event makes of the state of the reader *)

ReaderFields ==
  {"ok", "pos", "next", "step", "active", "closing", "started", "pending",
   "refused", "denied", "proposals", "starts", "waits", "approvals", "resumes",
   "actual", "attempts", "faults", "invalid", "accepted", "status", "result"}

Then(s, e) == [After(s, e) EXCEPT !.pos = @ + 1]

LEMMA ReadNext ==
  ASSUME NEW t, Listed(t), NEW e, NEW actions, NEW mode, NEW s,
         s = Read(t, actions, mode), s.ok, Admits(s, e, actions, mode)
  PROVE  Read(Append(t, e), actions, mode) = Then(s, e)
<1>1. PICK S : t \in Seq(S)
  BY DEF Listed
<1>2. Read(Append(t, e), actions, mode) = Step(s, e, actions, mode)
  BY <1>1, ReadAppend
<1> QED BY <1>2 DEF Step, Then

Ends == {"tool.attempt.failed", "tool.attempt.succeeded"}

\* What the runner filters from the events is what the gate collects.
Mirrors(s, t) ==
  /\ s.attempts = AttemptsOf(OfType(t, Ends))
  /\ s.faults = FaultsOf(OfType(t, {"fault.injected"}))
  /\ s.invalid = InvalidOf(OfType(t, {"tool.output.validation_failed"}))

LEMMA OfTypeListed ==
  ASSUME NEW t, Listed(t), NEW types
  PROVE  Listed(OfType(t, types))
<1> DEFINE positions == {i \in DOMAIN t : t[i].type \in types}
<1>1. Len(t) \in Nat
  BY ListGrows
<1>2. PICK f : /\ Picking(f, Len(t), t, positions)
               /\ Picked(t, positions) = f[Len(t)]
  BY <1>1, PickedIs
<1> HIDE DEF positions
<1>3. Listed(f[Len(t)])
  BY <1>1, <1>2, PickingIsListed
<1> QED BY <1>2, <1>3 DEF OfType, positions

LEMMA MirrorsGrow ==
  ASSUME NEW t, Listed(t), NEW s, DOMAIN s = ReaderFields, Mirrors(s, t),
         NEW e, e.type \in EventTypes
  PROVE  Mirrors(Then(s, e), Append(t, e))
<1> DEFINE ends == OfType(t, Ends)
           injected == OfType(t, {"fault.injected"})
           rejected == OfType(t, {"tool.output.validation_failed"})
           u == Append(t, e)
<1>1. Listed(ends) /\ Listed(injected) /\ Listed(rejected)
  BY OfTypeListed
<1>2. /\ OfType(u, Ends) = IF e.type \in Ends THEN Append(ends, e) ELSE ends
      /\ OfType(u, {"fault.injected"})
           = IF e.type \in {"fault.injected"} THEN Append(injected, e) ELSE injected
      /\ OfType(u, {"tool.output.validation_failed"})
           = IF e.type \in {"tool.output.validation_failed"} THEN Append(rejected, e)
             ELSE rejected
  BY OfTypeAppend
<1>3. /\ AttemptsOf(Append(ends, e)) = Append(s.attempts, Attempt(e))
      /\ FaultsOf(Append(injected, e)) = Append(s.faults, FaultEvidence(e))
      /\ InvalidOf(Append(rejected, e)) = Append(s.invalid, Identity(e))
  BY <1>1, AttemptsGrow, FaultsGrow, InvalidGrow DEF Mirrors
<1>8. /\ s.attempts = AttemptsOf(ends) /\ s.faults = FaultsOf(injected)
      /\ s.invalid = InvalidOf(rejected)
  BY DEF Mirrors
<1> HIDE DEF u, ends, injected, rejected
<1>4. CASE e.type \in Ends
  <2>1. /\ Then(s, e).attempts = Append(s.attempts, Attempt(e))
        /\ Then(s, e).faults = s.faults /\ Then(s, e).invalid = s.invalid
    BY <1>4 DEF Then, After, EndedAttempt, Ends, ReaderFields
  <2> QED BY <1>2, <1>3, <1>4, <1>8, <2>1 DEF Mirrors, u, Ends
<1>5. CASE e.type = "fault.injected"
  <2>1. /\ Then(s, e).attempts = s.attempts
        /\ Then(s, e).faults = Append(s.faults, FaultEvidence(e))
        /\ Then(s, e).invalid = s.invalid
    BY <1>5 DEF Then, After, ReaderFields
  <2> QED BY <1>2, <1>3, <1>5, <1>8, <2>1 DEF Mirrors, u, Ends
<1>6. CASE e.type = "tool.output.validation_failed"
  <2>1. /\ Then(s, e).attempts = s.attempts
        /\ Then(s, e).faults = s.faults
        /\ Then(s, e).invalid = Append(s.invalid, Identity(e))
    BY <1>6 DEF Then, After, ReaderFields
  <2> QED BY <1>2, <1>3, <1>6, <1>8, <2>1 DEF Mirrors, u, Ends
<1>7. CASE e.type \notin Ends \cup {"fault.injected", "tool.output.validation_failed"}
  <2>1. /\ Then(s, e).attempts = s.attempts /\ Then(s, e).faults = s.faults
        /\ Then(s, e).invalid = s.invalid
    BY <1>7, ZenonT(30)
       DEF Then, After, Ends, EventTypes, RunEvents, AttemptEvents, Proposed, Started,
           Checkpointed, Decided, ReaderFields
  <2> QED BY <1>2, <1>7, <1>8, <2>1 DEF Mirrors, u
<1> QED BY <1>4, <1>5, <1>6, <1>7

LEMMA Triple ==
  ASSUME NEW x, NEW y, NEW z
  PROVE  <<x, y>> \o <<z>> = <<x, y, z>>
<1>1. PICK T : T = {x, y, z}
  OBVIOUS
<1>2. <<x, y>> \in Seq(T) /\ <<z>> \in Seq(T) /\ <<x, y, z>> \in Seq(T)
  BY <1>1
<1>3. <<x, y>> \o <<z>> \in Seq(T) /\ Len(<<x, y>> \o <<z>>) = 3
  BY <1>2, ConcatProperties
<1>4. \A i \in 1..3 : (<<x, y>> \o <<z>>)[i] = <<x, y, z>>[i]
  BY <1>2, ConcatProperties
<1> QED BY <1>2, <1>3, <1>4, SeqEqual

LEMMA JoinedThree ==
  ASSUME NEW s, Listed(s), NEW x, NEW y, NEW z
  PROVE  s \o (<<x, y>> \o <<>> \o <<z>>) = Append(Append(Append(s, x), y), z)
<1>1. <<x, y>> \o <<>> \o <<z>> = <<x, y, z>>
  <2>1. <<x, y>> \in Seq({x, y})
    OBVIOUS
  <2>2. <<x, y>> \o <<>> = <<x, y>>
    BY <2>1, ConcatEmptySeq
  <2> QED BY <2>2, Triple
<1>2. PICK S : s \in Seq(S)
  BY DEF Listed
<1>3. PICK T : T = S \cup {x, y, z}
  OBVIOUS
<1>4. s \in Seq(T) /\ x \in T /\ y \in T /\ z \in T
  BY <1>2, <1>3, SeqMonotonic
<1>5. s \o <<x, y, z>> = Append(Append(Append(s, x), y), z)
  BY <1>4
<1> QED BY <1>1, <1>5

LEMMA JoinedFour ==
  ASSUME NEW s, Listed(s), NEW x, NEW y, NEW w, NEW z
  PROVE  s \o (<<x, y>> \o <<w>> \o <<z>>)
           = Append(Append(Append(Append(s, x), y), w), z)
<1>1. PICK S : s \in Seq(S)
  BY DEF Listed
<1>2. PICK T : T = S \cup {x, y, w, z}
  OBVIOUS
<1>3. s \in Seq(T) /\ x \in T /\ y \in T /\ w \in T /\ z \in T
  BY <1>1, <1>2, SeqMonotonic
<1>4. s \o <<x, y, w>> = Append(Append(Append(s, x), y), w)
  BY <1>3
<1>5. <<x, y, w>> \in Seq(T) /\ <<z>> \in Seq(T)
  BY <1>3
<1>6. s \o (<<x, y, w>> \o <<z>>) = (s \o <<x, y, w>>) \o <<z>>
  BY <1>3, <1>5, ConcatAssociative
<1>7. s \o <<x, y, w>> \in Seq(T)
  BY <1>3, <1>5, ConcatProperties
<1>8. (s \o <<x, y, w>>) \o <<z>> = Append(s \o <<x, y, w>>, z)
  BY <1>3, <1>7, AppendIsConcat
<1> QED BY <1>4, <1>6, <1>8, Triple

-----------------------------------------------------------------------------
(* What the reader makes of the trace of a run *)

\* The frozen sequences: calls of known tools, at most one of them gated, and
\* then the end.
Orderly(actions) ==
  /\ Len(actions) \in Nat \ {0} /\ DOMAIN actions = 1..Len(actions)
  /\ \A i \in 1..(Len(actions) - 1) :
       actions[i].type = "call_tool" /\ actions[i].tool \in Registered
  /\ actions[Len(actions)].type = "finish" /\ actions[Len(actions)].tool = "none"
  /\ \A i, j \in 1..Len(actions) :
       RequiresApproval(actions[i]) /\ RequiresApproval(actions[j]) => i = j

Good(c) == c \in ScenarioFiles /\ Orderly(c.actions)

Current(c, r) == ActionAt(c.actions, r.step)

Typed(c, r, t, s) ==
  /\ DOMAIN r = RunFields /\ r.step \in 0..(Len(c.actions) - 1) /\ r.attempt \in Nat
  /\ DOMAIN s = ReaderFields /\ Listed(t)
  /\ Listed(s.proposals) /\ Listed(s.starts) /\ Listed(s.waits)
  /\ Listed(s.approvals) /\ Listed(s.resumes) /\ Listed(s.actual)
  /\ Listed(s.attempts) /\ Listed(s.faults) /\ Listed(s.invalid)
  /\ s.ok /\ s.pos = Len(t) /\ s.started = {} /\ s.denied = FALSE
  /\ s.accepted = r.context

\* The reader is at the call of the run, or ready for it.
Calling(c, r, s) ==
  /\ Current(c, r).type = "call_tool" /\ s.step = r.step
  /\ s.active = [step |-> r.step, tool |-> Current(c, r).tool]
  /\ Len(s.actual) = r.step + 1 /\ s.actual[r.step + 1] = Current(c, r).tool

Fresh(r, s) == s.step = r.step - 1 /\ s.active = NoCall /\ Len(s.actual) = r.step

Open(s) ==
  s.next = EventTypes /\ s.pending = NoOutput /\ s.refused = "none"
  /\ s.closing = NoAction

Control(c, m, r, s) ==
  LET a == Current(c, r)
  IN  /\ r.at \in {"enter", "propose", "dispatch", "attempt", "checkpoint", "fail",
                   "stopped"}
      /\ r.at = "enter" =>
           r.status = IF Allowed(r) THEN "waiting_approval" ELSE "queued"
      /\ r.at = "enter" /\ Allowed(r) => r.approved = r.step
      /\ r.at \in {"enter", "propose"} =>
           Open(s) /\ (IF r.approved = r.step THEN Calling(c, r, s) ELSE Fresh(r, s))
      /\ r.at = "dispatch" =>
           IF a.type = "call_tool" THEN Open(s) /\ Calling(c, r, s)
           ELSE /\ s.step = r.step /\ s.closing = a
                /\ s.next = {"run.succeeded", "run.failed"}
      /\ r.at = "attempt" =>
           /\ Open(s) /\ Calling(c, r, s) /\ a.valid
           /\ RequiresApproval(a) => r.approved = r.step
           /\ r.attempt \in 1..AttemptLimit(m)
      /\ r.at = "checkpoint" =>
           /\ Calling(c, r, s) /\ a.valid /\ s.next = {"run.checkpointed"}
           /\ s.pending = Output(a) /\ s.refused = "none" /\ s.closing = NoAction
           /\ RequiresApproval(a) => r.approved = r.step
      /\ r.at = "fail" =>
           /\ Calling(c, r, s) /\ s.closing = NoAction
           /\ \/ s.refused = r.code /\ r.code # "none" /\ s.next = {"run.failed"}
              \/ /\ s.refused = "none" /\ s.next = EventTypes
                 /\ s.attempts # <<>> /\ Last(s.attempts).status = "failed"
      /\ r.at = "stopped" =>
           IF r.status = "waiting_approval" THEN Open(s) /\ Calling(c, r, s)
           ELSE /\ r.status \in {"succeeded", "failed"} /\ s.next = {}
                /\ s.step = r.step /\ s.status = r.status /\ s.result = r.code

\* The tools of the calls that were proposed, step by step.
Told(actual, t) ==
  LET calls == {e \in ToSet(t) : /\ e.type = "policy.action"
                                 /\ e.data.type = "call_tool"}
  IN  /\ {e.step : e \in calls} = 0..(Len(actual) - 1)
      /\ \A e \in calls : e.tool = actual[e.step + 1]

Failure(a) == [code |-> a.code, transient |-> a.transient]

Causes(f, a) ==
  /\ Identity(f) = Identity(a) /\ a.status = "failed"
  /\ f.type \in DOMAIN FaultFailure /\ FaultFailure[f.type] = Failure(a)

Distinct(items) ==
  \A i, j \in DOMAIN items : Identity(items[i]) = Identity(items[j]) => i = j

\* Attempt i is what an attempt of a run can be, among the others.
Sound(i, s, k) ==
  LET a == s.attempts[i]
  IN  /\ a.step \in 0..k /\ a.attempt \in Nat \ {0}
      /\ a.status \in {"failed", "succeeded"}
      /\ a.status = "failed" => \E j \in DOMAIN s.faults : Causes(s.faults[j], a)
      /\ a.status = "succeeded" => a.code = "none"
      /\ a.code = "invalid_output"
           <=> \E j \in DOMAIN s.invalid : s.invalid[j] = Identity(a)
      /\ a.attempt > 1 =>
           \E j \in DOMAIN s.attempts : /\ CallOf(s.attempts[j]) = CallOf(a)
                                        /\ s.attempts[j].attempt = a.attempt - 1
      /\ \A j \in DOMAIN s.attempts :
           j > i /\ CallOf(s.attempts[j]) = CallOf(a) =>
             a.status = "failed" /\ a.transient

Accounts(s, k) ==
  /\ \A i \in DOMAIN s.attempts : Sound(i, s, k)
  /\ \A j \in DOMAIN s.faults :
       \E i \in DOMAIN s.attempts : Causes(s.faults[j], s.attempts[i])
  /\ \A j \in DOMAIN s.invalid :
       \E i \in DOMAIN s.attempts : s.invalid[j] = Identity(s.attempts[i])
  /\ Distinct(s.attempts) /\ Distinct(s.faults) /\ Distinct(s.invalid)

\* The attempts at the call of the run.
Tried(c, r, s) ==
  LET a == Current(c, r)
  IN  /\ \A i \in DOMAIN s.attempts :
           s.attempts[i].step = r.step =>
             /\ r.at \notin {"enter", "propose", "dispatch"}
             /\ r.at = "stopped" => r.status # "waiting_approval"
             /\ r.at = "attempt" =>
                  /\ s.attempts[i].tool = a.tool /\ s.attempts[i].attempt < r.attempt
                  /\ s.attempts[i].status = "failed" /\ s.attempts[i].transient
      /\ r.at = "attempt" /\ r.attempt > 1 =>
           /\ s.attempts # <<>> /\ CallOf(Last(s.attempts)) = s.active
           /\ Last(s.attempts).attempt = r.attempt - 1
      /\ r.at = "checkpoint" =>
           s.attempts # <<>> /\ Last(s.attempts).attempt = r.attempt

\* The parts of the cycle of a gated call: the wait for its approval, the
\* decision, the resumption and the second proposal, one after the other.
Asked(s, step, a, p, w) ==
  /\ s.waits = <<w>> /\ w.step = step /\ w.action = a
  /\ p.pos \in Nat /\ w.pos \in Nat /\ p.pos < w.pos /\ w.pos <= s.pos

Granted(s, step, w, d) ==
  /\ s.approvals = <<d>> /\ d.step = step /\ d.actor = Reviewer /\ d.allow
  /\ d.pos \in Nat /\ w.pos < d.pos /\ d.pos <= s.pos

Resumed(s, d, q) == s.resumes = <<q>> /\ q \in Nat /\ d.pos < q /\ q <= s.pos

Again(s, q, o) == o.pos \in Nat /\ q < o.pos /\ o.pos <= s.pos

\* Where the approval of the action a at a step is.
Cycle(s, step, a, stage) ==
  LET proposals == At(s.proposals, step)
      starts == At(s.starts, step)
  IN  CASE stage = "waiting" ->
             \E p, w : /\ Asked(s, step, a, p, w) /\ proposals = <<p>> /\ starts = <<>>
                       /\ s.approvals = <<>> /\ s.resumes = <<>>
        [] stage = "approved" ->
             \E p, w, d : /\ Asked(s, step, a, p, w) /\ Granted(s, step, w, d)
                          /\ proposals = <<p>> /\ starts = <<>> /\ s.resumes = <<>>
        [] stage = "resumed" ->
             \E p, w, d, q : /\ Asked(s, step, a, p, w) /\ Granted(s, step, w, d)
                             /\ Resumed(s, d, q) /\ proposals = <<p>> /\ starts = <<>>
        [] stage = "repeated" ->
             \E p, w, d, q, o :
               /\ Asked(s, step, a, p, w) /\ Granted(s, step, w, d) /\ Resumed(s, d, q)
               /\ Again(s, q, o) /\ proposals = <<p, o>> /\ starts = <<>>
        [] stage = "executed" ->
             \E p, w, d, q, o :
               /\ Asked(s, step, a, p, w) /\ Granted(s, step, w, d) /\ Resumed(s, d, q)
               /\ Again(s, q, o) /\ starts # <<>> /\ o.pos < starts[1].pos
               /\ proposals = <<p, o>>

StageOf(r) ==
  IF r.step # r.approved THEN "executed"
  ELSE IF r.at = "enter" THEN "approved"
  ELSE IF r.at = "propose" THEN "resumed"
  ELSE IF r.at = "dispatch" \/ (r.at = "attempt" /\ r.attempt = 1) THEN "repeated"
  ELSE "executed"

GatedAt(c, step) == RequiresApproval(ActionAt(c.actions, step))

\* A step that the run is past.
Ordinary(c, s, step) ==
  Len(At(s.proposals, step))
    = IF GatedAt(c, step) /\ At(s.starts, step) # <<>> THEN 2 ELSE 1

Cycles(c, r, s) ==
  /\ \A step \in Nat : step > s.step => /\ At(s.proposals, step) = <<>>
                                        /\ At(s.starts, step) = <<>>
  /\ \A step \in 0..(r.step - 1) : Ordinary(c, s, step)
  /\ \A step \in Nat : GatedAt(c, step) /\ At(s.starts, step) # <<>> =>
                         step = r.approved
  /\ r.step # r.approved /\ r.at \notin {"enter", "propose"} =>
       \E p : At(s.proposals, r.step) = <<p>> /\ p.pos \in Nat /\ p.pos <= s.pos
  /\ IF Allowed(r)
     THEN /\ r.approved \in 0..r.step /\ GatedAt(c, r.approved)
          /\ ActionAt(c.actions, r.approved).valid
          /\ r.at = "stopped" => r.status # "waiting_approval"
          /\ Cycle(s, r.approved, ActionAt(c.actions, r.approved), StageOf(r))
     ELSE /\ r.effects = 0 /\ r.before = 0
          /\ IF r.at = "stopped" /\ r.status = "waiting_approval"
             THEN /\ GatedAt(c, r.step) /\ Current(c, r).valid
                  /\ Cycle(s, r.step, Current(c, r), "waiting")
             ELSE s.waits = <<>> /\ s.approvals = <<>> /\ s.resumes = <<>>

HonestAt(c, m, r, t, s) ==
  /\ Typed(c, r, t, s) /\ Control(c, m, r, s) /\ Mirrors(s, t) /\ Told(s.actual, t)
  /\ Accounts(s, r.step) /\ Tried(c, r, s) /\ Cycles(c, r, s)

Honest(c, m, r, t) == HonestAt(c, m, r, t, Read(t, c.actions, m))

LEMMA ActionFacts ==
  ASSUME NEW c, Good(c), NEW k \in 0..(Len(c.actions) - 1)
  PROVE  LET a == ActionAt(c.actions, k)
         IN  /\ a \in [type : {"call_tool", "finish", "fail"}, tool : STRING,
                       valid : BOOLEAN, result : STRING]
             /\ a # NoAction /\ a.type \in {"call_tool", "finish"}
             /\ a.type = "call_tool" =>
                  /\ a.tool \in Registered /\ k + 1 \in 0..(Len(c.actions) - 1)
                  /\ a.valid => Output(a) = a.tool /\ Output(a) # NoOutput
             /\ a.type = "finish" => ~RequiresApproval(a)
<1> DEFINE n == Len(c.actions)
           a == ActionAt(c.actions, k)
<1>1. n \in Nat \ {0} /\ DOMAIN c.actions = 1..n /\ k + 1 \in 1..n
  BY DEF Good, Orderly
<1>2. a = c.actions[k + 1]
  BY <1>1 DEF ActionAt
<1>3. a \in [type : {"call_tool", "finish", "fail"}, tool : STRING,
             valid : BOOLEAN, result : STRING]
  <2>1. c.actions \in Seq([type : {"call_tool", "finish", "fail"}, tool : STRING,
                           valid : BOOLEAN, result : STRING])
    BY DEF Good, ScenarioFiles
  <2>2. PICK i : i = k + 1
    OBVIOUS
  <2>3. i \in 1..Len(c.actions)
    BY <1>1, <2>2
  <2>4. c.actions[i] \in [type : {"call_tool", "finish", "fail"}, tool : STRING,
                          valid : BOOLEAN, result : STRING]
    BY <2>1, <2>3, ElementOfSeq
  <2> QED BY <1>2, <2>2, <2>4
<1> HIDE DEF a
<1>4. CASE k + 1 = n
  <2>1. a.type = "finish" /\ a.tool = "none"
    BY <1>2, <1>4 DEF Good, Orderly
  <2> QED BY <1>3, <2>1 DEF NoAction, Act, RequiresApproval, a
<1>5. CASE k + 1 # n
  <2>1. k + 1 \in 1..(n - 1) /\ k + 1 \in 0..(n - 1)
    BY <1>1, <1>5
  <2>2. a.type = "call_tool" /\ a.tool \in Registered
    BY <1>2, <2>1 DEF Good, Orderly
  <2>3. a.valid => Output(a) = a.tool /\ Output(a) # NoOutput
    BY <2>2 DEF Output, Registered, NoOutput
  <2>4. a # NoAction
    BY <2>2 DEF NoAction, Act
  <2> QED BY <1>3, <2>1, <2>2, <2>3, <2>4 DEF a
<1> QED BY <1>4, <1>5

\* No step but one of the sequence is gated.
LEMMA OneGated ==
  ASSUME NEW c, Good(c), NEW j \in Nat, NEW k \in Nat, GatedAt(c, j), GatedAt(c, k)
  PROVE  j = k
<1> DEFINE n == Len(c.actions)
<1>1. n \in Nat \ {0} /\ DOMAIN c.actions = 1..n
  BY DEF Good, Orderly
<1>2. ASSUME NEW i \in Nat, GatedAt(c, i)
      PROVE  i + 1 \in 1..n /\ RequiresApproval(c.actions[i + 1])
  BY <1>1, <1>2 DEF GatedAt, ActionAt, RequiresApproval, NoAction, Act
<1> HIDE DEF n
<1>3. j + 1 = k + 1
  BY <1>2 DEF Good, Orderly, n
<1> QED BY <1>3

LEMMA ToSetAppend ==
  ASSUME NEW t, Listed(t), NEW e
  PROVE  ToSet(Append(t, e)) = ToSet(t) \cup {e}
<1> DEFINE n == Len(t)
           u == Append(t, e)
<1>1. /\ n \in Nat /\ DOMAIN t = 1..n /\ DOMAIN u = 1..(n + 1)
      /\ u[n + 1] = e /\ \A i \in 1..n : u[i] = t[i]
  BY ListGrows
<1> HIDE DEF n, u
<1>2. \A i \in 1..(n + 1) : i = n + 1 \/ i \in 1..n
  BY <1>1
<1>3. \A i \in 1..n : i \in 1..(n + 1)
  BY <1>1
<1>4. n + 1 \in 1..(n + 1)
  BY <1>1
<1> QED BY <1>1, <1>2, <1>3, <1>4 DEF ToSet, u

LEMMA ToldOther ==
  ASSUME NEW t, Listed(t), NEW actual, Told(actual, t), NEW e, e.type # "policy.action"
  PROVE  Told(actual, Append(t, e))
<1> DEFINE C(u) == {x \in ToSet(u) : x.type = "policy.action" /\ x.data.type = "call_tool"}
<1>1. C(Append(t, e)) = C(t)
  BY ToSetAppend
<1> QED BY <1>1 DEF Told

LEMMA ToldEnd ==
  ASSUME NEW t, Listed(t), NEW actual, Told(actual, t), NEW e, e.data.type # "call_tool"
  PROVE  Told(actual, Append(t, e))
<1> DEFINE C(u) == {x \in ToSet(u) : x.type = "policy.action" /\ x.data.type = "call_tool"}
<1>1. C(Append(t, e)) = C(t)
  BY ToSetAppend
<1> QED BY <1>1 DEF Told

LEMMA ToldAgain ==
  ASSUME NEW t, Listed(t), NEW actual, Told(actual, t), NEW e,
         e.type = "policy.action", e.data.type = "call_tool",
         e.step \in 0..(Len(actual) - 1), e.tool = actual[e.step + 1]
  PROVE  Told(actual, Append(t, e))
<1> DEFINE C(u) == {x \in ToSet(u) : x.type = "policy.action" /\ x.data.type = "call_tool"}
<1>1. C(Append(t, e)) = C(t) \cup {e}
  BY ToSetAppend
<1> QED BY <1>1 DEF Told

LEMMA ToldNew ==
  ASSUME NEW t, Listed(t), NEW actual, Listed(actual), Told(actual, t), NEW e,
         e.type = "policy.action", e.data.type = "call_tool", e.step = Len(actual)
  PROVE  Told(Append(actual, e.tool), Append(t, e))
<1> DEFINE C(u) == {x \in ToSet(u) : x.type = "policy.action" /\ x.data.type = "call_tool"}
           n == Len(actual)
           more == Append(actual, e.tool)
<1>1. C(Append(t, e)) = C(t) \cup {e}
  BY ToSetAppend
<1>2. /\ n \in Nat /\ Len(more) = n + 1 /\ more[n + 1] = e.tool
      /\ \A i \in 1..n : more[i] = actual[i]
  BY ListGrows
<1>3. /\ {x.step : x \in C(t)} = 0..(n - 1)
      /\ \A x \in C(t) : x.tool = actual[x.step + 1]
  BY DEF Told
<1> HIDE DEF C, more, n
<1>4. {x.step : x \in C(t) \cup {e}} = 0..((n + 1) - 1)
  <2>1. {x.step : x \in C(t) \cup {e}} = {x.step : x \in C(t)} \cup {n}
    BY DEF n
  <2> QED BY <1>2, <1>3, <2>1
<1>5. ASSUME NEW x \in C(t) \cup {e} PROVE x.tool = more[x.step + 1]
  <2>1. CASE x = e
    BY <1>2, <2>1 DEF n
  <2>2. CASE x \in C(t)
    <3>1. x.step \in 0..(n - 1)
      BY <1>3, <2>2
    <3>2. x.step + 1 \in 1..n
      BY <1>2, <3>1
    <3> QED BY <1>2, <1>3, <2>2, <3>2
  <2> QED BY <2>1, <2>2
<1>6. /\ {x.step : x \in C(Append(t, e))} = 0..(Len(more) - 1)
      /\ \A x \in C(Append(t, e)) : x.tool = more[x.step + 1]
  BY <1>1, <1>2, <1>4, <1>5
<1> QED BY <1>6 DEF Told, C, more

\* One more event that the reader admits.
LEMMA OneEvent ==
  ASSUME NEW actions, NEW mode, NEW t, Listed(t), NEW s, s = Read(t, actions, mode),
         DOMAIN s = ReaderFields, s.ok, s.pos = Len(t), Mirrors(s, t),
         NEW e, e.type \in EventTypes, Admits(s, e, actions, mode)
  PROVE  /\ t \o <<e>> = Append(t, e) /\ Listed(t \o <<e>>) /\ Len(t \o <<e>>) = s.pos + 1
         /\ Read(t \o <<e>>, actions, mode) = Then(s, e)
         /\ Mirrors(Then(s, e), t \o <<e>>)
<1>1. t \o <<e>> = Append(t, e)
  BY JoinedOne
<1>2. Listed(Append(t, e)) /\ Len(Append(t, e)) = s.pos + 1
  BY ListGrows
<1>3. Read(Append(t, e), actions, mode) = Then(s, e)
  BY ReadNext
<1>4. Mirrors(Then(s, e), Append(t, e))
  BY MirrorsGrow
<1> QED BY <1>1, <1>2, <1>3, <1>4

-----------------------------------------------------------------------------
(* What each event leaves alone *)

Same(s, u, changed) ==
  /\ DOMAIN u = ReaderFields /\ u.pos = s.pos + 1
  /\ "ok" \in changed \/ u.ok = s.ok
  /\ "next" \in changed \/ u.next = s.next
  /\ "step" \in changed \/ u.step = s.step
  /\ "active" \in changed \/ u.active = s.active
  /\ "closing" \in changed \/ u.closing = s.closing
  /\ "started" \in changed \/ u.started = s.started
  /\ "pending" \in changed \/ u.pending = s.pending
  /\ "refused" \in changed \/ u.refused = s.refused
  /\ "denied" \in changed \/ u.denied = s.denied
  /\ "proposals" \in changed \/ u.proposals = s.proposals
  /\ "starts" \in changed \/ u.starts = s.starts
  /\ "waits" \in changed \/ u.waits = s.waits
  /\ "approvals" \in changed \/ u.approvals = s.approvals
  /\ "resumes" \in changed \/ u.resumes = s.resumes
  /\ "actual" \in changed \/ u.actual = s.actual
  /\ "attempts" \in changed \/ u.attempts = s.attempts
  /\ "faults" \in changed \/ u.faults = s.faults
  /\ "invalid" \in changed \/ u.invalid = s.invalid
  /\ "accepted" \in changed \/ u.accepted = s.accepted
  /\ "status" \in changed \/ u.status = s.status
  /\ "result" \in changed \/ u.result = s.result

\* Then is After, one position on.
LEMMA OnePositionOn ==
  ASSUME NEW s, NEW e, NEW v, v = After(s, e), DOMAIN v = ReaderFields, v.pos = s.pos
  PROVE  LET u == Then(s, e)
         IN  /\ DOMAIN u = ReaderFields /\ u.pos = s.pos + 1
             /\ u.ok = v.ok /\ u.next = v.next /\ u.step = v.step
             /\ u.active = v.active /\ u.closing = v.closing /\ u.started = v.started
             /\ u.pending = v.pending /\ u.refused = v.refused /\ u.denied = v.denied
             /\ u.proposals = v.proposals /\ u.starts = v.starts /\ u.waits = v.waits
             /\ u.approvals = v.approvals /\ u.resumes = v.resumes /\ u.actual = v.actual
             /\ u.attempts = v.attempts /\ u.faults = v.faults /\ u.invalid = v.invalid
             /\ u.accepted = v.accepted /\ u.status = v.status /\ u.result = v.result
BY DEF Then, ReaderFields

LEMMA ThenRunning ==
  ASSUME NEW s, DOMAIN s = ReaderFields, NEW e, e.type = "run.running"
  PROVE  /\ Same(s, Then(s, e), {"resumes"})
         /\ Then(s, e).resumes = IF e.data = "waiting_approval"
                                 THEN Append(s.resumes, s.pos + 1) ELSE s.resumes
BY DEF Then, After, Same, ReaderFields

LEMMA ThenProposed ==
  ASSUME NEW s, DOMAIN s = ReaderFields, NEW e, e.type = "policy.action"
  PROVE  LET u == Then(s, e)
             call == e.data.type = "call_tool"
         IN  /\ Same(s, u, {"step", "proposals", "actual", "active", "closing", "next"})
             /\ u.step = e.step
             /\ u.proposals = Append(s.proposals, [pos |-> s.pos + 1, step |-> e.step])
             /\ u.actual = IF call /\ e.step > s.step THEN Append(s.actual, e.data.tool)
                           ELSE s.actual
             /\ u.active = IF call THEN [step |-> e.step, tool |-> e.data.tool] ELSE NoCall
             /\ u.closing = IF call THEN s.closing ELSE e.data
             /\ u.next = IF call THEN s.next ELSE {"run.succeeded", "run.failed"}
<1>1. PICK v : v = After(s, e)
  OBVIOUS
<1>2. DOMAIN v = ReaderFields /\ v.pos = s.pos
  BY <1>1 DEF After, Proposed, ReaderFields
<1>3. /\ v.ok = s.ok /\ v.started = s.started /\ v.pending = s.pending
      /\ v.refused = s.refused /\ v.denied = s.denied /\ v.starts = s.starts
      /\ v.waits = s.waits /\ v.approvals = s.approvals /\ v.resumes = s.resumes
      /\ v.attempts = s.attempts /\ v.faults = s.faults /\ v.invalid = s.invalid
      /\ v.accepted = s.accepted /\ v.status = s.status /\ v.result = s.result
  BY <1>1 DEF After, Proposed, ReaderFields
<1>4. /\ v.step = e.step
      /\ v.proposals = Append(s.proposals, [pos |-> s.pos + 1, step |-> e.step])
      /\ v.actual = IF e.data.type = "call_tool" /\ e.step > s.step
                    THEN Append(s.actual, e.data.tool) ELSE s.actual
      /\ v.active = IF e.data.type = "call_tool"
                    THEN [step |-> e.step, tool |-> e.data.tool] ELSE NoCall
      /\ v.closing = IF e.data.type = "call_tool" THEN s.closing ELSE e.data
      /\ v.next = IF e.data.type = "call_tool" THEN s.next
                  ELSE {"run.succeeded", "run.failed"}
  BY <1>1 DEF After, Proposed, ReaderFields
<1> QED BY <1>1, <1>2, <1>3, <1>4, OnePositionOn DEF Same

LEMMA ThenStarted ==
  ASSUME NEW s, DOMAIN s = ReaderFields, NEW e, e.type = "tool.attempt.started"
  PROVE  LET u == Then(s, e)
         IN  /\ Same(s, u, {"started", "starts"})
             /\ u.started = s.started \cup {e}
             /\ u.starts = Append(s.starts, [pos |-> s.pos + 1, step |-> e.step])
<1>1. PICK v : v = After(s, e)
  OBVIOUS
<1>2. DOMAIN v = ReaderFields /\ v.pos = s.pos
  BY <1>1 DEF After, Started, ReaderFields
<1>3. /\ v.ok = s.ok /\ v.next = s.next /\ v.step = s.step
      /\ v.active = s.active /\ v.closing = s.closing /\ v.pending = s.pending
      /\ v.refused = s.refused /\ v.denied = s.denied /\ v.proposals = s.proposals
      /\ v.waits = s.waits /\ v.approvals = s.approvals /\ v.resumes = s.resumes
      /\ v.actual = s.actual /\ v.attempts = s.attempts /\ v.faults = s.faults
      /\ v.invalid = s.invalid /\ v.accepted = s.accepted /\ v.status = s.status
      /\ v.result = s.result
  BY <1>1 DEF After, Started, ReaderFields
<1>4. /\ v.started = s.started \cup {e}
      /\ v.starts = Append(s.starts, [pos |-> s.pos + 1, step |-> e.step])
  BY <1>1 DEF After, Started, ReaderFields
<1> QED BY <1>1, <1>2, <1>3, <1>4, OnePositionOn DEF Same

LEMMA ThenEnded ==
  ASSUME NEW s, DOMAIN s = ReaderFields, NEW e, e.type \in Ends
  PROVE  LET u == Then(s, e)
             succeeded == e.type = "tool.attempt.succeeded"
         IN  /\ Same(s, u, {"started", "attempts", "pending", "next"})
             /\ u.started = {x \in s.started : Identity(x) # Identity(e)}
             /\ u.attempts = Append(s.attempts, Attempt(e))
             /\ u.pending = IF succeeded THEN e.data ELSE s.pending
             /\ u.next = IF succeeded THEN {"run.checkpointed"} ELSE s.next
<1>0. PICK still, more, output, next :
        /\ still = {x \in s.started : Identity(x) # Identity(e)}
        /\ more = Append(s.attempts, Attempt(e))
        /\ output = IF e.type = "tool.attempt.succeeded" THEN e.data ELSE s.pending
        /\ next = IF e.type = "tool.attempt.succeeded" THEN {"run.checkpointed"}
                  ELSE s.next
  OBVIOUS
<1>1. PICK v : v = [s EXCEPT !.started = still, !.attempts = more,
                             !.pending = output, !.next = next]
  OBVIOUS
<1>2. After(s, e) = v /\ DOMAIN v = ReaderFields /\ v.pos = s.pos
  <2>1. After(s, e) = EndedAttempt(s, e)
    BY DEF After, Ends
  <2>2. EndedAttempt(s, e) = v
    BY <1>0, <1>1 DEF EndedAttempt, ReaderFields
  <2> QED BY <1>1, <2>1, <2>2 DEF ReaderFields
<1>3. /\ v.ok = s.ok /\ v.step = s.step /\ v.active = s.active
      /\ v.closing = s.closing /\ v.refused = s.refused /\ v.denied = s.denied
      /\ v.proposals = s.proposals /\ v.starts = s.starts /\ v.waits = s.waits
      /\ v.approvals = s.approvals /\ v.resumes = s.resumes /\ v.actual = s.actual
      /\ v.faults = s.faults /\ v.invalid = s.invalid /\ v.accepted = s.accepted
      /\ v.status = s.status /\ v.result = s.result
  BY <1>1 DEF ReaderFields
<1>4. v.started = still /\ v.attempts = more /\ v.pending = output /\ v.next = next
  BY <1>1 DEF ReaderFields
<1> QED BY <1>0, <1>2, <1>3, <1>4, OnePositionOn DEF Same

LEMMA ThenInjected ==
  ASSUME NEW s, DOMAIN s = ReaderFields, NEW e, e.type = "fault.injected"
  PROVE  /\ Same(s, Then(s, e), {"faults"})
         /\ Then(s, e).faults = Append(s.faults, FaultEvidence(e))
BY DEF Then, After, Same, ReaderFields

LEMMA ThenRejected ==
  ASSUME NEW s, DOMAIN s = ReaderFields, NEW e,
         e.type = "tool.output.validation_failed"
  PROVE  /\ Same(s, Then(s, e), {"invalid"})
         /\ Then(s, e).invalid = Append(s.invalid, Identity(e))
BY DEF Then, After, Same, ReaderFields

LEMMA ThenCheckpointed ==
  ASSUME NEW s, DOMAIN s = ReaderFields, NEW e, e.type = "run.checkpointed"
  PROVE  LET u == Then(s, e)
         IN  /\ Same(s, u, {"accepted", "pending", "active", "next"})
             /\ u.accepted = e.data.context /\ u.pending = NoOutput
             /\ u.active = NoCall /\ u.next = EventTypes
BY DEF Then, After, Checkpointed, Same, ReaderFields

LEMMA ThenRefused ==
  ASSUME NEW s, DOMAIN s = ReaderFields, NEW e, e.type = "tool.preflight.failed"
  PROVE  LET u == Then(s, e)
         IN  /\ Same(s, u, {"refused", "next"})
             /\ u.refused = e.data /\ u.next = {"run.failed"}
BY DEF Then, After, Same, ReaderFields

LEMMA ThenWaiting ==
  ASSUME NEW s, DOMAIN s = ReaderFields, NEW e, e.type = "run.waiting_approval"
  PROVE  /\ Same(s, Then(s, e), {"waits"})
         /\ Then(s, e).waits = Append(s.waits, [pos |-> s.pos + 1, step |-> e.step,
                                                tool |-> e.tool, action |-> e.data])
BY DEF Then, After, Same, ReaderFields

LEMMA ThenApproved ==
  ASSUME NEW s, DOMAIN s = ReaderFields, NEW e, e.type = "approval.recorded",
         e.data.allow
  PROVE  /\ Same(s, Then(s, e), {"approvals"})
         /\ Then(s, e).approvals
              = Append(s.approvals, [pos |-> s.pos + 1, step |-> e.step,
                                     action |-> e.data.action, actor |-> e.data.actor,
                                     allow |-> e.data.allow])
BY DEF Then, After, Decided, Same, ReaderFields

LEMMA ThenOver ==
  ASSUME NEW s, DOMAIN s = ReaderFields, NEW e,
         e.type \in {"run.succeeded", "run.failed"}
  PROVE  LET u == Then(s, e)
         IN  /\ Same(s, u, {"status", "result", "next"})
             /\ u.status = IF e.type = "run.failed" THEN "failed" ELSE "succeeded"
             /\ u.result = e.data /\ u.next = {}
BY DEF Then, After, Same, ReaderFields

-----------------------------------------------------------------------------
(* Each step of a run keeps the reader with it *)

LEMMA SteadyAccounts ==
  ASSUME NEW s, NEW u, NEW j \in Nat, NEW k \in Nat, j <= k, Accounts(s, j),
         u.attempts = s.attempts, u.faults = s.faults, u.invalid = s.invalid
  PROVE  Accounts(u, k)
<1>1. ASSUME NEW i, Sound(i, s, j) PROVE Sound(i, u, k)
  BY <1>1 DEF Sound
<1> QED BY <1>1 DEF Accounts

LEMMA SteadyCycle ==
  ASSUME NEW s, NEW u, s.pos \in Nat, u.pos \in Nat, s.pos <= u.pos,
         NEW step, NEW a, NEW stage,
         stage \in {"waiting", "approved", "resumed", "repeated", "executed"},
         Cycle(s, step, a, stage),
         u.waits = s.waits, u.approvals = s.approvals, u.resumes = s.resumes,
         At(u.proposals, step) = At(s.proposals, step),
         At(u.starts, step) = At(s.starts, step)
  PROVE  Cycle(u, step, a, stage)
<1>1. /\ \A p, w : Asked(s, step, a, p, w) => Asked(u, step, a, p, w)
      /\ \A w, d : Granted(s, step, w, d) => (w.pos \in Nat => Granted(u, step, w, d))
      /\ \A d, q : Resumed(s, d, q) => (d.pos \in Nat => Resumed(u, d, q))
      /\ \A q, o : Again(s, q, o) => (q \in Nat => Again(u, q, o))
  BY DEF Asked, Granted, Resumed, Again
<1>2. /\ \A p, w : Asked(s, step, a, p, w) => w.pos \in Nat
      /\ \A w, d : Granted(s, step, w, d) => d.pos \in Nat
      /\ \A d, q : Resumed(s, d, q) => q \in Nat
  BY DEF Asked, Granted, Resumed
<1>3. CASE stage = "waiting"
  BY <1>1, <1>2, <1>3 DEF Cycle
<1>4. CASE stage = "approved"
  BY <1>1, <1>2, <1>4 DEF Cycle
<1>5. CASE stage = "resumed"
  BY <1>1, <1>2, <1>5 DEF Cycle
<1>6. CASE stage = "repeated"
  BY <1>1, <1>2, <1>6 DEF Cycle
<1>7. CASE stage = "executed"
  BY <1>1, <1>2, <1>7 DEF Cycle
<1> QED BY <1>3, <1>4, <1>5, <1>6, <1>7

LEMMA SingleListed ==
  ASSUME NEW x
  PROVE  /\ Append(<<>>, x) = <<x>> /\ Listed(<<x>>) /\ <<x>> # <<>>
         /\ Len(<<x>>) = 1 /\ <<x>>[1] = x
         /\ \A y : Append(<<x>>, y) = <<x, y>>
<1>1. <<x>> \in Seq({x}) /\ <<>> \in Seq({x})
  OBVIOUS
<1>2. Listed(<<x>>)
  BY <1>1 DEF Listed
<1>3. Append(<<>>, x) = <<x>> /\ Len(<<x>>) = 1 /\ <<x>>[1] = x /\ <<x>> # <<>>
  OBVIOUS
<1>4. ASSUME NEW y PROVE Append(<<x>>, y) = <<x, y>>
  <2> DEFINE T == {x, y}
  <2>2. <<x>> \in Seq(T) /\ <<x, y>> \in Seq(T) /\ y \in T
    OBVIOUS
  <2> HIDE DEF T
  <2>3. /\ Append(<<x>>, y) \in Seq(T) /\ Len(Append(<<x>>, y)) = 2
        /\ \A i \in 1..2 : Append(<<x>>, y)[i] = <<x, y>>[i]
    BY <2>2, AppendProperties
  <2> QED BY <2>2, <2>3, SeqEqual
<1> QED BY <1>2, <1>3, <1>4

LEMMA EnterMoves ==
  ASSUME NEW c, Good(c), NEW m \in Modes, NEW r, NEW t, Honest(c, m, r, t),
         r.at = "enter"
  PROVE  Honest(c, m, NextRun(c, m, r), NextTrace(c, r, t))
<1>1. PICK s : s = Read(t, c.actions, m)
  OBVIOUS
<1>2. PICK e : e = Event("run.running", -1, "none", 0, 0, r.status)
  OBVIOUS
<1>3. PICK r2 : r2 = [r EXCEPT !.status = "running", !.at = "propose"]
  OBVIOUS
<1>4. NextRun(c, m, r) = r2 /\ NextTrace(c, r, t) = t \o <<e>>
  BY <1>2, <1>3 DEF NextRun, NextTrace
<1>5. HonestAt(c, m, r, t, s)
  BY <1>1 DEF Honest
<1>6. /\ e.type = "run.running" /\ e.data = r.status
  BY <1>2 DEF Event
<1>7. /\ Open(s) /\ r.status = IF Allowed(r) THEN "waiting_approval" ELSE "queued"
      /\ IF r.approved = r.step THEN Calling(c, r, s) ELSE Fresh(r, s)
      /\ Allowed(r) => r.approved = r.step
  BY <1>5 DEF HonestAt, Control
<1>8. /\ DOMAIN r2 = RunFields /\ r2.step = r.step /\ r2.attempt = r.attempt
      /\ r2.context = r.context /\ r2.code = r.code /\ r2.approved = r.approved
      /\ r2.effects = r.effects /\ r2.before = r.before
      /\ r2.status = "running" /\ r2.at = "propose"
  BY <1>3, <1>5 DEF HonestAt, Typed, RunFields
<1>9. e.type \in EventTypes /\ Admits(s, e, c.actions, m)
  BY <1>6, <1>7 DEF Open, Admits, EventTypes, RunEvents
<1>10. PICK u : u = Then(s, e)
  OBVIOUS
<1>11. PICK t2 : t2 = t \o <<e>>
  OBVIOUS
<1>12. /\ t2 = Append(t, e) /\ Listed(t2) /\ Len(t2) = s.pos + 1
       /\ Read(t2, c.actions, m) = u /\ Mirrors(u, t2)
  <2>1. /\ Listed(t) /\ DOMAIN s = ReaderFields /\ s.ok /\ s.pos = Len(t)
        /\ Mirrors(s, t)
    BY <1>5 DEF HonestAt, Typed
  <2>2. /\ t \o <<e>> = Append(t, e) /\ Listed(t \o <<e>>)
        /\ Len(t \o <<e>>) = s.pos + 1
        /\ Read(t \o <<e>>, c.actions, m) = Then(s, e)
        /\ Mirrors(Then(s, e), t \o <<e>>)
    BY <1>1, <1>9, <2>1, OneEvent
  <2> QED BY <1>10, <1>11, <2>2
<1>13. /\ Same(s, u, {"resumes"})
       /\ u.resumes = IF r.status = "waiting_approval"
                      THEN Append(s.resumes, s.pos + 1) ELSE s.resumes
  BY <1>5, <1>6, <1>10, ThenRunning DEF HonestAt, Typed
<1>14. Typed(c, r2, t2, u)
  <2>1. Listed(u.resumes)
    BY <1>5, <1>13, ListGrows DEF HonestAt, Typed
  <2> QED BY <1>5, <1>8, <1>12, <1>13, <2>1 DEF HonestAt, Typed, Same, ReaderFields
<1>15. Control(c, m, r2, u)
  BY <1>5, <1>7, <1>8, <1>13
     DEF HonestAt, Control, Same, ReaderFields, Open, Calling, Fresh, Current, Allowed
<1>16. Told(u.actual, t2)
  BY <1>5, <1>6, <1>12, <1>13, ToldOther DEF HonestAt, Typed, Same, ReaderFields
<1>17. Accounts(u, r2.step)
  BY <1>5, <1>8, <1>13, SteadyAccounts DEF HonestAt, Typed, Same, ReaderFields
<1>18. Tried(c, r2, u)
  BY <1>5, <1>8, <1>13, <1>7 DEF HonestAt, Tried, Same, ReaderFields
<1>19. Cycles(c, r2, u)
  <2>1. CASE Allowed(r)
    <3>1. StageOf(r) = "approved" /\ StageOf(r2) = "resumed" /\ Allowed(r2)
      BY <1>7, <1>8, <2>1 DEF StageOf, Allowed
    <3>2. Cycle(s, r.step, Current(c, r), "approved")
      BY <1>5, <1>7, <2>1, <3>1 DEF HonestAt, Cycles, Current
    <3>3. Cycle(u, r.step, Current(c, r), "resumed")
      <4>1. PICK p, w, d : /\ Asked(s, r.step, Current(c, r), p, w)
                           /\ Granted(s, r.step, w, d)
                           /\ At(s.proposals, r.step) = <<p>>
                           /\ At(s.starts, r.step) = <<>> /\ s.resumes = <<>>
        BY <3>2 DEF Cycle
      <4>2. s.pos \in Nat
        BY <1>5, ListGrows DEF HonestAt, Typed
      <4>3. u.resumes = <<s.pos + 1>>
        BY <1>7, <1>13, <2>1, <4>1, SingleListed
      <4>4. /\ Asked(u, r.step, Current(c, r), p, w) /\ Granted(u, r.step, w, d)
            /\ Resumed(u, d, s.pos + 1)
        BY <1>13, <4>1, <4>2, <4>3 DEF Same, Asked, Granted, Resumed
      <4> QED BY <1>13, <4>1, <4>4 DEF Same, Cycle
    <3> QED BY <1>5, <1>7, <1>8, <1>13, <2>1, <3>1, <3>3
            DEF HonestAt, Cycles, Current, Same, Ordinary
  <2>2. CASE ~Allowed(r)
    <3>1. u.resumes = s.resumes /\ ~Allowed(r2)
      BY <1>7, <1>8, <1>13, <2>2 DEF Allowed
    <3> QED BY <1>5, <1>7, <1>8, <1>13, <2>2, <3>1
            DEF HonestAt, Cycles, Current, Same, Ordinary
  <2> QED BY <2>1, <2>2
<1> QED BY <1>4, <1>11, <1>12, <1>14, <1>15, <1>16, <1>17, <1>18, <1>19
        DEF Honest, HonestAt

LEMMA ProposeMoves ==
  ASSUME NEW c, Good(c), NEW m \in Modes, NEW r, NEW t, Honest(c, m, r, t),
         r.at = "propose"
  PROVE  Honest(c, m, NextRun(c, m, r), NextTrace(c, r, t))
<1>1. PICK s : s = Read(t, c.actions, m)
  OBVIOUS
<1>2. PICK a : a = ActionAt(c.actions, r.step)
  OBVIOUS
<1>3. PICK r2, e, t2, u :
        /\ r2 = [r EXCEPT !.at = "dispatch"]
        /\ e = Event("policy.action", r.step, a.tool, 0, 0, a)
        /\ t2 = t \o <<e>> /\ u = Then(s, e)
  OBVIOUS
<1>5. HonestAt(c, m, r, t, s)
  BY <1>1 DEF Honest
<1>6. /\ Open(s)
      /\ IF r.approved = r.step THEN Calling(c, r, s) ELSE Fresh(r, s)
  BY <1>5 DEF HonestAt, Control
<1>7. /\ r.step \in 0..(Len(c.actions) - 1) /\ r.step \in Nat
      /\ a # NoAction /\ a.type \in {"call_tool", "finish"}
      /\ a.type = "finish" => ~RequiresApproval(a)
  <2>1. r.step \in 0..(Len(c.actions) - 1)
    BY <1>5 DEF HonestAt, Typed
  <2>2. Len(c.actions) \in Nat
    BY DEF Good, Orderly
  <2> QED BY <1>2, <2>1, <2>2, ActionFacts
<1>4. NextRun(c, m, r) = r2 /\ NextTrace(c, r, t) = t2
  BY <1>2, <1>3, <1>7 DEF NextRun, NextTrace
<1>8. /\ DOMAIN r2 = RunFields /\ r2.step = r.step /\ r2.attempt = r.attempt
      /\ r2.context = r.context /\ r2.code = r.code /\ r2.approved = r.approved
      /\ r2.effects = r.effects /\ r2.before = r.before
      /\ r2.status = r.status /\ r2.at = "dispatch"
  BY <1>3, <1>5 DEF HonestAt, Typed, RunFields
<1>9. /\ e.type = "policy.action" /\ e.step = r.step /\ e.data = a /\ e.tool = a.tool
  BY <1>3 DEF Event
<1>10. e.type \in EventTypes /\ Admits(s, e, c.actions, m)
  <2>1. e.type \in EventTypes /\ e.type \in s.next
    BY <1>6, <1>9 DEF Open, EventTypes, RunEvents
  <2>2. e.step \in {s.step, s.step + 1}
    BY <1>6, <1>7, <1>9 DEF Calling, Fresh
  <2> QED BY <1>2, <1>7, <1>9, <2>1, <2>2 DEF Admits, GoodProposal
<1>11. /\ Listed(t) /\ DOMAIN s = ReaderFields /\ s.ok /\ s.pos = Len(t) /\ s.pos \in Nat
       /\ Mirrors(s, t) /\ Told(s.actual, t)
       /\ Listed(s.proposals) /\ Listed(s.actual)
  BY <1>5, ListGrows DEF HonestAt, Typed
<1>12. /\ t2 = Append(t, e) /\ Listed(t2) /\ Len(t2) = s.pos + 1
       /\ Read(t2, c.actions, m) = u /\ Mirrors(u, t2)
  BY <1>1, <1>3, <1>10, <1>11, OneEvent
<1>13. /\ Same(s, u, {"step", "proposals", "actual", "active", "closing", "next"})
       /\ u.step = r.step
       /\ u.proposals = Append(s.proposals, [pos |-> s.pos + 1, step |-> r.step])
       /\ u.actual = IF a.type = "call_tool" /\ r.step > s.step
                     THEN Append(s.actual, a.tool) ELSE s.actual
       /\ u.active = IF a.type = "call_tool" THEN [step |-> r.step, tool |-> a.tool]
                     ELSE NoCall
       /\ u.closing = IF a.type = "call_tool" THEN s.closing ELSE a
       /\ u.next = IF a.type = "call_tool" THEN s.next ELSE {"run.succeeded", "run.failed"}
  BY <1>3, <1>9, <1>11, ThenProposed
<1>20. IF r.approved = r.step THEN s.step = r.step ELSE s.step = r.step - 1
  BY <1>6 DEF Calling, Fresh
<1>14. Typed(c, r2, t2, u)
  <2>1. Listed(u.proposals) /\ Listed(u.actual)
    BY <1>11, <1>13, ListGrows
  <2> QED BY <1>5, <1>8, <1>12, <1>13, <2>1 DEF HonestAt, Typed, Same
<1>15. Control(c, m, r2, u) /\ Told(u.actual, t2)
  <2>1. CASE a.type = "finish"
    <3>1. u.actual = s.actual
      BY <1>13, <2>1
    <3>2. Told(u.actual, t2)
      BY <1>9, <1>11, <1>12, <2>1, <3>1, ToldEnd
    <3> QED BY <1>2, <1>8, <1>13, <2>1, <3>2 DEF Control, Current
  <2>2. CASE a.type = "call_tool" /\ r.approved = r.step
    <3>1. u.actual = s.actual /\ Len(s.actual) = r.step + 1
          /\ s.actual[r.step + 1] = a.tool
      BY <1>2, <1>6, <1>7, <1>13, <1>20, <2>2 DEF Calling, Current
    <3>2. e.step \in 0..(Len(s.actual) - 1)
      BY <1>7, <1>9, <3>1
    <3>3. Told(u.actual, t2)
      BY <1>9, <1>11, <1>12, <2>2, <3>1, <3>2, ToldAgain
    <3>4. Open(u) /\ Calling(c, r2, u)
      BY <1>2, <1>6, <1>8, <1>13, <2>2, <3>1 DEF Same, Open, Calling, Current
    <3> QED BY <1>2, <1>8, <2>2, <3>3, <3>4 DEF Control, Current
  <2>3. CASE a.type = "call_tool" /\ r.approved # r.step
    <3>1. u.actual = Append(s.actual, a.tool) /\ Len(s.actual) = r.step
      BY <1>6, <1>7, <1>13, <1>20, <2>3 DEF Fresh
    <3>2. Told(u.actual, t2)
      BY <1>9, <1>11, <1>12, <2>3, <3>1, ToldNew
    <3>3. Len(u.actual) = r.step + 1 /\ u.actual[r.step + 1] = a.tool
      BY <1>11, <3>1, ListGrows
    <3>4. Open(u) /\ Calling(c, r2, u)
      BY <1>2, <1>6, <1>8, <1>13, <2>3, <3>3 DEF Same, Open, Calling, Current
    <3> QED BY <1>2, <1>8, <2>3, <3>2, <3>4 DEF Control, Current
  <2> QED BY <1>7, <2>1, <2>2, <2>3
<1>17. Accounts(u, r2.step)
  BY <1>5, <1>7, <1>8, <1>13, SteadyAccounts DEF HonestAt, Same
<1>18. Tried(c, r2, u)
  BY <1>5, <1>8, <1>13 DEF HonestAt, Tried, Same
<1>19. Cycles(c, r2, u)
  <2>1. \A step : /\ At(u.starts, step) = At(s.starts, step)
                  /\ step # r.step => At(u.proposals, step) = At(s.proposals, step)
    BY <1>11, <1>13, AtAppend DEF Same
  <2>2. At(u.proposals, r.step)
          = Append(At(s.proposals, r.step), [pos |-> s.pos + 1, step |-> r.step])
    BY <1>11, <1>13, AtAppend
  <2>3. /\ \A step \in Nat : step > s.step => /\ At(s.proposals, step) = <<>>
                                              /\ At(s.starts, step) = <<>>
        /\ \A step \in 0..(r.step - 1) : Ordinary(c, s, step)
        /\ \A step \in Nat : GatedAt(c, step) /\ At(s.starts, step) # <<>> =>
                               step = r.approved
    BY <1>5 DEF HonestAt, Cycles
  <2>4. \A step \in Nat : step > u.step => /\ At(u.proposals, step) = <<>>
                                           /\ At(u.starts, step) = <<>>
    BY <1>7, <1>13, <1>20, <2>1, <2>3
  <2>5. \A step \in 0..(r2.step - 1) : Ordinary(c, u, step)
    BY <1>7, <1>8, <2>1, <2>3 DEF Ordinary
  <2>6. \A step \in Nat : GatedAt(c, step) /\ At(u.starts, step) # <<>> =>
                            step = r2.approved
    BY <1>8, <2>1, <2>3
  <2>7. r2.step # r2.approved =>
          \E p : At(u.proposals, r2.step) = <<p>> /\ p.pos \in Nat /\ p.pos <= u.pos
    <3> SUFFICES ASSUME r2.step # r2.approved
                 PROVE  \E x : /\ At(u.proposals, r2.step) = <<x>>
                               /\ x.pos \in Nat /\ x.pos <= u.pos
      OBVIOUS
    <3>1. PICK p : p = [pos |-> s.pos + 1, step |-> r.step]
      OBVIOUS
    <3>2. p.pos \in Nat /\ p.pos <= u.pos
      BY <1>11, <1>13, <3>1 DEF Same
    <3>3. At(s.proposals, r.step) = <<>>
      BY <1>7, <1>8, <1>20, <2>3
    <3>4. At(u.proposals, r2.step) = <<p>>
      BY <1>8, <2>2, <3>1, <3>3, SingleListed
    <3> WITNESS p
    <3> QED BY <3>2, <3>4
  <2>8. CASE Allowed(r) /\ r.approved = r.step
    <3>1. StageOf(r) = "resumed" /\ StageOf(r2) = "repeated" /\ Allowed(r2)
      BY <1>8, <2>8 DEF StageOf, Allowed
    <3>2. /\ Cycle(s, r.step, a, "resumed") /\ GatedAt(c, r.step) /\ a.valid
      BY <1>2, <1>5, <2>8, <3>1 DEF HonestAt, Cycles
    <3>3. Cycle(u, r.step, a, "repeated")
      <4>1. PICK p, w, d, q : /\ Asked(s, r.step, a, p, w)
                              /\ Granted(s, r.step, w, d) /\ Resumed(s, d, q)
                              /\ At(s.proposals, r.step) = <<p>>
                              /\ At(s.starts, r.step) = <<>>
        BY <3>2 DEF Cycle
      <4>2. PICK o : o = [pos |-> s.pos + 1, step |-> r.step]
        OBVIOUS
      <4>3. /\ Asked(u, r.step, a, p, w) /\ Granted(u, r.step, w, d)
            /\ Resumed(u, d, q) /\ Again(u, q, o)
        BY <1>11, <1>13, <4>1, <4>2 DEF Same, Asked, Granted, Resumed, Again
      <4>4. At(u.proposals, r.step) = <<p, o>> /\ At(u.starts, r.step) = <<>>
        BY <2>1, <2>2, <4>1, <4>2, SingleListed
      <4> QED BY <4>3, <4>4 DEF Cycle
    <3> QED BY <1>2, <1>7, <1>8, <2>4, <2>5, <2>6, <2>7, <2>8, <3>1, <3>2, <3>3 DEF Cycles
  <2>9. CASE Allowed(r) /\ r.approved # r.step
    <3>1. StageOf(r) = "executed" /\ StageOf(r2) = "executed" /\ Allowed(r2)
      BY <1>8, <2>9 DEF StageOf, Allowed
    <3>2. /\ r.approved \in 0..r.step /\ GatedAt(c, r.approved)
          /\ ActionAt(c.actions, r.approved).valid
          /\ Cycle(s, r.approved, ActionAt(c.actions, r.approved), "executed")
      BY <1>5, <2>9, <3>1 DEF HonestAt, Cycles
    <3>3. Cycle(u, r.approved, ActionAt(c.actions, r.approved), "executed")
      <4>1. u.pos = s.pos + 1 /\ u.waits = s.waits /\ u.approvals = s.approvals
            /\ u.resumes = s.resumes
        BY <1>13 DEF Same
      <4> QED BY <1>11, <2>1, <2>9, <3>2, <4>1, SteadyCycle
    <3> QED BY <1>7, <1>8, <2>4, <2>5, <2>6, <2>7, <2>9, <3>1, <3>2, <3>3 DEF Cycles
  <2>10. CASE ~Allowed(r)
    <3>1. /\ r.effects = 0 /\ r.before = 0
          /\ s.waits = <<>> /\ s.approvals = <<>> /\ s.resumes = <<>>
      BY <1>5, <2>10 DEF HonestAt, Cycles
    <3> QED BY <1>8, <1>13, <2>4, <2>5, <2>6, <2>7, <2>10, <3>1 DEF Cycles, Same, Allowed
  <2> QED BY <2>8, <2>9, <2>10
<1> QED BY <1>3, <1>4, <1>12, <1>14, <1>15, <1>17, <1>18, <1>19 DEF Honest, HonestAt

\* What the new trace t is for the reader, after a step that proposes nothing.
Moved(c, m, r, t, u) ==
  /\ Listed(t) /\ Len(t) = u.pos /\ Read(t, c.actions, m) = u
  /\ Mirrors(u, t) /\ Told(u.actual, t)
  /\ \A k \in Nat : r.step <= k => Accounts(u, k)

\* What a step has done when it wrote one event that is no proposal.
LEMMA OneMove ==
  ASSUME NEW c, NEW m, NEW r, NEW t, NEW s, s = Read(t, c.actions, m),
         HonestAt(c, m, r, t, s), r.step \in Nat,
         NEW e, e.type \in EventTypes, e.type # "policy.action",
         Admits(s, e, c.actions, m),
         NEW u, u = Then(s, e), u.pos = s.pos + 1,
         u.actual = s.actual, u.attempts = s.attempts,
         u.faults = s.faults, u.invalid = s.invalid
  PROVE  Moved(c, m, r, t \o <<e>>, u)
<1>1. /\ Listed(t) /\ DOMAIN s = ReaderFields /\ s.ok /\ s.pos = Len(t) /\ s.pos \in Nat
      /\ Mirrors(s, t) /\ Told(s.actual, t)
  BY ListGrows DEF HonestAt, Typed
<1>2. /\ t \o <<e>> = Append(t, e) /\ Listed(t \o <<e>>) /\ Len(t \o <<e>>) = s.pos + 1
      /\ Read(t \o <<e>>, c.actions, m) = u /\ Mirrors(u, t \o <<e>>)
  BY <1>1, OneEvent
<1>3. Told(u.actual, t \o <<e>>)
  BY <1>1, <1>2, ToldOther
<1>4. \A k \in Nat : r.step <= k => Accounts(u, k)
  BY SteadyAccounts DEF HonestAt
<1> QED BY <1>1, <1>2, <1>3, <1>4 DEF Moved

\* What holds of the run and of its action before any step.
LEMMA RunFacts ==
  ASSUME NEW c, Good(c), NEW m, NEW r, NEW t, NEW s, HonestAt(c, m, r, t, s),
         NEW a, a = ActionAt(c.actions, r.step)
  PROVE  /\ r.step \in 0..(Len(c.actions) - 1) /\ r.step \in Nat /\ Current(c, r) = a
         /\ a # NoAction /\ a.type \in {"call_tool", "finish"}
         /\ a.type = "call_tool" =>
              /\ a.tool \in Registered /\ r.step + 1 \in 0..(Len(c.actions) - 1)
              /\ a.valid => Output(a) = a.tool /\ Output(a) # NoOutput
         /\ a.type = "finish" => ~RequiresApproval(a)
         /\ Allowed(r) => /\ r.approved \in 0..r.step /\ r.approved \in Nat
                          /\ GatedAt(c, r.approved)
                          /\ ActionAt(c.actions, r.approved).valid
<1>1. r.step \in 0..(Len(c.actions) - 1)
  BY DEF HonestAt, Typed
<1>2. Len(c.actions) \in Nat
  BY DEF Good, Orderly
<1>3. Allowed(r) => /\ r.approved \in 0..r.step /\ r.approved \in Nat
                    /\ GatedAt(c, r.approved)
                    /\ ActionAt(c.actions, r.approved).valid
  BY <1>1, <1>2 DEF HonestAt, Cycles
<1> QED BY <1>1, <1>2, <1>3, ActionFacts DEF Current

\* Nothing changes where the run is in its cycle.
LEMMA SteadyCycles ==
  ASSUME NEW c, NEW r, NEW s, Cycles(c, r, s), NEW r2, NEW u,
         s.pos \in Nat, u.pos \in Nat, s.pos <= u.pos,
         u.step = s.step, u.proposals = s.proposals, u.starts = s.starts,
         u.waits = s.waits, u.approvals = s.approvals, u.resumes = s.resumes,
         r2.step = r.step, r2.approved = r.approved, r2.effects = r.effects,
         r2.before = r.before, r.at \notin {"enter", "propose"},
         StageOf(r2) = StageOf(r),
         r.at = "stopped" => r.status # "waiting_approval",
         r2.at = "stopped" => r2.status # "waiting_approval"
  PROVE  Cycles(c, r2, u)
<1>1. Allowed(r2) <=> Allowed(r)
  BY DEF Allowed
<1>2. /\ \A step \in Nat : step > u.step => /\ At(u.proposals, step) = <<>>
                                            /\ At(u.starts, step) = <<>>
      /\ \A step \in 0..(r2.step - 1) : Ordinary(c, u, step)
      /\ \A step \in Nat : GatedAt(c, step) /\ At(u.starts, step) # <<>> =>
                             step = r2.approved
  BY DEF Cycles, Ordinary
<1>3. r2.step # r2.approved =>
        \E p : At(u.proposals, r2.step) = <<p>> /\ p.pos \in Nat /\ p.pos <= u.pos
  <2> SUFFICES ASSUME r2.step # r2.approved
               PROVE  \E p : /\ At(u.proposals, r2.step) = <<p>>
                             /\ p.pos \in Nat /\ p.pos <= u.pos
    OBVIOUS
  <2>1. PICK p : At(s.proposals, r.step) = <<p>> /\ p.pos \in Nat /\ p.pos <= s.pos
    BY DEF Cycles
  <2>2. p.pos <= u.pos
    BY <2>1
  <2> QED BY <2>1, <2>2
<1>4. CASE Allowed(r)
  <2>1. StageOf(r) \in {"waiting", "approved", "resumed", "repeated", "executed"}
    BY DEF StageOf
  <2>2. Cycle(u, r.approved, ActionAt(c.actions, r.approved), StageOf(r))
    BY <1>4, <2>1, SteadyCycle DEF Cycles
  <2> QED BY <1>1, <1>2, <1>3, <1>4, <2>2 DEF Cycles
<1>5. CASE ~Allowed(r)
  BY <1>1, <1>2, <1>3, <1>5 DEF Cycles
<1> QED BY <1>4, <1>5

LEMMA FinishMoves ==
  ASSUME NEW c, Good(c), NEW m \in Modes, NEW r, NEW t, Honest(c, m, r, t),
         r.at = "dispatch", ActionAt(c.actions, r.step).type = "finish"
  PROVE  Honest(c, m, NextRun(c, m, r), NextTrace(c, r, t))
<1>1. PICK s, a : s = Read(t, c.actions, m) /\ a = ActionAt(c.actions, r.step)
  OBVIOUS
<1>2. PICK r2, e, t2, u :
        /\ r2 = [r EXCEPT !.status = "succeeded", !.code = a.result, !.at = "stopped"]
        /\ e = Event("run.succeeded", -1, "none", 0, 0, a.result)
        /\ t2 = t \o <<e>> /\ u = Then(s, e)
  OBVIOUS
<1>3. HonestAt(c, m, r, t, s)
  BY <1>1 DEF Honest
<1>4. /\ r.step \in Nat /\ Current(c, r) = a /\ a.type = "finish"
      /\ ~RequiresApproval(a)
      /\ Allowed(r) => GatedAt(c, r.approved)
  BY <1>1, <1>3, RunFacts
<1>5. s.step = r.step /\ s.closing = a /\ s.next = {"run.succeeded", "run.failed"}
  BY <1>3, <1>4 DEF HonestAt, Control
<1>6. NextRun(c, m, r) = r2 /\ NextTrace(c, r, t) = t2
  BY <1>1, <1>2, <1>4 DEF NextRun, NextTrace
<1>7. /\ DOMAIN r2 = RunFields /\ r2.step = r.step /\ r2.attempt = r.attempt
      /\ r2.context = r.context /\ r2.code = a.result /\ r2.approved = r.approved
      /\ r2.effects = r.effects /\ r2.before = r.before
      /\ r2.status = "succeeded" /\ r2.at = "stopped"
  BY <1>2, <1>3 DEF HonestAt, Typed, RunFields
<1>8. e.type = "run.succeeded" /\ e.data = a.result
  BY <1>2 DEF Event
<1>9. e.type \in EventTypes /\ Admits(s, e, c.actions, m)
  BY <1>3, <1>4, <1>5, <1>8
     DEF EventTypes, RunEvents, Admits, GoodEnding, HonestAt, Typed
<1>10. /\ Same(s, u, {"status", "result", "next"}) /\ u.status = "succeeded"
       /\ u.result = a.result /\ u.next = {}
  BY <1>2, <1>3, <1>8, ThenOver DEF HonestAt, Typed
<1>11. /\ Listed(t2) /\ Len(t2) = s.pos + 1 /\ s.pos \in Nat
       /\ Read(t2, c.actions, m) = u /\ Mirrors(u, t2) /\ Told(u.actual, t2)
       /\ Accounts(u, r2.step)
  <2>1. u.actual = s.actual /\ u.attempts = s.attempts /\ u.faults = s.faults
        /\ u.invalid = s.invalid /\ e.type # "policy.action"
    BY <1>8, <1>10 DEF Same
  <2>2. u = Then(s, e) /\ u.pos = s.pos + 1 /\ r.step \in Nat /\ s = Read(t, c.actions, m)
    BY <1>1, <1>2, <1>4, <1>10 DEF Same
  <2>3. Moved(c, m, r, t \o <<e>>, u)
    BY <1>3, <1>9, <2>1, <2>2, OneMove
  <2>4. Moved(c, m, r, t2, u)
    BY <1>2, <2>3
  <2>5. s.pos \in Nat
    BY <1>3, ListGrows DEF HonestAt, Typed
  <2> QED BY <1>7, <2>2, <2>4, <2>5 DEF Moved
<1>12. Typed(c, r2, t2, u)
  BY <1>3, <1>7, <1>10, <1>11 DEF HonestAt, Typed, Same
<1>13. Control(c, m, r2, u)
  BY <1>5, <1>7, <1>10 DEF Control, Same
<1>14. Tried(c, r2, u)
  BY <1>3, <1>7, <1>10 DEF HonestAt, Tried, Same
<1>15. Cycles(c, r2, u)
  <2>1. StageOf(r2) = StageOf(r)
    <3>1. r.step # r.approved
      BY <1>1, <1>4 DEF GatedAt, Allowed, NoStep
    <3> QED BY <1>7, <3>1 DEF StageOf
  <2>2. /\ u.pos = s.pos + 1 /\ u.step = s.step /\ u.proposals = s.proposals
        /\ u.starts = s.starts /\ u.waits = s.waits /\ u.approvals = s.approvals
        /\ u.resumes = s.resumes
    BY <1>10 DEF Same
  <2> QED BY <1>3, <1>7, <1>11, <2>1, <2>2, SteadyCycles DEF HonestAt
<1> QED BY <1>6, <1>11, <1>12, <1>13, <1>14, <1>15 DEF Honest, HonestAt

LEMMA RefuseMoves ==
  ASSUME NEW c, Good(c), NEW m \in Modes, NEW r, NEW t, Honest(c, m, r, t),
         r.at = "dispatch",
         ActionAt(c.actions, r.step).type = "call_tool",
         ~ActionAt(c.actions, r.step).valid
  PROVE  Honest(c, m, NextRun(c, m, r), NextTrace(c, r, t))
<1>1. PICK s, a : s = Read(t, c.actions, m) /\ a = ActionAt(c.actions, r.step)
  OBVIOUS
<1>2. PICK r2, e, t2, u :
        /\ r2 = [r EXCEPT !.at = "fail", !.code = "invalid_input"]
        /\ e = Event("tool.preflight.failed", r.step, a.tool, 0, 0, "invalid_input")
        /\ t2 = t \o <<e>> /\ u = Then(s, e)
  OBVIOUS
<1>3. HonestAt(c, m, r, t, s)
  BY <1>1 DEF Honest
<1>4. /\ r.step \in Nat /\ Current(c, r) = a /\ a.type = "call_tool" /\ ~a.valid
      /\ r.at = "dispatch"
      /\ Allowed(r) => ActionAt(c.actions, r.approved).valid
  BY <1>1, <1>3, RunFacts
<1>5. Open(s) /\ Calling(c, r, s)
  BY <1>3, <1>4 DEF HonestAt, Control
<1>6. NextRun(c, m, r) = r2 /\ NextTrace(c, r, t) = t2
  BY <1>1, <1>2, <1>4 DEF NextRun, NextTrace
<1>7. /\ DOMAIN r2 = RunFields
      /\ r2.step = r.step /\ r2.attempt = r.attempt /\ r2.context = r.context
      /\ r2.code = "invalid_input" /\ r2.approved = r.approved /\ r2.effects = r.effects
      /\ r2.before = r.before /\ r2.status = r.status /\ r2.at = "fail"
  BY <1>2, <1>3 DEF HonestAt, Typed, RunFields
<1>8. /\ e.type = "tool.preflight.failed" /\ e.data = "invalid_input"
      /\ e.step = r.step /\ e.tool = a.tool
  BY <1>1, <1>2 DEF Event
<1>9. e.type \in EventTypes /\ Admits(s, e, c.actions, m)
  <2>1. s.active = CallOf(e) /\ s.active # NoCall
    BY <1>4, <1>5, <1>8 DEF Calling, CallOf, NoCall
  <2>2. s.started = {}
    BY <1>3 DEF HonestAt, Typed
  <2> QED BY <1>5, <1>8, <2>1, <2>2
          DEF Open, EventTypes, RunEvents, Admits, GoodPreflight, PreflightCodes
<1>10. /\ Same(s, u, {"refused", "next"})
       /\ u.refused = "invalid_input" /\ u.next = {"run.failed"}
  BY <1>2, <1>3, <1>8, ThenRefused DEF HonestAt, Typed
<1>11. /\ Listed(t2) /\ Len(t2) = s.pos + 1 /\ s.pos \in Nat
       /\ Read(t2, c.actions, m) = u /\ Mirrors(u, t2) /\ Told(u.actual, t2)
       /\ Accounts(u, r2.step)
  <2>1. u.actual = s.actual /\ u.attempts = s.attempts /\ u.faults = s.faults
        /\ u.invalid = s.invalid /\ e.type # "policy.action"
    BY <1>8, <1>10 DEF Same
  <2>2. u = Then(s, e) /\ u.pos = s.pos + 1 /\ r.step \in Nat /\ s = Read(t, c.actions, m)
    BY <1>1, <1>2, <1>4, <1>10 DEF Same
  <2>3. Moved(c, m, r, t \o <<e>>, u)
    BY <1>3, <1>9, <2>1, <2>2, OneMove
  <2>4. Moved(c, m, r, t2, u)
    BY <1>2, <2>3
  <2>5. s.pos \in Nat
    BY <1>3, ListGrows DEF HonestAt, Typed
  <2> QED BY <1>7, <2>2, <2>4, <2>5 DEF Moved
<1>12. Typed(c, r2, t2, u)
  BY <1>3, <1>7, <1>10, <1>11 DEF HonestAt, Typed, Same
<1>13. Control(c, m, r2, u)
  <2>1. Calling(c, r2, u) /\ u.closing = NoAction
    BY <1>5, <1>7, <1>10 DEF Open, Calling, Current, Same
  <2> QED BY <1>7, <1>10, <2>1 DEF Control
<1>14. Tried(c, r2, u)
  BY <1>3, <1>4, <1>7, <1>10 DEF HonestAt, Tried, Same
<1>15. Cycles(c, r2, u)
  <2>1. StageOf(r2) = StageOf(r)
    <3>1. r.step # r.approved
      BY <1>1, <1>4 DEF Allowed, NoStep
    <3> QED BY <1>7, <3>1 DEF StageOf
  <2>2. /\ u.pos = s.pos + 1 /\ u.step = s.step /\ u.proposals = s.proposals
        /\ u.starts = s.starts /\ u.waits = s.waits /\ u.approvals = s.approvals
        /\ u.resumes = s.resumes
    BY <1>10 DEF Same
  <2> QED BY <1>3, <1>4, <1>7, <1>11, <2>1, <2>2, SteadyCycles DEF HonestAt
<1> QED BY <1>6, <1>11, <1>12, <1>13, <1>14, <1>15 DEF Honest, HonestAt

LEMMA WaitMoves ==
  ASSUME NEW c, Good(c), NEW m \in Modes, NEW r, NEW t, Honest(c, m, r, t),
         r.at = "dispatch",
         ActionAt(c.actions, r.step).type = "call_tool",
         ActionAt(c.actions, r.step).valid,
         RequiresApproval(ActionAt(c.actions, r.step)),
         r.approved # r.step
  PROVE  Honest(c, m, NextRun(c, m, r), NextTrace(c, r, t))
<1>1. PICK s, a : s = Read(t, c.actions, m) /\ a = ActionAt(c.actions, r.step)
  OBVIOUS
<1>2. PICK r2, e, t2, u :
        /\ r2 = [r EXCEPT !.status = "waiting_approval", !.at = "stopped"]
        /\ e = Event("run.waiting_approval", r.step, a.tool, 0, 0, a)
        /\ t2 = t \o <<e>> /\ u = Then(s, e)
  OBVIOUS
<1>3. HonestAt(c, m, r, t, s)
  BY <1>1 DEF Honest
<1>4. /\ r.step \in Nat /\ Current(c, r) = a /\ a.type = "call_tool" /\ a.valid
      /\ r.at = "dispatch" /\ r.approved # r.step
      /\ RequiresApproval(a) /\ GatedAt(c, r.step)
      /\ Allowed(r) => r.approved \in Nat /\ GatedAt(c, r.approved)
  BY <1>1, <1>3, RunFacts DEF GatedAt
<1>5. Open(s) /\ Calling(c, r, s)
  BY <1>3, <1>4 DEF HonestAt, Control
<1>6. NextRun(c, m, r) = r2 /\ NextTrace(c, r, t) = t2
  BY <1>1, <1>2, <1>4 DEF NextRun, NextTrace
<1>7. /\ DOMAIN r2 = RunFields
      /\ r2.step = r.step /\ r2.attempt = r.attempt /\ r2.context = r.context
      /\ r2.code = r.code /\ r2.approved = r.approved /\ r2.effects = r.effects
      /\ r2.before = r.before /\ r2.status = "waiting_approval" /\ r2.at = "stopped"
  BY <1>2, <1>3 DEF HonestAt, Typed, RunFields
<1>8. /\ e.type = "run.waiting_approval" /\ e.data = a
      /\ e.step = r.step /\ e.tool = a.tool
  BY <1>1, <1>2 DEF Event
<1>9. e.type \in EventTypes /\ Admits(s, e, c.actions, m)
  <2>1. s.active = CallOf(e) /\ s.active # NoCall
    BY <1>4, <1>5, <1>8 DEF Calling, CallOf, NoCall
  <2> QED BY <1>5, <1>8, <2>1
          DEF Open, EventTypes, RunEvents, Admits, GoodWait
<1>10. /\ Same(s, u, {"waits"})
       /\ u.waits = Append(s.waits, [pos |-> s.pos + 1, step |-> r.step,
                                      tool |-> a.tool, action |-> a])
  BY <1>2, <1>3, <1>8, ThenWaiting DEF HonestAt, Typed
<1>11. /\ Listed(t2) /\ Len(t2) = s.pos + 1 /\ s.pos \in Nat
       /\ Read(t2, c.actions, m) = u /\ Mirrors(u, t2) /\ Told(u.actual, t2)
       /\ Accounts(u, r2.step)
  <2>1. u.actual = s.actual /\ u.attempts = s.attempts /\ u.faults = s.faults
        /\ u.invalid = s.invalid /\ e.type # "policy.action"
    BY <1>8, <1>10 DEF Same
  <2>2. u = Then(s, e) /\ u.pos = s.pos + 1 /\ r.step \in Nat /\ s = Read(t, c.actions, m)
    BY <1>1, <1>2, <1>4, <1>10 DEF Same
  <2>3. Moved(c, m, r, t \o <<e>>, u)
    BY <1>3, <1>9, <2>1, <2>2, OneMove
  <2>4. Moved(c, m, r, t2, u)
    BY <1>2, <2>3
  <2>5. s.pos \in Nat
    BY <1>3, ListGrows DEF HonestAt, Typed
  <2> QED BY <1>7, <2>2, <2>4, <2>5 DEF Moved
<1>12. Typed(c, r2, t2, u)
  <2>1. Listed(u.waits)
    BY <1>3, <1>10, ListGrows DEF HonestAt, Typed
  <2> QED BY <1>3, <1>7, <1>10, <1>11, <2>1 DEF HonestAt, Typed, Same
<1>13. Control(c, m, r2, u)
  <2>1. Open(u) /\ Calling(c, r2, u)
    BY <1>5, <1>7, <1>10 DEF Open, Calling, Current, Same
  <2> QED BY <1>7, <1>10, <2>1 DEF Control
<1>14. Tried(c, r2, u)
  BY <1>3, <1>4, <1>7, <1>10 DEF HonestAt, Tried, Same
<1>15. Cycles(c, r2, u)
  <2>1. ~Allowed(r) /\ ~Allowed(r2)
    BY <1>4, <1>7, OneGated DEF Allowed
  <2>2. /\ s.waits = <<>> /\ s.approvals = <<>> /\ s.resumes = <<>>
        /\ r.effects = 0 /\ r.before = 0
    BY <1>3, <1>4, <2>1 DEF HonestAt, Cycles
  <2>3. PICK p : At(s.proposals, r.step) = <<p>> /\ p.pos \in Nat /\ p.pos <= s.pos
    BY <1>3, <1>4 DEF HonestAt, Cycles
  <2>4. At(s.starts, r.step) = <<>>
    BY <1>3, <1>4 DEF HonestAt, Cycles
  <2>5. PICK w : w = [pos |-> s.pos + 1, step |-> r.step, tool |-> a.tool, action |-> a]
    OBVIOUS
  <2>11. w.pos = s.pos + 1 /\ w.step = r.step /\ w.action = a
    BY <2>5
  <2>6. u.waits = <<w>>
    <3>1. u.waits = Append(s.waits, w)
      BY <1>10, <2>5
    <3> QED BY <2>2, <3>1, SingleListed
  <2>7. Asked(u, r.step, a, p, w)
    <3>1. /\ u.pos = s.pos + 1 /\ s.pos \in Nat /\ p.pos \in Nat /\ p.pos <= s.pos
          /\ w.pos = s.pos + 1
      BY <1>10, <1>11, <2>3, <2>11 DEF Same
    <3>2. p.pos < w.pos /\ w.pos <= u.pos /\ w.pos \in Nat
      BY <3>1
    <3> QED BY <2>6, <2>11, <3>1, <3>2 DEF Asked
  <2>8. Cycle(u, r.step, a, "waiting")
    BY <1>10, <2>2, <2>3, <2>4, <2>7 DEF Same, Cycle
  <2>9. /\ \A step \in Nat : step > u.step => /\ At(u.proposals, step) = <<>>
                                              /\ At(u.starts, step) = <<>>
        /\ \A step \in 0..(r2.step - 1) : Ordinary(c, u, step)
        /\ \A step \in Nat : GatedAt(c, step) /\ At(u.starts, step) # <<>> =>
                               step = r2.approved
    BY <1>3, <1>7, <1>10 DEF HonestAt, Cycles, Ordinary, Same
  <2>10. At(u.proposals, r2.step) = <<p>> /\ p.pos <= u.pos
    BY <1>7, <1>10, <1>11, <2>3 DEF Same
  <2> QED BY <1>1, <1>4, <1>7, <2>1, <2>2, <2>3, <2>8, <2>9, <2>10 DEF Cycles, Current
<1> QED BY <1>6, <1>11, <1>12, <1>13, <1>14, <1>15 DEF Honest, HonestAt

LEMMA FailMoves ==
  ASSUME NEW c, Good(c), NEW m \in Modes, NEW r, NEW t, Honest(c, m, r, t),
         r.at = "fail"
  PROVE  Honest(c, m, NextRun(c, m, r), NextTrace(c, r, t))
<1>1. PICK s, a : s = Read(t, c.actions, m) /\ a = ActionAt(c.actions, r.step)
  OBVIOUS
<1>2. PICK r2, e, t2, u :
        /\ r2 = [r EXCEPT !.status = "failed", !.at = "stopped"]
        /\ e = Event("run.failed", -1, "none", 0, 0, r.code)
        /\ t2 = t \o <<e>> /\ u = Then(s, e)
  OBVIOUS
<1>3. HonestAt(c, m, r, t, s)
  BY <1>1 DEF Honest
<1>4. r.step \in Nat /\ Current(c, r) = a /\ r.at = "fail"
  BY <1>1, <1>3, RunFacts
<1>5. /\ Calling(c, r, s) /\ s.closing = NoAction
      /\ \/ s.refused = r.code /\ r.code # "none" /\ s.next = {"run.failed"}
         \/ /\ s.refused = "none" /\ s.next = EventTypes
            /\ s.attempts # <<>> /\ Last(s.attempts).status = "failed"
  BY <1>3, <1>4 DEF HonestAt, Control
<1>6. NextRun(c, m, r) = r2 /\ NextTrace(c, r, t) = t2
  BY <1>1, <1>2, <1>4 DEF NextRun, NextTrace
<1>7. /\ DOMAIN r2 = RunFields
      /\ r2.step = r.step /\ r2.attempt = r.attempt /\ r2.context = r.context
      /\ r2.code = r.code /\ r2.approved = r.approved /\ r2.effects = r.effects
      /\ r2.before = r.before /\ r2.status = "failed" /\ r2.at = "stopped"
  BY <1>2, <1>3 DEF HonestAt, Typed, RunFields
<1>8. /\ e.type = "run.failed" /\ e.data = r.code
  BY <1>1, <1>2 DEF Event
<1>9. e.type \in EventTypes /\ Admits(s, e, c.actions, m)
  <2>1. s.closing.type \notin {"finish", "fail"}
    BY <1>5 DEF NoAction, Act
  <2>2. s.started = {} /\ s.denied = FALSE
    BY <1>3 DEF HonestAt, Typed
  <2>3. e.type \in EventTypes /\ e.type \in s.next
    BY <1>5, <1>8 DEF EventTypes, RunEvents
  <2>4. GoodEnding(s, e, c.actions, m)
    BY <1>5, <1>8, <2>1, <2>2 DEF GoodEnding
  <2> QED BY <1>8, <2>3, <2>4 DEF Admits
<1>10. /\ Same(s, u, {"status", "result", "next"})
       /\ u.status = "failed" /\ u.result = r.code /\ u.next = {}
  BY <1>2, <1>3, <1>8, ThenOver DEF HonestAt, Typed
<1>11. /\ Listed(t2) /\ Len(t2) = s.pos + 1 /\ s.pos \in Nat
       /\ Read(t2, c.actions, m) = u /\ Mirrors(u, t2) /\ Told(u.actual, t2)
       /\ Accounts(u, r2.step)
  <2>1. u.actual = s.actual /\ u.attempts = s.attempts /\ u.faults = s.faults
        /\ u.invalid = s.invalid /\ e.type # "policy.action"
    BY <1>8, <1>10 DEF Same
  <2>2. u = Then(s, e) /\ u.pos = s.pos + 1 /\ r.step \in Nat /\ s = Read(t, c.actions, m)
    BY <1>1, <1>2, <1>4, <1>10 DEF Same
  <2>3. Moved(c, m, r, t \o <<e>>, u)
    BY <1>3, <1>9, <2>1, <2>2, OneMove
  <2>4. Moved(c, m, r, t2, u)
    BY <1>2, <2>3
  <2>5. s.pos \in Nat
    BY <1>3, ListGrows DEF HonestAt, Typed
  <2> QED BY <1>7, <2>2, <2>4, <2>5 DEF Moved
<1>12. Typed(c, r2, t2, u)
  BY <1>3, <1>7, <1>10, <1>11 DEF HonestAt, Typed, Same
<1>13. Control(c, m, r2, u)
  <2>1. u.step = r2.step
    BY <1>5, <1>7, <1>10 DEF Calling, Same
  <2> QED BY <1>7, <1>10, <2>1 DEF Control
<1>14. Tried(c, r2, u)
  BY <1>3, <1>4, <1>7, <1>10 DEF HonestAt, Tried, Same
<1>15. Cycles(c, r2, u)
  <2>1. StageOf(r2) = StageOf(r)
    BY <1>4, <1>7 DEF StageOf
  <2>2. /\ u.pos = s.pos + 1 /\ u.step = s.step /\ u.proposals = s.proposals
        /\ u.starts = s.starts /\ u.waits = s.waits /\ u.approvals = s.approvals
        /\ u.resumes = s.resumes
    BY <1>10 DEF Same
  <2> QED BY <1>3, <1>4, <1>7, <1>11, <2>1, <2>2, SteadyCycles DEF HonestAt
<1> QED BY <1>6, <1>11, <1>12, <1>13, <1>14, <1>15 DEF Honest, HonestAt

LEMMA ApproveMoves ==
  ASSUME NEW c, Good(c), NEW m \in Modes, NEW r, NEW t, Honest(c, m, r, t),
         r.at = "stopped",
         r.status = "waiting_approval",
         ~Allowed(r)
  PROVE  Honest(c, m, NextRun(c, m, r), NextTrace(c, r, t))
<1>1. PICK s, a : s = Read(t, c.actions, m) /\ a = ActionAt(c.actions, r.step)
  OBVIOUS
<1>2. PICK r2, e, t2, u :
        /\ r2 = [r EXCEPT !.at = "enter", !.approved = r.step, !.before = r.effects]
        /\ e = Event("approval.recorded", r.step, a.tool, 0, 0,
                   [action |-> a, actor |-> Reviewer, allow |-> TRUE])
        /\ t2 = t \o <<e>> /\ u = Then(s, e)
  OBVIOUS
<1>3. HonestAt(c, m, r, t, s)
  BY <1>1 DEF Honest
<1>4. /\ r.step \in Nat /\ Current(c, r) = a /\ r.at = "stopped" /\ ~Allowed(r)
      /\ r.status = "waiting_approval"
  BY <1>1, <1>3, RunFacts
<1>5. Open(s) /\ Calling(c, r, s)
  BY <1>3, <1>4 DEF HonestAt, Control
<1>6. NextRun(c, m, r) = r2 /\ NextTrace(c, r, t) = t2
  BY <1>1, <1>2, <1>4 DEF NextRun, NextTrace
<1>7. /\ DOMAIN r2 = RunFields
      /\ r2.step = r.step /\ r2.attempt = r.attempt /\ r2.context = r.context
      /\ r2.code = r.code /\ r2.approved = r.step /\ r2.effects = r.effects
      /\ r2.before = r.effects /\ r2.status = r.status /\ r2.at = "enter"
  BY <1>2, <1>3 DEF HonestAt, Typed, RunFields
<1>8. /\ e.type = "approval.recorded" /\ e.step = r.step
      /\ e.data = [action |-> a, actor |-> Reviewer, allow |-> TRUE]
      /\ e.data.action = a /\ e.data.actor = Reviewer /\ e.data.allow
  BY <1>1, <1>2 DEF Event
<1>9. e.type \in EventTypes /\ Admits(s, e, c.actions, m)
  <2>1. ActionAt(c.actions, e.step) = e.data.action
    BY <1>1, <1>8
  <2>2. s.active = [step |-> e.step, tool |-> e.data.action.tool]
    BY <1>4, <1>5, <1>8 DEF Calling
  <2>3. e.type \in EventTypes /\ e.type \in s.next
    BY <1>5, <1>8 DEF EventTypes, RunEvents, Open
  <2> QED BY <1>8, <2>1, <2>2, <2>3 DEF Admits, GoodApproval
<1>10. /\ Same(s, u, {"approvals"})
       /\ u.approvals = Append(s.approvals, [pos |-> s.pos + 1, step |-> r.step,
                                             action |-> a, actor |-> Reviewer,
                                             allow |-> TRUE])
  <2>1. DOMAIN s = ReaderFields
    BY <1>3 DEF HonestAt, Typed
  <2>2. /\ Same(s, u, {"approvals"})
        /\ u.approvals = Append(s.approvals, [pos |-> s.pos + 1, step |-> e.step,
                                              action |-> e.data.action,
                                              actor |-> e.data.actor,
                                              allow |-> e.data.allow])
    <3>1. e.type = "approval.recorded" /\ e.data.allow
      BY <1>8
    <3>2. u = Then(s, e)
      BY <1>2
    <3> QED BY <2>1, <3>1, <3>2, ThenApproved
  <2>3. e.data.allow = TRUE
    BY <1>8
  <2> QED BY <1>8, <2>2, <2>3
<1>11. /\ Listed(t2) /\ Len(t2) = s.pos + 1 /\ s.pos \in Nat
       /\ Read(t2, c.actions, m) = u /\ Mirrors(u, t2) /\ Told(u.actual, t2)
       /\ Accounts(u, r2.step)
  <2>1. u.actual = s.actual /\ u.attempts = s.attempts /\ u.faults = s.faults
        /\ u.invalid = s.invalid /\ e.type # "policy.action"
    BY <1>8, <1>10 DEF Same
  <2>2. u = Then(s, e) /\ u.pos = s.pos + 1 /\ r.step \in Nat /\ s = Read(t, c.actions, m)
    BY <1>1, <1>2, <1>4, <1>10 DEF Same
  <2>3. Moved(c, m, r, t \o <<e>>, u)
    BY <1>3, <1>9, <2>1, <2>2, OneMove
  <2>4. Moved(c, m, r, t2, u)
    BY <1>2, <2>3
  <2>5. s.pos \in Nat
    BY <1>3, ListGrows DEF HonestAt, Typed
  <2> QED BY <1>7, <2>2, <2>4, <2>5 DEF Moved
<1>12. Typed(c, r2, t2, u)
  <2>1. Listed(u.approvals)
    BY <1>3, <1>10, ListGrows DEF HonestAt, Typed
  <2> QED BY <1>3, <1>7, <1>10, <1>11, <2>1 DEF HonestAt, Typed, Same
<1>13. Control(c, m, r2, u)
  <2>1. Open(u) /\ Calling(c, r2, u)
    BY <1>5, <1>7, <1>10 DEF Open, Calling, Current, Same
  <2>2. Allowed(r2)
    BY <1>4, <1>7 DEF Allowed, NoStep
  <2> QED BY <1>4, <1>7, <1>10, <2>1, <2>2 DEF Control
<1>14. Tried(c, r2, u)
  BY <1>3, <1>4, <1>7, <1>10 DEF HonestAt, Tried, Same
<1>15. Cycles(c, r2, u)
  <2>1. Allowed(r2) /\ StageOf(r2) = "approved"
    BY <1>4, <1>7 DEF Allowed, NoStep, StageOf
  <2>2. /\ Cycle(s, r.step, a, "waiting") /\ r.effects = 0
        /\ GatedAt(c, r.step) /\ a.valid
    BY <1>3, <1>4 DEF HonestAt, Cycles
  <2>3. PICK p, w : /\ Asked(s, r.step, a, p, w) /\ At(s.proposals, r.step) = <<p>>
                    /\ At(s.starts, r.step) = <<>>
                    /\ s.approvals = <<>> /\ s.resumes = <<>>
    BY <2>2 DEF Cycle
  <2>4. PICK d : d = [pos |-> s.pos + 1, step |-> r.step, action |-> a,
                      actor |-> Reviewer, allow |-> TRUE]
    OBVIOUS
  <2>5. u.approvals = <<d>>
    BY <1>10, <2>3, <2>4, SingleListed
  <2>6. Asked(u, r.step, a, p, w) /\ Granted(u, r.step, w, d)
    BY <1>10, <1>11, <2>3, <2>4, <2>5 DEF Same, Asked, Granted
  <2>7. Cycle(u, r.step, a, "approved")
    BY <1>10, <2>3, <2>6 DEF Same, Cycle
  <2>8. /\ \A step \in Nat : step > u.step => /\ At(u.proposals, step) = <<>>
                                              /\ At(u.starts, step) = <<>>
        /\ \A step \in 0..(r2.step - 1) : Ordinary(c, u, step)
    BY <1>3, <1>7, <1>10 DEF HonestAt, Cycles, Ordinary, Same
  <2>9. \A step \in Nat : GatedAt(c, step) /\ At(u.starts, step) # <<>> =>
                             step = r2.approved
    BY <1>3, <1>4, <1>7, <1>10 DEF HonestAt, Cycles, Same, Allowed, NoStep
  <2> QED BY <1>1, <1>4, <1>7, <2>1, <2>2, <2>7, <2>8, <2>9 DEF Cycles
<1> QED BY <1>6, <1>11, <1>12, <1>13, <1>14, <1>15 DEF Honest, HonestAt

LEMMA CheckpointMoves ==
  ASSUME NEW c, Good(c), NEW m \in Modes, NEW r, NEW t, Honest(c, m, r, t),
         r.at = "checkpoint"
  PROVE  Honest(c, m, NextRun(c, m, r), NextTrace(c, r, t))
<1>1. PICK s, a : s = Read(t, c.actions, m) /\ a = ActionAt(c.actions, r.step)
  OBVIOUS
<1>2. PICK r2, e, t2, u :
        /\ r2 = [r EXCEPT !.at = "propose", !.step = @ + 1, !.attempt = 0,
                      !.context = Append(@, [step |-> r.step, tool |-> a.tool,
                                             output |-> Output(a)])]
        /\ e = Event("run.checkpointed", r.step, a.tool, r.attempt, 0,
                   [output |-> Output(a),
                    context |-> Append(r.context, [step |-> r.step, tool |-> a.tool,
                                                   output |-> Output(a)])])
        /\ t2 = t \o <<e>> /\ u = Then(s, e)
  OBVIOUS
<1>3. HonestAt(c, m, r, t, s)
  BY <1>1 DEF Honest
<1>4. r.step \in Nat /\ Current(c, r) = a /\ r.at = "checkpoint"
  BY <1>1, <1>3, RunFacts
<1>5. /\ Calling(c, r, s) /\ a.type = "call_tool" /\ a.valid
      /\ s.next = {"run.checkpointed"}
      /\ s.pending = Output(a) /\ s.refused = "none" /\ s.closing = NoAction
      /\ RequiresApproval(a) => r.approved = r.step
  BY <1>3, <1>4 DEF HonestAt, Control, Calling
<1>16. /\ Output(a) # NoOutput /\ r.step + 1 \in 0..(Len(c.actions) - 1)
       /\ Allowed(r) => /\ r.approved \in 0..r.step /\ r.approved \in Nat
                        /\ GatedAt(c, r.approved)
                        /\ ActionAt(c.actions, r.approved).valid
  BY <1>1, <1>3, <1>5, RunFacts
<1>6. NextRun(c, m, r) = r2 /\ NextTrace(c, r, t) = t2
  BY <1>1, <1>2, <1>4 DEF NextRun, NextTrace
<1>7. /\ DOMAIN r2 = RunFields
      /\ r2.step = r.step + 1 /\ r2.attempt = 0 /\ r2.context = Append(r.context, [step |-> r.step, tool |-> a.tool, output |-> Output(a)])
      /\ r2.code = r.code /\ r2.approved = r.approved /\ r2.effects = r.effects
      /\ r2.before = r.before /\ r2.status = r.status /\ r2.at = "propose"
  BY <1>2, <1>3 DEF HonestAt, Typed, RunFields
<1>8. /\ e.type = "run.checkpointed" /\ e.step = r.step /\ e.tool = a.tool
      /\ e.attempt = r.attempt /\ e.data.context = r2.context
      /\ e.data = [output |-> Output(a),
                   context |-> Append(r.context, [step |-> r.step, tool |-> a.tool,
                                                  output |-> Output(a)])]
  BY <1>1, <1>2, <1>7 DEF Event
<1>9. e.type \in EventTypes /\ Admits(s, e, c.actions, m)
  <2>1. CallOf(e) = s.active
    BY <1>4, <1>5, <1>8 DEF Calling, CallOf
  <2>2. e.attempt = Last(s.attempts).attempt
    BY <1>3, <1>4, <1>8 DEF HonestAt, Tried
  <2>3. s.accepted = r.context
    BY <1>3 DEF HonestAt, Typed
  <2>4. GoodCheckpoint(s, e, c.actions, m)
    BY <1>5, <1>8, <1>16, <2>1, <2>2, <2>3 DEF GoodCheckpoint
  <2> QED BY <1>5, <1>8, <2>4 DEF Admits, EventTypes, RunEvents
<1>10. /\ Same(s, u, {"accepted", "pending", "active", "next"})
       /\ u.accepted = r2.context /\ u.pending = NoOutput
       /\ u.active = NoCall /\ u.next = EventTypes
  <2>1. DOMAIN s = ReaderFields
    BY <1>3 DEF HonestAt, Typed
  <2>2. /\ Same(s, u, {"accepted", "pending", "active", "next"})
        /\ u.accepted = e.data.context /\ u.pending = NoOutput
        /\ u.active = NoCall /\ u.next = EventTypes
    BY <1>2, <1>8, <2>1, ThenCheckpointed
  <2> QED BY <1>8, <2>2
<1>11. /\ Listed(t2) /\ Len(t2) = s.pos + 1 /\ s.pos \in Nat
       /\ Read(t2, c.actions, m) = u /\ Mirrors(u, t2) /\ Told(u.actual, t2)
       /\ Accounts(u, r2.step)
  <2>1. u.actual = s.actual /\ u.attempts = s.attempts /\ u.faults = s.faults
        /\ u.invalid = s.invalid /\ e.type # "policy.action"
    BY <1>8, <1>10 DEF Same
  <2>2. u = Then(s, e) /\ u.pos = s.pos + 1 /\ r.step \in Nat /\ s = Read(t, c.actions, m)
    BY <1>1, <1>2, <1>4, <1>10 DEF Same
  <2>3. Moved(c, m, r, t \o <<e>>, u)
    BY <1>3, <1>9, <2>1, <2>2, OneMove
  <2>4. Moved(c, m, r, t2, u)
    BY <1>2, <2>3
  <2>5. s.pos \in Nat
    BY <1>3, ListGrows DEF HonestAt, Typed
  <2> QED BY <1>7, <2>2, <2>4, <2>5 DEF Moved
<1>12. Typed(c, r2, t2, u)
  <2>1. r2.step \in 0..(Len(c.actions) - 1) /\ r2.attempt \in Nat
    BY <1>7, <1>16
  <2>2. u.accepted = r2.context
    BY <1>10
  <2> QED BY <1>3, <1>7, <1>10, <1>11, <2>1, <2>2 DEF HonestAt, Typed, Same
<1>13. Control(c, m, r2, u)
  <2>1. r2.approved # r2.step
    BY <1>4, <1>7, <1>16 DEF Allowed, NoStep
  <2>2. Open(u) /\ Fresh(r2, u)
    BY <1>4, <1>5, <1>7, <1>10 DEF Open, Fresh, Calling, Same
  <2> QED BY <1>7, <2>1, <2>2 DEF Control
<1>14. Tried(c, r2, u)
  <2>1. \A i \in DOMAIN u.attempts : u.attempts[i].step # r2.step
    BY <1>3, <1>4, <1>7, <1>10 DEF HonestAt, Accounts, Sound, Same
  <2> QED BY <1>7, <2>1 DEF Tried
<1>15. Cycles(c, r2, u)
  <2>1. Allowed(r2) <=> Allowed(r)
    BY <1>7 DEF Allowed
  <2>2. s.step = r.step
    BY <1>5 DEF Calling
  <2>3. /\ \A step \in Nat : step > u.step => /\ At(u.proposals, step) = <<>>
                                              /\ At(u.starts, step) = <<>>
        /\ \A step \in Nat : GatedAt(c, step) /\ At(u.starts, step) # <<>> =>
                               step = r2.approved
        /\ \A step \in 0..(r.step - 1) : Ordinary(c, u, step)
    BY <1>3, <1>7, <1>10 DEF HonestAt, Cycles, Ordinary, Same
  <2>4. Allowed(r) => Cycle(s, r.approved, ActionAt(c.actions, r.approved), "executed")
    BY <1>3, <1>4 DEF HonestAt, Cycles, StageOf
  <2>5. Ordinary(c, u, r.step)
    <3>1. CASE r.approved = r.step
      <4>1. Allowed(r)
        BY <1>4, <3>1 DEF Allowed, NoStep
      <4>2. PICK p, o : At(s.proposals, r.step) = <<p, o>> /\ At(s.starts, r.step) # <<>>
        BY <2>4, <3>1, <4>1 DEF Cycle
      <4>3. GatedAt(c, r.step) /\ Len(<<p, o>>) = 2
        BY <1>16, <3>1, <4>1
      <4> QED BY <1>10, <4>2, <4>3 DEF Same, Ordinary
    <3>2. CASE r.approved # r.step
      <4>1. PICK p : At(s.proposals, r.step) = <<p>>
        BY <1>3, <1>4, <3>2 DEF HonestAt, Cycles
      <4>2. Len(At(s.proposals, r.step)) = 1
        BY <4>1, SingleListed
      <4>3. ~(GatedAt(c, r.step) /\ At(u.starts, r.step) # <<>>)
        BY <1>4, <1>7, <2>3, <3>2
      <4> QED BY <1>10, <4>2, <4>3 DEF Same, Ordinary
    <3> QED BY <3>1, <3>2
  <2>6. \A step \in 0..(r2.step - 1) : Ordinary(c, u, step)
    <3>1. \A step \in 0..(r2.step - 1) : step \in 0..(r.step - 1) \/ step = r.step
      BY <1>4, <1>7
    <3> QED BY <2>3, <2>5, <3>1
  <2>7. CASE Allowed(r)
    <3>1. StageOf(r2) = "executed" /\ r2.approved \in 0..r2.step
      BY <1>4, <1>7, <1>16, <2>7 DEF StageOf
    <3>2. /\ u.pos = s.pos + 1 /\ u.proposals = s.proposals
          /\ u.starts = s.starts /\ u.waits = s.waits /\ u.approvals = s.approvals
          /\ u.resumes = s.resumes
      BY <1>10 DEF Same
    <3>3. Cycle(u, r.approved, ActionAt(c.actions, r.approved), "executed")
      BY <1>11, <2>4, <2>7, <3>2, SteadyCycle
    <3> QED BY <1>7, <1>16, <2>1, <2>3, <2>6, <2>7, <3>1, <3>3 DEF Cycles
  <2>8. CASE ~Allowed(r)
    <3>1. /\ r.effects = 0 /\ r.before = 0
          /\ s.waits = <<>> /\ s.approvals = <<>> /\ s.resumes = <<>>
      BY <1>3, <1>4, <2>8 DEF HonestAt, Cycles
    <3> QED BY <1>7, <1>10, <2>1, <2>3, <2>6, <2>8, <3>1 DEF Cycles, Same
  <2> QED BY <2>7, <2>8
<1> QED BY <1>6, <1>11, <1>12, <1>13, <1>14, <1>15 DEF Honest, HonestAt

LEMMA StartCallMoves ==
  ASSUME NEW c, Good(c), NEW m \in Modes, NEW r, NEW t, Honest(c, m, r, t),
         r.at = "dispatch", ActionAt(c.actions, r.step).type = "call_tool",
         ActionAt(c.actions, r.step).valid,
         ~(RequiresApproval(ActionAt(c.actions, r.step)) /\ r.approved # r.step)
  PROVE  Honest(c, m, NextRun(c, m, r), NextTrace(c, r, t))
<1>1. PICK s, a : s = Read(t, c.actions, m) /\ a = ActionAt(c.actions, r.step)
  OBVIOUS
<1>2. PICK r2 : r2 = [r EXCEPT !.at = "attempt", !.attempt = 1]
  OBVIOUS
<1>3. HonestAt(c, m, r, t, s)
  BY <1>1 DEF Honest
<1>4. /\ r.step \in Nat /\ Current(c, r) = a /\ a.type = "call_tool" /\ a.valid
      /\ RequiresApproval(a) => r.approved = r.step
      /\ r.at = "dispatch"
  BY <1>1, <1>3, RunFacts
<1>5. Open(s) /\ Calling(c, r, s)
  BY <1>3, <1>4 DEF HonestAt, Control
<1>6. NextRun(c, m, r) = r2 /\ NextTrace(c, r, t) = t
  BY <1>1, <1>2, <1>4 DEF NextRun, NextTrace
<1>7. /\ DOMAIN r2 = RunFields
      /\ r2.step = r.step /\ r2.attempt = 1 /\ r2.context = r.context
      /\ r2.code = r.code /\ r2.approved = r.approved /\ r2.effects = r.effects
      /\ r2.before = r.before /\ r2.status = r.status /\ r2.at = "attempt"
  BY <1>2, <1>3 DEF HonestAt, Typed, RunFields
<1>8. Typed(c, r2, t, s)
  BY <1>3, <1>7 DEF HonestAt, Typed
<1>9. Control(c, m, r2, s)
  <2>1. Calling(c, r2, s)
    BY <1>5, <1>7 DEF Calling, Current
  <2>2. Current(c, r2) = a
    BY <1>4, <1>7 DEF Current
  <2>3. r2.attempt \in 1..AttemptLimit(m)
    BY <1>7 DEF AttemptLimit
  <2> QED BY <1>4, <1>5, <1>7, <2>1, <2>2, <2>3 DEF Control
<1>10. Tried(c, r2, s)
  BY <1>3, <1>4, <1>7 DEF HonestAt, Tried
<1>11. Cycles(c, r2, s)
  <2>1. s.pos \in Nat
    BY <1>3, ListGrows DEF HonestAt, Typed
  <2>2. StageOf(r2) = StageOf(r)
    BY <1>4, <1>7 DEF StageOf
  <2> QED BY <1>3, <1>4, <1>7, <2>1, <2>2, SteadyCycles DEF HonestAt
<1> QED BY <1>1, <1>3, <1>6, <1>7, <1>8, <1>9, <1>10, <1>11 DEF Honest, HonestAt

\* The attempt x comes on top of those a run made: it is the first of its call,
\* or follows the last one, which failed for a transient reason.
Fresher(s, x) ==
  /\ x.attempt \in Nat \ {0}
  /\ \A i \in DOMAIN s.attempts :
       s.attempts[i].step = x.step =>
         /\ s.attempts[i].tool = x.tool /\ s.attempts[i].attempt < x.attempt
         /\ s.attempts[i].status = "failed" /\ s.attempts[i].transient
  /\ x.attempt > 1 =>
       /\ s.attempts # <<>> /\ CallOf(Last(s.attempts)) = CallOf(x)
       /\ Last(s.attempts).attempt = x.attempt - 1

LEMMA LastItem ==
  ASSUME NEW s, Listed(s), s # <<>>
  PROVE  Len(s) \in DOMAIN s /\ Last(s) = s[Len(s)] /\ Len(s) \in Nat \ {0}
<1>1. PICK S : s \in Seq(S)
  BY DEF Listed
<1>2. Len(s) \in Nat \ {0} /\ DOMAIN s = 1..Len(s)
  BY <1>1, EmptySeq, LenProperties
<1> QED BY <1>2 DEF Last

\* What the attempts of a run were blamed on is about attempts it made.
LEMMA NothingAbout ==
  ASSUME NEW s, NEW k, Accounts(s, k), NEW x, Fresher(s, x)
  PROVE  /\ \A i \in DOMAIN s.attempts : Identity(s.attempts[i]) # Identity(x)
         /\ \A j \in DOMAIN s.faults : Identity(s.faults[j]) # Identity(x)
         /\ \A j \in DOMAIN s.invalid : s.invalid[j] # Identity(x)
<1>1. ASSUME NEW i \in DOMAIN s.attempts PROVE Identity(s.attempts[i]) # Identity(x)
  <2> SUFFICES ASSUME Identity(s.attempts[i]) = Identity(x) PROVE FALSE
    OBVIOUS
  <2>1. s.attempts[i].step = x.step /\ s.attempts[i].attempt = x.attempt
    BY DEF Identity
  <2>2. s.attempts[i].attempt < x.attempt /\ x.attempt \in Nat
    BY <2>1 DEF Fresher
  <2> QED BY <2>1, <2>2
<1>2. ASSUME NEW j \in DOMAIN s.faults PROVE Identity(s.faults[j]) # Identity(x)
  BY <1>1 DEF Accounts, Causes
<1>3. ASSUME NEW j \in DOMAIN s.invalid PROVE s.invalid[j] # Identity(x)
  BY <1>1 DEF Accounts
<1> QED BY <1>1, <1>2, <1>3

LEMMA OneMore ==
  ASSUME NEW l, Listed(l), NEW y, NEW v, v = Append(l, y)
  PROVE  \E n : /\ n = Len(l) + 1 /\ n \in Nat /\ n \notin DOMAIN l /\ n \in DOMAIN v
                /\ v[n] = y /\ \A j \in DOMAIN v : j \in DOMAIN l \/ j = n
                /\ \A j \in DOMAIN l : /\ j \in DOMAIN v /\ v[j] = l[j]
                                       /\ j \in Nat /\ j < n
<1> DEFINE n == Len(l)
<1>1. /\ n \in Nat /\ DOMAIN l = 1..n /\ DOMAIN v = 1..(n + 1)
      /\ v[n + 1] = y /\ \A i \in 1..n : v[i] = l[i]
  BY ListGrows
<1> HIDE DEF n
<1>2. \A j \in 1..(n + 1) : j \in 1..n \/ j = n + 1
  BY <1>1
<1>3. \A j \in 1..n : j \in 1..(n + 1) /\ j \in Nat /\ j < n + 1
  BY <1>1
<1>4. n + 1 \in Nat /\ n + 1 \notin 1..n /\ n + 1 \in 1..(n + 1)
  BY <1>1
<1> WITNESS n + 1
<1> QED BY <1>1, <1>2, <1>3, <1>4 DEF n

\* What an attempt x adds: itself, the fault that made it fail, and that its
\* output was rejected, if that was the fault.
Added(s, x, u) ==
  /\ u.attempts = Append(s.attempts, x)
  /\ \/ x.status = "succeeded" /\ x.code = "none" /\ u.faults = s.faults
     \/ x.status = "failed" /\ \E f : Causes(f, x) /\ u.faults = Append(s.faults, f)
  /\ u.invalid = IF x.code = "invalid_output" THEN Append(s.invalid, Identity(x))
                 ELSE s.invalid

\* The same, item by item.
LEMMA AddedItems ==
  ASSUME NEW s, Listed(s.attempts), Listed(s.faults), Listed(s.invalid),
         NEW x, NEW u, Added(s, x, u)
  PROVE  /\ \E n : /\ n = Len(s.attempts) + 1 /\ n \in Nat
                   /\ n \notin DOMAIN s.attempts /\ n \in DOMAIN u.attempts
                   /\ u.attempts[n] = x
                   /\ \A j \in DOMAIN u.attempts : j \in DOMAIN s.attempts \/ j = n
                   /\ \A j \in DOMAIN s.attempts :
                        /\ j \in DOMAIN u.attempts /\ u.attempts[j] = s.attempts[j]
                        /\ j \in Nat /\ j < n
         /\ \A j \in DOMAIN s.faults : j \in DOMAIN u.faults /\ u.faults[j] = s.faults[j]
         /\ \A j \in DOMAIN u.faults : j \in DOMAIN s.faults \/ Causes(u.faults[j], x)
         /\ \A i, j \in DOMAIN u.faults :
              i \in DOMAIN s.faults \/ j \in DOMAIN s.faults \/ i = j
         /\ \A j \in DOMAIN s.invalid :
              j \in DOMAIN u.invalid /\ u.invalid[j] = s.invalid[j]
         /\ \A j \in DOMAIN u.invalid : j \in DOMAIN s.invalid
              \/ (x.code = "invalid_output" /\ u.invalid[j] = Identity(x))
         /\ \A i, j \in DOMAIN u.invalid :
              i \in DOMAIN s.invalid \/ j \in DOMAIN s.invalid \/ i = j
         /\ x.status \in {"failed", "succeeded"}
         /\ x.status = "failed" => \E j \in DOMAIN u.faults : Causes(u.faults[j], x)
         /\ x.status = "succeeded" => x.code = "none"
         /\ x.code = "invalid_output" =>
              \E j \in DOMAIN u.invalid : u.invalid[j] = Identity(x)
<1>1. \E n : /\ n = Len(s.attempts) + 1 /\ n \in Nat
             /\ n \notin DOMAIN s.attempts /\ n \in DOMAIN u.attempts
             /\ u.attempts[n] = x
             /\ \A j \in DOMAIN u.attempts : j \in DOMAIN s.attempts \/ j = n
             /\ \A j \in DOMAIN s.attempts :
                  /\ j \in DOMAIN u.attempts /\ u.attempts[j] = s.attempts[j]
                  /\ j \in Nat /\ j < n
  BY OneMore DEF Added
<1>2. /\ \A j \in DOMAIN s.faults : j \in DOMAIN u.faults /\ u.faults[j] = s.faults[j]
      /\ \A j \in DOMAIN u.faults : j \in DOMAIN s.faults \/ Causes(u.faults[j], x)
      /\ \A i, j \in DOMAIN u.faults :
           i \in DOMAIN s.faults \/ j \in DOMAIN s.faults \/ i = j
      /\ x.status \in {"failed", "succeeded"}
      /\ x.status = "failed" => \E j \in DOMAIN u.faults : Causes(u.faults[j], x)
      /\ x.status = "succeeded" => x.code = "none"
  <2>1. CASE x.status = "succeeded" /\ x.code = "none" /\ u.faults = s.faults
    BY <2>1
  <2>2. CASE x.status = "failed" /\ \E f : Causes(f, x) /\ u.faults = Append(s.faults, f)
    <3>1. PICK f : Causes(f, x) /\ u.faults = Append(s.faults, f)
      BY <2>2
    <3>3. PICK v : v = u.faults
      OBVIOUS
    <3>2. PICK n : /\ n \in DOMAIN u.faults /\ u.faults[n] = f
                   /\ \A j \in DOMAIN u.faults : j \in DOMAIN s.faults \/ j = n
                   /\ \A j \in DOMAIN s.faults :
                        j \in DOMAIN u.faults /\ u.faults[j] = s.faults[j]
      <4>1. Listed(s.faults) /\ v = Append(s.faults, f)
        BY <3>1, <3>3
      <4>2. \E n : /\ n = Len(s.faults) + 1 /\ n \in Nat
                   /\ n \notin DOMAIN s.faults /\ n \in DOMAIN v /\ v[n] = f
                   /\ \A j \in DOMAIN v : j \in DOMAIN s.faults \/ j = n
                   /\ \A j \in DOMAIN s.faults :
                        /\ j \in DOMAIN v /\ v[j] = s.faults[j] /\ j \in Nat /\ j < n
        BY <4>1, OneMore
      <4> QED BY <3>3, <4>2
    <3> QED BY <2>2, <3>1, <3>2
  <2> QED BY <2>1, <2>2 DEF Added
<1>3. /\ \A j \in DOMAIN s.invalid :
           j \in DOMAIN u.invalid /\ u.invalid[j] = s.invalid[j]
      /\ \A j \in DOMAIN u.invalid : j \in DOMAIN s.invalid
           \/ (x.code = "invalid_output" /\ u.invalid[j] = Identity(x))
      /\ \A i, j \in DOMAIN u.invalid :
           i \in DOMAIN s.invalid \/ j \in DOMAIN s.invalid \/ i = j
      /\ x.code = "invalid_output" =>
           \E j \in DOMAIN u.invalid : u.invalid[j] = Identity(x)
  <2>1. CASE x.code # "invalid_output"
    BY <2>1 DEF Added
  <2>2. CASE x.code = "invalid_output"
    <3>1. PICK y : y = Identity(x)
      OBVIOUS
    <3>2. u.invalid = Append(s.invalid, y)
      BY <2>2, <3>1 DEF Added
    <3>4. PICK v : v = u.invalid
      OBVIOUS
    <3>3. PICK n : /\ n \in DOMAIN u.invalid /\ u.invalid[n] = y
                   /\ \A j \in DOMAIN u.invalid : j \in DOMAIN s.invalid \/ j = n
                   /\ \A j \in DOMAIN s.invalid :
                        j \in DOMAIN u.invalid /\ u.invalid[j] = s.invalid[j]
      <4>1. Listed(s.invalid) /\ v = Append(s.invalid, y)
        BY <3>2, <3>4
      <4>2. \E n : /\ n = Len(s.invalid) + 1 /\ n \in Nat
                   /\ n \notin DOMAIN s.invalid /\ n \in DOMAIN v /\ v[n] = y
                   /\ \A j \in DOMAIN v : j \in DOMAIN s.invalid \/ j = n
                   /\ \A j \in DOMAIN s.invalid :
                        /\ j \in DOMAIN v /\ v[j] = s.invalid[j] /\ j \in Nat /\ j < n
        BY <4>1, OneMore
      <4> QED BY <3>4, <4>2
    <3> QED BY <2>2, <3>1, <3>3
  <2> QED BY <2>1, <2>2
<1> QED BY <1>1, <1>2, <1>3

LEMMA GrowAccounts ==
  ASSUME NEW s, NEW k, Accounts(s, k), NEW x, Fresher(s, x), x.step \in 0..k,
         Listed(s.attempts), Listed(s.faults), Listed(s.invalid),
         NEW u, Added(s, x, u)
  PROVE  Accounts(u, k)
<1>1. PICK n : /\ n = Len(s.attempts) + 1 /\ n \in Nat
               /\ n \notin DOMAIN s.attempts /\ n \in DOMAIN u.attempts
               /\ u.attempts[n] = x
               /\ \A j \in DOMAIN u.attempts : j \in DOMAIN s.attempts \/ j = n
               /\ \A j \in DOMAIN s.attempts :
                    /\ j \in DOMAIN u.attempts /\ u.attempts[j] = s.attempts[j]
                    /\ j \in Nat /\ j < n
  BY AddedItems
<1>2. /\ \A j \in DOMAIN s.faults : j \in DOMAIN u.faults /\ u.faults[j] = s.faults[j]
      /\ \A j \in DOMAIN u.faults : j \in DOMAIN s.faults \/ Causes(u.faults[j], x)
      /\ \A i, j \in DOMAIN u.faults :
           i \in DOMAIN s.faults \/ j \in DOMAIN s.faults \/ i = j
  BY AddedItems
<1>3. /\ \A j \in DOMAIN s.invalid :
           j \in DOMAIN u.invalid /\ u.invalid[j] = s.invalid[j]
      /\ \A j \in DOMAIN u.invalid : j \in DOMAIN s.invalid
           \/ (x.code = "invalid_output" /\ u.invalid[j] = Identity(x))
      /\ \A i, j \in DOMAIN u.invalid :
           i \in DOMAIN s.invalid \/ j \in DOMAIN s.invalid \/ i = j
  BY AddedItems
<1>4. /\ x.status \in {"failed", "succeeded"}
      /\ x.status = "failed" => \E j \in DOMAIN u.faults : Causes(u.faults[j], x)
      /\ x.status = "succeeded" => x.code = "none"
      /\ x.code = "invalid_output" =>
           \E j \in DOMAIN u.invalid : u.invalid[j] = Identity(x)
  BY AddedItems
<1>5. /\ \A i \in DOMAIN s.attempts : Identity(s.attempts[i]) # Identity(x)
      /\ \A j \in DOMAIN s.faults : Identity(s.faults[j]) # Identity(x)
      /\ \A j \in DOMAIN s.invalid : s.invalid[j] # Identity(x)
  BY NothingAbout
<1>6. /\ \A i \in DOMAIN s.attempts : Sound(i, s, k)
      /\ \A j \in DOMAIN s.faults :
           \E i \in DOMAIN s.attempts : Causes(s.faults[j], s.attempts[i])
      /\ \A j \in DOMAIN s.invalid :
           \E i \in DOMAIN s.attempts : s.invalid[j] = Identity(s.attempts[i])
      /\ Distinct(s.attempts) /\ Distinct(s.faults) /\ Distinct(s.invalid)
  BY DEF Accounts
<1>7. x.attempt \in Nat \ {0}
      /\ \A i \in DOMAIN s.attempts :
           s.attempts[i].step = x.step =>
             /\ s.attempts[i].tool = x.tool /\ s.attempts[i].attempt < x.attempt
             /\ s.attempts[i].status = "failed" /\ s.attempts[i].transient
  BY DEF Fresher
<1>8. ASSUME NEW i \in DOMAIN s.attempts PROVE Sound(i, u, k)
  <2>1. PICK a : a = s.attempts[i] /\ a = u.attempts[i]
    BY <1>1
  <2>2. /\ a.step \in 0..k /\ a.attempt \in Nat \ {0}
        /\ a.status \in {"failed", "succeeded"}
        /\ a.status = "succeeded" => a.code = "none"
    BY <1>6, <2>1 DEF Sound
  <2>3. a.status = "failed" => \E j \in DOMAIN u.faults : Causes(u.faults[j], a)
    <3>1. a.status = "failed" => \E j \in DOMAIN s.faults : Causes(s.faults[j], a)
      BY <1>6, <2>1 DEF Sound
    <3> QED BY <1>2, <3>1
  <2>4. a.code = "invalid_output" <=> \E j \in DOMAIN u.invalid : u.invalid[j] = Identity(a)
    <3>1. a.code = "invalid_output"
            <=> \E j \in DOMAIN s.invalid : s.invalid[j] = Identity(a)
      BY <1>6, <2>1, ZenonT(30) DEF Sound
    <3>2. Identity(a) # Identity(x)
      BY <1>5, <2>1
    <3> QED BY <1>3, <3>1, <3>2
  <2>5. a.attempt > 1 =>
          \E j \in DOMAIN u.attempts : /\ CallOf(u.attempts[j]) = CallOf(a)
                                       /\ u.attempts[j].attempt = a.attempt - 1
    <3> SUFFICES ASSUME a.attempt > 1
                 PROVE  \E j \in DOMAIN u.attempts :
                          /\ CallOf(u.attempts[j]) = CallOf(a)
                          /\ u.attempts[j].attempt = a.attempt - 1
      OBVIOUS
    <3>1. Sound(i, s, k) /\ s.attempts[i].attempt > 1
      BY <1>6, <2>1
    <3>2. \E j \in DOMAIN s.attempts :
            /\ CallOf(s.attempts[j]) = CallOf(s.attempts[i])
            /\ s.attempts[j].attempt = s.attempts[i].attempt - 1
      BY <3>1 DEF Sound
    <3>3. PICK j \in DOMAIN s.attempts : /\ CallOf(s.attempts[j]) = CallOf(a)
                                         /\ s.attempts[j].attempt = a.attempt - 1
      BY <2>1, <3>2
    <3>4. j \in DOMAIN u.attempts /\ u.attempts[j] = s.attempts[j]
      BY <1>1
    <3> QED BY <3>3, <3>4
  <2>6. ASSUME NEW j \in DOMAIN u.attempts, j > i, CallOf(u.attempts[j]) = CallOf(a)
        PROVE  a.status = "failed" /\ a.transient
    <3>1. CASE j \in DOMAIN s.attempts
      <4>1. u.attempts[j] = s.attempts[j]
        BY <1>1, <3>1
      <4> QED BY <1>6, <2>1, <2>6, <3>1, <4>1 DEF Sound
    <3>2. CASE j = n
      <4>1. x.step = a.step
        BY <1>1, <2>6, <3>2 DEF CallOf
      <4> QED BY <1>7, <2>1, <4>1
    <3> QED BY <1>1, <3>1, <3>2
  <2> QED BY <2>1, <2>2, <2>3, <2>4, <2>5, <2>6 DEF Sound
<1>9. Sound(n, u, k)
  <2>1. x.code = "invalid_output" <=> \E j \in DOMAIN u.invalid : u.invalid[j] = Identity(x)
    BY <1>3, <1>4, <1>5
  <2>2. x.attempt > 1 =>
          \E j \in DOMAIN u.attempts : /\ CallOf(u.attempts[j]) = CallOf(x)
                                       /\ u.attempts[j].attempt = x.attempt - 1
    <3> SUFFICES ASSUME x.attempt > 1
                 PROVE  \E j \in DOMAIN u.attempts :
                          /\ CallOf(u.attempts[j]) = CallOf(x)
                          /\ u.attempts[j].attempt = x.attempt - 1
      OBVIOUS
    <3>1. /\ s.attempts # <<>> /\ CallOf(Last(s.attempts)) = CallOf(x)
          /\ Last(s.attempts).attempt = x.attempt - 1
      BY DEF Fresher
    <3>2. PICK l : l \in DOMAIN s.attempts /\ Last(s.attempts) = s.attempts[l]
      BY <3>1, LastItem
    <3>3. l \in DOMAIN u.attempts /\ u.attempts[l] = s.attempts[l]
      BY <1>1, <3>2
    <3> QED BY <3>1, <3>2, <3>3
  <2>3. ASSUME NEW j \in DOMAIN u.attempts, j > n PROVE FALSE
    <3>1. CASE j = n
      BY <1>1, <2>3, <3>1
    <3>2. CASE j \in DOMAIN s.attempts
      <4>1. j \in Nat /\ j < n
        BY <1>1, <3>2
      <4> QED BY <1>1, <2>3, <4>1
    <3> QED BY <1>1, <3>1, <3>2
  <2> QED BY <1>1, <1>4, <1>7, <2>1, <2>2, <2>3 DEF Sound
<1>10. \A i \in DOMAIN u.attempts : Sound(i, u, k)
  BY <1>1, <1>8, <1>9
<1>11. \A j \in DOMAIN u.faults :
         \E i \in DOMAIN u.attempts : Causes(u.faults[j], u.attempts[i])
  <2> SUFFICES ASSUME NEW j \in DOMAIN u.faults
               PROVE  \E i \in DOMAIN u.attempts : Causes(u.faults[j], u.attempts[i])
    OBVIOUS
  <2>1. CASE j \in DOMAIN s.faults
    <3>1. PICK i \in DOMAIN s.attempts : Causes(s.faults[j], s.attempts[i])
      BY <1>6, <2>1
    <3> QED BY <1>1, <1>2, <2>1, <3>1
  <2>2. CASE Causes(u.faults[j], x)
    BY <1>1, <2>2
  <2> QED BY <1>2, <2>1, <2>2
<1>12. \A j \in DOMAIN u.invalid :
         \E i \in DOMAIN u.attempts : u.invalid[j] = Identity(u.attempts[i])
  <2> SUFFICES ASSUME NEW j \in DOMAIN u.invalid
               PROVE  \E i \in DOMAIN u.attempts : u.invalid[j] = Identity(u.attempts[i])
    OBVIOUS
  <2>1. CASE j \in DOMAIN s.invalid
    <3>1. PICK i \in DOMAIN s.attempts : s.invalid[j] = Identity(s.attempts[i])
      BY <1>6, <2>1
    <3> QED BY <1>1, <1>3, <2>1, <3>1
  <2>2. CASE u.invalid[j] = Identity(x)
    BY <1>1, <2>2
  <2> QED BY <1>3, <2>1, <2>2
<1>13. Distinct(u.attempts)
  BY <1>1, <1>5, <1>6 DEF Distinct
<1>14. Distinct(u.faults)
  <2> SUFFICES ASSUME NEW i \in DOMAIN u.faults, NEW j \in DOMAIN u.faults,
                      Identity(u.faults[i]) = Identity(u.faults[j])
               PROVE  i = j
    BY DEF Distinct
  <2>1. ASSUME NEW l \in DOMAIN u.faults, l \notin DOMAIN s.faults
        PROVE  Identity(u.faults[l]) = Identity(x)
    BY <1>2, <2>1 DEF Causes
  <2>2. CASE i \in DOMAIN s.faults /\ j \in DOMAIN s.faults
    BY <1>2, <1>6, <2>2 DEF Distinct
  <2>3. CASE i \in DOMAIN s.faults /\ j \notin DOMAIN s.faults
    BY <1>2, <1>5, <2>1, <2>3
  <2>4. CASE i \notin DOMAIN s.faults /\ j \in DOMAIN s.faults
    BY <1>2, <1>5, <2>1, <2>4
  <2> QED BY <1>2, <2>2, <2>3, <2>4
<1>15. Distinct(u.invalid)
  <2>1. ASSUME NEW j \in DOMAIN u.invalid PROVE Identity(u.invalid[j]) = u.invalid[j]
    <3>1. PICK i \in DOMAIN u.attempts : u.invalid[j] = Identity(u.attempts[i])
      BY <1>12
    <3> QED BY <3>1 DEF Identity
  <2>2. ASSUME NEW i \in DOMAIN u.invalid, NEW j \in DOMAIN u.invalid,
               u.invalid[i] = u.invalid[j]
        PROVE  i = j
    <3>1. CASE i \in DOMAIN s.invalid /\ j \in DOMAIN s.invalid
      BY <1>3, <1>6, <2>2, <3>1 DEF Distinct
    <3>2. CASE i \in DOMAIN s.invalid /\ j \notin DOMAIN s.invalid
      BY <1>3, <1>5, <2>2, <3>2
    <3>3. CASE i \notin DOMAIN s.invalid /\ j \in DOMAIN s.invalid
      BY <1>3, <1>5, <2>2, <3>3
    <3> QED BY <1>3, <3>1, <3>2, <3>3
  <2> QED BY <2>1, <2>2 DEF Distinct
<1> QED BY <1>6, <1>10, <1>11, <1>12, <1>13, <1>14, <1>15 DEF Accounts

-----------------------------------------------------------------------------
(* The events of one attempt *)

LEMMA AtListed ==
  ASSUME NEW s, Listed(s), NEW step
  PROVE  Listed(At(s, step))
<1> DEFINE positions == {i \in DOMAIN s : s[i].step = step}
<1>1. Len(s) \in Nat
  BY ListGrows
<1>2. PICK f : /\ Picking(f, Len(s), s, positions)
               /\ Picked(s, positions) = f[Len(s)]
  BY <1>1, PickedIs
<1> HIDE DEF positions
<1>3. Listed(f[Len(s)])
  BY <1>1, <1>2, PickingIsListed
<1> QED BY <1>2, <1>3 DEF At, positions

\* Where the reader is after the trace t.
Reached(c, m, t, s) ==
  /\ Listed(t) /\ s = Read(t, c.actions, m) /\ DOMAIN s = ReaderFields /\ s.ok
  /\ s.pos = Len(t) /\ s.pos \in Nat /\ Mirrors(s, t) /\ Told(s.actual, t)

LEMMA ReachedNext ==
  ASSUME NEW c, NEW m, NEW t, NEW s, Reached(c, m, t, s),
         NEW e, e.type \in EventTypes, e.type # "policy.action",
         Admits(s, e, c.actions, m),
         NEW u, u = Then(s, e), DOMAIN u = ReaderFields, u.ok = s.ok,
         u.pos = s.pos + 1, u.actual = s.actual
  PROVE  Reached(c, m, Append(t, e), u)
<1>1. /\ Listed(t) /\ s = Read(t, c.actions, m) /\ DOMAIN s = ReaderFields /\ s.ok
      /\ s.pos = Len(t) /\ s.pos \in Nat /\ Mirrors(s, t) /\ Told(s.actual, t)
  BY DEF Reached
<1>2. /\ t \o <<e>> = Append(t, e) /\ Listed(t \o <<e>>) /\ Len(t \o <<e>>) = s.pos + 1
      /\ Read(t \o <<e>>, c.actions, m) = u /\ Mirrors(u, t \o <<e>>)
  BY <1>1, OneEvent
<1>3. Told(u.actual, Append(t, e))
  BY <1>1, ToldOther
<1>4. PICK w : w = Append(t, e)
  OBVIOUS
<1>5. /\ Listed(w) /\ Len(w) = s.pos + 1 /\ u = Read(w, c.actions, m)
      /\ Mirrors(u, w) /\ Told(u.actual, w)
  BY <1>2, <1>3, <1>4
<1>6. u.pos = Len(w) /\ u.pos \in Nat /\ u.ok
  BY <1>1, <1>5
<1>7. Reached(c, m, w, u)
  BY <1>5, <1>6 DEF Reached
<1> QED BY <1>4, <1>7

\* The event of an attempt of the run r at the action a.
OfAttempt(r, a, type, data) == Event(type, r.step, a.tool, r.attempt, 0, data)

\* From s to v the attempt has started, and not ended.
Began(r, a, s, v) ==
  /\ v.next = s.next /\ v.step = s.step /\ v.active = s.active
  /\ v.closing = s.closing /\ v.pending = s.pending /\ v.refused = s.refused
  /\ v.denied = s.denied /\ v.proposals = s.proposals /\ v.waits = s.waits
  /\ v.approvals = s.approvals /\ v.resumes = s.resumes /\ v.actual = s.actual
  /\ v.attempts = s.attempts /\ v.accepted = s.accepted
  /\ v.started = {OfAttempt(r, a, "tool.attempt.started", "none")}
  /\ v.starts = Append(s.starts, [pos |-> s.pos + 1, step |-> r.step])
  /\ s.pos + 1 <= v.pos

\* The attempt of the run is the next one of its call.
Ready(r, a, s) ==
  \A x : x.step = r.step /\ x.tool = a.tool /\ x.attempt = r.attempt => Fresher(s, x)

Attempting(m, r, a, s) ==
  /\ Open(s) /\ a.type = "call_tool" /\ a.valid
  /\ RequiresApproval(a) => r.approved = r.step
  /\ r.attempt \in 1..AttemptLimit(m) /\ r.attempt \in Nat \ {0}
  /\ s.active = [step |-> r.step, tool |-> a.tool]
  /\ s.step = r.step /\ r.step \in Nat /\ Ready(r, a, s)

LEMMA AttemptFacts ==
  ASSUME NEW c, Good(c), NEW m \in Modes, NEW r, NEW t, NEW s,
         HonestAt(c, m, r, t, s), r.at = "attempt",
         NEW a, a = ActionAt(c.actions, r.step)
  PROVE  Attempting(m, r, a, s) /\ Calling(c, r, s)
<1>1. r.step \in Nat /\ Current(c, r) = a
  BY RunFacts
<1>2. /\ Open(s) /\ Calling(c, r, s) /\ a.valid
      /\ RequiresApproval(a) => r.approved = r.step
      /\ r.attempt \in 1..AttemptLimit(m)
  BY <1>1 DEF HonestAt, Control
<1>3. r.attempt \in Nat \ {0}
  BY <1>2 DEF AttemptLimit
<1>4. /\ a.type = "call_tool" /\ s.active = [step |-> r.step, tool |-> a.tool]
      /\ s.step = r.step
  BY <1>1, <1>2 DEF Calling
<1>5. /\ \A i \in DOMAIN s.attempts :
           s.attempts[i].step = r.step =>
             /\ s.attempts[i].tool = a.tool /\ s.attempts[i].attempt < r.attempt
             /\ s.attempts[i].status = "failed" /\ s.attempts[i].transient
      /\ r.attempt > 1 =>
           /\ s.attempts # <<>> /\ CallOf(Last(s.attempts)) = s.active
           /\ Last(s.attempts).attempt = r.attempt - 1
  BY <1>1 DEF HonestAt, Tried
<1>6. ASSUME NEW x, x.step = r.step, x.tool = a.tool, x.attempt = r.attempt
      PROVE  Fresher(s, x)
  <2>1. CallOf(x) = s.active
    BY <1>4, <1>6 DEF CallOf
  <2> QED BY <1>3, <1>5, <1>6, <2>1 DEF Fresher
<1> QED BY <1>1, <1>2, <1>3, <1>4, <1>6 DEF Ready, Attempting

LEMMA AttemptBegins ==
  ASSUME NEW c, Good(c), NEW m \in Modes, NEW r, NEW t, NEW s,
         HonestAt(c, m, r, t, s), s = Read(t, c.actions, m), r.at = "attempt",
         NEW a, a = ActionAt(c.actions, r.step),
         NEW e, e = OfAttempt(r, a, "tool.attempt.started", "none"),
         NEW v, v = Then(s, e)
  PROVE  /\ Reached(c, m, Append(t, e), v) /\ Began(r, a, s, v)
         /\ v.faults = s.faults /\ v.invalid = s.invalid
<1>1. Reached(c, m, t, s)
  BY ListGrows DEF HonestAt, Typed, Reached
<1>2. /\ Open(s) /\ r.attempt \in 1..AttemptLimit(m) /\ r.attempt \in Nat \ {0}
      /\ s.active = [step |-> r.step, tool |-> a.tool]
      /\ s.step = r.step /\ r.step \in Nat
  BY AttemptFacts DEF Attempting
<1>3. /\ e.type = "tool.attempt.started" /\ e.step = r.step /\ e.tool = a.tool
      /\ e.attempt = r.attempt /\ e.span = 0
  BY DEF OfAttempt, Event
<1>4. Fresher(s, e)
  <2>1. Ready(r, a, s)
    BY AttemptFacts DEF Attempting
  <2> QED BY <1>3, <2>1 DEF Ready
<1>5. PICK own : own = {i \in DOMAIN s.attempts : CallOf(s.attempts[i]) = CallOf(e)}
  OBVIOUS
<1>6. /\ Listed(s.attempts) /\ Len(s.attempts) \in Nat
      /\ DOMAIN s.attempts = 1..Len(s.attempts) /\ s.started = {}
  BY ListGrows DEF HonestAt, Typed
<1>7. e.attempt = 1 => Picked(s.attempts, own) = <<>>
  <2> SUFFICES ASSUME e.attempt = 1 PROVE Picked(s.attempts, own) = <<>>
    OBVIOUS
  <2>1. ASSUME NEW i \in own PROVE FALSE
    <3>1. i \in DOMAIN s.attempts /\ s.attempts[i].step = e.step
      BY <1>5 DEF CallOf
    <3>2. s.attempts[i].attempt < 1
      BY <1>4, <3>1 DEF Fresher
    <3>3. s.attempts[i].attempt \in Nat \ {0}
      BY <3>1 DEF HonestAt, Accounts, Sound
    <3> QED BY <3>2, <3>3
  <2> QED BY <1>6, <2>1, NonePicked
<1>8. e.attempt # 1 => /\ Picked(s.attempts, own) # <<>>
                       /\ e.attempt = Last(Picked(s.attempts, own)).attempt + 1
                       /\ Last(Picked(s.attempts, own)).status = "failed"
                       /\ Last(Picked(s.attempts, own)).transient
  <2> SUFFICES ASSUME e.attempt # 1
               PROVE  /\ Picked(s.attempts, own) # <<>>
                      /\ e.attempt = Last(Picked(s.attempts, own)).attempt + 1
                      /\ Last(Picked(s.attempts, own)).status = "failed"
                      /\ Last(Picked(s.attempts, own)).transient
    OBVIOUS
  <2>1. /\ s.attempts # <<>> /\ CallOf(Last(s.attempts)) = CallOf(e)
        /\ Last(s.attempts).attempt = e.attempt - 1
    BY <1>2, <1>3, <1>4 DEF Fresher
  <2>2. /\ Len(s.attempts) \in DOMAIN s.attempts
        /\ Last(s.attempts) = s.attempts[Len(s.attempts)]
        /\ Len(s.attempts) \in Nat \ {0}
    BY <1>6, <2>1, LastItem
  <2>3. Len(s.attempts) \in own
    BY <1>5, <2>1, <2>2
  <2>4. /\ Picked(s.attempts, own) # <<>>
        /\ Last(Picked(s.attempts, own)) = Last(s.attempts)
    BY <2>2, <2>3, LastPicked
  <2>5. Last(s.attempts).status = "failed" /\ Last(s.attempts).transient
    <3>1. Last(s.attempts).step = e.step
      BY <2>1 DEF CallOf
    <3> QED BY <1>4, <2>2, <3>1 DEF Fresher
  <2>6. e.attempt = Last(s.attempts).attempt + 1
    BY <1>2, <1>3, <2>1
  <2> QED BY <2>4, <2>5, <2>6
<1>9. e.type \in EventTypes /\ Admits(s, e, c.actions, m)
  <2>1. PreviousAttempts(s, e) = Picked(s.attempts, own)
    BY <1>5 DEF PreviousAttempts
  <2>2. s.active = CallOf(e)
    BY <1>2, <1>3 DEF CallOf
  <2>3. e.attempt <= AttemptLimit(m)
    BY <1>2, <1>3 DEF AttemptLimit
  <2>4. Identity(e) \notin {Identity(x) : x \in s.started}
    BY <1>6
  <2>5. GoodStart(s, e, c.actions, m)
    BY <1>7, <1>8, <2>1, <2>2, <2>3, <2>4 DEF GoodStart
  <2> QED BY <1>2, <1>3, <2>5 DEF Open, EventTypes, AttemptEvents, Admits
<1>10. /\ Same(s, v, {"started", "starts"})
       /\ v.started = s.started \cup {e}
       /\ v.starts = Append(s.starts, [pos |-> s.pos + 1, step |-> e.step])
  BY <1>1, <1>3, ThenStarted DEF Reached
<1>11. Reached(c, m, Append(t, e), v)
  <2>1. /\ DOMAIN v = ReaderFields /\ v.ok = s.ok /\ v.pos = s.pos + 1
        /\ v.actual = s.actual
    BY <1>10 DEF Same
  <2>2. e.type # "policy.action"
    BY <1>3
  <2> QED BY <1>1, <1>9, <2>1, <2>2, ReachedNext
<1>12. s.pos + 1 <= v.pos
  BY <1>1, <1>10 DEF Same, Reached
<1> QED BY <1>3, <1>6, <1>10, <1>11, <1>12 DEF Same, Began

\* A fault is injected, or an output rejected, during the attempt.
Noted(v, e, u) ==
  IF e.type = "fault.injected"
  THEN u.faults = Append(v.faults, FaultEvidence(e)) /\ u.invalid = v.invalid
  ELSE u.faults = v.faults /\ u.invalid = Append(v.invalid, Identity(e))

LEMMA AttemptGoesOn ==
  ASSUME NEW c, NEW m, NEW r, NEW s, NEW a, s.pos \in Nat,
         s.active = [step |-> r.step, tool |-> a.tool], s.next = EventTypes,
         NEW w, NEW v, Reached(c, m, w, v), Began(r, a, s, v),
         NEW e, NEW u, u = Then(v, e),
         \/ \E data : e = OfAttempt(r, a, "fault.injected", data)
         \/ \E data : e = OfAttempt(r, a, "tool.output.validation_failed", data)
  PROVE  Reached(c, m, Append(w, e), u) /\ Began(r, a, s, u) /\ Noted(v, e, u)
<1>1. /\ e.type \in {"fault.injected", "tool.output.validation_failed"}
      /\ e.step = r.step /\ e.tool = a.tool /\ e.attempt = r.attempt /\ e.span = 0
  BY DEF OfAttempt, Event
<1>2. PICK x : x = OfAttempt(r, a, "tool.attempt.started", "none")
  OBVIOUS
<1>3. x.step = r.step /\ x.tool = a.tool /\ x.attempt = r.attempt /\ x.span = 0
  BY <1>2 DEF OfAttempt, Event
<1>4. InAttempt(v, e)
  <2>1. x \in v.started
    BY <1>2 DEF Began
  <2>2. Identity(x) = Identity(e) /\ x.span = e.span
    BY <1>1, <1>3 DEF Identity
  <2>3. v.active = CallOf(e)
    BY <1>1 DEF Began, CallOf
  <2> QED BY <2>1, <2>2, <2>3 DEF InAttempt
<1>5. e.type \in EventTypes /\ Admits(v, e, c.actions, m) /\ e.type # "policy.action"
  BY <1>1, <1>4 DEF Began, EventTypes, AttemptEvents, Admits
<1>6. DOMAIN v = ReaderFields /\ v.pos \in Nat
  BY DEF Reached
<1>7. /\ Same(v, u, {"faults", "invalid"})
      /\ e.type = "fault.injected" =>
           u.faults = Append(v.faults, FaultEvidence(e)) /\ u.invalid = v.invalid
      /\ e.type = "tool.output.validation_failed" =>
           u.faults = v.faults /\ u.invalid = Append(v.invalid, Identity(e))
  <2>1. CASE e.type = "fault.injected"
    <3>1. /\ Same(v, u, {"faults"})
          /\ u.faults = Append(v.faults, FaultEvidence(e))
      BY <1>6, <2>1, ThenInjected
    <3> QED BY <2>1, <3>1 DEF Same
  <2>2. CASE e.type = "tool.output.validation_failed"
    <3>1. /\ Same(v, u, {"invalid"})
          /\ u.invalid = Append(v.invalid, Identity(e))
      BY <1>6, <2>2, ThenRejected
    <3> QED BY <2>2, <3>1 DEF Same
  <2> QED BY <1>1, <2>1, <2>2
<1>8. Reached(c, m, Append(w, e), u)
  <2>1. /\ DOMAIN u = ReaderFields /\ u.ok = v.ok /\ u.pos = v.pos + 1
        /\ u.actual = v.actual
    BY <1>7 DEF Same
  <2> QED BY <1>5, <2>1, ReachedNext
<1>9. s.pos + 1 <= u.pos
  BY <1>6, <1>7 DEF Same, Began
<1>10. Began(r, a, s, u)
  BY <1>7, <1>9 DEF Same, Began
<1> QED BY <1>1, <1>7, <1>8, <1>10 DEF Noted

\* What is left of s when its attempt has ended with the event e.
Finished(r, s, e, v, u) ==
  /\ u.step = s.step /\ u.active = s.active /\ u.closing = s.closing
  /\ u.refused = s.refused /\ u.denied = s.denied /\ u.proposals = s.proposals
  /\ u.waits = s.waits /\ u.approvals = s.approvals /\ u.resumes = s.resumes
  /\ u.actual = s.actual /\ u.accepted = s.accepted /\ u.started = {}
  /\ u.starts = Append(s.starts, [pos |-> s.pos + 1, step |-> r.step])
  /\ s.pos + 1 <= u.pos /\ u.attempts = Append(s.attempts, Attempt(e))
  /\ u.faults = v.faults /\ u.invalid = v.invalid

Left(a, s, e, u) ==
  IF e.type = "tool.attempt.succeeded"
  THEN u.pending = Output(a) /\ u.next = {"run.checkpointed"}
  ELSE u.pending = s.pending /\ u.next = s.next

LEMMA AttemptEnds ==
  ASSUME NEW c, NEW m, NEW r, NEW s, NEW a, s.pos \in Nat,
         a = ActionAt(c.actions, r.step), Output(a) # NoOutput,
         s.active = [step |-> r.step, tool |-> a.tool], s.next = EventTypes,
         NEW w, NEW v, Reached(c, m, w, v), Began(r, a, s, v),
         NEW e, NEW u, u = Then(v, e),
         \/ \E data : e = OfAttempt(r, a, "tool.attempt.failed", data)
         \/ e = OfAttempt(r, a, "tool.attempt.succeeded", Output(a))
  PROVE  Reached(c, m, Append(w, e), u) /\ Finished(r, s, e, v, u) /\ Left(a, s, e, u)
<1>1. /\ e.type \in Ends
      /\ e.step = r.step /\ e.tool = a.tool /\ e.attempt = r.attempt /\ e.span = 0
      /\ e.type = "tool.attempt.succeeded" => e.data = Output(a)
  BY DEF OfAttempt, Event, Ends
<1>2. PICK x : x = OfAttempt(r, a, "tool.attempt.started", "none")
  OBVIOUS
<1>3. x.step = r.step /\ x.tool = a.tool /\ x.attempt = r.attempt /\ x.span = 0
  BY <1>2 DEF OfAttempt, Event
<1>10. v.started = {x} /\ Identity(x) = Identity(e)
  BY <1>1, <1>2, <1>3 DEF Began, Identity
<1>4. InAttempt(v, e)
  <2>3. v.active = CallOf(e)
    BY <1>1 DEF Began, CallOf
  <2> QED BY <1>1, <1>3, <1>10, <2>3 DEF InAttempt
<1>5. e.type \in EventTypes /\ Admits(v, e, c.actions, m) /\ e.type # "policy.action"
  <2>1. e.type \in EventTypes /\ e.type \in v.next /\ e.type # "policy.action"
    BY <1>1 DEF Began, EventTypes, AttemptEvents, Ends
  <2>2. GoodEnd(v, e, c.actions, m)
    BY <1>1, <1>4 DEF GoodEnd
  <2> QED BY <1>1, <2>1, <2>2 DEF Admits, Ends
<1>6. DOMAIN v = ReaderFields /\ v.pos \in Nat
  BY DEF Reached
<1>7. /\ Same(v, u, {"started", "attempts", "pending", "next"})
      /\ u.started = {y \in v.started : Identity(y) # Identity(e)}
      /\ u.attempts = Append(v.attempts, Attempt(e))
      /\ u.pending = IF e.type = "tool.attempt.succeeded" THEN e.data ELSE v.pending
      /\ u.next = IF e.type = "tool.attempt.succeeded" THEN {"run.checkpointed"}
                  ELSE v.next
  BY <1>1, <1>6, ThenEnded
<1>8. Reached(c, m, Append(w, e), u)
  <2>1. /\ DOMAIN u = ReaderFields /\ u.ok = v.ok /\ u.pos = v.pos + 1
        /\ u.actual = v.actual
    BY <1>7 DEF Same
  <2> QED BY <1>5, <2>1, ReachedNext
<1>9. s.pos + 1 <= u.pos
  BY <1>6, <1>7 DEF Same, Began
<1>11. u.started = {}
  BY <1>7, <1>10
<1>12. Finished(r, s, e, v, u)
  BY <1>7, <1>9, <1>11 DEF Same, Began, Finished
<1> QED BY <1>1, <1>7, <1>8, <1>12 DEF Began, Left

\* The attempt of the run is under way, or over.
LEMMA StartCycles ==
  ASSUME NEW c, NEW r, NEW s, Cycles(c, r, s), r.at = "attempt",
         r.step \in Nat, s.step = r.step, Listed(s.starts), s.pos \in Nat,
         GatedAt(c, r.step) => r.approved = r.step,
         NEW u, u.step = s.step, u.proposals = s.proposals,
         u.starts = Append(s.starts, [pos |-> s.pos + 1, step |-> r.step]),
         u.waits = s.waits, u.approvals = s.approvals, u.resumes = s.resumes,
         u.pos \in Nat, s.pos + 1 <= u.pos,
         NEW r2, r2.step = r.step, r2.approved = r.approved, r2.before = r.before,
         Allowed(r) \/ r2.effects = r.effects,
         r2.at # "stopped", StageOf(r2) = "executed"
  PROVE  Cycles(c, r2, u)
<1>1. PICK x : x = [pos |-> s.pos + 1, step |-> r.step]
  OBVIOUS
<1>2. x.pos = s.pos + 1 /\ x.step = r.step /\ s.pos <= u.pos
  BY <1>1
<1>3. /\ At(u.starts, r.step) = Append(At(s.starts, r.step), x)
      /\ \A step : step # r.step => At(u.starts, step) = At(s.starts, step)
      /\ \A step : At(u.proposals, step) = At(s.proposals, step)
  BY <1>1, <1>2, AtAppend
<1>4. Allowed(r2) <=> Allowed(r)
  BY DEF Allowed
<1>5. /\ \A step \in Nat : step > u.step => /\ At(u.proposals, step) = <<>>
                                            /\ At(u.starts, step) = <<>>
      /\ \A step \in 0..(r2.step - 1) : Ordinary(c, u, step)
      /\ \A step \in Nat : GatedAt(c, step) /\ At(u.starts, step) # <<>> =>
                             step = r2.approved
  <2>1. \A step \in Nat : step > u.step => /\ At(u.proposals, step) = <<>>
                                           /\ At(u.starts, step) = <<>>
    BY <1>3 DEF Cycles
  <2>2. \A step \in 0..(r2.step - 1) : Ordinary(c, u, step)
    BY <1>3 DEF Cycles, Ordinary
  <2>3. ASSUME NEW step \in Nat, GatedAt(c, step), At(u.starts, step) # <<>>
        PROVE  step = r2.approved
    BY <1>3, <2>3 DEF Cycles
  <2> QED BY <2>1, <2>2, <2>3
<1>6. r2.step # r2.approved =>
        \E p : At(u.proposals, r2.step) = <<p>> /\ p.pos \in Nat /\ p.pos <= u.pos
  <2> SUFFICES ASSUME r2.step # r2.approved
               PROVE  \E p : /\ At(u.proposals, r2.step) = <<p>>
                             /\ p.pos \in Nat /\ p.pos <= u.pos
    OBVIOUS
  <2>1. PICK p : At(s.proposals, r.step) = <<p>> /\ p.pos \in Nat /\ p.pos <= s.pos
    BY DEF Cycles
  <2>2. p.pos <= u.pos
    BY <1>2, <2>1
  <2> QED BY <2>1, <2>2
<1>7. CASE Allowed(r)
  <2>1. PICK g, a : g = r.approved /\ a = ActionAt(c.actions, g)
    OBVIOUS
  <2>2. /\ g \in 0..r.step /\ GatedAt(c, g) /\ a.valid
        /\ Cycle(s, g, a, StageOf(r))
    BY <1>7, <2>1 DEF Cycles
  <2>3. Cycle(u, g, a, "executed")
    <3>1. CASE g # r.step
      <4>1. StageOf(r) = "executed"
        BY <2>1, <3>1 DEF StageOf
      <4>2. Cycle(s, g, a, "executed") /\ At(u.starts, g) = At(s.starts, g)
            /\ At(u.proposals, g) = At(s.proposals, g)
        BY <1>3, <2>2, <3>1, <4>1
      <4> QED BY <1>2, <4>2, SteadyCycle
    <3>2. CASE g = r.step /\ r.attempt = 1
      <4>1. StageOf(r) = "repeated"
        BY <2>1, <3>2 DEF StageOf
      <4>2. PICK p, w, d, q, o :
              /\ Asked(s, g, a, p, w) /\ Granted(s, g, w, d) /\ Resumed(s, d, q)
              /\ Again(s, q, o) /\ At(s.proposals, g) = <<p, o>> /\ At(s.starts, g) = <<>>
        BY <2>2, <4>1 DEF Cycle
      <4>3. At(u.starts, g) = <<x>>
        BY <1>3, <3>2, <4>2, SingleListed
      <4>4. At(u.starts, g) # <<>> /\ At(u.starts, g)[1] = x
        BY <4>3, SingleListed
      <4>5. o.pos < x.pos
        BY <1>2, <4>2 DEF Again
      <4>6. /\ Asked(u, g, a, p, w) /\ Granted(u, g, w, d) /\ Resumed(u, d, q)
            /\ Again(u, q, o)
        BY <1>2, <4>2 DEF Asked, Granted, Resumed, Again
      <4>7. At(u.proposals, g) = <<p, o>>
        BY <1>3, <4>2
      <4> QED BY <4>4, <4>5, <4>6, <4>7 DEF Cycle
    <3>3. CASE g = r.step /\ r.attempt # 1
      <4>1. StageOf(r) = "executed"
        BY <2>1, <3>3 DEF StageOf
      <4>2. PICK p, w, d, q, o :
              /\ Asked(s, g, a, p, w) /\ Granted(s, g, w, d) /\ Resumed(s, d, q)
              /\ Again(s, q, o) /\ At(s.starts, g) # <<>>
              /\ o.pos < At(s.starts, g)[1].pos /\ At(s.proposals, g) = <<p, o>>
        BY <2>2, <4>1 DEF Cycle
      <4>3. PICK starts : starts = At(s.starts, g)
        OBVIOUS
      <4>4. Listed(starts) /\ starts # <<>>
        BY <4>2, <4>3, AtListed
      <4>5. /\ Append(starts, x) # <<>> /\ Append(starts, x)[1] = starts[1]
        <5>1. Len(starts) \in Nat \ {0}
          BY <4>4, LastItem
        <5>2. 1 \in 1..Len(starts)
          BY <5>1
        <5> QED BY <4>4, <5>2, ListGrows
      <4>6. /\ Asked(u, g, a, p, w) /\ Granted(u, g, w, d) /\ Resumed(u, d, q)
            /\ Again(u, q, o)
        BY <1>2, <4>2 DEF Asked, Granted, Resumed, Again
      <4>7. /\ At(u.proposals, g) = <<p, o>> /\ At(u.starts, g) # <<>>
            /\ o.pos < At(u.starts, g)[1].pos
        BY <1>3, <3>3, <4>2, <4>3, <4>5
      <4> QED BY <4>6, <4>7 DEF Cycle
    <3> QED BY <3>1, <3>2, <3>3
  <2> QED BY <1>4, <1>5, <1>6, <1>7, <2>1, <2>2, <2>3 DEF Cycles
<1>8. CASE ~Allowed(r)
  <2>1. /\ r.effects = 0 /\ r.before = 0
        /\ s.waits = <<>> /\ s.approvals = <<>> /\ s.resumes = <<>>
    BY <1>8 DEF Cycles
  <2> QED BY <1>4, <1>5, <1>6, <1>8, <2>1 DEF Cycles
<1> QED BY <1>7, <1>8

\* What does not depend on how the attempt ended.
LEMMA AttemptOver ==
  ASSUME NEW c, Good(c), NEW m \in Modes, NEW r, NEW t, NEW s,
         HonestAt(c, m, r, t, s), r.at = "attempt",
         NEW a, a = ActionAt(c.actions, r.step),
         NEW w, NEW u, Reached(c, m, w, u),
         NEW e, e.step = r.step, e.tool = a.tool, e.attempt = r.attempt,
         NEW v, Finished(r, s, e, v, u), Added(s, Attempt(e), u),
         NEW r2, DOMAIN r2 = RunFields, r2.step = r.step, r2.attempt \in Nat,
         r2.context = r.context, r2.approved = r.approved, r2.before = r.before,
         Allowed(r) \/ r2.effects = r.effects,
         r2.at # "stopped", StageOf(r2) = "executed"
  PROVE  /\ Typed(c, r2, w, u) /\ Mirrors(u, w) /\ Told(u.actual, w)
         /\ Accounts(u, r2.step) /\ Cycles(c, r2, u) /\ Read(w, c.actions, m) = u
<1>1. /\ r.step \in Nat /\ s.step = r.step /\ Ready(r, a, s)
      /\ RequiresApproval(a) => r.approved = r.step
  <2>1. Attempting(m, r, a, s)
    BY AttemptFacts
  <2> QED BY <2>1 DEF Attempting
<1>2. /\ Listed(w) /\ Read(w, c.actions, m) = u /\ DOMAIN u = ReaderFields /\ u.ok
      /\ u.pos = Len(w) /\ u.pos \in Nat /\ Mirrors(u, w) /\ Told(u.actual, w)
  BY DEF Reached
<1>3. /\ Listed(s.proposals) /\ Listed(s.starts) /\ Listed(s.waits)
      /\ Listed(s.approvals) /\ Listed(s.resumes) /\ Listed(s.actual)
      /\ Listed(s.attempts) /\ Listed(s.faults) /\ Listed(s.invalid)
      /\ s.denied = FALSE /\ s.accepted = r.context /\ Len(t) = s.pos /\ Listed(t)
      /\ r.step \in 0..(Len(c.actions) - 1)
  BY DEF HonestAt, Typed
<1>4. s.pos \in Nat
  BY <1>3, ListGrows
<1>5. /\ Listed(u.starts) /\ Listed(u.attempts) /\ Listed(u.faults) /\ Listed(u.invalid)
  <2>1. Listed(u.starts) /\ Listed(u.attempts)
    BY <1>3, ListGrows DEF Finished
  <2>2. Listed(u.faults)
    <3>1. CASE u.faults = s.faults
      BY <1>3, <3>1
    <3>2. ASSUME NEW f, u.faults = Append(s.faults, f) PROVE Listed(u.faults)
      BY <1>3, <3>2, ListGrows
    <3> QED BY <3>1, <3>2 DEF Added
  <2>3. Listed(u.invalid)
    BY <1>3, ListGrows DEF Added
  <2> QED BY <2>1, <2>2, <2>3
<1>6. Typed(c, r2, w, u)
  BY <1>2, <1>3, <1>5 DEF Typed, Finished
<1>7. Accounts(u, r2.step)
  <2>1. PICK x : x = Attempt(e)
    OBVIOUS
  <2>2. x.step = r.step /\ x.tool = a.tool /\ x.attempt = r.attempt
    BY <2>1 DEF Attempt
  <2>3. Fresher(s, x)
    BY <1>1, <2>2 DEF Ready
  <2>4. x.step \in 0..r.step
    BY <1>1, <2>2
  <2>5. Accounts(s, r.step) /\ Added(s, x, u)
    BY <2>1 DEF HonestAt
  <2>6. Accounts(u, r.step)
    BY <1>3, <2>3, <2>4, <2>5, GrowAccounts
  <2> QED BY <2>6
<1>8. Cycles(c, r2, u)
  <2>1. /\ u.step = s.step /\ u.proposals = s.proposals
        /\ u.starts = Append(s.starts, [pos |-> s.pos + 1, step |-> r.step])
        /\ u.waits = s.waits /\ u.approvals = s.approvals /\ u.resumes = s.resumes
        /\ s.pos + 1 <= u.pos
    BY DEF Finished
  <2>2. GatedAt(c, r.step) => r.approved = r.step
    BY <1>1 DEF GatedAt
  <2>3. Cycles(c, r, s)
    BY DEF HonestAt
  <2> QED BY <1>1, <1>2, <1>3, <1>4, <2>1, <2>2, <2>3, StartCycles
<1> QED BY <1>2, <1>6, <1>7, <1>8

LEMMA SucceedMoves ==
  ASSUME NEW c, Good(c), NEW m \in Modes, NEW r, NEW t, Honest(c, m, r, t),
         r.at = "attempt", FaultAt(c, r) = "none"
  PROVE  Honest(c, m, NextRun(c, m, r), NextTrace(c, r, t))
<1>1. PICK s, a : s = Read(t, c.actions, m) /\ a = ActionAt(c.actions, r.step)
  OBVIOUS
<1>2. PICK e, f, r2 :
        /\ e = OfAttempt(r, a, "tool.attempt.started", "none")
        /\ f = OfAttempt(r, a, "tool.attempt.succeeded", Output(a))
        /\ r2 = [r EXCEPT !.at = "checkpoint",
                          !.effects = IF IsWrite(a) THEN @ + 1 ELSE @]
  OBVIOUS
<1>3. PICK v, u, w : v = Then(s, e) /\ u = Then(v, f) /\ w = Append(Append(t, e), f)
  OBVIOUS
<1>4. HonestAt(c, m, r, t, s)
  BY <1>1 DEF Honest
<1>5. /\ Open(s) /\ Calling(c, r, s) /\ a.type = "call_tool" /\ a.valid
      /\ RequiresApproval(a) => r.approved = r.step
      /\ r.attempt \in Nat \ {0}
      /\ s.active = [step |-> r.step, tool |-> a.tool]
      /\ s.step = r.step /\ r.step \in Nat
  BY <1>1, <1>4, AttemptFacts DEF Attempting
<1>6. Output(a) # NoOutput /\ Current(c, r) = a
  BY <1>1, <1>4, <1>5, RunFacts
<1>7. s.pos \in Nat /\ Listed(t) /\ Listed(s.attempts)
  BY <1>4, ListGrows DEF HonestAt, Typed
<1>8. NextRun(c, m, r) = r2 /\ NextTrace(c, r, t) = w
  <2>1. NextTrace(c, r, t) = t \o <<e, f>>
    BY <1>1, <1>2 DEF NextTrace, OfAttempt
  <2>2. t \o <<e, f>> = w
    BY <1>3, <1>7, JoinedTwo
  <2> QED BY <1>1, <1>2, <2>1, <2>2 DEF NextRun
<1>9. /\ Reached(c, m, Append(t, e), v) /\ Began(r, a, s, v)
      /\ v.faults = s.faults /\ v.invalid = s.invalid
  BY <1>1, <1>2, <1>3, <1>4, AttemptBegins, SMTT(20)
<1>10. /\ f.type = "tool.attempt.succeeded"
       /\ f.step = r.step /\ f.tool = a.tool /\ f.attempt = r.attempt
  BY <1>2 DEF OfAttempt, Event
<1>11. /\ Reached(c, m, w, u) /\ Finished(r, s, f, v, u)
       /\ u.pending = Output(a) /\ u.next = {"run.checkpointed"}
  <2>1. s.next = EventTypes
    BY <1>5 DEF Open
  <2>2. /\ a = ActionAt(c.actions, r.step) /\ Output(a) # NoOutput
        /\ s.active = [step |-> r.step, tool |-> a.tool] /\ s.pos \in Nat
        /\ Reached(c, m, Append(t, e), v) /\ Began(r, a, s, v)
    BY <1>1, <1>5, <1>6, <1>7, <1>9
  <2>3. u = Then(v, f) /\ f = OfAttempt(r, a, "tool.attempt.succeeded", Output(a))
    BY <1>2, <1>3
  <2>4. PICK y : y = Append(t, e)
    OBVIOUS
  <2>5. Reached(c, m, y, v)
    BY <2>2, <2>4
  <2>6. Reached(c, m, Append(y, f), u) /\ Finished(r, s, f, v, u) /\ Left(a, s, f, u)
    BY <2>1, <2>2, <2>3, <2>5, AttemptEnds, ZenonT(30)
  <2> QED BY <1>3, <1>10, <2>4, <2>6 DEF Left
<1>12. /\ DOMAIN r2 = RunFields /\ r2.step = r.step /\ r2.attempt = r.attempt
       /\ r2.context = r.context /\ r2.approved = r.approved /\ r2.before = r.before
       /\ r2.status = r.status /\ r2.at = "checkpoint"
       /\ IsWrite(a) \/ r2.effects = r.effects
  BY <1>2, <1>4 DEF HonestAt, Typed, RunFields
<1>13. Allowed(r) \/ r2.effects = r.effects
  <2>1. IsWrite(a) => Allowed(r)
    BY <1>5 DEF IsWrite, RequiresApproval, Allowed, NoStep
  <2> QED BY <1>12, <2>1
<1>14. Added(s, Attempt(f), u)
  BY <1>9, <1>10, <1>11 DEF Added, Attempt, Finished
<1>15. StageOf(r2) = "executed"
  BY <1>12 DEF StageOf
<1>16. /\ Typed(c, r2, w, u) /\ Mirrors(u, w) /\ Told(u.actual, w)
       /\ Accounts(u, r2.step) /\ Cycles(c, r2, u) /\ Read(w, c.actions, m) = u
  <2>1. r2.at # "stopped" /\ r2.attempt \in Nat
    BY <1>5, <1>12
  <2> QED BY <1>1, <1>4, <1>10, <1>11, <1>12, <1>13, <1>14, <1>15, <2>1, AttemptOver
<1>17. Control(c, m, r2, u)
  <2>1. Calling(c, r2, u) /\ Current(c, r2) = a
    BY <1>5, <1>6, <1>11, <1>12 DEF Calling, Current, Finished
  <2>2. u.refused = "none" /\ u.closing = NoAction
    BY <1>5, <1>11 DEF Open, Finished
  <2> QED BY <1>5, <1>11, <1>12, <2>1, <2>2 DEF Control
<1>18. Tried(c, r2, u)
  <2>1. u.attempts = Append(s.attempts, Attempt(f)) /\ Attempt(f).attempt = r.attempt
    BY <1>10, <1>11 DEF Finished, Attempt
  <2>2. u.attempts # <<>> /\ Last(u.attempts).attempt = r2.attempt
    BY <1>7, <1>12, <2>1, ListGrows
  <2> QED BY <1>12, <2>2 DEF Tried
<1> QED BY <1>8, <1>16, <1>17, <1>18 DEF Honest, HonestAt

LEMMA FaultTypes ==
  ASSUME NEW c, Good(c), NEW r, FaultAt(c, r) # "none"
  PROVE  FaultAt(c, r) \in DOMAIN FaultFailure
<1> DEFINE M == {f \in c.faults : /\ f.tool = ActionAt(c.actions, r.step).tool
                                  /\ f.attempt = r.attempt}
<1>1. M # {} /\ FaultAt(c, r) = (CHOOSE f \in M : TRUE).type
  BY DEF FaultAt
<1>2. (CHOOSE f \in M : TRUE) \in c.faults
  BY <1>1
<1>3. \A f \in c.faults : f.type \in DOMAIN FaultFailure
  BY DEF Good, ScenarioFiles
<1> QED BY <1>1, <1>2, <1>3

\* What a failing attempt leaves behind, but for where it goes on.
Failing(c, m, r, a, s, k, w, e, v, u) ==
  /\ Reached(c, m, w, u) /\ Finished(r, s, e, v, u) /\ Left(a, s, e, u)
  /\ e = OfAttempt(r, a, "tool.attempt.failed", FaultFailure[k])
  /\ Added(s, Attempt(e), u)

LEMMA FaultBlamed ==
  ASSUME NEW r, NEW a, NEW k \in DOMAIN FaultFailure,
         NEW e, e = OfAttempt(r, a, "tool.attempt.failed", FaultFailure[k]),
         NEW i, i = OfAttempt(r, a, "fault.injected", k)
  PROVE  /\ Causes(FaultEvidence(i), Attempt(e))
         /\ Attempt(e).status = "failed"
         /\ Attempt(e).code = FaultFailure[k].code
         /\ Attempt(e).transient = FaultFailure[k].transient
         /\ Attempt(e).step = r.step /\ Attempt(e).tool = a.tool
         /\ Attempt(e).attempt = r.attempt
         /\ Attempt(e).code = "invalid_output" <=> k = "malformed_output"
<1>1. k \in {"timeout", "rate_limit", "tool_error", "malformed_output"}
  BY DEF FaultFailure
<1>2. /\ FaultFailure[k].transient \in BOOLEAN
      /\ FaultFailure[k].code = "invalid_output" <=> k = "malformed_output"
      /\ FaultFailure[k] = [code |-> FaultFailure[k].code,
                            transient |-> FaultFailure[k].transient]
  <2>1. CASE k = "timeout"
    BY <2>1 DEF FaultFailure
  <2>2. CASE k = "rate_limit"
    BY <2>2 DEF FaultFailure
  <2>3. CASE k = "tool_error"
    BY <2>3 DEF FaultFailure
  <2>4. CASE k = "malformed_output"
    BY <2>4 DEF FaultFailure
  <2> QED BY <1>1, <2>1, <2>2, <2>3, <2>4
<1>3. /\ e.type = "tool.attempt.failed" /\ e.step = r.step /\ e.tool = a.tool
      /\ e.attempt = r.attempt /\ e.data = FaultFailure[k]
      /\ i.step = r.step /\ i.tool = a.tool /\ i.attempt = r.attempt /\ i.data = k
  BY DEF OfAttempt, Event
<1>4. PICK x : x = Attempt(e)
  OBVIOUS
<1>5. /\ x.step = r.step /\ x.tool = a.tool /\ x.attempt = r.attempt
      /\ x.status = "failed" /\ x.code = FaultFailure[k].code
      /\ x.transient = FaultFailure[k].transient
  BY <1>2, <1>3, <1>4 DEF Attempt
<1>6. PICK f : f = FaultEvidence(i)
  OBVIOUS
<1>7. f.step = r.step /\ f.tool = a.tool /\ f.attempt = r.attempt /\ f.type = k
  BY <1>3, <1>6 DEF FaultEvidence
<1>8. Causes(f, x)
  <2>1. Identity(f) = Identity(x)
    BY <1>5, <1>7 DEF Identity
  <2>2. FaultFailure[k] = Failure(x)
    BY <1>2, <1>5 DEF Failure
  <2> QED BY <1>5, <1>7, <2>1, <2>2 DEF Causes
<1> QED BY <1>2, <1>4, <1>5, <1>6, <1>8

LEMMA FailingEvents ==
  ASSUME NEW c, Good(c), NEW m \in Modes, NEW r, NEW t, NEW s,
         HonestAt(c, m, r, t, s), s = Read(t, c.actions, m), r.at = "attempt",
         NEW a, a = ActionAt(c.actions, r.step),
         NEW k, k = FaultAt(c, r), k # "none"
  PROVE  \E w, e, v, u : NextTrace(c, r, t) = w /\ Failing(c, m, r, a, s, k, w, e, v, u)
<1>1. Attempting(m, r, a, s)
  BY AttemptFacts
<1>2. /\ s.next = EventTypes /\ a.type = "call_tool" /\ a.valid
      /\ s.active = [step |-> r.step, tool |-> a.tool]
  BY <1>1 DEF Attempting, Open
<1>3. Output(a) # NoOutput
  BY <1>2, RunFacts
<1>4. s.pos \in Nat /\ Listed(t)
  BY ListGrows DEF HonestAt, Typed
<1>5. k \in DOMAIN FaultFailure
  BY FaultTypes
<1>6. PICK e1, e2, e3, e4 :
        /\ e1 = OfAttempt(r, a, "tool.attempt.started", "none")
        /\ e2 = OfAttempt(r, a, "fault.injected", k)
        /\ e3 = OfAttempt(r, a, "tool.output.validation_failed", "none")
        /\ e4 = OfAttempt(r, a, "tool.attempt.failed", FaultFailure[k])
  OBVIOUS
<1>7. PICK t1, v1, t2, v2 :
        t1 = Append(t, e1) /\ v1 = Then(s, e1) /\ t2 = Append(t1, e2) /\ v2 = Then(v1, e2)
  OBVIOUS
<1>8. /\ Reached(c, m, t1, v1) /\ Began(r, a, s, v1)
      /\ v1.faults = s.faults /\ v1.invalid = s.invalid
  <2>1. v1 = Then(s, e1)
    BY <1>7
  <2>2. /\ Reached(c, m, Append(t, e1), v1) /\ Began(r, a, s, v1)
        /\ v1.faults = s.faults /\ v1.invalid = s.invalid
    BY <1>6, <2>1, AttemptBegins
  <2> QED BY <1>7, <2>2
<1>9. e2.type = "fault.injected" /\ e3.type = "tool.output.validation_failed"
  BY <1>6 DEF OfAttempt, Event
<1>10. /\ Reached(c, m, t2, v2) /\ Began(r, a, s, v2)
       /\ v2.faults = Append(s.faults, FaultEvidence(e2)) /\ v2.invalid = s.invalid
  <2>1. v2 = Then(v1, e2)
    BY <1>7
  <2>2. e2 = OfAttempt(r, a, "fault.injected", k)
    BY <1>6
  <2>3. Reached(c, m, Append(t1, e2), v2) /\ Began(r, a, s, v2) /\ Noted(v1, e2, v2)
    BY <1>2, <1>4, <1>8, <2>1, <2>2, AttemptGoesOn
  <2> QED BY <1>7, <1>8, <1>9, <2>3 DEF Noted
<1>11. /\ Causes(FaultEvidence(e2), Attempt(e4))
       /\ Attempt(e4).status = "failed"
       /\ Attempt(e4).code = "invalid_output" <=> k = "malformed_output"
  BY <1>5, <1>6, FaultBlamed
<1>12. Identity(e3) = Identity(Attempt(e4))
  BY <1>6 DEF OfAttempt, Event, Identity, Attempt
<1>13. CASE k # "malformed_output"
  <2>1. PICK w, u : w = Append(t2, e4) /\ u = Then(v2, e4)
    OBVIOUS
  <2>2. NextTrace(c, r, t) = w
    <3>1. NextTrace(c, r, t) = t \o (<<e1, e2>> \o <<>> \o <<e4>>)
      BY <1>6, <1>13 DEF NextTrace, OfAttempt
    <3>2. t \o (<<e1, e2>> \o <<>> \o <<e4>>) = Append(Append(Append(t, e1), e2), e4)
      BY <1>4, JoinedThree
    <3> QED BY <1>7, <2>1, <3>1, <3>2
  <2>3. Reached(c, m, w, u) /\ Finished(r, s, e4, v2, u) /\ Left(a, s, e4, u)
    <3>1. u = Then(v2, e4)
      BY <2>1
    <3>2. e4 = OfAttempt(r, a, "tool.attempt.failed", FaultFailure[k])
      BY <1>6
    <3>3. Reached(c, m, t2, v2) /\ Began(r, a, s, v2)
      BY <1>10
    <3>4. /\ Reached(c, m, Append(t2, e4), u) /\ Finished(r, s, e4, v2, u)
          /\ Left(a, s, e4, u)
      BY <1>2, <1>3, <1>4, <3>1, <3>2, <3>3, AttemptEnds
    <3> QED BY <2>1, <3>4
  <2>4. Added(s, Attempt(e4), u)
    <3>1. /\ u.attempts = Append(s.attempts, Attempt(e4))
          /\ u.faults = Append(s.faults, FaultEvidence(e2)) /\ u.invalid = s.invalid
      BY <1>10, <2>3 DEF Finished
    <3> QED BY <1>11, <1>13, <3>1 DEF Added
  <2>5. Failing(c, m, r, a, s, k, w, e4, v2, u)
    BY <1>6, <2>3, <2>4 DEF Failing
  <2> QED BY <2>2, <2>5
<1>14. CASE k = "malformed_output"
  <2>6. PICK t3, v3 : t3 = Append(t2, e3) /\ v3 = Then(v2, e3)
    OBVIOUS
  <2>1. PICK w, u : w = Append(t3, e4) /\ u = Then(v3, e4)
    OBVIOUS
  <2>2. NextTrace(c, r, t) = w
    <3>1. NextTrace(c, r, t) = t \o (<<e1, e2>> \o <<e3>> \o <<e4>>)
      BY <1>6, <1>14 DEF NextTrace, OfAttempt
    <3>2. t \o (<<e1, e2>> \o <<e3>> \o <<e4>>)
            = Append(Append(Append(Append(t, e1), e2), e3), e4)
      BY <1>4, JoinedFour
    <3> QED BY <1>7, <2>1, <2>6, <3>1, <3>2
  <2>7. /\ Reached(c, m, t3, v3) /\ Began(r, a, s, v3)
        /\ v3.faults = v2.faults /\ v3.invalid = Append(s.invalid, Identity(e3))
    <3>1. v3 = Then(v2, e3)
      BY <2>6
    <3>2. e3 = OfAttempt(r, a, "tool.output.validation_failed", "none")
      BY <1>6
    <3>3. Reached(c, m, t2, v2) /\ Began(r, a, s, v2)
      BY <1>10
    <3>4. Reached(c, m, Append(t2, e3), v3) /\ Began(r, a, s, v3) /\ Noted(v2, e3, v3)
      BY <1>2, <1>4, <3>1, <3>2, <3>3, AttemptGoesOn
    <3> QED BY <1>9, <1>10, <2>6, <3>4 DEF Noted
  <2>3. Reached(c, m, w, u) /\ Finished(r, s, e4, v3, u) /\ Left(a, s, e4, u)
    <3>1. u = Then(v3, e4)
      BY <2>1
    <3>2. e4 = OfAttempt(r, a, "tool.attempt.failed", FaultFailure[k])
      BY <1>6
    <3>3. Reached(c, m, t3, v3) /\ Began(r, a, s, v3)
      BY <2>7
    <3>4. /\ Reached(c, m, Append(t3, e4), u) /\ Finished(r, s, e4, v3, u)
          /\ Left(a, s, e4, u)
      BY <1>2, <1>3, <1>4, <3>1, <3>2, <3>3, AttemptEnds
    <3> QED BY <2>1, <3>4
  <2>4. Added(s, Attempt(e4), u)
    <3>1. /\ u.attempts = Append(s.attempts, Attempt(e4))
          /\ u.faults = Append(s.faults, FaultEvidence(e2))
          /\ u.invalid = Append(s.invalid, Identity(Attempt(e4)))
      BY <1>10, <1>12, <2>3, <2>7 DEF Finished
    <3> QED BY <1>11, <1>14, <3>1 DEF Added
  <2>5. Failing(c, m, r, a, s, k, w, e4, v3, u)
    BY <1>6, <2>3, <2>4 DEF Failing
  <2> QED BY <2>2, <2>5
<1> QED BY <1>13, <1>14

LEMMA AttemptedMoves ==
  ASSUME NEW c, Good(c), NEW m \in Modes, NEW r, NEW t, Honest(c, m, r, t),
         r.at = "attempt", FaultAt(c, r) # "none"
  PROVE  Honest(c, m, NextRun(c, m, r), NextTrace(c, r, t))
<1>1. PICK s, a, k : /\ s = Read(t, c.actions, m) /\ a = ActionAt(c.actions, r.step)
                     /\ k = FaultAt(c, r)
  OBVIOUS
<1>4. HonestAt(c, m, r, t, s)
  BY <1>1 DEF Honest
<1>5. Attempting(m, r, a, s) /\ Calling(c, r, s)
  BY <1>1, <1>4, AttemptFacts
<1>6. Open(s) /\ r.attempt \in Nat \ {0} /\ Ready(r, a, s)
      /\ s.active = [step |-> r.step, tool |-> a.tool]
      /\ a.valid /\ (RequiresApproval(a) => r.approved = r.step)
  BY <1>5 DEF Attempting
<1>2. PICK w, e, v, u :
        NextTrace(c, r, t) = w /\ Failing(c, m, r, a, s, k, w, e, v, u)
  BY <1>1, <1>4, FailingEvents
<1>3. PICK r2 : r2 = IF FaultFailure[k].transient /\ r.attempt < AttemptLimit(m)
                     THEN [r EXCEPT !.attempt = @ + 1]
                     ELSE [r EXCEPT !.at = "fail", !.code = FaultFailure[k].code]
  OBVIOUS
<1>7. NextRun(c, m, r) = r2
  BY <1>1, <1>3 DEF NextRun
<1>8. /\ Reached(c, m, w, u) /\ Finished(r, s, e, v, u) /\ Left(a, s, e, u)
      /\ e = OfAttempt(r, a, "tool.attempt.failed", FaultFailure[k])
      /\ Added(s, Attempt(e), u)
  BY <1>2 DEF Failing
<1>9. k \in DOMAIN FaultFailure /\ Current(c, r) = a
  BY <1>1, <1>4, FaultTypes, RunFacts
<1>10. PICK x : x = Attempt(e)
  OBVIOUS
<1>11. /\ x.status = "failed" /\ x.transient = FaultFailure[k].transient
       /\ x.step = r.step /\ x.tool = a.tool /\ x.attempt = r.attempt
  <2>1. PICK i : i = OfAttempt(r, a, "fault.injected", k)
    OBVIOUS
  <2> QED BY <1>8, <1>9, <1>10, <2>1, FaultBlamed
<1>12. /\ e.step = r.step /\ e.tool = a.tool /\ e.attempt = r.attempt
       /\ e.type # "tool.attempt.succeeded"
  BY <1>8 DEF OfAttempt, Event
<1>13. /\ DOMAIN r2 = RunFields /\ r2.step = r.step
       /\ r2.context = r.context /\ r2.approved = r.approved /\ r2.before = r.before
       /\ r2.status = r.status /\ r2.effects = r.effects
       /\ \/ /\ r2.at = "attempt" /\ r2.attempt = r.attempt + 1
             /\ FaultFailure[k].transient /\ r.attempt < AttemptLimit(m)
          \/ r2.at = "fail" /\ r2.attempt = r.attempt
  <2>1. DOMAIN r = RunFields
    BY <1>4 DEF HonestAt, Typed
  <2>2. CASE FaultFailure[k].transient /\ r.attempt < AttemptLimit(m)
    BY <1>3, <1>5, <2>1, <2>2, <1>4 DEF RunFields
  <2>3. CASE ~(FaultFailure[k].transient /\ r.attempt < AttemptLimit(m))
    BY <1>3, <2>1, <2>3 DEF RunFields
  <2> QED BY <2>2, <2>3
<1>14. /\ Typed(c, r2, w, u) /\ Mirrors(u, w) /\ Told(u.actual, w)
       /\ Accounts(u, r2.step) /\ Cycles(c, r2, u) /\ Read(w, c.actions, m) = u
  <2>1. r2.at # "stopped" /\ r2.attempt \in Nat
    BY <1>6, <1>13
  <2>2. StageOf(r2) = "executed"
    BY <1>6, <1>13 DEF StageOf
  <2>3. r.at = "attempt" /\ (Allowed(r) \/ r2.effects = r.effects)
    BY <1>13
  <2> QED BY <1>1, <1>4, <1>8, <1>12, <1>13, <2>1, <2>2, <2>3, AttemptOver
<1>15. /\ u.step = s.step /\ u.active = s.active /\ u.closing = s.closing
       /\ u.refused = s.refused /\ u.actual = s.actual
       /\ u.attempts = Append(s.attempts, x)
       /\ u.pending = s.pending /\ u.next = s.next
  BY <1>8, <1>10, <1>12 DEF Finished, Left
<1>16. u.attempts # <<>> /\ Last(u.attempts) = x
  BY <1>4, <1>15, ListGrows DEF HonestAt, Typed
<1>17. Calling(c, r2, u) /\ Open(u) /\ Current(c, r2) = a
  BY <1>5, <1>6, <1>9, <1>13, <1>15 DEF Calling, Open, Current
<1>18. Control(c, m, r2, u)
  <2>1. CASE r2.at = "attempt"
    <3>1. r2.attempt \in 1..AttemptLimit(m)
      BY <1>6, <1>13, <2>1 DEF AttemptLimit
    <3> QED BY <1>6, <1>13, <1>17, <2>1, <3>1 DEF Control
  <2>2. CASE r2.at = "fail"
    <3>1. u.refused = "none" /\ u.next = EventTypes /\ u.closing = NoAction
      BY <1>17 DEF Open
    <3>2. Last(u.attempts).status = "failed"
      BY <1>11, <1>16
    <3> QED BY <1>16, <1>17, <2>2, <3>1, <3>2 DEF Control
  <2> QED BY <1>13, <2>1, <2>2
<1>19. Tried(c, r2, u)
  <2>1. CASE r2.at = "fail"
    BY <2>1 DEF Tried
  <2>2. CASE r2.at = "attempt" /\ r2.attempt = r.attempt + 1
              /\ FaultFailure[k].transient
    <3>1. ASSUME NEW i \in DOMAIN u.attempts, u.attempts[i].step = r2.step
          PROVE  /\ u.attempts[i].tool = a.tool /\ u.attempts[i].attempt < r2.attempt
                 /\ u.attempts[i].status = "failed" /\ u.attempts[i].transient
      <4>1. /\ Listed(s.attempts)
            /\ \/ i \in DOMAIN s.attempts /\ u.attempts[i] = s.attempts[i]
               \/ u.attempts[i] = x
        <5>1. Listed(s.attempts)
          BY <1>4 DEF HonestAt, Typed
        <5>2. PICK n : n = Len(s.attempts)
          OBVIOUS
        <5>3. /\ n \in Nat /\ DOMAIN s.attempts = 1..n /\ DOMAIN u.attempts = 1..(n + 1)
              /\ u.attempts[n + 1] = x /\ \A j \in 1..n : u.attempts[j] = s.attempts[j]
          BY <1>15, <5>1, <5>2, ListGrows
        <5>4. i = n + 1 \/ i \in 1..n
          BY <5>3
        <5> QED BY <5>1, <5>3, <5>4
      <4>2. CASE u.attempts[i] = x
        <5>1. x.attempt < r2.attempt
          BY <1>6, <1>11, <2>2
        <5>2. x.transient
          BY <1>11, <2>2
        <5> QED BY <1>11, <4>2, <5>1, <5>2
      <4>3. CASE i \in DOMAIN s.attempts /\ u.attempts[i] = s.attempts[i]
        <5>1. Fresher(s, x)
          BY <1>6, <1>11 DEF Ready
        <5>2. s.attempts[i].step = x.step
          BY <1>11, <1>13, <3>1, <4>3
        <5>3. /\ s.attempts[i].tool = x.tool /\ s.attempts[i].attempt < x.attempt
              /\ s.attempts[i].status = "failed" /\ s.attempts[i].transient
          BY <4>3, <5>1, <5>2 DEF Fresher
        <5>4. s.attempts[i].attempt \in Nat
          BY <1>4, <4>3 DEF HonestAt, Accounts, Sound
        <5>5. s.attempts[i].attempt < r2.attempt
          BY <1>6, <1>11, <2>2, <5>3, <5>4
        <5> QED BY <1>11, <4>3, <5>3, <5>5
      <4> QED BY <4>1, <4>2, <4>3
    <3>2. CallOf(Last(u.attempts)) = u.active /\ Last(u.attempts).attempt = r2.attempt - 1
      BY <1>6, <1>11, <1>15, <1>16, <2>2 DEF CallOf
    <3> QED BY <1>16, <1>17, <2>2, <3>1, <3>2 DEF Tried
  <2> QED BY <1>13, <2>1, <2>2
<1> QED BY <1>2, <1>7, <1>14, <1>18, <1>19 DEF Honest, HonestAt

-----------------------------------------------------------------------------
(* From the first event of a case to its last *)

LEMMA HonestStarts ==
  ASSUME NEW c, Good(c), NEW m
  PROVE  Honest(c, m, NoRun, <<>>)
<1>1. PICK s, r, t : s = Start /\ r = NoRun /\ t = <<>>
  OBVIOUS
<1>2. Read(t, c.actions, m) = s
  BY <1>1, ReadStarts
<1>3. /\ DOMAIN s = ReaderFields /\ s.ok /\ s.pos = 0 /\ s.next = EventTypes
      /\ s.step = -1 /\ s.active = NoCall /\ s.closing = NoAction /\ s.started = {}
      /\ s.pending = NoOutput /\ s.refused = "none" /\ s.denied = FALSE
      /\ s.proposals = <<>> /\ s.starts = <<>> /\ s.waits = <<>>
      /\ s.approvals = <<>> /\ s.resumes = <<>> /\ s.actual = <<>>
      /\ s.attempts = <<>> /\ s.faults = <<>> /\ s.invalid = <<>> /\ s.accepted = <<>>
  BY <1>1 DEF Start, ReaderFields
<1>4. /\ DOMAIN r = RunFields /\ r.status = "queued" /\ r.at = "enter" /\ r.step = 0
      /\ r.attempt = 0 /\ r.context = <<>> /\ r.approved = -1 /\ r.effects = 0
      /\ r.before = 0 /\ ~Allowed(r)
  BY <1>1 DEF NoRun, NoStep, RunFields, Allowed
<1>5. Listed(<<>>) /\ DOMAIN <<>> = {} /\ Len(<<>>) = 0 /\ ToSet(<<>>) = {}
  BY NothingListed DEF ToSet
<1>6. Typed(c, r, t, s)
  <2>1. r.step \in 0..(Len(c.actions) - 1)
    BY <1>4 DEF Good, Orderly
  <2> QED BY <1>1, <1>3, <1>4, <1>5, <2>1 DEF Typed
<1>7. Control(c, m, r, s)
  BY <1>3, <1>4, <1>5 DEF Control, Open, Fresh
<1>8. Mirrors(s, t)
  <2>1. \A types : OfType(t, types) = <<>>
    BY <1>1, NothingPicked DEF OfType
  <2>2. AttemptsOf(<<>>) = <<>> /\ FaultsOf(<<>>) = <<>> /\ InvalidOf(<<>>) = <<>>
    BY <1>5 DEF AttemptsOf, FaultsOf, InvalidOf
  <2> QED BY <1>3, <2>1, <2>2 DEF Mirrors
<1>9. Told(s.actual, t)
  BY <1>1, <1>3, <1>5 DEF Told
<1>10. Accounts(s, r.step) /\ Tried(c, r, s)
  BY <1>3, <1>4, <1>5 DEF Accounts, Distinct, Tried
<1>11. Cycles(c, r, s)
  <2>1. \A step : At(<<>>, step) = <<>>
    BY NothingPicked DEF At
  <2> QED BY <1>3, <1>4, <2>1 DEF Cycles
<1> QED BY <1>1, <1>2, <1>6, <1>7, <1>8, <1>9, <1>10, <1>11 DEF Honest, HonestAt

LEMMA HonestStep ==
  ASSUME RunStep, Mode \in Modes, Good(Scenario), Honest(Scenario, Mode, run, trace)
  PROVE  Honest(Scenario, Mode, run', trace')
<1>1. PICK c, m, r, t, a : /\ c = Scenario /\ m = Mode /\ r = run /\ t = trace
                           /\ a = ActionAt(c.actions, r.step)
  OBVIOUS
<1>2. run' = NextRun(c, m, r) /\ trace' = NextTrace(c, r, t)
  BY <1>1, RunFollows
<1>3. /\ Good(c) /\ m \in Modes /\ Honest(c, m, r, t)
  BY <1>1
<1>4. a # NoAction /\ a.type \in {"call_tool", "finish"}
  <2>1. PICK s : s = Read(t, c.actions, m)
    OBVIOUS
  <2>2. HonestAt(c, m, r, t, s)
    BY <1>3, <2>1 DEF Honest
  <2> QED BY <1>1, <1>3, <2>2, RunFacts
<1>5. Action = a
  BY <1>1 DEF Action
<1>6. Honest(c, m, NextRun(c, m, r), NextTrace(c, r, t))
  <2>1. CASE Enter
    <3>1. r.at = "enter"
      BY <1>1, <2>1 DEF Enter, Drive
    <3> QED BY <1>3, <3>1, EnterMoves
  <2>2. CASE Exhaust
    BY <1>4, <1>5, <2>2 DEF Exhaust
  <2>3. CASE Propose
    <3>1. r.at = "propose"
      BY <1>1, <2>3 DEF Propose, Drive
    <3> QED BY <1>3, <3>1, ProposeMoves
  <2>4. CASE Finish
    <3>1. r.at = "dispatch" /\ ActionAt(c.actions, r.step).type = "finish"
      BY <1>1, <1>5, <2>4 DEF Finish, Drive
    <3> QED BY <1>3, <3>1, FinishMoves
  <2>5. CASE GiveUp
    BY <1>4, <1>5, <2>5 DEF GiveUp
  <2>6. CASE Refuse
    <3>1. /\ r.at = "dispatch" /\ ActionAt(c.actions, r.step).type = "call_tool"
          /\ ~ActionAt(c.actions, r.step).valid
      BY <1>1, <1>5, <2>6 DEF Refuse, Drive
    <3> QED BY <1>3, <3>1, RefuseMoves
  <2>7. CASE Wait
    <3>1. /\ r.at = "dispatch" /\ ActionAt(c.actions, r.step).type = "call_tool"
          /\ ActionAt(c.actions, r.step).valid
          /\ RequiresApproval(ActionAt(c.actions, r.step)) /\ r.approved # r.step
      BY <1>1, <1>5, <2>7 DEF Wait, MustWait, Drive
    <3> QED BY <1>3, <3>1, WaitMoves
  <2>8. CASE StartCall
    <3>1. /\ r.at = "dispatch" /\ ActionAt(c.actions, r.step).type = "call_tool"
          /\ ActionAt(c.actions, r.step).valid
          /\ ~(RequiresApproval(ActionAt(c.actions, r.step)) /\ r.approved # r.step)
      BY <1>1, <1>5, <2>8 DEF StartCall, MustWait, Drive
    <3> QED BY <1>3, <3>1, StartCallMoves
  <2>9. CASE Attempted
    <3>1. r.at = "attempt" /\ FaultAt(c, r) # "none"
      BY <1>1, <2>9 DEF Attempted, FaultNow, Drive
    <3> QED BY <1>3, <3>1, AttemptedMoves
  <2>10. CASE Succeed
    <3>1. r.at = "attempt" /\ FaultAt(c, r) = "none"
      BY <1>1, <2>10 DEF Succeed, FaultNow, Drive
    <3> QED BY <1>3, <3>1, SucceedMoves
  <2>11. CASE Checkpoint
    <3>1. r.at = "checkpoint"
      BY <1>1, <2>11 DEF Checkpoint, Drive
    <3> QED BY <1>3, <3>1, CheckpointMoves
  <2>12. CASE Fail
    <3>1. r.at = "fail"
      BY <1>1, <2>12 DEF Fail, Drive
    <3> QED BY <1>3, <3>1, FailMoves
  <2>13. CASE Approve
    <3>1. r.at = "stopped" /\ r.status = "waiting_approval" /\ ~Allowed(r)
      BY <1>1, <2>13 DEF Approve, Approvable, Waiting, Drive
    <3> QED BY <1>3, <3>1, ApproveMoves
  <2> QED BY <2>1, <2>2, <2>3, <2>4, <2>5, <2>6, <2>7, <2>8, <2>9, <2>10, <2>11,
             <2>12, <2>13 DEF RunStep
<1> QED BY <1>1, <1>2, <1>6

\* The six frozen sequences are orderly.
LEMMA FrozenOrderly ==
  ASSUME NEW n \in FrozenNames
  PROVE  Orderly(FrozenActions[n])
<1>1. n \in {"approval-reconstruction", "malformed-output-rejected", "normal-success",
             "permanent-invalid-input", "rate-limit-recovery", "timeout-recovery"}
  <2>1. DOMAIN FrozenSuite = 1..6
    BY DEF FrozenSuite
  <2>2. PICK i \in 1..6 : n = FrozenSuite[i]
    BY <2>1 DEF FrozenNames
  <2>3. i = 1 \/ i = 2 \/ i = 3 \/ i = 4 \/ i = 5 \/ i = 6
    BY <2>2
  <2> QED BY <2>2, <2>3 DEF FrozenSuite
<1>2. /\ Health = [type |-> "call_tool", tool |-> "get_service_health",
                   valid |-> TRUE, result |-> "none"]
      /\ Logs = [type |-> "call_tool", tool |-> "search_recent_logs",
                 valid |-> TRUE, result |-> "none"]
      /\ BadLogs = [type |-> "call_tool", tool |-> "search_recent_logs",
                    valid |-> FALSE, result |-> "none"]
      /\ Deployment = [type |-> "call_tool", tool |-> "get_deployment",
                       valid |-> TRUE, result |-> "none"]
      /\ Rollback = [type |-> "call_tool", tool |-> "prepare_rollback",
                     valid |-> TRUE, result |-> "none"]
      /\ \A x : Done(x) = [type |-> "finish", tool |-> "none",
                           valid |-> TRUE, result |-> x]
  <2>1. Health = [type |-> "call_tool", tool |-> "get_service_health",
                  valid |-> TRUE, result |-> "none"]
    BY DEF Health, Call, Act
  <2>2. Logs = [type |-> "call_tool", tool |-> "search_recent_logs",
                valid |-> TRUE, result |-> "none"]
    BY DEF Logs, Call, Act
  <2>3. BadLogs = [type |-> "call_tool", tool |-> "search_recent_logs",
                   valid |-> FALSE, result |-> "none"]
    <3>1. PICK l, u : l = Logs /\ u = BadLogs
      OBVIOUS
    <3>2. DOMAIN l = {"type", "tool", "valid", "result"}
      BY <2>2, <3>1
    <3>3. u = [l EXCEPT !.valid = FALSE]
      BY <3>1 DEF BadLogs
    <3>4. u = [f \in {"type", "tool", "valid", "result"} |->
                 IF f = "valid" THEN FALSE ELSE l[f]]
      BY <3>2, <3>3
    <3>5. /\ l.type = "call_tool" /\ l.tool = "search_recent_logs"
          /\ l.result = "none"
      BY <2>2, <3>1
    <3>6. /\ u.type = "call_tool" /\ u.tool = "search_recent_logs"
          /\ u.valid = FALSE /\ u.result = "none"
      BY <3>4, <3>5
    <3> QED BY <3>1, <3>4, <3>6
  <2>4. Deployment = [type |-> "call_tool", tool |-> "get_deployment",
                      valid |-> TRUE, result |-> "none"]
    BY DEF Deployment, Call, Act
  <2>5. Rollback = [type |-> "call_tool", tool |-> "prepare_rollback",
                    valid |-> TRUE, result |-> "none"]
    BY DEF Rollback, Call, Act
  <2>6. \A x : Done(x) = [type |-> "finish", tool |-> "none",
                          valid |-> TRUE, result |-> x]
    BY DEF Done, Act
  <2> QED BY <2>1, <2>2, <2>3, <2>4, <2>5, <2>6
<1>3. PICK actions : actions = FrozenActions[n]
  OBVIOUS
<1>4. CASE n = "approval-reconstruction"
  <2>1. actions = <<Deployment, Rollback, Done("prepared")>>
    BY <1>3, <1>4 DEF FrozenActions
  <2>2. \A i \in 1..3 : i = 1 \/ i = 2 \/ i = 3
    OBVIOUS
  <2>3. \A i \in 1..2 : i = 1 \/ i = 2
    OBVIOUS
  <2> QED BY <1>2, <1>3, <2>1, <2>2, <2>3 DEF Orderly, Registered, RequiresApproval
<1>5. CASE n = "permanent-invalid-input"
  <2>1. actions = <<BadLogs, Done("diagnosed")>>
    BY <1>3, <1>5 DEF FrozenActions
  <2>2. \A i \in 1..2 : i = 1 \/ i = 2
    OBVIOUS
  <2>3. \A i \in 1..1 : i = 1
    OBVIOUS
  <2> QED BY <1>2, <1>3, <2>1, <2>2, <2>3 DEF Orderly, Registered, RequiresApproval
<1>6. CASE n \in {"malformed-output-rejected", "rate-limit-recovery"}
  <2>1. actions = <<Health, Deployment, Done("diagnosed")>>
    BY <1>3, <1>6 DEF FrozenActions
  <2>2. \A i \in 1..3 : i = 1 \/ i = 2 \/ i = 3
    OBVIOUS
  <2>3. \A i \in 1..2 : i = 1 \/ i = 2
    OBVIOUS
  <2> QED BY <1>2, <1>3, <2>1, <2>2, <2>3 DEF Orderly, Registered, RequiresApproval
<1>7. CASE n \in {"normal-success", "timeout-recovery"}
  <2>1. actions = <<Health, Logs, Deployment, Done("diagnosed")>>
    BY <1>3, <1>7 DEF FrozenActions, FrozenNames
  <2>2. \A i \in 1..4 : i = 1 \/ i = 2 \/ i = 3 \/ i = 4
    OBVIOUS
  <2>3. \A i \in 1..3 : i = 1 \/ i = 2 \/ i = 3
    OBVIOUS
  <2> QED BY <1>2, <1>3, <2>1, <2>2, <2>3 DEF Orderly, Registered, RequiresApproval
<1> QED BY <1>1, <1>4, <1>5, <1>6, <1>7

-----------------------------------------------------------------------------
(* The gate reads what the runner filtered *)

LEMMA ToldTools ==
  ASSUME NEW t, NEW actual, Listed(actual), Told(actual, t)
  PROVE  LogicalTools(t) = actual
<1> DEFINE calls == {e \in ToSet(t) : /\ e.type = "policy.action"
                                      /\ e.data.type = "call_tool"}
           steps == {e.step : e \in calls}
           tool(i) == (CHOOSE e \in calls : e.step = i - 1).tool
<1>1. PICK n \in Nat : n = Len(actual) /\ DOMAIN actual = 1..n
  BY ListGrows
<1>2. steps = 0..(n - 1) /\ \A e \in calls : e.tool = actual[e.step + 1]
  BY <1>1 DEF Told
<1>3. Cardinality(steps) = n
  <2>1. Cardinality(0..(n - 1)) = n
    BY FS_Interval
  <2> QED BY <1>2, <2>1
<1>4. LogicalTools(t) = [i \in 1..Cardinality(steps) |-> tool(i)]
  BY DEF LogicalTools
<1>5. ASSUME NEW i \in 1..n PROVE tool(i) = actual[i]
  <2>1. i - 1 \in 0..(n - 1)
    OBVIOUS
  <2>2. \E e \in calls : e.step = i - 1
    BY <1>2, <2>1
  <2>3. PICK e \in calls : e = (CHOOSE x \in calls : x.step = i - 1) /\ e.step = i - 1
    BY <2>2
  <2>4. e.tool = actual[e.step + 1] /\ e.step + 1 = i
    BY <1>2, <2>3
  <2> QED BY <2>3, <2>4
<1> HIDE DEF steps, tool
<1>6. LogicalTools(t) = [i \in 1..n |-> tool(i)]
  BY <1>3, <1>4
<1>7. LogicalTools(t) = [i \in 1..n |-> actual[i]]
  BY <1>5, <1>6
<1>8. actual = [i \in 1..n |-> actual[i]]
  <2>1. PICK S : actual \in Seq(S)
    BY DEF Listed
  <2>2. actual \in [1..n -> S]
    BY <1>1, <2>1, LenProperties
  <2> QED BY <2>2
<1> QED BY <1>7, <1>8

\* A gated call was executed exactly when the run was approved.
LEMMA ApprovedSteps ==
  ASSUME NEW c, Good(c), NEW m, NEW r, NEW t, NEW s, HonestAt(c, m, r, t, s),
         r.at = "stopped", r.status # "waiting_approval"
  PROVE  /\ s.step = r.step /\ r.step \in Nat
         /\ Allowed(r) =>
              /\ ApprovalSteps(s, c.actions) = {r.approved}
              /\ r.approved \in 0..r.step /\ GatedAt(c, r.approved)
              /\ Cycle(s, r.approved, ActionAt(c.actions, r.approved), "executed")
         /\ ~Allowed(r) =>
              /\ ApprovalSteps(s, c.actions) = {} /\ r.effects = 0 /\ r.before = 0
              /\ s.waits = <<>> /\ s.approvals = <<>> /\ s.resumes = <<>>
<1>1. s.step = r.step /\ r.step \in Nat
  <2>1. s.step = r.step
    BY DEF HonestAt, Control
  <2> QED BY <2>1, RunFacts
<1>2. Cycles(c, r, s)
  BY DEF HonestAt
<1>3. \A step \in ApprovalSteps(s, c.actions) : step = r.approved /\ step \in Nat
  BY <1>1, <1>2 DEF Cycles, ApprovalSteps, GatedAt
<1>4. CASE Allowed(r)
  <2>1. /\ r.approved \in 0..r.step /\ GatedAt(c, r.approved)
        /\ Cycle(s, r.approved, ActionAt(c.actions, r.approved), StageOf(r))
    BY <1>2, <1>4 DEF Cycles
  <2>2. StageOf(r) = "executed"
    BY DEF StageOf
  <2>3. Cycle(s, r.approved, ActionAt(c.actions, r.approved), "executed")
    BY <2>1, <2>2
  <2>4. At(s.starts, r.approved) # <<>>
    BY <2>3 DEF Cycle
  <2>5. r.approved \in ApprovalSteps(s, c.actions)
    BY <1>1, <2>1, <2>4 DEF ApprovalSteps, GatedAt
  <2> QED BY <1>1, <1>3, <1>4, <2>1, <2>3, <2>5
<1>5. CASE ~Allowed(r)
  <2>1. ApprovalSteps(s, c.actions) = {}
    BY <1>3, <1>5 DEF Allowed, NoStep
  <2>2. /\ s.waits = <<>> /\ s.approvals = <<>> /\ s.resumes = <<>>
        /\ r.effects = 0 /\ r.before = 0
    BY <1>2, <1>5 DEF Cycles
  <2> QED BY <1>1, <1>5, <2>1, <2>2
<1> QED BY <1>4, <1>5

LEMMA ProposalsCounted ==
  ASSUME NEW c, Good(c), NEW m, NEW r, NEW t, NEW s, HonestAt(c, m, r, t, s),
         r.at = "stopped", r.status # "waiting_approval"
  PROVE  ProposalCounts(s, c.actions)
<1>1. PICK a : a = ActionAt(c.actions, r.approved)
  OBVIOUS
<1>2. /\ s.step = r.step /\ r.step \in Nat
      /\ Allowed(r) => Cycle(s, r.approved, a, "executed") /\ GatedAt(c, r.approved)
  BY <1>1, ApprovedSteps
<1>3. Cycles(c, r, s)
  BY DEF HonestAt
<1>4. ASSUME NEW step \in 0..s.step PROVE Ordinary(c, s, step)
  <2>1. step \in 0..(r.step - 1) \/ step = r.step
    BY <1>2
  <2>2. CASE step \in 0..(r.step - 1)
    BY <1>3, <2>2 DEF Cycles
  <2>3. CASE step = r.step /\ r.step # r.approved
    <3>1. PICK p : At(s.proposals, step) = <<p>>
      BY <1>3, <2>3 DEF Cycles
    <3>2. ~(GatedAt(c, step) /\ At(s.starts, step) # <<>>)
      BY <1>2, <1>3, <2>3 DEF Cycles
    <3>3. Len(<<p>>) = 1
      OBVIOUS
    <3> QED BY <3>1, <3>2, <3>3 DEF Ordinary
  <2>4. CASE step = r.step /\ r.step = r.approved
    <3>1. Allowed(r)
      BY <1>2, <2>4 DEF Allowed, NoStep
    <3>2. PICK p, o : At(s.proposals, step) = <<p, o>> /\ At(s.starts, step) # <<>>
      BY <1>2, <2>4, <3>1 DEF Cycle
    <3>3. GatedAt(c, step)
      BY <1>2, <2>4, <3>1
    <3>4. Len(<<p, o>>) = 2
      OBVIOUS
    <3> QED BY <3>2, <3>3, <3>4 DEF Ordinary
  <2> QED BY <2>1, <2>2, <2>3, <2>4
<1> QED BY <1>4 DEF ProposalCounts, Ordinary, GatedAt

LEMMA CyclesOrdered ==
  ASSUME NEW c, Good(c), NEW m, NEW r, NEW t, NEW s, HonestAt(c, m, r, t, s),
         r.at = "stopped", r.status # "waiting_approval",
         Allowed(r) => c.supplied
  PROVE  ApprovalCycles(s, c.actions, c.supplied)
<1>1. CASE ~Allowed(r)
  BY <1>1, ApprovedSteps DEF ApprovalCycles
<1>2. CASE Allowed(r)
  <2>1. PICK step, a : step = r.approved /\ a = ActionAt(c.actions, r.approved)
    OBVIOUS
  <2>2. ApprovalSteps(s, c.actions) = {step} /\ Cycle(s, step, a, "executed")
    BY <1>2, <2>1, ApprovedSteps, ZenonT(30)
  <2> DEFINE starts == At(s.starts, step)
  <2> HIDE DEF starts
  <2>3. PICK p, w, d, q, o :
          /\ Asked(s, step, a, p, w) /\ Granted(s, step, w, d) /\ Resumed(s, d, q)
          /\ Again(s, q, o) /\ o.pos < starts[1].pos
          /\ At(s.proposals, step) = <<p, o>>
    BY <2>2 DEF Cycle, starts
  <2>4. /\ s.waits = <<w>> /\ w.step = step /\ w.action = a /\ p.pos < w.pos
        /\ s.approvals = <<d>> /\ d.step = step /\ d.actor = Reviewer /\ d.allow
        /\ w.pos < d.pos /\ s.resumes = <<q>> /\ d.pos < q /\ q < o.pos
    BY <2>3 DEF Asked, Granted, Resumed, Again
  <2>5. \A x : Len(<<x>>) = 1 /\ <<x>>[1] = x
    OBVIOUS
  <2>6. Len(<<p, o>>) = 2 /\ <<p, o>>[1] = p /\ <<p, o>>[2] = o
    OBVIOUS
  <2>7. OrderedCycle(<<p, o>>, w, d, q, starts)
    BY <2>3, <2>4, <2>6 DEF OrderedCycle
  <2>8. /\ Len(s.waits) = 1 /\ Len(s.approvals) = 1 /\ Len(s.resumes) = 1
        /\ s.waits[1] = w /\ s.approvals[1] = d /\ s.resumes[1] = q
    BY <2>4, <2>5
  <2>9. /\ c.supplied /\ ApprovalSteps(s, c.actions) = {step}
        /\ Len(s.waits) = 1 /\ Len(s.approvals) = 1 /\ Len(s.resumes) = 1
        /\ Len(At(s.proposals, step)) = 2
        /\ s.waits[1].step = step /\ s.approvals[1].step = step
        /\ s.waits[1].action = ActionAt(c.actions, step)
        /\ s.approvals[1].actor = Reviewer /\ s.approvals[1].allow
    BY <1>2, <2>1, <2>2, <2>3, <2>4, <2>6, <2>8
  <2>10. OrderedCycle(At(s.proposals, step), s.waits[1], s.approvals[1],
                      s.resumes[1], At(s.starts, step))
    BY <2>3, <2>7, <2>8 DEF starts
  <2>11. step \in ApprovalSteps(s, c.actions)
    BY <2>2
  <2> QED BY <2>9, <2>10, <2>11 DEF ApprovalCycles
<1> QED BY <1>1, <1>2

\* What only one item can satisfy, and one does, counts once.
LEMMA CountedOnce ==
  ASSUME NEW items, Distinct(items), NEW T, T \subseteq DOMAIN items, NEW j \in T,
         \A i \in T : Identity(items[i]) = Identity(items[j])
  PROVE  Cardinality(T) = 1
<1>1. T = {j}
  BY DEF Distinct
<1> QED BY <1>1, FS_Singleton

\* No two kinds of fault fail an attempt alike.
LEMMA FailuresDiffer ==
  ASSUME NEW k \in DOMAIN FaultFailure, NEW l \in DOMAIN FaultFailure,
         FaultFailure[k] = FaultFailure[l]
  PROVE  k = l
<1>1. /\ k \in {"timeout", "rate_limit", "tool_error", "malformed_output"}
      /\ l \in {"timeout", "rate_limit", "tool_error", "malformed_output"}
  BY DEF FaultFailure
<1> DEFINE Code(x) == FaultFailure[x].code
<1>2. /\ Code("timeout") = "tool_timeout" /\ Code("rate_limit") = "rate_limit"
      /\ Code("tool_error") = "tool_error"
      /\ Code("malformed_output") = "invalid_output"
  BY DEF FaultFailure
<1>3. Code(k) = Code(l)
  OBVIOUS
<1> HIDE DEF Code
<1> QED BY <1>1, <1>2, <1>3

LEMMA AttemptsAccounted ==
  ASSUME NEW s, NEW k, Accounts(s, k)
  PROVE  AttemptsExplained(s)
<1> SUFFICES
      ASSUME NEW i \in DOMAIN s.attempts, NEW a, a = s.attempts[i]
      PROVE  LET later == {j \in DOMAIN s.attempts :
                             j > i /\ CallOf(s.attempts[j]) = CallOf(a)}
                 causes == {x \in DOMAIN FaultFailure :
                              /\ FaultFailure[x] = Failure(a)
                              /\ Cardinality({j \in DOMAIN s.faults :
                                    /\ Identity(s.faults[j]) = Identity(a)
                                    /\ s.faults[j].type = x}) = 1}
             IN  /\ a.status = "failed" =>
                      IF a.code = "invalid_output"
                      THEN /\ ~a.transient
                           /\ Cardinality({j \in DOMAIN s.invalid :
                                Identity(s.invalid[j]) = Identity(a)}) = 1
                      ELSE Cardinality(causes) = 1
                 /\ later # {} => a.status = "failed" /\ a.transient
  BY DEF AttemptsExplained, CountBy, Failure
<1> DEFINE later == {j \in DOMAIN s.attempts :
                       j > i /\ CallOf(s.attempts[j]) = CallOf(a)}
           blamed(x) == {j \in DOMAIN s.faults :
                           /\ Identity(s.faults[j]) = Identity(a)
                           /\ s.faults[j].type = x}
           causes == {x \in DOMAIN FaultFailure :
                        FaultFailure[x] = Failure(a) /\ Cardinality(blamed(x)) = 1}
           rejected == {j \in DOMAIN s.invalid : Identity(s.invalid[j]) = Identity(a)}
<1>1. Sound(i, s, k) /\ Distinct(s.faults) /\ Distinct(s.invalid)
  BY DEF Accounts
<1>2. later # {} => a.status = "failed" /\ a.transient
  BY <1>1 DEF Sound
<1>3. CASE a.status = "failed"
  <2>1. PICK j \in DOMAIN s.faults : Causes(s.faults[j], a)
    BY <1>1, <1>3 DEF Sound
  <2>2. PICK f, x : f = s.faults[j] /\ x = f.type
    OBVIOUS
  <2>3. /\ Identity(f) = Identity(a) /\ x \in DOMAIN FaultFailure
        /\ FaultFailure[x] = Failure(a)
    BY <2>1, <2>2 DEF Causes
  <2>4. Cardinality(blamed(x)) = 1
    <3>1. j \in blamed(x) /\ blamed(x) \subseteq DOMAIN s.faults
      BY <2>2, <2>3
    <3>2. \A l \in blamed(x) : Identity(s.faults[l]) = Identity(s.faults[j])
      BY <2>2, <2>3
    <3> HIDE DEF blamed
    <3> QED BY <1>1, <3>1, <3>2, CountedOnce
  <2>5. causes = {x}
    BY <2>3, <2>4, FailuresDiffer
  <2>6. CASE a.code = "invalid_output"
    <3>1. ~a.transient
      <4>1. FaultFailure[x].code = a.code /\ FaultFailure[x].transient = a.transient
        BY <2>3 DEF Failure
      <4>2. x = "malformed_output"
        <5>1. x \in {"timeout", "rate_limit", "tool_error", "malformed_output"}
          BY <2>3 DEF FaultFailure
        <5>2. FaultFailure[x].code = "invalid_output"
          BY <2>6, <4>1
        <5> QED BY <5>1, <5>2 DEF FaultFailure
      <4> QED BY <4>1, <4>2 DEF FaultFailure
    <3>2. PICK l \in DOMAIN s.invalid : s.invalid[l] = Identity(a)
      BY <1>1, <2>6 DEF Sound
    <3>3. Identity(Identity(a)) = Identity(a)
      BY DEF Identity
    <3>4. l \in rejected /\ rejected \subseteq DOMAIN s.invalid
      BY <3>2, <3>3
    <3>5. \A n \in rejected : Identity(s.invalid[n]) = Identity(s.invalid[l])
      BY <3>2, <3>3
    <3>6. Cardinality(rejected) = 1
      <4> HIDE DEF rejected
      <4> QED BY <1>1, <3>4, <3>5, CountedOnce
    <3> QED BY <1>2, <2>6, <3>1, <3>6
  <2>7. CASE a.code # "invalid_output"
    <3>1. Cardinality(causes) = 1
      <4> HIDE DEF causes
      <4> QED BY <2>5, FS_Singleton
    <3> QED BY <1>2, <2>7, <3>1
  <2> QED BY <2>6, <2>7
<1> QED BY <1>2, <1>3

\* What the gate claims of an honest trace is what the runner claimed.
LEMMA ClaimsAgree ==
  ASSUME NEW c, Good(c), NEW m, NEW r, NEW t, Honest(c, m, r, t),
         r.at = "stopped", r.status # "waiting_approval",
         Allowed(r) => c.supplied
  PROVE  TraceClaims(t, m, c) = Claims(r, t)
<1>1. PICK s : s = Read(t, c.actions, m)
  OBVIOUS
<1>2. HonestAt(c, m, r, t, s)
  BY <1>1 DEF Honest
<1>3. /\ s.ok /\ s.next = {} /\ s.status = r.status /\ s.result = r.code
      /\ r.status \in {"succeeded", "failed"}
  BY <1>2 DEF HonestAt, Typed, Control
<1>4. AttemptsExplained(s)
  <2>1. Accounts(s, r.step)
    BY <1>2 DEF HonestAt
  <2> QED BY <2>1, AttemptsAccounted
<1>5. ProposalCounts(s, c.actions) /\ ApprovalCycles(s, c.actions, c.supplied)
  BY <1>2, ProposalsCounted, CyclesOrdered
<1>6. TraceClaims(t, m, c)
        = [readable |-> TRUE, actual |-> s.actual, attempts |-> s.attempts,
           faults |-> s.faults, invalid |-> s.invalid,
           accepted |-> s.accepted, status |-> s.status, result |-> s.result,
           approved |-> ApprovalSteps(s, c.actions) # {}]
  BY <1>1, <1>3, <1>4, <1>5 DEF TraceClaims
<1>7. s.actual = LogicalTools(t)
  <2>1. Listed(s.actual) /\ Told(s.actual, t)
    BY <1>2 DEF HonestAt, Typed
  <2> QED BY <2>1, ToldTools
<1>8. (ApprovalSteps(s, c.actions) # {}) = Allowed(r)
  <2>1. Allowed(r) => ApprovalSteps(s, c.actions) # {}
    BY <1>2, ApprovedSteps, SMTT(20)
  <2>2. ~Allowed(r) => ApprovalSteps(s, c.actions) = {}
    BY <1>2, ApprovedSteps
  <2> QED BY <2>1, <2>2 DEF Allowed
<1>9. s.accepted = r.context
  BY <1>2 DEF HonestAt, Typed
<1>10. /\ s.attempts = AttemptsOf(OfType(t, Ends))
       /\ s.faults = FaultsOf(OfType(t, {"fault.injected"}))
       /\ s.invalid = InvalidOf(OfType(t, {"tool.output.validation_failed"}))
  BY <1>2 DEF HonestAt, Mirrors
<1>11. Claims(r, t)
        = [readable |-> TRUE, actual |-> LogicalTools(t),
           attempts |-> AttemptsOf(OfType(t, Ends)),
           faults |-> FaultsOf(OfType(t, {"fault.injected"})),
           invalid |-> InvalidOf(OfType(t, {"tool.output.validation_failed"})),
           accepted |-> r.context, status |-> r.status, result |-> r.code,
           approved |-> Allowed(r)]
  BY <1>3 DEF Claims, AttemptsOf, FaultsOf, InvalidOf, Ends
<1> QED BY <1>3, <1>6, <1>7, <1>8, <1>9, <1>10, <1>11

\* An attempt failed for its output exactly when that output was rejected.
LEMMA RejectionsPaired ==
  ASSUME NEW s, NEW k, Accounts(s, k), NEW x \in ToSet(s.attempts) \cup ToSet(s.invalid)
  PROVE  Cardinality({j \in DOMAIN s.invalid : Identity(s.invalid[j]) = Identity(x)})
           = Cardinality({i \in DOMAIN s.attempts :
                            /\ Identity(s.attempts[i]) = Identity(x)
                            /\ s.attempts[i].status = "failed"
                            /\ s.attempts[i].code = "invalid_output"})
<1> DEFINE rejected == {j \in DOMAIN s.invalid :
                          Identity(s.invalid[j]) = Identity(x)}
           failures == {i \in DOMAIN s.attempts :
                          /\ Identity(s.attempts[i]) = Identity(x)
                          /\ s.attempts[i].status = "failed"
                          /\ s.attempts[i].code = "invalid_output"}
<1>1. \A y : Identity(Identity(y)) = Identity(y)
  BY DEF Identity
<1>2. ASSUME NEW j \in rejected
      PROVE  \E i \in DOMAIN s.attempts : /\ s.invalid[j] = Identity(s.attempts[i])
                                          /\ Identity(s.attempts[i]) = Identity(x)
  <2>1. PICK i \in DOMAIN s.attempts : s.invalid[j] = Identity(s.attempts[i])
    BY DEF Accounts
  <2>2. Identity(s.attempts[i]) = Identity(x)
    BY <2>1, <1>1
  <2> QED BY <2>1, <2>2
<1>3. ASSUME NEW i \in DOMAIN s.attempts
      PROVE  /\ s.attempts[i].code = "invalid_output"
                  <=> \E j \in DOMAIN s.invalid : s.invalid[j] = Identity(s.attempts[i])
             /\ s.attempts[i].code = "invalid_output" => s.attempts[i].status = "failed"
  BY DEF Accounts, Sound
<1>4. CASE rejected # {}
  <2>1. PICK j : j \in rejected
    BY <1>4
  <2>2. PICK i \in DOMAIN s.attempts : /\ s.invalid[j] = Identity(s.attempts[i])
                                      /\ Identity(s.attempts[i]) = Identity(x)
    BY <1>2, <2>1
  <2>3. i \in failures
    BY <1>3, <2>1, <2>2
  <2>4. Cardinality(rejected) = 1
    <3>1. Distinct(s.invalid) /\ rejected \subseteq DOMAIN s.invalid
      BY DEF Accounts
    <3>2. \A l \in rejected : Identity(s.invalid[l]) = Identity(s.invalid[j])
      BY <2>1
    <3> HIDE DEF rejected
    <3> QED BY <2>1, <3>1, <3>2, CountedOnce
  <2>5. Cardinality(failures) = 1
    <3>1. Distinct(s.attempts) /\ failures \subseteq DOMAIN s.attempts
      BY DEF Accounts
    <3>2. \A l \in failures : Identity(s.attempts[l]) = Identity(s.attempts[i])
      BY <2>2
    <3> HIDE DEF failures
    <3> QED BY <2>3, <3>1, <3>2, CountedOnce
  <2> QED BY <2>4, <2>5
<1>5. CASE rejected = {}
  <2>1. ASSUME NEW i \in failures PROVE FALSE
    <3>1. PICK j \in DOMAIN s.invalid : s.invalid[j] = Identity(s.attempts[i])
      BY <1>3
    <3>2. Identity(s.invalid[j]) = Identity(x)
      BY <1>1, <3>1
    <3> QED BY <1>5, <3>1, <3>2
  <2>2. failures = {}
    BY <2>1
  <2> QED BY <1>5, <2>2
<1> QED BY <1>4, <1>5

\* A case that was graded from an honest trace is intact.
LEMMA HonestCase ==
  ASSUME NEW c, Good(c), NEW m, NEW r, NEW t, Honest(c, m, r, t),
         r.at = "stopped", r.status # "waiting_approval",
         Allowed(r) => c.supplied,
         NEW x, x.trace = t, x.mode = m, x.claims = Claims(r, t), x.ran = c,
         x.counts = Counted(Claims(r, t), c), x.writesBefore = r.before,
         x.writes = r.effects,
         x.id \in FrozenNames, c.actions = FrozenActions[x.id],
         SameFaults(Declared(c), Claims(r, t).faults),
         Allowed(r) => r.before = 0 /\ r.effects = 1
  PROVE  CaseIntact(x, c)
<1>1. PICK s, claims : s = Read(t, c.actions, m) /\ claims = Claims(r, t)
  OBVIOUS
<1>2. TraceClaims(x.trace, x.mode, c) = claims
  BY <1>1, ClaimsAgree
<1>3. HonestAt(c, m, r, t, s)
  BY <1>1 DEF Honest
<1>4. /\ claims.readable /\ claims.approved = Allowed(r)
      /\ claims.attempts = s.attempts /\ claims.faults = s.faults
      /\ claims.invalid = s.invalid
  <2>1. /\ s.attempts = AttemptsOf(OfType(t, Ends))
        /\ s.faults = FaultsOf(OfType(t, {"fault.injected"}))
        /\ s.invalid = InvalidOf(OfType(t, {"tool.output.validation_failed"}))
    BY <1>3 DEF HonestAt, Mirrors
  <2>2. /\ claims.readable /\ claims.approved = Allowed(r)
        /\ claims.attempts = AttemptsOf(OfType(t, Ends))
        /\ claims.faults = FaultsOf(OfType(t, {"fault.injected"}))
        /\ claims.invalid = InvalidOf(OfType(t, {"tool.output.validation_failed"}))
    BY <1>1 DEF Claims, AttemptsOf, FaultsOf, InvalidOf, Ends
  <2> QED BY <2>1, <2>2
<1>5. Accounts(s, r.step)
  BY <1>3 DEF HonestAt
<1>6. ASSUME NEW f \in ToSet(claims.faults) PROVE Explains(f, claims)
  <2>1. PICK j \in DOMAIN s.faults : f = s.faults[j]
    BY <1>4, <1>6 DEF ToSet
  <2>2. PICK i \in DOMAIN s.attempts : Causes(f, s.attempts[i])
    BY <1>5, <2>1 DEF Accounts
  <2> DEFINE failures == {k \in DOMAIN s.attempts :
                            /\ Identity(s.attempts[k]) = Identity(f)
                            /\ s.attempts[k].status = "failed"
                            /\ FaultFailure[f.type] = Failure(s.attempts[k])}
  <2>3. i \in failures /\ failures \subseteq DOMAIN s.attempts
    BY <2>2 DEF Causes
  <2>4. \A k \in failures : Identity(s.attempts[k]) = Identity(s.attempts[i])
    BY <2>3
  <2>5. Cardinality(failures) = 1
    <3>1. Distinct(s.attempts)
      BY <1>5 DEF Accounts
    <3> HIDE DEF failures
    <3> QED BY <2>3, <2>4, <3>1, CountedOnce
  <2> QED BY <1>4, <2>5 DEF Explains, CountBy, Failure
<1>7. ASSUME NEW a \in ToSet(claims.attempts), a.attempt > 1
      PROVE  \E b \in ToSet(claims.attempts) :
               CallOf(b) = CallOf(a) /\ b.attempt = a.attempt - 1
  <2>1. PICK i \in DOMAIN s.attempts : a = s.attempts[i]
    BY <1>4, <1>7 DEF ToSet
  <2>2. Sound(i, s, r.step)
    BY <1>5, <2>1 DEF Accounts
  <2>3. PICK j \in DOMAIN s.attempts :
          CallOf(s.attempts[j]) = CallOf(a) /\ s.attempts[j].attempt = a.attempt - 1
    BY <1>7, <2>1, <2>2 DEF Sound
  <2> QED BY <1>4, <2>3 DEF ToSet
<1>8. RejectionsMatch(claims)
  BY <1>4, <1>5, RejectionsPaired DEF RejectionsMatch, CountBy
<1>9. claims.approved => c.supplied /\ x.writesBefore = 0 /\ x.writes = 1
  BY <1>4
<1>10. /\ x.id \in FrozenNames /\ c.actions = FrozenActions[x.id]
       /\ x.claims = claims /\ x.ran = c /\ x.counts = Counted(claims, c)
       /\ SameFaults(Declared(c), claims.faults)
  BY <1>1
<1> QED BY <1>2, <1>4, <1>6, <1>7, <1>8, <1>9, <1>10 DEF CaseIntact

-----------------------------------------------------------------------------
(* The cases of an untouched suite *)

\* Case i of a mode is of its entry, and intact unless its run waits.
Evident(m, i) ==
  LET e == manifest[i]
      x == cases[m][i]
  IN  /\ x.id = e.id /\ x.sha = e.sha /\ x.mode = m
      /\ x.counts = Counted(x.claims, loaded[i])
      /\ \/ x.claims.status = "waiting_approval"
         \/ /\ CaseIntact(x, e.content) /\ x.writesBefore = 0
            /\ x.writes = IF x.claims.approved THEN 1 ELSE 0

EvidenceInv ==
  /\ pc \notin {"manifest", "error"} => Supported(manifest)
  /\ writes = 0 =>
       /\ \A m \in Modes : \A i \in DOMAIN cases[m] : Evident(m, i)
       /\ pc = "drive" => Honest(Scenario, Mode, run, trace)

\* The case under way is of a supported entry, which is what is run.
LEMMA CaseAtHand ==
  ASSUME StageInv, ReadsInv, EvidenceInv, writes = 0, pc \in Running
  PROVE  LET k == Len(cases[Mode]) + 1
         IN  /\ k \in DOMAIN manifest /\ Entry = manifest[k] /\ Scenario = loaded[k]
             /\ Scenario = Entry.content /\ Mode \in Modes
             /\ Entry.id \in FrozenNames /\ Scenario.actions = FrozenActions[Entry.id]
             /\ Good(Scenario)
<1>1. PICK k : k = Len(cases[Mode]) + 1
  OBVIOUS
<1>2. Mode \in Modes
  BY DEF Mode, Modes
<1>3. k \in 1..Len(Suite)
  BY <1>1, SuiteFiles, CaseLengths DEF StageInv, Counting, Mode
<1>4. /\ Len(manifest) = Len(Suite) /\ Len(loaded) = Len(Suite)
      /\ manifest \in Seq(Entries) /\ loaded \in Seq(ScenarioFiles)
  BY DEF StageInv, SuiteType, Prepared, Running
<1>5. k \in DOMAIN manifest /\ k \in DOMAIN loaded /\ loaded[k] \in ScenarioFiles
  BY <1>3, <1>4, ElementOfSeq, LenProperties
<1>6. loaded[k] = manifest[k].content
  BY <1>5 DEF ReadsInv, Since
<1>7. manifest[k].id \in FrozenNames
      /\ manifest[k].content.actions = FrozenActions[manifest[k].id]
  <2>1. Supported(manifest)
    BY DEF EvidenceInv, Running
  <2> QED BY <1>5, <2>1 DEF Supported
<1>8. Good(loaded[k])
  BY <1>5, <1>6, <1>7, FrozenOrderly DEF Good
<1> QED BY <1>1, <1>2, <1>5, <1>6, <1>7, <1>8 DEF Entry, Scenario

LEMMA ManifestKept ==
  ASSUME StageInv, [Next]_vars, ~Freeze, pc' \notin {"manifest", "error"}
  PROVE  pc \notin {"manifest", "error"} /\ manifest' = manifest
<1>1. manifest' = manifest
  BY DirectoryStep
<1>2. CASE RunStep
  BY <1>1, <1>2, RunStepKeeps
<1>3. CASE \E n \in DOMAIN Contents : WriteFile(n)
  BY <1>1, <1>3, FileWritten
<1>4. CASE UNCHANGED vars
  BY <1>1, <1>4 DEF vars
<1>5. CASE ReadScenario \/ HashScenario
  BY <1>1, <1>5 DEF ReadScenario, HashScenario
<1>6. CASE LoadScenario \/ Loaded \/ Recheck \/ OpenCase
  BY <1>1, <1>6 DEF LoadScenario, Loaded, Recheck, OpenCase
<1>7. CASE CloseCase
  BY <1>1, <1>7 DEF CloseCase, Drive
<1>8. CASE WriteReport \/ EnforceGate \/ EditReport
  BY <1>1, <1>8 DEF WriteReport, EnforceGate, EditReport
<1> QED BY <1>2, <1>3, <1>4, <1>5, <1>6, <1>7, <1>8 DEF Next, Evaluate, RunStep

LEMMA ClosedCase ==
  ASSUME StageInv, ReadsInv, CasesInv, EvidenceInv, writes = 0,
         pc = "drive", run.at = "stopped", ~Approvable, Gradable,
         NEW x, x = Case, NEW k, k = Len(cases[Mode]) + 1
  PROVE  /\ x.id = manifest[k].id /\ x.sha = manifest[k].sha /\ x.mode = Mode
         /\ x.counts = Counted(x.claims, loaded[k])
         /\ \/ x.claims.status = "waiting_approval"
            \/ /\ CaseIntact(x, manifest[k].content) /\ x.writesBefore = 0
               /\ x.writes = IF x.claims.approved THEN 1 ELSE 0
<1>1. /\ Entry = manifest[k] /\ Scenario = loaded[k] /\ Scenario = Entry.content
      /\ Mode \in Modes /\ Good(Scenario)
      /\ Entry.id \in FrozenNames /\ Scenario.actions = FrozenActions[Entry.id]
  BY CaseAtHand DEF Running
<1>2. /\ x.id = Entry.id /\ x.sha = Entry.sha /\ x.mode = Mode /\ x.trace = trace
      /\ x.claims = Claims(run, trace) /\ x.ran = Scenario
      /\ x.counts = Counted(Claims(run, trace), Scenario)
      /\ x.writesBefore = run.before /\ x.writes = run.effects
  BY DEF Case
<1>3. Claims(run, trace).status = run.status /\ Claims(run, trace).approved = Allowed(run)
  BY ClaimsFields
<1>4. CASE run.status = "waiting_approval"
  BY <1>1, <1>2, <1>3, <1>4
<1>5. CASE run.status # "waiting_approval"
  <2>1. PICK c, m, r, t : c = Scenario /\ m = Mode /\ r = run /\ t = trace
    OBVIOUS
  <2>2. Good(c) /\ Honest(c, m, r, t)
    BY <1>1, <2>1 DEF EvidenceInv
  <2>3. Allowed(r) => c.supplied
    BY <2>1 DEF CasesInv
  <2>4. /\ SameFaults(Declared(c), Claims(r, t).faults)
        /\ Allowed(r) => r.before = 0 /\ r.effects = 1
    BY <1>3, <2>1 DEF Gradable
  <2>5. r.at = "stopped" /\ r.status # "waiting_approval"
    BY <1>5, <2>1
  <2>6. /\ x.trace = t /\ x.mode = m /\ x.claims = Claims(r, t) /\ x.ran = c
        /\ x.counts = Counted(Claims(r, t), c) /\ x.writesBefore = r.before
        /\ x.writes = r.effects /\ x.id \in FrozenNames
        /\ c.actions = FrozenActions[x.id]
    BY <1>1, <1>2, <2>1
  <2>7. CaseIntact(x, c)
    BY <2>2, <2>3, <2>4, <2>5, <2>6, HonestCase
  <2>8. ~Allowed(r) => r.before = 0 /\ r.effects = 0
    <3>1. PICK s : s = Read(t, c.actions, m)
      OBVIOUS
    <3>2. HonestAt(c, m, r, t, s)
      BY <2>2, <3>1 DEF Honest
    <3> QED BY <2>2, <2>5, <3>2, ApprovedSteps
  <2>9. x.writesBefore = 0 /\ x.writes = IF x.claims.approved THEN 1 ELSE 0
    BY <1>2, <1>3, <2>1, <2>4, <2>8
  <2> QED BY <1>1, <1>2, <2>1, <2>7, <2>9
<1> QED BY <1>4, <1>5

LEMMA EvidenceStep ==
  ASSUME StageInv, ReadsInv, CasesInv, EvidenceInv, [Next]_vars
  PROVE  EvidenceInv'
<1>1. pc' \notin {"manifest", "error"} => Supported(manifest')
  <2> SUFFICES ASSUME pc' \notin {"manifest", "error"} PROVE Supported(manifest')
    OBVIOUS
  <2>1. CASE Freeze
    BY <2>1 DEF Freeze
  <2>2. CASE ~Freeze
    BY <2>2, ManifestKept DEF EvidenceInv
  <2> QED BY <2>1, <2>2
<1>2. ASSUME writes' = 0 PROVE writes = 0
  BY <1>2, DirectoryStep DEF StageInv, SuiteType
<1>3. ASSUME writes' = 0, NEW m \in Modes, NEW i \in DOMAIN cases'[m]
      PROVE  Evident(m, i)'
  <2>1. CASE cases' = cases
    <3>1. loaded' = loaded
      BY <1>3, <2>1, LoadedKept
    <3>2. pc # "manifest"
      BY <1>3, <2>1, CaseLengths DEF StageInv, Counting, Modes
    <3>3. manifest' = manifest
      BY <3>2, DirectoryStep DEF Freeze
    <3>4. Evident(m, i)
      BY <1>2, <1>3, <2>1 DEF EvidenceInv
    <3> QED BY <2>1, <3>1, <3>3, <3>4 DEF Evident
  <2>2. CASE CloseCase /\ cases' # cases
    <3>1. /\ pc = "drive" /\ run.at = "stopped" /\ ~Approvable /\ Gradable
          /\ loaded' = loaded /\ manifest' = manifest
          /\ \A q \in Modes \ {Mode} : cases'[q] = cases[q]
          /\ LET k == Len(cases[Mode])
             IN  /\ k \in Nat /\ DOMAIN cases[Mode] = 1..k
                 /\ DOMAIN cases'[Mode] = 1..(k + 1)
                 /\ \A j \in 1..k : cases'[Mode][j] = cases[Mode][j]
                 /\ cases'[Mode][k + 1] = Case
      BY <2>2, CaseClosed DEF StageInv
    <3>2. PICK k, x : k = Len(cases[Mode]) /\ x = Case
      OBVIOUS
    <3>3. \/ i \in DOMAIN cases[m] /\ cases'[m][i] = cases[m][i]
          \/ m = Mode /\ i = k + 1
      <4>1. CASE m # Mode
        BY <1>3, <3>1, <4>1
      <4>2. CASE m = Mode
        <5>1. i \in 1..k \/ i = k + 1
          BY <1>3, <3>1, <3>2, <4>2
        <5> QED BY <3>1, <3>2, <4>2, <5>1
      <4> QED BY <4>1, <4>2
    <3>4. CASE i \in DOMAIN cases[m] /\ cases'[m][i] = cases[m][i]
      <4>1. Evident(m, i)
        BY <1>2, <1>3, <3>4 DEF EvidenceInv
      <4> QED BY <3>1, <3>4, <4>1 DEF Evident
    <3>5. CASE m = Mode /\ i = k + 1
      <4>1. /\ x.id = manifest[i].id /\ x.sha = manifest[i].sha /\ x.mode = Mode
            /\ x.counts = Counted(x.claims, loaded[i])
            /\ \/ x.claims.status = "waiting_approval"
               \/ /\ CaseIntact(x, manifest[i].content) /\ x.writesBefore = 0
                  /\ x.writes = IF x.claims.approved THEN 1 ELSE 0
        <5>1. i = Len(cases[Mode]) + 1 /\ x = Case
          BY <3>2, <3>5
        <5> QED BY <1>2, <1>3, <3>1, <5>1, ClosedCase
      <4>2. cases'[m][i] = x
        BY <3>1, <3>2, <3>5
      <4> QED BY <3>1, <3>5, <4>1, <4>2 DEF Evident
    <3> QED BY <3>3, <3>4, <3>5
  <2> QED BY <2>1, <2>2, DirectoryStep
<1>4. ASSUME writes' = 0, pc' = "drive"
      PROVE  Honest(Scenario', Mode', run', trace')
  <2>1. Scenario' = Scenario /\ Mode' = Mode
    BY <1>4, DriveNext
  <2>2. CASE RunStep
    <3>1. pc = "drive"
      BY <2>2, RunStepKeeps
    <3>2. Good(Scenario) /\ Mode \in Modes
      BY <1>2, <1>4, <3>1, CaseAtHand DEF Running
    <3>3. Honest(Scenario, Mode, run, trace)
      BY <1>2, <1>4, <3>1 DEF EvidenceInv
    <3> QED BY <2>1, <2>2, <3>2, <3>3, HonestStep
  <2>3. CASE pc = "case" /\ Now' = Begin
    <3>1. Good(Scenario)
      BY <1>2, <1>4, <2>3, CaseAtHand DEF Running
    <3>2. run' = NoRun /\ trace' = <<>>
      BY <2>3 DEF Now, Begin
    <3>3. Honest(Scenario, Mode, NoRun, <<>>)
      BY <3>1, HonestStarts
    <3> QED BY <2>1, <3>2, <3>3
  <2>4. CASE pc = "drive" /\ Now' = Now
    <3>1. run' = run /\ trace' = trace
      BY <2>4 DEF Now
    <3>2. Honest(Scenario, Mode, run, trace)
      BY <1>2, <1>4, <2>4 DEF EvidenceInv
    <3> QED BY <2>1, <3>1, <3>2
  <2> QED BY <1>4, <2>2, <2>3, <2>4, DriveNext
<1> QED BY <1>1, <1>3, <1>4 DEF EvidenceInv

\* Both modes end alike where no transient fault is declared.
LEMMA SameSemantics ==
  ASSUME StageInv, CasesInv, FragileInv, ResilientInv, EvidenceInv, writes = 0,
         NEW i, i \in DOMAIN cases["fragile"], i \in DOMAIN cases["resilient"],
         \A m \in Modes : cases[m][i].claims.status # "waiting_approval",
         \A f \in Declared(cases["fragile"][i].ran) : f.type \notin Transient
  PROVE  Semantics(cases["fragile"][i]) = Semantics(cases["resilient"][i])
<1>1. PICK f, r, l : /\ f = cases["fragile"][i] /\ r = cases["resilient"][i]
                     /\ l = loaded[i]
  OBVIOUS
<1>2. f.ran = l /\ r.ran = l
  BY <1>1 DEF CasesInv, Modes
<1>3. Evident("fragile", i) /\ Evident("resilient", i)
  BY DEF EvidenceInv, Modes
<1>4. f.claims = r.claims
  <2> SUFFICES ASSUME Lost(i) PROVE FALSE
    BY <1>1 DEF ResilientInv
  <2>1. PICK j \in DOMAIN f.claims.faults : f.claims.faults[j].type \in Transient
    BY <1>1 DEF Lost
  <2>2. SameFaults(Declared(l), f.claims.faults)
    BY <1>1 DEF FragileInv
  <2>3. f.claims.faults[j] \in Declared(l)
    BY <2>1, <2>2 DEF SameFaults, ToSet
  <2> QED BY <1>1, <1>2, <2>1, <2>3
<1>5. /\ f.counts = Counted(f.claims, l) /\ r.counts = Counted(r.claims, l)
      /\ f.writesBefore = 0 /\ f.writes = IF f.claims.approved THEN 1 ELSE 0
      /\ r.writesBefore = 0 /\ r.writes = IF r.claims.approved THEN 1 ELSE 0
  BY <1>1, <1>3 DEF Evident, Modes
<1>6. f.counts = r.counts /\ f.writes = r.writes
  BY <1>4, <1>5
<1> QED BY <1>1, <1>4, <1>5, <1>6 DEF Semantics

LEMMA HonestReport ==
  EvaluationInv /\ FragileInv /\ ResilientInv /\ EvidenceInv
    => HonestReportsAreEvidence
<1> SUFFICES ASSUME StageInv, CasesInv, ReportInv, FragileInv, ResilientInv, EvidenceInv,
                    pc = "done", ~Edited, writes = 0,
                    \A m \in Modes : \A i \in DOMAIN Suite :
                      cases[m][i].claims.status # "waiting_approval"
             PROVE  Intact(report)
  BY DEF HonestReportsAreEvidence, verdict, Verdict, EvaluationInv
<1>1. report = Report(manifest, cases)
  BY DEF ReportInv
<1>2. /\ report.hash = manifest /\ report.manifest = manifest
      /\ \A m \in Modes : /\ report.modes[m].cases = cases[m]
                          /\ report.modes[m].metrics = Metrics(cases[m])
      /\ report.comparison = Comparison(report.modes)
  BY <1>1 DEF Report, Modes
<1>3. \A m \in Modes : /\ Len(cases[m]) = Len(manifest)
                       /\ DOMAIN cases[m] = DOMAIN Suite
  <2>1. \A m \in Modes : Len(cases[m]) = Len(Suite)
    BY DEF StageInv, Counting, Modes, Reporting
  <2>2. Len(manifest) = Len(Suite)
    BY DEF StageInv, Prepared
  <2> QED BY <2>1, <2>2, SuiteFiles, CaseLengths DEF StageInv
<1>4. ASSUME NEW m \in Modes, NEW i \in DOMAIN cases[m]
      PROVE  /\ cases[m][i].id = manifest[i].id /\ cases[m][i].sha = manifest[i].sha
             /\ cases[m][i].mode = m
             /\ CaseIntact(cases[m][i], manifest[i].content)
  <2>1. Evident(m, i)
    BY <1>4 DEF EvidenceInv
  <2>2. cases[m][i].claims.status # "waiting_approval"
    BY <1>3, <1>4
  <2> QED BY <2>1, <2>2 DEF Evident
<1>5. ASSUME NEW i \in DOMAIN cases["fragile"],
             \A f \in Declared(cases["fragile"][i].ran) : f.type \notin Transient
      PROVE  Semantics(cases["fragile"][i]) = Semantics(cases["resilient"][i])
  <2>1. i \in DOMAIN cases["resilient"] /\ i \in DOMAIN Suite
    BY <1>3, <1>5 DEF Modes
  <2> QED BY <1>5, <2>1, SameSemantics
<1>6. /\ report.modes.fragile.cases = cases["fragile"]
      /\ report.modes.resilient.cases = cases["resilient"]
  BY <1>2 DEF Modes
<1> QED BY <1>2, <1>3, <1>4, <1>5, <1>6 DEF Intact

\* The gate takes every honest report (HonestReportsAreEvidence), for every suite
\* and whatever its files may hold: reading a trace event by event, it finds what
\* the runner filtered from it, every attempt accounted for, and the cycle of an
\* approval in order.  Honest says how far the gate has read when the run is
\* where it is; every step of a run keeps it.
THEOREM HonestReportsAreTaken == Spec => []HonestReportsAreEvidence
<1> DEFINE Inv == ModesInv /\ EvidenceInv
<1>1. Init => Inv
  <2> SUFFICES ASSUME Init PROVE Inv
    OBVIOUS
  <2>1. pc = "manifest" /\ DOMAIN <<>> = {} /\ \A m \in Modes : cases[m] = <<>>
    BY EmptySeq DEF Init
  <2>2. EvidenceInv
    BY <2>1 DEF EvidenceInv
  <2> QED BY <2>2, ModesStart
<1>2. Inv /\ [Next]_vars => Inv'
  <2> SUFFICES ASSUME Inv, [Next]_vars PROVE Inv'
    OBVIOUS
  <2>1. ModesInv'
    BY EvaluationStep, FragileStep, ResilientStep DEF ModesInv, EvaluationInv
  <2>2. EvidenceInv'
    BY EvidenceStep DEF ModesInv, EvaluationInv
  <2> QED BY <2>1, <2>2
<1>3. Inv => HonestReportsAreEvidence
  BY HonestReport DEF ModesInv
<1> QED BY <1>1, <1>2, <1>3, PTL DEF Spec

-----------------------------------------------------------------------------
(* The faults of a case *)

\* The same faults, none observed twice.
LEMMA ObservedOnce ==
  ASSUME NEW obs, Listed(obs), NEW D, SameFaults(D, obs)
  PROVE  /\ IsFiniteSet(DOMAIN obs) /\ IsFiniteSet(D)
         /\ \A i, j \in DOMAIN obs : obs[i] = obs[j] => i = j
<1>1. PICK n \in Nat : DOMAIN obs = 1..n /\ Len(obs) = n
  BY ListGrows
<1>2. IsFiniteSet(DOMAIN obs) /\ Cardinality(DOMAIN obs) = n
  <2>1. IsFiniteSet(1..n) /\ Cardinality(1..n) = n
    BY FS_Interval
  <2> QED BY <1>1, <2>1
<1>3. D = {obs[i] : i \in DOMAIN obs} /\ Cardinality(D) = n
  BY <1>1 DEF SameFaults, ToSet
<1> DEFINE g == [i \in DOMAIN obs |-> obs[i]]
<1>4. g \in Surjection(DOMAIN obs, D)
  BY <1>3 DEF Surjection
<1>5. g \in Injection(DOMAIN obs, D) /\ IsFiniteSet(D)
  BY <1>2, <1>3, <1>4, FS_Surjection
<1> QED BY <1>2, <1>5 DEF Injection, IsInjective

\* What Declared makes of a rule.
DeclaredAs(c) ==
  [f \in c.faults |-> [step |-> Min(Targets(c, f)) - 1, tool |-> f.tool,
                       attempt |-> f.attempt, type |-> f.type]]

LEMMA DeclaredFacts ==
  ASSUME NEW c \in ScenarioFiles
  PROVE  /\ Declared(c) = {DeclaredAs(c)[f] : f \in c.faults}
         /\ \A f \in c.faults : LET d == DeclaredAs(c)[f]
                                IN  /\ d.tool = f.tool /\ d.attempt = f.attempt
                                    /\ d.type = f.type
         /\ \A f, g \in c.faults : DeclaredAs(c)[f] = DeclaredAs(c)[g] => f = g
<1>1. Declared(c) = {DeclaredAs(c)[f] : f \in c.faults}
  BY DEF Declared, DeclaredAs
<1>2. ASSUME NEW f \in c.faults
      PROVE  LET d == DeclaredAs(c)[f]
             IN  d.tool = f.tool /\ d.attempt = f.attempt /\ d.type = f.type
  BY DEF DeclaredAs
<1>3. ASSUME NEW f \in c.faults
      PROVE  f \in [tool : STRING, attempt : Nat \ {0}, type : DOMAIN FaultFailure]
  BY DEF ScenarioFiles
<1>4. ASSUME NEW f \in c.faults, NEW g \in c.faults, DeclaredAs(c)[f] = DeclaredAs(c)[g]
      PROVE  f = g
  <2>1. f.tool = g.tool /\ f.attempt = g.attempt /\ f.type = g.type
    BY <1>2, <1>4
  <2>2. /\ f \in [tool : STRING, attempt : Nat \ {0}, type : DOMAIN FaultFailure]
        /\ g \in [tool : STRING, attempt : Nat \ {0}, type : DOMAIN FaultFailure]
    BY <1>3
  <2> QED BY <2>1, <2>2
<1> QED BY <1>1, <1>2, <1>4

\* The rules behind some of the observed faults.
RulesOf(c, obs, T) == {f \in c.faults : \E j \in T : obs[j] = DeclaredAs(c)[f]}

\* As many observed faults as declared ones are of a sort.
LEMMA FaultsCounted ==
  ASSUME NEW c \in ScenarioFiles, NEW obs, Listed(obs), SameFaults(Declared(c), obs),
         NEW T, T \subseteq DOMAIN obs
  PROVE  /\ IsFiniteSet(RulesOf(c, obs, T)) /\ IsFiniteSet(T)
         /\ Cardinality(RulesOf(c, obs, T)) = Cardinality(T)
<1>1. /\ IsFiniteSet(DOMAIN obs) /\ IsFiniteSet(Declared(c))
      /\ \A i, j \in DOMAIN obs : obs[i] = obs[j] => i = j
  BY ObservedOnce
<1>2. IsFiniteSet(T)
  BY <1>1, FS_Subset
<1> DEFINE E == {obs[j] : j \in T}
           as == DeclaredAs(c)
           G == RulesOf(c, obs, T)
<1>3. IsFiniteSet(E) /\ Cardinality(E) = Cardinality(T)
  BY <1>1, <1>2, ImageCounts
<1>4. \A d \in E : \E f \in c.faults : d = as[f]
  <2>1. E \subseteq Declared(c)
    BY DEF SameFaults, ToSet
  <2> QED BY <2>1, DeclaredFacts
<1>5. Matches(as, G, E)
  <2>1. (\A f \in G : as[f] \in E) /\ (\A d \in E : \E f \in G : d = as[f])
    BY <1>4 DEF RulesOf
  <2>2. \A f, g \in G : as[f] = as[g] => f = g
    BY DeclaredFacts DEF RulesOf
  <2> HIDE DEF E, as, G
  <2> QED BY <2>1, <2>2 DEF Matches
<1> HIDE DEF E, as, G
<1> QED BY <1>2, <1>3, <1>5, MatchedCounts DEF G

\* What the counters of a case say of its scenario: how many transient faults it
\* declares, and at most how many of them the run got over.
TransientOf(c) == {f \in c.faults : f.type \in Transient}

OvercomeOf(c, claims) ==
  {f \in TransientOf(c) :
     /\ claims.result = c.expected
     /\ \E a \in ToSet(claims.attempts) :
          a.tool = f.tool /\ a.status = "succeeded" /\ a.attempt > f.attempt}

CountsMean(c, claims, k) ==
  /\ k.correct = (claims.result = c.expected)
  /\ IsFiniteSet(TransientOf(c)) /\ k.transients = Cardinality(TransientOf(c))
  /\ IsFiniteSet(OvercomeOf(c, claims))
  /\ k.recovered \in Nat /\ k.recovered <= Cardinality(OvercomeOf(c, claims))

LEMMA CountedFaults ==
  ASSUME NEW c \in ScenarioFiles, NEW claims, Listed(claims.faults),
         SameFaults(Declared(c), claims.faults)
  PROVE  CountsMean(c, claims, Counted(claims, c))
<1> DEFINE obs == claims.faults
           correct == claims.result = c.expected
           T == {j \in DOMAIN obs : obs[j].type \in Transient}
           R == {j \in DOMAIN obs : /\ obs[j].type \in Transient
                                    /\ Recovered(obs[j], claims, correct)}
           k == Counted(claims, c)
<1>1. /\ k.correct = (claims.result = c.expected) /\ k.transients = Cardinality(T)
      /\ k.recovered = Cardinality(R)
  BY DEF Counted, CountBy, OutcomeOf
<1>2. \A f \in c.faults : LET d == DeclaredAs(c)[f]
                          IN  d.tool = f.tool /\ d.attempt = f.attempt /\ d.type = f.type
  BY DeclaredFacts
<1>3. \A f \in c.faults : \E j \in DOMAIN obs : obs[j] = DeclaredAs(c)[f]
  <2>1. \A f \in c.faults : DeclaredAs(c)[f] \in Declared(c)
    BY DeclaredFacts
  <2> QED BY <2>1 DEF SameFaults, ToSet
<1>4. RulesOf(c, obs, T) = TransientOf(c)
  BY <1>2, <1>3 DEF RulesOf, TransientOf
<1>5. RulesOf(c, obs, R) \subseteq OvercomeOf(c, claims)
  <2> SUFFICES ASSUME NEW f \in c.faults, NEW j \in R, obs[j] = DeclaredAs(c)[f]
               PROVE  f \in OvercomeOf(c, claims)
    BY DEF RulesOf
  <2>1. /\ obs[j].tool = f.tool /\ obs[j].attempt = f.attempt /\ obs[j].type = f.type
        /\ obs[j].type \in Transient /\ Recovered(obs[j], claims, correct)
    BY <1>2
  <2>2. PICK i \in DOMAIN claims.attempts :
          /\ CallOf(claims.attempts[i]) = CallOf(obs[j])
          /\ claims.attempts[i].attempt > obs[j].attempt
          /\ claims.attempts[i].status = "succeeded"
    BY <2>1 DEF Recovered
  <2>3. claims.attempts[i].tool = f.tool
    BY <2>1, <2>2 DEF CallOf
  <2>4. correct
    BY <2>1 DEF Recovered
  <2>5. claims.attempts[i] \in ToSet(claims.attempts)
    BY <2>2 DEF ToSet
  <2> QED BY <2>1, <2>2, <2>3, <2>4, <2>5 DEF OvercomeOf, TransientOf
<1>6. T \subseteq DOMAIN obs /\ R \subseteq DOMAIN obs
  OBVIOUS
<1> HIDE DEF T, R, k, obs
<1>7. Listed(obs) /\ SameFaults(Declared(c), obs)
  BY DEF obs
<1>8. /\ IsFiniteSet(TransientOf(c)) /\ Cardinality(TransientOf(c)) = Cardinality(T)
  BY <1>4, <1>6, <1>7, FaultsCounted
<1>9. /\ IsFiniteSet(RulesOf(c, obs, R))
      /\ Cardinality(RulesOf(c, obs, R)) = Cardinality(R)
  BY <1>6, <1>7, FaultsCounted
<1>10. OvercomeOf(c, claims) \subseteq TransientOf(c)
  BY DEF OvercomeOf
<1>11. IsFiniteSet(OvercomeOf(c, claims))
  BY <1>8, <1>10, FS_Subset
<1>12. Cardinality(RulesOf(c, obs, R)) <= Cardinality(OvercomeOf(c, claims))
  BY <1>5, <1>11, FS_Subset
<1>13. Cardinality(RulesOf(c, obs, R)) \in Nat
  BY <1>9, FS_CardinalityType
<1>14. k.recovered \in Nat /\ k.recovered <= Cardinality(OvercomeOf(c, claims))
  BY <1>1, <1>9, <1>12, <1>13
<1>15. k.correct = (claims.result = c.expected) /\ k.transients = Cardinality(TransientOf(c))
  BY <1>1, <1>8
<1> QED BY <1>8, <1>11, <1>14, <1>15 DEF CountsMean, k

-----------------------------------------------------------------------------
(* What the counters of a report count *)

\* Case x was graded against c.
Graded(x, c) ==
  /\ x.counts = Counted(x.claims, c)
  /\ Listed(x.claims.faults) /\ SameFaults(Declared(c), x.claims.faults)

GradedInv ==
  /\ Listed(trace)
  /\ \A m \in Modes : \A i \in DOMAIN cases[m] : Graded(cases[m][i], loaded[i])

\* A report lists the cases of its manifest, edited or not.
WrittenInv ==
  pc \in {"gate", "done"} =>
    /\ report.manifest = manifest
    /\ \A m \in Modes : DOMAIN report.modes[m].cases = DOMAIN Suite

LEMMA FaultsListed ==
  ASSUME NEW events, Listed(events)
  PROVE  Listed(FaultsOf(events))
<1> DEFINE f == FaultsOf(events)
<1>1. PICK n \in Nat : DOMAIN events = 1..n
  BY ListGrows
<1>2. DOMAIN f = 1..n /\ f = [i \in 1..n |-> f[i]]
  BY <1>1 DEF FaultsOf
<1> HIDE DEF f
<1> QED BY <1>2, TableListed DEF f

LEMMA EventsListed ==
  ASSUME NEW s, Listed(s)
  PROVE  /\ \A e : Listed(s \o <<e>>)
         /\ \A d, e : Listed(s \o <<d, e>>)
         /\ \A b, d, f : Listed(s \o (<<b, d>> \o <<>> \o <<f>>))
         /\ \A b, d, e, f : Listed(s \o (<<b, d>> \o <<e>> \o <<f>>))
<1>1. ASSUME NEW e PROVE Listed(s \o <<e>>)
  <2>1. s \o <<e>> = Append(s, e)
    BY JoinedOne
  <2> QED BY <2>1, ListGrows
<1>2. ASSUME NEW d, NEW e PROVE Listed(s \o <<d, e>>)
  <2>1. s \o <<d, e>> = Append(Append(s, d), e)
    BY JoinedTwo
  <2>2. Listed(Append(s, d))
    BY ListGrows
  <2>3. Listed(Append(Append(s, d), e))
    BY <2>2, ListGrows
  <2> QED BY <2>1, <2>3
<1>3. ASSUME NEW b, NEW d, NEW f PROVE Listed(s \o (<<b, d>> \o <<>> \o <<f>>))
  <2>1. s \o (<<b, d>> \o <<>> \o <<f>>) = Append(Append(Append(s, b), d), f)
    BY JoinedThree
  <2>2. Listed(Append(s, b))
    BY ListGrows
  <2>3. Listed(Append(Append(s, b), d))
    BY <2>2, ListGrows
  <2>4. Listed(Append(Append(Append(s, b), d), f))
    BY <2>3, ListGrows
  <2> QED BY <2>1, <2>4
<1>4. ASSUME NEW b, NEW d, NEW e, NEW f
      PROVE  Listed(s \o (<<b, d>> \o <<e>> \o <<f>>))
  <2>1. s \o (<<b, d>> \o <<e>> \o <<f>>)
          = Append(Append(Append(Append(s, b), d), e), f)
    BY JoinedFour
  <2>2. Listed(Append(s, b))
    BY ListGrows
  <2>3. Listed(Append(Append(s, b), d))
    BY <2>2, ListGrows
  <2>4. Listed(Append(Append(Append(s, b), d), e))
    BY <2>3, ListGrows
  <2>5. Listed(Append(Append(Append(Append(s, b), d), e), f))
    BY <2>4, ListGrows
  <2> QED BY <2>1, <2>5
<1> QED BY <1>1, <1>2, <1>3, <1>4

LEMMA TraceListed ==
  ASSUME StageInv, Listed(trace), [Next]_vars
  PROVE  Listed(trace)'
<1>1. /\ \A e : Listed(trace \o <<e>>)
      /\ \A d, e : Listed(trace \o <<d, e>>)
      /\ \A b, d, f : Listed(trace \o (<<b, d>> \o <<>> \o <<f>>))
      /\ \A b, d, e, f : Listed(trace \o (<<b, d>> \o <<e>> \o <<f>>))
  BY EventsListed
<1>2. ASSUME trace' = trace PROVE Listed(trace')
  BY <1>2
<1>3. CASE Enter \/ Propose \/ Finish \/ Refuse \/ Wait \/ Checkpoint \/ Fail \/ Approve
  <2>1. \E e : trace' = trace \o <<e>>
    BY <1>3 DEF Enter, Propose, Finish, Refuse, Wait, Checkpoint, Fail, Approve, Logged
  <2> QED BY <1>1, <2>1
<1>4. CASE Succeed
  <2>1. \E d, e : trace' = trace \o <<d, e>>
    BY <1>4 DEF Succeed, Logged
  <2> QED BY <1>1, <2>1
<1>5. CASE Attempted
  <2>1. \E b, d, e, f :
          \/ trace' = trace \o (<<b, d>> \o <<>> \o <<f>>)
          \/ trace' = trace \o (<<b, d>> \o <<e>> \o <<f>>)
    BY <1>5 DEF Attempted, Logged, FailingAttempt
  <2> QED BY <1>1, <2>1
<1>6. CASE Exhaust \/ GiveUp \/ StartCall
  BY <1>2, <1>6 DEF Exhaust, GiveUp, StartCall
<1>7. CASE OpenCase
  BY <1>7, NothingListed DEF OpenCase
<1>8. CASE ~RunStep /\ ~OpenCase
  <2>1. CASE UNCHANGED vars
    BY <1>2, <2>1 DEF vars, caseVars
  <2>2. CASE \E n \in DOMAIN Contents : WriteFile(n)
    BY <1>2, <2>2, FileWritten
  <2>3. CASE CloseCase
    BY <1>2, <2>3, CaseClosed DEF StageInv
  <2>4. CASE ReadScenario \/ HashScenario \/ Freeze \/ LoadScenario \/ Loaded
             \/ Recheck
    BY <1>2, <2>4 DEF ReadScenario, HashScenario, Freeze, LoadScenario, Loaded,
                      Recheck, caseVars
  <2>5. CASE WriteReport \/ EnforceGate \/ EditReport
    BY <1>2, <2>5 DEF WriteReport, EnforceGate, EditReport, caseVars
  <2> QED BY <1>8, <2>1, <2>2, <2>3, <2>4, <2>5 DEF Next, Evaluate, RunStep
<1> QED BY <1>3, <1>4, <1>5, <1>6, <1>7, <1>8 DEF RunStep

LEMMA GradedStep ==
  ASSUME StageInv, GradedInv, [Next]_vars
  PROVE  GradedInv'
<1>1. Listed(trace)'
  BY TraceListed DEF GradedInv
<1>2. ASSUME NEW m \in Modes, NEW i \in DOMAIN cases'[m]
      PROVE  Graded(cases'[m][i], loaded'[i])
  <2>1. CASE cases' = cases
    <3>1. loaded' = loaded
      BY <1>2, <2>1, LoadedKept
    <3> QED BY <1>2, <2>1, <3>1 DEF GradedInv
  <2>2. CASE CloseCase /\ cases' # cases
    <3>1. /\ Gradable /\ loaded' = loaded
          /\ \A q \in Modes \ {Mode} : cases'[q] = cases[q]
          /\ LET k == Len(cases[Mode])
             IN  /\ k \in Nat /\ DOMAIN cases[Mode] = 1..k
                 /\ DOMAIN cases'[Mode] = 1..(k + 1)
                 /\ \A j \in 1..k : cases'[Mode][j] = cases[Mode][j]
                 /\ cases'[Mode][k + 1] = Case
      BY <2>2, CaseClosed DEF StageInv
    <3>2. PICK k, x : k = Len(cases[Mode]) /\ x = Case
      OBVIOUS
    <3>3. \/ i \in DOMAIN cases[m] /\ cases'[m][i] = cases[m][i]
          \/ m = Mode /\ i = k + 1
      <4>1. CASE m # Mode
        BY <1>2, <3>1, <4>1
      <4>2. CASE m = Mode
        <5>1. i \in 1..k \/ i = k + 1
          BY <1>2, <3>1, <3>2, <4>2
        <5> QED BY <3>1, <3>2, <4>2, <5>1
      <4> QED BY <4>1, <4>2
    <3>4. CASE i \in DOMAIN cases[m] /\ cases'[m][i] = cases[m][i]
      BY <1>2, <3>1, <3>4 DEF GradedInv
    <3>5. CASE m = Mode /\ i = k + 1
      <4>1. /\ x.claims = Claims(run, trace) /\ Scenario = loaded[i]
            /\ x.counts = Counted(Claims(run, trace), Scenario)
        BY <3>2, <3>5 DEF Case, Scenario
      <4>2. SameFaults(Declared(Scenario), Claims(run, trace).faults)
        BY <3>1 DEF Gradable
      <4>3. Listed(Claims(run, trace).faults)
        <5>1. Claims(run, trace).faults = FaultsOf(OfType(trace, {"fault.injected"}))
          BY DEF Claims, FaultsOf
        <5>2. Listed(OfType(trace, {"fault.injected"}))
          BY OfTypeListed DEF GradedInv
        <5> QED BY <5>1, <5>2, FaultsListed
      <4>4. Graded(x, loaded[i])
        BY <4>1, <4>2, <4>3 DEF Graded
      <4> QED BY <3>1, <3>2, <3>5, <4>4
    <3> QED BY <3>3, <3>4, <3>5
  <2> QED BY <2>1, <2>2, DirectoryStep
<1> QED BY <1>1, <1>2 DEF GradedInv

\* The counters in R are those of the n runs Q of the scenarios S.
RunsCounted(n, S, Q, R) ==
  /\ DOMAIN R = 1..n /\ Len(R) = n
  /\ \A i \in 1..n : CountsMean(S[i], Q[i].claims, R[i].counts)

Solved(n, S, Q) == {i \in 1..n : Q[i].claims.result = S[i].expected}

LEMMA SolvedCounted ==
  ASSUME NEW n \in Nat, NEW S, NEW Q, NEW R, RunsCounted(n, S, Q, R)
  PROVE  Total([i \in DOMAIN R |-> IF R[i].counts.correct THEN 1 ELSE 0])
           = Cardinality(Solved(n, S, Q))
<1> DEFINE solved == Solved(n, S, Q)
           f == [i \in 1..n |-> IF i \in solved THEN 1 ELSE 0]
           P == [i \in 1..n |-> IF i \in solved THEN {i} ELSE {}]
<1>1. \A i \in 1..n : R[i].counts.correct = (i \in solved)
  BY DEF CountsMean, RunsCounted, Solved
<1>2. [i \in DOMAIN R |-> IF R[i].counts.correct THEN 1 ELSE 0] = f
  BY <1>1 DEF RunsCounted
<1>3. f \in Seq(Int) /\ Len(f) = n
  <2>1. f \in [1..n -> Int]
    OBVIOUS
  <2> HIDE DEF f
  <2> QED BY <2>1
<1>4. ASSUME NEW i \in 1..n
      PROVE  IsFiniteSet(P[i]) /\ f[i] = Cardinality(P[i])
  <2>1. IsFiniteSet({}) /\ Cardinality({}) = 0
    BY FS_EmptySet
  <2>2. IsFiniteSet({i}) /\ Cardinality({i}) = 1
    BY FS_Singleton
  <2> HIDE DEF solved
  <2> QED BY <2>1, <2>2
<1>5. \A i, j \in 1..n : i # j => P[i] \cap P[j] = {}
  OBVIOUS
<1>6. UNION {P[i] : i \in 1..n} = solved
  BY DEF Solved
<1>7. Total(f) = Cardinality(UNION {P[i] : i \in 1..n})
  <2> HIDE DEF f, P
  <2>1. CountsParts(f, P, n)
    BY <1>3, <1>4, <1>5 DEF CountsParts
  <2> QED BY <2>1, TotalOfParts
<1> HIDE DEF f, P, solved
<1>8. Total(f) = Cardinality(solved)
  BY <1>6, <1>7
<1> QED BY <1>2, <1>8 DEF solved

LEMMA EarnedCounts ==
  ASSUME NEW n \in Nat, NEW S, NEW Q, NEW R, RunsCounted(n, S, Q, R),
         Thresholds(Metrics(R))
  PROVE  LET solved == Solved(n, S, Q)
             faults == Pairs(n, [i \in 1..n |-> TransientOf(S[i])])
             overcome == Pairs(n, [i \in 1..n |-> OvercomeOf(S[i], Q[i].claims)])
         IN  /\ 5 * Cardinality(solved) >= 4 * n
             /\ faults # {}
             /\ 4 * Cardinality(overcome) >= 3 * Cardinality(faults)
<1> DEFINE solved == Solved(n, S, Q)
           A == [i \in 1..n |-> TransientOf(S[i])]
           B == [i \in 1..n |-> OvercomeOf(S[i], Q[i].claims)]
           f == [i \in 1..n |-> R[i].counts.transients]
           g == [i \in 1..n |-> R[i].counts.recovered]
           h == [i \in 1..n |-> Cardinality(B[i])]
           M == Metrics(R)
<1>1. /\ M.correct = Total([i \in DOMAIN R |-> IF R[i].counts.correct THEN 1 ELSE 0])
      /\ M.faults = Total(f) /\ M.recovered = Total(g) /\ M.count = n
  BY DEF Metrics, RunsCounted
<1>2. M.correct = Cardinality(solved)
  BY <1>1, SolvedCounted
<1>3. ASSUME NEW i \in 1..n
      PROVE  /\ IsFiniteSet(A[i]) /\ f[i] = Cardinality(A[i])
             /\ IsFiniteSet(B[i]) /\ g[i] \in Nat /\ g[i] <= h[i]
  <2>1. CountsMean(S[i], Q[i].claims, R[i].counts)
    BY DEF RunsCounted
  <2> QED BY <2>1 DEF CountsMean
<1>4. /\ DOMAIN f = 1..n /\ f = [i \in 1..n |-> f[i]]
      /\ DOMAIN h = 1..n /\ h = [i \in 1..n |-> h[i]]
      /\ \A i \in 1..n : h[i] = Cardinality(B[i])
  OBVIOUS
<1>5. g \in Seq(Int) /\ Len(g) = n
  <2>1. DOMAIN g = 1..n /\ g = [i \in 1..n |-> g[i]]
    OBVIOUS
  <2> HIDE DEF g
  <2>2. g \in [1..n -> Int]
    BY <1>3, <2>1
  <2> QED BY <2>2
<1>6. 5 * M.correct >= 4 * M.count /\ M.faults > 0 /\ 4 * M.recovered >= 3 * M.faults
  BY DEF Thresholds
<1> HIDE DEF solved, A, B, f, g, h, M
<1>7. Total(f) = Cardinality(Pairs(n, A)) /\ IsFiniteSet(Pairs(n, A))
  <2>1. /\ \A i \in 1..n : IsFiniteSet(A[i]) /\ f[i] = Cardinality(A[i])
        /\ DOMAIN f = 1..n /\ f = [i \in 1..n |-> f[i]]
    BY <1>3, <1>4
  <2> QED BY <2>1, PairsCounted
<1>8. Total(h) = Cardinality(Pairs(n, B)) /\ h \in Seq(Int) /\ Len(h) = n
  <2>1. /\ \A i \in 1..n : IsFiniteSet(B[i]) /\ h[i] = Cardinality(B[i])
        /\ DOMAIN h = 1..n /\ h = [i \in 1..n |-> h[i]]
    BY <1>3, <1>4
  <2> QED BY <2>1, PairsCounted
<1>9. Total(g) \in Int /\ Total(h) \in Int /\ Total(g) <= Total(h)
  BY <1>3, <1>5, <1>8, TotalMonotone
<1>10. Pairs(n, A) # {}
  <2> SUFFICES ASSUME Pairs(n, A) = {} PROVE FALSE
    OBVIOUS
  <2>1. Cardinality(Pairs(n, A)) = 0
    BY FS_EmptySet
  <2> QED BY <1>1, <1>6, <1>7, <2>1
<1>11. Cardinality(Pairs(n, A)) \in Nat
  BY <1>7, FS_CardinalityType
<1>12. 4 * Cardinality(Pairs(n, B)) >= 3 * Cardinality(Pairs(n, A))
  BY <1>1, <1>6, <1>7, <1>8, <1>9, <1>11
<1>13. 5 * Cardinality(solved) >= 4 * n
  BY <1>1, <1>2, <1>6
<1> QED BY <1>10, <1>12, <1>13 DEF solved, A, B

LEMMA ReportFields ==
  ASSUME NEW M, NEW C
  PROVE  /\ Report(M, C).manifest = M
         /\ \A m \in Modes : /\ Report(M, C).modes[m].cases = C[m]
                             /\ Report(M, C).modes[m].metrics = Metrics(C[m])
BY DEF Report, Modes

LEMMA WrittenStep ==
  ASSUME StageInv, WrittenInv, [Next]_vars
  PROVE  WrittenInv'
<1>1. ASSUME report' = report, manifest' = manifest,
             pc \in {"gate", "done"} <=> pc' \in {"gate", "done"}
      PROVE  WrittenInv'
  BY <1>1 DEF WrittenInv
<1>2. ASSUME pc' \notin {"gate", "done"} PROVE WrittenInv'
  BY <1>2 DEF WrittenInv
<1>3. CASE RunStep
  BY <1>1, <1>3, RunStepKeeps
<1>4. CASE UNCHANGED vars
  BY <1>1, <1>4 DEF vars, suiteVars, reportVars
<1>5. CASE \E n \in DOMAIN Contents : WriteFile(n)
  BY <1>2, <1>5, FileWritten DEF Reporting
<1>6. CASE CloseCase
  BY <1>2, <1>6, CaseClosed DEF StageInv
<1>7. CASE LoadScenario \/ Loaded \/ OpenCase \/ Freeze \/ Recheck
  BY <1>2, <1>7 DEF LoadScenario, Loaded, OpenCase, Freeze, Recheck
<1>8. CASE ReadScenario
  BY <1>2, <1>8, ReadFields DEF StageInv, ReadScenario
<1>9. CASE HashScenario
  <2>1. pc' = pc /\ pc \notin {"gate", "done"}
    BY <1>9 DEF HashScenario, Unhashed, StageInv, Prepared, Reporting
  <2> QED BY <1>2, <2>1
<1>10. CASE EnforceGate
  BY <1>1, <1>10 DEF EnforceGate, reportVars, suiteVars
<1>11. CASE WriteReport
  <2>1. report' = Report(manifest, cases) /\ pc = "report" /\ UNCHANGED suiteVars
    BY <1>11 DEF WriteReport
  <2>2. manifest' = manifest
    BY <2>1 DEF suiteVars
  <2>3. \A m \in Modes : DOMAIN cases[m] = DOMAIN Suite
    <3>1. \A m \in Modes : Len(cases[m]) = Len(Suite)
      BY <2>1 DEF StageInv, Counting, Modes, Reporting
    <3> QED BY <3>1, SuiteFiles, CaseLengths DEF StageInv
  <2> QED BY <2>1, <2>2, <2>3, ReportFields DEF WrittenInv
<1>12. CASE EditReport
  <2>1. PICK q \in Modes, i \in DOMAIN Suite :
          \E x : report' = Report(report.manifest,
                                [CasesOf(report) EXCEPT ![q][i] = x])
    BY <1>12 DEF EditReport
  <2>2. pc = "gate" /\ manifest' = manifest
    BY <1>12 DEF EditReport, suiteVars
  <2>3. PICK C : /\ report' = Report(report.manifest, C)
                 /\ \E x : C = [CasesOf(report) EXCEPT ![q][i] = x]
    BY <2>1
  <2>4. \A m \in Modes : DOMAIN C[m] = DOMAIN CasesOf(report)[m]
    BY <2>3 DEF CasesOf, Modes
  <2>5. \A m \in Modes : CasesOf(report)[m] = report.modes[m].cases
    BY DEF CasesOf, Modes
  <2>6. report'.manifest = manifest' /\ \A m \in Modes : report'.modes[m].cases = C[m]
    <3>1. report.manifest = manifest
      BY <2>2 DEF WrittenInv
    <3>2. PICK w : w = Report(manifest, C)
      OBVIOUS
    <3>3. w.manifest = manifest /\ \A m \in Modes : w.modes[m].cases = C[m]
      BY <3>2, ReportFields
    <3>4. report' = w /\ manifest' = manifest
      BY <2>2, <2>3, <3>1, <3>2
    <3> QED BY <3>3, <3>4
  <2> QED BY <2>2, <2>4, <2>5, <2>6 DEF WrittenInv
<1> QED BY <1>3, <1>4, <1>5, <1>6, <1>7, <1>8, <1>9, <1>10, <1>11, <1>12
        DEF Next, Evaluate, RunStep

\* A report that nobody edited is genuine.
LEMMA UneditedGenuine ==
  ASSUME ReportInv, Accepted, ~Edited PROVE EvidenceIsGenuine
<1>1. pc = "done"
  BY DEF Accepted, verdict
<1>2. report = Report(manifest, cases)
  BY <1>1 DEF ReportInv
<1>3. \A m \in Modes : report.modes[m].cases = cases[m]
  BY <1>2, ReportFields
<1> QED BY <1>3 DEF EvidenceIsGenuine

LEMMA EarnedPass ==
  EvaluationInv /\ GradedInv /\ WrittenInv
    => (~Edited \/ EvidenceIsGenuine => PassIsEarned)
<1> SUFFICES ASSUME EvaluationInv, GradedInv, WrittenInv, ~Edited \/ EvidenceIsGenuine,
                    verdict = "passed"
             PROVE  PassIsEarned
  BY DEF PassIsEarned
<1>1. /\ pc = "done" /\ Intact(report)
      /\ Thresholds(report.modes.resilient.metrics)
  BY DEF verdict, Verdict
<1>2. StageInv /\ ReportInv
  BY DEF EvaluationInv
<1>3. Accepted
  BY DEF Accepted
<1>4. EvidenceIsGenuine
  BY <1>2, <1>3, UneditedGenuine
<1> DEFINE m == "resilient"
           R == report.modes.resilient.cases
           Q == cases["resilient"]
           S == loaded
<1>5. PICK n \in Nat : n = Len(Suite) /\ DOMAIN Suite = 1..n
  BY SuiteFiles
<1>6. /\ DOMAIN R = 1..n /\ Len(R) = n
      /\ report.modes.resilient.metrics = Metrics(R)
  <2>1. DOMAIN report.modes["resilient"].cases = DOMAIN Suite /\ report.manifest = manifest
    BY <1>1 DEF WrittenInv, Modes
  <2>2. /\ report.modes["resilient"].metrics = Metrics(report.modes["resilient"].cases)
        /\ Len(report.modes["resilient"].cases) = Len(report.manifest)
    BY <1>1 DEF Intact, Modes
  <2>3. Len(manifest) = Len(Suite)
    BY <1>1, <1>2 DEF StageInv, Prepared
  <2> QED BY <1>5, <2>1, <2>2, <2>3
<1>7. ASSUME NEW i \in 1..n PROVE CountsMean(S[i], Q[i].claims, R[i].counts)
  <2>1. i \in DOMAIN cases["resilient"]
    <3>1. Len(cases["resilient"]) = Len(Suite)
      BY <1>1, <1>2 DEF StageInv, Counting, Reporting
    <3> QED BY <1>2, <1>5, <3>1, CaseLengths DEF StageInv, Modes
  <2>2. R[i].counts = Q[i].counts
    BY <1>3, <1>4, <1>5 DEF EvidenceIsGenuine, Modes
  <2>3. Graded(Q[i], S[i])
    BY <2>1 DEF GradedInv, Modes
  <2>4. S[i] \in ScenarioFiles
    <3>1. loaded \in Seq(ScenarioFiles) /\ Len(loaded) = n
      BY <1>1, <1>2, <1>5 DEF StageInv, SuiteType, Prepared
    <3> QED BY <3>1
  <2>5. PICK c, x : c = S[i] /\ x = Q[i].claims
    OBVIOUS
  <2>6. /\ Listed(x.faults) /\ SameFaults(Declared(c), x.faults)
        /\ R[i].counts = Counted(x, c)
    BY <2>2, <2>3, <2>5 DEF Graded
  <2>7. CountsMean(c, x, Counted(x, c))
    BY <2>4, <2>5, <2>6, CountedFaults
  <2> QED BY <2>5, <2>6, <2>7
<1>8. RunsCounted(n, S, Q, R) /\ Thresholds(Metrics(R))
  BY <1>1, <1>6, <1>7 DEF RunsCounted
<1> DEFINE solved == Solved(n, S, Q)
           faults == Pairs(n, [i \in 1..n |-> TransientOf(S[i])])
           overcome == Pairs(n, [i \in 1..n |-> OvercomeOf(S[i], Q[i].claims)])
<1>9. /\ 5 * Cardinality(solved) >= 4 * n /\ faults # {}
      /\ 4 * Cardinality(overcome) >= 3 * Cardinality(faults)
  <2> HIDE DEF R, Q, S
  <2> QED BY <1>8, EarnedCounts
<1>10. solved = {i \in DOMAIN Suite : Q[i].claims.result = S[i].expected}
  BY <1>5 DEF Solved
<1>11. faults = UNION {{<<i, f>> : f \in {g \in S[i].faults : g.type \in Transient}} :
                         i \in DOMAIN Suite}
  BY <1>5 DEF Pairs, PairsWith, TransientOf
<1>12. overcome = {p \in faults :
                     /\ p[1] \in solved
                     /\ \E a \in ToSet(Q[p[1]].claims.attempts) :
                          /\ a.tool = p[2].tool /\ a.status = "succeeded"
                          /\ a.attempt > p[2].attempt}
  BY DEF Pairs, PairsWith, TransientOf, OvercomeOf, Solved
<1> HIDE DEF solved, faults, overcome
<1> QED BY <1>5, <1>9, <1>10, <1>11, <1>12 DEF PassIsEarned

\* A report that passes is earned (PassIsEarned), whatever the suite: the gate's
\* thresholds are stated over sums of counters, and the sums count what the runs
\* did.  Of an edited report this takes EvidenceIsGenuine, that the edits which
\* the gate lets through change no claim; a report nobody edited is genuine.
THEOREM PassesAreEarned ==
  Spec => [](~Edited \/ EvidenceIsGenuine => PassIsEarned)
<1> DEFINE Inv == EvaluationInv /\ GradedInv /\ WrittenInv
<1>1. Init => Inv
  <2> SUFFICES ASSUME Init PROVE Inv
    OBVIOUS
  <2>1. /\ pc = "manifest" /\ trace = <<>> /\ DOMAIN <<>> = {}
        /\ \A m \in Modes : cases[m] = <<>>
    BY EmptySeq DEF Init
  <2>2. GradedInv /\ WrittenInv
    BY <2>1, NothingListed DEF GradedInv, WrittenInv
  <2> QED BY <2>2, EvaluationStart
<1>2. Inv /\ [Next]_vars => Inv'
  BY EvaluationStep, GradedStep, WrittenStep DEF EvaluationInv
<1>3. Inv => (~Edited \/ EvidenceIsGenuine => PassIsEarned)
  BY EarnedPass
<1> QED BY <1>1, <1>2, <1>3, PTL DEF Spec

-----------------------------------------------------------------------------
(* What a trace shows that the gate accepts, whoever wrote it *)

LEMMA ThenDecided ==
  ASSUME NEW s, DOMAIN s = ReaderFields, NEW e, e.type = "approval.recorded"
  PROVE  LET u == Then(s, e)
         IN  /\ Same(s, u, {"approvals", "next"})
             /\ u.approvals
                  = Append(s.approvals, [pos |-> s.pos + 1, step |-> e.step,
                                         action |-> e.data.action,
                                         actor |-> e.data.actor,
                                         allow |-> e.data.allow])
             /\ u.next = s.next \/ u.next = {"approval.denied"}
BY DEF Then, After, Decided, Same, ReaderFields

LEMMA ThenDenied ==
  ASSUME NEW s, DOMAIN s = ReaderFields, NEW e, e.type = "approval.denied"
  PROVE  /\ Same(s, Then(s, e), {"denied", "next"})
         /\ Then(s, e).next = {"run.failed"}
BY DEF Then, After, Same, ReaderFields

\* The items picked are items, and the first of them is at the first position.
LEMMA PickedMembers ==
  ASSUME NEW items, Listed(items), NEW positions
  PROVE  /\ Listed(Picked(items, positions))
         /\ \A i \in DOMAIN Picked(items, positions) : \E p \in DOMAIN items :
              p \in positions /\ Picked(items, positions)[i] = items[p]
         /\ \A q \in DOMAIN items : q \in positions =>
              /\ 1 \in DOMAIN Picked(items, positions)
              /\ \E p \in DOMAIN items :
                   p <= q /\ Picked(items, positions)[1] = items[p]
<1> DEFINE n == Len(items)
<1>1. n \in Nat /\ DOMAIN items = 1..n
  BY ListGrows
<1>2. PICK f : Picking(f, n, items, positions) /\ Picked(items, positions) = f[n]
  BY <1>1, PickedIs
<1> DEFINE Members(k) == \A i \in DOMAIN f[k] : \E p \in 1..k :
                           p \in positions /\ f[k][i] = items[p]
           Firsts(k) == \A q \in 1..k : q \in positions =>
                          /\ 1 \in DOMAIN f[k]
                          /\ \E p \in 1..k : p <= q /\ f[k][1] = items[p]
           T == {k \in Nat : k <= n => Listed(f[k]) /\ Members(k) /\ Firsts(k)}
<1>3. 0 \in T
  BY <1>2, NothingListed, EmptySeq DEF Picking
<1>4. ASSUME NEW k \in Nat, k \in T PROVE k + 1 \in T
  <2> SUFFICES ASSUME k + 1 <= n
               PROVE  Listed(f[k + 1]) /\ Members(k + 1) /\ Firsts(k + 1)
    OBVIOUS
  <2>1. k + 1 \in 1..n /\ (k + 1) - 1 = k /\ k <= n
    BY <1>1
  <2>2. Listed(f[k]) /\ Members(k) /\ Firsts(k)
    BY <1>4, <2>1
  <2>3. \A i \in 1..(k + 1) : i \in 1..k \/ i = k + 1
    OBVIOUS
  <2>4. CASE k + 1 \notin positions
    <3>1. f[k + 1] = f[k]
      BY <1>2, <2>1, <2>4 DEF Picking
    <3> QED BY <2>2, <2>3, <2>4, <3>1
  <2>5. CASE k + 1 \in positions
    <3>1. f[k + 1] = Append(f[k], items[k + 1])
      BY <1>2, <2>1, <2>5 DEF Picking
    <3>2. PICK l : l = Len(f[k])
      OBVIOUS
    <3>3. /\ Listed(f[k + 1]) /\ l \in Nat /\ DOMAIN f[k] = 1..l
          /\ DOMAIN f[k + 1] = 1..(l + 1)
          /\ \A i \in 1..l : f[k + 1][i] = f[k][i]
          /\ f[k + 1][l + 1] = items[k + 1]
      BY <2>2, <3>1, <3>2, ListGrows
    <3>4. \A i \in 1..(l + 1) : i \in 1..l \/ i = l + 1
      BY <3>3
    <3>5. Members(k + 1)
      BY <2>2, <2>5, <3>3, <3>4, SMTT(20)
    <3>6. Firsts(k + 1)
      <4> SUFFICES ASSUME NEW q \in 1..(k + 1), q \in positions
                   PROVE  /\ 1 \in DOMAIN f[k + 1]
                          /\ \E p \in 1..(k + 1) : p <= q /\ f[k + 1][1] = items[p]
        OBVIOUS
      <4>1. 1 \in DOMAIN f[k + 1]
        BY <3>3
      <4>2. CASE q \in 1..k
        BY <2>2, <3>3, <4>1, <4>2
      <4>3. CASE q = k + 1
        <5>1. CASE l = 0
          BY <3>3, <4>1, <4>3, <5>1
        <5>2. CASE l # 0
          <6>1. 1 \in DOMAIN f[k] /\ f[k + 1][1] = f[k][1]
            BY <3>3, <5>2
          <6>2. PICK p \in 1..k : f[k][1] = items[p]
            BY <2>2, <6>1
          <6> QED BY <4>1, <4>3, <6>1, <6>2
        <5> QED BY <5>1, <5>2
      <4> QED BY <2>3, <4>2, <4>3
    <3> QED BY <3>3, <3>5, <3>6
  <2> QED BY <2>4, <2>5
<1> HIDE DEF T
<1>5. n \in T
  BY <1>1, <1>3, <1>4, Induct
<1>6. Listed(f[n]) /\ Members(n) /\ Firsts(n)
  BY <1>1, <1>5 DEF T
<1> QED BY <1>1, <1>2, <1>6

\* What the reader's lists say of the first k events.
Numbered(items) == Listed(items) /\ \A q \in DOMAIN items : items[q].pos \in Nat

Timed(items) == Listed(items) /\ \A q \in DOMAIN items : items[q] \in Nat

\* a is the entry of a decision among them.
DecisionOf(a, t, k, actions) ==
  \E j \in 1..k :
    /\ t[j].type = "approval.recorded" /\ a.pos = j /\ a.step = t[j].step
    /\ a.actor = t[j].data.actor /\ a.allow = t[j].data.allow
    /\ t[j].data.action = ActionAt(actions, t[j].step)

Recorded(approvals, t, k, actions) ==
  /\ Listed(approvals)
  /\ \A q \in DOMAIN approvals : DecisionOf(approvals[q], t, k, actions)

\* The starts are listed in order, all of them, at steps up to step.
Begun(starts, t, k, step) ==
  /\ Listed(starts)
  /\ \A q \in DOMAIN starts : starts[q].pos \in 1..k /\ starts[q].step \in -1..step
  /\ \A p, q \in DOMAIN starts : p < q => starts[p].pos < starts[q].pos
  /\ \A j \in 1..k : t[j].type = "tool.attempt.started" =>
       \E q \in DOMAIN starts : starts[q].pos = j /\ starts[q].step = t[j].step

Succeeds(attempts, q, e) ==
  attempts[q].status = "succeeded" /\ CallOf(attempts[q]) = CallOf(e)

\* Every success is listed, and of two of one call each.
Performed(attempts, t, k) ==
  /\ Listed(attempts)
  /\ \A j \in 1..k : t[j].type = "tool.attempt.succeeded" =>
       \E q \in DOMAIN attempts : Succeeds(attempts, q, t[j])
  /\ \A i, j \in 1..k :
       /\ i < j /\ t[i].type = "tool.attempt.succeeded"
       /\ t[j].type = "tool.attempt.succeeded" /\ CallOf(t[i]) = CallOf(t[j])
       => \E p, q \in DOMAIN attempts :
            p < q /\ Succeeds(attempts, p, t[j]) /\ Succeeds(attempts, q, t[j])

LEMMA NumberedGrows ==
  ASSUME NEW items, Numbered(items), NEW x, x.pos \in Nat
  PROVE  Numbered(Append(items, x))
<1>1. PICK l, u : l = Len(items) /\ u = Append(items, x)
  OBVIOUS
<1>2. /\ Listed(u) /\ l \in Nat /\ DOMAIN items = 1..l /\ DOMAIN u = 1..(l + 1)
      /\ (\A i \in 1..l : u[i] = items[i]) /\ u[l + 1] = x
  BY <1>1, ListGrows DEF Numbered
<1>3. \A i \in 1..(l + 1) : i \in 1..l \/ i = l + 1
  BY <1>2
<1> QED BY <1>1, <1>2, <1>3 DEF Numbered

LEMMA TimedGrows ==
  ASSUME NEW items, Timed(items), NEW x \in Nat
  PROVE  Timed(Append(items, x))
<1>1. PICK l, u : l = Len(items) /\ u = Append(items, x)
  OBVIOUS
<1>2. /\ Listed(u) /\ l \in Nat /\ DOMAIN items = 1..l /\ DOMAIN u = 1..(l + 1)
      /\ (\A i \in 1..l : u[i] = items[i]) /\ u[l + 1] = x
  BY <1>1, ListGrows DEF Timed
<1>3. \A i \in 1..(l + 1) : i \in 1..l \/ i = l + 1
  BY <1>2
<1> QED BY <1>1, <1>2, <1>3 DEF Timed

LEMMA RecordedLater ==
  ASSUME NEW approvals, NEW t, NEW k \in Nat, NEW actions,
         Recorded(approvals, t, k, actions)
  PROVE  Recorded(approvals, t, k + 1, actions)
<1>1. \A j \in 1..k : j \in 1..(k + 1)
  OBVIOUS
<1> QED BY <1>1 DEF Recorded, DecisionOf

LEMMA RecordedGrows ==
  ASSUME NEW approvals, NEW t, NEW k \in Nat, NEW actions,
         Recorded(approvals, t, k, actions), NEW x, DecisionOf(x, t, k + 1, actions)
  PROVE  Recorded(Append(approvals, x), t, k + 1, actions)
<1>1. PICK l, u : l = Len(approvals) /\ u = Append(approvals, x)
  OBVIOUS
<1>2. /\ Listed(u) /\ l \in Nat /\ DOMAIN approvals = 1..l /\ DOMAIN u = 1..(l + 1)
      /\ (\A i \in 1..l : u[i] = approvals[i]) /\ u[l + 1] = x
  BY <1>1, ListGrows DEF Recorded
<1>3. \A i \in 1..(l + 1) : i \in 1..l \/ i = l + 1
  BY <1>2
<1>4. Recorded(approvals, t, k + 1, actions)
  BY RecordedLater
<1> QED BY <1>1, <1>2, <1>3, <1>4 DEF Recorded

LEMMA BegunLater ==
  ASSUME NEW starts, NEW t, NEW k \in Nat, NEW step \in Int, NEW later \in Int,
         step <= later, Begun(starts, t, k, step),
         t[k + 1].type # "tool.attempt.started"
  PROVE  Begun(starts, t, k + 1, later)
<1>1. \A j \in 1..(k + 1) : j \in 1..k \/ j = k + 1
  OBVIOUS
<1>2. \A q \in DOMAIN starts : starts[q].pos \in 1..(k + 1) /\ starts[q].step \in -1..later
  BY DEF Begun
<1> QED BY <1>1, <1>2 DEF Begun

LEMMA BegunGrows ==
  ASSUME NEW starts, NEW t, NEW k \in Nat, NEW step \in Int, Begun(starts, t, k, step),
         NEW x, x = [pos |-> k + 1, step |-> t[k + 1].step], x.step \in -1..step
  PROVE  Begun(Append(starts, x), t, k + 1, step)
<1>1. PICK l, u : l = Len(starts) /\ u = Append(starts, x)
  OBVIOUS
<1>2. /\ Listed(u) /\ l \in Nat /\ DOMAIN starts = 1..l /\ DOMAIN u = 1..(l + 1)
      /\ (\A i \in 1..l : u[i] = starts[i]) /\ u[l + 1] = x
  BY <1>1, ListGrows DEF Begun
<1>3. \A i \in 1..(l + 1) : i \in 1..l \/ i = l + 1
  BY <1>2
<1>4. \A q \in DOMAIN u : u[q].pos \in 1..(k + 1) /\ u[q].step \in -1..step
  BY <1>2, <1>3 DEF Begun
<1>5. ASSUME NEW p \in DOMAIN u, NEW q \in DOMAIN u, p < q PROVE u[p].pos < u[q].pos
  <2>1. p \in 1..l
    BY <1>2, <1>5
  <2>2. u[p].pos \in 1..k
    BY <1>2, <2>1 DEF Begun
  <2>3. CASE q \in 1..l
    BY <1>2, <1>5, <2>1, <2>3 DEF Begun
  <2>4. CASE q = l + 1
    BY <1>2, <2>2, <2>4
  <2> QED BY <1>2, <1>3, <2>3, <2>4
<1>6. ASSUME NEW j \in 1..(k + 1), t[j].type = "tool.attempt.started"
      PROVE  \E q \in DOMAIN u : u[q].pos = j /\ u[q].step = t[j].step
  <2>1. CASE j \in 1..k
    <3>1. PICK q \in DOMAIN starts : starts[q].pos = j /\ starts[q].step = t[j].step
      BY <1>6, <2>1 DEF Begun
    <3>2. q \in 1..l /\ q \in DOMAIN u /\ u[q] = starts[q]
      BY <1>2, <3>1
    <3> QED BY <3>1, <3>2
  <2>2. CASE j = k + 1
    <3>1. l + 1 \in DOMAIN u
      BY <1>2
    <3> QED BY <1>2, <2>2, <3>1
  <2> QED BY <2>1, <2>2
<1> QED BY <1>1, <1>2, <1>4, <1>5, <1>6 DEF Begun

LEMMA PerformedLater ==
  ASSUME NEW attempts, NEW t, NEW k \in Nat, Performed(attempts, t, k),
         t[k + 1].type # "tool.attempt.succeeded"
  PROVE  Performed(attempts, t, k + 1)
<1>1. \A j \in 1..(k + 1) : j \in 1..k \/ j = k + 1
  OBVIOUS
<1> QED BY <1>1 DEF Performed

LEMMA PerformedGrows ==
  ASSUME NEW attempts, NEW t, NEW k \in Nat, Performed(attempts, t, k), NEW x,
         t[k + 1].type = "tool.attempt.succeeded" =>
           x.status = "succeeded" /\ CallOf(x) = CallOf(t[k + 1])
  PROVE  Performed(Append(attempts, x), t, k + 1)
<1>1. PICK l, u : l = Len(attempts) /\ u = Append(attempts, x)
  OBVIOUS
<1>2. /\ Listed(u) /\ l \in Nat /\ DOMAIN attempts = 1..l /\ DOMAIN u = 1..(l + 1)
      /\ (\A i \in 1..l : u[i] = attempts[i]) /\ u[l + 1] = x
  BY <1>1, ListGrows DEF Performed
<1>3. \A e : \A q \in DOMAIN attempts : Succeeds(attempts, q, e) =>
               q \in DOMAIN u /\ q < l + 1 /\ Succeeds(u, q, e)
  BY <1>2 DEF Succeeds
<1>4. /\ l + 1 \in DOMAIN u
      /\ t[k + 1].type = "tool.attempt.succeeded" => Succeeds(u, l + 1, t[k + 1])
  BY <1>2 DEF Succeeds
<1>5. ASSUME NEW j \in 1..(k + 1), t[j].type = "tool.attempt.succeeded"
      PROVE  \E q \in DOMAIN u : Succeeds(u, q, t[j])
  <2>1. CASE j \in 1..k
    <3>1. PICK q \in DOMAIN attempts : Succeeds(attempts, q, t[j])
      BY <1>5, <2>1 DEF Performed
    <3> QED BY <1>3, <3>1
  <2>2. CASE j = k + 1
    BY <1>4, <1>5, <2>2
  <2> QED BY <2>1, <2>2
<1>6. ASSUME NEW i \in 1..(k + 1), NEW j \in 1..(k + 1), i < j,
             t[i].type = "tool.attempt.succeeded", t[j].type = "tool.attempt.succeeded",
             CallOf(t[i]) = CallOf(t[j])
      PROVE  \E p, q \in DOMAIN u :
               p < q /\ Succeeds(u, p, t[j]) /\ Succeeds(u, q, t[j])
  <2>1. i \in 1..k
    BY <1>6
  <2>2. CASE j \in 1..k
    <3>1. PICK p, q \in DOMAIN attempts :
            p < q /\ Succeeds(attempts, p, t[j]) /\ Succeeds(attempts, q, t[j])
      BY <1>6, <2>1, <2>2 DEF Performed
    <3> QED BY <1>3, <3>1
  <2>3. CASE j = k + 1
    <3>1. PICK p \in DOMAIN attempts : Succeeds(attempts, p, t[i])
      BY <1>6, <2>1 DEF Performed
    <3>2. p \in DOMAIN u /\ p < l + 1 /\ Succeeds(u, p, t[i])
      BY <1>3, <3>1
    <3>3. Succeeds(u, p, t[j])
      BY <1>6, <3>2 DEF Succeeds
    <3> QED BY <1>4, <1>6, <2>3, <3>2, <3>3
  <2> QED BY <2>2, <2>3
<1> QED BY <1>1, <1>2, <1>5, <1>6 DEF Performed

\* The reader is in order: where it is, and what it has listed.
Heard(s, t, k, actions) ==
  /\ DOMAIN s = ReaderFields /\ s.pos = k /\ s.next \subseteq EventTypes
  /\ s.step \in Int /\ s.step >= -1
  /\ s.active = NoCall \/ s.active.step \in 0..s.step
  /\ Numbered(s.proposals) /\ Timed(s.resumes)
  /\ Recorded(s.approvals, t, k, actions)
  /\ Begun(s.starts, t, k, s.step)
  /\ Performed(s.attempts, t, k)

LEMMA HeardStart ==
  ASSUME NEW t, NEW actions PROVE Heard(Start, t, 0, actions)
<1>1. /\ DOMAIN Start = ReaderFields /\ Start.pos = 0 /\ Start.next = EventTypes
      /\ Start.step = -1 /\ Start.active = NoCall
      /\ Start.proposals = <<>> /\ Start.resumes = <<>> /\ Start.approvals = <<>>
      /\ Start.starts = <<>> /\ Start.attempts = <<>>
  BY DEF Start, ReaderFields
<1>2. Listed(<<>>) /\ DOMAIN <<>> = {}
  BY NothingListed, EmptySeq
<1>3. Numbered(<<>>) /\ Timed(<<>>) /\ Recorded(<<>>, t, 0, actions)
  BY <1>2 DEF Numbered, Timed, Recorded
<1>4. Begun(<<>>, t, 0, -1) /\ Performed(<<>>, t, 0)
  BY <1>2 DEF Begun, Performed
<1> QED BY <1>1, <1>3, <1>4 DEF Heard

\* What an event that is no start and no success leaves as it was.
Quiet(s, u) ==
  /\ DOMAIN u = ReaderFields /\ u.pos = s.pos + 1
  /\ u.step = s.step /\ u.starts = s.starts /\ u.attempts = s.attempts

LEMMA HeardNext ==
  ASSUME NEW t, NEW k \in Nat, NEW n \in Nat, NEW actions, DOMAIN actions = 1..n,
         NEW mode, NEW s, Heard(s, t, k, actions),
         NEW e, e = t[k + 1], Admits(s, e, actions, mode)
  PROVE  Heard(Then(s, e), t, k + 1, actions)
<1>1. /\ DOMAIN s = ReaderFields /\ s.pos = k /\ s.next \subseteq EventTypes
      /\ s.step \in Int /\ s.step >= -1
      /\ s.active = NoCall \/ s.active.step \in 0..s.step
      /\ Numbered(s.proposals) /\ Timed(s.resumes)
      /\ Recorded(s.approvals, t, k, actions)
      /\ Begun(s.starts, t, k, s.step) /\ Performed(s.attempts, t, k)
  BY DEF Heard
<1>2. PICK u : u = Then(s, e)
  OBVIOUS
<1> SUFFICES Heard(u, t, k + 1, actions)
  BY <1>2
<1>3. e.type \in EventTypes
  BY <1>1 DEF Admits
<1>4. Recorded(s.approvals, t, k + 1, actions)
  BY <1>1, RecordedLater
<1>5. e.type # "tool.attempt.started" => Begun(s.starts, t, k + 1, s.step)
  BY <1>1, BegunLater
<1>6. e.type # "tool.attempt.succeeded" => Performed(s.attempts, t, k + 1)
  BY <1>1, PerformedLater
<1>7. ASSUME Quiet(s, u), e.type # "tool.attempt.started",
             e.type # "tool.attempt.succeeded",
             u.next \subseteq EventTypes, u.active = s.active \/ u.active = NoCall,
             u.proposals = s.proposals, Timed(u.resumes),
             Recorded(u.approvals, t, k + 1, actions)
      PROVE  Heard(u, t, k + 1, actions)
  BY <1>1, <1>5, <1>6, <1>7 DEF Heard, Quiet
<1>8. CASE e.type = "run.running"
  <2>1. /\ Same(s, u, {"resumes"})
        /\ u.resumes = IF e.data = "waiting_approval"
                       THEN Append(s.resumes, k + 1) ELSE s.resumes
    BY <1>1, <1>2, <1>8, ThenRunning
  <2>2. Timed(u.resumes)
    <3>1. k + 1 \in Nat
      OBVIOUS
    <3> QED BY <1>1, <2>1, <3>1, TimedGrows
  <2> QED BY <1>1, <1>4, <1>7, <1>8, <2>1, <2>2 DEF Same, Quiet
<1>9. CASE e.type = "policy.action"
  <2>1. GoodProposal(s, e, actions, mode)
    BY <1>9 DEF Admits
  <2>2. e.step \in {s.step, s.step + 1} /\ ActionAt(actions, e.step) # NoAction
    BY <2>1 DEF GoodProposal
  <2>3. e.step \in Int /\ s.step <= e.step /\ e.step >= 0
    <3>1. e.step \in Int /\ s.step <= e.step
      BY <1>1, <2>2
    <3>2. e.step + 1 \in 1..n
      BY <2>2 DEF ActionAt
    <3> QED BY <3>1, <3>2
  <2>4. /\ Same(s, u, {"step", "proposals", "actual", "active", "closing", "next"})
        /\ u.step = e.step
        /\ u.proposals = Append(s.proposals, [pos |-> s.pos + 1, step |-> e.step])
        /\ u.active = (IF e.data.type = "call_tool"
                       THEN [step |-> e.step, tool |-> e.data.tool] ELSE NoCall)
        /\ u.next = IF e.data.type = "call_tool" THEN s.next
                    ELSE {"run.succeeded", "run.failed"}
    BY <1>1, <1>2, <1>9, ThenProposed
  <2>5. Numbered(u.proposals)
    <3>1. PICK x : x = [pos |-> s.pos + 1, step |-> e.step]
      OBVIOUS
    <3>2. x.pos \in Nat
      BY <1>1, <3>1
    <3> QED BY <1>1, <2>4, <3>1, <3>2, NumberedGrows
  <2>6. Begun(s.starts, t, k + 1, e.step)
    BY <1>1, <1>9, <2>3, BegunLater
  <2>7. u.active = NoCall \/ u.active.step \in 0..u.step
    BY <2>3, <2>4
  <2>8. u.next \subseteq EventTypes
    BY <1>1, <2>4 DEF EventTypes, RunEvents
  <2>9. /\ DOMAIN u = ReaderFields /\ u.pos = k + 1 /\ u.resumes = s.resumes
        /\ u.approvals = s.approvals /\ u.starts = s.starts /\ u.attempts = s.attempts
    BY <1>1, <2>4 DEF Same
  <2> QED BY <1>1, <1>4, <1>6, <1>9, <2>3, <2>4, <2>5, <2>6, <2>7, <2>8, <2>9 DEF Heard
<1>10. CASE e.type = "tool.attempt.started"
  <2>1. GoodStart(s, e, actions, mode)
    BY <1>10 DEF Admits
  <2>2. e.step \in -1..s.step
    <3>1. s.active = CallOf(e)
      BY <2>1 DEF GoodStart
    <3> QED BY <1>1, <3>1 DEF CallOf, NoCall
  <2>3. /\ Same(s, u, {"started", "starts"})
        /\ u.starts = Append(s.starts, [pos |-> s.pos + 1, step |-> e.step])
    BY <1>1, <1>2, <1>10, ThenStarted
  <2>4. Begun(u.starts, t, k + 1, s.step)
    <3>1. PICK x : x = [pos |-> k + 1, step |-> t[k + 1].step]
      OBVIOUS
    <3>2. x.step \in -1..s.step
      BY <2>2, <3>1
    <3> QED BY <1>1, <2>3, <3>1, <3>2, BegunGrows
  <2>5. /\ DOMAIN u = ReaderFields /\ u.pos = k + 1 /\ u.resumes = s.resumes
        /\ u.approvals = s.approvals /\ u.proposals = s.proposals
        /\ u.attempts = s.attempts /\ u.step = s.step /\ u.active = s.active
        /\ u.next = s.next
    BY <1>1, <2>3 DEF Same
  <2> QED BY <1>1, <1>4, <1>6, <1>10, <2>4, <2>5 DEF Heard
<1>11. CASE e.type \in Ends
  <2>1. /\ Same(s, u, {"started", "attempts", "pending", "next"})
        /\ u.attempts = Append(s.attempts, Attempt(e))
        /\ u.next = IF e.type = "tool.attempt.succeeded" THEN {"run.checkpointed"}
                    ELSE s.next
    BY <1>1, <1>2, <1>11, ThenEnded
  <2>2. Performed(u.attempts, t, k + 1)
    <3>1. PICK x : x = Attempt(e)
      OBVIOUS
    <3>2. x.step = e.step /\ x.tool = e.tool
      BY <3>1 DEF Attempt
    <3>3. e.type = "tool.attempt.succeeded" => x.status = "succeeded"
      BY <3>1 DEF Attempt
    <3>4. CallOf(x) = CallOf(e)
      BY <3>2 DEF CallOf
    <3> QED BY <1>1, <2>1, <3>1, <3>3, <3>4, PerformedGrows
  <2>3. /\ DOMAIN u = ReaderFields /\ u.pos = k + 1 /\ u.resumes = s.resumes
        /\ u.approvals = s.approvals /\ u.proposals = s.proposals
        /\ u.starts = s.starts /\ u.step = s.step /\ u.active = s.active
    BY <1>1, <2>1 DEF Same
  <2>4. u.next \subseteq EventTypes
    BY <1>1, <2>1 DEF EventTypes, RunEvents
  <2> QED BY <1>1, <1>4, <1>5, <1>11, <2>2, <2>3, <2>4 DEF Heard, Ends
<1>12. CASE e.type = "fault.injected"
  <2>1. Same(s, u, {"faults"})
    BY <1>1, <1>2, <1>12, ThenInjected
  <2> QED BY <1>1, <1>4, <1>7, <1>12, <2>1 DEF Same, Quiet
<1>13. CASE e.type = "tool.output.validation_failed"
  <2>1. Same(s, u, {"invalid"})
    BY <1>1, <1>2, <1>13, ThenRejected
  <2> QED BY <1>1, <1>4, <1>7, <1>13, <2>1 DEF Same, Quiet
<1>14. CASE e.type = "run.checkpointed"
  <2>1. /\ Same(s, u, {"accepted", "pending", "active", "next"})
        /\ u.active = NoCall /\ u.next = EventTypes
    BY <1>1, <1>2, <1>14, ThenCheckpointed
  <2> QED BY <1>1, <1>4, <1>7, <1>14, <2>1 DEF Same, Quiet
<1>15. CASE e.type = "tool.preflight.failed"
  <2>1. Same(s, u, {"refused", "next"}) /\ u.next = {"run.failed"}
    BY <1>1, <1>2, <1>15, ThenRefused
  <2>2. u.next \subseteq EventTypes
    BY <2>1 DEF EventTypes, RunEvents
  <2> QED BY <1>1, <1>4, <1>7, <1>15, <2>1, <2>2 DEF Same, Quiet
<1>16. CASE e.type = "run.waiting_approval"
  <2>1. Same(s, u, {"waits"})
    BY <1>1, <1>2, <1>16, ThenWaiting
  <2> QED BY <1>1, <1>4, <1>7, <1>16, <2>1 DEF Same, Quiet
<1>17. CASE e.type = "approval.recorded"
  <2>1. PICK x : x = [pos |-> s.pos + 1, step |-> e.step, action |-> e.data.action,
                      actor |-> e.data.actor, allow |-> e.data.allow]
    OBVIOUS
  <2>2. /\ Same(s, u, {"approvals", "next"})
        /\ u.approvals = Append(s.approvals, x)
        /\ u.next = s.next \/ u.next = {"approval.denied"}
    BY <1>1, <1>2, <1>17, <2>1, ThenDecided
  <2>3. GoodApproval(s, e, actions, mode)
    BY <1>17 DEF Admits
  <2>4. DecisionOf(x, t, k + 1, actions)
    <3>1. /\ x.pos = k + 1 /\ x.step = e.step /\ x.actor = e.data.actor
          /\ x.allow = e.data.allow
      BY <1>1, <2>1
    <3>2. e.data.action = ActionAt(actions, e.step)
      BY <2>3 DEF GoodApproval
    <3>3. k + 1 \in 1..(k + 1)
      OBVIOUS
    <3> QED BY <1>17, <3>1, <3>2, <3>3 DEF DecisionOf
  <2>5. Recorded(u.approvals, t, k + 1, actions)
    BY <1>1, <2>2, <2>4, RecordedGrows
  <2>6. u.next \subseteq EventTypes
    BY <1>1, <2>2 DEF EventTypes, RunEvents
  <2> QED BY <1>1, <1>7, <1>17, <2>2, <2>5, <2>6 DEF Same, Quiet
<1>18. CASE e.type = "approval.denied"
  <2>1. Same(s, u, {"denied", "next"}) /\ u.next = {"run.failed"}
    BY <1>1, <1>2, <1>18, ThenDenied
  <2>2. u.next \subseteq EventTypes
    BY <2>1 DEF EventTypes, RunEvents
  <2> QED BY <1>1, <1>4, <1>7, <1>18, <2>1, <2>2 DEF Same, Quiet
<1>19. CASE e.type \in {"run.succeeded", "run.failed"}
  <2>1. Same(s, u, {"status", "result", "next"}) /\ u.next = {}
    BY <1>1, <1>2, <1>19, ThenOver
  <2> QED BY <1>1, <1>4, <1>7, <1>19, <2>1 DEF Same, Quiet
<1> QED BY <1>3, <1>8, <1>9, <1>10, <1>11, <1>12, <1>13, <1>14, <1>15, <1>16,
           <1>17, <1>18, <1>19 DEF EventTypes, RunEvents, AttemptEvents, Ends

LEMMA HeardRead ==
  ASSUME NEW t, Listed(t), NEW n \in Nat, NEW actions, DOMAIN actions = 1..n,
         NEW mode, Read(t, actions, mode).ok
  PROVE  Heard(Read(t, actions, mode), t, Len(t), actions)
<1> DEFINE l == Len(t)
<1>1. l \in Nat
  BY ListGrows
<1>2. PICK f : Reads(f, l, t, actions, mode) /\ Read(t, actions, mode) = f[l]
  BY <1>1, ReadIs
<1> DEFINE Fine(k) == /\ DOMAIN f[k] = ReaderFields
                      /\ f[k].ok => Heard(f[k], t, k, actions)
           T == {k \in Nat : k <= l => Fine(k)}
<1>3. 0 \in T
  <2>1. f[0] = Start /\ DOMAIN Start = ReaderFields
    BY <1>2 DEF Reads, Start, ReaderFields
  <2>2. Heard(Start, t, 0, actions)
    BY HeardStart
  <2> QED BY <2>1, <2>2
<1>4. ASSUME NEW k \in Nat, k \in T PROVE k + 1 \in T
  <2> SUFFICES ASSUME k + 1 <= l PROVE Fine(k + 1)
    OBVIOUS
  <2>1. k + 1 \in 1..l /\ (k + 1) - 1 = k /\ k <= l
    BY <1>1
  <2>2. PICK s, u, e : s = f[k] /\ u = f[k + 1] /\ e = t[k + 1]
    OBVIOUS
  <2>3. u = Step(s, e, actions, mode)
    BY <1>2, <2>1, <2>2 DEF Reads
  <2>4. DOMAIN s = ReaderFields /\ (s.ok => Heard(s, t, k, actions))
    BY <1>4, <2>1, <2>2
  <2>5. CASE s.ok /\ Admits(s, e, actions, mode)
    <3>1. u = Then(s, e)
      BY <2>3, <2>5 DEF Step, Then
    <3>2. Heard(Then(s, e), t, k + 1, actions)
      BY <2>2, <2>4, <2>5, HeardNext
    <3> QED BY <2>2, <3>1, <3>2 DEF Heard
  <2>6. CASE ~(s.ok /\ Admits(s, e, actions, mode))
    <3>1. u = [s EXCEPT !.ok = FALSE]
      BY <2>3, <2>6 DEF Step
    <3>2. DOMAIN u = ReaderFields /\ ~u.ok
      BY <2>4, <3>1 DEF ReaderFields
    <3> QED BY <2>2, <3>2
  <2> QED BY <2>5, <2>6
<1> HIDE DEF T
<1>5. l \in T
  BY <1>1, <1>3, <1>4, Induct
<1> QED BY <1>1, <1>2, <1>5 DEF T

LEMMA StartsApproved ==
  ASSUME NEW s, NEW t, NEW l \in Nat, NEW n \in Nat, NEW actions,
         DOMAIN actions = 1..n, Heard(s, t, l, actions),
         NEW supplied, ApprovalCycles(s, actions, supplied),
         NEW k \in 1..l, t[k].type = "tool.attempt.started",
         RequiresApproval(ActionAt(actions, t[k].step))
  PROVE  \E j \in 1..(k - 1) :
           /\ t[j].type = "approval.recorded" /\ t[j].step = t[k].step
           /\ t[j].data.allow /\ t[j].data.actor = Reviewer
           /\ t[j].data.action = ActionAt(actions, t[k].step)
<1>1. PICK step, starts, proposals :
        /\ step = t[k].step /\ starts = At(s.starts, step)
        /\ proposals = At(s.proposals, step)
  OBVIOUS
<1>2. /\ s.step \in Int /\ Begun(s.starts, t, l, s.step)
      /\ Numbered(s.proposals) /\ Timed(s.resumes) /\ Recorded(s.approvals, t, l, actions)
  BY DEF Heard
<1>3. PICK q \in DOMAIN s.starts : s.starts[q].pos = k /\ s.starts[q].step = step
  BY <1>1, <1>2 DEF Begun
<1>4. step \in 0..s.step
  <2>1. step \in -1..s.step
    BY <1>2, <1>3 DEF Begun
  <2>2. step # -1
    <3>1. ActionAt(actions, -1) = NoAction
      BY DEF ActionAt
    <3>2. ~RequiresApproval(NoAction)
      BY DEF RequiresApproval, NoAction, Act
    <3> QED BY <1>1, <3>1, <3>2
  <2> QED BY <1>2, <2>1, <2>2
<1>5. /\ 1 \in DOMAIN starts
      /\ \E p \in DOMAIN s.starts : p <= q /\ starts[1] = s.starts[p]
  <2>1. PICK P : P = {i \in DOMAIN s.starts : s.starts[i].step = step}
    OBVIOUS
  <2>2. starts = Picked(s.starts, P) /\ q \in P
    BY <1>1, <1>3, <2>1 DEF At
  <2>3. Listed(s.starts)
    BY <1>2 DEF Begun
  <2> QED BY <1>3, <2>2, <2>3, PickedMembers
<1>6. starts[1].pos \in Nat /\ starts[1].pos <= k
  <2>1. PICK p \in DOMAIN s.starts : p <= q /\ starts[1] = s.starts[p]
    BY <1>5
  <2>2. DOMAIN s.starts = 1..Len(s.starts) /\ Len(s.starts) \in Nat
    BY <1>2, ListGrows DEF Begun
  <2>3. s.starts[p].pos \in 1..l
    BY <1>2 DEF Begun
  <2>4. CASE p = q
    BY <1>3, <2>1, <2>3, <2>4
  <2>5. CASE p < q
    <3>1. s.starts[p].pos < s.starts[q].pos
      BY <1>2, <1>3, <2>5 DEF Begun
    <3> QED BY <1>3, <2>1, <2>3, <3>1
  <2> QED BY <2>1, <2>2, <2>4, <2>5
<1>7. step \in ApprovalSteps(s, actions)
  <2>1. starts # <<>>
    BY <1>5, EmptySeq
  <2> QED BY <1>1, <1>4, <2>1 DEF ApprovalSteps
<1>8. /\ Len(s.approvals) = 1 /\ Len(s.resumes) = 1 /\ Len(proposals) = 2
      /\ s.approvals[1].step = step
      /\ s.approvals[1].actor = Reviewer /\ s.approvals[1].allow
      /\ OrderedCycle(proposals, s.waits[1], s.approvals[1], s.resumes[1], starts)
  <2>1. PICK x \in ApprovalSteps(s, actions) :
          /\ ApprovalSteps(s, actions) = {x}
          /\ Len(s.approvals) = 1 /\ Len(s.resumes) = 1
          /\ Len(At(s.proposals, x)) = 2 /\ s.approvals[1].step = x
          /\ s.approvals[1].actor = Reviewer /\ s.approvals[1].allow
          /\ OrderedCycle(At(s.proposals, x), s.waits[1], s.approvals[1],
                          s.resumes[1], At(s.starts, x))
    BY <1>7 DEF ApprovalCycles
  <2>2. x = step
    BY <1>7, <2>1
  <2> QED BY <1>1, <2>1, <2>2
<1>9. /\ s.approvals[1].pos < s.resumes[1] /\ s.resumes[1] < proposals[2].pos
      /\ proposals[2].pos < starts[1].pos
  BY <1>8 DEF OrderedCycle
<1>10. DecisionOf(s.approvals[1], t, l, actions)
  <2>1. 1 \in DOMAIN s.approvals
    BY <1>2, <1>8, ListGrows DEF Recorded
  <2> QED BY <1>2, <2>1 DEF Recorded
<1>11. PICK a : a = s.approvals[1]
  OBVIOUS
<1>12. PICK j \in 1..l :
         /\ t[j].type = "approval.recorded" /\ a.pos = j /\ a.step = t[j].step
         /\ a.actor = t[j].data.actor /\ a.allow = t[j].data.allow
         /\ t[j].data.action = ActionAt(actions, t[j].step)
  BY <1>10, <1>11 DEF DecisionOf
<1>13. s.resumes[1] \in Nat
  <2>1. 1 \in DOMAIN s.resumes
    BY <1>2, <1>8, ListGrows DEF Timed
  <2> QED BY <1>2, <2>1 DEF Timed
<1>14. proposals[2].pos \in Nat
  <2>1. PICK P : P = {i \in DOMAIN s.proposals : s.proposals[i].step = step}
    OBVIOUS
  <2>2. proposals = Picked(s.proposals, P) /\ Listed(s.proposals)
    BY <1>1, <1>2, <2>1 DEF At, Numbered
  <2>3. /\ Listed(proposals)
        /\ \A i \in DOMAIN proposals : \E p \in DOMAIN s.proposals :
             proposals[i] = s.proposals[p]
    BY <2>2, PickedMembers
  <2>4. 2 \in DOMAIN proposals
    BY <1>8, <2>3, ListGrows
  <2> QED BY <1>2, <2>3, <2>4 DEF Numbered
<1>15. j \in 1..(k - 1)
  BY <1>6, <1>9, <1>11, <1>12, <1>13, <1>14
<1> QED BY <1>1, <1>8, <1>11, <1>12, <1>15

\* No gated call started before its approval, and no call succeeded twice.
Lawful(t, actions) ==
  /\ \A k \in DOMAIN t :
       /\ t[k].type = "tool.attempt.started"
       /\ RequiresApproval(ActionAt(actions, t[k].step))
       => \E j \in 1..(k - 1) :
            /\ t[j].type = "approval.recorded" /\ t[j].step = t[k].step
            /\ t[j].data.allow /\ t[j].data.actor = Reviewer
            /\ t[j].data.action = ActionAt(actions, t[k].step)
  /\ \A j, k \in DOMAIN t :
       /\ t[j].type = "tool.attempt.succeeded" /\ t[k].type = "tool.attempt.succeeded"
       /\ CallOf(t[j]) = CallOf(t[k])
       => j = k

LEMMA LawfulTrace ==
  ASSUME NEW t, Listed(t), NEW frozen, NEW n \in Nat, DOMAIN frozen.actions = 1..n,
         NEW mode, TraceClaims(t, mode, frozen).readable
  PROVE  Lawful(t, frozen.actions)
<1>1. PICK s, actions, supplied :
        /\ s = Read(t, actions, mode) /\ actions = frozen.actions
        /\ supplied = frozen.supplied
  OBVIOUS
<1>2. PICK l : l = Len(t) /\ l \in Nat /\ DOMAIN t = 1..l
  BY ListGrows
<1>3. s.ok /\ AttemptsExplained(s) /\ ApprovalCycles(s, actions, supplied)
  <2>1. ~NoClaims.readable
    BY DEF NoClaims
  <2> QED BY <1>1, <2>1 DEF TraceClaims
<1>4. Heard(s, t, l, actions)
  BY <1>1, <1>2, <1>3, HeardRead
<1>5. ASSUME NEW k \in 1..l, t[k].type = "tool.attempt.started",
             RequiresApproval(ActionAt(actions, t[k].step))
      PROVE  \E j \in 1..(k - 1) :
               /\ t[j].type = "approval.recorded" /\ t[j].step = t[k].step
               /\ t[j].data.allow /\ t[j].data.actor = Reviewer
               /\ t[j].data.action = ActionAt(actions, t[k].step)
  BY <1>1, <1>2, <1>3, <1>4, <1>5, StartsApproved
<1>6. ASSUME NEW i \in 1..l, NEW j \in 1..l, i < j,
             t[i].type = "tool.attempt.succeeded", t[j].type = "tool.attempt.succeeded",
             CallOf(t[i]) = CallOf(t[j])
      PROVE  FALSE
  <2>1. Performed(s.attempts, t, l)
    BY <1>4 DEF Heard
  <2>2. PICK p, q \in DOMAIN s.attempts :
          p < q /\ Succeeds(s.attempts, p, t[j]) /\ Succeeds(s.attempts, q, t[j])
    BY <1>6, <2>1 DEF Performed
  <2>3. /\ s.attempts[p].status = "succeeded"
        /\ CallOf(s.attempts[p]) = CallOf(s.attempts[q])
    BY <2>2 DEF Succeeds
  <2>4. PICK later : later = {x \in DOMAIN s.attempts :
                                x > p /\ CallOf(s.attempts[x]) = CallOf(s.attempts[p])}
    OBVIOUS
  <2>5. q \in later
    <3>1. DOMAIN s.attempts = 1..Len(s.attempts)
      BY <2>1, ListGrows DEF Performed
    <3>2. q > p
      BY <2>2
    <3> QED BY <2>2, <2>3, <2>4, <3>2
  <2>6. later # {} => s.attempts[p].status = "failed"
    BY <1>3, <2>2, <2>4 DEF AttemptsExplained
  <2> QED BY <2>3, <2>5, <2>6
<1>7. ASSUME NEW j \in 1..l, NEW k \in 1..l,
             t[j].type = "tool.attempt.succeeded", t[k].type = "tool.attempt.succeeded",
             CallOf(t[j]) = CallOf(t[k])
      PROVE  j = k
  <2>1. j < k \/ k < j \/ j = k
    BY <1>2
  <2> QED BY <1>6, <1>7, <2>1
<1> QED BY <1>1, <1>2, <1>5, <1>7 DEF Lawful

-----------------------------------------------------------------------------
(* Every case of a report has a trace, edited or not *)

Traced(x) == "trace" \in DOMAIN x /\ Listed(x.trace)

TracesInv ==
  /\ \A m \in Modes : \A i \in DOMAIN cases[m] : Traced(cases[m][i])
  /\ pc \in {"gate", "done"} =>
       \A m \in Modes : \A i \in DOMAIN report.modes[m].cases :
         Traced(report.modes[m].cases[i])

LEMMA EditsListed ==
  ASSUME NEW s, Listed(s), NEW e \in EditsOf(s)
  PROVE  Listed(e)
<1>1. PICK S : s \in Seq(S)
  BY DEF Listed
<1>2. PICK l : l = Len(s) /\ l \in Nat /\ DOMAIN s = 1..l
  BY <1>1
<1>3. ASSUME NEW U, s \in Seq(U), NEW i \in 1..l
      PROVE  RemoveAt(s, i) \in Seq(U)
  <2>1. \A j \in 1..l : s[j] \in U
    BY <1>2, <1>3
  <2>2. SubSeq(s, 1, i - 1) \in Seq(U)
    <3>1. 1 \in Int /\ i - 1 \in Int /\ \A j \in 1..(i - 1) : s[j] \in U
      BY <1>2, <2>1
    <3> QED BY <3>1, SubSeqProperties
  <2>3. SubSeq(s, i + 1, Len(s)) \in Seq(U)
    <3>1. i + 1 \in Int /\ l \in Int /\ \A j \in (i + 1)..l : s[j] \in U
      BY <1>2, <2>1
    <3> QED BY <1>2, <3>1, SubSeqProperties
  <2> QED BY <2>2, <2>3, ConcatProperties DEF RemoveAt
<1>4. ASSUME NEW U, NEW r \in Seq(U), NEW x \in U, NEW j \in 1..(Len(r) + 1)
      PROVE  InsertAt(r, j, x) \in Seq(U)
  <2>1. PICK n : n = Len(r) /\ n \in Nat /\ DOMAIN r = 1..n
    OBVIOUS
  <2>2. \A k \in 1..n : r[k] \in U
    BY <2>1
  <2>3. SubSeq(r, 1, j - 1) \in Seq(U)
    <3>1. 1 \in Int /\ j - 1 \in Int /\ \A k \in 1..(j - 1) : r[k] \in U
      BY <2>1, <2>2
    <3> QED BY <3>1, SubSeqProperties
  <2>4. SubSeq(r, j, Len(r)) \in Seq(U)
    <3>1. j \in Int /\ n \in Int /\ \A k \in j..n : r[k] \in U
      BY <2>1, <2>2
    <3> QED BY <2>1, <3>1, SubSeqProperties
  <2>5. <<x>> \in Seq(U)
    OBVIOUS
  <2>6. SubSeq(r, 1, j - 1) \o <<x>> \in Seq(U)
    BY <2>3, <2>5, ConcatProperties
  <2> QED BY <2>4, <2>6, ConcatProperties DEF InsertAt
<1>5. ASSUME NEW i \in 1..l, NEW x PROVE s \in Seq(S \cup {x}) /\ x \in S \cup {x}
  BY <1>1, SeqMonotonic
<1>6. ASSUME NEW i \in 1..l, e = RemoveAt(s, i) PROVE Listed(e)
  BY <1>1, <1>3, <1>6 DEF Listed
<1>7. ASSUME NEW i \in 1..l, NEW j \in 1..l, e = InsertAt(RemoveAt(s, i), j, s[i])
      PROVE  Listed(e)
  <2>1. PICK r : r = RemoveAt(s, i)
    OBVIOUS
  <2>2. r \in Seq(S) /\ s[i] \in S
    BY <1>1, <1>2, <1>3, <2>1
  <2>3. j \in 1..(Len(r) + 1)
    <3>1. PICK a, b : a = SubSeq(s, 1, i - 1) /\ b = SubSeq(s, i + 1, Len(s))
      OBVIOUS
    <3>2. \A k \in 1..l : s[k] \in S
      BY <1>1, <1>2
    <3>3. Len(a) = i - 1 /\ a \in Seq(S)
      <4>1. 1 \in Int /\ i - 1 \in Int /\ \A k \in 1..(i - 1) : s[k] \in S
        BY <1>2, <3>2
      <4>2. /\ SubSeq(s, 1, i - 1) \in Seq(S)
            /\ Len(SubSeq(s, 1, i - 1)) = IF 1 <= i - 1 THEN (i - 1) - 1 + 1 ELSE 0
        BY <4>1, SubSeqProperties
      <4> QED BY <1>2, <3>1, <4>2
    <3>4. Len(b) = l - i /\ b \in Seq(S)
      <4>1. i + 1 \in Int /\ l \in Int /\ \A k \in (i + 1)..l : s[k] \in S
        BY <1>2, <3>2
      <4>2. /\ SubSeq(s, i + 1, l) \in Seq(S)
            /\ Len(SubSeq(s, i + 1, l)) = IF i + 1 <= l THEN l - (i + 1) + 1 ELSE 0
        BY <4>1, SubSeqProperties
      <4> QED BY <1>2, <3>1, <4>2
    <3>5. r = a \o b
      BY <2>1, <3>1 DEF RemoveAt
    <3>6. Len(r) = Len(a) + Len(b)
      BY <3>3, <3>4, <3>5, ConcatProperties
    <3> QED BY <1>2, <3>3, <3>4, <3>6
  <2>4. InsertAt(r, j, s[i]) \in Seq(S)
    BY <1>4, <2>2, <2>3
  <2> QED BY <1>7, <2>1, <2>4 DEF Listed
<1>8. ASSUME NEW j \in 1..(l + 1), NEW x, e = InsertAt(s, j, x) PROVE Listed(e)
  <2>1. PICK U : U = S \cup {x}
    OBVIOUS
  <2>2. s \in Seq(U) /\ x \in U
    BY <1>1, <2>1, SeqMonotonic
  <2>3. InsertAt(s, j, x) \in Seq(U)
    BY <1>2, <1>4, <2>2
  <2> QED BY <1>8, <2>3 DEF Listed
<1>9. \/ \E i \in 1..l : e = RemoveAt(s, i)
      \/ \E i, j \in 1..l : e = InsertAt(RemoveAt(s, i), j, s[i])
      \/ \E j \in 1..(l + 1) : \E x : e = InsertAt(s, j, x)
  BY <1>2 DEF EditsOf
<1> QED BY <1>6, <1>7, <1>8, <1>9

LEMMA RewrittenTraced ==
  ASSUME NEW x, "trace" \in DOMAIN x, NEW events, Listed(events)
  PROVE  Traced(Rewritten(x, events))
<1>1. PICK claims : claims = TraceClaims(events, x.mode, x.ran)
  OBVIOUS
<1>2. PICK counts : counts = Counted(claims, x.ran)
  OBVIOUS
<1>3. \/ Rewritten(x, events) = [x EXCEPT !.trace = events, !.claims = claims,
                                          !.counts = counts]
      \/ Rewritten(x, events) = [x EXCEPT !.trace = events]
  BY <1>1, <1>2 DEF Rewritten
<1> QED BY <1>3 DEF Traced

LEMMA CasesTraced ==
  ASSUME StageInv, GradedInv, TracesInv, [Next]_vars,
         NEW m \in Modes, NEW i \in DOMAIN cases'[m]
  PROVE  Traced(cases'[m][i])
<1>1. CASE cases' = cases
  BY <1>1 DEF TracesInv
<1>2. CASE CloseCase /\ cases' # cases
  <2>1. /\ \A q \in Modes \ {Mode} : cases'[q] = cases[q]
        /\ LET k == Len(cases[Mode])
           IN  /\ k \in Nat /\ DOMAIN cases[Mode] = 1..k
               /\ DOMAIN cases'[Mode] = 1..(k + 1)
               /\ \A j \in 1..k : cases'[Mode][j] = cases[Mode][j]
               /\ cases'[Mode][k + 1] = Case
    BY <1>2, CaseClosed DEF StageInv
  <2>2. PICK k, x : k = Len(cases[Mode]) /\ x = Case
    OBVIOUS
  <2>3. Traced(x)
    BY <2>2 DEF Case, Traced, GradedInv
  <2>4. CASE m # Mode
    BY <2>1, <2>4 DEF TracesInv
  <2>5. CASE m = Mode
    <3>1. i \in 1..k \/ i = k + 1
      BY <2>1, <2>2, <2>5
    <3>2. CASE i \in 1..k
      BY <2>1, <2>2, <2>5, <3>2 DEF TracesInv
    <3> QED BY <2>1, <2>2, <2>3, <2>5, <3>1, <3>2
  <2> QED BY <2>4, <2>5
<1> QED BY <1>1, <1>2, DirectoryStep

LEMMA EditTraced ==
  ASSUME WrittenInv, TracesInv, EditReport,
         NEW m \in Modes, NEW j \in DOMAIN report'.modes[m].cases
  PROVE  Traced(report'.modes[m].cases[j])
<1>1. PICK q \in Modes, i \in DOMAIN Suite :
        \E events \in EditsOf(CasesOf(report)[q][i].trace) :
          report' = Report(report.manifest,
                           [CasesOf(report) EXCEPT
                              ![q][i] = Rewritten(CasesOf(report)[q][i], events)])
  BY DEF EditReport
<1>2. PICK C, old, events :
        /\ C = CasesOf(report) /\ old = C[q][i] /\ events \in EditsOf(old.trace)
        /\ report' = Report(report.manifest,
                            [C EXCEPT ![q][i] = Rewritten(old, events)])
  BY <1>1
<1>3. PICK new, x : /\ x = Rewritten(old, events) /\ new = [C EXCEPT ![q][i] = x]
                    /\ report' = Report(report.manifest, new)
  BY <1>2
<1>4. /\ pc = "gate" /\ DOMAIN C = Modes
      /\ \A p \in Modes : C[p] = report.modes[p].cases
  <2>1. pc = "gate"
    BY DEF EditReport
  <2>2. DOMAIN C = Modes
    BY <1>2 DEF CasesOf, Modes
  <2>3. \A p \in Modes : C[p] = report.modes[p].cases
    <3>1. \A p \in Modes : CasesOf(report)[p] = report.modes[p].cases
      BY DEF CasesOf, Modes
    <3> QED BY <1>2, <3>1
  <2> QED BY <2>1, <2>2, <2>3
<1>5. \A p \in Modes : /\ DOMAIN C[p] = DOMAIN Suite
                       /\ \A k \in DOMAIN C[p] : Traced(C[p][k])
  BY <1>4 DEF WrittenInv, TracesInv
<1>6. Traced(x)
  <2>1. "trace" \in DOMAIN old /\ Listed(old.trace)
    BY <1>2, <1>5 DEF Traced
  <2>2. Listed(events)
    BY <1>2, <2>1, EditsListed
  <2> QED BY <1>3, <2>1, <2>2, RewrittenTraced
<1>7. report'.modes[m].cases = new[m]
  <2>1. PICK w, M : M = report.manifest /\ w = Report(M, new)
    OBVIOUS
  <2>2. w.modes[m].cases = new[m]
    BY <2>1, ReportFields
  <2> QED BY <1>3, <2>1, <2>2
<1>8. j \in DOMAIN C[m] /\ new[m][j] = IF m = q /\ j = i THEN x ELSE C[m][j]
  <2>1. new[m] = IF m = q THEN [C[m] EXCEPT ![i] = x] ELSE C[m]
    BY <1>3, <1>4
  <2> QED BY <1>7, <2>1
<1> QED BY <1>5, <1>6, <1>7, <1>8

LEMMA TracesStep ==
  ASSUME StageInv, GradedInv, WrittenInv, TracesInv, [Next]_vars
  PROVE  TracesInv'
<1> SUFFICES ASSUME pc' \in {"gate", "done"},
                    NEW m \in Modes, NEW i \in DOMAIN report'.modes[m].cases
             PROVE  Traced(report'.modes[m].cases[i])
  BY CasesTraced DEF TracesInv
<1>1. ASSUME report' = report, pc \in {"gate", "done"}
      PROVE  Traced(report'.modes[m].cases[i])
  BY <1>1 DEF TracesInv
<1>2. CASE RunStep
  BY <1>1, <1>2, RunStepKeeps
<1>3. CASE UNCHANGED vars
  BY <1>1, <1>3 DEF vars, suiteVars, reportVars
<1>4. CASE \E n \in DOMAIN Contents : WriteFile(n)
  BY <1>4, FileWritten DEF Reporting
<1>5. CASE CloseCase
  BY <1>5, CaseClosed DEF StageInv
<1>6. CASE LoadScenario \/ Loaded \/ OpenCase \/ Freeze \/ Recheck
  BY <1>6 DEF LoadScenario, Loaded, OpenCase, Freeze, Recheck
<1>7. CASE ReadScenario
  BY <1>7, ReadFields DEF StageInv, ReadScenario
<1>8. CASE HashScenario
  BY <1>8 DEF HashScenario, Unhashed, StageInv, Prepared, Reporting
<1>9. CASE EnforceGate
  BY <1>1, <1>9 DEF EnforceGate, reportVars
<1>10. CASE WriteReport
  <2>1. report' = Report(manifest, cases)
    BY <1>10 DEF WriteReport
  <2>2. PICK w : w = Report(manifest, cases)
    OBVIOUS
  <2>3. w.modes[m].cases = cases[m] /\ report' = w
    BY <2>1, <2>2, ReportFields
  <2> QED BY <2>3 DEF TracesInv
<1>11. CASE EditReport
  BY <1>11, EditTraced
<1> QED BY <1>2, <1>3, <1>4, <1>5, <1>6, <1>7, <1>8, <1>9, <1>10, <1>11
        DEF Next, Evaluate, RunStep

\* What the gate takes as evidence is lawful by the actions of the manifest.
AcceptedIsLawful ==
  Accepted =>
    \A m \in Modes : \A i \in DOMAIN Suite :
      Lawful(report.modes[m].cases[i].trace, manifest[i].content.actions)

LEMMA LawfulReport ==
  ASSUME StageInv, WrittenInv, TracesInv, Accepted,
         NEW m \in Modes, NEW i \in DOMAIN Suite
  PROVE  Lawful(report.modes[m].cases[i].trace, manifest[i].content.actions)
<1>1. pc = "done" /\ Intact(report)
  BY DEF Accepted, verdict, Verdict
<1>2. PICK case, frozen : /\ case = report.modes[m].cases[i]
                          /\ frozen = manifest[i].content
  OBVIOUS
<1>3. /\ report.manifest = manifest /\ i \in DOMAIN report.modes[m].cases
      /\ Listed(case.trace)
  BY <1>1, <1>2 DEF WrittenInv, TracesInv, Traced
<1>4. CaseIntact(case, frozen)
  BY <1>1, <1>2, <1>3 DEF Intact
<1>5. PICK n \in Nat : DOMAIN frozen.actions = 1..n
  <2>1. manifest[i] \in Entries
    <3>1. manifest \in Seq(Entries) /\ Len(manifest) = Len(Suite)
      BY <1>1 DEF StageInv, SuiteType, Prepared
    <3> QED BY <3>1, SuiteFiles
  <2>2. frozen \in ScenarioFiles
    BY <1>2, <2>1 DEF Entries
  <2>3. \E S : frozen.actions \in Seq(S)
    BY <2>2 DEF ScenarioFiles
  <2> QED BY <2>3
<1>6. TraceClaims(case.trace, case.mode, frozen).readable
  BY <1>4 DEF CaseIntact
<1>7. Lawful(case.trace, frozen.actions)
  BY <1>3, <1>5, <1>6, LawfulTrace
<1> QED BY <1>2, <1>7

\* The gate takes no trace for evidence in which a gated call started before the
\* reviewer had approved that very action, or a call succeeded twice: whatever
\* the suite holds, however often it is written to, and however many edits are
\* made to the report by one who rewrites all that it derives from its traces.
THEOREM AcceptedTracesAreLawful == Spec => []AcceptedIsLawful
<1> DEFINE Inv == EvaluationInv /\ GradedInv /\ WrittenInv /\ TracesInv
<1>1. Init => Inv
  <2> SUFFICES ASSUME Init PROVE Inv
    OBVIOUS
  <2>1. /\ pc = "manifest" /\ trace = <<>> /\ DOMAIN <<>> = {}
        /\ \A m \in Modes : cases[m] = <<>>
    BY EmptySeq DEF Init
  <2>2. GradedInv /\ WrittenInv /\ TracesInv
    BY <2>1, NothingListed DEF GradedInv, WrittenInv, TracesInv
  <2> QED BY <2>2, EvaluationStart
<1>2. Inv /\ [Next]_vars => Inv'
  BY EvaluationStep, GradedStep, WrittenStep, TracesStep DEF EvaluationInv
<1>3. Inv => AcceptedIsLawful
  BY LawfulReport DEF EvaluationInv, AcceptedIsLawful
<1> QED BY <1>1, <1>2, <1>3, PTL DEF Spec

=============================================================================
