-------------------------- MODULE SurroundingsProofs --------------------------
(***************************************************************************)
(* Proofs about five parts around the runtime, which share no state: that  *)
(* the readers of a trace get it whole (TraceLog), that a settled page     *)
(* shows the selected run with its own trace (Dashboard), that what a live *)
(* activity shows is served (PortableShell), that the commands of the HTTP *)
(* service (ApiServices) are inside the lock of a run one at a time, whose *)
(* entry is in the table exactly while somebody uses it, evaluate one at a *)
(* time, and answer what they did, and that the loops of the graders       *)
(* compute what they are named for (MCGrading, the definitions by          *)
(* enumeration beside the loop) -- for any numbers of writers, readers,    *)
(* events, loads, commands, activities, connections, slots, servers,       *)
(* threads, runs and entries, and sequences of any length.                 *)
(***************************************************************************)
EXTENDS TraceLog, Dashboard, PortableShell, ApiServices, MCGrading,
        GradingProofs

-----------------------------------------------------------------------------
(* TraceLog *)

\* The numbers given out are those of the events; the open transaction goes on
\* from them.
LogInv ==
  /\ counter \in Nat /\ log = 1..counter
  /\ IsFiniteSet(batch)
  /\ batch = (counter + 1)..(counter + Cardinality(batch))
  /\ lock = NoWriter => batch = {}

\* What a reader q has loaded.
Pages(q) ==
  /\ q.after \in Nat /\ q.pages \in Nat /\ q.stored \in Nat
  /\ q.after <= counter /\ q.stored <= counter
  /\ q.loaded = 1..q.after
  /\ q.phase = "asking" =>
       /\ q.pages <= MaxPages
       /\ q.after = q.pages * PageSize
       /\ q.pages # 0 => q.after < counter
  /\ q.phase = "done" => q.after >= q.stored
  /\ q.phase = "too_large" => counter > MaxPages * PageSize

Phases == {"idle", "asking", "done", "too_large"}

Readings ==
  [phase : Phases, loaded : SUBSET Nat, after : Nat, pages : Nat, stored : Nat]

ReadersInv == reader \in [Readers -> Readings] /\ \A r \in Readers : Pages(reader[r])

WholeInv == LogInv /\ ReadersInv

-----------------------------------------------------------------------------

\* The page after a cursor, its last event and whether there are more.
LEMMA PageOf ==
  ASSUME counter \in Nat, log = 1..counter, NEW a \in 0..counter,
         NEW m, m = IF a + PageSize < counter THEN a + PageSize ELSE counter
  PROVE  /\ Page(a) = (a + 1)..m /\ Cardinality(Page(a)) = m - a
         /\ Cursor(a) = m
         /\ More(a) <=> m < counter
         /\ PortableMore(a) <=> m < counter
<1> USE TraceAssumption
<1>1. m \in a..counter /\ (m < counter => m = a + PageSize)
  OBVIOUS
<1>2. Newer(a) = (a + 1)..counter
  BY DEF Newer
<1>3. ASSUME NEW s \in (a + 1)..counter
      PROVE  Cardinality({q \in Newer(a) : q <= s}) = s - a
  <2>1. {q \in Newer(a) : q <= s} = (a + 1)..s
    BY <1>2
  <2>2. a + 1 \in Int /\ s \in Int /\ ~(a + 1 > s) /\ s - (a + 1) + 1 = s - a
    OBVIOUS
  <2>3. Cardinality((a + 1)..s) = s - a
    BY <2>2, FS_Interval
  <2>4. QED
    BY <2>1, <2>3
<1>4. Page(a) = (a + 1)..m
  <2>1. \A s \in (a + 1)..counter : s - a <= PageSize <=> s <= m
    OBVIOUS
  <2>2. Page(a) = {s \in (a + 1)..counter : s - a <= PageSize}
    BY <1>2, <1>3 DEF Page
  <2>3. QED
    BY <1>1, <2>1, <2>2
<1>5. Cardinality((a + 1)..m) = m - a /\ Cardinality((a + 1)..counter) = counter - a
      /\ Cardinality(1..counter) = counter
  <2>1. ASSUME NEW b \in Nat, NEW c \in Nat, b <= c
        PROVE  Cardinality((b + 1)..c) = c - b
    <3>1. /\ b + 1 \in Int /\ c \in Int /\ c - (b + 1) + 1 = c - b
          /\ b + 1 > c => c - b = 0
      BY <2>1
    <3>2. QED
      BY <3>1, FS_Interval
  <2>2. m \in Nat /\ a \in Nat /\ 0 \in Nat /\ 0 + 1 = 1 /\ counter - 0 = counter
        /\ a <= m /\ a <= counter /\ 0 <= counter
    BY <1>1
  <2>3. QED
    BY <2>1, <2>2
<1>6. Cursor(a) = m
  <2>1. m \in Page(a) \cup {a} /\ \A s \in Page(a) \cup {a} : s <= m
    BY <1>1, <1>4
  <2>2. \A c \in Page(a) \cup {a} :
          (\A s \in Page(a) \cup {a} : s <= c) => c = m
    BY <2>1, <1>1, <1>4
  <2>3. QED
    BY <2>1, <2>2 DEF Cursor
<1>7. More(a) <=> m < counter
  BY <1>1, <1>2, <1>5 DEF More
<1>8. PortableMore(a) <=> m < counter
  <2>1. m < counter => m \in (a + 1)..m
    BY <1>1
  <2>2. PortableMore(a) <=> (a + 1)..m # {} /\ m < counter
    BY <1>4, <1>5, <1>6 DEF PortableMore
  <2>3. QED
    BY <2>1, <2>2
<1>9. QED
  BY <1>4, <1>5, <1>6, <1>7, <1>8

\* Intervals that meet make one.
LEMMA Joined ==
  ASSUME NEW b \in Nat, NEW c \in Nat, b <= c
  PROVE  (1..b) \cup ((b + 1)..c) = 1..c
OBVIOUS

-----------------------------------------------------------------------------

\* Writers extend the numbers without a gap, or leave the trace as it was.
LEMMA WritersKeep ==
  ASSUME WholeInv, NEW w \in Writers, Allocate(w) \/ Commit(w) \/ Rollback(w)
  PROVE  WholeInv'
<1> USE TraceAssumption DEF WholeInv, LogInv
<1> DEFINE n == Cardinality(batch)
<1>1. n \in Nat /\ \A k \in Nat : {} = (k + 1)..(k + 0)
  BY FS_CardinalityType
<1>2. counter' \in Nat /\ counter <= counter' /\ UNCHANGED reader /\ LogInv'
  <2>1. CASE Allocate(w)
    <3>1. batch' = batch \cup {counter + n + 1}
      BY <2>1 DEF Allocate
    <3>2. counter + n + 1 \notin batch /\ batch' = (counter + 1)..(counter + n + 1)
      BY <3>1, <1>1
    <3>3. Cardinality(batch') = n + 1 /\ IsFiniteSet(batch')
      BY <3>1, <3>2, FS_AddElement
    <3>4. counter + Cardinality(batch') = counter + n + 1
      BY <3>3, <1>1
    <3>5. batch' = (counter + 1)..(counter + Cardinality(batch'))
      BY <3>2, <3>4
    <3>6. UNCHANGED <<counter, log, reader>> /\ lock' = w
      BY <2>1 DEF Allocate
    <3>7. counter' \in Nat /\ counter <= counter' /\ log' = 1..counter'
      BY <3>6
    <3>8. QED
      BY <3>3, <3>5, <3>6, <3>7
  <2>2. CASE Commit(w)
    <3>1. /\ counter' = counter + n /\ log' = log \cup batch
          /\ batch' = {} /\ lock' = NoWriter /\ UNCHANGED reader
      BY <2>2 DEF Commit
    <3>2. log' = 1..counter' /\ counter' \in Nat /\ counter <= counter'
      BY <3>1, <1>1
    <3>3. IsFiniteSet({}) /\ Cardinality({}) = 0
      BY FS_EmptySet
    <3>4. {} = (counter' + 1)..(counter' + 0)
      BY <3>2, <1>1
    <3>5. QED
      BY <3>1, <3>2, <3>3, <3>4
  <2>3. CASE Rollback(w)
    <3>1. /\ batch' = {} /\ lock' = NoWriter /\ UNCHANGED <<counter, log, reader>>
      BY <2>3 DEF Rollback
    <3>2. IsFiniteSet({}) /\ Cardinality({}) = 0
      BY FS_EmptySet
    <3>3. {} = (counter + 1)..(counter + 0)
      OBVIOUS
    <3>4. QED
      BY <3>1, <3>2, <3>3
  <2>4. QED
    BY <2>1, <2>2, <2>3
<1>3. ReadersInv'
  <2>1. MaxPages * PageSize \in Nat
    OBVIOUS
  <2>2. ASSUME NEW q, Pages(q) PROVE Pages(q)'
    BY <2>1, <2>2, <1>2 DEF Pages
  <2>3. QED
    BY <2>2, <1>2 DEF ReadersInv
<1>4. QED
  BY <1>2, <1>3

\* A reader takes the next events, all of them when it is done.
LEMMA ReadersKeep ==
  ASSUME WholeInv, NEW r \in Readers, Open(r) \/ TooLarge(r) \/ Fetch(r)
  PROVE  WholeInv'
<1> USE TraceAssumption DEF WholeInv, LogInv
<1> DEFINE q == reader[r]
<1> DEFINE a == q.after
<1>1. /\ UNCHANGED writerVars /\ q \in Readings /\ Pages(q)
  BY DEF ReadersInv, Open, TooLarge, Fetch
<1>2. ASSUME NEW new \in Readings, Pages(new), reader' = [reader EXCEPT ![r] = new]
      PROVE  WholeInv'
  <2>1. ASSUME NEW p, Pages(p) PROVE Pages(p)'
    BY <2>1, <1>1 DEF Pages, writerVars
  <2>2. reader' \in [Readers -> Readings] /\ \A s \in Readers : Pages(reader'[s])
    BY <1>2 DEF ReadersInv
  <2>3. ReadersInv'
    BY <2>1, <2>2 DEF ReadersInv
  <2>4. QED
    BY <1>1, <2>3 DEF writerVars
<1>3. CASE Open(r)
  <2> DEFINE new == [phase |-> "asking", loaded |-> {}, after |-> 0, pages |-> 0,
                     stored |-> counter]
  <2>1. reader' = [reader EXCEPT ![r] = new]
    BY <1>3 DEF Open, NewReader
  <2>2. new \in Readings
    BY DEF Readings, Phases
  <2>3. 0 * PageSize = 0 /\ 1..0 = {}
    OBVIOUS
  <2>4. Pages(new)
    BY <2>3 DEF Pages
  <2>5. QED
    BY <1>2, <2>1, <2>2, <2>4
<1>4. CASE TooLarge(r)
  <2> DEFINE new == [q EXCEPT !.phase = "too_large"]
  <2>1. reader' = [reader EXCEPT ![r] = new]
    BY <1>4 DEF TooLarge, Ends
  <2>2. new \in Readings
    BY <1>1 DEF Readings, Phases
  <2>3. q.phase = "asking" /\ q.pages = MaxPages
    BY <1>1, <1>4 DEF TooLarge, Pages
  <2>4. counter > MaxPages * PageSize
    BY <1>1, <2>3 DEF Pages
  <2>5. Pages(new)
    BY <1>1, <2>4 DEF Pages, Readings
  <2>6. QED
    BY <1>2, <2>1, <2>2, <2>5
<1>5. CASE Fetch(r)
  <2> DEFINE m == IF a + PageSize < counter THEN a + PageSize ELSE counter
  <2>1. /\ q.phase = "asking" /\ q.pages < MaxPages /\ q.pages \in Nat
        /\ a \in 0..counter /\ a = q.pages * PageSize /\ q.loaded = 1..a
        /\ q.stored \in Nat /\ q.stored <= counter
    BY <1>1, <1>5 DEF Fetch, Pages
  <2>2. /\ Page(a) = (a + 1)..m /\ Cardinality(Page(a)) = m - a /\ Cursor(a) = m
        /\ More(a) <=> m < counter
        /\ PortableMore(a) <=> m < counter
    BY <2>1, PageOf
  <2>3. m \in a..counter /\ (m < counter => m = a + PageSize /\ m \in (a + 1)..m)
    BY <2>1, SMTT(20)
  <2>4. PICK more \in {More(a), PortableMore(a)} :
          IF Valid(a, more)
          THEN reader' = [reader EXCEPT ![r] =
                 [phase |-> IF more THEN "asking" ELSE "done",
                  loaded |-> q.loaded \cup Page(a), after |-> Cursor(a),
                  pages |-> q.pages + 1, stored |-> q.stored]]
          ELSE Ends(r, "refused")
    BY <1>5 DEF Fetch
  <2>5. more <=> m < counter
    BY <2>2, <2>4
  <2>6. a + (m - a) = m
    BY <2>1, <2>3
  <2>7. Valid(a, more)
    BY <2>2, <2>3, <2>5, <2>6 DEF Valid
  <2> DEFINE new == [phase |-> IF more THEN "asking" ELSE "done",
                     loaded |-> 1..m, after |-> m, pages |-> q.pages + 1,
                     stored |-> q.stored]
  <2>8. q.loaded \cup Page(a) = 1..m
    <3>1. a \in Nat /\ m \in Nat /\ a <= m
      BY <2>1, <2>3
    <3>2. QED
      BY <3>1, <2>1, <2>2, Joined
  <2>9. reader' = [reader EXCEPT ![r] = new]
    BY <2>2, <2>4, <2>7, <2>8
  <2>10. new \in Readings
    <3>1. m \in Nat /\ q.pages + 1 \in Nat /\ q.stored \in Nat
      BY <2>1, <2>3, SMTT(20)
    <3>2. 1..m \in SUBSET Nat
      BY <3>1
    <3>3. (IF more THEN "asking" ELSE "done") \in Phases
      BY DEF Phases
    <3> HIDE DEF m, q
    <3>4. QED
      BY <3>1, <3>2, <3>3 DEF Readings
  <2>11. m < counter => m = (q.pages + 1) * PageSize
    BY <2>1, <2>3
  <2>12. Pages(new)
    <3>1. /\ m \in Nat /\ m <= counter /\ q.pages + 1 \in Nat
          /\ q.pages + 1 <= MaxPages
      <4>1. q.pages \in Nat /\ q.pages < MaxPages /\ MaxPages \in Nat
        BY <2>1, TraceAssumption
      <4>2. q.pages + 1 \in Nat /\ q.pages + 1 <= MaxPages
        <5> HIDE DEF q
        <5> QED
          BY <4>1
      <4>3. a \in 0..counter /\ counter \in Nat /\ m \in a..counter
        BY <2>1, <2>3, <1>1
      <4>4. m \in Nat /\ m <= counter
        <5> HIDE DEF m, q
        <5> QED
          BY <4>3
      <4>5. QED
        BY <4>2, <4>4
    <3>2. ~more => m = counter
      BY <2>3, <2>5
    <3> HIDE DEF m, q
    <3>3. QED
      BY <3>1, <3>2, <2>1, <2>5, <2>11 DEF Pages
  <2>13. QED
    BY <1>2, <2>9, <2>10, <2>12
<1>6. QED
  BY <1>3, <1>4, <1>5

\* No page is refused and no event is missed.
THEOREM Whole == TraceSpec => []TracesAreWhole
<1>1. TraceInit => WholeInv
  <2> SUFFICES ASSUME TraceInit PROVE WholeInv
    OBVIOUS
  <2>1. LogInv
    BY FS_EmptySet DEF TraceInit, LogInv
  <2>2. NewReader("idle", 0) \in Readings
    BY DEF NewReader, Readings, Phases
  <2>4. 1..0 = {}
    OBVIOUS
  <2>5. Pages(NewReader("idle", 0))
    BY <2>4 DEF NewReader, Pages, TraceInit
  <2>3. QED
    BY <2>1, <2>2, <2>5 DEF TraceInit, WholeInv, ReadersInv
<1>2. WholeInv /\ [TraceNext]_traceVars => WholeInv'
  <2>1. WholeInv /\ UNCHANGED traceVars => WholeInv'
    BY DEF WholeInv, LogInv, ReadersInv, Pages, traceVars, writerVars
  <2>2. QED
    BY <2>1, WritersKeep, ReadersKeep DEF TraceNext
<1>3. WholeInv => TracesAreWhole
  BY DEF WholeInv, ReadersInv, Pages, Readings, Phases, TracesAreWhole
<1>4. QED
  BY <1>1, <1>2, <1>3, PTL DEF TraceSpec

-----------------------------------------------------------------------------
(* Dashboard *)

\* A load that counts is one of the run the hook is at.
LoadsInv ==
  /\ loads \subseteq Loads /\ due \in BOOLEAN
  /\ \A l \in loads : l.current => l.run = active

\* The hook is at the selected run, unless its effect is still to come.
HookInv == ~due => active = selected

PageInv == LoadsInv /\ HookInv /\ SettledPageIsWhole

-----------------------------------------------------------------------------

\* After the effects only the new load counts.
LEMMA EffectsOutdate ==
  ASSUME LoadsInv, NEW r \in RunIds \cup {NoRun}, Effects(r)
  PROVE  /\ LoadsInv' /\ active' = r /\ due' = FALSE
         /\ r # NoRun => \E l \in loads' : l.current
<1>1. /\ due' = FALSE /\ active' = r
      /\ loads' = Outdated(loads) \cup
           (IF r = NoRun THEN {} ELSE {[run |-> r, current |-> TRUE]})
  BY DEF Effects
<1>2. \A x \in Outdated(loads) : x \in Loads /\ x.current = FALSE
  BY DEF Outdated, LoadsInv, Loads
<1>3. r # NoRun =>
        [run |-> r, current |-> TRUE] \in Loads /\ [run |-> r, current |-> TRUE] \in loads'
  BY <1>1 DEF Loads
<1>4. LoadsInv'
  <2>1. \A x \in loads' : x \in Outdated(loads)
                            \/ (r # NoRun /\ x = [run |-> r, current |-> TRUE])
    BY <1>1
  <2>2. loads' \subseteq Loads
    BY <2>1, <1>2, <1>3
  <2>3. ASSUME NEW x \in loads', x.current PROVE x.run = active'
    BY <2>1, <2>3, <1>1, <1>2
  <2>4. QED
    BY <1>1, <2>2, <2>3 DEF LoadsInv
<1>5. QED
  BY <1>1, <1>3, <1>4

\* A click selects a run, or none, and loads it.
LEMMA ClickKeeps ==
  ASSUME PageInv, NEW r \in RunIds \cup {NoRun}, SelectRun(r)
  PROVE  PageInv'
<1>1. CASE r = selected
  <2>1. UNCHANGED <<selected, detail, events, state, due, active, loads>>
    BY <1>1 DEF SelectRun
  <2>2. QED
    BY <2>1 DEF PageInv, LoadsInv, HookInv, SettledPageIsWhole
<1>2. CASE r # selected
  <2>1. selected' = r /\ Effects(r)
    BY <1>2 DEF SelectRun
  <2>2. QED
    BY <2>1, EffectsOutdate DEF PageInv, HookInv, SettledPageIsWhole
<1>3. QED
  BY <1>1, <1>2

\* An answer to a load counts when it is that of the selected run.
LEMMA LoadedKeeps ==
  ASSUME PageInv, NEW l \in loads, Loaded(l)
  PROVE  PageInv'
<1>1. /\ loads' = loads \ {l} /\ due' = due /\ active' = active
      /\ selected' = selected
  BY DEF Loaded
<1>2. LoadsInv' /\ HookInv'
  BY <1>1 DEF PageInv, LoadsInv, HookInv
<1>3. SettledPageIsWhole'
  <2>1. CASE ~l.current
    <3>1. UNCHANGED <<detail, events, state>>
      BY <2>1 DEF Loaded
    <3>2. (\E x \in loads : x.current) => \E x \in loads' : x.current
      BY <1>1, <2>1
    <3>3. QED
      BY <1>1, <3>1, <3>2 DEF PageInv, SettledPageIsWhole
  <2>2. CASE l.current
    <3>1. state' = "ready" => detail' = l.run /\ events' = l.run
      BY <2>2 DEF Loaded
    <3>2. l.run = active
      BY <2>2 DEF PageInv, LoadsInv
    <3>3. QED
      BY <1>1, <3>1, <3>2 DEF PageInv, HookInv, SettledPageIsWhole
  <2>3. QED
    BY <2>1, <2>2
<1>4. QED
  BY <1>2, <1>3 DEF PageInv

\* The answer to a command changes what is shown of the selected run only.
LEMMA AnswerKeeps ==
  ASSUME PageInv, NEW c \in commands, Respond(c)
  PROVE  PageInv'
<1> USE DEF PageInv
<1>1. loads' = loads /\ active' = active
  BY DEF Respond, Started, Accepted, Reloaded, Failed, Conflicted, hookVars
<1>2. CASE Started(c)
  <2>1. \/ due' = TRUE
        \/ due' = due /\ selected' = selected
    BY <1>2 DEF Started
  <2>2. UNCHANGED <<detail, events, state>>
    BY <1>2 DEF Started
  <2>3. QED
    BY <1>1, <2>1, <2>2 DEF LoadsInv, HookInv, SettledPageIsWhole
<1>3. CASE Accepted(c)
  <2>1. UNCHANGED <<selected, due, events, state>>
    BY <1>3 DEF Accepted
  <2>2. detail' = detail \/ detail' = selected
    BY <1>3 DEF Accepted, IsCurrent
  <2>3. QED
    BY <1>1, <2>1, <2>2 DEF LoadsInv, HookInv, SettledPageIsWhole
<1>4. CASE Reloaded(c)
  <2>1. UNCHANGED <<selected, due, detail, state>>
    BY <1>4 DEF Reloaded
  <2>2. events' = events \/ events' = active
    BY <1>4 DEF Reloaded
  <2>3. QED
    BY <1>1, <2>1, <2>2 DEF LoadsInv, HookInv, SettledPageIsWhole
<1>5. CASE Failed(c)
  BY <1>5 DEF Failed, hookVars, LoadsInv, HookInv, SettledPageIsWhole
<1>6. CASE Conflicted(c)
  <2>1. UNCHANGED <<selected, detail, events>>
    BY <1>6 DEF Conflicted
  <2>2. due' = TRUE \/ (due' = due /\ state' = state)
    BY <1>6 DEF Conflicted
  <2>3. QED
    BY <1>1, <2>1, <2>2 DEF LoadsInv, HookInv, SettledPageIsWhole
<1>7. QED
  BY <1>2, <1>3, <1>4, <1>5, <1>6 DEF Respond

-----------------------------------------------------------------------------

\* The runs known are runs, and so is the selected one.
KnownInv == known \subseteq RunIds /\ selected \in RunIds \cup {NoRun}

\* Runs become known by being listed or started.
LEMMA KnownStep == KnownInv /\ [PageNext]_pageVars => KnownInv'
<1> SUFFICES ASSUME KnownInv, [PageNext]_pageVars PROVE KnownInv'
  OBVIOUS
<1>1. CASE Effect \/ (\E l \in loads : Loaded(l)) \/ StartRun \/ Decide
           \/ UNCHANGED pageVars
  BY <1>1 DEF Effect, Loaded, StartRun, Decide, Give, pageVars, KnownInv
<1>2. CASE (\E r \in known : Choose(r)) \/ Leave
  BY <1>2 DEF Choose, Leave, SelectRun, KnownInv
<1>3. ASSUME NEW c \in commands, Respond(c) PROVE KnownInv'
  BY <1>3 DEF Respond, Started, Accepted, Reloaded, Failed, Conflicted, KnownInv
<1>4. QED
  BY <1>1, <1>2, <1>3 DEF PageNext

\* Every step preserves the invariant.
LEMMA PageStep == KnownInv /\ PageInv /\ [PageNext]_pageVars => PageInv'
<1> SUFFICES ASSUME KnownInv, PageInv, [PageNext]_pageVars PROVE PageInv'
  OBVIOUS
<1>1. ASSUME NEW r \in known, Choose(r) PROVE PageInv'
  BY <1>1, ClickKeeps DEF Choose, KnownInv, PageInv
<1>2. CASE Leave
  BY <1>2, ClickKeeps DEF Leave, PageInv
<1>3. CASE Effect
  <2>1. Effects(selected) /\ selected' = selected
    BY <1>3 DEF Effect
  <2>2. QED
    BY <2>1, EffectsOutdate DEF KnownInv, PageInv, HookInv, SettledPageIsWhole
<1>4. ASSUME NEW l \in loads, Loaded(l) PROVE PageInv'
  BY <1>4, LoadedKeeps
<1>5. CASE StartRun \/ Decide \/ UNCHANGED pageVars
  <2>1. UNCHANGED <<selected, hookVars>>
    BY <1>5 DEF StartRun, Decide, Give, pageVars
  <2>2. QED
    BY <2>1 DEF hookVars, PageInv, LoadsInv, HookInv, SettledPageIsWhole
<1>6. ASSUME NEW c \in commands, Respond(c) PROVE PageInv'
  BY <1>6, AnswerKeeps
<1>7. QED
  BY <1>1, <1>2, <1>3, <1>4, <1>5, <1>6 DEF PageNext

\* A settled page shows the selected run with its own trace.
THEOREM SettledIsWhole == PageSpec => []SettledPageIsWhole
<1>1. PageInit => KnownInv /\ PageInv
  BY DashboardAssumption
  DEF PageInit, KnownInv, PageInv, LoadsInv, HookInv, SettledPageIsWhole
<1>2. PageInv => SettledPageIsWhole
  BY DEF PageInv
<1>3. QED
  BY <1>1, <1>2, KnownStep, PageStep, PTL DEF PageSpec

-----------------------------------------------------------------------------
(* PortableShell *)

Alive == {a \in Activities : life[a] = "alive"}

ActivitiesType ==
  /\ life \in [Activities -> {"none", "alive", "destroyed"}]
  /\ task \in [Activities -> {"idle", "queued", "obtain", "posted"}]
  /\ ready \in [Activities -> Nat] /\ shown \in [Activities -> Nat]

\* The class counts the activities that live; only then may the session end.
CountInv == attached = Cardinality(Alive)

\* A live activity has obtained the server that runs, or none.
SessionInv ==
  /\ ActivitiesType
  /\ started \in 0..MaxServers /\ server \in 0..started /\ session = server
  /\ \A a \in Activities :
       /\ life[a] = "none" => task[a] = "idle" /\ ready[a] = 0 /\ shown[a] = 0
       /\ life[a] = "alive" =>
            ready[a] \in {0, server} /\ shown[a] \in {0, server}

SlotInv ==
  /\ handles \in [Connections -> 0..MaxServers] /\ slots \in [Servers -> Int]
  /\ \A s \in Servers : slots[s] + Cardinality(InUse(s)) = MaxSlots

ShellInv == CountInv /\ SessionInv /\ SlotInv

-----------------------------------------------------------------------------
(* The slots *)

\* A connection is accepted: it has the slot that the server has lost.
LEMMA AcceptKeepsSlots ==
  ASSUME SlotInv, SessionInv, NEW h \in Connections, Accept(h)
  PROVE  SlotInv'
<1> USE ShellAssumption
<1>1. /\ server \in Servers /\ handles[h] = 0
      /\ handles' = [handles EXCEPT ![h] = server]
      /\ slots' = [slots EXCEPT ![server] = @ - 1]
  BY DEF Accept, SessionInv, Servers
<1>2. /\ handles' \in [Connections -> 0..MaxServers]
      /\ slots' \in [Servers -> Int]
  BY <1>1 DEF SlotInv, Servers
<1>3. ASSUME NEW s \in Servers
      PROVE  slots'[s] + Cardinality(InUse(s)') = MaxSlots
  <2>1. IsFiniteSet(InUse(s))
    BY FS_Subset DEF InUse
  <2>2. Cardinality(InUse(s)) \in Nat /\ slots[s] \in Int
        /\ slots[s] + Cardinality(InUse(s)) = MaxSlots
    BY <2>1, FS_CardinalityType DEF SlotInv
  <2>3. CASE s = server
    <3>1. InUse(s)' = InUse(s) \cup {h} /\ h \notin InUse(s)
      BY <1>1, <2>3 DEF InUse, SlotInv, Servers
    <3>2. Cardinality(InUse(s)') = Cardinality(InUse(s)) + 1
      BY <3>1, <2>1, FS_AddElement
    <3>3. slots'[s] = slots[s] - 1
      BY <1>1, <2>3 DEF SlotInv
    <3>4. QED
      BY <3>2, <3>3, <2>2
  <2>4. CASE s # server
    <3>1. InUse(s)' = InUse(s)
      BY <1>1, <2>4 DEF InUse, SlotInv, Servers
    <3>2. slots'[s] = slots[s]
      BY <1>1, <2>4 DEF SlotInv
    <3>3. QED
      BY <3>1, <3>2, <2>2
  <2>5. QED
    BY <2>3, <2>4
<1>4. QED
  BY <1>2, <1>3 DEF SlotInv

\* A connection ends: its server, running or not, has the slot again.
LEMMA CloseKeepsSlots ==
  ASSUME SlotInv, NEW h \in Connections, Close(h)
  PROVE  SlotInv'
<1> USE ShellAssumption
<1>1. /\ handles[h] \in Servers
      /\ handles' = [handles EXCEPT ![h] = 0]
      /\ slots' = [slots EXCEPT ![handles[h]] = @ + 1]
  BY DEF Close, SlotInv, Servers
<1>2. /\ handles' \in [Connections -> 0..MaxServers]
      /\ slots' \in [Servers -> Int]
  BY <1>1 DEF SlotInv, Servers
<1>3. ASSUME NEW s \in Servers
      PROVE  slots'[s] + Cardinality(InUse(s)') = MaxSlots
  <2>1. IsFiniteSet(InUse(s))
    BY FS_Subset DEF InUse
  <2>2. Cardinality(InUse(s)) \in Nat /\ slots[s] \in Int
        /\ slots[s] + Cardinality(InUse(s)) = MaxSlots
    BY <2>1, FS_CardinalityType DEF SlotInv
  <2>3. CASE s = handles[h]
    <3>1. InUse(s)' = InUse(s) \ {h} /\ h \in InUse(s)
      BY <1>1, <2>3 DEF InUse, SlotInv, Servers
    <3>2. Cardinality(InUse(s)') = Cardinality(InUse(s)) - 1
      BY <3>1, <2>1, FS_RemoveElement
    <3>3. slots'[s] = slots[s] + 1
      BY <1>1, <2>3 DEF SlotInv
    <3>4. QED
      BY <3>2, <3>3, <2>2
  <2>4. CASE s # handles[h]
    <3>1. InUse(s)' = InUse(s)
      BY <1>1, <2>4 DEF InUse, SlotInv, Servers
    <3>2. slots'[s] = slots[s]
      BY <1>1, <2>4 DEF SlotInv
    <3>3. QED
      BY <3>1, <3>2, <2>2
  <2>5. QED
    BY <2>3, <2>4
<1>4. QED
  BY <1>2, <1>3 DEF SlotInv

-----------------------------------------------------------------------------
(* The activities and the session *)

\* Who is created is counted.
LEMMA CreateKeepsCount ==
  ASSUME CountInv, SessionInv, NEW a \in Activities, Create(a)
  PROVE  CountInv'
<1>1. IsFiniteSet(Alive)
  BY ShellAssumption, FS_Subset DEF Alive
<1>2. Alive' = Alive \cup {a} /\ a \notin Alive
  BY DEF Create, SessionInv, ActivitiesType, Alive
<1>3. Cardinality(Alive') = Cardinality(Alive) + 1
  BY <1>1, <1>2, FS_AddElement
<1>4. QED
  BY <1>3 DEF CountInv, Create

\* Who is destroyed is no longer counted.
LEMMA DestroyKeepsCount ==
  ASSUME CountInv, SessionInv, NEW a \in Activities, NEW f \in BOOLEAN,
         Destroy(a, f)
  PROVE  CountInv'
<1>1. IsFiniteSet(Alive)
  BY ShellAssumption, FS_Subset DEF Alive
<1>2. Alive' = Alive \ {a} /\ a \in Alive
  BY DEF Destroy, SessionInv, ActivitiesType, Alive
<1>3. Cardinality(Alive') = Cardinality(Alive) - 1
  BY <1>1, <1>2, FS_RemoveElement
<1>4. QED
  BY <1>3 DEF CountInv, Destroy

\* The session ends only when nobody lives who could show it.
LEMMA CleanUpKeepsSession ==
  ASSUME CountInv, SessionInv, CleanUp
  PROVE  SessionInv'
<1>1. CASE attached = 0 /\ session # 0
  <2>1. IsFiniteSet(Alive)
    BY ShellAssumption, FS_Subset DEF Alive
  <2>2. Alive = {}
    BY <1>1, <2>1, FS_EmptySet DEF CountInv
  <2>3. \A a \in Activities : life[a] # "alive"
    BY <2>2 DEF Alive
  <2>4. /\ session' = 0 /\ server' = 0 /\ started' = started
        /\ life' = life /\ task' = task /\ ready' = ready /\ shown' = shown
    BY <1>1 DEF CleanUp, activityVars
  <2>5. QED
    BY <2>3, <2>4, ShellAssumption DEF SessionInv, ActivitiesType
<1>2. CASE ~(attached = 0 /\ session # 0)
  BY <1>2 DEF CleanUp, activityVars, SessionInv, ActivitiesType
<1>3. QED
  BY <1>1, <1>2

\* A task obtains the session there is, or begins one while there is none.
LEMMA ObtainKeepsSession ==
  ASSUME SessionInv, NEW a \in Activities, Obtain(a)
  PROVE  SessionInv'
<1> USE ShellAssumption
<1>1. /\ life' = life /\ shown' = shown /\ life[a] # "none"
      /\ task' = [task EXCEPT ![a] = "posted"]
      /\ ready' = [ready EXCEPT ![a] = session']
  BY DEF Obtain, SessionInv
<1>2. /\ started' \in 0..MaxServers /\ server' \in 0..started'
      /\ session' = server' /\ (server # 0 => server' = server)
  <2>1. CASE session # 0
    BY <2>1 DEF Obtain, SessionInv
  <2>2. CASE session = 0
    <3>1. /\ started < MaxServers /\ started' = started + 1
          /\ server' = started + 1 /\ session' = server'
      BY <2>2 DEF Obtain, StartHost, SessionInv
    <3>2. QED
      BY <2>2, <3>1 DEF SessionInv
  <2>3. QED
    BY <2>1, <2>2
<1>3. ActivitiesType'
  <2>1. session' \in Nat
    BY <1>2
  <2>2. QED
    BY <1>1, <2>1 DEF SessionInv, ActivitiesType
<1>4. ASSUME NEW b \in Activities
      PROVE  /\ life'[b] = "none" =>
                  task'[b] = "idle" /\ ready'[b] = 0 /\ shown'[b] = 0
             /\ life'[b] = "alive" =>
                  ready'[b] \in {0, server'} /\ shown'[b] \in {0, server'}
  BY <1>1, <1>2 DEF SessionInv, ActivitiesType
<1>5. QED
  BY <1>2, <1>3, <1>4 DEF SessionInv

\* The steps of an activity hand on what it has obtained.
LEMMA ActivityKeepsSession ==
  ASSUME SessionInv, NEW a \in Activities, NEW f \in BOOLEAN,
         \/ Create(a) \/ Retry(a) \/ Show(a) \/ Destroy(a, f)
         \/ Begin(a) \/ ObtainFails(a)
  PROVE  SessionInv'
<1>1. session' = session /\ server' = server /\ started' = started
  BY DEF Create, Retry, Show, Destroy, Begin, ObtainFails, runtimeVars
<1>2. ActivitiesType'
  BY DEF SessionInv, ActivitiesType, Create, Retry, Show, Destroy, Begin,
         ObtainFails
<1>3. ASSUME NEW b \in Activities
      PROVE  /\ life'[b] = "none" =>
                  task'[b] = "idle" /\ ready'[b] = 0 /\ shown'[b] = 0
             /\ life'[b] = "alive" =>
                  ready'[b] \in {0, server} /\ shown'[b] \in {0, server}
  BY DEF SessionInv, ActivitiesType, Create, Retry, Show, Destroy, Begin,
         ObtainFails
<1>4. QED
  BY <1>1, <1>2, <1>3 DEF SessionInv

-----------------------------------------------------------------------------

\* Every step preserves the invariant.
LEMMA ShellStep == ShellInv /\ [ShellNext]_shellVars => ShellInv'
<1> SUFFICES ASSUME ShellInv, [ShellNext]_shellVars PROVE ShellInv'
  OBVIOUS
<1>1. CountInv /\ SessionInv /\ SlotInv
  BY DEF ShellInv
<1>2. ASSUME UNCHANGED hostVars PROVE SlotInv'
  BY <1>1, <1>2 DEF SlotInv, InUse, hostVars
<1>3. ASSUME life' = life, attached' = attached PROVE CountInv'
  BY <1>1, <1>3 DEF CountInv, Alive
<1>4. ASSUME UNCHANGED <<activityVars, runtimeVars>> PROVE SessionInv'
  BY <1>1, <1>4 DEF SessionInv, ActivitiesType, activityVars, runtimeVars
<1>5. ASSUME NEW a \in Activities, NEW f \in BOOLEAN,
             \/ Create(a) \/ Retry(a) \/ Show(a) \/ Destroy(a, f)
             \/ Begin(a) \/ ObtainFails(a)
      PROVE  ShellInv'
  <2>1. SessionInv'
    BY <1>1, <1>5, ActivityKeepsSession
  <2>2. SlotInv'
    BY <1>2, <1>5 DEF Create, Retry, Show, Destroy, Begin, ObtainFails
  <2>3. CountInv'
    <3>1. CASE Create(a) \/ Destroy(a, f)
      BY <3>1, <1>1, CreateKeepsCount, DestroyKeepsCount
    <3>2. CASE Retry(a) \/ Show(a) \/ Begin(a) \/ ObtainFails(a)
      BY <3>2, <1>3 DEF Retry, Show, Begin, ObtainFails, runtimeVars
    <3>3. QED
      BY <1>5, <3>1, <3>2
  <2>4. QED
    BY <2>1, <2>2, <2>3 DEF ShellInv
<1>6. ASSUME NEW a \in Activities, Obtain(a) PROVE ShellInv'
  BY <1>1, <1>2, <1>3, <1>6, ObtainKeepsSession DEF ShellInv, Obtain
<1>7. CASE CleanUp
  BY <1>1, <1>2, <1>3, <1>7, CleanUpKeepsSession DEF ShellInv, CleanUp, activityVars
<1>8. ASSUME NEW h \in Connections, Accept(h) \/ Close(h) PROVE ShellInv'
  <2>1. UNCHANGED <<activityVars, runtimeVars>>
    BY <1>8 DEF Accept, Close
  <2>2. SessionInv'
    BY <2>1, <1>4
  <2>3. CountInv'
    BY <2>1, <1>3 DEF activityVars, runtimeVars
  <2>4. SlotInv'
    BY <1>1, <1>8, AcceptKeepsSlots, CloseKeepsSlots
  <2>5. QED
    BY <2>2, <2>3, <2>4 DEF ShellInv
<1>9. CASE UNCHANGED shellVars
  BY <1>2, <1>3, <1>4, <1>9 DEF ShellInv, shellVars, activityVars, runtimeVars
<1>10. CASE ShellNext
  <2>1. TRUE \in BOOLEAN
    OBVIOUS
  <2>2. QED
    BY <1>5, <1>6, <1>7, <1>8, <1>10, <2>1 DEF ShellNext
<1>11. QED
  BY <1>9, <1>10

\* What a live activity shows is the server that runs, with all its slots.
THEOREM ShownIsServed == ShellSpec => []ShownServerRuns
<1>1. ShellInit => ShellInv
  <2> SUFFICES ASSUME ShellInit PROVE ShellInv
    OBVIOUS
  <2>1. Alive = {} /\ \A s \in Servers : InUse(s) = {}
    BY DEF ShellInit, Alive, InUse, Servers
  <2>2. CountInv
    BY <2>1, FS_EmptySet DEF CountInv, ShellInit
  <2>3. SessionInv
    BY ShellAssumption DEF SessionInv, ActivitiesType, ShellInit
  <2>4. SlotInv
    BY <2>1, FS_EmptySet, ShellAssumption DEF SlotInv, ShellInit
  <2>5. QED
    BY <2>2, <2>3, <2>4 DEF ShellInv
<1>2. ShellInv => ShownServerRuns
  <2> SUFFICES ASSUME ShellInv, NEW a \in Activities, life[a] = "alive",
                      shown[a] # 0
               PROVE  /\ server = shown[a]
                      /\ slots[server] + Cardinality(InUse(server)) = MaxSlots
    BY DEF ShownServerRuns
  <2>1. server = shown[a] /\ server \in Servers
    BY ShellAssumption DEF ShellInv, SessionInv, Servers
  <2>2. QED
    BY <2>1 DEF ShellInv, SlotInv
<1>3. QED
  BY <1>1, <1>2, ShellStep, PTL DEF ShellSpec

-----------------------------------------------------------------------------
(* ApiServices *)

\* Where a thread has nothing to do with a lock.
Outside ==
  {"idle", "enter", "left", "start", "count", "slot", "evaluating", "return"}

Counted == Registered \ {"drop"}

Guarded == {"look", "uncount", "drop"}

Places == Outside \cup Registered \cup {"look"}

UsersOf(e) == {t \in Threads : entry[t] = e /\ pc[t] \in Counted}

\* The locks a state is made of.
LocksType ==
  /\ locks \in [Runs -> Entries \cup {NoEntry}]
  /\ users \in [Entries -> Nat]
  /\ held \in [Entries -> Threads \cup {Nobody}]
  /\ guard \in Threads \cup {Nobody}
  /\ pc \in [Threads -> Places]
  /\ run \in [Threads -> Runs]
  /\ entry \in [Threads -> Entries \cup {NoEntry}]

\* The table is changed by the holder of the guard.
GuardIsHeld == \A t \in Threads : pc[t] \in Guarded => guard = t

\* A registered request has the entry of its run: it was not deleted.
EntryOfRun ==
  \A t \in Threads :
    IF pc[t] \in Registered
    THEN entry[t] \in Entries /\ locks[run[t]] = entry[t]
    ELSE entry[t] = NoEntry

\* Two runs never share an entry.
OwnEntry ==
  \A r, s \in Runs : locks[r] = locks[s] /\ locks[r] # NoEntry => r = s

\* Whoever is inside holds the lock of its entry.
LockIsHeld == \A t \in Threads : pc[t] = "inside" => held[entry[t]] = t

\* The count of an entry is the number of requests registered with it.
UsersCounted == \A e \in Entries : users[e] = Cardinality(UsersOf(e))

LocksInv ==
  /\ LocksType
  /\ GuardIsHeld
  /\ EntryOfRun
  /\ OwnEntry
  /\ LockIsHeld
  /\ UsersCounted
  /\ EntriesAreInUse

-----------------------------------------------------------------------------
(* The locks *)

\* The users of an entry are a finite set.
LEMMA UsersFinite ==
  ASSUME NEW e \in Entries
  PROVE  /\ IsFiniteSet(UsersOf(e))
         /\ Cardinality(UsersOf(e)) \in Nat
         /\ Cardinality(UsersOf(e)) = 0 <=> UsersOf(e) = {}
<1>1. IsFiniteSet(UsersOf(e))
  BY LocksAssumption, FS_Subset DEF UsersOf
<1>2. QED
  BY <1>1, FS_CardinalityType, FS_EmptySet

\* At the start nobody is registered.
LEMMA LocksStart == LocksInit => LocksInv
<1> SUFFICES ASSUME LocksInit PROVE LocksInv
  OBVIOUS
<1> USE LocksAssumption DEF LocksInit
<1>1. LocksType
  BY DEF LocksType, Places, Outside
<1>2. GuardIsHeld /\ EntryOfRun /\ OwnEntry /\ LockIsHeld /\ EntriesAreInUse
  BY DEF GuardIsHeld, EntryOfRun, OwnEntry, LockIsHeld, EntriesAreInUse,
         Guarded, Registered
<1>3. \A e \in Entries : UsersOf(e) = {}
  BY DEF UsersOf, Counted, Registered
<1>4. UsersCounted
  BY <1>3, FS_EmptySet DEF UsersCounted
<1>5. QED
  BY <1>1, <1>2, <1>4 DEF LocksInv

\* A step between two places outside the lock; the run may be chosen anew.
LEMMA OutsideKeepsLocks ==
  ASSUME LocksInv, NEW t \in Threads, NEW place \in Outside,
         pc[t] \in Outside, Goto(t, place), UNCHANGED tableVars,
         run' \in [Threads -> Runs],
         \A u \in Threads : u # t => run'[u] = run[u]
  PROVE  LocksInv'
<1> USE DEF LocksInv, Goto, tableVars
<1>1. /\ pc' \in [Threads -> Places] /\ pc'[t] = place
      /\ \A u \in Threads : u # t => pc'[u] = pc[u]
  BY DEF LocksType, Places
<1>2. LocksType'
  BY <1>1 DEF LocksType
<1>3. pc[t] \notin Registered \cup Guarded /\ place \notin Registered \cup Guarded
  BY DEF Outside, Registered, Guarded
<1>4. GuardIsHeld' /\ EntryOfRun' /\ OwnEntry'
  BY <1>1, <1>3 DEF GuardIsHeld, EntryOfRun, OwnEntry
<1>5. LockIsHeld'
  BY <1>1, <1>3 DEF LockIsHeld, Registered
<1>6. EntriesAreInUse'
  BY <1>1, <1>3 DEF EntriesAreInUse
<1>7. \A e \in Entries : UsersOf(e)' = UsersOf(e)
  BY <1>1, <1>3 DEF UsersOf, Counted
<1>8. UsersCounted'
  BY <1>7 DEF UsersCounted
<1>9. QED
  BY <1>2, <1>4, <1>5, <1>6, <1>8

\* Taking the guard changes no entry.
LEMMA TakeGuardKeepsLocks ==
  ASSUME LocksInv, NEW t \in Threads, TakeGuard(t)
  PROVE  LocksInv'
<1> USE DEF LocksInv, TakeGuard, Goto
<1> DEFINE place == IF pc[t] = "enter" THEN "look" ELSE "uncount"
<1>1. /\ pc' \in [Threads -> Places] /\ pc'[t] = place
      /\ \A u \in Threads : u # t => pc'[u] = pc[u]
  BY DEF LocksType, Places, Registered
<1>2. LocksType'
  BY <1>1 DEF LocksType
<1>3. \A u \in Threads : /\ pc'[u] \in Registered <=> pc[u] \in Registered
                         /\ pc'[u] \in Counted <=> pc[u] \in Counted
  BY <1>1 DEF Registered, Counted
<1>4. GuardIsHeld'
  BY <1>1, LocksAssumption DEF GuardIsHeld
<1>5. EntryOfRun' /\ OwnEntry'
  BY <1>3 DEF EntryOfRun, OwnEntry
<1>6. LockIsHeld'
  BY <1>1 DEF LockIsHeld
<1>7. EntriesAreInUse'
  BY <1>3 DEF EntriesAreInUse
<1>8. \A e \in Entries : UsersOf(e)' = UsersOf(e)
  BY <1>3 DEF UsersOf
<1>9. UsersCounted'
  BY <1>8 DEF UsersCounted
<1>10. QED
  BY <1>2, <1>4, <1>5, <1>6, <1>7, <1>9

\* A request joins the users of its run's entry, or makes one.
LEMMA RegisterKeepsLocks ==
  ASSUME LocksInv, NEW t \in Threads, Register(t)
  PROVE  LocksInv'
<1> USE DEF LocksInv
<1>1. PICK e \in Entries :
        /\ IF locks[run[t]] # NoEntry
           THEN e = locks[run[t]] /\ users' = [users EXCEPT ![e] = @ + 1]
           ELSE Unreferenced(e) /\ users' = [users EXCEPT ![e] = 1]
        /\ locks' = [locks EXCEPT ![run[t]] = e]
        /\ entry' = [entry EXCEPT ![t] = e]
  BY DEF Register
<1>2. /\ pc[t] = "look" /\ guard' = Nobody /\ held' = held /\ run' = run
      /\ pc' = [pc EXCEPT ![t] = "wait"]
  BY DEF Register, Goto
<1>3. /\ pc' \in [Threads -> Places] /\ pc'[t] = "wait"
      /\ \A u \in Threads : u # t => pc'[u] = pc[u]
  BY <1>2 DEF LocksType, Places, Registered
<1>4. LocksType'
  BY <1>1, <1>2, <1>3 DEF LocksType
<1>5. pc[t] \notin Registered /\ entry[t] = NoEntry /\ run[t] \in Runs
  BY <1>2 DEF EntryOfRun, Registered, LocksType
<1>6. /\ entry'[t] = e /\ locks'[run[t]] = e
      /\ \A u \in Threads : u # t => entry'[u] = entry[u]
      /\ \A r \in Runs : r # run[t] => locks'[r] = locks[r]
  BY <1>1, <1>5 DEF LocksType
<1>7. e # NoEntry
  BY LocksAssumption
<1>8. GuardIsHeld'
  BY <1>2, <1>3 DEF GuardIsHeld, Guarded
<1>9. EntryOfRun'
  <2> SUFFICES ASSUME NEW u \in Threads
               PROVE IF pc'[u] \in Registered
                     THEN entry'[u] \in Entries /\ locks'[run[u]] = entry'[u]
                     ELSE entry'[u] = NoEntry
    BY <1>2 DEF EntryOfRun
  <2>1. CASE u = t
    BY <2>1, <1>3, <1>6 DEF Registered
  <2>2. CASE u # t /\ run[u] # run[t]
    BY <2>2, <1>3, <1>6 DEF EntryOfRun, LocksType
  <2>3. CASE u # t /\ run[u] = run[t]
    BY <2>3, <1>1, <1>3, <1>6, LocksAssumption DEF EntryOfRun, LocksType
  <2>4. QED
    BY <2>1, <2>2, <2>3
<1>10. OwnEntry'
  BY <1>1, <1>6, <1>7 DEF OwnEntry, Unreferenced
<1>11. LockIsHeld'
  BY <1>2, <1>3, <1>6 DEF LockIsHeld
<1>12. EntriesAreInUse'
  <2> SUFFICES ASSUME NEW r \in Runs
               PROVE locks'[r] # NoEntry <=>
                       \E u \in Threads : run[u] = r /\ pc'[u] \in Registered
    BY <1>2 DEF EntriesAreInUse
  <2>1. CASE r = run[t]
    BY <2>1, <1>3, <1>6, <1>7 DEF Registered
  <2>2. CASE r # run[t]
    BY <2>2, <1>3, <1>6 DEF EntriesAreInUse
  <2>3. QED
    BY <2>1, <2>2
<1>13. UsersCounted'
  <2>1. \A f \in Entries : f # e => UsersOf(f)' = UsersOf(f)
    BY <1>3, <1>5, <1>6, LocksAssumption DEF UsersOf, Counted
  <2>2. UsersOf(e)' = UsersOf(e) \cup {t} /\ t \notin UsersOf(e)
    BY <1>3, <1>5, <1>6, <1>7 DEF UsersOf, Counted, Registered
  <2>3. Cardinality(UsersOf(e)') = Cardinality(UsersOf(e)) + 1
    BY <2>2, UsersFinite, FS_AddElement
  <2>4. users'[e] = users[e] + 1
    <3>1. CASE locks[run[t]] # NoEntry
      BY <3>1, <1>1 DEF LocksType
    <3>2. CASE locks[run[t]] = NoEntry
      <4>1. UsersOf(e) = {}
        BY <3>2, <1>1 DEF UsersOf, Unreferenced
      <4>2. users[e] = 0
        BY <4>1, FS_EmptySet DEF UsersCounted
      <4>3. QED
        BY <3>2, <4>2, <1>1 DEF LocksType
    <3>3. QED
      BY <3>1, <3>2
  <2>5. \A f \in Entries : f # e => users'[f] = users[f]
    BY <1>1 DEF LocksType
  <2>6. QED
    BY <2>1, <2>3, <2>4, <2>5 DEF UsersCounted
<1>14. QED
  BY <1>4, <1>8, <1>9, <1>10, <1>11, <1>12, <1>13

\* A request gets the lock of its entry, or gives it back.
LEMMA LockKeepsLocks ==
  ASSUME LocksInv, NEW t \in Threads, Enter(t) \/ Release(t)
  PROVE  LocksInv'
<1> USE DEF LocksInv, Enter, Release, Goto
<1>1. pc[t] \in {"wait", "inside"} /\ entry[t] \in Entries
  BY DEF EntryOfRun, Registered
<1>2. /\ pc' \in [Threads -> Places]
      /\ \A u \in Threads : u # t => pc'[u] = pc[u]
      /\ pc'[t] = IF pc[t] = "wait" THEN "inside" ELSE "leave"
  BY DEF LocksType, Places, Registered
<1>3. LocksType'
  BY <1>1, <1>2 DEF LocksType
<1>4. \A u \in Threads : /\ pc'[u] \in Registered <=> pc[u] \in Registered
                         /\ pc'[u] \in Counted <=> pc[u] \in Counted
                         /\ pc'[u] \in Guarded <=> pc[u] \in Guarded
  BY <1>1, <1>2 DEF Registered, Counted, Guarded
<1>5. GuardIsHeld' /\ EntryOfRun' /\ OwnEntry' /\ EntriesAreInUse'
  BY <1>4 DEF GuardIsHeld, EntryOfRun, OwnEntry, EntriesAreInUse
<1>6. LockIsHeld'
  <2> SUFFICES ASSUME NEW u \in Threads, pc'[u] = "inside"
               PROVE held'[entry[u]] = u
    BY DEF LockIsHeld
  <2>1. entry[u] \in Entries
    BY <1>4 DEF EntryOfRun, Registered
  <2>2. CASE u = t
    BY <2>2, <1>1, <1>2 DEF LocksType
  <2>3. CASE u # t
    <3>1. pc[u] = "inside" /\ held[entry[u]] = u
      BY <2>3, <1>2 DEF LockIsHeld
    <3>2. held[entry[t]] \in {Nobody, t}
      BY DEF LockIsHeld
    <3>3. entry[u] # entry[t]
      BY <3>1, <3>2, <2>3, LocksAssumption
    <3>4. QED
      BY <3>1, <3>3, <2>1 DEF LocksType
  <2>4. QED
    BY <2>2, <2>3
<1>7. \A e \in Entries : UsersOf(e)' = UsersOf(e)
  BY <1>4 DEF UsersOf
<1>8. UsersCounted'
  BY <1>7 DEF UsersCounted
<1>9. QED
  BY <1>3, <1>5, <1>6, <1>8

\* The leaving request is no longer counted, but still in the table.
LEMMA CountOutKeepsLocks ==
  ASSUME LocksInv, NEW t \in Threads, CountOut(t)
  PROVE  LocksInv'
<1> USE DEF LocksInv, CountOut, Goto
<1> DEFINE e == entry[t]
<1>1. e \in Entries
  BY DEF EntryOfRun, Registered
<1>2. /\ pc' \in [Threads -> Places] /\ pc'[t] = "drop"
      /\ \A u \in Threads : u # t => pc'[u] = pc[u]
  BY DEF LocksType, Places, Registered
<1>3. \A f \in Entries : f # e => UsersOf(f)' = UsersOf(f)
  BY <1>2 DEF UsersOf
<1>4. UsersOf(e)' = UsersOf(e) \ {t} /\ t \in UsersOf(e)
  BY <1>1, <1>2 DEF UsersOf, Counted, Registered
<1>5. Cardinality(UsersOf(e)') = Cardinality(UsersOf(e)) - 1
  BY <1>1, <1>4, UsersFinite, FS_RemoveElement
<1>6. users[e] = Cardinality(UsersOf(e)) /\ users[e] \in Nat /\ users[e] # 0
  BY <1>1, <1>4, UsersFinite DEF UsersCounted
<1>7. users'[e] = users[e] - 1 /\ \A f \in Entries : f # e => users'[f] = users[f]
  BY <1>1 DEF LocksType
<1>8. users' \in [Entries -> Nat]
  <2>1. users[e] - 1 \in Nat
    BY <1>6
  <2>2. QED
    BY <2>1, <1>1 DEF LocksType
<1>9. LocksType'
  BY <1>2, <1>8 DEF LocksType
<1>10. UsersCounted'
  BY <1>3, <1>5, <1>6, <1>7 DEF UsersCounted
<1>11. \A u \in Threads : pc'[u] \in Registered <=> pc[u] \in Registered
  BY <1>2 DEF Registered
<1>12. GuardIsHeld'
  BY <1>2 DEF GuardIsHeld, Guarded
<1>13. EntryOfRun' /\ OwnEntry' /\ EntriesAreInUse'
  BY <1>11 DEF EntryOfRun, OwnEntry, EntriesAreInUse
<1>14. LockIsHeld'
  BY <1>2 DEF LockIsHeld
<1>15. QED
  BY <1>9, <1>10, <1>12, <1>13, <1>14

\* The entry is deleted only when no other request has it.
LEMMA DropKeepsLocks ==
  ASSUME LocksInv, NEW t \in Threads, Drop(t)
  PROVE  LocksInv'
<1> USE DEF LocksInv, Goto
<1> DEFINE e == entry[t]
<1> DEFINE last == users[e] = 0
<1>1. /\ pc[t] = "drop" /\ guard' = Nobody /\ held' = held /\ run' = run
      /\ users' = users
      /\ entry' = [entry EXCEPT ![t] = NoEntry]
      /\ pc' = [pc EXCEPT ![t] = "left"]
  BY DEF Drop
<1>2. e \in Entries /\ locks[run[t]] = e /\ run[t] \in Runs
  BY <1>1 DEF EntryOfRun, Registered, LocksType
<1>3. locks' = IF last THEN [locks EXCEPT ![run[t]] = NoEntry] ELSE locks
  BY <1>2 DEF Drop
<1>4. /\ pc' \in [Threads -> Places] /\ pc'[t] = "left"
      /\ \A u \in Threads : u # t => pc'[u] = pc[u] /\ entry'[u] = entry[u]
      /\ entry'[t] = NoEntry
  BY <1>1 DEF LocksType, Places, Outside
<1>5. LocksType'
  BY <1>1, <1>3, <1>4 DEF LocksType
<1>6. \A u \in Threads : u # t => pc[u] \notin Guarded
  BY <1>1 DEF GuardIsHeld, Guarded
<1>7. GuardIsHeld'
  BY <1>4, <1>6 DEF GuardIsHeld, Guarded
<1>8. \A u \in Threads : u # t /\ pc[u] \in Registered => u \in UsersOf(entry[u])
  BY <1>6 DEF UsersOf, Counted, Guarded, Registered
<1>9. ASSUME NEW u \in Threads, u # t, pc[u] \in Registered, last
      PROVE  run[u] # run[t]
  <2> SUFFICES ASSUME run[u] = run[t] PROVE FALSE
    OBVIOUS
  <2>1. entry[u] = e
    BY <1>2, <1>9 DEF EntryOfRun
  <2>2. UsersOf(e) # {}
    BY <2>1, <1>8, <1>9
  <2>3. QED
    BY <2>2, <1>2, <1>9, UsersFinite DEF UsersCounted
<1>10. EntryOfRun'
  <2> SUFFICES ASSUME NEW u \in Threads
               PROVE IF pc'[u] \in Registered
                     THEN entry'[u] \in Entries /\ locks'[run[u]] = entry'[u]
                     ELSE entry'[u] = NoEntry
    BY <1>1 DEF EntryOfRun
  <2>1. CASE u = t
    BY <2>1, <1>4 DEF Registered
  <2>2. CASE u # t
    <3>1. run[u] \in Runs
      BY DEF LocksType
    <3>2. pc[u] \in Registered => locks'[run[u]] = locks[run[u]]
      BY <2>2, <3>1, <1>3, <1>9 DEF LocksType
    <3>3. QED
      BY <2>2, <3>2, <1>4 DEF EntryOfRun
  <2>3. QED
    BY <2>1, <2>2
<1>11. OwnEntry'
  BY <1>2, <1>3 DEF OwnEntry, LocksType
<1>12. LockIsHeld'
  BY <1>1, <1>4 DEF LockIsHeld
<1>13. \A f \in Entries : UsersOf(f)' = UsersOf(f)
  BY <1>1, <1>4, LocksAssumption DEF UsersOf, Counted, Registered
<1>14. UsersCounted'
  BY <1>1, <1>13 DEF UsersCounted
<1>15. EntriesAreInUse'
  <2> SUFFICES ASSUME NEW r \in Runs
               PROVE locks'[r] # NoEntry <=>
                       \E u \in Threads : run[u] = r /\ pc'[u] \in Registered
    BY <1>1 DEF EntriesAreInUse
  <2>1. CASE r # run[t]
    <3>1. locks'[r] = locks[r]
      BY <2>1, <1>3 DEF LocksType
    <3>2. (\E u \in Threads : run[u] = r /\ pc'[u] \in Registered)
            <=> \E u \in Threads : run[u] = r /\ pc[u] \in Registered
      BY <2>1, <1>4
    <3>3. QED
      BY <3>1, <3>2 DEF EntriesAreInUse
  <2>2. CASE r = run[t] /\ last
    <3>1. locks'[r] = NoEntry
      BY <2>2, <1>2, <1>3 DEF LocksType
    <3>2. ~ \E u \in Threads : run[u] = r /\ pc'[u] \in Registered
      BY <2>2, <1>4, <1>9 DEF Registered
    <3>3. QED
      BY <3>1, <3>2
  <2>3. CASE r = run[t] /\ ~last
    <3>1. locks'[r] = e /\ e # NoEntry
      BY <2>3, <1>2, <1>3, LocksAssumption
    <3>2. PICK u \in Threads : entry[u] = e /\ pc[u] \in Counted
      BY <2>3, <1>2, UsersFinite DEF UsersCounted, UsersOf
    <3>3. u # t /\ pc[u] \in Registered
      BY <3>2, <1>1 DEF Counted
    <3>4. run[u] \in Runs /\ locks[run[u]] = e
      BY <3>2, <3>3 DEF EntryOfRun, LocksType
    <3>5. run[u] = r
      BY <3>1, <3>4, <2>3, <1>2 DEF OwnEntry
    <3>6. QED
      BY <3>1, <3>3, <3>5, <1>4
  <2>4. QED
    BY <2>1, <2>2, <2>3
<1>16. QED
  BY <1>5, <1>7, <1>10, <1>11, <1>12, <1>14, <1>15

\* Every command of the service leaves the locks in order.
LEMMA LocksStep == LocksInv /\ [ServiceNext]_serviceVars => LocksInv'
<1> SUFFICES ASSUME LocksInv, [ServiceNext]_serviceVars PROVE LocksInv'
  OBVIOUS
<1>1. run \in [Threads -> Runs]
  BY DEF LocksInv, LocksType
<1>2. ASSUME UNCHANGED lockVars PROVE LocksInv'
  BY <1>2 DEF LocksInv, LocksType, GuardIsHeld, EntryOfRun, OwnEntry, LockIsHeld,
              UsersCounted, UsersOf, EntriesAreInUse, lockVars, tableVars
<1>3. ASSUME NEW t \in Threads, NEW r \in Runs, Command(t, r) PROVE LocksInv'
  <2>1. /\ pc[t] \in Outside /\ "enter" \in Outside /\ Goto(t, "enter")
        /\ UNCHANGED tableVars /\ run' = [run EXCEPT ![t] = r]
    BY <1>3 DEF Command, Hold, Outside
  <2>2. QED
    BY <2>1, <1>1, OutsideKeepsLocks
<1>4. ASSUME NEW t \in Threads, NEW r \in Runs, Start(t, r) PROVE LocksInv'
  <2>1. /\ pc[t] \in Outside /\ "start" \in Outside /\ Goto(t, "start")
        /\ UNCHANGED tableVars /\ run' = [run EXCEPT ![t] = r]
    BY <1>4 DEF Start, Outside
  <2>2. QED
    BY <2>1, <1>1, OutsideKeepsLocks
<1>5. ASSUME NEW t \in Threads, Evaluate(t) PROVE LocksInv'
  <2>1. /\ pc[t] \in Outside /\ "slot" \in Outside /\ Goto(t, "slot")
        /\ UNCHANGED <<tableVars, run>>
    BY <1>5 DEF Evaluate, Outside
  <2>2. QED
    BY <2>1, <1>1, OutsideKeepsLocks
<1>6. ASSUME NEW t \in Threads, Locking(t) PROVE LocksInv'
  BY <1>6, TakeGuardKeepsLocks, RegisterKeepsLocks, LockKeepsLocks,
     CountOutKeepsLocks, DropKeepsLocks DEF Locking
<1>7. ASSUME NEW t \in Threads, Claim(t) \/ RecordAttempt(t) \/ SaveRow(t)
      PROVE  LocksInv'
  BY <1>7, <1>2 DEF Claim, RecordAttempt, SaveRow
<1>8. ASSUME NEW t \in Threads, LoseClaim(t) \/ Done(t) \/ Conflict(t)
      PROVE  LocksInv'
  <2>1. CASE Release(t)
    BY <2>1, LockKeepsLocks
  <2>2. CASE ~Release(t)
    <3>1. /\ pc[t] \in Outside /\ "left" \in Outside /\ Goto(t, "left")
          /\ UNCHANGED <<tableVars, run>>
      BY <2>2, <1>8 DEF LoseClaim, Done, Conflict, Working, Outside
    <3>2. QED
      BY <3>1, <1>1, OutsideKeepsLocks
  <2>3. QED
    BY <2>1, <2>2
<1>9. ASSUME NEW t \in Threads,
             Fail(t) \/ Answer(t) \/ Acquire(t) \/ Evaluated(t) \/ ReturnSlot(t)
      PROVE  LocksInv'
  <2>1. PICK place \in {"idle", "count", "evaluating", "return"} : Goto(t, place)
    BY <1>9 DEF Fail, Answer, Acquire, Evaluated, ReturnSlot
  <2>2. pc[t] \in Outside /\ place \in Outside /\ UNCHANGED <<tableVars, run>>
    BY <1>9, <2>1 DEF Fail, Answer, Acquire, Evaluated, ReturnSlot, Outside
  <2>3. QED
    BY <2>1, <2>2, <1>1, OutsideKeepsLocks
<1>10. QED
  BY <1>2, <1>3, <1>4, <1>5, <1>6, <1>7, <1>8, <1>9 DEF ServiceNext, Serve, serviceVars

\* The locks are in order in every reachable state.
THEOREM Locks == ServiceSpec => []LocksInv
<1>1. ServiceInit => LocksInv
  BY LocksStart DEF ServiceInit
<1>2. QED
  BY <1>1, LocksStep, PTL DEF ServiceSpec

\* No two requests of the process are inside the lock of the same run.
THEOREM RunsAreSerial == ServiceSpec => []OneRequestPerRun
<1>1. LocksInv => OneRequestPerRun
  <2> SUFFICES ASSUME LocksInv, NEW t \in Threads, NEW u \in Threads,
                      pc[t] = "inside", pc[u] = "inside", run[t] = run[u]
               PROVE t = u
    BY DEF OneRequestPerRun
  <2>1. entry[t] = entry[u]
    BY DEF LocksInv, EntryOfRun, Registered
  <2>2. held[entry[t]] = t /\ held[entry[u]] = u
    BY DEF LocksInv, LockIsHeld
  <2>3. QED
    BY <2>1, <2>2
<1>2. QED
  BY <1>1, Locks, PTL

\* The table neither leaks an entry nor loses one somebody uses.
THEOREM TableIsInUse == ServiceSpec => []EntriesAreInUse
<1>1. LocksInv => EntriesAreInUse
  BY DEF LocksInv
<1>2. QED
  BY <1>1, Locks, PTL

-----------------------------------------------------------------------------
(* The evaluation slot *)

Evaluators == {t \in Threads : pc[t] \in {"evaluating", "return"}}

PermitInv == permits \in {0, 1} /\ OneEvaluation

\* Whoever has the slot is the only one; when it is free nobody has it.
LEMMA Sharing ==
  ASSUME PermitInv
  PROVE  /\ IsFiniteSet(Evaluators)
         /\ permits = 1 <=> Evaluators = {}
<1>1. IsFiniteSet(Evaluators)
  BY LocksAssumption, FS_Subset DEF Evaluators
<1>2. Cardinality(Evaluators) + permits = 1 /\ permits \in {0, 1}
  BY DEF PermitInv, OneEvaluation, Evaluators
<1>3. Cardinality(Evaluators) \in Nat /\ (Cardinality(Evaluators) = 0 <=> Evaluators = {})
  BY <1>1, FS_CardinalityType, FS_EmptySet
<1>4. QED
  BY <1>1, <1>2, <1>3

\* The slot is taken by one evaluation and given back once.
LEMMA PermitStep == LocksInv /\ PermitInv /\ [ServiceNext]_serviceVars => PermitInv'
<1> SUFFICES ASSUME LocksInv, PermitInv, [ServiceNext]_serviceVars PROVE PermitInv'
  OBVIOUS
<1>1. pc \in [Threads -> Places]
  BY DEF LocksInv, LocksType
<1>2. Cardinality(Evaluators) + permits = 1 /\ permits \in {0, 1}
  BY DEF PermitInv, OneEvaluation, Evaluators
<1>3. ASSUME Evaluators' = Evaluators, permits' = permits PROVE PermitInv'
  BY <1>2, <1>3 DEF PermitInv, OneEvaluation, Evaluators
<1>4. ASSUME NEW t \in Threads, NEW place, pc[t] \notin {"evaluating", "return"},
             place \notin {"evaluating", "return"}, Goto(t, place)
      PROVE  Evaluators' = Evaluators
  BY <1>1, <1>4 DEF Evaluators, Goto
<1>5. ASSUME NEW t \in Threads,
             Evaluate(t) \/ Fail(t) \/ Answer(t)
               \/ \E r \in Runs : Command(t, r) \/ Start(t, r)
      PROVE  PermitInv'
  <2>1. /\ pc[t] \notin {"evaluating", "return"} /\ permits' = permits
        /\ \E place \in {"enter", "start", "slot", "count", "idle"} : Goto(t, place)
    BY <1>5 DEF Command, Hold, Start, Evaluate, Asked, Fail, Answer
  <2>2. QED
    BY <2>1, <1>3, <1>4
<1>6. ASSUME NEW t \in Threads,
             Locking(t) \/ LoseClaim(t) \/ Done(t) \/ Conflict(t)
      PROVE  PermitInv'
  <2>1. /\ pc[t] \notin {"evaluating", "return"} /\ permits' = permits
        /\ \E place \in {"look", "uncount", "wait", "inside", "leave", "drop", "left"} :
             Goto(t, place)
    BY <1>6 DEF Locking, TakeGuard, Register, Enter, CountOut, Drop, LoseClaim,
                Done, Working, Conflict, Release
  <2>2. QED
    BY <2>1, <1>3, <1>4
<1>7. ASSUME NEW t \in Threads, Claim(t) \/ RecordAttempt(t) \/ SaveRow(t)
      PROVE  PermitInv'
  BY <1>7, <1>3 DEF Claim, RecordAttempt, SaveRow, lockVars, Evaluators
<1>8. ASSUME NEW t \in Threads, Acquire(t) PROVE PermitInv'
  <2>1. CASE permits = 0
    BY <2>1, <1>2, <1>3, <1>4, <1>8 DEF Acquire
  <2>2. CASE permits = 1
    <3>1. permits' = 0 /\ Goto(t, "evaluating")
      BY <2>2, <1>8 DEF Acquire
    <3>2. Evaluators = {} /\ Evaluators' = {t}
      BY <3>1, <2>2, <1>1, Sharing DEF Evaluators, Goto
    <3>3. Cardinality(Evaluators') = 1
      BY <3>2, FS_Singleton
    <3>4. QED
      BY <3>1, <3>3 DEF PermitInv, OneEvaluation, Evaluators
  <2>3. QED
    BY <1>2, <2>1, <2>2
<1>9. ASSUME NEW t \in Threads, Evaluated(t) PROVE PermitInv'
  <2>1. Evaluators' = Evaluators /\ permits' = permits
    BY <1>9, <1>1 DEF Evaluated, Evaluators, Goto
  <2>2. QED
    BY <2>1, <1>3
<1>10. ASSUME NEW t \in Threads, ReturnSlot(t) PROVE PermitInv'
  <2>1. t \in Evaluators /\ Goto(t, "idle")
    BY <1>10 DEF ReturnSlot, Evaluators
  <2>2. permits = 0 /\ permits' = 1
    BY <2>1, <1>2, <1>10, Sharing DEF ReturnSlot
  <2>3. Evaluators' = Evaluators \ {t}
    BY <2>1, <1>1 DEF Evaluators, Goto
  <2>4. Cardinality(Evaluators') = Cardinality(Evaluators) - 1
    BY <2>1, <2>3, Sharing, FS_RemoveElement
  <2>5. Cardinality(Evaluators) \in Nat
    BY Sharing, FS_CardinalityType
  <2>6. Cardinality(Evaluators') = 0
    BY <1>2, <2>2, <2>4, <2>5
  <2>7. QED
    BY <2>2, <2>6 DEF PermitInv, OneEvaluation, Evaluators
<1>11. CASE UNCHANGED serviceVars
  BY <1>11, <1>3 DEF serviceVars, lockVars, Evaluators
<1>12. QED
  BY <1>5, <1>6, <1>7, <1>8, <1>9, <1>10, <1>11 DEF ServiceNext, Serve

\* One evaluation at a time, and the slot is never lost.
THEOREM EvaluationsAreSerial == ServiceSpec => []OneEvaluation
<1>1. ServiceInit => PermitInv
  <2> SUFFICES ASSUME ServiceInit PROVE PermitInv
    OBVIOUS
  <2>1. {t \in Threads : pc[t] \in {"evaluating", "return"}} = {}
    BY DEF ServiceInit, LocksInit
  <2>2. QED
    BY <2>1, FS_EmptySet DEF ServiceInit, PermitInv, OneEvaluation
<1>2. PermitInv => OneEvaluation
  BY DEF PermitInv
<1>3. QED
  BY <1>1, <1>2, PermitStep, Locks, PTL DEF ServiceSpec

-----------------------------------------------------------------------------
(* The answers *)

Rows == [saves : Nat, attempts : Nat]

RequestKinds == {"none", "command", "start", "evaluate", "answer", "error"}

AnswersType ==
  /\ kind \in [Threads -> RequestKinds]
  /\ attempts \in [Runs -> Nat]
  /\ row \in [Runs -> Rows]
  /\ own \in [Threads -> Rows]
  /\ read \in [Threads -> [row : Rows, attempts : Nat]]

\* A row was saved with attempts that are recorded.
RowsAreRecorded == \A r \in Runs : row[r].attempts <= attempts[r]

\* Rows only grow, so that a run is no older than what a command returned.
RowsCoverOwn ==
  \A t \in Threads : kind[t] = "answer" => own[t].saves <= row[run[t]].saves

\* Between the two queries: the row is read, the attempts are not.
RowIsRead ==
  \A t \in Threads :
    kind[t] = "answer" /\ pc[t] = "count" =>
      /\ own[t].saves <= read[t].row.saves
      /\ read[t].row.attempts <= attempts[run[t]]

EvaluatorsEvaluate ==
  \A t \in Threads :
    /\ pc[t] \in {"slot", "evaluating", "return"} => kind[t] = "evaluate"
    /\ pc[t] = "count" => kind[t] = "answer"

AnswersInv ==
  /\ AnswersType
  /\ RowsAreRecorded
  /\ RowsCoverOwn
  /\ RowIsRead
  /\ EvaluatorsEvaluate
  /\ AnswersCoverTheirRow

answerVars == <<kind, attempts, row, own, read>>

\* A step of one thread to a place where it is not answering.
LEMMA ElsewhereKeepsAnswers ==
  ASSUME LocksInv, AnswersInv, NEW t \in Threads, NEW place, Goto(t, place),
         UNCHANGED <<attempts, row, own, read>>,
         \A u \in Threads : u # t => kind'[u] = kind[u] /\ run'[u] = run[u],
         kind' \in [Threads -> RequestKinds],
         kind'[t] = "answer" =>
           /\ place # "idle" /\ place # "count"
           /\ own[t].saves <= row[run'[t]].saves,
         place # "count",
         place \in {"slot", "evaluating", "return"} => kind'[t] = "evaluate"
  PROVE  AnswersInv'
<1> USE DEF AnswersInv, Goto
<1>1. pc' \in [Threads -> Places \cup {place}] /\ pc'[t] = place
      /\ \A u \in Threads : u # t => pc'[u] = pc[u]
  BY DEF LocksInv, LocksType
<1>2. AnswersType' /\ RowsAreRecorded'
  BY DEF AnswersType, RowsAreRecorded
<1>3. RowsCoverOwn'
  BY DEF RowsCoverOwn
<1>4. RowIsRead'
  BY <1>1 DEF RowIsRead
<1>5. EvaluatorsEvaluate'
  BY <1>1 DEF EvaluatorsEvaluate
<1>6. AnswersCoverTheirRow'
  BY <1>1 DEF AnswersCoverTheirRow
<1>7. QED
  BY <1>2, <1>3, <1>4, <1>5, <1>6

\* A new request has no answer yet, and the row it may insert hides nothing.
LEMMA AskingKeepsAnswers ==
  ASSUME LocksInv, AnswersInv, NEW t \in Threads, NEW k \in RequestKinds \ {"answer"},
         Asked(t, k), NEW place \in {"enter", "start", "slot"}, Goto(t, place),
         place = "slot" => k = "evaluate",
         \A u \in Threads : u # t => run'[u] = run[u],
         attempts' = attempts, row' \in [Runs -> Rows],
         \A r \in Runs : /\ row'[r].attempts = row[r].attempts
                         /\ row[r].saves <= row'[r].saves
  PROVE  AnswersInv'
<1> USE DEF AnswersInv, Asked, Goto
<1>1. /\ pc'[t] = place /\ kind'[t] = k
      /\ \A u \in Threads : u # t => /\ pc'[u] = pc[u] /\ kind'[u] = kind[u]
                                     /\ own'[u] = own[u] /\ read'[u] = read[u]
  BY DEF LocksInv, LocksType, AnswersType
<1>2. NewRow \in Rows /\ NoAnswer \in [row : Rows, attempts : Nat]
  BY DEF NewRow, NoAnswer, Rows
<1>3. AnswersType'
  BY <1>2 DEF AnswersType
<1>4. RowsAreRecorded' /\ RowIsRead'
  BY <1>1 DEF RowsAreRecorded, RowIsRead
<1>5. RowsCoverOwn'
  <2> SUFFICES ASSUME NEW u \in Threads, kind'[u] = "answer"
               PROVE own'[u].saves <= row'[run'[u]].saves
    BY DEF RowsCoverOwn
  <2>1. /\ u # t /\ kind[u] = "answer" /\ own'[u] = own[u]
        /\ run'[u] = run[u] /\ run[u] \in Runs
    BY <1>1 DEF LocksInv, LocksType
  <2>2. own[u].saves <= row[run[u]].saves /\ row[run[u]].saves <= row'[run[u]].saves
    BY <2>1 DEF RowsCoverOwn
  <2>3. own[u].saves \in Nat /\ row[run[u]].saves \in Nat /\ row'[run[u]].saves \in Nat
    BY <2>1 DEF AnswersType, Rows
  <2>4. QED
    BY <2>1, <2>2, <2>3
<1>6. EvaluatorsEvaluate'
  BY <1>1 DEF EvaluatorsEvaluate
<1>7. AnswersCoverTheirRow'
  BY <1>1 DEF AnswersCoverTheirRow
<1>8. QED
  BY <1>3, <1>4, <1>5, <1>6, <1>7

\* The row that start inserts.
LEMMA InsertedRow ==
  ASSUME AnswersInv, NEW t \in Threads, NEW s \in Runs, Start(t, s)
  PROVE  /\ attempts' = attempts /\ row' \in [Runs -> Rows]
         /\ \A r \in Runs : /\ row'[r].attempts = row[r].attempts
                            /\ row[r].saves <= row'[r].saves
<1>1. attempts' = attempts /\ row[s].saves = 0 /\ row' = [row EXCEPT ![s].saves = 1]
  BY DEF Start
<1>2. row \in [Runs -> Rows]
  BY DEF AnswersInv, AnswersType
<1>3. row' \in [Runs -> Rows]
  BY <1>1, <1>2 DEF Rows
<1>4. ASSUME NEW r \in Runs
      PROVE  row'[r].attempts = row[r].attempts /\ row[r].saves <= row'[r].saves
  BY <1>1, <1>2, <1>4 DEF Rows
<1>5. QED
  BY <1>1, <1>3, <1>4

\* The run grows while others read it.
LEMMA WorkKeepsAnswers ==
  ASSUME LocksInv, AnswersInv, NEW t \in Threads, RecordAttempt(t) \/ SaveRow(t)
  PROVE  AnswersInv'
<1> USE DEF AnswersInv
<1> DEFINE r == run[t]
<1>1. r \in Runs
  BY DEF LocksInv, LocksType
<1>2. UNCHANGED <<lockVars, kind, own, read>>
  BY DEF RecordAttempt, SaveRow
<1>3. \A s \in Runs : /\ row[s] \in Rows /\ attempts[s] \in Nat
                      /\ row[s].saves \in Nat /\ row[s].attempts \in Nat
  BY DEF AnswersType, Rows
<1>4. /\ attempts' \in [Runs -> Nat]
      /\ row' \in [Runs -> Rows]
      /\ \A s \in Runs : /\ attempts[s] <= attempts'[s]
                         /\ row[s].saves <= row'[s].saves
                         /\ row'[s].attempts <= attempts'[s]
  <2>1. CASE RecordAttempt(t)
    BY <2>1, <1>1, <1>3 DEF RecordAttempt, AnswersType, RowsAreRecorded
  <2>2. CASE SaveRow(t)
    <3> DEFINE new == [saves |-> row[r].saves + 1, attempts |-> attempts[r]]
    <3>1. row' = [row EXCEPT ![r] = new] /\ attempts' = attempts
      BY <2>2 DEF SaveRow
    <3>2. new \in Rows /\ new.saves = row[r].saves + 1 /\ new.attempts = attempts[r]
      BY <1>1, <1>3 DEF Rows
    <3>3. /\ row' \in [Runs -> Rows] /\ row'[r] = new
          /\ \A s \in Runs : s # r => row'[s] = row[s]
      BY <3>1, <3>2, <1>1 DEF AnswersType
    <3> HIDE DEF new
    <3>4. QED
      BY <3>1, <3>2, <3>3, <1>1, <1>3 DEF AnswersType, RowsAreRecorded
  <2>3. QED
    BY <2>1, <2>2
<1>5. AnswersType' /\ RowsAreRecorded'
  BY <1>2, <1>4 DEF AnswersType, RowsAreRecorded
<1>6. \A u \in Threads : /\ run[u] \in Runs /\ run'[u] = run[u]
                         /\ own[u].saves \in Nat /\ read[u].row.attempts \in Nat
  BY <1>2 DEF LocksInv, LocksType, AnswersType, Rows, lockVars
<1>7. RowsCoverOwn'
  <2> SUFFICES ASSUME NEW u \in Threads, kind[u] = "answer"
               PROVE own[u].saves <= row'[run[u]].saves
    BY <1>2, <1>6 DEF RowsCoverOwn
  <2>1. own[u].saves <= row[run[u]].saves
    BY DEF RowsCoverOwn
  <2>2. row'[run[u]].saves \in Nat /\ row[run[u]].saves \in Nat
    BY <1>3, <1>4, <1>6 DEF Rows
  <2>3. QED
    BY <2>1, <2>2, <1>4, <1>6
<1>8. RowIsRead'
  <2> SUFFICES ASSUME NEW u \in Threads, kind[u] = "answer", pc[u] = "count"
               PROVE read[u].row.attempts <= attempts'[run[u]]
    BY <1>2, <1>6 DEF RowIsRead, lockVars
  <2>1. /\ read[u].row.attempts <= attempts[run[u]]
        /\ attempts[run[u]] <= attempts'[run[u]]
        /\ attempts[run[u]] \in Nat /\ attempts'[run[u]] \in Nat
    BY <1>3, <1>4, <1>6 DEF RowIsRead
  <2>2. QED
    BY <2>1, <1>6
<1>9. EvaluatorsEvaluate' /\ AnswersCoverTheirRow'
  BY <1>2 DEF EvaluatorsEvaluate, AnswersCoverTheirRow, lockVars
<1>10. QED
  BY <1>5, <1>7, <1>8, <1>9

\* What a command returns is the row as it stands.
LEMMA OutcomeKeepsAnswers ==
  ASSUME LocksInv, AnswersInv, NEW t \in Threads, Outcome(t),
         NEW place \in {"leave", "left"}, Goto(t, place),
         UNCHANGED <<attempts, row, read, run>>
  PROVE  AnswersInv'
<1> USE DEF AnswersInv
<1>1. /\ pc'[t] = place
      /\ \A u \in Threads : u # t => pc'[u] = pc[u]
  BY DEF LocksInv, LocksType, Goto
<1>2. /\ kind' \in [Threads -> RequestKinds] /\ own' \in [Threads -> Rows]
      /\ kind'[t] = "answer" => own'[t] = row[run[t]]
      /\ \A u \in Threads : u # t => kind'[u] = kind[u] /\ own'[u] = own[u]
  BY DEF Outcome, RequestKinds, AnswersType, LocksInv, LocksType
<1>3. AnswersType' /\ RowsAreRecorded'
  BY <1>2 DEF AnswersType, RowsAreRecorded
<1>4. row[run[t]].saves <= row[run[t]].saves
  BY DEF AnswersType, LocksInv, LocksType, Rows
<1>5. RowsCoverOwn'
  BY <1>2, <1>4 DEF RowsCoverOwn
<1>6. RowIsRead' /\ EvaluatorsEvaluate' /\ AnswersCoverTheirRow'
  BY <1>1, <1>2 DEF RowIsRead, EvaluatorsEvaluate, AnswersCoverTheirRow
<1>7. QED
  BY <1>3, <1>5, <1>6

\* The row is read first, so the attempts cover it.
LEMMA AnswerKeepsAnswers ==
  ASSUME LocksInv, AnswersInv, NEW t \in Threads, Answer(t)
  PROVE  AnswersInv'
<1> USE DEF AnswersInv, Goto, runVars
<1>1. /\ UNCHANGED <<kind, attempts, row, own, run>>
      /\ \A u \in Threads : u # t => pc'[u] = pc[u] /\ read'[u] = read[u]
  BY DEF Answer, LocksInv, LocksType, AnswersType
<1>2. run[t] \in Runs /\ kind[t] = "answer"
  BY DEF Answer, EvaluatorsEvaluate, LocksInv, LocksType
<1>3. own[t].saves <= row[run[t]].saves /\ row[run[t]].attempts <= attempts[run[t]]
  BY <1>2 DEF RowsCoverOwn, RowsAreRecorded
<1>4. RowsAreRecorded' /\ RowsCoverOwn'
  BY <1>1 DEF RowsAreRecorded, RowsCoverOwn
<1>5. CASE pc[t] = "left"
  <2>1. pc'[t] = "count" /\ read' = [read EXCEPT ![t].row = row[run[t]]]
    BY <1>5 DEF Answer, LocksInv, LocksType
  <2>2. /\ read' \in [Threads -> [row : Rows, attempts : Nat]]
        /\ read'[t].row = row[run[t]]
    BY <2>1, <1>2 DEF AnswersType
  <2>3. AnswersType'
    BY <1>1, <2>2 DEF AnswersType
  <2>4. RowIsRead' /\ EvaluatorsEvaluate' /\ AnswersCoverTheirRow'
    BY <1>1, <1>2, <1>3, <2>1, <2>2
       DEF RowIsRead, EvaluatorsEvaluate, AnswersCoverTheirRow
  <2>5. QED
    BY <1>4, <2>3, <2>4
<1>6. CASE pc[t] = "count"
  <2>1. pc'[t] = "idle" /\ read' = [read EXCEPT ![t].attempts = attempts[run[t]]]
    BY <1>6 DEF Answer, LocksInv, LocksType
  <2>2. /\ read' \in [Threads -> [row : Rows, attempts : Nat]]
        /\ read'[t].row = read[t].row /\ read'[t].attempts = attempts[run[t]]
    BY <2>1, <1>2 DEF AnswersType
  <2>3. /\ own[t].saves <= read[t].row.saves
        /\ read[t].row.attempts <= attempts[run[t]]
    BY <1>2, <1>6 DEF RowIsRead
  <2>4. own[t].saves \in Nat /\ read[t].row.saves \in Nat
        /\ read[t].row.attempts \in Nat /\ attempts[run[t]] \in Nat
    BY <1>2 DEF AnswersType, Rows
  <2>5. AnswersType'
    BY <1>1, <2>2 DEF AnswersType
  <2>6. RowIsRead' /\ EvaluatorsEvaluate'
    BY <1>1, <2>1 DEF RowIsRead, EvaluatorsEvaluate
  <2>7. AnswersCoverTheirRow'
    BY <1>1, <2>1, <2>2, <2>3, <2>4 DEF AnswersCoverTheirRow
  <2>8. QED
    BY <1>4, <2>5, <2>6, <2>7
<1>7. QED
  BY <1>5, <1>6 DEF Answer

\* Every step of the service keeps the answers covered.
LEMMA AnswersStep == LocksInv /\ AnswersInv /\ [ServiceNext]_serviceVars => AnswersInv'
<1> SUFFICES ASSUME LocksInv, AnswersInv, [ServiceNext]_serviceVars PROVE AnswersInv'
  OBVIOUS
<1>1. /\ kind \in [Threads -> RequestKinds] /\ run \in [Threads -> Runs]
      /\ \A t \in Threads : kind[t] = "answer" => own[t].saves <= row[run[t]].saves
  BY DEF AnswersInv, AnswersType, RowsCoverOwn, LocksInv, LocksType
<1>2. /\ row \in [Runs -> Rows]
      /\ \A r \in Runs : row[r].saves <= row[r].saves
  BY DEF AnswersInv, AnswersType, Rows
<1>3. ASSUME UNCHANGED <<lockVars, kind, attempts, row, own, read>> PROVE AnswersInv'
  BY <1>3 DEF AnswersInv, AnswersType, RowsAreRecorded, RowsCoverOwn, RowIsRead,
              EvaluatorsEvaluate, AnswersCoverTheirRow, lockVars
<1>4. ASSUME NEW t \in Threads, NEW s \in Runs, Command(t, s) \/ Start(t, s)
      PROVE  AnswersInv'
  <2>1. PICK place \in {"enter", "start"}, k \in {"command", "start"} :
          Goto(t, place) /\ Asked(t, k) /\ run' = [run EXCEPT ![t] = s]
    BY <1>4 DEF Command, Hold, Start
  <2>2. /\ k \in RequestKinds \ {"answer"}
        /\ place \in {"enter", "start", "slot"} /\ place # "slot"
    BY DEF RequestKinds
  <2>3. \A u \in Threads : u # t => run'[u] = run[u]
    BY <2>1, <1>1
  <2>4. /\ attempts' = attempts /\ row' \in [Runs -> Rows]
        /\ \A r \in Runs : /\ row'[r].attempts = row[r].attempts
                           /\ row[r].saves <= row'[r].saves
    <3>1. CASE Command(t, s)
      BY <3>1, <1>2 DEF Command, runVars
    <3>2. CASE Start(t, s)
      BY <3>2, InsertedRow
    <3>3. QED
      BY <1>4, <3>1, <3>2
  <2>5. QED
    BY <2>1, <2>2, <2>3, <2>4, AskingKeepsAnswers
<1>5. ASSUME NEW t \in Threads, Evaluate(t) PROVE AnswersInv'
  <2>1. /\ Goto(t, "slot") /\ Asked(t, "evaluate") /\ run' = run
        /\ "evaluate" \in RequestKinds \ {"answer"}
        /\ UNCHANGED <<attempts, row>>
    BY <1>5 DEF Evaluate, RequestKinds, runVars
  <2>2. QED
    BY <2>1, <1>2, AskingKeepsAnswers
<1>6. ASSUME NEW t \in Threads, Locking(t) PROVE AnswersInv'
  <2>1. PICK place \in {"look", "uncount", "wait", "inside", "drop", "left"} :
          Goto(t, place)
    BY <1>6 DEF Locking, TakeGuard, Register, Enter, CountOut, Drop
  <2>2. UNCHANGED <<kind, attempts, row, own, read, run>>
    BY <1>6 DEF Locking, TakeGuard, Register, Enter, CountOut, Drop, runVars
  <2>3. QED
    BY <2>1, <2>2, <1>1, ElsewhereKeepsAnswers
<1>7. ASSUME NEW t \in Threads, Claim(t) PROVE AnswersInv'
  BY <1>7, <1>3 DEF Claim
<1>9. ASSUME NEW t \in Threads, RecordAttempt(t) \/ SaveRow(t) PROVE AnswersInv'
  BY <1>9, WorkKeepsAnswers
<1>8. ASSUME NEW t \in Threads, LoseClaim(t) PROVE AnswersInv'
  <2>1. /\ Goto(t, "left") /\ kind' = [kind EXCEPT ![t] = "error"]
        /\ UNCHANGED <<attempts, row, own, read, run>>
    BY <1>8 DEF LoseClaim, runVars
  <2>2. /\ kind' \in [Threads -> RequestKinds] /\ kind'[t] # "answer"
        /\ \A u \in Threads : u # t => kind'[u] = kind[u]
    BY <2>1, <1>1 DEF RequestKinds
  <2>3. QED
    BY <2>1, <2>2, ElsewhereKeepsAnswers
<1>10. ASSUME NEW t \in Threads, Done(t) \/ Conflict(t) PROVE AnswersInv'
  <2>1. PICK place \in {"leave", "left"} : Goto(t, place)
    BY <1>10 DEF Done, Conflict, Release
  <2>2. Outcome(t) /\ UNCHANGED <<attempts, row, read, run>>
    BY <1>10 DEF Done, Conflict, Release, runVars
  <2>3. QED
    BY <2>1, <2>2, OutcomeKeepsAnswers
<1>11. ASSUME NEW t \in Threads,
             Fail(t) \/ Acquire(t) \/ Evaluated(t) \/ ReturnSlot(t)
      PROVE  AnswersInv'
  <2>1. PICK place \in {"idle", "evaluating", "return"} : Goto(t, place)
    BY <1>11 DEF Fail, Acquire, Evaluated, ReturnSlot
  <2>2. UNCHANGED <<kind, attempts, row, own, read, run>>
    BY <1>11 DEF Fail, Acquire, Evaluated, ReturnSlot, runVars
  <2>3. kind[t] # "answer" /\ (place \in {"evaluating", "return"} => kind[t] = "evaluate")
    BY <1>11, <2>1 DEF Fail, Acquire, Evaluated, ReturnSlot, AnswersInv,
                      EvaluatorsEvaluate, Goto, LocksInv, LocksType
  <2>4. QED
    BY <2>1, <2>2, <2>3, <1>1, ElsewhereKeepsAnswers
<1>12. ASSUME NEW t \in Threads, Answer(t) PROVE AnswersInv'
  BY <1>12, AnswerKeepsAnswers
<1>13. CASE UNCHANGED serviceVars
  BY <1>13, <1>3 DEF serviceVars, runVars
<1>14. QED
  BY <1>4, <1>5, <1>6, <1>7, <1>8, <1>9, <1>10, <1>11, <1>12, <1>13
     DEF ServiceNext, Serve

\* An answer is no older than its command and counts what its row had seen.
THEOREM AnswersCover == ServiceSpec => []AnswersCoverTheirRow
<1>1. ServiceInit => AnswersInv
  BY DEF ServiceInit, LocksInit, AnswersInv, AnswersType, RowsAreRecorded, RowsCoverOwn,
         RowIsRead, EvaluatorsEvaluate, AnswersCoverTheirRow, NewRow, NoAnswer,
         Rows, RequestKinds
<1>2. AnswersInv => AnswersCoverTheirRow
  BY DEF AnswersInv
<1>3. QED
  BY <1>1, <1>2, AnswersStep, Locks, PTL DEF ServiceSpec

-----------------------------------------------------------------------------
(* The graders *)

\* The items of seq at the positions p lists.
Picks(seq, p, n) == [k \in 1..n |-> seq[p[k]]]

LEMMA KeptRises ==
  ASSUME NEW S, NEW seq \in Seq(S), NEW keep \in SUBSET DOMAIN seq
  PROVE  \E p : /\ Rising(p, Cardinality(keep), Len(seq))
                /\ Kept(seq, keep) = Picks(seq, p, Cardinality(keep))
<1> DEFINE n == Cardinality(keep)
           m == Len(seq)
           position(k) == CHOOSE i \in keep : NumberRank(keep, i) = k
           p == [k \in 1..n |-> position(k)]
<1>1. m \in Nat /\ DOMAIN seq = 1..m
  OBVIOUS
<1>2. keep \in SUBSET Int /\ keep \in SUBSET (1..m) /\ IsFiniteSet(keep)
  <2>1. IsFiniteSet(1..m)
    <3> HIDE DEF m
    <3> QED BY <1>1, FS_Interval
  <2>2. keep \in SUBSET (1..m)
    BY <1>1
  <2> QED BY <2>1, <2>2, FS_Subset
<1>3. n \in Nat
  BY <1>2, FS_CardinalityType
<1>4. \A k \in 1..n : position(k) \in keep /\ NumberRank(keep, position(k)) = k
  <2>1. \A k \in 1..n : \E i \in keep : NumberRank(keep, i) = k
    BY <1>2, NumberRanks
  <2> QED BY <2>1
<1>5. Kept(seq, keep) = Picks(seq, p, n)
  <2>1. Kept(seq, keep) = [k \in 1..n |-> seq[position(k)]]
    BY DEF Kept, NumberRank
  <2> HIDE DEF n, position
  <2> QED BY <2>1 DEF Picks
<1> HIDE DEF position
<1>6. ASSUME NEW a \in 1..n, NEW b \in 1..n, a < b PROVE p[a] < p[b]
  <2> DEFINE i == position(a)
             j == position(b)
  <2>1. i \in keep /\ j \in keep /\ NumberRank(keep, i) = a /\ NumberRank(keep, j) = b
    BY <1>4
  <2>2. p[a] = i /\ p[b] = j
    OBVIOUS
  <2> HIDE DEF i, j, n
  <2>3. NumberRank(keep, j) <= NumberRank(keep, i) <=> j <= i
    BY <1>2, <2>1, NumberRanks
  <2>4. i \in Int /\ j \in Int /\ a \in Int /\ b \in Int
    BY <1>2, <1>3, <2>1
  <2> QED BY <2>1, <2>2, <2>3, <2>4, <1>6
<1>7. p \in [1..n -> 1..m]
  <2>1. \A k \in 1..n : position(k) \in 1..m
    BY <1>2, <1>4
  <2> QED BY <2>1
<1>8. Rising(p, n, m)
  BY <1>6, <1>7 DEF Rising
<1> QED BY <1>5, <1>8

LEMMA RisingIsKept ==
  ASSUME NEW S, NEW seq \in Seq(S), NEW n \in Nat, NEW p, Rising(p, n, Len(seq))
  PROVE  Picks(seq, p, n) \in Subsequences(seq)
<1> DEFINE m == Len(seq)
           keep == {p[k] : k \in 1..n}
           all == 1..n
<1>1. m \in Nat /\ DOMAIN seq = 1..m
  OBVIOUS
<1>2. \A k \in 1..n : p[k] \in 1..m /\ p[k] \in keep
  BY DEF Rising
<1>3. ASSUME NEW a \in 1..n, NEW b \in 1..n PROVE p[a] <= p[b] <=> a <= b
  <2>1. p[a] \in Int /\ p[b] \in Int
    BY <1>2
  <2>2. a < b => p[a] < p[b]
    BY DEF Rising
  <2>3. b < a => p[b] < p[a]
    BY DEF Rising
  <2> QED BY <2>1, <2>2, <2>3
<1>4. keep \in SUBSET DOMAIN seq
  BY <1>1, <1>2
<1>5. ASSUME NEW k \in 0..n
      PROVE  LET first == {p[i] : i \in 1..k}
             IN  IsFiniteSet(first) /\ Cardinality(first) = k
  <2> DEFINE first == {p[i] : i \in 1..k}
             nums == 1..k
             f == [i \in nums |-> p[i]]
  <2>1. IsFiniteSet(nums) /\ Cardinality(nums) = k
    BY FS_Interval
  <2>2. f \in [nums -> first] /\ \A x \in first : \E i \in nums : f[i] = x
    OBVIOUS
  <2>3. ASSUME NEW a \in nums, NEW b \in nums, f[a] = f[b] PROVE a = b
    <3>1. a \in 1..n /\ b \in 1..n /\ p[a] = p[b] /\ p[a] \in Int
      BY <2>3, <1>2
    <3>2. a <= b /\ b <= a
      BY <3>1, <1>3
    <3> QED BY <3>1, <3>2
  <2> HIDE DEF first, nums, f
  <2>4. f \in Surjection(nums, first) /\ f \in Injection(nums, first)
    BY <2>2, <2>3 DEF Surjection, Injection, IsInjective
  <2>5. IsFiniteSet(first) /\ Cardinality(first) = k
    BY <2>1, <2>4, FS_Surjection
  <2> QED BY <2>5 DEF first
<1>6. Cardinality(keep) = n
  BY <1>5
<1>7. \A k \in 1..n : Cardinality({j \in keep : j <= p[k]}) = k
  <2>1. ASSUME NEW k \in 1..n PROVE {j \in keep : j <= p[k]} = {p[i] : i \in 1..k}
    <3>1. \A i \in 1..k : i \in 1..n /\ i <= k
      OBVIOUS
    <3>2. \A i \in 1..n : i <= k => i \in 1..k
      OBVIOUS
    <3> QED BY <3>1, <3>2, <1>3
  <2>2. \A k \in 1..n : k \in 0..n
    OBVIOUS
  <2> HIDE DEF keep
  <2> QED BY <2>1, <2>2, <1>5
<1>8. ASSUME NEW k \in 1..n
      PROVE  (CHOOSE i \in keep : Cardinality({j \in keep : j <= i}) = k) = p[k]
  <2> DEFINE c == CHOOSE i \in keep : Cardinality({j \in keep : j <= i}) = k
  <2>1. \E i \in keep : Cardinality({j \in keep : j <= i}) = k
    BY <1>2, <1>7
  <2>2. c \in keep /\ Cardinality({j \in keep : j <= c}) = k
    <3> HIDE DEF keep
    <3> QED BY <2>1
  <2> HIDE DEF c
  <2>3. PICK i \in 1..n : c = p[i]
    BY <2>2
  <2>4. Cardinality({j \in keep : j <= p[i]}) = i
    BY <1>7
  <2>5. i = k
    BY <2>2, <2>3, <2>4
  <2> QED BY <2>3, <2>5 DEF c
<1>9. Kept(seq, keep) = Picks(seq, p, n)
  <2> DEFINE at(k) == CHOOSE i \in keep : Cardinality({j \in keep : j <= i}) = k
  <2>1. Kept(seq, keep) = [k \in 1..Cardinality(keep) |-> seq[at(k)]]
    BY DEF Kept
  <2>2. \A k \in 1..n : at(k) = p[k]
    BY <1>8
  <2> HIDE DEF keep, at
  <2> QED BY <2>1, <2>2, <1>6 DEF Picks
<1> QED BY <1>4, <1>9 DEF Subsequences

\* The longest common subsequence, by enumeration, has Longest items.
LEMMA LongestIsCommon ==
  ASSUME NEW S, NEW left \in Seq(S), NEW right \in Seq(S), NEW n,
         Longest(left, right, Len(left), Len(right), n)
  PROVE  Common(left, right) = n
<1> DEFINE lengths == {Len(s) : s \in Subsequences(left) \cap Subsequences(right)}
<1>1. n \in Nat
  BY DEF Longest
<1>2. ASSUME NEW m \in lengths PROVE m \in Nat /\ m <= n
  <2>1. PICK s \in Subsequences(left) \cap Subsequences(right) : m = Len(s)
    OBVIOUS
  <2>2. PICK a \in SUBSET DOMAIN left : s = Kept(left, a)
    BY <2>1 DEF Subsequences
  <2>3. PICK b \in SUBSET DOMAIN right : s = Kept(right, b)
    BY <2>1 DEF Subsequences
  <2>4. PICK p : /\ Rising(p, Cardinality(a), Len(left))
                 /\ s = Picks(left, p, Cardinality(a))
    BY <2>2, KeptRises
  <2>5. PICK q : /\ Rising(q, Cardinality(b), Len(right))
                 /\ s = Picks(right, q, Cardinality(b))
    BY <2>3, KeptRises
  <2>6. Cardinality(a) \in Nat /\ Cardinality(b) \in Nat
    <3>1. IsFiniteSet(DOMAIN left) /\ IsFiniteSet(DOMAIN right)
      <4> DEFINE l == Len(left)
                 r == Len(right)
      <4>1. l \in Nat /\ r \in Nat /\ DOMAIN left = 1..l /\ DOMAIN right = 1..r
        OBVIOUS
      <4> HIDE DEF l, r
      <4> QED BY <4>1, FS_Interval
    <3> QED BY <3>1, FS_Subset, FS_CardinalityType
  <2>7. Cardinality(a) = m /\ Cardinality(b) = m
    <3>1. Len(Picks(left, p, Cardinality(a))) = Cardinality(a)
          /\ Len(Picks(right, q, Cardinality(b))) = Cardinality(b)
      BY <2>6 DEF Picks
    <3> QED BY <3>1, <2>1, <2>4, <2>5
  <2>8. \A k \in 1..m : left[p[k]] = right[q[k]]
    <3>1. \A k \in 1..m : s[k] = left[p[k]] /\ s[k] = right[q[k]]
      BY <2>4, <2>5, <2>7 DEF Picks
    <3> QED BY <3>1
  <2>9. Shared(left, right, Len(left), Len(right), m)
    BY <2>4, <2>5, <2>7, <2>8 DEF Shared
  <2> QED BY <2>6, <2>7, <2>9 DEF Longest
<1>3. n \in lengths
  <2>1. PICK p, q : /\ Rising(p, n, Len(left)) /\ Rising(q, n, Len(right))
                    /\ \A k \in 1..n : left[p[k]] = right[q[k]]
    BY DEF Longest, Shared
  <2>2. Picks(left, p, n) = Picks(right, q, n)
    BY <2>1 DEF Picks
  <2>3. Picks(left, p, n) \in Subsequences(left) \cap Subsequences(right)
    BY <2>1, <2>2, <1>1, RisingIsKept
  <2>4. Len(Picks(left, p, n)) = n
    BY <1>1 DEF Picks
  <2> QED BY <2>3, <2>4
<1>4. Common(left, right) = CHOOSE x \in lengths : \A m \in lengths : m <= x
  BY DEF Common
<1> HIDE DEF lengths
<1> DEFINE c == CHOOSE x \in lengths : \A m \in lengths : m <= x
<1>5. \E x \in lengths : \A m \in lengths : m <= x
  BY <1>2, <1>3
<1>6. c \in lengths /\ \A m \in lengths : m <= c
  BY <1>5
<1>7. c \in Nat /\ c <= n /\ n <= c
  BY <1>2, <1>3, <1>6
<1> HIDE DEF c
<1>8. c = n
  BY <1>1, <1>7
<1> QED BY <1>4, <1>8 DEF c

LEMMA LongestOfPrefixes ==
  ASSUME NEW S, NEW left \in Seq(S), NEW right \in Seq(S),
         NEW i \in 0..Len(left), NEW j \in 0..Len(right), NEW n,
         Longest(left, right, i, j, n)
  PROVE  Common(SubSeq(left, 1, i), SubSeq(right, 1, j)) = n
<1> DEFINE l == SubSeq(left, 1, i)
           r == SubSeq(right, 1, j)
<1>1. /\ l \in Seq(S) /\ Len(l) = i /\ \A k \in 1..i : l[k] = left[k]
      /\ r \in Seq(S) /\ Len(r) = j /\ \A k \in 1..j : r[k] = right[k]
  OBVIOUS
<1> HIDE DEF l, r
<1>2. ASSUME NEW m \in Nat PROVE Shared(l, r, i, j, m) <=> Shared(left, right, i, j, m)
  <2>1. ASSUME NEW p, NEW q, Rising(p, m, i), Rising(q, m, j)
        PROVE  \A k \in 1..m : l[p[k]] = left[p[k]] /\ r[q[k]] = right[q[k]]
    BY <2>1, <1>1 DEF Rising
  <2>2. ASSUME Shared(l, r, i, j, m) PROVE Shared(left, right, i, j, m)
    <3>1. PICK p, q : /\ Rising(p, m, i) /\ Rising(q, m, j)
                      /\ \A k \in 1..m : l[p[k]] = r[q[k]]
      BY <2>2 DEF Shared
    <3>2. \A k \in 1..m : left[p[k]] = right[q[k]]
      BY <3>1, <2>1
    <3>3. \E pp, qq : /\ Rising(pp, m, i) /\ Rising(qq, m, j)
                      /\ \A k \in 1..m : left[pp[k]] = right[qq[k]]
      <4> WITNESS p, q
      <4> QED BY <3>1, <3>2
    <3> QED BY <3>3 DEF Shared
  <2>3. ASSUME Shared(left, right, i, j, m) PROVE Shared(l, r, i, j, m)
    <3>1. PICK p, q : /\ Rising(p, m, i) /\ Rising(q, m, j)
                      /\ \A k \in 1..m : left[p[k]] = right[q[k]]
      BY <2>3 DEF Shared
    <3>2. \A k \in 1..m : l[p[k]] = r[q[k]]
      BY <3>1, <2>1
    <3>3. \E pp, qq : /\ Rising(pp, m, i) /\ Rising(qq, m, j)
                      /\ \A k \in 1..m : l[pp[k]] = r[qq[k]]
      <4> WITNESS p, q
      <4> QED BY <3>1, <3>2
    <3> QED BY <3>3 DEF Shared
  <2> QED BY <2>2, <2>3
<1>3. Longest(l, r, i, j, n)
  BY <1>2 DEF Longest
<1> QED BY <1>1, <1>3, LongestIsCommon DEF l, r

\* The inputs, and how far the loop has come.
GradingInv ==
  /\ expected \in Seq(Items) /\ actual \in Seq(Items)
  /\ done \in 0..Len(expected)
  /\ \A j \in 0..Len(actual) : Longest(expected, actual, done, j, previous[j])

LEMMA InputsAreSequences ==
  ASSUME NEW s \in Inputs
  PROVE  s \in Seq(Items)
<1>1. PICK n \in 0..Bound : s \in [1..n -> Items]
  BY GradingAssumption DEF Inputs
<1> QED BY <1>1

LEMMA GradingInvHolds == GradingSpec => []GradingInv
<1>1. ASSUME GradingInit PROVE GradingInv
  <2>1. expected \in Seq(Items) /\ actual \in Seq(Items)
    BY <1>1, InputsAreSequences DEF GradingInit
  <2>2. done = 0 /\ \A j \in 0..Len(actual) : previous[j] = 0
    BY <1>1 DEF GradingInit
  <2>3. \A j \in 0..Len(actual) : Longest(expected, actual, 0, j, 0)
    BY LongestOfNone
  <2>4. 0 \in 0..Len(expected)
    BY <2>1
  <2> QED BY <2>1, <2>2, <2>3, <2>4 DEF GradingInv
<1>2. ASSUME GradingInv, [Loop]_gradingVars PROVE GradingInv'
  <2>1. CASE UNCHANGED gradingVars
    BY <2>1, <1>2 DEF GradingInv, gradingVars
  <2>2. CASE Loop
    <3>1. /\ done < Len(expected) /\ done' = done + 1
          /\ previous' = NextRow(expected[done + 1], actual, previous)
          /\ expected' = expected /\ actual' = actual
      BY <2>2 DEF Loop
    <3>2. /\ expected \in Seq(Items) /\ actual \in Seq(Items) /\ done \in Nat
          /\ \A j \in 0..Len(actual) : Longest(expected, actual, done, j, previous[j])
      BY <1>2 DEF GradingInv
    <3>3. \A j \in 0..Len(actual) : Longest(expected, actual, done + 1, j, previous'[j])
      BY <3>1, <3>2, NextRowIsLongest
    <3>4. done + 1 \in 0..Len(expected)
      BY <3>1, <3>2
    <3> QED BY <3>1, <3>2, <3>3, <3>4 DEF GradingInv
  <2> QED BY <1>2, <2>1, <2>2
<1> QED BY <1>1, <1>2, PTL DEF GradingSpec

\* The table of _lcs_length holds, after every pass, the longest common
\* subsequences, as enumeration finds them.
THEOREM LoopFindsLongest == GradingSpec => []RowIsLcs
<1>1. ASSUME GradingInv PROVE RowIsLcs
  <2> SUFFICES ASSUME NEW j \in 0..Len(actual)
               PROVE  previous[j] = Common(SubSeq(expected, 1, done), SubSeq(actual, 1, j))
    BY DEF RowIsLcs
  <2>1. Longest(expected, actual, done, j, previous[j])
    BY <1>1 DEF GradingInv
  <2> QED BY <2>1, <1>1, LongestOfPrefixes DEF GradingInv
<1> QED BY <1>1, GradingInvHolds, PTL

\* The rows of LcsRow are those of the loop.
LEMMA LcsLengthIsLongest ==
  ASSUME NEW S, NEW left \in Seq(S), NEW right \in Seq(S)
  PROVE  Longest(left, right, Len(left), Len(right), LcsLength(left, right))
<1> DEFINE m == Len(left)
           w == Len(right)
           Row == [0..w -> Nat]
           zero == [j \in 0..w |-> 0]
           step == [x \in (1..m) \X Row |-> NextRow(left[x[1]], right, x[2])]
           Tables(r) == r = [i \in 0..m |-> IF i = 0 THEN zero
                                          ELSE NextRow(left[i], right, r[i - 1])]
<1>1. m \in Nat /\ w \in Nat
  OBVIOUS
<1>2. zero \in Row
  BY <1>1
<1>3. ASSUME NEW item, NEW above \in Row PROVE NextRow(item, right, above) \in Row
  <2>1. Follows(NextRow(item, right, above), item, right, above)
    BY NextRowFollows
  <2> QED BY <2>1 DEF Follows
<1>4. step \in Steps(m, Row)
  BY <1>3 DEF Steps
<1>5. PICK r \in [0..m -> Row] :
        r[0] = zero /\ \A i \in 1..m : r[i] = step[<<i, r[i - 1]>>]
  <2> HIDE DEF step, m, zero, Row
  <2>1. \E r : Solves(r, m, Row, zero, step)
    BY <1>1, <1>2, <1>4, Recursion
  <2> QED BY <2>1 DEF Solves
<1>6. ASSUME NEW i \in 1..m PROVE r[i] = NextRow(left[i], right, r[i - 1])
  <2>1. i - 1 \in 0..m
    BY <1>1
  <2>2. <<i, r[i - 1]>> \in (1..m) \X Row
    BY <2>1, <1>5
  <2> QED BY <2>2, <1>5
<1>7. Tables(r)
  <2> HIDE DEF step, zero, Row
  <2>1. \A i \in 0..m : i = 0 \/ i \in 1..m
    BY <1>1
  <2> QED BY <1>5, <1>6, <2>1
<1> DEFINE t == CHOOSE x : Tables(x)
<1>8. Tables(t)
  BY <1>7
<1>9. LcsRow(left, right) = t[m]
  BY DEF LcsRow
<1> HIDE DEF t
<1>10. t[0] = zero /\ \A i \in 1..m : t[i] = NextRow(left[i], right, t[i - 1])
  <2> HIDE DEF zero
  <2> QED BY <1>1, <1>8
<1> DEFINE T == {i \in Nat : i <= m => \A j \in 0..w : Longest(left, right, i, j, t[i][j])}
<1>11. 0 \in T
  BY <1>10, LongestOfNone
<1>12. ASSUME NEW i \in Nat, i \in T PROVE i + 1 \in T
  <2> SUFFICES ASSUME i + 1 <= m
               PROVE  \A j \in 0..w : Longest(left, right, i + 1, j, t[i + 1][j])
    OBVIOUS
  <2>1. i + 1 \in 1..m /\ (i + 1) - 1 = i /\ \A j \in 0..w : Longest(left, right, i, j, t[i][j])
    BY <1>1, <1>12
  <2>2. t[i + 1] = NextRow(left[i + 1], right, t[i])
    BY <2>1, <1>10
  <2> DEFINE above == t[i]
  <2> HIDE DEF above
  <2>3. \A j \in 0..Len(right) : Longest(left, right, i, j, above[j])
    BY <2>1 DEF above
  <2>4. \A j \in 0..Len(right) : Longest(left, right, i + 1, j, NextRow(left[i + 1], right, above)[j])
    BY <2>3, NextRowIsLongest
  <2> QED BY <2>2, <2>4 DEF above
<1> HIDE DEF T
<1>13. Nat \subseteq T
  BY <1>11, <1>12, Induct
<1>14. Longest(left, right, m, w, t[m][w])
  BY <1>1, <1>13 DEF T
<1> QED BY <1>9, <1>14 DEF LcsLength

\* Enough, for the tools that may be called.
LEMMA EnoughOfItems ==
  ASSUME NEW e \in Seq(Items), NEW a \in Seq(Items), NEW drop \in SUBSET DOMAIN a
  PROVE  Enough(e, a, drop) <=>
           \A x \in Items :
             Cardinality({i \in DOMAIN a \ drop : a[i] = x}) <= Count(e, x)
<1>1. \A i \in DOMAIN a : a[i] \in Items
  OBVIOUS
<1>2. ASSUME Enough(e, a, drop), NEW x \in Items
      PROVE  Cardinality({i \in DOMAIN a \ drop : a[i] = x}) <= Count(e, x)
  <2>1. CASE \E i \in DOMAIN a : a[i] = x
    <3>1. PICK i \in DOMAIN a : a[i] = x
      BY <2>1
    <3> QED BY <3>1, <1>2 DEF Enough
  <2>2. CASE ~ \E i \in DOMAIN a : a[i] = x
    <3>1. {i \in DOMAIN a \ drop : a[i] = x} = {}
      BY <2>2
    <3>2. Cardinality({i \in DOMAIN a \ drop : a[i] = x}) = 0
      BY <3>1, FS_EmptySet
    <3> QED BY <3>2, CountsAreNumbers
  <2> QED BY <2>1, <2>2
<1> QED BY <1>1, <1>2 DEF Enough

\* The calls unnecessary_call_count counts are as few as one can take away, for
\* all that was expected and called, and none of them is a match.
THEOREM UnnecessaryCallsAreFewest == GradingSpec => []UnnecessaryIsFewest
<1>1. ASSUME GradingInv PROVE UnnecessaryIsFewest
  <2> DEFINE n == UnnecessaryCalls(expected, actual)
             enough == {drop \in SUBSET DOMAIN actual :
                          \A x \in Items :
                            Cardinality({i \in DOMAIN actual \ drop : actual[i] = x})
                              <= Count(expected, x)}
             sizes == {Cardinality(drop) : drop \in enough}
             c == CHOOSE k \in sizes : \A m \in sizes : k <= m
  <2>1. expected \in Seq(Items) /\ actual \in Seq(Items)
    BY <1>1 DEF GradingInv
  <2>2. \A drop \in SUBSET DOMAIN actual : drop \in enough <=> Enough(expected, actual, drop)
    BY <2>1, EnoughOfItems
  <2>3. \A drop : Enough(expected, actual, drop) => drop \in SUBSET DOMAIN actual
    BY DEF Enough
  <2>4. n \in sizes
    <3>1. PICK drop : /\ Enough(expected, actual, drop)
                      /\ Cardinality(drop) = n
      BY <2>1, FewestAreEnough
    <3>2. drop \in enough
      BY <3>1, <2>2, <2>3
    <3> QED BY <3>1, <3>2
  <2>5. ASSUME NEW k \in sizes PROVE n <= k /\ k \in Nat
    <3>1. PICK drop \in enough : k = Cardinality(drop)
      OBVIOUS
    <3>2. Enough(expected, actual, drop) /\ drop \in SUBSET DOMAIN actual
      BY <3>1, <2>2
    <3>3. IsFiniteSet(drop)
      <4> DEFINE m == Len(actual)
      <4>1. m \in Nat /\ DOMAIN actual = 1..m
        BY <2>1
      <4> HIDE DEF m
      <4>2. IsFiniteSet(DOMAIN actual)
        BY <4>1, FS_Interval
      <4> QED BY <4>2, <3>2, FS_Subset
    <3> QED BY <3>1, <3>2, <3>3, <2>1, EnoughIsMany, FS_CardinalityType
  <2>6. FewestRemovals = c
    BY DEF FewestRemovals
  <2> HIDE DEF n, sizes
  <2>7. \E k \in sizes : \A m \in sizes : k <= m
    BY <2>4, <2>5
  <2>8. c \in sizes /\ \A m \in sizes : c <= m
    BY <2>7
  <2> HIDE DEF c
  <2>9. c = n
    <3>1. c \in Nat /\ n \in Nat /\ n <= c /\ c <= n
      BY <2>4, <2>5, <2>8
    <3> QED BY <3>1
  <2>10. LcsLength(expected, actual) + n <= Len(actual)
    <3>1. Longest(expected, actual, Len(expected), Len(actual), LcsLength(expected, actual))
      BY <2>1, LcsLengthIsLongest
    <3> QED BY <3>1, <2>1, MatchesAreNeeded DEF Longest, n
  <2> QED BY <2>6, <2>9, <2>10 DEF UnnecessaryIsFewest, n
<1> QED BY <1>1, GradingInvHolds, PTL

\* A percentile is the least measurement that enough of the others do not
\* exceed, and p50 is at most p95, for all measurements.
THEOREM PercentilesAreLeast == GradingSpec => []PercentileIsLeastCover
<1>1. ASSUME GradingInv PROVE PercentileIsLeastCover
  <2> SUFFICES ASSUME actual # <<>> PROVE PercentileIsLeastCover
    BY DEF PercentileIsLeastCover
  <2>1. actual \in Seq(Int)
    <3>1. actual \in Seq(Items)
      BY <1>1 DEF GradingInv
    <3>2. Len(actual) \in Nat /\ actual \in [1..Len(actual) -> Items]
      BY <3>1
    <3>3. actual \in [1..Len(actual) -> Int]
      BY <3>2, GradingAssumption
    <3> QED BY <3>2, <3>3
  <2>2. ASSUME NEW percent \in 1..100
        PROVE  /\ Percentile(actual, percent) \in {actual[i] : i \in DOMAIN actual}
               /\ Covers(actual, percent, Percentile(actual, percent))
               /\ \A w \in Int : Covers(actual, percent, w) => Percentile(actual, percent) <= w
    BY <2>1, PercentileIsLeast
  <2>3. \A i \in DOMAIN actual : actual[i] \in Int
    BY <2>1
  <2>4. Percentile(actual, 95) \in Int
    BY <2>2, <2>3
  <2>5. ASSUME NEW v, Covers(actual, 95, v) PROVE Covers(actual, 50, v)
    <3>1. Len(actual) \in Nat
      BY <2>1
    <3>2. Cardinality(UpToValue(actual, v)) \in Nat
      <4> DEFINE m == Len(actual)
      <4>1. UpToValue(actual, v) \in SUBSET (1..m)
        BY <2>1 DEF UpToValue
      <4> HIDE DEF m
      <4>2. IsFiniteSet(1..m)
        BY <3>1, FS_Interval DEF m
      <4> QED BY <4>1, <4>2, FS_Subset, FS_CardinalityType
    <3> QED BY <2>5, <3>1, <3>2 DEF Covers
  <2>6. Percentile(actual, 50) <= Percentile(actual, 95)
    <3>1. Covers(actual, 95, Percentile(actual, 95))
      BY <2>2
    <3>2. \A w \in Int : Covers(actual, 50, w) => Percentile(actual, 50) <= w
      BY <2>2
    <3> QED BY <3>1, <3>2, <2>4, <2>5
  <2>7. \A v : UpToValue(actual, v) = {i \in DOMAIN actual : actual[i] <= v}
    BY DEF UpToValue
  <2>8. \A percent \in {1, 50, 95, 100} : percent \in 1..100
    OBVIOUS
  <2>9. ASSUME NEW percent \in {1, 50, 95, 100}
        PROVE  LET covers(v) ==
                     100 * Cardinality({i \in DOMAIN actual : actual[i] <= v})
                       >= percent * Len(actual)
                   value == Percentile(actual, percent)
               IN  /\ value \in {actual[i] : i \in DOMAIN actual}
                   /\ covers(value)
                   /\ \A i \in DOMAIN actual : covers(actual[i]) => value <= actual[i]
    <3> DEFINE covers(v) ==
                 100 * Cardinality({i \in DOMAIN actual : actual[i] <= v})
                   >= percent * Len(actual)
               value == Percentile(actual, percent)
    <3>1. \A v : covers(v) <=> Covers(actual, percent, v)
      BY <2>7 DEF Covers
    <3>2. percent \in 1..100
      BY <2>8
    <3>3. /\ value \in {actual[i] : i \in DOMAIN actual}
          /\ Covers(actual, percent, value)
          /\ \A w \in Int : Covers(actual, percent, w) => value <= w
      BY <3>2, <2>2
    <3> HIDE DEF covers, value
    <3>4. covers(value)
      BY <3>1, <3>3
    <3>5. \A i \in DOMAIN actual : covers(actual[i]) => value <= actual[i]
      BY <3>1, <3>3, <2>3
    <3>6. /\ value \in {actual[i] : i \in DOMAIN actual}
          /\ covers(value)
          /\ \A i \in DOMAIN actual : covers(actual[i]) => value <= actual[i]
      BY <3>3, <3>4, <3>5
    <3> QED BY <3>6 DEF covers, value
  <2> QED BY <2>6, <2>9 DEF PercentileIsLeastCover
<1> QED BY <1>1, GradingInvHolds, PTL

=============================================================================
