------------------------ MODULE PortableEngineProofs ------------------------
(* Proofs about PortableEngine and PortableReport, for any number of apps,   *)
(* runs and catalogs, any scenarios, faults, batch and loop bound.           *)
(*                                                                           *)
(* No property of the trace is inductive alone: what the next transaction    *)
(* appends depends on the row, the decisions and what was done, and all four *)
(* change together. RunInv relates the four tables of one run. Requests      *)
(* touch one run each (Touched), so the lemmas about what a transaction      *)
(* keeps are about one row and its trace, and the induction over Next is     *)
(* only that some run was touched, and how. Events are counted by the sets   *)
(* of their positions (Idx), which a block appended at the end extends, and  *)
(* not by filtering the trace, which would be a recursion. Then: a settled   *)
(* run is final, and so is the evidence that evaluations cite of it.         *)
(*                                                                           *)
(* At the end the engine is shown to implement DurableRun, the promise that  *)
(* RunRefinementProofs shows of the server's run executor: the same promise, *)
(* kept by one transaction per step and a trace where the server has leases, *)
(* versions and claims. The abstract history is read off the trace and the   *)
(* abstract verdicts off the decisions; by EngineInv both are functions of   *)
(* the observed run's row and decisions (View), every transaction is one of  *)
(* a few moves of that row (Move), and every move is a step of DurableRun.   *)
EXTENDS PortableReport, SequenceTheorems, FiniteSetTheorems, FunctionTheorems,
        TLAPS

-----------------------------------------------------------------------------
(* The invariant: the row, the trace, the decisions and the effects of a run *)

Announcements == {"policy.action"}

Starts == {"tool.attempt.started"}

Successes == {"tool.attempt.succeeded"}

Ended == {"tool.attempt.succeeded", "tool.attempt.failed"}

Checkpoints == {"run.checkpointed"}

Denials == {"approval.denied"}

\* The scenarios that some package carries.
KnownScenarios == {c[n] : c \in Catalogs, n \in Names}

EventTypes ==
  {"none", "run.created", "run.running", "run.waiting_approval", "run.checkpointed",
   "run.succeeded", "run.failed", "policy.action", "approval.recorded",
   "approval.denied", "tool.preflight.failed", "tool.attempt.started",
   "tool.attempt.succeeded", "tool.attempt.failed", "fault.injected",
   "tool.output.validation_failed"}

\* Strings, with those that the engine writes (no prover knows that a literal
\* is a string).
Codes ==
  STRING \cup
  {"none", "fragile", "resilient", "allow", "deny", "invalid_input",
   "invalid_output", "tool_timeout", "approval_denied", "approval_mismatch",
   "scenario_exhausted"}

EventSet ==
  [type : EventTypes, step : Int, attempt : Nat, action : Actions \cup {NoAction},
   code : Codes]

Statuses == {"queued", "running", "waiting_approval", "succeeded", "failed"}

RowSet ==
  [status : Statuses, scenario : Names, hash : KnownScenarios, mode : Modes,
   step : Nat, attempt : Nat, announced : Int,
   pending : Actions \cup {NoAction}, result : Codes]

\* The positions of the events of some types.
Idx(es, types) == {i \in DOMAIN es : es[i].type \in types}

\* One event of these types for every step from first to last, in that order.
Counts(es, types, first, last) ==
  /\ {es[i].step : i \in Idx(es, types)} = first..last
  /\ \A i, j \in Idx(es, types) : i < j => es[i].step < es[j].step

\* They carry the actions of the scenario.
Agree(es, types, actions) ==
  \A i \in Idx(es, types) : es[i].action = actions[es[i].step + 1]

\* The last event that moves the status is the one the row shows.
Explained(es, status) ==
  \E i \in Idx(es, StatusEvents) :
    /\ status = StatusAfter(es[i])
    /\ \A j \in Idx(es, StatusEvents) : j <= i

\* The attempt the row is about to make was not started before.
Fresher(es, step, attempt) ==
  \A i \in Idx(es, Starts) :
    \/ es[i].step < step
    \/ es[i].step = step /\ es[i].attempt < attempt

Once(es, types) ==
  \A i, j \in Idx(es, types) : Identity(es[i]) = Identity(es[j]) => i = j

\* Every attempt that was started has ended, each once.
Paired(es) ==
  /\ Once(es, Starts) /\ Once(es, Ended)
  /\ {Identity(es[i]) : i \in Idx(es, Starts)} =
       {Identity(es[i]) : i \in Idx(es, Ended)}

Writes(es) ==
  {i \in Idx(es, Successes) :
     es[i].action.tool = "prepare_rollback"}

\* e records that a reviewer allowed this action at this step.
Allowance(e, step, action) ==
  e.type = "approval.recorded" /\ e.code = "allow" /\ e.step = step /\ e.action = action

Approved(es) ==
  \A i \in Writes(es) : \E j \in DOMAIN es :
    j < i /\ Allowance(es[j], es[i].step, es[i].action)

\* What was done to the outside is what the trace says was done.
Written(es, done) ==
  done = {[step |-> es[i].step, action |-> es[i].action] : i \in Writes(es)}

\* At most one action is announced and not done.
Cursor(row) ==
  row.step <= Len(row.hash.actions) /\ row.announced \in (row.step - 1)..row.step

\* What the trace says of the steps that are done.
Performed(row, es, done) ==
  /\ Cursor(row)
  /\ Counts(es, Announcements, 0, row.announced)
  /\ Agree(es, Announcements, row.hash.actions)
  /\ Counts(es, Checkpoints, 1, row.step)
  /\ Counts(es, Successes, 0, row.step - 1)
  /\ Agree(es, Successes, row.hash.actions)
  /\ Paired(es) /\ Approved(es) /\ Written(es, done)

IsGated(action) ==
  action.type = "call_tool" /\ action.tool = "prepare_rollback"

\* A decision is about a gated step that was reached, the only one about it;
\* an allowing one is in the trace, a denying one ended the run, and a run that
\* waits has none for the step it waits at.
DecisionsHold(row, es, ds) ==
  /\ \A d \in ds :
       /\ d.step \in 0..row.step /\ d.step < Len(row.hash.actions)
       /\ d.action = row.hash.actions[d.step + 1] /\ IsGated(d.action)
       /\ d.allow \in BOOLEAN
       /\ d.allow => \E j \in DOMAIN es : Allowance(es[j], d.step, d.action)
       /\ ~d.allow => row.status = "failed"
       /\ row.status = "waiting_approval" => d.step # row.step
  /\ \A d, c \in ds : d.step = c.step => d = c

\* Nothing is written after a denial, which ends the run.
DenialEnds(es, status) ==
  /\ Idx(es, Denials) # {} => status = "failed"
  /\ \A i \in Idx(es, Denials) : \A j \in Writes(es) : j < i

\* A run waits for a decision on the gated action it announced.
Waits(row) ==
  row.status = "waiting_approval" =>
    /\ row.announced = row.step /\ row.step < Len(row.hash.actions)
    /\ row.pending = row.hash.actions[row.step + 1] /\ IsGated(row.pending)

Core(row, es, ds, done) ==
  /\ row \in RowSet /\ es \in Seq(EventSet)
  /\ Performed(row, es, done) /\ Explained(es, row.status)
  /\ DecisionsHold(row, es, ds) /\ DenialEnds(es, row.status) /\ Waits(row)

\* What is true of a run from its creation on.
RunInv(row, es, ds, done) ==
  /\ Core(row, es, ds, done)
  /\ row.status \notin Terminal => Fresher(es, row.step, row.attempt)

NoRun(row, es, ds, done) ==
  row = Absent /\ es = <<>> /\ ds = {} /\ done = {}

RunsInv ==
  \A r \in Runs : \/ NoRun(rows[r], events[r], decisions[r], effects[r])
                  \/ RunInv(rows[r], events[r], decisions[r], effects[r])

-----------------------------------------------------------------------------
(* Traces that grow *)

\* A block of events without one of some types.
None(new, types) == \A i \in DOMAIN new : new[i].type \notin types

\* A block whose only event of some types is x.
One(new, types, x) ==
  /\ x.type \in types
  /\ \E k \in DOMAIN new :
       new[k] = x /\ \A i \in DOMAIN new : new[i].type \in types => i = k

LEMMA Block ==
  ASSUME NEW S, NEW a \in Seq(S), NEW b \in Seq(S)
  PROVE  /\ a \o b \in Seq(S)
         /\ DOMAIN a = 1..Len(a) /\ DOMAIN b = 1..Len(b)
         /\ Len(a) \in Nat /\ Len(b) \in Nat
         /\ DOMAIN (a \o b) = 1..(Len(a) + Len(b))
         /\ \A i \in 1..Len(a) : (a \o b)[i] = a[i]
         /\ \A i \in 1..Len(b) : (a \o b)[Len(a) + i] = b[i]
         /\ \A i \in DOMAIN (a \o b) :
              i \in 1..Len(a) \/ (i - Len(a) \in 1..Len(b) /\ (a \o b)[i] = b[i - Len(a)])
<1>1. /\ a \o b \in Seq(S) /\ Len(a \o b) = Len(a) + Len(b)
      /\ \A i \in 1..(Len(a) + Len(b)) :
           (a \o b)[i] = IF i <= Len(a) THEN a[i] ELSE b[i - Len(a)]
  BY ConcatProperties
<1>2. Len(a) \in Nat /\ Len(b) \in Nat /\ DOMAIN a = 1..Len(a) /\ DOMAIN b = 1..Len(b)
      /\ DOMAIN (a \o b) = 1..Len(a \o b)
  BY <1>1, LenProperties
<1>3. \A i \in 1..Len(b) : (a \o b)[Len(a) + i] = b[i]
  BY <1>1, <1>2
<1> QED BY <1>1, <1>2, <1>3

LEMMA ConcatNone ==
  ASSUME NEW S, NEW a \in Seq(S), NEW b \in Seq(S), NEW types,
         None(a, types), None(b, types)
  PROVE  None(a \o b, types)
BY Block DEF None

LEMMA ConcatOne ==
  ASSUME NEW S, NEW a \in Seq(S), NEW b \in Seq(S), NEW types, NEW x
  PROVE  /\ One(a, types, x) /\ None(b, types) => One(a \o b, types, x)
         /\ None(a, types) /\ One(b, types, x) => One(a \o b, types, x)
<1>1. ASSUME One(a, types, x), None(b, types) PROVE One(a \o b, types, x)
  <2>1. PICK k \in DOMAIN a : a[k] = x /\ \A i \in DOMAIN a : a[i].type \in types => i = k
    BY <1>1 DEF One
  <2>2. k \in DOMAIN (a \o b) /\ (a \o b)[k] = x
    BY <2>1, Block
  <2>3. ASSUME NEW i \in DOMAIN (a \o b), (a \o b)[i].type \in types PROVE i = k
    BY <2>1, <2>3, <1>1, Block DEF None
  <2> QED BY <1>1, <2>2, <2>3 DEF One
<1>2. ASSUME None(a, types), One(b, types, x) PROVE One(a \o b, types, x)
  <2>1. PICK k \in DOMAIN b : b[k] = x /\ \A i \in DOMAIN b : b[i].type \in types => i = k
    BY <1>2 DEF One
  <2>2. Len(a) + k \in DOMAIN (a \o b) /\ (a \o b)[Len(a) + k] = x
    BY <2>1, Block
  <2>3. ASSUME NEW i \in DOMAIN (a \o b), (a \o b)[i].type \in types PROVE i = Len(a) + k
    <3>1. i \notin 1..Len(a)
      BY <2>3, <1>2, Block DEF None
    <3>2. i - Len(a) \in DOMAIN b /\ (a \o b)[i] = b[i - Len(a)]
      BY <3>1, <2>3, Block
    <3>3. i - Len(a) = k
      BY <3>2, <2>1, <2>3
    <3> QED BY <3>3, <3>2, Block
  <2> QED BY <1>2, <2>2, <2>3 DEF One
<1> QED BY <1>1, <1>2

LEMMA Single ==
  ASSUME NEW S, NEW x \in S, NEW types
  PROVE  /\ <<x>> \in Seq(S)
         /\ x.type \notin types => None(<<x>>, types)
         /\ x.type \in types => One(<<x>>, types, x)
BY DEF None, One

LEMMA Nothing ==
  ASSUME NEW S, NEW types
  PROVE  <<>> \in Seq(S) /\ None(<<>>, types)
BY DEF None

Join(s, t) == s \o t

LEMMA Joining ==
  ASSUME NEW S
  PROVE  /\ \A s, t, u \in Seq(S) : Join(Join(s, t), u) = Join(s, Join(t, u))
         /\ \A s, t \in Seq(S) : Join(s, t) \in Seq(S)
<1>1. \A s, t, u \in Seq(S) : Join(Join(s, t), u) = Join(s, Join(t, u))
  BY ConcatAssociative DEF Join
<1>2. \A s, t \in Seq(S) : Join(s, t) \in Seq(S)
  BY ConcatProperties DEF Join
<1> QED BY <1>1, <1>2

LEMMA FourBlocks ==
  ASSUME NEW S, NEW a \in Seq(S), NEW b \in Seq(S), NEW c \in Seq(S), NEW d \in Seq(S)
  PROVE  Join(a, Join(b, Join(c, d))) = Join(Join(Join(a, b), c), d)
<1>1. /\ \A s, t, u \in Seq(S) : Join(Join(s, t), u) = Join(s, Join(t, u))
      /\ \A s, t \in Seq(S) : Join(s, t) \in Seq(S)
  BY Joining
<1>2. Join(Join(Join(a, b), c), d) = Join(Join(a, b), Join(c, d))
  <2>1. Join(a, b) \in Seq(S)
    BY <1>1
  <2> QED BY <1>1, <2>1
<1>3. Join(Join(a, b), Join(c, d)) = Join(a, Join(b, Join(c, d)))
  <2>1. Join(c, d) \in Seq(S)
    BY <1>1
  <2> QED BY <1>1, <2>1
<1> QED BY <1>2, <1>3

LEMMA FewerTypes ==
  ASSUME NEW new, NEW types, NEW fewer, None(new, types), fewer \subseteq types
  PROVE  None(new, fewer)
BY DEF None

\* A longer trace has the same events of some types, or one more, x, behind
\* the others.
Extends(es, longer) ==
  \A i \in DOMAIN es : i \in DOMAIN longer /\ longer[i] = es[i]

Keeps(es, longer, types) ==
  Extends(es, longer) /\ Idx(longer, types) = Idx(es, types)

Gains(es, longer, types, x) ==
  /\ Extends(es, longer)
  /\ \E k \in Nat :
       /\ k \notin DOMAIN es /\ longer[k] = x
       /\ \A i \in DOMAIN es : i \in Nat /\ i < k
       /\ Idx(longer, types) = Idx(es, types) \cup {k}

LEMMA SameIndices ==
  ASSUME NEW S, NEW es \in Seq(S), NEW new \in Seq(S), NEW types, None(new, types)
  PROVE  Keeps(es, es \o new, types)
BY Block DEF None, Idx, Keeps, Extends

LEMMA OneMoreIndex ==
  ASSUME NEW S, NEW es \in Seq(S), NEW new \in Seq(S), NEW types, NEW x,
         One(new, types, x)
  PROVE  Gains(es, es \o new, types, x)
<1>1. PICK k \in DOMAIN new : new[k] = x /\ \A i \in DOMAIN new : new[i].type \in types => i = k
  BY DEF One
<1>2. /\ Len(es) + k \in DOMAIN (es \o new) /\ (es \o new)[Len(es) + k] = x
      /\ Len(es) + k \in Nat /\ Len(es) + k \notin DOMAIN es
      /\ \A i \in DOMAIN es : i \in Nat /\ i < Len(es) + k
  BY <1>1, Block
<1>3. \A i \in DOMAIN es : i \in DOMAIN (es \o new) /\ (es \o new)[i] = es[i]
  BY Block
<1>4. ASSUME NEW i \in Idx(es \o new, types) PROVE i \in Idx(es, types) \cup {Len(es) + k}
  <2>1. CASE i \in 1..Len(es)
    BY <2>1, Block DEF Idx
  <2>2. CASE i \notin 1..Len(es)
    <3>1. i \in DOMAIN (es \o new) /\ (es \o new)[i].type \in types
      BY DEF Idx
    <3>2. i - Len(es) \in DOMAIN new /\ (es \o new)[i] = new[i - Len(es)]
      BY <3>1, <2>2, Block
    <3>3. i - Len(es) = k
      BY <3>1, <3>2, <1>1
    <3> QED BY <3>3, <3>1, Block
  <2> QED BY <2>1, <2>2
<1>5. Idx(es, types) \cup {Len(es) + k} \subseteq Idx(es \o new, types)
  BY <1>2, <1>3 DEF Idx, One
<1>6. Idx(es \o new, types) = Idx(es, types) \cup {Len(es) + k}
  BY <1>4, <1>5
<1> QED BY <1>2, <1>3, <1>6 DEF Gains, Extends

-----------------------------------------------------------------------------
(* What a block keeps *)

LEMMA KeepsStatus ==
  ASSUME NEW es, NEW longer, NEW status,
         Keeps(es, longer, StatusEvents), Explained(es, status)
  PROVE  Explained(longer, status)
<1>1. PICK i \in Idx(es, StatusEvents) :
        status = StatusAfter(es[i]) /\ \A j \in Idx(es, StatusEvents) : j <= i
  BY DEF Explained
<1>2. i \in DOMAIN es
  BY DEF Idx
<1> QED BY <1>1, <1>2 DEF Keeps, Extends, Explained

LEMMA SetsStatus ==
  ASSUME NEW es, NEW longer, NEW x, Gains(es, longer, StatusEvents, x)
  PROVE  Explained(longer, StatusAfter(x))
<1>1. PICK k \in Nat :
        /\ k \notin DOMAIN es /\ longer[k] = x
        /\ \A i \in DOMAIN es : i \in Nat /\ i < k
        /\ Idx(longer, StatusEvents) = Idx(es, StatusEvents) \cup {k}
  BY Zenon DEF Gains
<1>2. \A j \in Idx(longer, StatusEvents) : j <= k
  BY <1>1 DEF Idx
<1> QED BY <1>1, <1>2 DEF Explained

LEMMA KeepsCounts ==
  ASSUME NEW es, NEW longer, NEW types, NEW first, NEW last,
         Keeps(es, longer, types), Counts(es, types, first, last)
  PROVE  Counts(longer, types, first, last)
<1>1. /\ Idx(longer, types) = Idx(es, types)
      /\ \A i \in Idx(es, types) : longer[i] = es[i]
  BY DEF Keeps, Extends, Idx
<1>2. {longer[i].step : i \in Idx(longer, types)} =
        {es[i].step : i \in Idx(es, types)}
  BY <1>1
<1>3. {longer[i].step : i \in Idx(longer, types)} = first..last
  BY <1>2 DEF Counts
<1>4. \A i, j \in Idx(longer, types) : i < j => longer[i].step < longer[j].step
  BY <1>1 DEF Counts
<1> QED BY <1>3, <1>4 DEF Counts

LEMMA CountsOn ==
  ASSUME NEW es, NEW longer, NEW types,
         NEW first \in Int, NEW last \in Int, NEW x, last >= first - 1,
         Gains(es, longer, types, x), x.step = last + 1, Counts(es, types, first, last)
  PROVE  Counts(longer, types, first, last + 1)
<1>1. PICK k \in Nat :
        /\ k \notin DOMAIN es /\ longer[k] = x
        /\ \A i \in DOMAIN es : i \in Nat /\ i < k
        /\ Idx(longer, types) = Idx(es, types) \cup {k}
  BY Zenon DEF Gains
<1>2. \A i \in Idx(es, types) : longer[i] = es[i] /\ i < k /\ i \in Nat
  BY <1>1 DEF Gains, Extends, Idx
<1>3. {longer[i].step : i \in Idx(longer, types)} =
        {es[i].step : i \in Idx(es, types)} \cup {last + 1}
  BY <1>1, <1>2
<1>4. first..(last + 1) = (first..last) \cup {last + 1}
  OBVIOUS
<1>5. \A i \in Idx(es, types) : es[i].step \in first..last
  BY DEF Counts
<1>6. ASSUME NEW i \in Idx(longer, types), NEW j \in Idx(longer, types), i < j
      PROVE  longer[i].step < longer[j].step
  <2>1. CASE j = k
    <3>0. i # k
      BY <2>1, <1>6
    <3>1. i \in Idx(es, types) /\ longer[i] = es[i]
      BY <3>0, <1>1, <1>2
    <3>2. es[i].step \in Int /\ es[i].step <= last
      BY <3>1, <1>5
    <3>3. longer[j].step = last + 1
      BY <2>1, <1>1
    <3> QED BY <3>1, <3>2, <3>3
  <2>2. CASE j # k
    <3>1. j \in Idx(es, types) /\ i \in Idx(es, types)
      BY <2>2, <1>1, <1>2, <1>6
    <3> QED BY <3>1, <1>2, <1>6 DEF Counts
  <2> QED BY <2>1, <2>2
<1> QED BY <1>3, <1>4, <1>6 DEF Counts

LEMMA KeepsAgree ==
  ASSUME NEW es, NEW longer, NEW types, NEW actions,
         Keeps(es, longer, types), Agree(es, types, actions)
  PROVE  Agree(longer, types, actions)
BY DEF Keeps, Extends, Agree, Idx

LEMMA AgreesOn ==
  ASSUME NEW es, NEW longer, NEW types, NEW actions, NEW x,
         Gains(es, longer, types, x), x.action = actions[x.step + 1], Agree(es, types, actions)
  PROVE  Agree(longer, types, actions)
<1>1. PICK k \in Nat :
        /\ k \notin DOMAIN es /\ longer[k] = x
        /\ \A i \in DOMAIN es : i \in Nat /\ i < k
        /\ Idx(longer, types) = Idx(es, types) \cup {k}
  BY Zenon DEF Gains
<1>2. \A i \in Idx(es, types) : longer[i] = es[i]
  BY DEF Gains, Extends, Idx
<1> QED BY <1>1, <1>2 DEF Agree

LEMMA KeepsFresher ==
  ASSUME NEW es, NEW longer, NEW step, NEW attempt,
         Keeps(es, longer, Starts), Fresher(es, step, attempt)
  PROVE  Fresher(longer, step, attempt)
BY DEF Keeps, Extends, Fresher, Idx

LEMMA FresherOn ==
  ASSUME NEW es \in Seq(EventSet), NEW longer, NEW x,
         NEW step \in Nat, NEW attempt \in Nat,
         Gains(es, longer, Starts, x), x.step = step, x.attempt = attempt,
         Fresher(es, step, attempt)
  PROVE  Fresher(longer, step, attempt + 1) /\ Fresher(longer, step + 1, 1)
<1>1. PICK k \in Nat :
        /\ k \notin DOMAIN es /\ longer[k] = x
        /\ \A i \in DOMAIN es : i \in Nat /\ i < k
        /\ Idx(longer, Starts) = Idx(es, Starts) \cup {k}
  BY Zenon DEF Gains
<1>2. \A i \in Idx(es, Starts) : longer[i] = es[i]
  BY DEF Gains, Extends, Idx
<1>3. \A i \in Idx(es, Starts) : es[i].step \in Int /\ es[i].attempt \in Nat
  <2>1. \A i \in DOMAIN es : es[i] \in EventSet
    BY Block
  <2> QED BY <2>1 DEF Idx, EventSet
<1>4. ASSUME NEW i \in Idx(longer, Starts)
      PROVE  /\ \/ longer[i].step < step
                \/ longer[i].step = step /\ longer[i].attempt < attempt + 1
             /\ longer[i].step < step + 1
  <2>1. CASE i = k
    BY <2>1, <1>1
  <2>2. CASE i \in Idx(es, Starts)
    <3>1. \/ es[i].step < step
          \/ es[i].step = step /\ es[i].attempt < attempt
      BY <2>2 DEF Fresher
    <3> QED BY <2>2, <3>1, <1>2, <1>3
  <2> QED BY <2>1, <2>2, <1>1
<1> QED BY <1>4 DEF Fresher

LEMMA KeepsPaired ==
  ASSUME NEW es, NEW longer,
         Keeps(es, longer, Starts), Keeps(es, longer, Ended), Paired(es)
  PROVE  Paired(longer)
<1>1. /\ Idx(longer, Starts) = Idx(es, Starts)
      /\ Idx(longer, Ended) = Idx(es, Ended)
      /\ \A i \in DOMAIN es : longer[i] = es[i]
  BY DEF Keeps, Extends
<1>2. /\ \A i \in Idx(es, Starts) : longer[i] = es[i]
      /\ \A i \in Idx(es, Ended) : longer[i] = es[i]
  BY <1>1 DEF Idx
<1>3. /\ {Identity(longer[i]) : i \in Idx(longer, Starts)} =
           {Identity(es[i]) : i \in Idx(es, Starts)}
      /\ {Identity(longer[i]) : i \in Idx(longer, Ended)} =
           {Identity(es[i]) : i \in Idx(es, Ended)}
  BY <1>1, <1>2
<1> QED BY <1>1, <1>2, <1>3 DEF Paired, Once

\* One more identity that did not occur.
LEMMA OnceMore ==
  ASSUME NEW es, NEW longer, NEW types, NEW x,
         Gains(es, longer, types, x), Once(es, types),
         Identity(x) \notin {Identity(es[i]) : i \in Idx(es, types)}
  PROVE  /\ Once(longer, types)
         /\ {Identity(longer[i]) : i \in Idx(longer, types)} =
              {Identity(es[i]) : i \in Idx(es, types)} \cup {Identity(x)}
<1>1. PICK k \in Nat :
        /\ k \notin DOMAIN es /\ longer[k] = x
        /\ \A i \in DOMAIN es : i \in Nat /\ i < k
        /\ Idx(longer, types) = Idx(es, types) \cup {k}
  BY Zenon DEF Gains
<1>2. \A i \in Idx(es, types) : longer[i] = es[i]
  BY DEF Gains, Extends, Idx
<1>3. {Identity(longer[i]) : i \in Idx(longer, types)} =
        {Identity(es[i]) : i \in Idx(es, types)} \cup {Identity(x)}
  BY <1>1, <1>2
<1>4. ASSUME NEW i \in Idx(longer, types), NEW j \in Idx(longer, types),
             Identity(longer[i]) = Identity(longer[j])
      PROVE  i = j
  <2>1. CASE i \in Idx(es, types) /\ j \in Idx(es, types)
    BY <2>1, <1>4, <1>2 DEF Once
  <2>2. CASE i = k
    BY <2>2, <1>4, <1>1, <1>2
  <2>3. CASE j = k
    BY <2>3, <1>4, <1>1, <1>2
  <2> QED BY <2>1, <2>2, <2>3, <1>1
<1> QED BY <1>3, <1>4 DEF Once

LEMMA PairedOn ==
  ASSUME NEW es, NEW longer, NEW x, NEW y,
         Gains(es, longer, Starts, x), Gains(es, longer, Ended, y),
         Identity(x) = Identity(y), x.step \in Int, x.attempt \in Nat,
         Fresher(es, x.step, x.attempt), Paired(es)
  PROVE  Paired(longer)
<1>1. ASSUME NEW i \in Idx(es, Starts) PROVE Identity(x) # Identity(es[i])
  <2>1. Identity(x) = Identity(es[i]) => x.step = es[i].step /\ x.attempt = es[i].attempt
    BY DEF Identity
  <2> QED BY <2>1 DEF Fresher
<1>2. Identity(x) \notin {Identity(es[i]) : i \in Idx(es, Starts)}
  BY <1>1
<1>3. Identity(y) \notin {Identity(es[i]) : i \in Idx(es, Ended)}
  BY <1>2 DEF Paired
<1>4. /\ Once(longer, Starts)
      /\ {Identity(longer[i]) : i \in Idx(longer, Starts)} =
           {Identity(es[i]) : i \in Idx(es, Starts)} \cup {Identity(x)}
  BY <1>2, OnceMore DEF Paired
<1>5. /\ Once(longer, Ended)
      /\ {Identity(longer[i]) : i \in Idx(longer, Ended)} =
           {Identity(es[i]) : i \in Idx(es, Ended)} \cup {Identity(y)}
  BY <1>3, OnceMore DEF Paired
<1> QED BY <1>4, <1>5 DEF Paired

LEMMA KeepsWrites ==
  ASSUME NEW es, NEW longer,
         Keeps(es, longer, Successes)
  PROVE  /\ Writes(longer) = Writes(es)
         /\ \A i \in Writes(es) : i \in DOMAIN es /\ longer[i] = es[i]
         /\ \A done : Written(es, done) => Written(longer, done)
         /\ Approved(es) => Approved(longer)
<1>1. /\ Idx(longer, Successes) = Idx(es, Successes)
      /\ \A i \in DOMAIN es : i \in DOMAIN longer /\ longer[i] = es[i]
  BY DEF Keeps, Extends
<1>2. \A i \in Idx(es, Successes) : i \in DOMAIN es
  BY DEF Idx
<1>3. /\ Writes(longer) = Writes(es)
      /\ \A i \in Writes(es) : i \in DOMAIN es /\ longer[i] = es[i]
  BY <1>1, <1>2 DEF Writes
<1>4. \A done : Written(es, done) => Written(longer, done)
  BY <1>3 DEF Written
<1>5. Approved(es) => Approved(longer)
  BY <1>1, <1>3 DEF Approved
<1> QED BY <1>3, <1>4, <1>5

\* A success that is no write, and one that is an allowed write.
LEMMA WritesOn ==
  ASSUME NEW es, NEW longer, NEW x,
         Gains(es, longer, Successes, x), Approved(es),
         x.action.tool = "prepare_rollback" =>
           \E j \in DOMAIN es : Allowance(es[j], x.step, x.action)
  PROVE  /\ Approved(longer)
         /\ \A done : Written(es, done) =>
              Written(longer,
                      done \cup (IF x.action.tool = "prepare_rollback"
                                 THEN {[step |-> x.step, action |-> x.action]} ELSE {}))
<1>1. PICK k \in Nat :
        /\ k \notin DOMAIN es /\ longer[k] = x
        /\ \A i \in DOMAIN es : i \in Nat /\ i < k
        /\ Idx(longer, Successes) = Idx(es, Successes) \cup {k}
  BY Zenon DEF Gains
<1>2. \A i \in DOMAIN es : i \in DOMAIN longer /\ longer[i] = es[i]
  BY DEF Gains, Extends
<1>3. \A i \in Idx(es, Successes) : i \in DOMAIN es /\ longer[i] = es[i]
  BY <1>2 DEF Idx
<1>4. /\ \A i \in Writes(es) : i \in DOMAIN es /\ longer[i] = es[i]
      /\ Writes(longer) =
           Writes(es) \cup (IF x.action.tool = "prepare_rollback" THEN {k} ELSE {})
  BY <1>1, <1>3 DEF Writes
<1>5. Approved(longer)
  <2>1. ASSUME NEW i \in Writes(longer)
        PROVE  \E j \in DOMAIN longer :
                 j < i /\ Allowance(longer[j], longer[i].step, longer[i].action)
    <3>1. CASE i \in Writes(es)
      BY <3>1, <1>2, <1>4 DEF Approved
    <3>2. CASE i = k /\ x.action.tool = "prepare_rollback"
      BY <3>2, <1>1, <1>2
    <3> QED BY <3>1, <3>2, <1>4
  <2> QED BY <2>1 DEF Approved
<1>6. ASSUME NEW done, Written(es, done)
      PROVE  Written(longer, done \cup (IF x.action.tool = "prepare_rollback"
                                 THEN {[step |-> x.step, action |-> x.action]} ELSE {}))
  <2>1. CASE x.action.tool = "prepare_rollback"
    <3>1. {[step |-> longer[i].step, action |-> longer[i].action] :
              i \in Writes(longer)} =
            {[step |-> es[i].step, action |-> es[i].action] : i \in Writes(es)}
              \cup {[step |-> x.step, action |-> x.action]}
      BY <2>1, <1>1, <1>4
    <3> QED BY <2>1, <3>1, <1>6 DEF Written
  <2>2. CASE x.action.tool # "prepare_rollback"
    BY <2>2, <1>4, <1>6 DEF Written
  <2> QED BY <2>1, <2>2
<1> QED BY <1>5, <1>6

-----------------------------------------------------------------------------
(* What a transaction keeps *)

Progress == Announcements \cup Starts \cup Ended \cup Checkpoints

LEMMA KeepsFewer ==
  ASSUME NEW es, NEW longer, NEW types, NEW fewer, Keeps(es, longer, types),
         fewer \subseteq types
  PROVE  Keeps(es, longer, fewer)
BY DEF Keeps, Extends, Idx

LEMMA KeepsPerformed ==
  ASSUME NEW row, NEW row2, NEW es, NEW longer, NEW done, Performed(row, es, done),
         Keeps(es, longer, Progress),
         row2.step = row.step, row2.announced = row.announced, row2.hash = row.hash
  PROVE  Performed(row2, longer, done)
<1>1. /\ Announcements \subseteq Progress /\ Checkpoints \subseteq Progress
      /\ Successes \subseteq Progress /\ Starts \subseteq Progress /\ Ended \subseteq Progress
  BY DEF Progress, Successes, Ended
<1>2. /\ Keeps(es, longer, Announcements) /\ Keeps(es, longer, Checkpoints)
      /\ Keeps(es, longer, Successes) /\ Keeps(es, longer, Starts)
      /\ Keeps(es, longer, Ended)
  BY <1>1, KeepsFewer
<1>3. Cursor(row2)
  BY DEF Performed, Cursor
<1>4. /\ Counts(longer, Announcements, 0, row.announced)
      /\ Counts(longer, Checkpoints, 1, row.step)
      /\ Counts(longer, Successes, 0, row.step - 1)
  BY <1>2, KeepsCounts DEF Performed
<1>5. /\ Agree(longer, Announcements, row.hash.actions)
      /\ Agree(longer, Successes, row.hash.actions)
  BY <1>2, KeepsAgree DEF Performed
<1>6. Paired(longer)
  BY <1>2, KeepsPaired DEF Performed
<1>7. Approved(longer) /\ Written(longer, done)
  BY <1>2, KeepsWrites DEF Performed
<1> QED BY <1>3, <1>4, <1>5, <1>6, <1>7 DEF Performed

LEMMA AnnouncesPerformed ==
  ASSUME NEW row, NEW row2, NEW es, NEW longer, NEW done, NEW x,
         Performed(row, es, done),
         row.step \in Nat, row.announced \in Int, row.announced # row.step,
         Gains(es, longer, Announcements, x), Keeps(es, longer, Progress \ Announcements),
         x.step = row.step, x.action = row.hash.actions[row.step + 1],
         row2.step = row.step, row2.announced = row.step, row2.hash = row.hash
  PROVE  Performed(row2, longer, done)
<1>1. /\ Checkpoints \subseteq Progress \ Announcements
      /\ Successes \subseteq Progress \ Announcements
      /\ Starts \subseteq Progress \ Announcements
      /\ Ended \subseteq Progress \ Announcements
  BY DEF Progress, Successes, Ended, Announcements, Starts, Checkpoints
<1>2. /\ Keeps(es, longer, Checkpoints) /\ Keeps(es, longer, Successes)
      /\ Keeps(es, longer, Starts) /\ Keeps(es, longer, Ended)
  BY <1>1, KeepsFewer
<1>3. row.announced = row.step - 1 /\ Cursor(row2)
  BY DEF Performed, Cursor
<1>4. Counts(longer, Announcements, 0, row.announced + 1)
  BY <1>3, CountsOn DEF Performed
<1>5. /\ Counts(longer, Checkpoints, 1, row.step)
      /\ Counts(longer, Successes, 0, row.step - 1)
  BY <1>2, KeepsCounts DEF Performed
<1>6. Agree(longer, Announcements, row.hash.actions)
  BY AgreesOn DEF Performed
<1>7. Agree(longer, Successes, row.hash.actions)
  BY <1>2, KeepsAgree DEF Performed
<1>8. Paired(longer)
  BY <1>2, KeepsPaired DEF Performed
<1>9. Approved(longer) /\ Written(longer, done)
  BY <1>2, KeepsWrites DEF Performed
<1>10. row.announced + 1 = row.step
  BY <1>3
<1>11. Counts(longer, Announcements, 0, row2.announced)
  BY <1>4, <1>10
<1> QED BY <1>3, <1>11, <1>5, <1>6, <1>7, <1>8, <1>9 DEF Performed

\* An attempt that failed.
LEMMA AttemptsPerformed ==
  ASSUME NEW row, NEW row2, NEW es, NEW longer, NEW done, NEW x, NEW y,
         Performed(row, es, done),
         Gains(es, longer, Starts, x), Gains(es, longer, Ended, y),
         Identity(x) = Identity(y), x.step \in Int, x.attempt \in Nat,
         Fresher(es, x.step, x.attempt),
         Keeps(es, longer, Announcements \cup Successes \cup Checkpoints),
         row2.step = row.step, row2.announced = row.announced, row2.hash = row.hash
  PROVE  Performed(row2, longer, done)
<1>2. /\ Keeps(es, longer, Announcements) /\ Keeps(es, longer, Checkpoints)
      /\ Keeps(es, longer, Successes)
  BY KeepsFewer
<1>3. Cursor(row2)
  BY DEF Performed, Cursor
<1>4. /\ Counts(longer, Announcements, 0, row.announced)
      /\ Counts(longer, Checkpoints, 1, row.step)
      /\ Counts(longer, Successes, 0, row.step - 1)
  BY <1>2, KeepsCounts DEF Performed
<1>5. /\ Agree(longer, Announcements, row.hash.actions)
      /\ Agree(longer, Successes, row.hash.actions)
  BY <1>2, KeepsAgree DEF Performed
<1>6. Paired(longer)
  BY PairedOn DEF Performed
<1>7. Approved(longer) /\ Written(longer, done)
  BY <1>2, KeepsWrites DEF Performed
<1> QED BY <1>3, <1>4, <1>5, <1>6, <1>7 DEF Performed

\* An attempt that succeeded, and its checkpoint.
LEMMA SucceedsPerformed ==
  ASSUME NEW row, NEW row2, NEW es, NEW longer, NEW done, NEW done2,
         NEW x, NEW y, NEW z, Performed(row, es, done),
         row.step \in Nat, row.announced \in Int, Len(row.hash.actions) \in Nat,
         Gains(es, longer, Starts, x), Gains(es, longer, Ended, y),
         Gains(es, longer, Successes, y), Gains(es, longer, Checkpoints, z),
         Keeps(es, longer, Announcements),
         Identity(x) = Identity(y), x.step \in Int, x.attempt \in Nat,
         Fresher(es, x.step, x.attempt),
         y.step = row.step, y.action = row.hash.actions[row.step + 1],
         z.step = row.step + 1,
         y.action.tool = "prepare_rollback" =>
           \E j \in DOMAIN es : Allowance(es[j], y.step, y.action),
         done2 = done \cup (IF y.action.tool = "prepare_rollback"
                            THEN {[step |-> y.step, action |-> y.action]} ELSE {}),
         row.step < Len(row.hash.actions), row.announced = row.step,
         row2.step = row.step + 1, row2.announced = row.announced, row2.hash = row.hash
  PROVE  Performed(row2, longer, done2)
<1>3. Cursor(row2)
  BY DEF Performed, Cursor
<1>4. Counts(longer, Announcements, 0, row2.announced)
  BY KeepsCounts DEF Performed
<1>5. Counts(longer, Checkpoints, 1, row2.step)
  BY CountsOn DEF Performed
<1>6. Counts(longer, Successes, 0, row2.step - 1)
  <2>1. Counts(longer, Successes, 0, (row.step - 1) + 1)
    BY CountsOn DEF Performed
  <2>2. (row.step - 1) + 1 = row2.step - 1
    OBVIOUS
  <2> QED BY <2>1, <2>2
<1>7. /\ Agree(longer, Announcements, row2.hash.actions)
      /\ Agree(longer, Successes, row2.hash.actions)
  BY KeepsAgree, AgreesOn DEF Performed
<1>8. Paired(longer)
  BY PairedOn DEF Performed
<1>9. Approved(longer) /\ Written(longer, done2)
  BY WritesOn DEF Performed
<1> QED BY <1>3, <1>4, <1>5, <1>6, <1>7, <1>8, <1>9 DEF Performed

\* The decisions of a run that was not over.
LEMMA KeepsDecisions ==
  ASSUME NEW row, NEW row2, NEW es, NEW longer, NEW ds, DecisionsHold(row, es, ds),
         row.status \notin Terminal, Extends(es, longer),
         row.step \in Nat, row2.step \in Nat, row.step <= row2.step, row2.hash = row.hash,
         row2.status = "waiting_approval" => \A d \in ds : d.step # row2.step
  PROVE  DecisionsHold(row2, longer, ds)
<1>1. \A d \in ds : d.allow /\ \E j \in DOMAIN longer : Allowance(longer[j], d.step, d.action)
  BY DEF DecisionsHold, Extends, Terminal
<1>2. \A d \in ds : d.step \in 0..row2.step
  BY DEF DecisionsHold
<1> QED BY <1>1, <1>2 DEF DecisionsHold

LEMMA KeepsDenials ==
  ASSUME NEW es, NEW longer, NEW status, NEW status2, DenialEnds(es, status),
         status \notin Terminal, Keeps(es, longer, Denials)
  PROVE  DenialEnds(longer, status2)
BY DEF DenialEnds, Keeps, Terminal

-----------------------------------------------------------------------------
(* Rows and events *)

\* An event with all its fields.
LEMMA EventFields ==
  ASSUME NEW x, x \in EventSet
  PROVE  /\ x.type \in EventTypes /\ x.step \in Int /\ x.attempt \in Nat
         /\ x.action \in Actions \cup {NoAction} /\ x.code \in Codes
BY DEF EventSet

LEMMA RowFields ==
  ASSUME NEW row \in RowSet
  PROVE  /\ row.status \in Statuses /\ row.scenario \in Names
         /\ row.hash \in KnownScenarios /\ row.mode \in Modes /\ row.step \in Nat
         /\ row.attempt \in Nat /\ row.announced \in Int
         /\ row.pending \in Actions \cup {NoAction} /\ row.result \in Codes
BY DEF RowSet

LEMMA Plans ==
  ASSUME NEW h \in KnownScenarios
  PROVE  h.actions \in Seq(Actions) /\ h.faults \subseteq Faults
<1>1. PICK c \in Catalogs, n \in Names : h = c[n]
  BY DEF KnownScenarios
<1>2. h \in Scenario
  BY <1>1, EngineAssumption
<1> QED BY <1>2 DEF Scenario

LEMMA StatusRow ==
  ASSUME NEW row \in RowSet, NEW status \in Statuses, NEW row2,
         row2 = [row EXCEPT !.status = status]
  PROVE  /\ row2 \in RowSet /\ row2.status = status /\ row2.hash = row.hash
         /\ row2.step = row.step /\ row2.attempt = row.attempt
         /\ row2.announced = row.announced /\ row2.pending = row.pending
         /\ row2.scenario = row.scenario /\ row2.mode = row.mode
         /\ row2.result = row.result
BY DEF RowSet

LEMMA AnnouncedRow ==
  ASSUME NEW row \in RowSet, NEW row2, row2 = [row EXCEPT !.announced = row.step]
  PROVE  /\ row2 \in RowSet /\ row2.status = row.status /\ row2.hash = row.hash
         /\ row2.step = row.step /\ row2.attempt = row.attempt
         /\ row2.announced = row.step /\ row2.pending = row.pending
         /\ row2.scenario = row.scenario /\ row2.mode = row.mode
         /\ row2.result = row.result
BY DEF RowSet

LEMMA FailedFields ==
  ASSUME NEW row \in RowSet, NEW code \in Codes
  PROVE  /\ FailedRow(row, code) \in RowSet
         /\ FailedRow(row, code).status = "failed"
         /\ FailedRow(row, code).hash = row.hash
         /\ FailedRow(row, code).step = row.step
         /\ FailedRow(row, code).announced = row.announced
         /\ FailedRow(row, code).scenario = row.scenario
BY DEF RowSet, FailedRow, Statuses

LEMMA BlankEvent == Blank \in EventSet
BY DEF EventSet, EventTypes, Codes, Blank

LEMMA FailedEventFields ==
  ASSUME NEW code \in Codes
  PROVE  FailedEvent(code) \in EventSet /\ FailedEvent(code).type = "run.failed"
<1>1. FailedEvent(code) \in EventSet
  BY BlankEvent DEF EventSet, EventTypes, FailedEvent
<1>2. FailedEvent(code).type = "run.failed"
  BY BlankEvent DEF EventSet, FailedEvent
<1> QED BY <1>1, <1>2

-----------------------------------------------------------------------------
(* Moves of a run *)

LEMMA Grows ==
  ASSUME NEW S, NEW es \in Seq(S), NEW new \in Seq(S)
  PROVE  /\ es \o new \in Seq(S)
         /\ Extends(es, es \o new)
         /\ \A types : None(new, types) => Keeps(es, es \o new, types)
         /\ \A types, x : One(new, types, x) => Gains(es, es \o new, types, x)
<1>1. es \o new \in Seq(S) /\ Extends(es, es \o new)
  BY Block DEF Extends
<1> QED BY <1>1, SameIndices, OneMoreIndex

\* The status changes and nothing is performed.
LEMMA CoreMoves ==
  ASSUME NEW row, NEW row2, NEW es, NEW longer, NEW ds, NEW done,
         Core(row, es, ds, done), row.status \notin Terminal,
         row2 \in RowSet, longer \in Seq(EventSet),
         Keeps(es, longer, Progress \cup Denials), Explained(longer, row2.status),
         row2.step = row.step, row2.announced = row.announced, row2.hash = row.hash,
         Waits(row2),
         row2.status = "waiting_approval" => \A d \in ds : d.step # row2.step
  PROVE  /\ Core(row2, longer, ds, done)
         /\ Fresher(es, row.step, row.attempt) => Fresher(longer, row.step, row.attempt)
<1>1. /\ Keeps(es, longer, Progress) /\ Keeps(es, longer, Denials)
      /\ Keeps(es, longer, Starts)
  BY KeepsFewer DEF Progress
<1>2. Performed(row2, longer, done)
  BY <1>1, KeepsPerformed DEF Core
<1>3. row.step \in Nat /\ Extends(es, longer)
  BY <1>1, RowFields DEF Core, Keeps
<1>4. DecisionsHold(row2, longer, ds)
  BY <1>3, KeepsDecisions DEF Core
<1>5. DenialEnds(longer, row2.status)
  BY <1>1, KeepsDenials DEF Core
<1>6. Fresher(es, row.step, row.attempt) => Fresher(longer, row.step, row.attempt)
  BY <1>1, KeepsFresher
<1> QED BY <1>2, <1>4, <1>5, <1>6 DEF Core

LEMMA RunFails ==
  ASSUME NEW row, NEW es, NEW ds, NEW done, NEW code \in Codes,
         Core(row, es, ds, done), row.status \notin Terminal
  PROVE  RunInv(FailedRow(row, code), es \o <<FailedEvent(code)>>, ds, done)
<1> DEFINE x == FailedEvent(code)
           longer == es \o <<x>>
           row2 == FailedRow(row, code)
<1>1. x \in EventSet /\ x.type = "run.failed"
  BY FailedEventFields
<1>2. row \in RowSet /\ es \in Seq(EventSet)
  BY DEF Core
<1>3. /\ row2 \in RowSet /\ row2.status = "failed" /\ row2.hash = row.hash
      /\ row2.step = row.step /\ row2.announced = row.announced
  BY <1>2, FailedFields
<1> HIDE DEF x, row2
<1>4. /\ <<x>> \in Seq(EventSet) /\ One(<<x>>, StatusEvents, x)
      /\ None(<<x>>, Progress \cup Denials)
  BY <1>1, Single DEF StatusEvents, Progress, Denials, Announcements, Starts, Ended, Checkpoints
<1>5. /\ longer \in Seq(EventSet) /\ Keeps(es, longer, Progress \cup Denials)
      /\ Gains(es, longer, StatusEvents, x)
  BY <1>2, <1>4, Grows
<1> HIDE DEF longer
<1>6. StatusAfter(x) = "failed"
  BY <1>1 DEF StatusAfter
<1>7. Explained(longer, row2.status)
  BY <1>5, <1>6, <1>3, SetsStatus
<1>8. Waits(row2)
  BY <1>3 DEF Waits
<1>9. Core(row2, longer, ds, done)
  BY <1>3, <1>5, <1>7, <1>8, CoreMoves
<1>10. RunInv(row2, longer, ds, done)
  BY <1>9, <1>3 DEF RunInv, Terminal
<1> QED BY <1>10 DEF longer, x, row2

RunningEvent == [Blank EXCEPT !.type = "run.running"]

LEMMA BeginsRunning ==
  ASSUME NEW row, NEW es, NEW ds, NEW done, RunInv(row, es, ds, done),
         row.status \in {"queued", "running"}
  PROVE  RunInv([row EXCEPT !.status = "running"],
                es \o (IF row.status = "queued" THEN <<RunningEvent>> ELSE <<>>),
                ds, done)
<1> DEFINE row2 == [row EXCEPT !.status = "running"]
           new == IF row.status = "queued" THEN <<RunningEvent>> ELSE <<>>
           longer == es \o new
<1>1. RunningEvent \in EventSet /\ RunningEvent.type = "run.running"
  BY BlankEvent DEF EventSet, EventTypes, RunningEvent
<1>2. row \in RowSet /\ es \in Seq(EventSet) /\ row.status \notin Terminal
  BY DEF RunInv, Core, Terminal
<1>3. /\ row2 \in RowSet /\ row2.status = "running" /\ row2.hash = row.hash
      /\ row2.step = row.step /\ row2.announced = row.announced
      /\ row2.attempt = row.attempt
  BY <1>2, StatusRow DEF Statuses
<1> HIDE DEF row2
<1>4. new \in Seq(EventSet) /\ None(new, Progress \cup Denials)
  BY <1>1, Single, Nothing
     DEF Progress, Denials, Announcements, Starts, Ended, Checkpoints
<1>5. /\ longer \in Seq(EventSet) /\ Keeps(es, longer, Progress \cup Denials)
  BY <1>2, <1>4, Grows
<1>6. Explained(longer, "running")
  <2>1. CASE row.status = "queued"
    <3>1. new = <<RunningEvent>>
      BY <2>1
    <3>2. One(new, StatusEvents, RunningEvent)
      BY <1>1, <3>1, Single DEF StatusEvents
    <3>3. StatusAfter(RunningEvent) = "running"
      BY <1>1 DEF StatusAfter
    <3>4. Gains(es, longer, StatusEvents, RunningEvent)
      BY <3>2, <1>2, <1>4, Grows
    <3> QED BY <3>3, <3>4, SetsStatus
  <2>2. CASE row.status = "running"
    <3>1. new = <<>>
      BY <2>2
    <3>2. longer = es
      BY <3>1, <1>2, ConcatEmptySeq
    <3> QED BY <3>2, <2>2 DEF RunInv, Core
  <2> QED BY <2>1, <2>2
<1> HIDE DEF longer, new
<1>7. Waits(row2)
  BY <1>3 DEF Waits
<1>8. /\ Core(row2, longer, ds, done)
      /\ Fresher(longer, row.step, row.attempt)
  BY <1>2, <1>3, <1>5, <1>6, <1>7, CoreMoves DEF RunInv
<1>9. RunInv(row2, longer, ds, done)
  BY <1>8, <1>3 DEF RunInv
<1> QED BY <1>9 DEF longer, new, row2

AnnouncingEvent(row) ==
  [Blank EXCEPT !.type = "policy.action", !.step = row.step,
                !.action = row.hash.actions[row.step + 1]]

LEMMA Announces ==
  ASSUME NEW row, NEW es, NEW ds, NEW done, RunInv(row, es, ds, done),
         row.status = "running", row.step < Len(row.hash.actions)
  PROVE  RunInv([row EXCEPT !.announced = row.step],
                es \o (IF row.announced # row.step THEN <<AnnouncingEvent(row)>> ELSE <<>>),
                ds, done)
<1> DEFINE row2 == [row EXCEPT !.announced = row.step]
           x == AnnouncingEvent(row)
           longer == es \o <<x>>
<1>1. row \in RowSet /\ es \in Seq(EventSet) /\ row.status \notin Terminal
  BY DEF RunInv, Core, Terminal
<1>2. /\ row.step \in Nat /\ row.announced \in Int /\ row.attempt \in Nat
      /\ row.hash.actions[row.step + 1] \in Actions
  <2>1. row.hash.actions \in Seq(Actions) /\ row.step \in Nat
    BY <1>1, RowFields, Plans
  <2>2. row.step + 1 \in 1..Len(row.hash.actions)
    BY <2>1, LenProperties
  <2> QED BY <1>1, <2>1, <2>2, RowFields, ElementOfSeq
<1>3. /\ x \in EventSet /\ x.type = "policy.action" /\ x.step = row.step
      /\ x.action = row.hash.actions[row.step + 1]
  <2>1. row.hash.actions[row.step + 1] \in Actions \cup {NoAction} /\ row.step \in Int
    BY <1>2
  <2> DEFINE a == row.hash.actions[row.step + 1]
             n == row.step
  <2>2. x = [Blank EXCEPT !.type = "policy.action", !.step = n, !.action = a]
    BY DEF AnnouncingEvent
  <2>3. a \in Actions \cup {NoAction} /\ n \in Int
    BY <2>1
  <2> HIDE DEF a, n, x
  <2>4. x \in EventSet
    BY <2>2, <2>3, BlankEvent DEF EventSet, EventTypes
  <2>5. x.type = "policy.action" /\ x.step = n /\ x.action = a
    BY <2>2, BlankEvent DEF EventSet
  <2> QED BY <2>4, <2>5 DEF a, n
<1>4. /\ row2 \in RowSet /\ row2.status = "running" /\ row2.hash = row.hash
      /\ row2.step = row.step /\ row2.announced = row.step
      /\ row2.attempt = row.attempt
  BY <1>1, AnnouncedRow
<1> HIDE DEF x, row2
<1>5. CASE row.announced = row.step
  <2>1. row2 = row
    BY <1>5, <1>1 DEF row2, RowSet
  <2>2. es \o <<>> = es
    BY <1>1, ConcatEmptySeq
  <2>3. RunInv(row2, es \o <<>>, ds, done)
    BY <2>1, <2>2
  <2> QED BY <2>3, <1>5 DEF row2
<1>6. CASE row.announced # row.step
  <2>1. /\ <<x>> \in Seq(EventSet) /\ One(<<x>>, Announcements, x)
        /\ None(<<x>>, Progress \ Announcements) /\ None(<<x>>, StatusEvents)
        /\ None(<<x>>, Denials) /\ None(<<x>>, Starts)
    BY <1>3, Single
       DEF StatusEvents, Progress, Denials, Announcements, Starts, Ended, Checkpoints
  <2>2. /\ longer \in Seq(EventSet) /\ Extends(es, longer)
        /\ Gains(es, longer, Announcements, x)
        /\ Keeps(es, longer, Progress \ Announcements)
        /\ Keeps(es, longer, StatusEvents) /\ Keeps(es, longer, Denials)
        /\ Keeps(es, longer, Starts)
    BY <1>1, <2>1, Grows
  <2> HIDE DEF longer
  <2>3. Performed(row2, longer, done)
    BY <2>2, <1>2, <1>3, <1>4, <1>6, AnnouncesPerformed DEF RunInv, Core
  <2>4. Explained(longer, row2.status)
    BY <2>2, <1>4, KeepsStatus DEF RunInv, Core
  <2>5. DecisionsHold(row2, longer, ds)
    BY <2>2, <1>1, <1>2, <1>4, KeepsDecisions DEF RunInv, Core
  <2>6. DenialEnds(longer, row2.status)
    BY <2>2, <1>1, KeepsDenials DEF RunInv, Core
  <2>7. Waits(row2)
    BY <1>4 DEF Waits
  <2>8. Fresher(longer, row2.step, row2.attempt)
    BY <2>2, <1>1, <1>4, KeepsFresher DEF RunInv
  <2>9. RunInv(row2, longer, ds, done)
    BY <2>2, <2>3, <2>4, <2>5, <2>6, <2>7, <2>8, <1>4 DEF RunInv, Core
  <2> QED BY <2>9, <1>6 DEF longer, row2, x
<1> QED BY <1>5, <1>6

\* An event that nothing is read from.
LEMMA Notes ==
  ASSUME NEW row, NEW es, NEW ds, NEW done, NEW x, RunInv(row, es, ds, done),
         row.status = "running", x \in EventSet, x.type = "tool.preflight.failed"
  PROVE  RunInv(row, es \o <<x>>, ds, done)
<1> DEFINE longer == es \o <<x>>
<1>1. row \in RowSet /\ es \in Seq(EventSet) /\ row.status \notin Terminal
  BY DEF RunInv, Core, Terminal
<1>2. /\ <<x>> \in Seq(EventSet) /\ None(<<x>>, Progress \cup Denials)
      /\ None(<<x>>, StatusEvents)
  BY Single DEF StatusEvents, Progress, Denials, Announcements, Starts, Ended, Checkpoints
<1>3. /\ longer \in Seq(EventSet) /\ Keeps(es, longer, Progress \cup Denials)
      /\ Keeps(es, longer, StatusEvents)
  BY <1>1, <1>2, Grows
<1> HIDE DEF longer
<1>4. Explained(longer, row.status)
  BY <1>3, KeepsStatus DEF RunInv, Core
<1>5. Waits(row)
  BY DEF RunInv, Core
<1>6. Core(row, longer, ds, done) /\ Fresher(longer, row.step, row.attempt)
  BY <1>1, <1>3, <1>4, <1>5, CoreMoves DEF RunInv
<1>7. RunInv(row, longer, ds, done)
  BY <1>6 DEF RunInv
<1> QED BY <1>7 DEF longer

\* The run ends well, or stops for a decision.
LEMMA Settles ==
  ASSUME NEW row, NEW row2, NEW es, NEW ds, NEW done, NEW x, RunInv(row, es, ds, done),
         row.status = "running", x \in EventSet, row2 \in RowSet,
         \/ x.type = "run.succeeded" /\ row2.status = "succeeded"
         \/ x.type = "run.waiting_approval" /\ row2.status = "waiting_approval",
         row2.step = row.step, row2.announced = row.announced, row2.hash = row.hash,
         row2.attempt = row.attempt, Waits(row2),
         row2.status = "waiting_approval" => \A d \in ds : d.step # row2.step
  PROVE  RunInv(row2, es \o <<x>>, ds, done)
<1> DEFINE longer == es \o <<x>>
<1>1. row \in RowSet /\ es \in Seq(EventSet) /\ row.status \notin Terminal
  BY DEF RunInv, Core, Terminal
<1>2. /\ <<x>> \in Seq(EventSet) /\ None(<<x>>, Progress \cup Denials)
      /\ One(<<x>>, StatusEvents, x)
  BY Single DEF StatusEvents, Progress, Denials, Announcements, Starts, Ended, Checkpoints
<1>3. /\ longer \in Seq(EventSet) /\ Keeps(es, longer, Progress \cup Denials)
      /\ Gains(es, longer, StatusEvents, x)
  BY <1>1, <1>2, Grows
<1> HIDE DEF longer
<1>4. StatusAfter(x) = row2.status
  BY DEF StatusAfter
<1>5. Explained(longer, row2.status)
  BY <1>3, <1>4, SetsStatus
<1>6. Core(row2, longer, ds, done) /\ Fresher(longer, row.step, row.attempt)
  BY <1>1, <1>3, <1>5, CoreMoves DEF RunInv
<1>7. RunInv(row2, longer, ds, done)
  BY <1>6 DEF RunInv
<1> QED BY <1>7 DEF longer

\* An attempt that failed: the run is as before, but that it has to count the
\* attempt or to fail.
LEMMA AttemptFails ==
  ASSUME NEW row, NEW es, NEW ds, NEW done, NEW new, NEW x, NEW y,
         RunInv(row, es, ds, done), row.status = "running",
         new \in Seq(EventSet), One(new, Starts, x), One(new, Ended, y),
         None(new, Announcements \cup Successes \cup Checkpoints),
         None(new, StatusEvents \cup Denials),
         x.step = row.step, x.attempt = row.attempt, Identity(x) = Identity(y)
  PROVE  /\ Core(row, es \o new, ds, done)
         /\ \A row2 : row2 = [row EXCEPT !.attempt = @ + 1] =>
              RunInv(row2, es \o new, ds, done)
<1> DEFINE longer == es \o new
<1>1. row \in RowSet /\ es \in Seq(EventSet) /\ row.status \notin Terminal
  BY DEF RunInv, Core, Terminal
<1>2. row.step \in Nat /\ row.attempt \in Nat
  BY <1>1, RowFields
<1>3. None(new, StatusEvents) /\ None(new, Denials)
  BY FewerTypes
<1>4. /\ longer \in Seq(EventSet) /\ Extends(es, longer)
      /\ Gains(es, longer, Starts, x) /\ Gains(es, longer, Ended, y)
      /\ Keeps(es, longer, Announcements \cup Successes \cup Checkpoints)
      /\ Keeps(es, longer, StatusEvents) /\ Keeps(es, longer, Denials)
  BY <1>1, <1>3, Grows
<1> HIDE DEF longer
<1>5. Fresher(es, row.step, row.attempt)
  BY <1>1 DEF RunInv
<1>6. Performed(row, longer, done)
  <2>1. /\ Performed(row, es, done) /\ Fresher(es, x.step, x.attempt)
        /\ x.step \in Int /\ x.attempt \in Nat
    BY <1>2, <1>5 DEF RunInv, Core
  <2> QED BY <2>1, <1>4, AttemptsPerformed
<1>7. Explained(longer, row.status)
  BY <1>4, KeepsStatus DEF RunInv, Core
<1>8. DecisionsHold(row, longer, ds)
  BY <1>1, <1>2, <1>4, KeepsDecisions DEF RunInv, Core
<1>9. DenialEnds(longer, row.status)
  BY <1>1, <1>4, KeepsDenials DEF RunInv, Core
<1>10. Core(row, longer, ds, done)
  BY <1>4, <1>6, <1>7, <1>8, <1>9 DEF RunInv, Core
<1>11. ASSUME NEW row2, row2 = [row EXCEPT !.attempt = @ + 1]
       PROVE  RunInv(row2, longer, ds, done)
  <2>1. /\ row2 \in RowSet /\ row2.status = row.status /\ row2.hash = row.hash
        /\ row2.step = row.step /\ row2.announced = row.announced
        /\ row2.attempt = row.attempt + 1
    BY <1>11, <1>1 DEF RowSet
  <2>2. Fresher(longer, row2.step, row2.attempt)
    BY <2>1, <1>1, <1>2, <1>4, <1>5, FresherOn
  <2>3. Performed(row2, longer, done)
    BY <2>1, <1>6 DEF Performed, Cursor
  <2>4. DecisionsHold(row2, longer, ds)
    BY <2>1, <1>8 DEF DecisionsHold
  <2>5. Waits(row2)
    BY <2>1 DEF Waits
  <2> QED BY <2>1, <2>2, <2>3, <2>4, <2>5, <1>4, <1>7, <1>9 DEF RunInv, Core
<1> QED BY <1>10, <1>11 DEF longer

\* No effect is about the step that the run is at.
LEMMA NotYetDone ==
  ASSUME NEW row, NEW es, NEW ds, NEW done, RunInv(row, es, ds, done)
  PROVE  \A f \in done : f.step \in 0..(row.step - 1)
<1>1. \A i \in Writes(es) : es[i].step \in 0..(row.step - 1)
  BY DEF RunInv, Core, Performed, Counts, Writes
<1>2. \A f \in done : \E i \in Writes(es) : f.step = es[i].step
  BY DEF RunInv, Core, Performed, Written
<1> QED BY <1>1, <1>2

LEMMA AttemptSucceeds ==
  ASSUME NEW row, NEW row2, NEW es, NEW ds, NEW done, NEW done2, NEW new,
         NEW x, NEW y, NEW z, RunInv(row, es, ds, done), row.status = "running",
         row.announced = row.step, row.step < Len(row.hash.actions),
         new \in Seq(EventSet), One(new, Starts, x), One(new, Ended, y),
         One(new, Successes, y), One(new, Checkpoints, z),
         None(new, Announcements), None(new, StatusEvents \cup Denials),
         x.step = row.step, x.attempt = row.attempt, Identity(x) = Identity(y),
         y.step = row.step, y.action = row.hash.actions[row.step + 1],
         z.step = row.step + 1,
         y.action.tool = "prepare_rollback" =>
           \E d \in ds : d.step = y.step /\ d.action = y.action /\ d.allow,
         done2 = done \cup (IF y.action.tool = "prepare_rollback"
                            THEN {[step |-> y.step, action |-> y.action]} ELSE {}),
         row2 \in RowSet, row2.status = "running", row2.step = row.step + 1,
         row2.announced = row.announced, row2.hash = row.hash, row2.attempt = 1
  PROVE  RunInv(row2, es \o new, ds, done2)
<1> DEFINE longer == es \o new
<1>1. row \in RowSet /\ es \in Seq(EventSet) /\ row.status \notin Terminal
  BY DEF RunInv, Core, Terminal
<1>2. /\ row.step \in Nat /\ row.attempt \in Nat /\ row.announced \in Int
      /\ x.step \in Int /\ x.attempt \in Nat
  BY <1>1, RowFields
<1>3. None(new, StatusEvents) /\ None(new, Denials)
  BY FewerTypes
<1>4. /\ longer \in Seq(EventSet) /\ Extends(es, longer)
      /\ Gains(es, longer, Starts, x) /\ Gains(es, longer, Ended, y)
      /\ Gains(es, longer, Successes, y) /\ Gains(es, longer, Checkpoints, z)
      /\ Keeps(es, longer, Announcements)
      /\ Keeps(es, longer, StatusEvents) /\ Keeps(es, longer, Denials)
  BY <1>1, <1>3, Grows
<1> HIDE DEF longer
<1>5. Fresher(es, x.step, x.attempt)
  BY <1>1 DEF RunInv
<1>6. y.action.tool = "prepare_rollback" =>
        \E j \in DOMAIN es : Allowance(es[j], y.step, y.action)
  BY DEF RunInv, Core, DecisionsHold
<1>7. Len(row.hash.actions) \in Nat
  BY <1>1, RowFields, Plans, LenProperties
<1>8. Performed(row, es, done)
  BY DEF RunInv, Core
<1>9. Performed(row2, longer, done2)
  BY <1>2, <1>4, <1>5, <1>6, <1>7, <1>8, SucceedsPerformed, SMTT(20)
<1>10. Explained(longer, row2.status)
  BY <1>4, KeepsStatus DEF RunInv, Core
<1>11. DecisionsHold(row2, longer, ds)
  BY <1>1, <1>2, <1>4, KeepsDecisions, SMTT(20) DEF RunInv, Core
<1>12. DenialEnds(longer, row2.status)
  BY <1>1, <1>4, KeepsDenials DEF RunInv, Core
<1>13. Waits(row2)
  BY DEF Waits
<1>14. Fresher(longer, row2.step, row2.attempt)
  BY <1>2, <1>1, <1>4, <1>5, FresherOn
<1>15. RunInv(row2, longer, ds, done2)
  BY <1>4, <1>9, <1>10, <1>11, <1>12, <1>13, <1>14 DEF RunInv, Core
<1> QED BY <1>15 DEF longer

\* The decision about the step that a run waits at, among the earlier ones.
LEMMA OneMoreDecision ==
  ASSUME NEW row, NEW row2, NEW es, NEW longer, NEW ds, NEW done, NEW d,
         RunInv(row, es, ds, done), row.status = "waiting_approval",
         d.step = row.step, d.action = row.pending, d.allow \in BOOLEAN,
         \A c \in ds : c.step # d.step,
         Extends(es, longer),
         \E j \in DOMAIN longer :
           d.allow => Allowance(longer[j], d.step, d.action),
         row2.step = row.step, row2.hash = row.hash,
         row2.status = IF d.allow THEN "queued" ELSE "failed"
  PROVE  DecisionsHold(row2, longer, ds \cup {d})
<1>1. row \in RowSet /\ row.step \in Nat
  BY RowFields DEF RunInv, Core
<1>2. DecisionsHold(row2, longer, ds)
  BY <1>1, KeepsDecisions DEF RunInv, Core, Terminal
<1>3. /\ d.step \in 0..row2.step /\ d.step < Len(row2.hash.actions)
      /\ d.action = row2.hash.actions[d.step + 1] /\ IsGated(d.action)
  BY <1>1 DEF RunInv, Core, Waits
<1>4. row2.status # "waiting_approval" /\ (~d.allow => row2.status = "failed")
  OBVIOUS
<1>5. \A c, b \in ds \cup {d} : c.step = b.step => c = b
  BY <1>2 DEF DecisionsHold
<1> QED BY <1>2, <1>3, <1>4, <1>5 DEF DecisionsHold

LEMMA Allows ==
  ASSUME NEW row, NEW row2, NEW es, NEW ds, NEW done, NEW d, NEW x,
         RunInv(row, es, ds, done), row.status = "waiting_approval",
         d.step = row.step, d.action = row.pending, d.allow = TRUE,
         \A c \in ds : c.step # d.step,
         x \in EventSet, Allowance(x, d.step, d.action),
         row2 \in RowSet, row2.status = "queued", row2.step = row.step,
         row2.announced = row.announced, row2.hash = row.hash,
         row2.attempt = row.attempt
  PROVE  RunInv(row2, es \o <<x>>, ds \cup {d}, done)
<1> DEFINE longer == es \o <<x>>
<1>1. row \in RowSet /\ es \in Seq(EventSet) /\ row.status \notin Terminal
  BY DEF RunInv, Core, Terminal
<1>2. x.type = "approval.recorded" /\ x.code = "allow"
  BY DEF Allowance
<1>3. /\ <<x>> \in Seq(EventSet) /\ None(<<x>>, Progress \cup Denials)
      /\ One(<<x>>, StatusEvents, x) /\ One(<<x>>, {"approval.recorded"}, x)
  BY <1>2, Single
     DEF StatusEvents, Progress, Denials, Announcements, Starts, Ended, Checkpoints
<1>4. /\ longer \in Seq(EventSet) /\ Keeps(es, longer, Progress \cup Denials)
      /\ Gains(es, longer, StatusEvents, x)
  BY <1>1, <1>3, Grows
<1> HIDE DEF longer
<1>5. StatusAfter(x) = "queued"
  BY <1>2 DEF StatusAfter
<1>6. Explained(longer, row2.status)
  BY <1>4, <1>5, SetsStatus
<1>7. Waits(row2)
  BY DEF Waits
<1>8. Core(row2, longer, ds, done) /\ Fresher(longer, row.step, row.attempt)
  BY <1>1, <1>4, <1>6, <1>7, CoreMoves DEF RunInv
<1>9. \E j \in DOMAIN longer : d.allow => Allowance(longer[j], d.step, d.action)
  BY <1>4 DEF Gains, Idx
<1>10. Extends(es, longer)
  BY <1>4 DEF Keeps
<1>11. DecisionsHold(row2, longer, ds \cup {d})
  BY <1>9, <1>10, OneMoreDecision
<1>12. RunInv(row2, longer, ds \cup {d}, done)
  BY <1>8, <1>11 DEF RunInv, Core
<1> QED BY <1>12 DEF longer

LEMMA Denies ==
  ASSUME NEW row, NEW row2, NEW es, NEW ds, NEW done, NEW d, NEW x, NEW y, NEW z,
         RunInv(row, es, ds, done), row.status = "waiting_approval",
         d.step = row.step, d.action = row.pending, d.allow = FALSE,
         \A c \in ds : c.step # d.step,
         x \in EventSet, x.type = "approval.recorded",
         y \in EventSet, y.type = "approval.denied",
         z \in EventSet, z.type = "run.failed",
         row2 \in RowSet, row2.status = "failed", row2.step = row.step,
         row2.announced = row.announced, row2.hash = row.hash
  PROVE  RunInv(row2, es \o (<<x>> \o <<y, z>>), ds \cup {d}, done)
<1> DEFINE before == es \o (<<x>> \o <<y>>)
           longer == es \o (<<x>> \o <<y, z>>)
<1>1. row \in RowSet /\ es \in Seq(EventSet) /\ row.status \notin Terminal
  BY DEF RunInv, Core, Terminal
<1>2. /\ <<x>> \in Seq(EventSet) /\ <<y>> \in Seq(EventSet) /\ <<z>> \in Seq(EventSet)
      /\ None(<<x>>, Progress) /\ None(<<y>>, Progress) /\ None(<<z>>, Progress)
      /\ None(<<x>>, Denials) /\ One(<<y>>, Denials, y) /\ None(<<z>>, Denials)
      /\ One(<<z>>, StatusEvents, z)
  BY Single DEF StatusEvents, Progress, Denials, Announcements, Starts, Ended, Checkpoints
<1>3. /\ <<x>> \o <<y>> \in Seq(EventSet) /\ None(<<x>> \o <<y>>, Progress)
      /\ One(<<x>> \o <<y>>, Denials, y)
  BY <1>2, Grows, ConcatNone, ConcatOne
<1>4. /\ before \in Seq(EventSet) /\ Keeps(es, before, Progress)
      /\ Gains(es, before, Denials, y)
  BY <1>1, <1>3, Grows
<1>5. longer = before \o <<z>>
  <2>1. <<y, z>> = <<y>> \o <<z>>
    <3>1. /\ <<y>> \o <<z>> \in Seq(EventSet) /\ <<y, z>> \in Seq(EventSet)
          /\ Len(<<y>> \o <<z>>) = 2 /\ Len(<<y, z>>) = 2
          /\ (<<y>> \o <<z>>)[1] = y /\ (<<y>> \o <<z>>)[2] = z
      BY <1>2, ConcatProperties
    <3>2. \A i \in 1..2 : (<<y>> \o <<z>>)[i] = <<y, z>>[i]
      BY <3>1
    <3> QED BY <3>1, <3>2, SeqEqual
  <2>2. <<x>> \o (<<y>> \o <<z>>) = (<<x>> \o <<y>>) \o <<z>>
    BY <1>2, ConcatAssociative
  <2>3. es \o ((<<x>> \o <<y>>) \o <<z>>) = (es \o (<<x>> \o <<y>>)) \o <<z>>
    BY <1>1, <1>2, <1>3, ConcatAssociative
  <2> QED BY <2>1, <2>2, <2>3
<1> HIDE DEF before, longer
<1>6. /\ longer \in Seq(EventSet) /\ Keeps(before, longer, Progress)
      /\ Keeps(before, longer, Denials) /\ Gains(before, longer, StatusEvents, z)
  BY <1>2, <1>4, <1>5, Grows
<1>7. StatusAfter(z) = "failed"
  BY DEF StatusAfter
<1>8. Explained(longer, row2.status)
  BY <1>6, <1>7, SetsStatus
<1>9. Keeps(es, longer, Progress)
  BY <1>4, <1>6 DEF Keeps, Extends
<1>10. Performed(row2, longer, done)
  BY <1>9, KeepsPerformed DEF RunInv, Core
<1>11. Extends(es, longer)
  BY <1>9 DEF Keeps
<1>12. PICK k \in Nat : /\ \A i \in DOMAIN es : i \in Nat /\ i < k
                        /\ Idx(before, Denials) = Idx(es, Denials) \cup {k}
  BY <1>4 DEF Gains
<1>13. Idx(longer, Denials) = {k}
  <2>1. Idx(es, Denials) = {}
    BY <1>1 DEF RunInv, Core, DenialEnds, Terminal
  <2> QED BY <2>1, <1>12, <1>6 DEF Keeps
<1>14. \A j \in Writes(longer) : j \in DOMAIN es
  <2>1. Keeps(es, longer, Successes)
    BY <1>9, KeepsFewer DEF Progress, Successes, Ended
  <2> QED BY <2>1, KeepsWrites
<1>15. DenialEnds(longer, row2.status)
  BY <1>12, <1>13, <1>14 DEF DenialEnds
<1>16. longer # <<>> /\ 1 \in DOMAIN longer
  <2>1. \E j \in DOMAIN longer : longer[j] = z
    BY <1>6 DEF Gains, Idx
  <2> QED BY <2>1, <1>6, LenProperties
<1>17. DecisionsHold(row2, longer, ds \cup {d})
  BY <1>11, <1>16, OneMoreDecision
<1>18. Waits(row2)
  BY DEF Waits
<1>19. RunInv(row2, longer, ds \cup {d}, done)
  BY <1>6, <1>8, <1>10, <1>15, <1>17, <1>18 DEF RunInv, Core, Terminal
<1> QED BY <1>19 DEF longer

LEMMA Creates ==
  ASSUME NEW row \in RowSet, NEW x \in EventSet, x.type = "run.created",
         row.status = "queued", row.step = 0, row.announced = -1
  PROVE  RunInv(row, <<>> \o <<x>>, {}, {})
<1> DEFINE longer == <<>> \o <<x>>
<1>1. /\ <<x>> \in Seq(EventSet) /\ None(<<x>>, Progress \cup Denials)
      /\ One(<<x>>, StatusEvents, x) /\ <<>> \in Seq(EventSet)
  BY Single, Nothing
     DEF StatusEvents, Progress, Denials, Announcements, Starts, Ended, Checkpoints
<1>2. /\ longer \in Seq(EventSet) /\ Keeps(<<>>, longer, Progress \cup Denials)
      /\ Gains(<<>>, longer, StatusEvents, x)
  BY <1>1, Grows
<1> HIDE DEF longer
<1>3. StatusAfter(x) = "queued"
  BY DEF StatusAfter
<1>4. Explained(longer, row.status)
  BY <1>2, <1>3, SetsStatus
<1>5. \A types : Idx(<<>>, types) = {}
  BY DEF Idx
<1>6. row.step <= Len(row.hash.actions)
  BY RowFields, Plans, LenProperties
<1>7. Performed(row, <<>>, {})
  <2>1. Cursor(row)
    BY <1>6 DEF Cursor
  <2>2. row.announced = -1 /\ 0..(-1) = {} /\ 1..0 = {}
    OBVIOUS
  <2>3. /\ Counts(<<>>, Announcements, 0, row.announced)
        /\ Counts(<<>>, Checkpoints, 1, row.step)
        /\ Counts(<<>>, Successes, 0, row.step - 1)
    BY <1>5, <2>2 DEF Counts
  <2>4. Writes(<<>>) = {}
    BY <1>5 DEF Writes
  <2>5. Approved(<<>>) /\ Written(<<>>, {})
    BY <2>4 DEF Approved, Written
  <2>6. Paired(<<>>)
    BY <1>5 DEF Paired, Once
  <2>7. Agree(<<>>, Announcements, row.hash.actions) /\ Agree(<<>>, Successes, row.hash.actions)
    BY <1>5 DEF Agree
  <2> QED BY <2>1, <2>3, <2>5, <2>6, <2>7 DEF Performed
<1>8. /\ Keeps(<<>>, longer, Progress) /\ Keeps(<<>>, longer, Denials)
      /\ Keeps(<<>>, longer, Starts)
  BY <1>2, KeepsFewer DEF Progress
<1>9. Performed(row, longer, {})
  BY <1>7, <1>8, KeepsPerformed
<1>10. Fresher(longer, row.step, row.attempt)
  BY <1>5, <1>8 DEF Fresher, Keeps
<1>11. DenialEnds(longer, row.status)
  BY <1>5, <1>8 DEF DenialEnds, Keeps
<1>12. DecisionsHold(row, longer, {}) /\ Waits(row)
  BY DEF DecisionsHold, Waits
<1>13. RunInv(row, longer, {}, {})
  BY <1>2, <1>4, <1>9, <1>10, <1>11, <1>12 DEF RunInv, Core
<1> QED BY <1>13 DEF longer

-----------------------------------------------------------------------------
(* The state of the engine *)

DecisionSet ==
  [step : Nat, action : Actions, allow : BOOLEAN, by : Reviewers \cup {Evaluator}]

EffectSet == [step : Nat, action : Actions]

AnyRow == RowSet \cup {Absent}

RefSet ==
  [run : Runs, evidence : [row : AnyRow, events : Seq(EventSet)]]

CaseSet == [mode : Modes, scenario : Names]

RequestSet ==
  [phase : {"idle", "advance", "returned", "choose"}, evaluates : BOOLEAN,
   run : Runs \cup {0}, left : Nat, seen : AnyRow]

EngineType ==
  /\ catalog \in Catalogs
  /\ rows \in [Runs -> AnyRow] /\ events \in [Runs -> Seq(EventSet)]
  /\ decisions \in [Runs -> SUBSET DecisionSet]
  /\ effects \in [Runs -> SUBSET EffectSet]
  /\ evaluations \in Seq([suite : Catalogs, runs : Seq(RefSet)])
  /\ request \in [Apps -> RequestSet]
  /\ batch \in [Apps -> [todo : Seq(CaseSet), refs : Seq(RefSet)]]

RunHolds(r) == RunInv(rows[r], events[r], decisions[r], effects[r])

\* A run that exists is as its trace tells.
LEMMA Existing ==
  ASSUME RunsInv, NEW r \in Runs, rows[r].status # "absent"
  PROVE  RunHolds(r) /\ rows[r] \in RowSet /\ events[r] \in Seq(EventSet)
<1>1. ~NoRun(rows[r], events[r], decisions[r], effects[r])
  BY DEF NoRun, Absent
<1>2. RunHolds(r)
  BY <1>1 DEF RunsInv, RunHolds
<1> QED BY <1>2 DEF RunHolds, RunInv, Core

LEMMA HashAction ==
  ASSUME NEW r, Compatible(r)
  PROVE  /\ ActionOf(r) = rows[r].hash.actions[rows[r].step + 1]
         /\ Exhausted(r) <=> rows[r].step >= Len(rows[r].hash.actions)
BY DEF Compatible, ActionOf, Exhausted

\* The action that an active run is at.
LEMMA ActionType ==
  ASSUME RunsInv, NEW r \in Runs, Active(r), Compatible(r), ~Exhausted(r)
  PROVE  /\ ActionOf(r) \in Actions /\ rows[r].step < Len(rows[r].hash.actions)
         /\ ActionOf(r).type \in {"call_tool", "finish", "fail"}
         /\ ActionOf(r).result \in STRING
<1>1. rows[r] \in RowSet
  BY Existing DEF Active
<1>2. /\ rows[r].step \in Nat /\ rows[r].hash.actions \in Seq(Actions)
      /\ Len(rows[r].hash.actions) \in Nat
  BY <1>1, RowFields, Plans, LenProperties
<1>3. rows[r].step < Len(rows[r].hash.actions)
  BY <1>2, HashAction
<1>4. rows[r].step + 1 \in 1..Len(rows[r].hash.actions)
  BY <1>2, <1>3
<1>5. ActionOf(r) \in Actions
  BY <1>2, <1>4, HashAction, ElementOfSeq
<1> QED BY <1>3, <1>5 DEF Actions

LEMMA OpenedRow ==
  ASSUME NEW r, rows[r] \in RowSet
  PROVE  /\ Opened(r) \in RowSet /\ Opened(r).status = "running"
         /\ Opened(r).announced = rows[r].step /\ Opened(r).step = rows[r].step
         /\ Opened(r).hash = rows[r].hash /\ Opened(r).attempt = rows[r].attempt
         /\ Opened(r).scenario = rows[r].scenario /\ Opened(r).mode = rows[r].mode
         /\ Opened(r).pending = rows[r].pending
<1> DEFINE row == rows[r]
           s == rows[r].step
<1>1. row \in RowSet /\ s \in Nat /\ s \in Int /\ s = row.step
  BY RowFields
<1>2. Opened(r) = [row EXCEPT !.status = "running", !.announced = s]
  BY DEF Opened
<1> HIDE DEF row, s
<1>3. Opened(r) \in RowSet
  BY <1>1, <1>2 DEF RowSet, Statuses
<1>4. /\ Opened(r).status = "running"
      /\ Opened(r).announced = s /\ Opened(r).step = row.step
      /\ Opened(r).hash = row.hash /\ Opened(r).attempt = row.attempt
      /\ Opened(r).scenario = row.scenario /\ Opened(r).mode = row.mode
      /\ Opened(r).pending = row.pending
  BY <1>1, <1>2 DEF RowSet
<1> QED BY <1>3, <1>4 DEF row, s

\* After run.running and policy.action the run is at its action.
LEMMA Opens ==
  ASSUME RunsInv, NEW r \in Runs, Active(r), Compatible(r), ~Exhausted(r)
  PROVE  /\ OpeningEvents(r) \in Seq(EventSet)
         /\ RunInv(Opened(r), events[r] \o OpeningEvents(r), decisions[r], effects[r])
<1> DEFINE row == rows[r]
           mid == [row EXCEPT !.status = "running"]
           a == IF row.status = "queued" THEN <<RunningEvent>> ELSE <<>>
           b == IF mid.announced # mid.step THEN <<AnnouncingEvent(mid)>> ELSE <<>>
<1>1. RunHolds(r) /\ row \in RowSet /\ events[r] \in Seq(EventSet)
  BY Existing DEF Active
<1>2. /\ mid \in RowSet /\ mid.status = "running" /\ mid.hash = row.hash
      /\ mid.step = row.step /\ mid.announced = row.announced
  BY <1>1, StatusRow DEF Statuses
<1>3. RunInv(mid, events[r] \o a, decisions[r], effects[r])
  BY <1>1, BeginsRunning DEF RunHolds, Active
<1>4. mid.step < Len(mid.hash.actions)
  BY <1>2, ActionType
<1>5. RunInv([mid EXCEPT !.announced = mid.step], (events[r] \o a) \o b,
             decisions[r], effects[r])
  BY <1>2, <1>3, <1>4, Announces
<1>6. Opened(r) = [mid EXCEPT !.announced = mid.step]
  BY <1>1, <1>2 DEF Opened
<1>7. a \in Seq(EventSet) /\ b \in Seq(EventSet)
  <2>1. RunningEvent \in EventSet
    BY BlankEvent DEF EventSet, EventTypes, RunningEvent
  <2>2. AnnouncingEvent(mid) \in EventSet
    <3> DEFINE n == mid.step
               c == mid.hash.actions[mid.step + 1]
    <3>1. n \in Int /\ c \in Actions
      <4>1. row.step \in Nat
        BY <1>1, RowFields
      <4>2. c = ActionOf(r)
        BY <1>2, HashAction
      <4> QED BY <1>2, <4>1, <4>2, ActionType
    <3>2. AnnouncingEvent(mid) = [Blank EXCEPT !.type = "policy.action", !.step = n,
                                               !.action = c]
      BY DEF AnnouncingEvent
    <3> HIDE DEF n, c, mid
    <3> QED BY <3>1, <3>2, BlankEvent DEF EventSet, EventTypes
  <2> QED BY <2>1, <2>2, Single, Nothing
<1>8. OpeningEvents(r) = a \o b
  <2>1. mid.hash.actions[mid.step + 1] = ActionOf(r)
    BY <1>2, HashAction
  <2>2. AnnouncingEvent(mid) =
          [Blank EXCEPT !.type = "policy.action", !.step = rows[r].step,
                        !.action = ActionOf(r)]
    BY <1>2, <2>1 DEF AnnouncingEvent
  <2> QED BY <1>2, <2>2 DEF OpeningEvents, RunningEvent
<1>9. OpeningEvents(r) \in Seq(EventSet)
  BY <1>7, <1>8, ConcatProperties
<1>10. (events[r] \o a) \o b = events[r] \o OpeningEvents(r)
  <2> DEFINE es == events[r]
  <2>1. es \in Seq(EventSet) /\ a \in Seq(EventSet) /\ b \in Seq(EventSet)
    BY <1>1, <1>7
  <2> HIDE DEF a, b, es
  <2>2. (es \o a) \o b = es \o (a \o b)
    BY <2>1, ConcatAssociative
  <2> QED BY <2>2, <1>8 DEF es
<1> QED BY <1>5, <1>6, <1>9, <1>10

\* A run whose scenario is over only opens.
LEMMA OpensExhausted ==
  ASSUME RunsInv, NEW r \in Runs, Active(r), Compatible(r), Exhausted(r)
  PROVE  /\ OpeningEvents(r) \in Seq(EventSet)
         /\ RunInv([rows[r] EXCEPT !.status = "running"],
                   events[r] \o OpeningEvents(r), decisions[r], effects[r])
<1> DEFINE a == IF rows[r].status = "queued" THEN <<RunningEvent>> ELSE <<>>
<1>1. RunHolds(r) /\ events[r] \in Seq(EventSet)
  BY Existing DEF Active
<1>2. RunInv([rows[r] EXCEPT !.status = "running"], events[r] \o a,
             decisions[r], effects[r])
  BY <1>1, BeginsRunning DEF RunHolds, Active
<1>3. a \in Seq(EventSet)
  <2>1. RunningEvent \in EventSet
    BY BlankEvent DEF EventSet, EventTypes, RunningEvent
  <2> QED BY <2>1, Single, Nothing
<1>4. OpeningEvents(r) = a \o <<>>
  BY DEF OpeningEvents, RunningEvent
<1>5. OpeningEvents(r) = a
  BY <1>3, <1>4, ConcatEmptySeq
<1> QED BY <1>2, <1>3, <1>5

-----------------------------------------------------------------------------
(* The transactions of _advance *)

\* Only this run is touched, and it is again as its trace tells.
Touched(r) ==
  \E row, es :
    \E ds \in SUBSET DecisionSet, done \in SUBSET EffectSet :
      /\ rows' = [rows EXCEPT ![r] = row] /\ events' = [events EXCEPT ![r] = es]
      /\ decisions' = [decisions EXCEPT ![r] = ds]
      /\ effects' = [effects EXCEPT ![r] = done]
      /\ RunInv(row, es, ds, done)

LEMMA TouchesRun ==
  ASSUME EngineType, NEW r \in Runs, NEW row, NEW es, NEW done \in SUBSET EffectSet,
         rows' = [rows EXCEPT ![r] = row], events' = [events EXCEPT ![r] = es],
         decisions' = decisions, effects' = [effects EXCEPT ![r] = done],
         RunInv(row, es, decisions[r], done)
  PROVE  Touched(r)
<1>1. decisions[r] \in SUBSET DecisionSet
  BY DEF EngineType
<1>2. decisions = [decisions EXCEPT ![r] = decisions[r]]
  BY DEF EngineType
<1> QED BY <1>1, <1>2 DEF Touched

LEMMA TouchesRow ==
  ASSUME EngineType, NEW r \in Runs, NEW row, NEW es,
         rows' = [rows EXCEPT ![r] = row], events' = [events EXCEPT ![r] = es],
         decisions' = decisions, effects' = effects,
         RunInv(row, es, decisions[r], effects[r])
  PROVE  Touched(r)
<1>1. effects[r] \in SUBSET EffectSet
  BY DEF EngineType
<1>2. effects = [effects EXCEPT ![r] = effects[r]]
  BY DEF EngineType
<1> QED BY <1>1, <1>2, TouchesRun

LEMMA Transacts ==
  ASSUME NEW e, NEW r, NEW row, NEW new, Transact(e, r, row, new)
  PROVE  /\ Active(r) /\ Compatible(r) /\ InAdvance(e, r)
         /\ rows' = [rows EXCEPT ![r] = row]
         /\ events' = [events EXCEPT ![r] = Join(@, Join(OpeningEvents(r), new))]
         /\ decisions' = decisions
BY DEF Transact, Save, Log, Join

\* What a failing transaction leaves, from what it was before its last event.
LEMMA FailsRun ==
  ASSUME EngineType, RunsInv, NEW e \in Apps, NEW r \in Runs, NEW row, NEW new,
         NEW code \in Codes, FailTransaction(e, r, row, new, code),
         OpeningEvents(r) \in Seq(EventSet), new \in Seq(EventSet),
         Core(row, (events[r] \o OpeningEvents(r)) \o new, decisions[r], effects[r]),
         row.status \notin Terminal
  PROVE  Touched(r)
<1> DEFINE es == events[r]
           o == OpeningEvents(r)
           f == <<FailedEvent(code)>>
           more == new \o f
<1>1. /\ Transact(e, r, FailedRow(row, code), more)
      /\ effects' = effects
  BY DEF FailTransaction
<1>2. f \in Seq(EventSet)
  BY FailedEventFields, Single
<1>3. RunInv(FailedRow(row, code), ((es \o o) \o new) \o f, decisions[r], effects[r])
  BY RunFails
<1> HIDE DEF f, more
<1>10. /\ rows' = [rows EXCEPT ![r] = FailedRow(row, code)]
       /\ events' = [events EXCEPT ![r] = Join(@, Join(o, more))]
       /\ decisions' = decisions /\ Active(r)
  BY <1>1, Transacts
<1>4. events[r] = es /\ es \in Seq(EventSet)
  BY <1>10, Existing DEF Active
<1> HIDE DEF es, o
<1>5. Join(es, Join(o, Join(new, f))) = Join(Join(Join(es, o), new), f)
  <2>1. o \in Seq(EventSet)
    BY DEF o
  <2> QED BY <1>2, <1>4, <2>1, FourBlocks
<1>6. Join(es, Join(o, more)) = ((es \o o) \o new) \o f
  BY <1>5 DEF more, Join
<1>7. RunInv(FailedRow(row, code), Join(es, Join(o, more)), decisions[r], effects[r])
  BY <1>3, <1>6
<1>8. events' = [events EXCEPT ![r] = Join(es, Join(o, more))]
  BY <1>10, <1>4
<1> QED BY <1>1, <1>10, <1>7, <1>8, TouchesRow

\* The same with no event between the opening and the last one.
LEMMA FailsAtOnce ==
  ASSUME EngineType, RunsInv, NEW e \in Apps, NEW r \in Runs, NEW row,
         NEW code \in Codes, FailTransaction(e, r, row, <<>>, code),
         OpeningEvents(r) \in Seq(EventSet),
         RunInv(row, events[r] \o OpeningEvents(r), decisions[r], effects[r]),
         row.status \notin Terminal
  PROVE  Touched(r)
<1>1. Core(row, events[r] \o OpeningEvents(r), decisions[r], effects[r])
  BY DEF RunInv
<1>2. events[r] \o OpeningEvents(r) \in Seq(EventSet)
  BY <1>1 DEF Core
<1>3. (events[r] \o OpeningEvents(r)) \o <<>> = events[r] \o OpeningEvents(r)
  BY <1>2, ConcatEmptySeq
<1>4. <<>> \in Seq(EventSet)
  OBVIOUS
<1> QED BY <1>1, <1>3, <1>4, FailsRun

LEMMA ExhaustHolds ==
  ASSUME EngineType, RunsInv, NEW e \in Apps, NEW r \in Runs, Exhaust(e, r)
  PROVE  Touched(r)
<1> DEFINE row == [rows[r] EXCEPT !.status = "running"]
<1>1. /\ Active(r) /\ Compatible(r) /\ Exhausted(r)
      /\ FailTransaction(e, r, row, <<>>, "scenario_exhausted")
  BY DEF Exhaust
<1>2. rows[r] \in RowSet
  BY <1>1, Existing DEF Active
<1>3. row.status = "running"
  BY <1>2, StatusRow DEF Statuses
<1>4. /\ OpeningEvents(r) \in Seq(EventSet)
      /\ RunInv(row, events[r] \o OpeningEvents(r), decisions[r], effects[r])
  BY <1>1, OpensExhausted
<1> HIDE DEF row
<1>5. "scenario_exhausted" \in Codes /\ row.status \notin Terminal
  BY <1>3 DEF Codes, Terminal
<1> QED BY <1>1, <1>4, <1>5, FailsAtOnce

\* An active run whose scenario goes on, at its action.
LEMMA AtAction ==
  ASSUME RunsInv, NEW r \in Runs, Active(r), Compatible(r), ~Exhausted(r)
  PROVE  /\ OpeningEvents(r) \in Seq(EventSet)
         /\ RunInv(Opened(r), events[r] \o OpeningEvents(r), decisions[r], effects[r])
         /\ events[r] \in Seq(EventSet) /\ events[r] \o OpeningEvents(r) \in Seq(EventSet)
         /\ Opened(r) \in RowSet /\ Opened(r).status = "running"
         /\ Opened(r).status \notin Terminal
         /\ Opened(r).announced = Opened(r).step /\ Opened(r).step = rows[r].step
         /\ Opened(r).hash = rows[r].hash /\ Opened(r).attempt = rows[r].attempt
         /\ Opened(r).step < Len(Opened(r).hash.actions)
         /\ ActionOf(r) = Opened(r).hash.actions[Opened(r).step + 1]
         /\ ActionOf(r) \in Actions
         /\ rows[r].step \in Nat /\ rows[r].attempt \in Nat
<1>1. rows[r] \in RowSet /\ events[r] \in Seq(EventSet)
  BY Existing DEF Active
<1>2. /\ Opened(r) \in RowSet /\ Opened(r).status = "running"
      /\ Opened(r).announced = Opened(r).step /\ Opened(r).step = rows[r].step
      /\ Opened(r).hash = rows[r].hash /\ Opened(r).attempt = rows[r].attempt
  BY <1>1, OpenedRow
<1>3. Opened(r).status \notin Terminal
  BY <1>2 DEF Terminal
<1>4. OpeningEvents(r) \in Seq(EventSet)
  BY Opens
<1>5. events[r] \o OpeningEvents(r) \in Seq(EventSet)
  BY <1>1, <1>4, ConcatProperties
<1>6. RunInv(Opened(r), events[r] \o OpeningEvents(r), decisions[r], effects[r])
  BY Opens
<1>7. /\ rows[r].step < Len(rows[r].hash.actions) /\ ActionOf(r) \in Actions
      /\ ActionOf(r) = rows[r].hash.actions[rows[r].step + 1]
  BY ActionType, HashAction
<1>8. rows[r].step \in Nat /\ rows[r].attempt \in Nat
  BY <1>1, RowFields
<1> QED BY <1>1, <1>2, <1>3, <1>4, <1>5, <1>6, <1>7, <1>8

LEMMA GiveUpHolds ==
  ASSUME EngineType, RunsInv, NEW e \in Apps, NEW r \in Runs, GiveUp(e, r)
  PROVE  Touched(r)
<1>1. /\ Active(r) /\ Compatible(r) /\ ~Exhausted(r)
      /\ FailTransaction(e, r, Opened(r), <<>>, ActionOf(r).result)
  BY DEF GiveUp
<1>2. ActionOf(r).result \in Codes
  BY <1>1, ActionType DEF Codes
<1> QED BY <1>1, <1>2, AtAction, FailsAtOnce

LEMMA RejectCallHolds ==
  ASSUME EngineType, RunsInv, NEW e \in Apps, NEW r \in Runs, RejectCall(e, r)
  PROVE  Touched(r)
<1> DEFINE x == [Blank EXCEPT !.type = "tool.preflight.failed", !.step = rows[r].step,
                              !.action = ActionOf(r), !.code = "invalid_input"]
           es == events[r] \o OpeningEvents(r)
<1>1. /\ Active(r) /\ Compatible(r) /\ ~Exhausted(r)
      /\ FailTransaction(e, r, Opened(r), IF ActionOf(r).valid THEN <<>> ELSE <<x>>,
                         RefusalCode(r))
      /\ RefusalCode(r) # "none"
  BY DEF RejectCall, Calling
<1>2. RefusalCode(r) \in Codes
  BY <1>1 DEF RefusalCode, Codes
<1>3. CASE ActionOf(r).valid
  BY <1>1, <1>2, <1>3, AtAction, FailsAtOnce
<1>4. CASE ~ActionOf(r).valid
  <2>1. x \in EventSet /\ x.type = "tool.preflight.failed"
    <3> DEFINE n == rows[r].step
               a == ActionOf(r)
    <3>1. n \in Int /\ a \in Actions
      BY <1>1, AtAction
    <3>2. x = [Blank EXCEPT !.type = "tool.preflight.failed", !.step = n,
                            !.action = a, !.code = "invalid_input"]
      OBVIOUS
    <3> HIDE DEF n, a, x
    <3>3. x \in EventSet
      BY <3>1, <3>2, BlankEvent DEF EventSet, EventTypes, Codes
    <3>4. x.type = "tool.preflight.failed"
      BY <3>2, BlankEvent DEF EventSet
    <3> QED BY <3>3, <3>4
  <2> HIDE DEF x
  <2>2. RunInv(Opened(r), es \o <<x>>, decisions[r], effects[r])
    BY <1>1, <2>1, AtAction, Notes
  <2>3. <<x>> \in Seq(EventSet)
    BY <2>1
  <2>4. Core(Opened(r), es \o <<x>>, decisions[r], effects[r])
    BY <2>2 DEF RunInv
  <2> QED BY <1>1, <1>2, <1>4, <2>3, <2>4, AtAction, FailsRun
<1> QED BY <1>3, <1>4

LEMMA TransactsRun ==
  ASSUME EngineType, RunsInv, NEW e \in Apps, NEW r \in Runs, NEW row, NEW new,
         NEW done \in SUBSET EffectSet, Transact(e, r, row, new),
         effects' = [effects EXCEPT ![r] = done],
         OpeningEvents(r) \in Seq(EventSet), new \in Seq(EventSet),
         RunInv(row, (events[r] \o OpeningEvents(r)) \o new, decisions[r], done)
  PROVE  Touched(r)
<1> DEFINE es == events[r]
           o == OpeningEvents(r)
<1>1. /\ rows' = [rows EXCEPT ![r] = row]
      /\ events' = [events EXCEPT ![r] = Join(@, Join(o, new))]
      /\ decisions' = decisions /\ Active(r)
  BY Transacts
<1>2. events[r] = es /\ es \in Seq(EventSet) /\ o \in Seq(EventSet)
  BY <1>1, Existing DEF Active
<1>3. RunInv(row, Join(Join(es, o), new), decisions[r], done)
  BY DEF Join
<1> HIDE DEF es, o
<1>4. Join(Join(es, o), new) = Join(es, Join(o, new))
  BY <1>2, Joining
<1>5. RunInv(row, Join(es, Join(o, new)), decisions[r], done)
  BY <1>3, <1>4
<1>6. events' = [events EXCEPT ![r] = Join(es, Join(o, new))]
  BY <1>1, <1>2
<1> QED BY <1>1, <1>5, <1>6, TouchesRun

LEMMA TransactsRow ==
  ASSUME EngineType, RunsInv, NEW e \in Apps, NEW r \in Runs, NEW row, NEW new,
         Transact(e, r, row, new), effects' = effects,
         OpeningEvents(r) \in Seq(EventSet), new \in Seq(EventSet),
         RunInv(row, (events[r] \o OpeningEvents(r)) \o new, decisions[r], effects[r])
  PROVE  Touched(r)
<1>1. effects[r] \in SUBSET EffectSet /\ effects' = [effects EXCEPT ![r] = effects[r]]
  BY DEF EngineType
<1> QED BY <1>1, TransactsRun

\* An event about the action of a step, and about an attempt at it.
StepEvent(t, s, a) == [Blank EXCEPT !.type = t, !.step = s, !.action = a]

CodedStepEvent(t, s, a, c) == [StepEvent(t, s, a) EXCEPT !.code = c]

LEMMA StepEventFields ==
  ASSUME NEW t \in EventTypes, NEW s \in Nat, NEW a \in Actions
  PROVE  /\ StepEvent(t, s, a) \in EventSet
         /\ StepEvent(t, s, a).type = t
         /\ StepEvent(t, s, a).step = s
         /\ StepEvent(t, s, a).action = a
         /\ \A c \in Codes : /\ CodedStepEvent(t, s, a, c) \in EventSet
                             /\ CodedStepEvent(t, s, a, c).type = t
                             /\ CodedStepEvent(t, s, a, c).step = s
                             /\ CodedStepEvent(t, s, a, c).action = a
                             /\ CodedStepEvent(t, s, a, c).code = c
<1>1. s \in Int
  OBVIOUS
<1>2. StepEvent(t, s, a) \in EventSet
  BY <1>1, BlankEvent DEF EventSet, StepEvent
<1>3. /\ StepEvent(t, s, a).type = t
      /\ StepEvent(t, s, a).step = s
      /\ StepEvent(t, s, a).action = a
  BY BlankEvent DEF EventSet, StepEvent
<1>4. ASSUME NEW c \in Codes
      PROVE  /\ CodedStepEvent(t, s, a, c) \in EventSet
             /\ CodedStepEvent(t, s, a, c).type = t
             /\ CodedStepEvent(t, s, a, c).step = s
             /\ CodedStepEvent(t, s, a, c).action = a
             /\ CodedStepEvent(t, s, a, c).code = c
  <2>1. CodedStepEvent(t, s, a, c) \in EventSet
    BY <1>2 DEF EventSet, CodedStepEvent
  <2> QED BY <2>1, <1>2, <1>3 DEF EventSet, CodedStepEvent
<1> QED BY <1>2, <1>3, <1>4

CallEvent(t, s, n, a) == [Blank EXCEPT !.type = t, !.step = s, !.attempt = n, !.action = a]

CodedCallEvent(t, s, n, a, c) == [CallEvent(t, s, n, a) EXCEPT !.code = c]

LEMMA CallEventFields ==
  ASSUME NEW t \in EventTypes, NEW s \in Nat, NEW n \in Nat, NEW a \in Actions
  PROVE  /\ CallEvent(t, s, n, a) \in EventSet
         /\ CallEvent(t, s, n, a).type = t
         /\ CallEvent(t, s, n, a).step = s
         /\ CallEvent(t, s, n, a).attempt = n
         /\ CallEvent(t, s, n, a).action = a
         /\ \A c \in Codes : /\ CodedCallEvent(t, s, n, a, c) \in EventSet
                             /\ CodedCallEvent(t, s, n, a, c).type = t
                             /\ CodedCallEvent(t, s, n, a, c).step = s
                             /\ CodedCallEvent(t, s, n, a, c).attempt = n
                             /\ CodedCallEvent(t, s, n, a, c).action = a
                             /\ CodedCallEvent(t, s, n, a, c).code = c
<1>1. s \in Int
  OBVIOUS
<1>2. CallEvent(t, s, n, a) \in EventSet
  BY <1>1, BlankEvent DEF EventSet, CallEvent
<1>3. /\ CallEvent(t, s, n, a).type = t
      /\ CallEvent(t, s, n, a).step = s
      /\ CallEvent(t, s, n, a).attempt = n
      /\ CallEvent(t, s, n, a).action = a
  BY BlankEvent DEF EventSet, CallEvent
<1>4. ASSUME NEW c \in Codes
      PROVE  /\ CodedCallEvent(t, s, n, a, c) \in EventSet
             /\ CodedCallEvent(t, s, n, a, c).type = t
             /\ CodedCallEvent(t, s, n, a, c).step = s
             /\ CodedCallEvent(t, s, n, a, c).attempt = n
             /\ CodedCallEvent(t, s, n, a, c).action = a
             /\ CodedCallEvent(t, s, n, a, c).code = c
  <2>1. CodedCallEvent(t, s, n, a, c) \in EventSet
    BY <1>2 DEF EventSet, CodedCallEvent
  <2> QED BY <2>1, <1>2, <1>3 DEF EventSet, CodedCallEvent
<1> QED BY <1>2, <1>3, <1>4

LEMMA AwaitApprovalHolds ==
  ASSUME EngineType, RunsInv, NEW e \in Apps, NEW r \in Runs, AwaitApproval(e, r)
  PROVE  Touched(r)
<1> DEFINE x == [Blank EXCEPT !.type = "run.waiting_approval", !.step = rows[r].step,
                              !.action = ActionOf(r)]
           row == Opened(r)
           row2 == [row EXCEPT !.status = "waiting_approval", !.pending = ActionOf(r)]
           es == events[r] \o OpeningEvents(r)
<1>1. /\ Active(r) /\ Compatible(r) /\ ~Exhausted(r)
      /\ Transact(e, r, row2, <<x>>) /\ effects' = effects
      /\ DecisionsAt(r, rows[r].step) = {}
      /\ ActionOf(r).type = "call_tool" /\ ActionOf(r).tool = "prepare_rollback"
  BY DEF AwaitApproval, Calling, Gated
<1>2. /\ row \in RowSet /\ row.status = "running" /\ row.announced = row.step
      /\ row.step = rows[r].step /\ row.step < Len(row.hash.actions)
      /\ ActionOf(r) = row.hash.actions[row.step + 1]
      /\ ActionOf(r) \in Actions /\ rows[r].step \in Nat
  BY <1>1, AtAction
<1>3. x \in EventSet /\ x.type = "run.waiting_approval"
  <2>1. "run.waiting_approval" \in EventTypes
    BY DEF EventTypes
  <2>2. x = StepEvent("run.waiting_approval", rows[r].step, ActionOf(r))
    BY DEF StepEvent
  <2> HIDE DEF x, row, row2, es
  <2> QED BY <2>1, <2>2, <1>2, StepEventFields
<1>4. /\ row2 \in RowSet /\ row2.status = "waiting_approval"
      /\ row2.step = row.step /\ row2.announced = row.announced /\ row2.hash = row.hash
      /\ row2.attempt = row.attempt /\ row2.pending = ActionOf(r)
  <2> DEFINE a == ActionOf(r)
  <2>1. row2 = [row EXCEPT !.status = "waiting_approval", !.pending = a]
    OBVIOUS
  <2>2. a \in Actions \cup {NoAction}
    BY <1>2
  <2> HIDE DEF a, row2, row
  <2>3. row2 \in RowSet
    BY <2>1, <2>2, <1>2 DEF RowSet, Statuses
  <2>4. /\ row2.status = "waiting_approval"
        /\ row2.step = row.step /\ row2.announced = row.announced /\ row2.hash = row.hash
        /\ row2.attempt = row.attempt /\ row2.pending = a
    BY <2>1, <1>2 DEF RowSet
  <2> QED BY <2>3, <2>4 DEF a
<1>5. \A d \in decisions[r] : d.step # row2.step
  BY <1>1, <1>2, <1>4 DEF DecisionsAt
<1>6. Waits(row2)
  BY <1>1, <1>2, <1>4 DEF Waits, IsGated
<1>7. RunInv(row, es, decisions[r], effects[r])
  BY <1>1, AtAction
<1> HIDE DEF x, row2, row, es
<1>8. RunInv(row2, es \o <<x>>, decisions[r], effects[r])
  BY <1>2, <1>3, <1>4, <1>5, <1>6, <1>7, Settles
<1>9. <<x>> \in Seq(EventSet) /\ OpeningEvents(r) \in Seq(EventSet)
  BY <1>1, <1>3, AtAction
<1> QED BY <1>1, <1>8, <1>9, TransactsRow DEF es

LEMMA FinishHolds ==
  ASSUME EngineType, RunsInv, NEW e \in Apps, NEW r \in Runs, Finish(e, r)
  PROVE  Touched(r)
<1> DEFINE c == ActionOf(r).result
           x == [Blank EXCEPT !.type = "run.succeeded", !.code = c]
           row == Opened(r)
           row2 == [row EXCEPT !.status = "succeeded", !.result = c]
           es == events[r] \o OpeningEvents(r)
<1>1. /\ Active(r) /\ Compatible(r) /\ ~Exhausted(r)
      /\ Transact(e, r, row2, <<x>>) /\ effects' = effects
  BY DEF Finish
<1>2. row \in RowSet /\ row.status = "running"
  BY <1>1, AtAction
<1>3. c \in Codes
  BY <1>1, ActionType DEF Codes
<1>7. RunInv(row, es, decisions[r], effects[r])
  BY <1>1, AtAction
<1> HIDE DEF c, row, es
<1>4. x \in EventSet /\ x.type = "run.succeeded"
  <2>1. x \in EventSet
    BY <1>3, BlankEvent DEF EventSet, EventTypes
  <2> QED BY <2>1, BlankEvent DEF EventSet
<1>5. /\ row2 \in RowSet /\ row2.status = "succeeded"
      /\ row2.step = row.step /\ row2.announced = row.announced /\ row2.hash = row.hash
      /\ row2.attempt = row.attempt
  <2>1. row2 \in RowSet
    BY <1>2, <1>3 DEF RowSet, Statuses
  <2> QED BY <2>1, <1>2 DEF RowSet
<1> HIDE DEF x, row2
<1>6. Waits(row2)
  BY <1>5 DEF Waits
<1>8. RunInv(row2, es \o <<x>>, decisions[r], effects[r])
  BY <1>2, <1>4, <1>5, <1>6, <1>7, Settles
<1>9. <<x>> \in Seq(EventSet) /\ OpeningEvents(r) \in Seq(EventSet)
  BY <1>1, <1>4, AtAction
<1> QED BY <1>1, <1>8, <1>9, TransactsRow DEF es

-----------------------------------------------------------------------------
(* Attempts *)

\* The events of the attempt that a run is at.
LEMMA AttemptEvents ==
  ASSUME RunsInv, NEW r \in Runs, Active(r), Compatible(r), ~Exhausted(r),
         NEW t \in EventTypes
  PROVE  /\ AttemptEvent(r, t) \in EventSet
         /\ AttemptEvent(r, t).type = t /\ AttemptEvent(r, t).step = rows[r].step
         /\ AttemptEvent(r, t).attempt = rows[r].attempt
         /\ AttemptEvent(r, t).action = ActionOf(r)
         /\ \A c \in Codes :
              /\ [AttemptEvent(r, t) EXCEPT !.code = c] \in EventSet
              /\ [AttemptEvent(r, t) EXCEPT !.code = c].type = t
              /\ [AttemptEvent(r, t) EXCEPT !.code = c].step = rows[r].step
              /\ [AttemptEvent(r, t) EXCEPT !.code = c].attempt = rows[r].attempt
              /\ [AttemptEvent(r, t) EXCEPT !.code = c].action = ActionOf(r)
<1> DEFINE n == rows[r].step
           k == rows[r].attempt
           a == ActionOf(r)
<1>1. n \in Nat /\ k \in Nat /\ a \in Actions
  BY AtAction
<1>2. AttemptEvent(r, t) = CallEvent(t, n, k, a)
  BY DEF AttemptEvent, CallEvent
<1>3. \A c : [AttemptEvent(r, t) EXCEPT !.code = c] = CodedCallEvent(t, n, k, a, c)
  BY <1>2 DEF CodedCallEvent
<1> HIDE DEF n, k, a
<1>4. /\ CallEvent(t, n, k, a) \in EventSet
      /\ CallEvent(t, n, k, a).type = t /\ CallEvent(t, n, k, a).step = n
      /\ CallEvent(t, n, k, a).attempt = k /\ CallEvent(t, n, k, a).action = a
      /\ \A c \in Codes :
           /\ CodedCallEvent(t, n, k, a, c) \in EventSet
           /\ CodedCallEvent(t, n, k, a, c).type = t
           /\ CodedCallEvent(t, n, k, a, c).step = n
           /\ CodedCallEvent(t, n, k, a, c).attempt = k
           /\ CodedCallEvent(t, n, k, a, c).action = a
  BY <1>1, CallEventFields
<1>5. /\ AttemptEvent(r, t) \in EventSet
      /\ AttemptEvent(r, t).type = t /\ AttemptEvent(r, t).step = n
      /\ AttemptEvent(r, t).attempt = k /\ AttemptEvent(r, t).action = a
  BY <1>2, <1>4
<1>6. ASSUME NEW c \in Codes
      PROVE  /\ [AttemptEvent(r, t) EXCEPT !.code = c] \in EventSet
             /\ [AttemptEvent(r, t) EXCEPT !.code = c].type = t
             /\ [AttemptEvent(r, t) EXCEPT !.code = c].step = n
             /\ [AttemptEvent(r, t) EXCEPT !.code = c].attempt = k
             /\ [AttemptEvent(r, t) EXCEPT !.code = c].action = a
  BY <1>3, <1>4
<1> QED BY <1>5, <1>6 DEF n, k, a

LEMMA FaultCodes ==
  ASSUME EngineType, RunsInv, NEW r \in Runs, Active(r), Compatible(r)
  PROVE  FaultKind(r) \in Codes /\ FailureCode(FaultKind(r)) \in Codes
<1>1. rows[r] \in RowSet
  BY Existing DEF Active
<1>2. catalog[rows[r].scenario].faults \subseteq Faults
  BY <1>1, RowFields, Plans DEF Compatible
<1>3. FaultKind(r) \in Codes
  <2>1. CASE FaultsNow(r) = {}
    BY <2>1 DEF FaultKind, Codes
  <2>2. CASE FaultsNow(r) # {}
    <3> DEFINE f == CHOOSE f \in FaultsNow(r) : TRUE
    <3>1. f \in Faults
      BY <1>2, <2>2 DEF FaultsNow
    <3>2. f.type \in STRING
      BY <3>1 DEF Faults
    <3> QED BY <2>2, <3>2 DEF FaultKind, Codes
  <2> QED BY <2>1, <2>2
<1>4. ASSUME NEW kind \in Codes PROVE FailureCode(kind) \in Codes
  <2>1. FailureCode(kind) \in {"tool_timeout", "invalid_output", kind}
    BY DEF FailureCode
  <2> QED BY <2>1 DEF Codes
<1> QED BY <1>3, <1>4

\* The first events of an attempt.
LEMMA StartedBlock ==
  ASSUME EngineType, RunsInv, NEW r \in Runs, Active(r), Compatible(r), ~Exhausted(r)
  PROVE  /\ StartedEvents(r) \in Seq(EventSet)
         /\ One(StartedEvents(r), Starts, AttemptEvent(r, "tool.attempt.started"))
         /\ \A types : types \cap {"tool.attempt.started", "fault.injected"} = {} =>
              None(StartedEvents(r), types)
<1> DEFINE x == AttemptEvent(r, "tool.attempt.started")
           f == [AttemptEvent(r, "fault.injected") EXCEPT !.code = FaultKind(r)]
           b == IF FaultsNow(r) = {} THEN <<>> ELSE <<f>>
<1>1. x \in EventSet /\ x.type = "tool.attempt.started"
  BY AttemptEvents DEF EventTypes
<1>2. f \in EventSet /\ f.type = "fault.injected"
  BY AttemptEvents, FaultCodes DEF EventTypes
<1>3. StartedEvents(r) = <<x>> \o b
  BY DEF StartedEvents
<1> HIDE DEF x, f
<1>4. <<x>> \in Seq(EventSet) /\ One(<<x>>, Starts, x)
  BY <1>1, Single DEF Starts
<1>5. b \in Seq(EventSet) /\ None(b, Starts)
  BY <1>2, Single, Nothing DEF Starts
<1>6. <<x>> \o b \in Seq(EventSet) /\ One(<<x>> \o b, Starts, x)
  BY <1>4, <1>5, Grows, ConcatOne
<1>7. ASSUME NEW types, types \cap {"tool.attempt.started", "fault.injected"} = {}
      PROVE  None(<<x>> \o b, types)
  <2>1. None(<<x>>, types)
    BY <1>1, <1>7, Single
  <2>2. None(b, types)
    BY <1>2, <1>7, Single, Nothing
  <2> QED BY <1>4, <1>5, <2>1, <2>2, ConcatNone
<1> QED BY <1>3, <1>6, <1>7 DEF x

\* The events of an attempt that failed.
LEMMA FailedBlock ==
  ASSUME EngineType, RunsInv, NEW r \in Runs, Active(r), Compatible(r), ~Exhausted(r)
  PROVE  \E x, y \in EventSet :
           /\ FailedAttempt(r) \in Seq(EventSet)
           /\ One(FailedAttempt(r), Starts, x) /\ One(FailedAttempt(r), Ended, y)
           /\ None(FailedAttempt(r), Announcements \cup Successes \cup Checkpoints)
           /\ None(FailedAttempt(r), StatusEvents \cup Denials)
           /\ x.step = rows[r].step /\ x.attempt = rows[r].attempt
           /\ Identity(x) = Identity(y)
<1> DEFINE x == AttemptEvent(r, "tool.attempt.started")
           v == AttemptEvent(r, "tool.output.validation_failed")
           y == [AttemptEvent(r, "tool.attempt.failed")
                   EXCEPT !.code = FailureCode(FaultKind(r))]
           a == StartedEvents(r)
           b == IF FaultKind(r) = "malformed_output" THEN <<v>> ELSE <<>>
<1>1. /\ x \in EventSet /\ x.type = "tool.attempt.started" /\ x.step = rows[r].step
      /\ x.attempt = rows[r].attempt /\ x.action = ActionOf(r)
  BY AttemptEvents DEF EventTypes
<1>2. v \in EventSet /\ v.type = "tool.output.validation_failed"
  BY AttemptEvents DEF EventTypes
<1>3. /\ y \in EventSet /\ y.type = "tool.attempt.failed" /\ y.step = rows[r].step
      /\ y.attempt = rows[r].attempt /\ y.action = ActionOf(r)
  BY AttemptEvents, FaultCodes DEF EventTypes
<1>4. FailedAttempt(r) = (a \o b) \o <<y>>
  BY DEF FailedAttempt
<1>5. a \in Seq(EventSet) /\ One(a, Starts, x)
  BY StartedBlock
<1>6. /\ None(a, Ended)
      /\ None(a, Announcements \cup Successes \cup Checkpoints)
      /\ None(a, StatusEvents \cup Denials)
  <2>1. /\ Ended \cap {"tool.attempt.started", "fault.injected"} = {}
        /\ (Announcements \cup Successes \cup Checkpoints)
             \cap {"tool.attempt.started", "fault.injected"} = {}
        /\ (StatusEvents \cup Denials)
             \cap {"tool.attempt.started", "fault.injected"} = {}
    BY DEF Ended, Announcements, Successes, Checkpoints, StatusEvents, Denials
  <2> QED BY <2>1, StartedBlock
<1> HIDE DEF x, v, y, a
<1>7. /\ b \in Seq(EventSet) /\ None(b, Starts) /\ None(b, Ended)
      /\ None(b, Announcements \cup Successes \cup Checkpoints)
      /\ None(b, StatusEvents \cup Denials)
  BY <1>2, Single, Nothing
     DEF Starts, Ended, Announcements, Successes, Checkpoints, StatusEvents, Denials
<1>8. /\ <<y>> \in Seq(EventSet) /\ None(<<y>>, Starts) /\ One(<<y>>, Ended, y)
      /\ None(<<y>>, Announcements \cup Successes \cup Checkpoints)
      /\ None(<<y>>, StatusEvents \cup Denials)
  BY <1>3, Single
     DEF Starts, Ended, Announcements, Successes, Checkpoints, StatusEvents, Denials
<1> HIDE DEF b
<1>9. /\ a \o b \in Seq(EventSet) /\ One(a \o b, Starts, x) /\ None(a \o b, Ended)
      /\ None(a \o b, Announcements \cup Successes \cup Checkpoints)
      /\ None(a \o b, StatusEvents \cup Denials)
  BY <1>5, <1>6, <1>7, Grows, ConcatOne, ConcatNone
<1> DEFINE c == a \o b
<1> HIDE DEF c
<1>10. /\ c \o <<y>> \in Seq(EventSet) /\ One(c \o <<y>>, Starts, x)
       /\ One(c \o <<y>>, Ended, y)
       /\ None(c \o <<y>>, Announcements \cup Successes \cup Checkpoints)
       /\ None(c \o <<y>>, StatusEvents \cup Denials)
  BY <1>8, <1>9, Grows, ConcatOne, ConcatNone DEF c
<1>11. Identity(x) = Identity(y)
  BY <1>1, <1>3 DEF Identity
<1> QED BY <1>1, <1>3, <1>4, <1>10, <1>11 DEF c

LEMMA AttemptsFail ==
  ASSUME EngineType, RunsInv, NEW r \in Runs, Active(r), Compatible(r), ~Exhausted(r)
  PROVE  /\ FailedAttempt(r) \in Seq(EventSet)
         /\ Core(Opened(r), (events[r] \o OpeningEvents(r)) \o FailedAttempt(r),
                 decisions[r], effects[r])
         /\ \A row2 : row2 = [Opened(r) EXCEPT !.attempt = @ + 1] =>
              RunInv(row2, (events[r] \o OpeningEvents(r)) \o FailedAttempt(r),
                     decisions[r], effects[r])
<1> DEFINE row == Opened(r)
           es == events[r] \o OpeningEvents(r)
           new == FailedAttempt(r)
<1>1. PICK x \in EventSet, y \in EventSet :
        /\ new \in Seq(EventSet)
        /\ One(new, Starts, x) /\ One(new, Ended, y)
        /\ None(new, Announcements \cup Successes \cup Checkpoints)
        /\ None(new, StatusEvents \cup Denials)
        /\ x.step = rows[r].step /\ x.attempt = rows[r].attempt
        /\ Identity(x) = Identity(y)
  BY FailedBlock
<1>2. /\ RunInv(row, es, decisions[r], effects[r]) /\ row.status = "running"
      /\ row.step = rows[r].step /\ row.attempt = rows[r].attempt
  BY AtAction
<1> HIDE DEF row, es, new
<1>3. x.step = row.step /\ x.attempt = row.attempt
  BY <1>1, <1>2
<1>4. /\ Core(row, es \o new, decisions[r], effects[r])
      /\ \A row2 : row2 = [row EXCEPT !.attempt = @ + 1] =>
           RunInv(row2, es \o new, decisions[r], effects[r])
  BY <1>1, <1>2, <1>3, AttemptFails
<1> QED BY <1>1, <1>4 DEF row, es, new

LEMMA RetryAttemptHolds ==
  ASSUME EngineType, RunsInv, NEW e \in Apps, NEW r \in Runs, RetryAttempt(e, r)
  PROVE  Touched(r)
<1> DEFINE row2 == [Opened(r) EXCEPT !.attempt = @ + 1]
<1>1. /\ Active(r) /\ Compatible(r) /\ ~Exhausted(r)
      /\ Transact(e, r, row2, FailedAttempt(r)) /\ effects' = effects
  BY DEF RetryAttempt, Attempting, Calling
<1>2. /\ FailedAttempt(r) \in Seq(EventSet)
      /\ RunInv(row2, (events[r] \o OpeningEvents(r)) \o FailedAttempt(r),
                decisions[r], effects[r])
  BY <1>1, AttemptsFail
<1>3. OpeningEvents(r) \in Seq(EventSet)
  BY <1>1, AtAction
<1> HIDE DEF row2
<1> QED BY <1>1, <1>2, <1>3, TransactsRow

LEMMA FailAttemptHolds ==
  ASSUME EngineType, RunsInv, NEW e \in Apps, NEW r \in Runs, FailAttempt(e, r)
  PROVE  Touched(r)
<1> DEFINE code == FailureCode(FaultKind(r))
<1>1. /\ Active(r) /\ Compatible(r) /\ ~Exhausted(r)
      /\ FailTransaction(e, r, Opened(r), FailedAttempt(r), code)
  BY DEF FailAttempt, Attempting, Calling
<1>2. /\ FailedAttempt(r) \in Seq(EventSet)
      /\ Core(Opened(r), (events[r] \o OpeningEvents(r)) \o FailedAttempt(r),
              decisions[r], effects[r])
  BY <1>1, AttemptsFail
<1>3. code \in Codes
  BY <1>1, FaultCodes
<1>4. OpeningEvents(r) \in Seq(EventSet) /\ Opened(r).status \notin Terminal
  BY <1>1, AtAction
<1> HIDE DEF code
<1> QED BY <1>1, <1>2, <1>3, <1>4, FailsRun

LEMMA Two ==
  ASSUME NEW S, NEW y \in S, NEW z \in S
  PROVE  /\ <<y, z>> \in Seq(S)
         /\ \A types : /\ y.type \in types /\ z.type \notin types => One(<<y, z>>, types, y)
                       /\ z.type \in types /\ y.type \notin types => One(<<y, z>>, types, z)
                       /\ y.type \notin types /\ z.type \notin types => None(<<y, z>>, types)
<1> DEFINE t == <<y, z>>
<1>1. t \in Seq(S) /\ DOMAIN t = 1..2 /\ t[1] = y /\ t[2] = z
  OBVIOUS
<1> HIDE DEF t
<1>2. 1 \in DOMAIN t /\ 2 \in DOMAIN t /\ \A i \in DOMAIN t : i = 1 \/ i = 2
  BY <1>1
<1>3. ASSUME NEW types, y.type \in types, z.type \notin types PROVE One(t, types, y)
  BY <1>1, <1>2, <1>3 DEF One
<1>4. ASSUME NEW types, z.type \in types, y.type \notin types PROVE One(t, types, z)
  BY <1>1, <1>2, <1>4 DEF One
<1>5. ASSUME NEW types, z.type \notin types, y.type \notin types PROVE None(t, types)
  BY <1>1, <1>2, <1>5 DEF None
<1> QED BY <1>1, <1>3, <1>4, <1>5 DEF t

CheckpointEvent(r) == [Blank EXCEPT !.type = "run.checkpointed", !.step = rows[r].step + 1]

SucceededAttempt(r) ==
  StartedEvents(r) \o <<AttemptEvent(r, "tool.attempt.succeeded"), CheckpointEvent(r)>>

\* The events of an attempt that succeeded.
LEMMA SucceededBlock ==
  ASSUME EngineType, RunsInv, NEW r \in Runs, Active(r), Compatible(r), ~Exhausted(r)
  PROVE  \E x, y, z \in EventSet :
           /\ SucceededAttempt(r) \in Seq(EventSet)
           /\ One(SucceededAttempt(r), Starts, x) /\ One(SucceededAttempt(r), Ended, y)
           /\ One(SucceededAttempt(r), Successes, y)
           /\ One(SucceededAttempt(r), Checkpoints, z)
           /\ None(SucceededAttempt(r), Announcements)
           /\ None(SucceededAttempt(r), StatusEvents \cup Denials)
           /\ x.step = rows[r].step /\ x.attempt = rows[r].attempt
           /\ Identity(x) = Identity(y) /\ y.step = rows[r].step
           /\ y.action = ActionOf(r) /\ z.step = rows[r].step + 1
<1> DEFINE x == AttemptEvent(r, "tool.attempt.started")
           y == AttemptEvent(r, "tool.attempt.succeeded")
           z == CheckpointEvent(r)
           a == StartedEvents(r)
<1>1. /\ x \in EventSet /\ x.type = "tool.attempt.started" /\ x.step = rows[r].step
      /\ x.attempt = rows[r].attempt /\ x.action = ActionOf(r)
  BY AttemptEvents DEF EventTypes
<1>2. /\ y \in EventSet /\ y.type = "tool.attempt.succeeded" /\ y.step = rows[r].step
      /\ y.attempt = rows[r].attempt /\ y.action = ActionOf(r)
  BY AttemptEvents DEF EventTypes
<1>3. z \in EventSet /\ z.type = "run.checkpointed" /\ z.step = rows[r].step + 1
  <2> DEFINE n == rows[r].step + 1
  <2>1. n \in Int
    BY AtAction
  <2>2. z = [Blank EXCEPT !.type = "run.checkpointed", !.step = n]
    BY DEF CheckpointEvent
  <2> HIDE DEF n, z
  <2>3. z \in EventSet
    BY <2>1, <2>2, BlankEvent DEF EventSet, EventTypes
  <2>4. z.type = "run.checkpointed" /\ z.step = n
    BY <2>2, BlankEvent DEF EventSet
  <2> QED BY <2>3, <2>4 DEF n
<1>4. SucceededAttempt(r) = a \o <<y, z>>
  BY DEF SucceededAttempt
<1>5. a \in Seq(EventSet) /\ One(a, Starts, x)
  BY StartedBlock
<1>6. /\ None(a, Ended) /\ None(a, Successes) /\ None(a, Checkpoints)
      /\ None(a, Announcements) /\ None(a, StatusEvents \cup Denials)
  <2>1. /\ Ended \cap {"tool.attempt.started", "fault.injected"} = {}
        /\ Successes \cap {"tool.attempt.started", "fault.injected"} = {}
        /\ Checkpoints \cap {"tool.attempt.started", "fault.injected"} = {}
        /\ Announcements \cap {"tool.attempt.started", "fault.injected"} = {}
        /\ (StatusEvents \cup Denials)
             \cap {"tool.attempt.started", "fault.injected"} = {}
    BY DEF Ended, Announcements, Successes, Checkpoints, StatusEvents, Denials
  <2> QED BY <2>1, StartedBlock
<1> HIDE DEF x, y, z, a
<1> DEFINE t == <<y, z>>
<1>7. /\ t \in Seq(EventSet) /\ None(t, Starts) /\ One(t, Ended, y)
      /\ One(t, Successes, y) /\ One(t, Checkpoints, z)
      /\ None(t, Announcements) /\ None(t, StatusEvents \cup Denials)
  BY <1>2, <1>3, Two
     DEF Starts, Ended, Announcements, Successes, Checkpoints, StatusEvents, Denials
<1> HIDE DEF t
<1>8. /\ a \o t \in Seq(EventSet) /\ One(a \o t, Starts, x) /\ One(a \o t, Ended, y)
      /\ One(a \o t, Successes, y) /\ One(a \o t, Checkpoints, z)
      /\ None(a \o t, Announcements) /\ None(a \o t, StatusEvents \cup Denials)
  BY <1>5, <1>6, <1>7, Grows, ConcatOne, ConcatNone
<1>9. Identity(x) = Identity(y)
  BY <1>1, <1>2 DEF Identity
<1> QED BY <1>1, <1>2, <1>3, <1>4, <1>8, <1>9 DEF t

LEMMA SucceedAttemptHolds ==
  ASSUME EngineType, RunsInv, NEW e \in Apps, NEW r \in Runs, SucceedAttempt(e, r)
  PROVE  Touched(r)
<1> DEFINE row == Opened(r)
           row2 == [row EXCEPT !.step = @ + 1, !.attempt = 1, !.pending = NoAction]
           es == events[r] \o OpeningEvents(r)
           new == SucceededAttempt(r)
           done2 == effects[r] \cup NewEffects(r)
           a == ActionOf(r)
<1>1. /\ Active(r) /\ Compatible(r) /\ ~Exhausted(r) /\ Cleared(r)
      /\ Transact(e, r, row2, new)
      /\ effects' = [effects EXCEPT ![r] = done2]
  <2>1. /\ Active(r) /\ Compatible(r) /\ ~Exhausted(r) /\ Cleared(r)
        /\ effects' = [effects EXCEPT ![r] = @ \cup NewEffects(r)]
    BY DEF SucceedAttempt, Attempting, Calling
  <2>2. effects' = [effects EXCEPT ![r] = done2]
    BY <2>1
  <2>3. Transact(e, r, row2, new)
    BY DEF SucceedAttempt, SucceededAttempt, CheckpointEvent
  <2> QED BY <2>1, <2>2, <2>3
<1>2. /\ RunInv(row, es, decisions[r], effects[r]) /\ row \in RowSet
      /\ row.status = "running" /\ row.announced = row.step
      /\ row.step = rows[r].step /\ row.attempt = rows[r].attempt
      /\ row.step < Len(row.hash.actions)
      /\ a = row.hash.actions[row.step + 1] /\ a \in Actions
      /\ OpeningEvents(r) \in Seq(EventSet) /\ rows[r].step \in Nat
  BY <1>1, AtAction
<1>3. PICK x \in EventSet, y \in EventSet, z \in EventSet :
        /\ new \in Seq(EventSet)
        /\ One(new, Starts, x) /\ One(new, Ended, y)
        /\ One(new, Successes, y) /\ One(new, Checkpoints, z)
        /\ None(new, Announcements) /\ None(new, StatusEvents \cup Denials)
        /\ x.step = rows[r].step /\ x.attempt = rows[r].attempt
        /\ Identity(x) = Identity(y) /\ y.step = rows[r].step
        /\ y.action = a /\ z.step = rows[r].step + 1
  BY <1>1, SucceededBlock
<1>4. \A f \in effects[r] : f.step \in 0..(rows[r].step - 1)
  BY <1>2, NotYetDone
<1>5. NewEffects(r) = IF y.action.tool = "prepare_rollback"
                      THEN {[step |-> y.step, action |-> y.action]} ELSE {}
  <2>1. EffectsAt(r, rows[r].step) = {}
    BY <1>2, <1>4 DEF EffectsAt
  <2> QED BY <1>3, <2>1 DEF NewEffects, Gated
<1>6. y.action.tool = "prepare_rollback" =>
        \E d \in decisions[r] : d.step = y.step /\ d.action = y.action /\ d.allow
  BY <1>1, <1>3 DEF Cleared, Gated, DecisionsAt
<1>7. /\ row2 \in RowSet /\ row2.status = "running" /\ row2.step = row.step + 1
      /\ row2.announced = row.announced /\ row2.hash = row.hash /\ row2.attempt = 1
  <2>1. row \in RowSet /\ row.step + 1 \in Nat
    BY <1>2
  <2> HIDE DEF row
  <2>2. row2 \in RowSet
    BY <2>1 DEF RowSet
  <2> QED BY <2>1, <2>2, <1>2 DEF RowSet
<1>8. done2 \in SUBSET EffectSet
  <2>1. effects[r] \in SUBSET EffectSet
    BY DEF EngineType
  <2>2. [step |-> y.step, action |-> y.action] \in EffectSet
    BY <1>2, <1>3 DEF EffectSet
  <2> QED BY <2>1, <2>2, <1>5
<1>9. OpeningEvents(r) \in Seq(EventSet) /\ new \in Seq(EventSet)
  BY <1>2, <1>3
<1>10. done2 = effects[r] \cup (IF y.action.tool = "prepare_rollback"
                                THEN {[step |-> y.step, action |-> y.action]} ELSE {})
  BY <1>5
<1> HIDE DEF row, row2, es, new, done2, a
<1>11. /\ x.step = row.step /\ x.attempt = row.attempt /\ y.step = row.step
       /\ y.action = row.hash.actions[row.step + 1] /\ z.step = row.step + 1
  BY <1>2, <1>3
<1>12. RunInv(row2, es \o new, decisions[r], done2)
  BY <1>2, <1>3, <1>6, <1>7, <1>10, <1>11, AttemptSucceeds
<1> QED BY <1>1, <1>8, <1>9, <1>12, TransactsRun DEF es

-----------------------------------------------------------------------------
(* The transactions of _approve and _start *)

LEMMA RecordedFields ==
  ASSUME NEW d \in DecisionSet
  PROVE  /\ RecordedEvent(d) \in EventSet
         /\ RecordedEvent(d).type = "approval.recorded"
         /\ d.allow => Allowance(RecordedEvent(d), d.step, d.action)
         /\ [RecordedEvent(d) EXCEPT !.type = "approval.denied"] \in EventSet
         /\ [RecordedEvent(d) EXCEPT !.type = "approval.denied"].type = "approval.denied"
<1> DEFINE n == d.step
           a == d.action
           c == IF d.allow THEN "allow" ELSE "deny"
           x == RecordedEvent(d)
<1>1. n \in Int /\ a \in Actions /\ c \in Codes
  BY DEF DecisionSet, Codes
<1>2. x = [Blank EXCEPT !.type = "approval.recorded", !.step = n, !.action = a, !.code = c]
  BY DEF RecordedEvent
<1>3. d.allow => c = "allow"
  OBVIOUS
<1> HIDE DEF n, a, c, x
<1>4. x \in EventSet
  BY <1>1, <1>2, BlankEvent DEF EventSet, EventTypes
<1>5. x.type = "approval.recorded" /\ x.step = n /\ x.action = a /\ x.code = c
  BY <1>2, BlankEvent DEF EventSet
<1>6. [x EXCEPT !.type = "approval.denied"] \in EventSet
  BY <1>4 DEF EventSet, EventTypes
<1>7. [x EXCEPT !.type = "approval.denied"].type = "approval.denied"
  BY <1>4 DEF EventSet
<1>8. d.allow => Allowance(x, n, a)
  BY <1>3, <1>5 DEF Allowance
<1> QED BY <1>4, <1>5, <1>6, <1>7, <1>8 DEF x, n, a

LEMMA DecideHolds ==
  ASSUME EngineType, RunsInv, NEW e \in Apps, NEW r \in Runs, NEW d \in DecisionSet,
         Decide(e, r, d)
  PROVE  Touched(r)
<1> DEFINE row == rows[r]
           row2 == Decided(r, d)
           x == RecordedEvent(d)
           y == [RecordedEvent(d) EXCEPT !.type = "approval.denied"]
           z == FailedEvent("approval_denied")
           new == <<x>> \o IF d.allow THEN <<>> ELSE <<y, z>>
           ds == decisions[r] \cup {d}
<1>1. /\ rows' = [rows EXCEPT ![r] = row2] /\ effects' = effects
      /\ DecisionsAt(r, d.step) = {} /\ MatchesPending(r, d)
  BY DEF Decide, Save
<1>2. events' = [events EXCEPT ![r] = @ \o new]
  BY DEF Decide, Log
<1>3. decisions' = [decisions EXCEPT ![r] = ds]
  BY DEF Decide
<1>4. row.status = "waiting_approval" /\ d.step = row.step /\ d.action = row.pending
  BY <1>1 DEF MatchesPending
<1>5. /\ RunInv(row, events[r], decisions[r], effects[r]) /\ row \in RowSet
      /\ events[r] \in Seq(EventSet)
  BY <1>4, Existing DEF RunHolds
<1>6. \A c \in decisions[r] : c.step # d.step
  BY <1>1 DEF DecisionsAt
<1>7. d.allow \in BOOLEAN
  BY DEF DecisionSet
<1>8. ds \in SUBSET DecisionSet /\ effects[r] \in SUBSET EffectSet
      /\ effects' = [effects EXCEPT ![r] = effects[r]]
  BY <1>1 DEF EngineType
<1>9. /\ x \in EventSet /\ x.type = "approval.recorded"
      /\ d.allow => Allowance(x, d.step, d.action)
      /\ y \in EventSet /\ y.type = "approval.denied"
  BY RecordedFields
<1>10. z \in EventSet /\ z.type = "run.failed" /\ "approval_denied" \in Codes
  BY FailedEventFields DEF Codes
<1>11. CASE d.allow
  <2>1. row2 = [row EXCEPT !.pending = NoAction, !.status = "queued"]
    BY <1>11 DEF Decided
  <2>2. /\ row2 \in RowSet /\ row2.status = "queued" /\ row2.step = row.step
        /\ row2.announced = row.announced /\ row2.hash = row.hash
        /\ row2.attempt = row.attempt
    <3>1. row \in RowSet
      BY <1>5
    <3> HIDE DEF row, row2
    <3>2. row2 \in RowSet
      BY <3>1, <2>1 DEF RowSet, Statuses
    <3> QED BY <3>1, <3>2, <2>1 DEF RowSet
  <2>3. new = <<x>>
    <3>1. <<x>> \in Seq(EventSet)
      BY <1>9, Single
    <3> HIDE DEF x
    <3>2. <<x>> \o <<>> = <<x>>
      BY <3>1, ConcatEmptySeq
    <3> QED BY <3>2, <1>11
  <2>4. d.allow = TRUE
    BY <1>7, <1>11
  <2> HIDE DEF row, row2, x, y, z
  <2>5. RunInv(row2, events[r] \o <<x>>, ds, effects[r])
    BY <1>4, <1>5, <1>6, <1>9, <1>11, <2>2, <2>4, Allows
  <2>6. events' = [events EXCEPT ![r] = events[r] \o <<x>>]
    BY <1>2, <2>3
  <2> HIDE DEF ds
  <2> QED BY <1>1, <1>3, <1>8, <2>5, <2>6 DEF Touched
<1>12. CASE ~d.allow
  <2>1. row2 = FailedRow(row, "approval_denied")
    BY <1>12 DEF Decided
  <2>2. /\ row2 \in RowSet /\ row2.status = "failed" /\ row2.step = row.step
        /\ row2.announced = row.announced /\ row2.hash = row.hash
    BY <2>1, <1>5, <1>10, FailedFields
  <2>3. new = <<x>> \o <<y, z>>
    BY <1>12
  <2>4. d.allow = FALSE
    BY <1>7, <1>12
  <2> HIDE DEF row, row2, x, y, z
  <2>5. RunInv(row2, events[r] \o (<<x>> \o <<y, z>>), ds, effects[r])
    BY <1>4, <1>5, <1>6, <1>9, <1>10, <2>2, <2>4, Denies
  <2>6. events' = [events EXCEPT ![r] = events[r] \o (<<x>> \o <<y, z>>)]
    BY <1>2, <2>3
  <2> HIDE DEF ds
  <2> QED BY <1>1, <1>3, <1>8, <2>5, <2>6 DEF Touched
<1> QED BY <1>11, <1>12

LEMMA CreateRunHolds ==
  ASSUME EngineType, RunsInv, NEW e \in Apps, NEW r \in Runs, NEW name \in Names,
         NEW mode \in Modes, CreateRun(e, r, name, mode)
  PROVE  Touched(r)
<1> DEFINE row == NewRow(name, mode)
           x == [Blank EXCEPT !.type = "run.created", !.code = mode]
<1>1. /\ rows' = [rows EXCEPT ![r] = row] /\ Fresh(r)
      /\ events' = [events EXCEPT ![r] = @ \o <<x>>]
      /\ decisions' = decisions /\ effects' = effects
  BY DEF CreateRun, Save, Log
<1>2. events[r] = <<>> /\ decisions[r] = {} /\ effects[r] = {}
  <2>1. rows[r].status = "absent"
    BY <1>1 DEF Fresh, Exists
  <2>2. ~RunInv(rows[r], events[r], decisions[r], effects[r])
    <3>1. "absent" \notin Statuses
      BY DEF Statuses
    <3>2. rows[r] \notin RowSet
      BY <2>1, <3>1, RowFields
    <3> QED BY <3>2 DEF RunInv, Core
  <2> QED BY <2>2 DEF RunsInv, NoRun
<1>3. /\ row \in RowSet /\ row.status = "queued" /\ row.step = 0 /\ row.announced = -1
  <2> DEFINE h == catalog[name]
  <2>1. h \in KnownScenarios
    BY DEF KnownScenarios, EngineType
  <2>2. row = [status |-> "queued", scenario |-> name, hash |-> h,
               mode |-> mode, step |-> 0, attempt |-> 1, announced |-> -1,
               pending |-> NoAction, result |-> "none"]
    BY DEF NewRow
  <2> HIDE DEF h, row
  <2>3. row \in RowSet
    BY <2>1, <2>2 DEF RowSet, Statuses, Codes
  <2> QED BY <2>2, <2>3
<1>4. x \in EventSet /\ x.type = "run.created"
  <2>1. mode \in Codes
    BY DEF Modes, Codes
  <2>2. x \in EventSet
    BY <2>1, BlankEvent DEF EventSet, EventTypes
  <2> QED BY <2>2, BlankEvent DEF EventSet
<1> HIDE DEF row, x
<1>5. RunInv(row, <<>> \o <<x>>, decisions[r], effects[r])
  BY <1>2, <1>3, <1>4, Creates
<1>6. events' = [events EXCEPT ![r] = <<>> \o <<x>>]
  BY <1>1, <1>2
<1> QED BY <1>1, <1>5, <1>6, TouchesRow

-----------------------------------------------------------------------------
(* Every step of the tables *)

TablesType ==
  /\ rows \in [Runs -> AnyRow] /\ events \in [Runs -> Seq(EventSet)]
  /\ decisions \in [Runs -> SUBSET DecisionSet]
  /\ effects \in [Runs -> SUBSET EffectSet]

TablesStep ==
  (\E r \in Runs : Touched(r)) \/ UNCHANGED <<rows, events, decisions, effects>>

LEMMA TablesHold ==
  ASSUME EngineType, RunsInv, TablesStep
  PROVE  RunsInv' /\ TablesType'
<1>1. CASE UNCHANGED <<rows, events, decisions, effects>>
  BY <1>1 DEF EngineType, TablesType, RunsInv
<1>2. ASSUME NEW r \in Runs, Touched(r) PROVE RunsInv' /\ TablesType'
  <2>1. PICK row, es : \E ds \in SUBSET DecisionSet, done \in SUBSET EffectSet :
          /\ rows' = [rows EXCEPT ![r] = row] /\ events' = [events EXCEPT ![r] = es]
          /\ decisions' = [decisions EXCEPT ![r] = ds]
          /\ effects' = [effects EXCEPT ![r] = done]
          /\ RunInv(row, es, ds, done)
    BY <1>2 DEF Touched
  <2>2. PICK ds \in SUBSET DecisionSet, done \in SUBSET EffectSet :
          /\ rows' = [rows EXCEPT ![r] = row] /\ events' = [events EXCEPT ![r] = es]
          /\ decisions' = [decisions EXCEPT ![r] = ds]
          /\ effects' = [effects EXCEPT ![r] = done]
          /\ RunInv(row, es, ds, done)
    BY <2>1
  <2>3. row \in AnyRow /\ es \in Seq(EventSet)
    BY <2>2 DEF RunInv, Core, AnyRow
  <2>4. TablesType'
    BY <2>2, <2>3 DEF EngineType, TablesType
  <2>5. /\ rows'[r] = row /\ events'[r] = es /\ decisions'[r] = ds /\ effects'[r] = done
        /\ \A q \in Runs \ {r} : /\ rows'[q] = rows[q] /\ events'[q] = events[q]
                                 /\ decisions'[q] = decisions[q]
                                 /\ effects'[q] = effects[q]
    BY <2>2 DEF EngineType
  <2>6. \A q \in Runs :
          \/ NoRun(rows'[q], events'[q], decisions'[q], effects'[q])
          \/ RunInv(rows'[q], events'[q], decisions'[q], effects'[q])
    BY <2>2, <2>5 DEF RunsInv
  <2> QED BY <2>4, <2>6 DEF RunsInv
<1> QED BY <1>1, <1>2 DEF TablesStep

\* The approvals worth sending are decisions.
LEMMA BodiesType ==
  ASSUME RunsInv, NEW r \in Runs, Exists(r), NEW d \in Bodies(r)
  PROVE  d \in DecisionSet
<1>1. rows[r].step \in Nat /\ rows[r].scenario \in Names
  BY Existing, RowFields DEF Exists
<1>2. PICK s \in 0..rows[r].step,
           a \in UNION {{c[rows[r].scenario].actions[i] :
                           i \in DOMAIN c[rows[r].scenario].actions} : c \in Catalogs},
           v \in BOOLEAN, p \in Reviewers :
        d = [step |-> s, action |-> a, allow |-> v, by |-> p]
  BY DEF Bodies
<1>3. PICK c \in Catalogs : \E i \in DOMAIN c[rows[r].scenario].actions :
        a = c[rows[r].scenario].actions[i]
  BY <1>2
<1>4. PICK i \in DOMAIN c[rows[r].scenario].actions : a = c[rows[r].scenario].actions[i]
  BY <1>3
<1>5. c[rows[r].scenario].actions \in Seq(Actions)
  BY <1>1, Plans DEF KnownScenarios
<1>6. a \in Actions
  BY <1>4, <1>5, ElementOfSeq, LenProperties
<1>7. s \in Nat
  BY <1>1, <1>2
<1> QED BY <1>2, <1>6, <1>7 DEF DecisionSet

LEMMA CaseType ==
  ASSUME RunsInv, NEW r \in Runs, rows[r].status = "waiting_approval"
  PROVE  [step |-> rows[r].step, action |-> rows[r].pending,
          allow |-> TRUE, by |-> Evaluator] \in DecisionSet
<1>1. RunHolds(r) /\ rows[r] \in RowSet
  BY Existing
<1>2. rows[r].step \in Nat /\ rows[r].hash.actions \in Seq(Actions)
      /\ Len(rows[r].hash.actions) \in Nat
  BY <1>1, RowFields, Plans, LenProperties
<1>3. /\ rows[r].step < Len(rows[r].hash.actions)
      /\ rows[r].pending = rows[r].hash.actions[rows[r].step + 1]
  BY <1>1 DEF RunHolds, RunInv, Core, Waits
<1>4. rows[r].step + 1 \in 1..Len(rows[r].hash.actions)
  BY <1>2, <1>3
<1>5. rows[r].pending \in Actions
  BY <1>2, <1>3, <1>4, ElementOfSeq
<1> QED BY <1>2, <1>5 DEF DecisionSet

\* What a request does to the tables.
LEMMA AskTables ==
  ASSUME EngineType, RunsInv, NEW e \in Apps, Ask(e)
  PROVE  TablesStep
<1>1. ASSUME NEW r \in Runs, NEW n \in Names, NEW m \in Modes, Start(e, r, n, m)
      PROVE  TablesStep
  BY <1>1, CreateRunHolds DEF Start, TablesStep
<1>2. ASSUME NEW r \in Runs, Resume(e, r) PROVE TablesStep
  BY <1>2 DEF Resume, TablesStep, tables
<1>3. ASSUME NEW r \in Runs, Exists(r), NEW d \in Bodies(r), Approve(e, r, d)
      PROVE  TablesStep
  BY <1>3, BodiesType, DecideHolds DEF Approve, TablesStep
<1>4. ASSUME NEW r \in Runs, NEW d, RepeatApproval(e, r, d) PROVE TablesStep
  BY <1>4 DEF RepeatApproval, TablesStep, tables
<1>5. ASSUME Evaluate(e) PROVE TablesStep
  BY <1>5 DEF Evaluate, TablesStep, tables
<1> QED BY <1>1, <1>2, <1>3, <1>4, <1>5 DEF Ask

LEMMA ProceedTables ==
  ASSUME EngineType, RunsInv, NEW e \in Apps, Proceed(e)
  PROVE  TablesStep
<1>1. ASSUME NEW r \in Runs, Exhaust(e, r) PROVE TablesStep
  BY <1>1, ExhaustHolds DEF TablesStep
<1>2. ASSUME NEW r \in Runs, Finish(e, r) PROVE TablesStep
  BY <1>2, FinishHolds DEF TablesStep
<1>3. ASSUME NEW r \in Runs, GiveUp(e, r) PROVE TablesStep
  BY <1>3, GiveUpHolds DEF TablesStep
<1>4. ASSUME NEW r \in Runs, RejectCall(e, r) PROVE TablesStep
  BY <1>4, RejectCallHolds DEF TablesStep
<1>5. ASSUME NEW r \in Runs, AwaitApproval(e, r) PROVE TablesStep
  BY <1>5, AwaitApprovalHolds DEF TablesStep
<1>6. ASSUME NEW r \in Runs, RetryAttempt(e, r) PROVE TablesStep
  BY <1>6, RetryAttemptHolds DEF TablesStep
<1>7. ASSUME NEW r \in Runs, FailAttempt(e, r) PROVE TablesStep
  BY <1>7, FailAttemptHolds DEF TablesStep
<1>8. ASSUME NEW r \in Runs, SucceedAttempt(e, r) PROVE TablesStep
  BY <1>8, SucceedAttemptHolds DEF TablesStep
<1>9. ASSUME NEW r \in Runs, Return(e, r) PROVE TablesStep
  BY <1>9 DEF Return, TablesStep, tables
<1>10. ASSUME NEW r \in Runs, Refuse(e, r) PROVE TablesStep
  BY <1>10 DEF Refuse, TablesStep, tables
<1>11. ASSUME NEW r \in Runs, StartCase(e, r) PROVE TablesStep
  <2>1. batch[e].todo \in Seq(CaseSet) /\ batch[e].todo # <<>>
    BY <1>11 DEF StartCase, EngineType
  <2>2. Head(batch[e].todo) \in CaseSet
    BY <2>1, HeadTailProperties
  <2>3. Head(batch[e].todo).scenario \in Names /\ Head(batch[e].todo).mode \in Modes
    BY <2>2 DEF CaseSet
  <2> QED BY <1>11, <2>3, CreateRunHolds DEF StartCase, TablesStep
<1>12. ASSUME NEW r \in Runs, ApproveCase(e, r) PROVE TablesStep
  <2>1. CASE rows[r].status = "waiting_approval"
    BY <1>12, <2>1, CaseType, DecideHolds DEF ApproveCase, TablesStep
  <2>2. CASE rows[r].status # "waiting_approval"
    BY <1>12, <2>2 DEF ApproveCase, TablesStep, tables
  <2> QED BY <2>1, <2>2
<1>13. ASSUME NEW r \in Runs, RecordCase(e, r) PROVE TablesStep
  BY <1>13 DEF RecordCase, TablesStep, tables
<1>14. ASSUME OutOfBudget(e) PROVE TablesStep
  BY <1>14 DEF OutOfBudget, TablesStep, tables
<1>15. ASSUME SaveEvaluation(e) PROVE TablesStep
  BY <1>15 DEF SaveEvaluation, TablesStep
<1> QED BY <1>1, <1>2, <1>3, <1>4, <1>5, <1>6, <1>7, <1>8, <1>9, <1>10, <1>11,
           <1>12, <1>13, <1>14, <1>15 DEF Proceed

LEMMA NextTables ==
  ASSUME EngineType, RunsInv, [Next]_vars
  PROVE  TablesStep
<1>1. ASSUME NEW e \in Apps, Crash(e) PROVE TablesStep
  BY <1>1 DEF Crash, TablesStep, tables
<1>2. ASSUME Upgrade PROVE TablesStep
  BY <1>2 DEF Upgrade, TablesStep, tables
<1>3. ASSUME UNCHANGED vars PROVE TablesStep
  BY <1>3 DEF vars, tables, TablesStep
<1> QED BY <1>1, <1>2, <1>3, AskTables, ProceedTables DEF Next

-----------------------------------------------------------------------------
(* Every step of the requests *)

BatchSet == [todo : Seq(CaseSet), refs : Seq(RefSet)]

\* Only an evaluation returns to _evaluate, and it has a case to record then.
Evaluating ==
  \A e \in Apps :
    /\ request[e].phase = "idle" => ~request[e].evaluates
    /\ request[e].phase = "returned" => request[e].evaluates
    /\ request[e].evaluates /\ request[e].phase # "choose" => batch[e].todo # <<>>

RequestsType ==
  /\ catalog \in Catalogs
  /\ evaluations \in Seq([suite : Catalogs, runs : Seq(RefSet)])
  /\ request \in [Apps -> RequestSet]
  /\ batch \in [Apps -> BatchSet]

LEMMA Types ==
  EngineType <=> TablesType /\ RequestsType
BY DEF EngineType, TablesType, RequestsType, BatchSet

\* An app whose request and batch are replaced.
LEMMA OneRequest ==
  ASSUME EngineType, Evaluating, NEW e \in Apps, NEW q \in RequestSet, NEW b \in BatchSet,
         request' = [request EXCEPT ![e] = q], batch' = [batch EXCEPT ![e] = b],
         q.phase = "idle" => ~q.evaluates, q.phase = "returned" => q.evaluates,
         q.evaluates /\ q.phase # "choose" => b.todo # <<>>
  PROVE  /\ request' \in [Apps -> RequestSet] /\ batch' \in [Apps -> BatchSet]
         /\ Evaluating'
<1>1. request' \in [Apps -> RequestSet] /\ batch' \in [Apps -> BatchSet]
  BY Types DEF RequestsType
<1>2. /\ request'[e] = q /\ batch'[e] = b
      /\ \A f \in Apps \ {e} : request'[f] = request[f] /\ batch'[f] = batch[f]
  BY Types DEF RequestsType
<1> QED BY <1>1, <1>2 DEF Evaluating

LEMMA SameBatch ==
  ASSUME EngineType, Evaluating, NEW e \in Apps, NEW q \in RequestSet,
         request' = [request EXCEPT ![e] = q], batch' = batch,
         q.phase = "idle" => ~q.evaluates, q.phase = "returned" => q.evaluates,
         q.evaluates /\ q.phase # "choose" => batch[e].todo # <<>>
  PROVE  /\ request' \in [Apps -> RequestSet] /\ batch' \in [Apps -> BatchSet]
         /\ Evaluating'
<1>1. batch[e] \in BatchSet /\ batch' = [batch EXCEPT ![e] = batch[e]]
  BY Types DEF RequestsType
<1> QED BY <1>1, OneRequest

LEMMA RequestFields ==
  ASSUME EngineType, NEW e \in Apps
  PROVE  /\ request[e] \in RequestSet
         /\ request[e].phase \in {"idle", "advance", "returned", "choose"}
         /\ request[e].evaluates \in BOOLEAN /\ request[e].run \in Runs \cup {0}
         /\ request[e].left \in Nat /\ request[e].seen \in AnyRow
         /\ batch[e] \in BatchSet /\ batch[e].todo \in Seq(CaseSet)
         /\ batch[e].refs \in Seq(RefSet)
<1>1. request[e] \in RequestSet /\ batch[e] \in BatchSet
  BY Types DEF RequestsType
<1> QED BY <1>1 DEF RequestSet, BatchSet

LEMMA Stopped ==
  ASSUME EngineType, Evaluating, NEW e \in Apps, Stop(e)
  PROVE  /\ request' \in [Apps -> RequestSet] /\ batch' \in [Apps -> BatchSet]
         /\ Evaluating'
<1>1. NoRequest \in RequestSet /\ NoBatch \in BatchSet
  BY DEF NoRequest, NoBatch, RequestSet, BatchSet, AnyRow
<1>2. NoRequest.phase = "idle" /\ NoRequest.evaluates = FALSE
  BY DEF NoRequest
<1> QED BY <1>1, <1>2, OneRequest DEF Stop

LEMMA Driven ==
  ASSUME EngineType, Evaluating, NEW e \in Apps, NEW r \in Runs, Drive(e, r),
         batch' = batch,
         request[e].phase \in {"idle", "returned"} \/ batch[e].todo # <<>>
  PROVE  /\ request' \in [Apps -> RequestSet] /\ batch' \in [Apps -> BatchSet]
         /\ Evaluating'
<1> DEFINE p == request[e]
           q == [p EXCEPT !.phase = "advance", !.run = r, !.left = AdvanceBudget,
                          !.seen = Absent]
<1>1. request' = [request EXCEPT ![e] = q]
  BY Types DEF Drive, RequestsType
<1>2. p \in RequestSet /\ p.evaluates \in BOOLEAN
  BY RequestFields
<1>3. p.evaluates => batch[e].todo # <<>>
  BY DEF Evaluating
<1> HIDE DEF p
<1>4. q \in RequestSet
  BY <1>2, EngineAssumption DEF RequestSet, AnyRow
<1>5. q.phase = "advance" /\ q.evaluates = p.evaluates
  BY <1>2 DEF RequestSet
<1> HIDE DEF q
<1> QED BY <1>1, <1>3, <1>4, <1>5, SameBatch

\* A transaction of _advance.
LEMMA Counted ==
  ASSUME EngineType, Evaluating, NEW e \in Apps, NEW r, NEW row, NEW new,
         Transact(e, r, row, new)
  PROVE  /\ request' \in [Apps -> RequestSet] /\ batch' \in [Apps -> BatchSet]
         /\ Evaluating' /\ catalog' = catalog /\ evaluations' = evaluations
<1> DEFINE p == request[e]
           n == request[e].left - 1
           q == [p EXCEPT !.left = n]
<1>1. request' = [request EXCEPT ![e] = q] /\ batch' = batch /\ p.left > 0
      /\ p.phase = "advance" /\ catalog' = catalog /\ evaluations' = evaluations
  BY Types DEF Transact, InAdvance, RequestsType
<1>2. p \in RequestSet /\ p.left \in Nat
  BY RequestFields
<1>3. n \in Nat
  BY <1>1, <1>2
<1>4. p.evaluates => batch[e].todo # <<>>
  BY <1>1 DEF Evaluating
<1> HIDE DEF p, n
<1>5. q \in RequestSet
  BY <1>2, <1>3 DEF RequestSet
<1>6. q.phase = "advance" /\ q.evaluates = p.evaluates
  BY <1>1, <1>2 DEF RequestSet
<1> HIDE DEF q
<1> QED BY <1>1, <1>4, <1>5, <1>6, SameBatch

LEMMA CasesType == Cases \in Seq(CaseSet)
<1> DEFINE n == Len(Suite)
<1>1. n \in Nat /\ Suite \in Seq(Names) /\ DOMAIN Suite = 1..n
  BY EngineAssumption, LenProperties
<1> HIDE DEF n
<1>2. ASSUME NEW i \in 1..(2 * n)
      PROVE  Suite[((i - 1) % n) + 1] \in Names
  <2>1. n > 0 /\ i - 1 \in Nat
    BY <1>1
  <2>2. (i - 1) % n \in 0..(n - 1)
    BY <1>1, <2>1
  <2>3. ((i - 1) % n) + 1 \in 1..n
    BY <1>1, <2>1, <2>2
  <2> QED BY <2>3, <1>1, ElementOfSeq DEF n
<1>3. \A i \in 1..(2 * n) :
        [mode |-> IF i <= n THEN "fragile" ELSE "resilient",
         scenario |-> Suite[((i - 1) % n) + 1]] \in CaseSet
  BY <1>2 DEF CaseSet, Modes
<1>4. 2 * n \in Nat
  BY <1>1
<1>5. Cases = [i \in 1..(2 * n) |->
                 [mode |-> IF i <= n THEN "fragile" ELSE "resilient",
                  scenario |-> Suite[((i - 1) % n) + 1]]]
  BY DEF Cases, n
<1> QED BY <1>3, <1>4, <1>5, IsASeq

RequestsHold == RequestsType' /\ Evaluating'

LEMMA AskRequests ==
  ASSUME EngineType, RunsInv, Evaluating, NEW e \in Apps, Ask(e)
  PROVE  RequestsHold
<1>1. ASSUME NEW r \in Runs, NEW n \in Names, NEW m \in Modes, Start(e, r, n, m)
      PROVE  RequestsHold
  BY <1>1, Driven, Types DEF Start, Idle, CreateRun, RequestsType, RequestsHold
<1>2. ASSUME NEW r \in Runs, Resume(e, r) PROVE RequestsHold
  BY <1>2, Driven, Types DEF Resume, Idle, tables, RequestsType, RequestsHold
<1>3. ASSUME NEW r \in Runs, NEW d, Approve(e, r, d) PROVE RequestsHold
  BY <1>3, Driven, Types DEF Approve, Idle, Decide, RequestsType, RequestsHold
<1>4. ASSUME NEW r \in Runs, NEW d, RepeatApproval(e, r, d) PROVE RequestsHold
  BY <1>4, Driven, Types DEF RepeatApproval, Idle, tables, RequestsType, RequestsHold
<1>5. ASSUME Evaluate(e) PROVE RequestsHold
  <2> DEFINE p == request[e]
             q == [p EXCEPT !.phase = "choose", !.evaluates = TRUE]
             o == batch[e]
             b == [o EXCEPT !.todo = Cases]
  <2>1. /\ request' = [request EXCEPT ![e] = q] /\ batch' = [batch EXCEPT ![e] = b]
        /\ catalog' = catalog /\ evaluations' = evaluations
    BY <1>5, Types DEF Evaluate, tables, RequestsType
  <2>2. p \in RequestSet /\ o \in BatchSet
    BY RequestFields
  <2> HIDE DEF p, o
  <2>3. q \in RequestSet /\ b \in BatchSet
    BY <2>2, CasesType DEF RequestSet, BatchSet
  <2>4. q.phase = "choose"
    BY <2>2 DEF RequestSet
  <2> HIDE DEF q, b
  <2> QED BY <2>1, <2>3, <2>4, OneRequest, Types DEF RequestsType, RequestsHold
<1> QED BY <1>1, <1>2, <1>3, <1>4, <1>5 DEF Ask

\* The transactions of _advance leave requests and evaluations alike.
LEMMA TransactRequests ==
  ASSUME EngineType, Evaluating, NEW e \in Apps, NEW r,
         \/ Exhaust(e, r) \/ Finish(e, r) \/ GiveUp(e, r)
         \/ RejectCall(e, r) \/ AwaitApproval(e, r)
         \/ RetryAttempt(e, r) \/ FailAttempt(e, r) \/ SucceedAttempt(e, r)
  PROVE  RequestsHold
<1>1. \E row, new : Transact(e, r, row, new)
  <2>1. CASE Exhaust(e, r) BY <2>1 DEF Exhaust, FailTransaction
  <2>2. CASE Finish(e, r) BY <2>2 DEF Finish
  <2>3. CASE GiveUp(e, r) BY <2>3 DEF GiveUp, FailTransaction
  <2>4. CASE RejectCall(e, r) BY <2>4 DEF RejectCall, FailTransaction
  <2>5. CASE AwaitApproval(e, r) BY <2>5 DEF AwaitApproval
  <2>6. CASE RetryAttempt(e, r) BY <2>6 DEF RetryAttempt
  <2>7. CASE FailAttempt(e, r) BY <2>7 DEF FailAttempt, FailTransaction
  <2>8. CASE SucceedAttempt(e, r) BY <2>8 DEF SucceedAttempt
  <2> QED BY <2>1, <2>2, <2>3, <2>4, <2>5, <2>6, <2>7, <2>8
<1>2. PICK row, new : Transact(e, r, row, new)
  BY <1>1
<1>3. /\ request' \in [Apps -> RequestSet] /\ batch' \in [Apps -> BatchSet]
      /\ Evaluating' /\ catalog' = catalog /\ evaluations' = evaluations
  BY <1>2, Counted
<1> QED BY <1>3, Types DEF RequestsType, RequestsHold

LEMMA ReturnRequests ==
  ASSUME EngineType, Evaluating, NEW e \in Apps, NEW r \in Runs, Return(e, r)
  PROVE  RequestsHold
<1>0. catalog' = catalog /\ evaluations' = evaluations
  BY DEF Return, tables
<1>1. CASE request[e].evaluates
  <2> DEFINE p == request[e]
             s == rows[r]
             q == [p EXCEPT !.phase = "returned", !.seen = s]
  <2>1. request' = [request EXCEPT ![e] = q] /\ batch' = batch /\ p.phase = "advance"
    BY <1>1, Types DEF Return, InAdvance, RequestsType
  <2>2. p \in RequestSet /\ s \in AnyRow /\ p.evaluates
    BY <1>1, RequestFields, Types DEF TablesType
  <2>3. batch[e].todo # <<>>
    BY <2>1, <2>2 DEF Evaluating
  <2> HIDE DEF p, s
  <2>4. q \in RequestSet
    BY <2>2 DEF RequestSet
  <2>5. q.phase = "returned" /\ q.evaluates
    BY <2>2 DEF RequestSet
  <2> HIDE DEF q
  <2> QED BY <1>0, <2>1, <2>3, <2>4, <2>5, SameBatch, Types DEF RequestsType, RequestsHold
<1>2. CASE ~request[e].evaluates
  BY <1>0, <1>2, Stopped, Types DEF Return, RequestsType, RequestsHold
<1> QED BY <1>1, <1>2

LEMMA RecordRequests ==
  ASSUME EngineType, Evaluating, NEW e \in Apps, NEW r \in Runs, RecordCase(e, r)
  PROVE  RequestsHold
<1> DEFINE p == request[e]
           q == [p EXCEPT !.phase = "choose", !.seen = Absent]
           o == batch[e]
           ref == [run |-> r, evidence |-> [row |-> p.seen, events |-> events[r]]]
           b == [todo |-> Tail(o.todo), refs |-> Append(o.refs, ref)]
<1>0. catalog' = catalog /\ evaluations' = evaluations
  BY DEF RecordCase, tables
<1>1. request' = [request EXCEPT ![e] = q]
  BY Types DEF RecordCase, RequestsType
<1>2. batch' = [batch EXCEPT ![e] = b]
  BY Types DEF RecordCase, Evidence, RequestsType
<1>3. p \in RequestSet /\ o.todo \in Seq(CaseSet) /\ o.refs \in Seq(RefSet)
      /\ p.seen \in AnyRow
  BY RequestFields
<1>4. o.todo # <<>>
  BY DEF RecordCase, Evaluating
<1>5. ref \in RefSet
  <2>1. events[r] \in Seq(EventSet)
    BY DEF EngineType
  <2> QED BY <2>1, <1>3 DEF RefSet
<1> HIDE DEF p, o, ref
<1>6. Tail(o.todo) \in Seq(CaseSet)
  BY <1>3, <1>4, HeadTailProperties
<1>7. Append(o.refs, ref) \in Seq(RefSet)
  BY <1>3, <1>5, AppendProperties
<1>8. b \in BatchSet
  BY <1>6, <1>7 DEF BatchSet
<1>9. q \in RequestSet
  BY <1>3 DEF RequestSet, AnyRow
<1>10. q.phase = "choose"
  BY <1>3 DEF RequestSet
<1> HIDE DEF q, b
<1> QED BY <1>0, <1>1, <1>2, <1>8, <1>9, <1>10, OneRequest, Types DEF RequestsType, RequestsHold

LEMMA ProceedRequests ==
  ASSUME EngineType, RunsInv, Evaluating, NEW e \in Apps, Proceed(e)
  PROVE  RequestsHold
<1>1. ASSUME NEW r \in Runs,
             \/ Exhaust(e, r) \/ Finish(e, r) \/ GiveUp(e, r)
             \/ RejectCall(e, r) \/ AwaitApproval(e, r)
             \/ RetryAttempt(e, r) \/ FailAttempt(e, r) \/ SucceedAttempt(e, r)
      PROVE  RequestsHold
  BY <1>1, TransactRequests
<1>2. ASSUME NEW r \in Runs, Return(e, r) PROVE RequestsHold
  BY <1>2, ReturnRequests
<1>3. ASSUME NEW r \in Runs, Refuse(e, r) PROVE RequestsHold
  BY <1>3, Stopped, Types DEF Refuse, tables, RequestsType, RequestsHold
<1>4. ASSUME NEW r \in Runs, StartCase(e, r) PROVE RequestsHold
  BY <1>4, Driven, Types DEF StartCase, CreateRun, RequestsType, RequestsHold
<1>5. ASSUME NEW r \in Runs, ApproveCase(e, r) PROVE RequestsHold
  <2>1. CASE rows[r].status = "waiting_approval"
    BY <1>5, <2>1, Driven, Types DEF ApproveCase, Decide, RequestsType, RequestsHold
  <2>2. CASE rows[r].status # "waiting_approval"
    BY <1>5, <2>2, Stopped, Types DEF ApproveCase, tables, RequestsType, RequestsHold
  <2> QED BY <2>1, <2>2
<1>6. ASSUME NEW r \in Runs, RecordCase(e, r) PROVE RequestsHold
  BY <1>6, RecordRequests
<1>7. ASSUME OutOfBudget(e) PROVE RequestsHold
  BY <1>7, Stopped, Types DEF OutOfBudget, tables, RequestsType, RequestsHold
<1>8. ASSUME SaveEvaluation(e) PROVE RequestsHold
  <2> DEFINE x == [suite |-> catalog, runs |-> batch[e].refs]
  <2>1. /\ evaluations' = Append(evaluations, x) /\ Stop(e) /\ catalog' = catalog
    BY <1>8 DEF SaveEvaluation
  <2>2. x \in [suite : Catalogs, runs : Seq(RefSet)]
    BY RequestFields, Types DEF RequestsType
  <2> HIDE DEF x
  <2>3. evaluations' \in Seq([suite : Catalogs, runs : Seq(RefSet)])
    BY <2>1, <2>2, Types, AppendProperties DEF RequestsType
  <2> QED BY <2>1, <2>3, Stopped, Types DEF RequestsType, RequestsHold
<1> QED BY <1>1, <1>2, <1>3, <1>4, <1>5, <1>6, <1>7, <1>8 DEF Proceed

LEMMA NextRequests ==
  ASSUME EngineType, RunsInv, Evaluating, [Next]_vars
  PROVE  RequestsHold
<1>1. ASSUME NEW e \in Apps, Crash(e) PROVE RequestsHold
  BY <1>1, Stopped, Types DEF Crash, tables, RequestsType, RequestsHold
<1>2. ASSUME Upgrade PROVE RequestsHold
  BY <1>2, Types DEF Upgrade, tables, Evaluating, RequestsType, RequestsHold
<1>3. ASSUME UNCHANGED vars PROVE RequestsHold
  BY <1>3, Types DEF vars, tables, Evaluating, RequestsType, RequestsHold
<1> QED BY <1>1, <1>2, <1>3, AskRequests, ProceedRequests DEF Next

\* The inductive invariant.
EngineInv == EngineType /\ RunsInv /\ Evaluating

LEMMA InitInv == Init => EngineInv
<1> SUFFICES ASSUME Init PROVE EngineInv
  OBVIOUS
<1>1. RunsInv
  BY DEF Init, RunsInv, NoRun
<1>2. TablesType
  BY DEF Init, TablesType, AnyRow
<1>3. NoRequest \in RequestSet /\ NoBatch \in BatchSet
  BY DEF NoRequest, NoBatch, RequestSet, BatchSet, AnyRow
<1>4. RequestsType
  BY <1>3 DEF Init, RequestsType
<1>5. Evaluating
  BY DEF Init, Evaluating, NoRequest
<1> QED BY <1>1, <1>2, <1>4, <1>5, Types DEF EngineInv

LEMMA NextInv == EngineInv /\ [Next]_vars => EngineInv'
<1> SUFFICES ASSUME EngineInv, [Next]_vars PROVE EngineInv'
  OBVIOUS
<1>1. RunsInv' /\ TablesType'
  BY NextTables, TablesHold DEF EngineInv
<1>2. RequestsType' /\ Evaluating'
  BY NextRequests DEF EngineInv, RequestsHold
<1>3. EngineType'
  BY <1>1, <1>2 DEF EngineType, TablesType, RequestsType, BatchSet
<1> QED BY <1>1, <1>2, <1>3 DEF EngineInv

\* The types, the invariant of every run and what an evaluation holds on to are
\* true in every reachable state.
THEOREM Invariant == Spec => []EngineInv
BY InitInv, NextInv, PTL DEF Spec

-----------------------------------------------------------------------------
(* What the traces of all reachable states show *)

LEMMA IndicesIdx ==
  ASSUME NEW r, NEW types
  PROVE  Indices(r, types) = Idx(events[r], types)
BY DEF Indices, Idx

\* The row of every run can be told from its trace, whatever requests of
\* stopped, restarted and dead apps interleave (_transition, _save_run).
THEOREM TraceExplainsRun == Spec => []TrailExplainsRow
<1>1. ASSUME EngineInv PROVE TrailExplainsRow
  <2> SUFFICES ASSUME NEW r \in Runs, Exists(r)
               PROVE  /\ \E i \in Indices(r, StatusEvents) :
                           /\ rows[r].status = StatusAfter(events[r][i])
                           /\ \A j \in Indices(r, StatusEvents) : j <= i
                      /\ StepsOf(r, "run.checkpointed") = 1..rows[r].step
                      /\ InOrder(r, "run.checkpointed")
                      /\ Active(r) =>
                           \A i \in Indices(r, {"tool.attempt.started"}) :
                             \/ events[r][i].step < rows[r].step
                             \/ /\ events[r][i].step = rows[r].step
                                /\ events[r][i].attempt < rows[r].attempt
    BY DEF TrailExplainsRow
  <2>1. RunInv(rows[r], events[r], decisions[r], effects[r])
    BY <1>1, Existing DEF EngineInv, Exists, RunHolds
  <2>2. Explained(events[r], rows[r].status) /\ Counts(events[r], Checkpoints, 1, rows[r].step)
    BY <2>1 DEF RunInv, Core, Performed
  <2>3. Active(r) => Fresher(events[r], rows[r].step, rows[r].attempt)
    BY <2>1 DEF RunInv, Active, Terminal
  <2>4. \E i \in Indices(r, StatusEvents) :
           /\ rows[r].status = StatusAfter(events[r][i])
           /\ \A j \in Indices(r, StatusEvents) : j <= i
    BY <2>2, IndicesIdx DEF Explained
  <2>5. StepsOf(r, "run.checkpointed") = 1..rows[r].step /\ InOrder(r, "run.checkpointed")
    BY <2>2, IndicesIdx DEF Counts, Checkpoints, StepsOf, InOrder
  <2>6. Active(r) =>
          \A i \in Indices(r, {"tool.attempt.started"}) :
            \/ events[r][i].step < rows[r].step
            \/ /\ events[r][i].step = rows[r].step
               /\ events[r][i].attempt < rows[r].attempt
    BY <2>3, IndicesIdx DEF Fresher, Starts
  <2> QED BY <2>4, <2>5, <2>6
<1> QED BY <1>1, Invariant, PTL

\* A run announces the actions of the scenario it was created with, one after
\* the other, whatever packages later apps carry (_advance).
THEOREM ScenarioIsKept == Spec => []RunsItsScenario
<1>1. ASSUME EngineInv PROVE RunsItsScenario
  <2> SUFFICES ASSUME NEW r \in Runs, Exists(r)
               PROVE  /\ StepsOf(r, "policy.action") = 0..rows[r].announced
                      /\ InOrder(r, "policy.action")
                      /\ \A i \in Indices(r, {"policy.action"}) :
                           events[r][i].action =
                             rows[r].hash.actions[events[r][i].step + 1]
    BY DEF RunsItsScenario
  <2>1. RunInv(rows[r], events[r], decisions[r], effects[r])
    BY <1>1, Existing DEF EngineInv, Exists, RunHolds
  <2>2. /\ Counts(events[r], Announcements, 0, rows[r].announced)
        /\ Agree(events[r], Announcements, rows[r].hash.actions)
    BY <2>1 DEF RunInv, Core, Performed
  <2> QED BY <2>2, IndicesIdx DEF Counts, Agree, Announcements, StepsOf, InOrder
<1> QED BY <1>1, Invariant, PTL

\* A gated write is done once, after a decision of a reviewer for that action
\* and step, and never after a denial (_advance, approve).
THEOREM OnlyAllowedWrites == Spec => []WritesAreAllowed
<1>1. ASSUME EngineInv PROVE WritesAreAllowed
  <2> DEFINE W(r) == {i \in Indices(r, {"tool.attempt.succeeded"}) :
                        events[r][i].action.tool = "prepare_rollback"}
  <2> SUFFICES
        ASSUME NEW r \in Runs
        PROVE  /\ effects[r] = {[step |-> events[r][i].step,
                                 action |-> events[r][i].action] : i \in W(r)}
               /\ \A i, j \in W(r) : events[r][i].step = events[r][j].step => i = j
               /\ \A i \in W(r) :
                    /\ \E j \in Indices(r, {"approval.recorded"}) :
                         /\ j < i /\ events[r][j].code = "allow"
                         /\ events[r][j].step = events[r][i].step
                         /\ events[r][j].action = events[r][i].action
                    /\ \A j \in Indices(r, {"approval.denied"}) : i < j
    BY DEF WritesAreAllowed
  <2>1. W(r) = Writes(events[r])
    BY IndicesIdx DEF Writes, Successes
  <2>2. CASE NoRun(rows[r], events[r], decisions[r], effects[r])
    <3>1. W(r) = {}
      BY <2>2 DEF NoRun, Indices
    <3> QED BY <3>1, <2>2 DEF NoRun
  <2>3. CASE RunInv(rows[r], events[r], decisions[r], effects[r])
    <3> DEFINE es == events[r]
    <3>1. /\ Written(es, effects[r]) /\ Approved(es) /\ Paired(es)
          /\ Counts(es, Successes, 0, rows[r].step - 1)
          /\ DenialEnds(es, rows[r].status) /\ es \in Seq(EventSet)
      BY <2>3 DEF RunInv, Core, Performed
    <3>2. \A i \in DOMAIN es : i \in Nat
      BY <3>1, LenProperties
    <3>3. ASSUME NEW i \in W(r), NEW j \in W(r), es[i].step = es[j].step PROVE i = j
      <4>1. i \in Idx(es, Successes) /\ j \in Idx(es, Successes)
        BY <2>1 DEF Writes
      <4>2. i \in Nat /\ j \in Nat /\ es[i].step \in Int /\ es[j].step \in Int
        BY <4>1, <3>1, <3>2, EventFields, ElementOfSeq, LenProperties DEF Idx
      <4> QED BY <4>1, <4>2, <3>1, <3>3 DEF Counts
    <3>4. ASSUME NEW i \in W(r)
          PROVE  \E j \in Indices(r, {"approval.recorded"}) :
                   /\ j < i /\ es[j].code = "allow"
                   /\ es[j].step = es[i].step
                   /\ es[j].action = es[i].action
      BY <2>1, <3>1 DEF Approved, Allowance, Indices
    <3>5. ASSUME NEW i \in W(r), NEW j \in Indices(r, {"approval.denied"})
          PROVE  i < j
      BY <2>1, <3>1, IndicesIdx DEF DenialEnds, Denials
    <3> QED BY <2>1, <3>1, <3>3, <3>4, <3>5 DEF Written
  <2> QED BY <1>1, <2>2, <2>3 DEF EngineInv, RunsInv
<1> QED BY <1>1, Invariant, PTL

LEMMA OnceOccurs ==
  ASSUME NEW es, NEW types, Once(es, types), NEW x \in {Identity(es[i]) : i \in Idx(es, types)}
  PROVE  Occurs([i \in Idx(es, types) |-> Identity(es[i])], x) = 1
<1> DEFINE bag == [i \in Idx(es, types) |-> Identity(es[i])]
<1>1. PICK k \in Idx(es, types) : x = Identity(es[k])
  OBVIOUS
<1>2. {i \in DOMAIN bag : bag[i] = x} = {k}
  BY <1>1 DEF Once
<1>3. Cardinality({k}) = 1
  BY FS_Singleton
<1> QED BY <1>2, <1>3 DEF Occurs

\* At every transaction each started attempt has exactly one end, so that
\* attempts can be graded whenever a report is made (_case).
THEOREM TracesStayGradable == Spec => []TracesAreGradable
<1>1. ASSUME EngineInv PROVE TracesAreGradable
  <2> SUFFICES ASSUME NEW r \in Runs PROVE AttemptsComplete(r)
    BY DEF TracesAreGradable
  <2> DEFINE es == events[r]
             started == Identities(r, {"tool.attempt.started"})
             ended == Identities(r, {"tool.attempt.succeeded", "tool.attempt.failed"})
  <2>1. Paired(es)
    <3>1. CASE NoRun(rows[r], events[r], decisions[r], effects[r])
      BY <3>1 DEF NoRun, Paired, Once, Idx
    <3>2. CASE RunInv(rows[r], events[r], decisions[r], effects[r])
      BY <3>2 DEF RunInv, Core, Performed
    <3> QED BY <1>1, <3>1, <3>2 DEF EngineInv, RunsInv
  <2>2. /\ started = [i \in Idx(es, Starts) |-> Identity(es[i])]
        /\ ended = [i \in Idx(es, Ended) |-> Identity(es[i])]
    BY IndicesIdx DEF Identities, Starts, Ended
  <2>3. SameBag(started, ended)
    <3>1. /\ {started[i] : i \in DOMAIN started} = {Identity(es[i]) : i \in Idx(es, Starts)}
          /\ {ended[i] : i \in DOMAIN ended} = {Identity(es[i]) : i \in Idx(es, Ended)}
      BY <2>2
    <3>2. ASSUME NEW x \in {started[i] : i \in DOMAIN started}
                             \cup {ended[i] : i \in DOMAIN ended}
          PROVE  Occurs(started, x) = Occurs(ended, x)
      <4>1. /\ x \in {Identity(es[i]) : i \in Idx(es, Starts)}
            /\ x \in {Identity(es[i]) : i \in Idx(es, Ended)}
        BY <2>1, <3>1 DEF Paired
      <4>2. Occurs(started, x) = 1 /\ Occurs(ended, x) = 1
        BY <2>1, <2>2, <4>1, OnceOccurs DEF Paired
      <4> QED BY <4>2
    <3> QED BY <3>2 DEF SameBag
  <2>4. \A i, j \in DOMAIN started : started[i] = started[j] => i = j
    BY <2>1, <2>2 DEF Paired, Once
  <2> QED BY <2>3, <2>4 DEF AttemptsComplete
<1> QED BY <1>1, Invariant, PTL

-----------------------------------------------------------------------------
(* Settled runs and the evaluations that cite them *)

Still(r) ==
  /\ rows'[r] = rows[r] /\ events'[r] = events[r]
  /\ decisions'[r] = decisions[r] /\ effects'[r] = effects[r]

\* A settled run is never written again: not its row, not its trace, not its
\* decisions or effects, whoever resumes or approves it and under whatever
\* package (_advance returns it, _approve finds no pending action).
SettledRunsStay == [][\A r \in Runs : rows[r].status \in Terminal => Still(r)]_vars

\* A run was made for a case of the suite.
IsCase(r, x) == rows[r].scenario = x.scenario /\ rows[r].mode = x.mode

\* The evidence of a settled run is its row and trace, to this day.
Cited(ref) ==
  ref.evidence.row.status \in Terminal =>
    Evidence(ref.run, rows[ref.run]) = ref.evidence

\* References to the first cases of the suite, in order.
CitesFirst(refs) ==
  \A i \in DOMAIN refs : IsCase(refs[i].run, Cases[i]) /\ Cited(refs[i])

\* What makes a saved evaluation readable, as far as the engine goes: it cites
\* one run for every case of the suite, in order, and the evidence of each run
\* that had ended still stands and is complete.
EvaluationsStand ==
  \A k \in DOMAIN evaluations :
    LET refs == evaluations[k].runs
    IN  /\ Len(refs) = Len(Cases) /\ CitesFirst(refs)
        /\ \A i \in DOMAIN refs : AttemptsComplete(refs[i].run)

\* An evaluation on its way has cited the cases it has run, and is at the next.
BatchHolds(e) ==
  LET q == request[e]
      b == batch[e]
  IN  /\ q.phase = "choose" => q.evaluates
      /\ ~q.evaluates => b.refs = <<>>
      /\ q.evaluates =>
           /\ CitesFirst(b.refs)
           /\ Len(b.refs) + Len(b.todo) = Len(Cases)
           /\ \A i \in DOMAIN b.todo : b.todo[i] = Cases[Len(b.refs) + i]
           /\ q.phase \in {"advance", "returned"} =>
                q.run \in Runs /\ IsCase(q.run, Head(b.todo))
           /\ q.phase = "returned" /\ q.seen.status \in Terminal =>
                rows[q.run] = q.seen

BatchesHold == \A e \in Apps : BatchHolds(e)

EvaluationsHold ==
  \A k \in DOMAIN evaluations :
    /\ Len(evaluations[k].runs) = Len(Cases)
    /\ CitesFirst(evaluations[k].runs)

\* How a step leaves the case that a run was made for.
SameCase(row, row2) == row2.scenario = row.scenario /\ row2.mode = row.mode

\* A step writes at most one run, one that is not settled, and leaves its case.
WritesTo(r) ==
  /\ rows[r].status \notin Terminal
  /\ rows[r].status # "absent" => SameCase(rows[r], rows'[r])
  /\ \A q \in Runs \ {r} : Still(q)

OneWrite == (\A q \in Runs : Still(q)) \/ \E r \in Runs : WritesTo(r)

LEMMA TransactWrites ==
  ASSUME EngineInv, NEW e, NEW r \in Runs, NEW row, NEW new, Transact(e, r, row, new),
         NEW done, effects' = [effects EXCEPT ![r] = done],
         SameCase(rows[r], row)
  PROVE  OneWrite
<1>1. /\ Active(r) /\ rows' = [rows EXCEPT ![r] = row] /\ decisions' = decisions
      /\ events' = [events EXCEPT ![r] = Join(@, Join(OpeningEvents(r), new))]
  BY Transacts
<1>2. rows'[r] = row
  BY <1>1 DEF EngineInv, EngineType
<1>3. \A q \in Runs \ {r} : Still(q)
  BY <1>1 DEF EngineInv, EngineType, Still
<1>4. rows[r].status \notin Terminal
  BY <1>1 DEF Active, Terminal
<1> QED BY <1>2, <1>3, <1>4 DEF OneWrite, WritesTo

LEMMA TransactRowWrites ==
  ASSUME EngineInv, NEW e, NEW r \in Runs, NEW row, NEW new, Transact(e, r, row, new),
         effects' = effects, SameCase(rows[r], row)
  PROVE  OneWrite
<1>1. effects' = [effects EXCEPT ![r] = effects[r]]
  BY DEF EngineInv, EngineType
<1> QED BY <1>1, TransactWrites

LEMMA AdvanceWrites ==
  ASSUME EngineInv, NEW e \in Apps, NEW r \in Runs,
         \/ Exhaust(e, r) \/ Finish(e, r) \/ GiveUp(e, r)
         \/ RejectCall(e, r) \/ AwaitApproval(e, r)
         \/ RetryAttempt(e, r) \/ FailAttempt(e, r) \/ SucceedAttempt(e, r)
  PROVE  OneWrite
<1>1. Active(r)
  BY DEF Exhaust, Finish, GiveUp, RejectCall, AwaitApproval, RetryAttempt,
         FailAttempt, SucceedAttempt, Attempting, Calling
<1>2. rows[r] \in RowSet
  BY <1>1, Existing DEF EngineInv, Active
<1>3. Opened(r) \in RowSet /\ SameCase(rows[r], Opened(r))
  BY <1>2, OpenedRow DEF SameCase
<1>4. ASSUME NEW row \in RowSet, SameCase(rows[r], row), NEW new, NEW code,
             FailTransaction(e, r, row, new, code)
      PROVE  OneWrite
  <2>1. SameCase(rows[r], FailedRow(row, code))
    BY <1>4 DEF SameCase, FailedRow, RowSet
  <2>2. \E es : Transact(e, r, FailedRow(row, code), es)
    BY <1>4 DEF FailTransaction
  <2>3. effects' = effects
    BY <1>4 DEF FailTransaction
  <2> QED BY <2>1, <2>2, <2>3, TransactRowWrites
<1>5. CASE Exhaust(e, r)
  <2> DEFINE row == [rows[r] EXCEPT !.status = "running"]
  <2>1. row \in RowSet /\ SameCase(rows[r], row)
    BY <1>2, StatusRow DEF Statuses, SameCase
  <2>2. FailTransaction(e, r, row, <<>>, "scenario_exhausted")
    BY <1>5 DEF Exhaust
  <2> HIDE DEF row
  <2> QED BY <1>4, <2>1, <2>2
<1>6. CASE GiveUp(e, r) \/ RejectCall(e, r) \/ FailAttempt(e, r)
  <2>1. \E new, code : FailTransaction(e, r, Opened(r), new, code)
    <3>1. CASE GiveUp(e, r) BY <3>1 DEF GiveUp
    <3>2. CASE RejectCall(e, r) BY <3>2 DEF RejectCall
    <3>3. CASE FailAttempt(e, r) BY <3>3 DEF FailAttempt
    <3> QED BY <1>6, <3>1, <3>2, <3>3
  <2> QED BY <1>3, <1>4, <2>1
<1>7. CASE Finish(e, r)
  <2> DEFINE row == [Opened(r) EXCEPT !.status = "succeeded",
                                      !.result = ActionOf(r).result]
  <2>1. SameCase(rows[r], row)
    BY <1>3 DEF SameCase, RowSet
  <2>2. (\E new : Transact(e, r, row, new)) /\ effects' = effects
    BY <1>7 DEF Finish
  <2> HIDE DEF row
  <2> QED BY <2>1, <2>2, TransactRowWrites
<1>8. CASE AwaitApproval(e, r)
  <2> DEFINE row == [Opened(r) EXCEPT !.status = "waiting_approval",
                                      !.pending = ActionOf(r)]
  <2>1. SameCase(rows[r], row)
    BY <1>3 DEF SameCase, RowSet
  <2>2. (\E new : Transact(e, r, row, new)) /\ effects' = effects
    BY <1>8 DEF AwaitApproval
  <2> HIDE DEF row
  <2> QED BY <2>1, <2>2, TransactRowWrites
<1>9. CASE RetryAttempt(e, r)
  <2> DEFINE row == [Opened(r) EXCEPT !.attempt = @ + 1]
  <2>1. SameCase(rows[r], row)
    BY <1>3 DEF SameCase, RowSet
  <2>2. (\E new : Transact(e, r, row, new)) /\ effects' = effects
    BY <1>9 DEF RetryAttempt
  <2> HIDE DEF row
  <2> QED BY <2>1, <2>2, TransactRowWrites
<1>10. CASE SucceedAttempt(e, r)
  <2> DEFINE row == [Opened(r) EXCEPT !.step = @ + 1, !.attempt = 1,
                                      !.pending = NoAction]
             done == effects[r] \cup NewEffects(r)
  <2>1. SameCase(rows[r], row)
    BY <1>3 DEF SameCase, RowSet
  <2>2. /\ \E new : Transact(e, r, row, new)
        /\ effects' = [effects EXCEPT ![r] = done]
    BY <1>10 DEF SucceedAttempt
  <2> HIDE DEF row, done
  <2> QED BY <2>1, <2>2, TransactWrites
<1> QED BY <1>5, <1>6, <1>7, <1>8, <1>9, <1>10

LEMMA DecideWrites ==
  ASSUME EngineInv, NEW e, NEW r \in Runs, NEW d, Decide(e, r, d)
  PROVE  OneWrite
<1>1. /\ rows' = [rows EXCEPT ![r] = Decided(r, d)] /\ effects' = effects
      /\ rows[r].status = "waiting_approval"
      /\ \E es : events' = [events EXCEPT ![r] = es]
      /\ \E ds : decisions' = [decisions EXCEPT ![r] = ds]
  BY DEF Decide, MatchesPending, Save, Log
<1>2. rows[r] \in RowSet
  BY <1>1, Existing DEF EngineInv
<1>3. SameCase(rows[r], Decided(r, d))
  BY <1>2 DEF Decided, FailedRow, RowSet, SameCase
<1>4. rows'[r] = Decided(r, d)
  BY <1>1 DEF EngineInv, EngineType
<1>5. \A q \in Runs \ {r} : Still(q)
  BY <1>1 DEF EngineInv, EngineType, Still
<1>6. rows[r].status \notin Terminal
  BY <1>1 DEF Terminal
<1> QED BY <1>3, <1>4, <1>5, <1>6 DEF OneWrite, WritesTo

LEMMA CreateRunWrites ==
  ASSUME EngineInv, NEW e, NEW r \in Runs, NEW name, NEW mode,
         CreateRun(e, r, name, mode)
  PROVE  /\ OneWrite
         /\ rows'[r].scenario = name /\ rows'[r].mode = mode
<1>1. /\ rows' = [rows EXCEPT ![r] = NewRow(name, mode)]
      /\ rows[r].status = "absent" /\ effects' = effects /\ decisions' = decisions
      /\ \E es : events' = [events EXCEPT ![r] = es]
  BY DEF CreateRun, Fresh, Exists, Save, Log
<1>2. rows'[r] = NewRow(name, mode)
  BY <1>1 DEF EngineInv, EngineType
<1>3. \A q \in Runs \ {r} : Still(q)
  BY <1>1 DEF EngineInv, EngineType, Still
<1>4. rows[r].status \notin Terminal
  BY <1>1 DEF Terminal
<1>5. OneWrite
  BY <1>1, <1>3, <1>4 DEF OneWrite, WritesTo
<1> QED BY <1>2, <1>5 DEF NewRow

LEMMA NoWrite ==
  ASSUME UNCHANGED <<rows, events, decisions, effects>>
  PROVE  OneWrite
BY DEF OneWrite, Still

LEMMA NextWrites ==
  ASSUME EngineInv, [Next]_vars
  PROVE  OneWrite
<1>1. ASSUME NEW e \in Apps, Ask(e) PROVE OneWrite
  BY <1>1, CreateRunWrites, DecideWrites, NoWrite
     DEF Ask, Start, Resume, Approve, RepeatApproval, Evaluate, tables
<1>2. ASSUME NEW e \in Apps, Proceed(e) PROVE OneWrite
  <2>1. ASSUME NEW r \in Runs,
               Return(e, r) \/ Refuse(e, r) \/ RecordCase(e, r) \/ StartCase(e, r)
        PROVE  OneWrite
    BY <2>1, CreateRunWrites, NoWrite DEF Return, Refuse, RecordCase, StartCase, tables
  <2>2. ASSUME NEW r \in Runs, ApproveCase(e, r) PROVE OneWrite
    BY <2>2, DecideWrites, NoWrite DEF ApproveCase, tables
  <2>3. CASE OutOfBudget(e) \/ SaveEvaluation(e)
    BY <2>3, NoWrite DEF OutOfBudget, SaveEvaluation, tables
  <2> QED BY <1>2, <2>1, <2>2, <2>3, AdvanceWrites DEF Proceed
<1>3. ASSUME NEW e \in Apps, Crash(e) PROVE OneWrite
  BY <1>3, NoWrite DEF Crash, tables
<1>4. CASE Upgrade \/ UNCHANGED vars
  BY <1>4, NoWrite DEF Upgrade, vars, tables
<1> QED BY <1>1, <1>2, <1>3, <1>4 DEF Next

LEMMA SettledStay ==
  ASSUME OneWrite, NEW r \in Runs, rows[r].status \in Terminal
  PROVE  Still(r)
BY DEF OneWrite, WritesTo

\* No client, crash or upgrade writes to a run that has ended (_advance,
\* _approve): its row, trace, decisions and effects are final.
THEOREM SettledIsFinal == Spec => SettledRunsStay
<1>1. EngineInv /\ [Next]_vars =>
        [\A r \in Runs : rows[r].status \in Terminal => Still(r)]_vars
  BY NextWrites, SettledStay
<1> QED BY <1>1, Invariant, PTL DEF Spec, SettledRunsStay

-----------------------------------------------------------------------------
(* The references of an evaluation *)

\* What a reference was to stays as it was.
LEMMA CitedStays ==
  ASSUME OneWrite, NEW ref \in RefSet, Cited(ref)
  PROVE  Cited(ref)'
<1> DEFINE r == ref.run
           row == ref.evidence.row
<1>1. r \in Runs
  BY DEF RefSet
<1>2. CASE row.status \in Terminal
  <2>1. Evidence(r, rows[r]) = ref.evidence
    BY <1>2 DEF Cited
  <2>2. rows[r] = row
    BY <2>1 DEF Evidence
  <2>3. Still(r)
    BY <1>1, <1>2, <2>2, SettledStay
  <2> QED BY <2>1, <2>3 DEF Cited, Evidence, Still
<1>3. CASE row.status \notin Terminal
  BY <1>3 DEF Cited
<1> QED BY <1>2, <1>3

LEMMA CaseStays ==
  ASSUME EngineInv, OneWrite, NEW r \in Runs, NEW x \in CaseSet, IsCase(r, x)
  PROVE  IsCase(r, x)'
<1>1. rows[r].mode # "none"
  BY DEF CaseSet, Modes, IsCase
<1>2. rows[r].status # "absent"
  <2>1. rows[r] # Absent
    BY <1>1 DEF Absent
  <2>2. rows[r] \in RowSet
    BY <2>1 DEF EngineInv, RunsInv, NoRun, RunInv, Core
  <2> QED BY <2>2, RowFields DEF Statuses
<1>3. SameCase(rows[r], rows'[r])
  BY <1>2 DEF OneWrite, WritesTo, Still, SameCase
<1> QED BY <1>3 DEF IsCase, SameCase

LEMMA CitesStay ==
  ASSUME EngineInv, OneWrite, NEW refs \in Seq(RefSet), CitesFirst(refs),
         Len(refs) <= Len(Cases)
  PROVE  CitesFirst(refs)'
<1> SUFFICES ASSUME NEW i \in DOMAIN refs
             PROVE  IsCase(refs[i].run, Cases[i])' /\ Cited(refs[i])'
  BY DEF CitesFirst
<1>1. refs[i] \in RefSet /\ refs[i].run \in Runs
  <2>1. refs[i] \in RefSet
    BY ElementOfSeq, LenProperties
  <2> QED BY <2>1 DEF RefSet
<1>2. Cases[i] \in CaseSet
  <2>1. i \in 1..Len(Cases)
    <3>1. Len(Cases) \in Nat /\ Len(refs) \in Nat /\ DOMAIN refs = 1..Len(refs)
      BY CasesType, LenProperties
    <3> HIDE DEF Cases
    <3> QED BY <3>1
  <2> QED BY <2>1, CasesType, ElementOfSeq
<1>3. PICK x \in CaseSet, r \in Runs : x = Cases[i] /\ r = refs[i].run
  BY <1>1, <1>2
<1>4. IsCase(r, x)'
  BY <1>3, CaseStays DEF CitesFirst
<1>5. Cited(refs[i])'
  BY <1>1, CitedStays DEF CitesFirst
<1>6. Cases' = Cases
  BY DEF Cases
<1> QED BY <1>3, <1>4, <1>5, <1>6 DEF IsCase

\* An evaluation whose batch a step leaves alone.
LEMMA BatchOn ==
  ASSUME EngineInv, EngineInv', OneWrite, NEW e \in Apps, BatchHolds(e),
         batch'[e] = batch[e], request'[e].evaluates = request[e].evaluates,
         request'[e].phase = "choose" => request'[e].evaluates,
         request'[e].evaluates /\ request'[e].phase \in {"advance", "returned"} =>
           request'[e].run \in Runs /\ IsCase(request[e].run, Head(batch[e].todo))',
         request'[e].phase = "returned" /\ request'[e].seen.status \in Terminal =>
           rows'[request'[e].run] = request'[e].seen
  PROVE  BatchHolds(e)'
<1>1. CASE ~request[e].evaluates
  BY <1>1 DEF BatchHolds
<1>2. CASE request[e].evaluates
  <2>1. PICK refs \in Seq(RefSet) : refs = batch[e].refs
    BY RequestFields DEF EngineInv
  <2>2. Len(batch[e].todo) \in Nat /\ Len(refs) \in Nat /\ Len(Cases) \in Nat
    BY <2>1, RequestFields, CasesType, LenProperties DEF EngineInv
  <2>3. CitesFirst(refs) /\ Len(refs) + Len(batch[e].todo) = Len(Cases)
    BY <1>2, <2>1 DEF BatchHolds
  <2> HIDE DEF Cases
  <2>4. Len(refs) <= Len(Cases)
    BY <2>2, <2>3
  <2>5. CitesFirst(refs)'
    BY <2>3, <2>4, CitesStay
  <2>6. CitesFirst(batch[e].refs)'
    BY <2>1, <2>5 DEF CitesFirst
  <2>7. Cases' = Cases
    BY DEF Cases
  <2> QED BY <1>2, <2>6, <2>7 DEF BatchHolds
<1> QED BY <1>1, <1>2

\* The case an evaluation is at stays the case it is at.
LEMMA AtCase ==
  ASSUME EngineInv, OneWrite, NEW e \in Apps, BatchHolds(e), request[e].evaluates,
         request[e].phase \in {"advance", "returned"}, batch'[e] = batch[e],
         request'[e].run = request[e].run
  PROVE  /\ request[e].run \in Runs
         /\ IsCase(request[e].run, Head(batch[e].todo))'
<1>1. request[e].run \in Runs /\ IsCase(request[e].run, Head(batch[e].todo))
  BY DEF BatchHolds
<1>2. Head(batch[e].todo) \in CaseSet
  <2>1. batch[e].todo \in Seq(CaseSet) /\ batch[e].todo # <<>>
    BY RequestFields DEF EngineInv, Evaluating
  <2> QED BY <2>1, HeadTailProperties
<1>3. PICK r \in Runs, x \in CaseSet :
        r = request[e].run /\ x = Head(batch[e].todo)
  BY <1>1, <1>2
<1>4. IsCase(r, x)'
  BY <1>1, <1>3, CaseStays
<1> QED BY <1>1, <1>3, <1>4 DEF IsCase

LEMMA Bystander ==
  ASSUME EngineInv, EngineInv', OneWrite, NEW e \in Apps, BatchHolds(e),
         batch'[e] = batch[e], request'[e] = request[e]
  PROVE  BatchHolds(e)'
<1>1. request[e].evaluates /\ request[e].phase \in {"advance", "returned"} =>
        request[e].run \in Runs /\ IsCase(request[e].run, Head(batch[e].todo))'
  BY AtCase
<1>2. ASSUME request[e].phase = "returned", request[e].seen.status \in Terminal
      PROVE  rows'[request[e].run] = request[e].seen
  <2>1. request[e].evaluates
    BY <1>2 DEF EngineInv, Evaluating
  <2>2. request[e].run \in Runs /\ rows[request[e].run] = request[e].seen
    BY <1>2, <2>1 DEF BatchHolds
  <2>3. PICK r \in Runs : r = request[e].run
    BY <2>2
  <2>4. Still(r)
    BY <1>2, <2>2, <2>3, SettledStay
  <2> QED BY <2>2, <2>3, <2>4 DEF Still
<1>3. request'[e].phase = "choose" => request'[e].evaluates
  BY DEF BatchHolds
<1> QED BY <1>1, <1>2, <1>3, BatchOn

LEMMA StoppedBatch ==
  ASSUME EngineInv, NEW e \in Apps, Stop(e)
  PROVE  BatchHolds(e)'
<1>1. request'[e] = NoRequest /\ batch'[e] = NoBatch
  BY DEF Stop, EngineInv, EngineType
<1> QED BY <1>1 DEF BatchHolds, NoRequest, NoBatch

\* What Drive does to a request.
LEMMA DriveFields ==
  ASSUME EngineInv, NEW e \in Apps, NEW r, Drive(e, r)
  PROVE  /\ request'[e].evaluates = request[e].evaluates
         /\ request'[e].phase = "advance" /\ request'[e].run = r
<1> DEFINE p == request[e]
<1>1. p \in RequestSet
  BY RequestFields DEF EngineInv
<1>2. request'[e] = [p EXCEPT !.phase = "advance", !.run = r, !.left = AdvanceBudget,
                              !.seen = Absent]
  BY DEF Drive, EngineInv, EngineType
<1> HIDE DEF p
<1>3. request'[e].evaluates = p.evaluates /\ request'[e].phase = "advance"
      /\ request'[e].run = r
  BY <1>1, <1>2 DEF RequestSet
<1> QED BY <1>3 DEF p

LEMMA IdleBatch ==
  ASSUME EngineInv, NEW e \in Apps, BatchHolds(e), Idle(e)
  PROVE  ~request[e].evaluates /\ batch[e].refs = <<>>
BY DEF Idle, EngineInv, Evaluating, BatchHolds

LEMMA AskBatch ==
  ASSUME EngineInv, NEW e \in Apps, BatchHolds(e), Ask(e)
  PROVE  BatchHolds(e)'
<1>1. Idle(e)
  BY DEF Ask, Start, Resume, Approve, RepeatApproval, Evaluate
<1>2. ~request[e].evaluates /\ batch[e].refs = <<>>
  BY <1>1, IdleBatch
<1>3. ASSUME NEW r, Drive(e, r), batch' = batch PROVE BatchHolds(e)'
  BY <1>2, <1>3, DriveFields DEF BatchHolds
<1>4. CASE Evaluate(e)
  <2> DEFINE p == request[e]
             o == batch[e]
  <2>1. /\ request'[e] = [p EXCEPT !.phase = "choose", !.evaluates = TRUE]
        /\ batch'[e] = [o EXCEPT !.todo = Cases]
    BY <1>4 DEF Evaluate, EngineInv, EngineType
  <2>2. p \in RequestSet /\ o \in BatchSet /\ o.refs = <<>>
    BY <1>2, RequestFields DEF EngineInv
  <2> HIDE DEF p, o
  <2>3. request'[e].phase = "choose" /\ request'[e].evaluates
    BY <2>1, <2>2 DEF RequestSet
  <2>4. batch'[e].todo = Cases /\ batch'[e].refs = <<>>
    BY <2>1, <2>2 DEF BatchSet
  <2>5. Len(<<>>) = 0 /\ Len(Cases) \in Nat /\ DOMAIN Cases = 1..Len(Cases)
    BY CasesType, LenProperties
  <2>6. Cases' = Cases
    BY DEF Cases
  <2>7. CitesFirst(batch[e].refs)'
    BY <2>4 DEF CitesFirst
  <2> HIDE DEF Cases
  <2>8. Len(batch'[e].refs) + Len(batch'[e].todo) = Len(Cases)
    BY <2>4, <2>5
  <2>9. \A i \in DOMAIN Cases : Cases[i] = Cases[0 + i]
    BY <2>5
  <2>10. \A i \in DOMAIN batch'[e].todo :
           batch'[e].todo[i] = Cases[Len(batch'[e].refs) + i]
    BY <2>4, <2>5, <2>9
  <2> QED BY <2>3, <2>6, <2>7, <2>8, <2>10 DEF BatchHolds
<1> QED BY <1>3, <1>4
        DEF Ask, Start, CreateRun, Resume, Approve, Decide, RepeatApproval

LEMMA TransactBatch ==
  ASSUME EngineInv, EngineInv', OneWrite, NEW e \in Apps, BatchHolds(e),
         NEW r \in Runs, NEW row, NEW new, Transact(e, r, row, new)
  PROVE  BatchHolds(e)'
<1> DEFINE p == request[e]
           n == request[e].left - 1
<1>1. /\ request'[e] = [p EXCEPT !.left = n] /\ batch' = batch
      /\ p.phase = "advance" /\ p.run = r
  BY DEF Transact, InAdvance, EngineInv, EngineType
<1>2. p \in RequestSet
  BY RequestFields DEF EngineInv
<1> HIDE DEF n
<1>3. /\ request'[e].evaluates = p.evaluates /\ request'[e].phase = "advance"
      /\ request'[e].run = p.run
  BY <1>1, <1>2 DEF RequestSet
<1>4. p.evaluates =>
        p.run \in Runs /\ IsCase(request[e].run, Head(batch[e].todo))'
  BY <1>1, <1>3, AtCase
<1> QED BY <1>1, <1>3, <1>4, BatchOn

LEMMA ReturnBatch ==
  ASSUME EngineInv, EngineInv', OneWrite, NEW e \in Apps, BatchHolds(e),
         NEW r \in Runs, Return(e, r)
  PROVE  BatchHolds(e)'
<1> DEFINE p == request[e]
           s == rows[r]
<1>1. CASE p.evaluates
  <2>1. /\ request'[e] = [p EXCEPT !.phase = "returned", !.seen = s]
        /\ batch' = batch /\ rows' = rows /\ p.phase = "advance" /\ p.run = r
    BY <1>1 DEF Return, InAdvance, tables, EngineInv, EngineType
  <2>2. p \in RequestSet
    BY RequestFields DEF EngineInv
  <2> HIDE DEF s
  <2>3. /\ request'[e].evaluates = p.evaluates /\ request'[e].phase = "returned"
        /\ request'[e].run = p.run /\ request'[e].seen = s
    BY <2>1, <2>2 DEF RequestSet
  <2>4. p.run \in Runs /\ IsCase(request[e].run, Head(batch[e].todo))'
    BY <1>1, <2>1, <2>3, AtCase
  <2>5. rows'[request'[e].run] = request'[e].seen
    BY <2>1, <2>3 DEF s
  <2> QED BY <2>1, <2>3, <2>4, <2>5, BatchOn
<1>2. CASE ~p.evaluates
  BY <1>2, StoppedBatch DEF Return
<1> QED BY <1>1, <1>2

LEMMA StartCaseBatch ==
  ASSUME EngineInv, EngineInv', OneWrite, NEW e \in Apps, BatchHolds(e),
         NEW r \in Runs, StartCase(e, r)
  PROVE  BatchHolds(e)'
<1>1. batch' = batch /\ Drive(e, r)
  BY DEF StartCase, CreateRun
<1>2. /\ request'[e].evaluates = request[e].evaluates
      /\ request'[e].phase = "advance" /\ request'[e].run = r
  BY <1>1, DriveFields
<1>3. /\ rows'[r].scenario = Head(batch[e].todo).scenario
      /\ rows'[r].mode = Head(batch[e].todo).mode
  BY CreateRunWrites DEF StartCase
<1>4. IsCase(request[e].run, Head(batch[e].todo))'
  BY <1>1, <1>2, <1>3 DEF IsCase
<1> QED BY <1>1, <1>2, <1>4, BatchOn

LEMMA ApproveCaseBatch ==
  ASSUME EngineInv, EngineInv', OneWrite, NEW e \in Apps, BatchHolds(e),
         NEW r \in Runs, ApproveCase(e, r)
  PROVE  BatchHolds(e)'
<1>1. CASE rows[r].status = "waiting_approval"
  <2>1. batch' = batch /\ Drive(e, r) /\ request[e].phase = "returned"
        /\ request[e].run = r
    BY <1>1 DEF ApproveCase, Decide
  <2>2. /\ request'[e].evaluates = request[e].evaluates
        /\ request'[e].phase = "advance" /\ request'[e].run = request[e].run
    BY <2>1, DriveFields
  <2>3. request[e].evaluates
    BY <2>1 DEF EngineInv, Evaluating
  <2>4. request[e].run \in Runs /\ IsCase(request[e].run, Head(batch[e].todo))'
    BY <2>1, <2>2, <2>3, AtCase
  <2> QED BY <2>1, <2>2, <2>4, BatchOn
<1>2. CASE rows[r].status # "waiting_approval"
  BY <1>2, StoppedBatch DEF ApproveCase
<1> QED BY <1>1, <1>2

\* One reference more, to the case that was at the head.
LEMMA CitesOneMore ==
  ASSUME NEW refs \in Seq(RefSet), NEW ref \in RefSet, CitesFirst(refs)',
         IsCase(ref.run, Cases[Len(refs) + 1])', Cited(ref)'
  PROVE  CitesFirst(Append(refs, ref))'
<1> DEFINE more == Append(refs, ref)
           n == Len(refs)
<1>1. /\ n \in Nat /\ DOMAIN refs = 1..n /\ DOMAIN more = 1..(n + 1)
      /\ \A i \in 1..n : more[i] = refs[i]
      /\ more[n + 1] = ref
  BY AppendProperties, LenProperties
<1>2. 1..(n + 1) = 1..n \cup {n + 1}
  BY <1>1
<1> HIDE DEF more, n
<1>3. \A i \in DOMAIN more : i \in 1..n \/ i = n + 1
  BY <1>1, <1>2
<1>4. IsCase(ref.run, Cases[n + 1])'
  BY DEF n
<1> SUFFICES ASSUME NEW i \in DOMAIN more
             PROVE  IsCase(more[i].run, Cases[i])' /\ Cited(more[i])'
  BY DEF CitesFirst, more
<1>5. CASE i \in 1..n
  BY <1>1, <1>5 DEF CitesFirst
<1>6. CASE i = n + 1
  BY <1>1, <1>4, <1>6
<1> QED BY <1>3, <1>5, <1>6

LEMMA RecordCaseBatch ==
  ASSUME EngineInv, EngineInv', OneWrite, NEW e \in Apps, BatchHolds(e),
         NEW r \in Runs, RecordCase(e, r)
  PROVE  BatchHolds(e)'
<1> DEFINE p == request[e]
           ref0 == [run |-> r, evidence |-> Evidence(r, p.seen)]
<1>1. /\ p.phase = "returned" /\ p.run = r /\ rows' = rows /\ events' = events
      /\ request'[e] = [p EXCEPT !.phase = "choose", !.seen = Absent]
      /\ batch'[e] = [todo |-> Tail(batch[e].todo),
                      refs |-> Append(batch[e].refs, ref0)]
  BY DEF RecordCase, tables, EngineInv, EngineType
<1>2. p \in RequestSet /\ p.evaluates /\ batch[e].todo # <<>>
  BY <1>1, RequestFields DEF EngineInv, Evaluating
<1>3. request'[e].phase = "choose" /\ request'[e].evaluates
  BY <1>1, <1>2 DEF RequestSet
<1>4. ref0 \in RefSet
  <2>1. p.seen \in AnyRow /\ events[r] \in Seq(EventSet)
    BY RequestFields DEF EngineInv, EngineType
  <2> QED BY <2>1 DEF RefSet, Evidence
<1>5. PICK refs \in Seq(RefSet), todo \in Seq(CaseSet), ref \in RefSet :
        refs = batch[e].refs /\ todo = batch[e].todo /\ ref = ref0
  BY <1>4, RequestFields DEF EngineInv
<1>6. /\ CitesFirst(refs) /\ Len(refs) + Len(todo) = Len(Cases)
      /\ \A i \in DOMAIN todo : todo[i] = Cases[Len(refs) + i]
      /\ IsCase(r, Head(todo))
      /\ p.seen.status \in Terminal => rows[r] = p.seen
  BY <1>1, <1>2, <1>5 DEF BatchHolds
<1>7. /\ Len(refs) \in Nat /\ Len(todo) \in Nat /\ Len(Cases) \in Nat
      /\ DOMAIN todo = 1..Len(todo) /\ DOMAIN refs = 1..Len(refs)
      /\ todo # <<>>
  BY <1>2, <1>5, CasesType, LenProperties
<1>8. /\ Head(todo) = todo[1] /\ Len(todo) > 0
      /\ Tail(todo) \in Seq(CaseSet) /\ Len(Tail(todo)) = Len(todo) - 1
      /\ \A i \in 1..(Len(todo) - 1) : Tail(todo)[i] = todo[i + 1]
  BY <1>7, HeadTailProperties, EmptySeq
<1>9. /\ Append(refs, ref) \in Seq(RefSet) /\ Len(Append(refs, ref)) = Len(refs) + 1
  BY AppendProperties
<1>10. DOMAIN Tail(todo) = 1..(Len(todo) - 1)
  BY <1>8, LenProperties
<1> HIDE DEF Cases
<1>11. Len(Append(refs, ref)) + Len(Tail(todo)) = Len(Cases)
  BY <1>6, <1>7, <1>8, <1>9
<1>12. ASSUME NEW i \in DOMAIN Tail(todo)
       PROVE  Tail(todo)[i] = Cases[Len(Append(refs, ref)) + i]
  <2>1. /\ i \in 1..(Len(todo) - 1) /\ i + 1 \in 1..Len(todo)
        /\ Len(refs) + (i + 1) = (Len(refs) + 1) + i
    BY <1>7, <1>10
  <2>2. Tail(todo)[i] = todo[i + 1] /\ todo[i + 1] = Cases[Len(refs) + (i + 1)]
    BY <1>6, <1>7, <1>8, <2>1
  <2> QED BY <1>9, <2>1, <2>2
<1>13. Cases' = Cases
  BY DEF Cases
<1>14. CitesFirst(refs)'
  <2>1. Len(refs) <= Len(Cases)
    BY <1>6, <1>7
  <2> QED BY <1>6, <2>1, CitesStay
<1>15. IsCase(ref.run, Cases[Len(refs) + 1])'
  <2>1. 1 \in DOMAIN todo
    BY <1>7, <1>8
  <2>2. IsCase(ref.run, Cases[Len(refs) + 1])
    BY <1>5, <1>6, <1>8, <2>1
  <2> QED BY <1>1, <1>13, <2>2 DEF IsCase
<1>16. Cited(ref)'
  <2>1. ref.run = r /\ ref.evidence = Evidence(r, p.seen)
    BY <1>5
  <2>2. ref.evidence.row = p.seen
    BY <2>1 DEF Evidence
  <2>3. Cited(ref)
    BY <1>6, <2>1, <2>2 DEF Cited
  <2> QED BY <1>1, <2>3 DEF Cited, Evidence
<1>17. CitesFirst(Append(refs, ref))'
  BY <1>14, <1>15, <1>16, CitesOneMore
<1>18. batch'[e].todo = Tail(todo) /\ batch'[e].refs = Append(refs, ref)
  BY <1>1, <1>5
<1>19. CitesFirst(batch[e].refs)'
  BY <1>17, <1>18 DEF CitesFirst
<1> QED BY <1>3, <1>11, <1>12, <1>13, <1>18, <1>19 DEF BatchHolds

LEMMA OwnBatch ==
  ASSUME EngineInv, EngineInv', OneWrite, NEW e \in Apps, BatchHolds(e),
         Ask(e) \/ Proceed(e) \/ Crash(e)
  PROVE  BatchHolds(e)'
<1>1. ASSUME NEW r \in Runs,
             \/ Exhaust(e, r) \/ Finish(e, r) \/ GiveUp(e, r)
             \/ RejectCall(e, r) \/ AwaitApproval(e, r)
             \/ RetryAttempt(e, r) \/ FailAttempt(e, r) \/ SucceedAttempt(e, r)
      PROVE  BatchHolds(e)'
  <2>1. \E row, new : Transact(e, r, row, new)
    BY <1>1 DEF Exhaust, Finish, GiveUp, RejectCall, AwaitApproval, RetryAttempt,
                FailAttempt, SucceedAttempt, FailTransaction
  <2> QED BY <2>1, TransactBatch
<1>2. ASSUME NEW r \in Runs, Return(e, r) PROVE BatchHolds(e)'
  BY <1>2, ReturnBatch
<1>3. ASSUME NEW r \in Runs, Refuse(e, r) PROVE BatchHolds(e)'
  BY <1>3, StoppedBatch DEF Refuse
<1>4. ASSUME NEW r \in Runs, StartCase(e, r) PROVE BatchHolds(e)'
  BY <1>4, StartCaseBatch
<1>5. ASSUME NEW r \in Runs, ApproveCase(e, r) PROVE BatchHolds(e)'
  BY <1>5, ApproveCaseBatch
<1>6. ASSUME NEW r \in Runs, RecordCase(e, r) PROVE BatchHolds(e)'
  BY <1>6, RecordCaseBatch
<1>7. CASE OutOfBudget(e) \/ SaveEvaluation(e) \/ Crash(e)
  BY <1>7, StoppedBatch DEF OutOfBudget, SaveEvaluation, Crash
<1>8. CASE Ask(e)
  BY <1>8, AskBatch
<1> QED BY <1>1, <1>2, <1>3, <1>4, <1>5, <1>6, <1>7, <1>8 DEF Proceed

\* A step of one app leaves the requests and batches of the others.
OnlyFor(e) ==
  \A f \in Apps \ {e} : request'[f] = request[f] /\ batch'[f] = batch[f]

LEMMA OthersAlone ==
  ASSUME EngineInv, NEW e \in Apps, Ask(e) \/ Proceed(e) \/ Crash(e)
  PROVE  OnlyFor(e)
<1>1. ASSUME NEW q, request' = [request EXCEPT ![e] = q], batch' = batch
      PROVE  OnlyFor(e)
  BY <1>1 DEF OnlyFor, EngineInv, EngineType
<1>2. ASSUME NEW q, NEW b, request' = [request EXCEPT ![e] = q],
             batch' = [batch EXCEPT ![e] = b]
      PROVE  OnlyFor(e)
  BY <1>2 DEF OnlyFor, EngineInv, EngineType
<1>3. ASSUME NEW r, Drive(e, r), batch' = batch PROVE OnlyFor(e)
  BY <1>1, <1>3 DEF Drive
<1>4. ASSUME Stop(e) PROVE OnlyFor(e)
  BY <1>2, <1>4 DEF Stop
<1>5. CASE Ask(e)
  BY <1>2, <1>3, <1>5
     DEF Ask, Start, CreateRun, Resume, Approve, Decide, RepeatApproval, Evaluate
<1>6. CASE Crash(e)
  BY <1>4, <1>6 DEF Crash
<1>7. CASE Proceed(e)
  <2>1. ASSUME NEW r, NEW row, NEW new, Transact(e, r, row, new) PROVE OnlyFor(e)
    BY <2>1 DEF Transact, OnlyFor, EngineInv, EngineType
  <2>2. ASSUME NEW r \in Runs,
               \/ Exhaust(e, r) \/ Finish(e, r) \/ GiveUp(e, r)
               \/ RejectCall(e, r) \/ AwaitApproval(e, r)
               \/ RetryAttempt(e, r) \/ FailAttempt(e, r) \/ SucceedAttempt(e, r)
        PROVE  OnlyFor(e)
    BY <2>1, <2>2 DEF Exhaust, Finish, GiveUp, RejectCall, AwaitApproval, RetryAttempt,
                      FailAttempt, SucceedAttempt, FailTransaction
  <2>3. ASSUME NEW r, Return(e, r) PROVE OnlyFor(e)
    BY <1>4, <2>3 DEF Return, OnlyFor, EngineInv, EngineType
  <2>4. ASSUME NEW r, Refuse(e, r) \/ StartCase(e, r) \/ ApproveCase(e, r) PROVE OnlyFor(e)
    BY <1>3, <1>4, <2>4 DEF Refuse, StartCase, CreateRun, ApproveCase, Decide
  <2>5. ASSUME NEW r, RecordCase(e, r) PROVE OnlyFor(e)
    BY <2>5 DEF RecordCase, OnlyFor, EngineInv, EngineType
  <2>6. CASE OutOfBudget(e) \/ SaveEvaluation(e)
    BY <1>4, <2>6 DEF OutOfBudget, SaveEvaluation
  <2> QED BY <1>7, <2>2, <2>3, <2>4, <2>5, <2>6 DEF Proceed
<1> QED BY <1>5, <1>6, <1>7

\* The evaluations change only where one is saved.
LEMMA EvaluationsGrow ==
  ASSUME EngineInv, [Next]_vars
  PROVE  \/ evaluations' = evaluations
         \/ \E e \in Apps : SaveEvaluation(e)
<1>1. ASSUME NEW e \in Apps, Ask(e) PROVE evaluations' = evaluations
  BY <1>1 DEF Ask, Start, CreateRun, Resume, Approve, Decide, RepeatApproval,
              Evaluate, tables
<1>2. ASSUME NEW e \in Apps, Proceed(e)
      PROVE  evaluations' = evaluations \/ SaveEvaluation(e)
  BY <1>2, ZenonT(30) DEF Proceed, Exhaust, Finish, GiveUp, RejectCall, AwaitApproval,
              RetryAttempt, FailAttempt, SucceedAttempt, FailTransaction, Transact,
              Return, Refuse, StartCase, CreateRun, ApproveCase, Decide, RecordCase,
              OutOfBudget, tables
<1>3. ASSUME NEW e \in Apps, Crash(e) PROVE evaluations' = evaluations
  BY <1>3 DEF Crash, tables
<1>4. CASE Upgrade \/ UNCHANGED vars
  BY <1>4 DEF Upgrade, vars, tables
<1> QED BY <1>1, <1>2, <1>3, <1>4 DEF Next

BatchesInv == EngineInv /\ BatchesHold /\ EvaluationsHold

LEMMA BatchesInit == Init => BatchesInv
<1> SUFFICES ASSUME Init PROVE BatchesInv
  OBVIOUS
<1>1. BatchesHold
  BY DEF Init, BatchesHold, BatchHolds, NoRequest, NoBatch
<1>2. EvaluationsHold
  <2>1. evaluations = <<>> /\ DOMAIN evaluations = {}
    BY DEF Init
  <2> QED BY <2>1 DEF EvaluationsHold
<1> QED BY <1>1, <1>2, InitInv DEF BatchesInv

LEMMA BatchesStep ==
  ASSUME EngineInv, EngineInv', BatchesHold, [Next]_vars
  PROVE  BatchesHold'
<1>1. OneWrite
  BY NextWrites
<1>2. ASSUME NEW e \in Apps, Ask(e) \/ Proceed(e) \/ Crash(e), NEW f \in Apps
      PROVE  BatchHolds(f)'
  <2>1. CASE f = e
    BY <1>1, <1>2, <2>1, OwnBatch DEF BatchesHold
  <2>2. CASE f # e
    <3>1. request'[f] = request[f] /\ batch'[f] = batch[f]
      BY <1>2, <2>2, OthersAlone DEF OnlyFor
    <3> QED BY <1>1, <3>1, Bystander DEF BatchesHold
  <2> QED BY <2>1, <2>2
<1>3. ASSUME Upgrade \/ UNCHANGED vars, NEW f \in Apps
      PROVE  BatchHolds(f)'
  <2>1. request'[f] = request[f] /\ batch'[f] = batch[f]
    BY <1>3 DEF Upgrade, vars
  <2> QED BY <1>1, <2>1, Bystander DEF BatchesHold
<1> QED BY <1>2, <1>3 DEF Next, BatchesHold

LEMMA EvaluationsStep ==
  ASSUME EngineInv, BatchesHold, EvaluationsHold, [Next]_vars
  PROVE  EvaluationsHold'
<1>1. OneWrite
  BY NextWrites
<1>2. ASSUME NEW refs \in Seq(RefSet), CitesFirst(refs), Len(refs) = Len(Cases)
      PROVE  CitesFirst(refs)'
  <2>1. Len(refs) <= Len(Cases)
    BY <1>2, LenProperties
  <2> QED BY <1>1, <1>2, <2>1, CitesStay
<1>3. Cases' = Cases
  BY DEF Cases
<1>4. /\ evaluations \in Seq([suite : Catalogs, runs : Seq(RefSet)])
      /\ DOMAIN evaluations = 1..Len(evaluations) /\ Len(evaluations) \in Nat
  BY LenProperties DEF EngineInv, EngineType
<1>5. ASSUME NEW k \in DOMAIN evaluations,
             evaluations'[k].runs = evaluations[k].runs
      PROVE  /\ Len(evaluations[k].runs)' = Len(Cases)'
             /\ CitesFirst(evaluations[k].runs)'
  <2>1. evaluations[k] \in [suite : Catalogs, runs : Seq(RefSet)]
    BY <1>4, ElementOfSeq
  <2>2. PICK refs \in Seq(RefSet) : refs = evaluations[k].runs
    BY <2>1
  <2>3. CitesFirst(refs)'
    BY <1>2, <2>2 DEF EvaluationsHold
  <2>4. CitesFirst(evaluations[k].runs)'
    BY <1>5, <2>2, <2>3 DEF CitesFirst
  <2> QED BY <1>3, <1>5, <2>4 DEF EvaluationsHold
<1>6. CASE evaluations' = evaluations
  BY <1>5, <1>6 DEF EvaluationsHold
<1>7. ASSUME NEW e \in Apps, SaveEvaluation(e) PROVE EvaluationsHold'
  <2> DEFINE x == [suite |-> catalog, runs |-> batch[e].refs]
             n == Len(evaluations)
  <2>1. PICK refs \in Seq(RefSet) : refs = batch[e].refs
    BY RequestFields DEF EngineInv
  <2>2. evaluations' = Append(evaluations, x) /\ x.runs = refs
    BY <1>7, <2>1 DEF SaveEvaluation
  <2>3. x \in [suite : Catalogs, runs : Seq(RefSet)]
    BY <2>1 DEF EngineInv, EngineType
  <2> HIDE DEF x, n
  <2>4. /\ DOMAIN evaluations' = 1..(n + 1) /\ n \in Nat
        /\ \A i \in 1..n : evaluations'[i] = evaluations[i]
        /\ evaluations'[n + 1] = x
    BY <1>4, <2>2, <2>3, AppendProperties, LenProperties DEF n
  <2>5. request[e].phase = "choose" /\ batch[e].todo = <<>>
    BY <1>7 DEF SaveEvaluation
  <2>6. CitesFirst(refs) /\ Len(refs) = Len(Cases)
    <3>1. CASE request[e].evaluates
      <4>1. CitesFirst(refs) /\ Len(refs) + Len(batch[e].todo) = Len(Cases)
        BY <2>1, <3>1 DEF BatchesHold, BatchHolds
      <4>2. Len(batch[e].todo) = 0 /\ Len(refs) \in Nat /\ Len(Cases) \in Nat
        BY <2>5, CasesType, LenProperties
      <4> HIDE DEF Cases
      <4> QED BY <4>1, <4>2
    <3>2. CASE ~request[e].evaluates
      BY <2>5, <3>2 DEF BatchesHold, BatchHolds
    <3> QED BY <3>1, <3>2
  <2>7. CitesFirst(refs)'
    BY <1>2, <2>6
  <2>8. ASSUME NEW k \in 1..n
        PROVE  /\ Len(evaluations[k].runs)' = Len(Cases)'
               /\ CitesFirst(evaluations[k].runs)'
    BY <1>4, <1>5, <2>4 DEF n
  <2>9. /\ Len(evaluations'[n + 1].runs) = Len(Cases)'
        /\ evaluations'[n + 1].runs = refs
    BY <1>3, <2>2, <2>4, <2>6
  <2>10. \A k \in DOMAIN evaluations' : k \in 1..n \/ k = n + 1
    BY <2>4
  <2>11. ASSUME NEW k \in DOMAIN evaluations', k = n + 1
         PROVE  /\ Len(evaluations[k].runs)' = Len(Cases)'
                /\ CitesFirst(evaluations[k].runs)'
    BY <2>7, <2>9, <2>11 DEF CitesFirst
  <2> QED BY <2>8, <2>10, <2>11 DEF EvaluationsHold
<1> QED BY <1>6, <1>7, EvaluationsGrow

\* Every saved evaluation cites a run for each case of the suite, in order, with
\* traces that are complete; and whatever clients, crashes and upgrades do after
\* it (_evaluate, _report), the evidence of the runs that had ended still stands.
THEOREM EvaluationsStayGood == Spec => []EvaluationsStand
<1>1. BatchesInv /\ [Next]_vars => BatchesInv'
  BY NextInv, BatchesStep, EvaluationsStep DEF BatchesInv
<1>2. BatchesInv /\ TracesAreGradable => EvaluationsStand
  <2> SUFFICES ASSUME BatchesInv, TracesAreGradable, NEW k \in DOMAIN evaluations
               PROVE  LET refs == evaluations[k].runs
                      IN  /\ Len(refs) = Len(Cases) /\ CitesFirst(refs)
                          /\ \A i \in DOMAIN refs : AttemptsComplete(refs[i].run)
    BY DEF EvaluationsStand
  <2>1. /\ Len(evaluations[k].runs) = Len(Cases)
        /\ CitesFirst(evaluations[k].runs)
    BY DEF BatchesInv, EvaluationsHold
  <2>2. evaluations[k].runs \in Seq(RefSet)
    <3>1. /\ evaluations \in Seq([suite : Catalogs, runs : Seq(RefSet)])
          /\ DOMAIN evaluations = 1..Len(evaluations)
      BY LenProperties DEF BatchesInv, EngineInv, EngineType
    <3>2. evaluations[k] \in [suite : Catalogs, runs : Seq(RefSet)]
      BY <3>1, ElementOfSeq
    <3> QED BY <3>2
  <2>3. ASSUME NEW i \in DOMAIN evaluations[k].runs
        PROVE  AttemptsComplete(evaluations[k].runs[i].run)
    <3>1. evaluations[k].runs[i] \in RefSet
      BY <2>2, ElementOfSeq, LenProperties
    <3>2. evaluations[k].runs[i].run \in Runs
      BY <3>1 DEF RefSet
    <3> QED BY <3>2 DEF TracesAreGradable
  <2> QED BY <2>1, <2>3
<1> QED BY <1>1, <1>2, BatchesInit, TracesStayGradable, PTL DEF Spec

\* The faults that a trace shows.
FaultsShown(es) ==
  [i \in {i \in DOMAIN es : es[i].type \in {"fault.injected"}} |->
     [tool |-> es[i].action.tool, attempt |-> es[i].attempt, type |-> es[i].code]]

\* The evidence of a run that had ended and had met every fault its suite declares.
InFull(evidence, suite) ==
  LET seen == FaultsShown(evidence.events)
      declared == suite[evidence.row.scenario].faults
  IN  /\ evidence.row.status \in Terminal
      /\ {seen[i] : i \in DOMAIN seen} = declared
      /\ Cardinality(DOMAIN seen) = Cardinality(declared)

\* So were all the runs of an evaluation when it was saved.
RanInFull(e) == \A i \in DOMAIN e.runs : InFull(e.runs[i].evidence, e.suite)

\* The references of a mode, as CoversSuite counts them.
CitedIn(refs, mode) == {i \in DOMAIN refs : rows[refs[i].run].mode = mode}

LEMMA Halves ==
  ASSUME NEW n \in Nat, NEW j \in 1..n
  PROVE  (j - 1) % n = j - 1 /\ (n + j - 1) % n = j - 1
<1>1. n \in Nat \ {0} /\ j - 1 \in 0..(n - 1)
  OBVIOUS
<1> QED BY <1>1

\* The cases of each mode are those of the suite.
LEMMA CasesCover ==
  LET n == Len(Suite)
  IN  /\ Len(Cases) = 2 * n /\ n \in Nat
      /\ \A j \in 1..n : /\ Cases[j] = [mode |-> "fragile", scenario |-> Suite[j]]
                         /\ Cases[n + j] = [mode |-> "resilient", scenario |-> Suite[j]]
<1>1. PICK n \in Nat : n = Len(Suite) /\ DOMAIN Suite = 1..n
  BY EngineAssumption, LenProperties
<1>2. Cases = [i \in 1..(2 * n) |->
                 [mode |-> IF i <= n THEN "fragile" ELSE "resilient",
                  scenario |-> Suite[((i - 1) % n) + 1]]]
  BY <1>1 DEF Cases
<1>3. Len(Cases) = 2 * n
  <2>1. PICK l \in Nat : l = Len(Cases) /\ DOMAIN Cases = 1..l
    BY CasesType, LenProperties
  <2>2. PICK m \in Nat : m = 2 * n
    OBVIOUS
  <2>3. 1..l = 1..m
    BY <1>2, <2>1, <2>2
  <2>4. l \in 1..m \/ l = 0
    BY <2>3
  <2>5. m \in 1..l \/ m = 0
    BY <2>3
  <2>6. l = m
    BY <2>4, <2>5
  <2> QED BY <2>1, <2>2, <2>6
<1>4. ASSUME NEW j \in 1..n
      PROVE  /\ Cases[j] = [mode |-> "fragile", scenario |-> Suite[j]]
             /\ Cases[n + j] = [mode |-> "resilient", scenario |-> Suite[j]]
  <2>1. /\ j \in 1..(2 * n) /\ n + j \in 1..(2 * n) /\ j <= n /\ ~(n + j <= n)
        /\ (j - 1) + 1 = j
    OBVIOUS
  <2>2. (j - 1) % n = j - 1 /\ ((n + j) - 1) % n = j - 1
    BY Halves
  <2> QED BY <1>2, <2>1, <2>2
<1> QED BY <1>1, <1>3, <1>4

LEMMA SuiteCovered ==
  ASSUME NEW refs, DOMAIN refs = 1..Len(Cases), CitesFirst(refs), NEW mode \in Modes
  PROVE  /\ Cardinality(CitedIn(refs, mode)) = Len(Suite)
         /\ {rows[refs[i].run].scenario : i \in CitedIn(refs, mode)} = Names
<1>1. PICK n \in Nat : n = Len(Suite) /\ DOMAIN Suite = 1..n
  BY EngineAssumption, LenProperties
<1>2. PICK d \in {0, n} : d = IF mode = "fragile" THEN 0 ELSE n
  OBVIOUS
<1>3. PICK cited : /\ cited = CitedIn(refs, mode)
                   /\ cited = {i \in DOMAIN refs : rows[refs[i].run].mode = mode}
  BY DEF CitedIn
<1>4. DOMAIN refs = 1..(2 * n)
  BY <1>1, CasesCover
<1>5. ASSUME NEW j \in 1..n
      PROVE  /\ rows[refs[j].run].mode = "fragile" /\ rows[refs[j].run].scenario = Suite[j]
             /\ rows[refs[n + j].run].mode = "resilient"
             /\ rows[refs[n + j].run].scenario = Suite[j]
  <2>1. /\ Cases[j] = [mode |-> "fragile", scenario |-> Suite[j]]
        /\ Cases[n + j] = [mode |-> "resilient", scenario |-> Suite[j]]
    BY <1>1, CasesCover
  <2>2. j \in DOMAIN refs /\ n + j \in DOMAIN refs
    BY <1>4
  <2>3. IsCase(refs[j].run, Cases[j]) /\ IsCase(refs[n + j].run, Cases[n + j])
    BY <2>2 DEF CitesFirst
  <2>4. /\ IsCase(refs[j].run, [mode |-> "fragile", scenario |-> Suite[j]])
        /\ IsCase(refs[n + j].run, [mode |-> "resilient", scenario |-> Suite[j]])
    BY <2>1, <2>3
  <2> QED BY <2>4 DEF IsCase
<1>6. cited = (d + 1)..(d + n)
  <2>1. ASSUME NEW i \in 1..(2 * n) PROVE i \in cited <=> i \in (d + 1)..(d + n)
    <3>1. CASE i <= n
      BY <1>2, <1>3, <1>4, <1>5, <3>1 DEF Modes
    <3>2. CASE ~(i <= n)
      <4>1. PICK j \in 1..n : i = n + j
        <5>1. i - n \in 1..n /\ i = n + (i - n)
          BY <3>2
        <5> QED BY <5>1
      <4>2. rows[refs[i].run].mode = "resilient"
        BY <1>5, <4>1
      <4> QED BY <1>2, <1>3, <1>4, <3>2, <4>2 DEF Modes
    <3> QED BY <3>1, <3>2
  <2>2. cited \subseteq 1..(2 * n) /\ (d + 1)..(d + n) \subseteq 1..(2 * n)
    BY <1>2, <1>3, <1>4
  <2> QED BY <2>1, <2>2
<1>7. Cardinality(cited) = n
  <2>1. d + 1 \in Int /\ d + n \in Int
    BY <1>2
  <2>2. Cardinality(cited) = IF d + 1 > d + n THEN 0 ELSE (d + n) - (d + 1) + 1
    BY <1>6, <2>1, FS_Interval
  <2> QED BY <2>2
<1>8. \A j \in 1..n : rows[refs[d + j].run].scenario = Suite[j]
  BY <1>2, <1>5
<1>9. {rows[refs[i].run].scenario : i \in cited} = {Suite[j] : j \in 1..n}
  <2>1. ASSUME NEW i \in cited PROVE \E j \in 1..n : i = d + j
    <3>1. i - d \in 1..n /\ i = d + (i - d)
      BY <1>2, <1>6
    <3> QED BY <3>1
  <2>2. \A j \in 1..n : d + j \in cited
    BY <1>2, <1>6
  <2>3. ASSUME NEW i \in cited
        PROVE  rows[refs[i].run].scenario \in {Suite[j] : j \in 1..n}
    <3>1. PICK j \in 1..n : i = d + j
      BY <2>1
    <3> QED BY <1>8, <3>1
  <2>4. ASSUME NEW j \in 1..n
        PROVE  Suite[j] \in {rows[refs[i].run].scenario : i \in cited}
    BY <1>8, <2>2
  <2> QED BY <2>3, <2>4
<1> QED BY <1>1, <1>3, <1>7, <1>9, SuiteAssumption

LEMMA CitedReadable ==
  ASSUME BatchesInv, TracesAreGradable, NEW k \in DOMAIN evaluations,
         evaluations[k].suite = catalog, RanInFull(evaluations[k])
  PROVE  Readable(evaluations[k])
<1>1. PICK e : e = evaluations[k]
  OBVIOUS
<1>2. e \in [suite : Catalogs, runs : Seq(RefSet)]
  <2>1. evaluations \in Seq([suite : Catalogs, runs : Seq(RefSet)])
    BY DEF BatchesInv, EngineInv, EngineType
  <2> QED BY <1>1, <2>1, ElementOfSeq, LenProperties
<1>3. PICK refs \in Seq(RefSet) : refs = e.runs
  BY <1>2
<1>4. Len(refs) = Len(Cases) /\ CitesFirst(refs) /\ DOMAIN refs = 1..Len(Cases)
  BY <1>1, <1>3, LenProperties DEF BatchesInv, EvaluationsHold
<1>5. ASSUME NEW i \in DOMAIN refs PROVE EvidenceStands(refs[i])
  <2>1. PICK r \in Runs : r = refs[i].run
    <3>1. refs[i] \in RefSet
      BY <1>3, ElementOfSeq, LenProperties
    <3> QED BY <3>1 DEF RefSet
  <2>2. PICK x : x = refs[i].evidence
    OBVIOUS
  <2>3. InFull(x, catalog)
    BY <1>1, <1>3, <2>2 DEF RanInFull
  <2>4. PICK seen : seen = FaultsShown(x.events)
    OBVIOUS
  <2>5. /\ x.row.status \in Terminal
        /\ {seen[j] : j \in DOMAIN seen} = catalog[x.row.scenario].faults
        /\ Cardinality(DOMAIN seen) = Cardinality(catalog[x.row.scenario].faults)
    BY <2>3, <2>4 DEF InFull
  <2>6. Evidence(r, rows[r]) = x
    BY <1>4, <2>1, <2>2, <2>5 DEF CitesFirst, Cited
  <2>7. x.row = rows[r] /\ x.events = events[r]
    BY <2>6 DEF Evidence
  <2>8. FaultsSeen(r) = seen
    BY <2>4, <2>7 DEF FaultsSeen, FaultsShown, Indices
  <2>9. FaultsComplete(r)
    BY <2>5, <2>7, <2>8 DEF FaultsComplete
  <2> QED BY <2>1, <2>2, <2>6, <2>9 DEF EvidenceStands, TracesAreGradable
<1>6. ASSUME NEW mode \in Modes PROVE CoversSuite(e, mode)
  <2>1. /\ Cardinality(CitedIn(refs, mode)) = Len(Suite)
        /\ {rows[refs[i].run].scenario : i \in CitedIn(refs, mode)} = Names
    BY <1>4, SuiteCovered
  <2> QED BY <1>3, <2>1 DEF CoversSuite, CitedIn
<1> QED BY <1>1, <1>3, <1>5, <1>6 DEF Readable

\* A saved evaluation whose runs ended, having met the faults of their scenarios,
\* stays readable (ReportsStayReadable): whatever clients, another server, crashes
\* and upgrades did since, its evidence is unchanged and complete, and it covers
\* the suite in both modes.
THEOREM ReportsRemain ==
  Spec => []((\A k \in DOMAIN evaluations : RanInFull(evaluations[k]))
             => ReportsStayReadable)
<1>1. BatchesInv /\ [Next]_vars => BatchesInv'
  BY NextInv, BatchesStep, EvaluationsStep DEF BatchesInv
<1>2. BatchesInv /\ TracesAreGradable =>
        ((\A k \in DOMAIN evaluations : RanInFull(evaluations[k]))
         => ReportsStayReadable)
  BY CitedReadable DEF ReportsStayReadable
<1> QED BY <1>1, <1>2, BatchesInit, TracesStayGradable, PTL DEF Spec

-----------------------------------------------------------------------------
(* The abstract variables as functions of the row and the decisions *)

StatusOf(row) ==
  CASE row.status \in {"queued", "running"} -> "open"
    [] row.status = "waiting_approval" -> "waiting"
    [] OTHER -> row.status

HistoryOf(row) == [i \in 1..row.step |-> row.hash.actions[i]]

VerdictOf(ds) ==
  [s \in KnownSteps |->
     IF {d \in ds : d.step = s} = {} THEN NotDecided
     ELSE LET d == CHOOSE d \in {d \in ds : d.step = s} : TRUE
          IN  [action |-> d.action, decision |-> d.allow]]

View ==
  /\ AbstractStatus = StatusOf(rows[Observed])
  /\ History = HistoryOf(rows[Observed])
  /\ Verdict = VerdictOf(decisions[Observed])

LEMMA SuccessesAreSteps ==
  ASSUME NEW es, NEW n \in Nat, Counts(es, Successes, 0, n - 1), es \in Seq(EventSet)
  PROVE  /\ Cardinality(Idx(es, Successes)) = n
         /\ \A s \in 0..(n - 1) : \E i \in Idx(es, Successes) : es[i].step = s
<1> DEFINE I == Idx(es, Successes)
           f == [i \in I |-> es[i].step]
<1>1. {es[i].step : i \in I} = 0..(n - 1) /\ \A i, j \in I : i < j => es[i].step < es[j].step
  BY DEF Counts
<1>2. \A i \in I : i \in Nat /\ es[i].step \in Int
  BY EventFields, ElementOfSeq, LenProperties DEF Idx
<1> HIDE DEF I
<1>3. f \in Injection(I, 0..(n - 1))
  <2>1. f \in [I -> 0..(n - 1)]
    BY <1>1
  <2>2. ASSUME NEW i \in I, NEW j \in I, f[i] = f[j] PROVE i = j
    BY <1>1, <1>2, <2>2
  <2> QED BY <2>1, <2>2 DEF Injection, IsInjective
<1>4. f \in Surjection(I, 0..(n - 1))
  BY <1>1 DEF Surjection
<1>5. f \in Bijection(I, 0..(n - 1))
  BY <1>3, <1>4 DEF Bijection
<1>6. ExistsBijection(0..(n - 1), I)
  BY <1>5, Fun_ExistsBijSymmetric DEF ExistsBijection
<1>7. IsFiniteSet(0..(n - 1)) /\ Cardinality(0..(n - 1)) = n
  BY FS_Interval
<1>8. Cardinality(I) = n
  BY <1>6, <1>7, FS_Bijection
<1> QED BY <1>1, <1>8 DEF I

LEMMA ViewHolds == EngineInv => View
<1> SUFFICES ASSUME EngineInv PROVE View
  OBVIOUS
<1> DEFINE es == events[Observed]
           row == rows[Observed]
<1>1. Observed \in Runs
  BY EngineAssumption
<1>2. AbstractStatus = StatusOf(row)
  BY DEF AbstractStatus, StatusOf, Active
<1>3. Verdict = VerdictOf(decisions[Observed])
  BY DEF Verdict, VerdictOf, DecisionsAt
<1>4. History = HistoryOf(row)
  <2>0. Indices(Observed, {"tool.attempt.succeeded"}) = Idx(es, Successes)
    BY DEF Indices, Idx, Successes
  <2>1. CASE NoRun(row, es, decisions[Observed], effects[Observed])
    <3>1. Idx(es, Successes) = {} /\ row.step = 0
      BY <2>1 DEF NoRun, Idx, Absent
    <3>2. Cardinality({}) = 0
      BY FS_EmptySet
    <3>3. 1..Cardinality(Indices(Observed, {"tool.attempt.succeeded"})) = {} /\ 1..row.step = {}
      BY <2>0, <3>1, <3>2
    <3> QED BY <3>3 DEF History, HistoryOf
  <2>2. CASE RunInv(row, es, decisions[Observed], effects[Observed])
    <3>1. /\ Counts(es, Successes, 0, row.step - 1) /\ es \in Seq(EventSet)
          /\ Agree(es, Successes, row.hash.actions) /\ row.step \in Nat
      BY <2>2, RowFields DEF RunInv, Core, Performed
    <3>2. /\ Cardinality(Idx(es, Successes)) = row.step
          /\ \A s \in 0..(row.step - 1) : \E i \in Idx(es, Successes) : es[i].step = s
      BY <3>1, SuccessesAreSteps
    <3>3. ASSUME NEW k \in 1..row.step
          PROVE  PerformedAt(Observed, k - 1) = row.hash.actions[k]
      <4> DEFINE i == CHOOSE i \in Idx(es, Successes) : es[i].step = k - 1
      <4>1. k - 1 \in 0..(row.step - 1)
        BY <3>1
      <4>2. i \in Idx(es, Successes) /\ es[i].step = k - 1
        BY <3>2, <4>1
      <4>3. es[i].action = row.hash.actions[(k - 1) + 1]
        BY <3>1, <4>2 DEF Agree
      <4>4. (k - 1) + 1 = k
        BY <3>1
      <4>5. PerformedAt(Observed, k - 1) = es[i].action
        BY <2>0 DEF PerformedAt
      <4> QED BY <4>3, <4>4, <4>5
    <3> QED BY <2>0, <3>2, <3>3 DEF History, HistoryOf
  <2> QED BY <1>1, <2>1, <2>2 DEF EngineInv, RunsInv
<1> QED BY <1>2, <1>3, <1>4 DEF View

LEMMA ViewStays == EngineInv' => View'
BY ViewHolds, PTL

-----------------------------------------------------------------------------
(* What a step does to the observed run *)

Open(row) == row.status \in {"queued", "running"}

SamePlan(row, row2) == row2.step = row.step /\ row2.hash = row.hash

Undecided(row, ds) == \A d \in ds : d.step # row.step

Created(row, row2) == row = Absent /\ row2.status = "queued" /\ row2.step = 0

GoesOn(row, row2) == Open(row) /\ row2.status = "running" /\ SamePlan(row, row2)

EndsFailed(row, row2) == Open(row) /\ row2.status = "failed" /\ SamePlan(row, row2)

EndsWell(row, row2, ds) ==
  Open(row) /\ row2.status = "succeeded" /\ SamePlan(row, row2) /\ Undecided(row, ds)

Asks(row, row2, ds) ==
  /\ Open(row) /\ row2.status = "waiting_approval" /\ SamePlan(row, row2)
  /\ Undecided(row, ds)

Performs(row, row2, ds) ==
  LET a == row.hash.actions[row.step + 1]
  IN  /\ Open(row) /\ row2.status = "running"
      /\ row2.step = row.step + 1 /\ row2.hash = row.hash
      /\ row.step < Len(row.hash.actions) /\ a.type = "call_tool"
      /\ a.tool = "prepare_rollback" =>
           \E d \in ds : d.step = row.step /\ d.action = a /\ d.allow

IsDecided(row, row2, ds, ds2) ==
  \E d \in DecisionSet :
    /\ ds2 = ds \cup {d} /\ Undecided(row, ds)
    /\ row.status = "waiting_approval" /\ d.step = row.step /\ d.action = row.pending
    /\ row2.status = IF d.allow THEN "queued" ELSE "failed"
    /\ SamePlan(row, row2)

Move(row, row2, ds, ds2) ==
  \/ /\ ds2 = ds
     /\ \/ Created(row, row2) \/ GoesOn(row, row2) \/ EndsFailed(row, row2)
        \/ EndsWell(row, row2, ds) \/ Asks(row, row2, ds) \/ Performs(row, row2, ds)
  \/ IsDecided(row, row2, ds, ds2)

\* The move of a run, whichever it is.
Moves(r) == Move(rows[r], rows'[r], decisions[r], decisions'[r])

LEMMA SavedRow ==
  ASSUME EngineType, NEW e, NEW r \in Runs, NEW row, NEW new, Transact(e, r, row, new)
  PROVE  /\ rows'[r] = row /\ decisions'[r] = decisions[r]
         /\ Open(rows[r]) /\ Active(r) /\ Compatible(r)
BY DEF Transact, Save, EngineType, Active, Open

LEMMA FailedMoves ==
  ASSUME EngineType, NEW e, NEW r \in Runs, NEW row \in RowSet, NEW new, NEW code,
         FailTransaction(e, r, row, new, code), SamePlan(rows[r], row)
  PROVE  Moves(r)
<1>1. /\ rows'[r] = FailedRow(row, code) /\ decisions'[r] = decisions[r]
      /\ Open(rows[r])
  BY SavedRow DEF FailTransaction
<1>2. /\ FailedRow(row, code).status = "failed" /\ FailedRow(row, code).step = row.step
      /\ FailedRow(row, code).hash = row.hash
  BY DEF FailedRow, RowSet
<1>3. EndsFailed(rows[r], rows'[r])
  BY <1>1, <1>2 DEF EndsFailed, SamePlan
<1> QED BY <1>1, <1>3 DEF Moves, Move

LEMMA FailuresMove ==
  ASSUME EngineInv, NEW e \in Apps, NEW r \in Runs,
         Exhaust(e, r) \/ GiveUp(e, r) \/ RejectCall(e, r) \/ FailAttempt(e, r)
  PROVE  Moves(r)
<1>1. Active(r)
  BY DEF Exhaust, GiveUp, RejectCall, FailAttempt, Calling, Attempting
<1>2. rows[r] \in RowSet /\ EngineType /\ RunsInv
  BY <1>1, Existing DEF EngineInv, Active
<1>3. CASE Exhaust(e, r)
  <2> DEFINE row == [rows[r] EXCEPT !.status = "running"]
  <2>1. row \in RowSet /\ row.step = rows[r].step /\ row.hash = rows[r].hash
    BY <1>2, StatusRow DEF Statuses
  <2>2. FailTransaction(e, r, row, <<>>, "scenario_exhausted")
    BY <1>3 DEF Exhaust
  <2> HIDE DEF row
  <2> QED BY <1>2, <2>1, <2>2, FailedMoves DEF SamePlan
<1>4. CASE GiveUp(e, r) \/ RejectCall(e, r) \/ FailAttempt(e, r)
  <2>1. Opened(r) \in RowSet /\ SamePlan(rows[r], Opened(r))
    BY <1>2, OpenedRow DEF SamePlan
  <2>2. \E new, code : FailTransaction(e, r, Opened(r), new, code)
    <3>1. CASE GiveUp(e, r) BY <3>1 DEF GiveUp
    <3>2. CASE RejectCall(e, r) BY <3>2 DEF RejectCall
    <3>3. CASE FailAttempt(e, r) BY <3>3 DEF FailAttempt
    <3> QED BY <1>4, <3>1, <3>2, <3>3
  <2>3. PICK new, code : FailTransaction(e, r, Opened(r), new, code)
    BY <2>2
  <2> QED BY <1>2, <2>1, <2>3, FailedMoves
<1> QED BY <1>3, <1>4

\* A decision is about a gated call, so none is about another action.
LEMMA OnlyCallsDecided ==
  ASSUME EngineInv, NEW r \in Runs, Active(r), Compatible(r), ~Exhausted(r),
         NEW d \in decisions[r], d.step = rows[r].step
  PROVE  /\ d.action = ActionOf(r) /\ d.action.type = "call_tool"
         /\ d.action.tool = "prepare_rollback"
<1>1. DecisionsHold(rows[r], events[r], decisions[r])
  BY Existing DEF EngineInv, Active, RunHolds, RunInv, Core
<1> QED BY <1>1, HashAction DEF DecisionsHold, IsGated

LEMMA FinishMoves ==
  ASSUME EngineInv, NEW e \in Apps, NEW r \in Runs, Finish(e, r)
  PROVE  Moves(r)
<1> DEFINE row2 == [Opened(r) EXCEPT !.status = "succeeded",
                                     !.result = ActionOf(r).result]
<1>1. \E new : Transact(e, r, row2, new)
  BY DEF Finish
<1>2. PICK new : Transact(e, r, row2, new)
  BY <1>1
<1>3. /\ Active(r) /\ Compatible(r) /\ ~Exhausted(r) /\ ActionOf(r).type = "finish"
  BY DEF Finish
<1>4. rows[r] \in RowSet
  BY <1>3, Existing DEF EngineInv, Active
<1>5. row2.status = "succeeded" /\ SamePlan(rows[r], row2)
  BY <1>4, OpenedRow DEF RowSet, SamePlan
<1> HIDE DEF row2
<1>6. Undecided(rows[r], decisions[r])
  <2>1. "finish" # "call_tool"
    OBVIOUS
  <2> QED BY <2>1, <1>3, OnlyCallsDecided DEF Undecided
<1>7. rows'[r] = row2 /\ decisions'[r] = decisions[r] /\ Open(rows[r])
  BY <1>2, SavedRow DEF EngineInv
<1> QED BY <1>5, <1>6, <1>7 DEF Moves, Move, EndsWell

LEMMA AwaitApprovalMoves ==
  ASSUME EngineInv, NEW e \in Apps, NEW r \in Runs, AwaitApproval(e, r)
  PROVE  Moves(r)
<1> DEFINE row2 == [Opened(r) EXCEPT !.status = "waiting_approval",
                                     !.pending = ActionOf(r)]
<1>1. \E new : Transact(e, r, row2, new)
  BY DEF AwaitApproval
<1>2. PICK new : Transact(e, r, row2, new)
  BY <1>1
<1>3. Active(r) /\ DecisionsAt(r, rows[r].step) = {}
  BY DEF AwaitApproval, Calling
<1>4. rows[r] \in RowSet
  BY <1>3, Existing DEF EngineInv, Active
<1>5. row2.status = "waiting_approval" /\ SamePlan(rows[r], row2)
  BY <1>4, OpenedRow DEF RowSet, SamePlan
<1> HIDE DEF row2
<1>6. Undecided(rows[r], decisions[r])
  BY <1>3 DEF Undecided, DecisionsAt
<1>7. rows'[r] = row2 /\ decisions'[r] = decisions[r] /\ Open(rows[r])
  BY <1>2, SavedRow DEF EngineInv
<1> QED BY <1>5, <1>6, <1>7 DEF Moves, Move, Asks

LEMMA RetryAttemptMoves ==
  ASSUME EngineInv, NEW e \in Apps, NEW r \in Runs, RetryAttempt(e, r)
  PROVE  Moves(r)
<1> DEFINE row2 == [Opened(r) EXCEPT !.attempt = @ + 1]
<1>1. Active(r) /\ Transact(e, r, row2, FailedAttempt(r))
  BY DEF RetryAttempt, Attempting, Calling
<1>2. rows[r] \in RowSet
  BY <1>1, Existing DEF EngineInv, Active
<1>3. row2.status = "running" /\ SamePlan(rows[r], row2)
  BY <1>2, OpenedRow DEF RowSet, SamePlan
<1> HIDE DEF row2
<1>4. rows'[r] = row2 /\ decisions'[r] = decisions[r] /\ Open(rows[r])
  BY <1>1, SavedRow DEF EngineInv
<1> QED BY <1>3, <1>4 DEF Moves, Move, GoesOn

LEMMA SucceedAttemptMoves ==
  ASSUME EngineInv, NEW e \in Apps, NEW r \in Runs, SucceedAttempt(e, r)
  PROVE  Moves(r)
<1> DEFINE row == rows[r]
           row2 == [Opened(r) EXCEPT !.step = @ + 1, !.attempt = 1, !.pending = NoAction]
<1>1. \E new : Transact(e, r, row2, new)
  BY DEF SucceedAttempt
<1>2. PICK new : Transact(e, r, row2, new)
  BY <1>1
<1>3. /\ Active(r) /\ Compatible(r) /\ ~Exhausted(r) /\ Cleared(r)
      /\ ActionOf(r).type = "call_tool"
  BY DEF SucceedAttempt, Attempting, Calling
<1>4. row \in RowSet /\ ActionOf(r) = row.hash.actions[row.step + 1]
      /\ row.step < Len(row.hash.actions)
  BY <1>3, Existing, HashAction, ActionType DEF EngineInv, Active
<1>5. row2.status = "running" /\ row2.step = row.step + 1 /\ row2.hash = row.hash
  BY <1>4, OpenedRow DEF RowSet
<1> HIDE DEF row2
<1>6. rows'[r] = row2 /\ decisions'[r] = decisions[r] /\ Open(row)
  BY <1>2, SavedRow DEF EngineInv
<1>7. ActionOf(r).tool = "prepare_rollback" =>
        \E d \in decisions[r] : d.step = row.step /\ d.action = ActionOf(r) /\ d.allow
  BY <1>3 DEF Cleared, Gated, DecisionsAt
<1>8. Performs(row, row2, decisions[r])
  BY <1>3, <1>4, <1>5, <1>6, <1>7 DEF Performs
<1> QED BY <1>6, <1>8 DEF Moves, Move

LEMMA DecideMoves ==
  ASSUME EngineInv, NEW e \in Apps, NEW r \in Runs, NEW d \in DecisionSet, Decide(e, r, d)
  PROVE  Moves(r)
<1> DEFINE row == rows[r]
           row2 == Decided(r, d)
<1>1. /\ DecisionsAt(r, d.step) = {} /\ MatchesPending(r, d)
      /\ rows'[r] = row2 /\ decisions'[r] = decisions[r] \cup {d}
  BY DEF Decide, Save, EngineInv, EngineType
<1>2. row.status = "waiting_approval" /\ d.step = row.step /\ d.action = row.pending
  BY <1>1 DEF MatchesPending
<1>3. row \in RowSet
  BY <1>2, Existing DEF EngineInv
<1>4. /\ row2.status = IF d.allow THEN "queued" ELSE "failed"
      /\ SamePlan(row, row2)
  BY <1>3 DEF Decided, FailedRow, RowSet, SamePlan
<1>5. Undecided(row, decisions[r])
  BY <1>1, <1>2 DEF Undecided, DecisionsAt
<1> HIDE DEF row2
<1> QED BY <1>1, <1>2, <1>4, <1>5 DEF Moves, Move, IsDecided

LEMMA CreateRunMoves ==
  ASSUME EngineInv, NEW e \in Apps, NEW r \in Runs, NEW name, NEW mode,
         CreateRun(e, r, name, mode)
  PROVE  Moves(r)
<1>1. /\ rows'[r] = NewRow(name, mode) /\ decisions' = decisions /\ ~Exists(r)
  BY DEF CreateRun, Save, Fresh, EngineInv, EngineType
<1>2. rows[r] = Absent
  <2>1. rows[r] \notin RowSet
    BY <1>1, RowFields DEF Exists, Statuses
  <2> QED BY <2>1 DEF EngineInv, EngineType, AnyRow
<1>3. Created(rows[r], rows'[r])
  BY <1>1, <1>2 DEF Created, NewRow
<1> QED BY <1>1, <1>3 DEF Moves, Move

-----------------------------------------------------------------------------
(* Every step of the engine is a move of the observed run, or none *)

ObservedMoves ==
  \/ rows'[Observed] = rows[Observed] /\ decisions'[Observed] = decisions[Observed]
  \/ Moves(Observed)

LEMMA OneRunMoves ==
  ASSUME EngineInv, NEW r \in Runs, Touched(r), Moves(r)
  PROVE  ObservedMoves
<1>1. Observed \in Runs
  BY EngineAssumption
<1>2. CASE r # Observed
  <2>1. \E row, es, ds, done :
          rows' = [rows EXCEPT ![r] = row] /\ decisions' = [decisions EXCEPT ![r] = ds]
    BY DEF Touched
  <2> QED BY <1>1, <1>2, <2>1 DEF EngineInv, EngineType, ObservedMoves
<1> QED BY <1>2 DEF ObservedMoves

LEMMA QuietMoves ==
  ASSUME UNCHANGED <<rows, decisions>>
  PROVE  ObservedMoves
BY DEF ObservedMoves

LEMMA AskMoves ==
  ASSUME EngineInv, NEW e \in Apps, Ask(e)
  PROVE  ObservedMoves
<1>1. ASSUME NEW r \in Runs, NEW n \in Names, NEW m \in Modes, Start(e, r, n, m)
      PROVE  ObservedMoves
  BY <1>1, CreateRunHolds, CreateRunMoves, OneRunMoves DEF Start, EngineInv
<1>2. ASSUME NEW r \in Runs, Resume(e, r) PROVE ObservedMoves
  BY <1>2, QuietMoves DEF Resume, tables
<1>3. ASSUME NEW r \in Runs, Exists(r), NEW d \in Bodies(r), Approve(e, r, d)
      PROVE  ObservedMoves
  BY <1>3, BodiesType, DecideHolds, DecideMoves, OneRunMoves DEF Approve, EngineInv
<1>4. ASSUME NEW r \in Runs, NEW d, RepeatApproval(e, r, d) PROVE ObservedMoves
  BY <1>4, QuietMoves DEF RepeatApproval, tables
<1>5. ASSUME Evaluate(e) PROVE ObservedMoves
  BY <1>5, QuietMoves DEF Evaluate, tables
<1> QED BY <1>1, <1>2, <1>3, <1>4, <1>5 DEF Ask

LEMMA ProceedMoves ==
  ASSUME EngineInv, NEW e \in Apps, Proceed(e)
  PROVE  ObservedMoves
<1>1. ASSUME NEW r \in Runs, Exhaust(e, r) PROVE ObservedMoves
  BY <1>1, ExhaustHolds, FailuresMove, OneRunMoves DEF EngineInv
<1>2. ASSUME NEW r \in Runs, Finish(e, r) PROVE ObservedMoves
  BY <1>2, FinishHolds, FinishMoves, OneRunMoves DEF EngineInv
<1>3. ASSUME NEW r \in Runs, GiveUp(e, r) PROVE ObservedMoves
  BY <1>3, GiveUpHolds, FailuresMove, OneRunMoves DEF EngineInv
<1>4. ASSUME NEW r \in Runs, RejectCall(e, r) PROVE ObservedMoves
  BY <1>4, RejectCallHolds, FailuresMove, OneRunMoves DEF EngineInv
<1>5. ASSUME NEW r \in Runs, AwaitApproval(e, r) PROVE ObservedMoves
  BY <1>5, AwaitApprovalHolds, AwaitApprovalMoves, OneRunMoves DEF EngineInv
<1>6. ASSUME NEW r \in Runs, RetryAttempt(e, r) PROVE ObservedMoves
  BY <1>6, RetryAttemptHolds, RetryAttemptMoves, OneRunMoves DEF EngineInv
<1>7. ASSUME NEW r \in Runs, FailAttempt(e, r) PROVE ObservedMoves
  BY <1>7, FailAttemptHolds, FailuresMove, OneRunMoves DEF EngineInv
<1>8. ASSUME NEW r \in Runs, SucceedAttempt(e, r) PROVE ObservedMoves
  BY <1>8, SucceedAttemptHolds, SucceedAttemptMoves, OneRunMoves DEF EngineInv
<1>9. ASSUME NEW r \in Runs, Return(e, r) PROVE ObservedMoves
  BY <1>9, QuietMoves DEF Return, tables
<1>10. ASSUME NEW r \in Runs, Refuse(e, r) PROVE ObservedMoves
  BY <1>10, QuietMoves DEF Refuse, tables
<1>11. ASSUME NEW r \in Runs, StartCase(e, r) PROVE ObservedMoves
  <2>1. batch[e].todo \in Seq(CaseSet) /\ batch[e].todo # <<>>
    BY <1>11 DEF StartCase, EngineInv, EngineType
  <2>2. Head(batch[e].todo) \in CaseSet
    BY <2>1, HeadTailProperties
  <2>3. Head(batch[e].todo).scenario \in Names /\ Head(batch[e].todo).mode \in Modes
    BY <2>2 DEF CaseSet
  <2> QED BY <1>11, <2>3, CreateRunHolds, CreateRunMoves, OneRunMoves
             DEF StartCase, EngineInv
<1>12. ASSUME NEW r \in Runs, ApproveCase(e, r) PROVE ObservedMoves
  <2>1. CASE rows[r].status = "waiting_approval"
    BY <1>12, <2>1, CaseType, DecideHolds, DecideMoves, OneRunMoves
       DEF ApproveCase, EngineInv
  <2>2. CASE rows[r].status # "waiting_approval"
    BY <1>12, <2>2, QuietMoves DEF ApproveCase, tables
  <2> QED BY <2>1, <2>2
<1>13. ASSUME NEW r \in Runs, RecordCase(e, r) PROVE ObservedMoves
  BY <1>13, QuietMoves DEF RecordCase, tables
<1>14. ASSUME OutOfBudget(e) PROVE ObservedMoves
  BY <1>14, QuietMoves DEF OutOfBudget, tables
<1>15. ASSUME SaveEvaluation(e) PROVE ObservedMoves
  BY <1>15, QuietMoves DEF SaveEvaluation
<1> QED BY <1>1, <1>2, <1>3, <1>4, <1>5, <1>6, <1>7, <1>8, <1>9, <1>10, <1>11,
           <1>12, <1>13, <1>14, <1>15 DEF Proceed

LEMMA NextMoves ==
  ASSUME EngineInv, [Next]_vars
  PROVE  ObservedMoves
<1>1. ASSUME NEW e \in Apps, Crash(e) PROVE ObservedMoves
  BY <1>1, QuietMoves DEF Crash, tables
<1>2. ASSUME Upgrade PROVE ObservedMoves
  BY <1>2, QuietMoves DEF Upgrade, tables
<1>3. ASSUME UNCHANGED vars PROVE ObservedMoves
  BY <1>3, QuietMoves DEF vars, tables
<1> QED BY <1>1, <1>2, <1>3, AskMoves, ProceedMoves DEF Next

-----------------------------------------------------------------------------
(* Every move keeps the promise *)

\* The steps that decisions can be about hold the cursor of every run.
LEMMA CursorIsKnown ==
  ASSUME EngineInv, NEW r \in Runs, rows[r].status # "absent"
  PROVE  /\ rows[r].step \in KnownSteps /\ rows[r].step \in Nat
         /\ Len(HistoryOf(rows[r])) = rows[r].step
<1>1. RunHolds(r) /\ rows[r] \in RowSet
  BY Existing DEF EngineInv
<1>2. rows[r].step \in Nat /\ rows[r].hash \in KnownScenarios
  BY <1>1, RowFields
<1>3. rows[r].step <= Len(rows[r].hash.actions) /\ Len(rows[r].hash.actions) \in Nat
  BY <1>1, <1>2, Plans, LenProperties DEF RunHolds, RunInv, Core, Performed, Cursor
<1>4. rows[r].step \in 0..Len(rows[r].hash.actions)
  BY <1>2, <1>3
<1>5. rows[r].step \in KnownSteps
  <2>1. PICK c \in Catalogs, n \in Names : rows[r].hash = c[n]
    BY <1>2 DEF KnownScenarios
  <2>2. rows[r].step \in 0..Len(c[n].actions)
    BY <1>4, <2>1
  <2> DEFINE F == {0..Len(k[m].actions) : k \in Catalogs, m \in Names}
  <2>3. 0..Len(c[n].actions) \in F
    OBVIOUS
  <2>4. KnownSteps = UNION F
    BY DEF KnownSteps
  <2> HIDE DEF F
  <2> QED BY <2>2, <2>3, <2>4
<1>6. Len(HistoryOf(rows[r])) = rows[r].step
  BY <1>2 DEF HistoryOf
<1> QED BY <1>2, <1>5, <1>6

LEMMA KnownCall ==
  ASSUME NEW h \in KnownScenarios, NEW i \in 1..Len(h.actions),
         h.actions[i].type = "call_tool"
  PROVE  h.actions[i] \in KnownActions
<1>1. PICK c \in Catalogs, n \in Names : h = c[n]
  BY DEF KnownScenarios
<1>2. h.actions \in Seq(Actions)
  BY Plans
<1>3. i \in DOMAIN h.actions
  BY <1>2, LenProperties
<1>4. h.actions[i] \in {c[n].actions[k] : k \in DOMAIN c[n].actions}
  BY <1>1, <1>3
<1> DEFINE F == {{b[m].actions[k] : k \in DOMAIN b[m].actions} :
                   b \in Catalogs, m \in Names}
<1>5. {c[n].actions[k] : k \in DOMAIN c[n].actions} \in F
  OBVIOUS
<1>6. KnownActions = {a \in UNION F : a.type = "call_tool"}
  BY DEF KnownActions
<1> HIDE DEF F
<1>7. h.actions[i] \in UNION F
  BY <1>4, <1>5
<1> QED BY <1>6, <1>7

\* No verdict about a step that nobody decided about, and the one of who did.
LEMMA VerdictAt ==
  ASSUME NEW ds, NEW s \in KnownSteps
  PROVE  /\ (\A d \in ds : d.step # s) => VerdictOf(ds)[s] = NotDecided
         /\ \A d \in ds : d.step = s /\ (\A c \in ds : c.step = s => c = d) =>
              VerdictOf(ds)[s] = [action |-> d.action, decision |-> d.allow]
<1>1. ASSUME \A d \in ds : d.step # s PROVE VerdictOf(ds)[s] = NotDecided
  BY <1>1 DEF VerdictOf
<1>2. ASSUME NEW d \in ds, d.step = s, \A c \in ds : c.step = s => c = d
      PROVE  VerdictOf(ds)[s] = [action |-> d.action, decision |-> d.allow]
  <2>1. {c \in ds : c.step = s} = {d}
    BY <1>2
  <2>2. (CHOOSE c \in {d} : TRUE) = d
    OBVIOUS
  <2> QED BY <2>1, <2>2 DEF VerdictOf
<1> QED BY <1>1, <1>2

LEMMA VerdictOfOne ==
  ASSUME NEW ds, NEW s \in KnownSteps, NEW d \in ds, d.step = s,
         \A c \in ds : c.step = s => c = d
  PROVE  VerdictOf(ds)[s] = [action |-> d.action, decision |-> d.allow]
BY VerdictAt

\* One more decision.
LEMMA OneVerdict ==
  ASSUME NEW ds, NEW d, d.step \in KnownSteps, \A c \in ds : c.step # d.step
  PROVE  VerdictOf(ds \cup {d}) =
           [VerdictOf(ds) EXCEPT ![d.step] = [action |-> d.action, decision |-> d.allow]]
<1>1. VerdictOf(ds \cup {d})[d.step] = [action |-> d.action, decision |-> d.allow]
  BY VerdictAt
<1>2. ASSUME NEW s \in KnownSteps, s # d.step
      PROVE  VerdictOf(ds \cup {d})[s] = VerdictOf(ds)[s]
  <2>1. {c \in ds \cup {d} : c.step = s} = {c \in ds : c.step = s}
    BY <1>2
  <2> QED BY <2>1 DEF VerdictOf
<1>3. /\ DOMAIN VerdictOf(ds \cup {d}) = KnownSteps
      /\ DOMAIN VerdictOf(ds) = KnownSteps
      /\ VerdictOf(ds \cup {d}) = [s \in KnownSteps |-> VerdictOf(ds \cup {d})[s]]
      /\ VerdictOf(ds) = [s \in KnownSteps |-> VerdictOf(ds)[s]]
  BY DEF VerdictOf
<1> HIDE DEF VerdictOf
<1> QED BY <1>1, <1>2, <1>3

LEMMA HistoryGrows ==
  ASSUME NEW row, NEW row2, row.hash \in KnownScenarios, row.step \in Nat,
         row.step < Len(row.hash.actions), row2.hash = row.hash, row2.step = row.step + 1
  PROVE  HistoryOf(row2) = Append(HistoryOf(row), row.hash.actions[row.step + 1])
<1> DEFINE n == row.step
           s == row.hash.actions
           h == HistoryOf(row)
           g == HistoryOf(row2)
<1>1. s \in Seq(Actions) /\ n \in Nat /\ n < Len(s) /\ Len(s) \in Nat
  BY Plans, LenProperties
<1>2. h = [i \in 1..n |-> s[i]] /\ g = [i \in 1..(n + 1) |-> s[i]]
  BY DEF HistoryOf
<1> HIDE DEF n, s, h, g
<1>3. \A i \in 1..(n + 1) : s[i] \in Actions
  BY <1>1, ElementOfSeq
<1>4. /\ h \in Seq(Actions) /\ Len(h) = n /\ g \in Seq(Actions) /\ Len(g) = n + 1
  BY <1>1, <1>2, <1>3
<1>5. s[n + 1] \in Actions
  BY <1>1, <1>3
<1>6. /\ Append(h, s[n + 1]) \in Seq(Actions) /\ Len(Append(h, s[n + 1])) = n + 1
      /\ \A i \in 1..n : Append(h, s[n + 1])[i] = h[i]
      /\ Append(h, s[n + 1])[n + 1] = s[n + 1]
  BY <1>4, <1>5, AppendProperties
<1>7. \A i \in 1..(n + 1) : g[i] = Append(h, s[n + 1])[i]
  <2> SUFFICES ASSUME NEW i \in 1..(n + 1) PROVE g[i] = Append(h, s[n + 1])[i]
    OBVIOUS
  <2>1. CASE i = n + 1
    BY <2>1, <1>1, <1>2, <1>6
  <2>2. CASE i # n + 1
    <3>1. i \in 1..n
      BY <2>2, <1>1
    <3> QED BY <3>1, <1>1, <1>2, <1>6
  <2> QED BY <2>1, <2>2
<1>8. g = Append(h, s[n + 1])
  BY <1>4, <1>6, <1>7, SeqEqual
<1> QED BY <1>8 DEF g, h, s, n

LEMMA MoveKeepsPromise ==
  ASSUME EngineInv, EngineInv', Moves(Observed)
  PROVE  [Promise!Next]_(Promise!absVars)
<1> DEFINE row == rows[Observed]
           row2 == rows'[Observed]
           ds == decisions[Observed]
           ds2 == decisions'[Observed]
<1>1. /\ AbstractStatus = StatusOf(row) /\ History = HistoryOf(row)
      /\ Verdict = VerdictOf(ds)
  BY ViewHolds DEF View
<1>2. /\ AbstractStatus' = StatusOf(row2) /\ History' = HistoryOf(row2)
      /\ Verdict' = VerdictOf(ds2)
  BY ViewStays DEF View
<1>3. Move(row, row2, ds, ds2) /\ Observed \in Runs
  BY EngineAssumption DEF Moves
<1>4. row.status # "absent" =>
        /\ row.step \in KnownSteps /\ row.step \in Nat /\ Len(History) = row.step
        /\ RunHolds(Observed) /\ row \in RowSet
  BY <1>1, <1>3, CursorIsKnown, Existing DEF EngineInv
<1>5. Undecided(row, ds) /\ row.step \in KnownSteps => Verdict[row.step] = NotDecided
  BY <1>1, VerdictAt DEF Undecided
<1>6. SamePlan(row, row2) => History' = History
  BY <1>1, <1>2 DEF SamePlan, HistoryOf
<1>7. ds2 = ds => Verdict' = Verdict
  BY <1>1, <1>2
<1>8. Open(row) => AbstractStatus = "open" /\ row.status # "absent"
  BY <1>1 DEF Open, StatusOf
<1>9. CASE ds2 = ds /\ Created(row, row2)
  <2>1. AbstractStatus = "absent" /\ AbstractStatus' = "open"
    BY <1>1, <1>2, <1>9 DEF Created, Absent, StatusOf
  <2>2. row.step = 0 /\ row2.step = 0
    BY <1>9 DEF Created, Absent
  <2>3. History' = History
    <3>1. 1..0 = {}
      OBVIOUS
    <3> QED BY <1>1, <1>2, <2>2, <3>1 DEF HistoryOf
  <2> QED BY <2>1, <2>3, <1>7, <1>9 DEF Promise!Create, Promise!Next
<1>10. CASE ds2 = ds /\ GoesOn(row, row2)
  <2>1. AbstractStatus' = "open"
    BY <1>2, <1>10 DEF GoesOn, StatusOf
  <2> QED BY <2>1, <1>6, <1>7, <1>8, <1>10 DEF GoesOn, Promise!absVars
<1>11. CASE ds2 = ds /\ EndsFailed(row, row2)
  <2>1. AbstractStatus' = "failed"
    BY <1>2, <1>11 DEF EndsFailed, StatusOf
  <2>2. Promise!Fail
    BY <2>1, <1>6, <1>7, <1>8, <1>11 DEF EndsFailed, Promise!Fail
  <2> QED BY <2>2 DEF Promise!Next
<1>12. CASE ds2 = ds /\ EndsWell(row, row2, ds)
  <2>1. AbstractStatus' = "succeeded"
    BY <1>2, <1>12 DEF EndsWell, StatusOf
  <2>2. Promise!Succeed
    BY <2>1, <1>4, <1>5, <1>6, <1>7, <1>8, <1>12
       DEF EndsWell, Promise!Succeed, Promise!Cursor
  <2> QED BY <2>2 DEF Promise!Next
<1>13. CASE ds2 = ds /\ Asks(row, row2, ds)
  <2>1. AbstractStatus' = "waiting"
    BY <1>2, <1>13 DEF Asks, StatusOf
  <2>2. Promise!Ask
    BY <2>1, <1>4, <1>5, <1>6, <1>7, <1>8, <1>13
       DEF Asks, Promise!Ask, Promise!Cursor
  <2> QED BY <2>2 DEF Promise!Next
<1>14. CASE ds2 = ds /\ Performs(row, row2, ds)
  <2> DEFINE a == row.hash.actions[row.step + 1]
  <2>1. /\ Open(row) /\ row2.step = row.step + 1 /\ row2.hash = row.hash
        /\ row.step < Len(row.hash.actions) /\ a.type = "call_tool"
        /\ a.tool = "prepare_rollback" =>
             \E d \in ds : d.step = row.step /\ d.action = a /\ d.allow
        /\ row2.status = "running"
    BY <1>14 DEF Performs
  <2>2. /\ row.hash \in KnownScenarios /\ row.step \in Nat /\ row.step \in KnownSteps
        /\ Len(History) = row.step /\ DecisionsHold(row, events[Observed], ds)
        /\ Len(row.hash.actions) \in Nat
    BY <2>1, <1>4, <1>8, RowFields, Plans, LenProperties DEF RunHolds, RunInv, Core
  <2>3. a \in KnownActions
    <3>1. row.step + 1 \in 1..Len(row.hash.actions)
      BY <2>1, <2>2
    <3> QED BY <2>1, <2>2, <3>1, KnownCall
  <2>4. History' = Append(History, a)
    BY <2>1, <2>2, <1>1, <1>2, HistoryGrows
  <2>5. AbstractStatus' = "open"
    BY <2>1, <1>2 DEF StatusOf
  <2>6. CASE a.tool = "prepare_rollback"
    <3>1. PICK d \in ds : d.step = row.step /\ d.action = a /\ d.allow
      BY <2>1, <2>6
    <3>2. \A c \in ds : c.step = row.step => c = d
      BY <2>2, <3>1 DEF DecisionsHold
    <3>3. Verdict[row.step] = [action |-> a, decision |-> d.allow]
      <4> HIDE DEF a
      <4>1. VerdictOf(ds)[row.step] = [action |-> d.action, decision |-> d.allow]
        BY <2>2, <3>1, <3>2, VerdictOfOne
      <4> QED BY <4>1, <1>1, <3>1
    <3>4. d.allow = TRUE
      BY <2>2, <3>1 DEF DecisionsHold
    <3> HIDE DEF a
    <3>5. /\ Verdict[row.step] # NotDecided /\ Verdict[row.step].action = a
          /\ Verdict[row.step].decision \in {TRUE}
      <4> DEFINE v == Verdict[row.step]
      <4>1. v = [action |-> a, decision |-> TRUE]
        BY <3>3, <3>4
      <4> HIDE DEF v
      <4>2. v.action = a /\ v.decision = TRUE
        BY <4>1
      <4>3. NotDecided.decision = FALSE
        BY DEF NotDecided
      <4> QED BY <4>2, <4>3 DEF v
    <3>6. Promise!MayPerform(a)
      BY <2>2, <3>5 DEF Promise!MayPerform, Promise!Cursor
    <3>7. Promise!Perform(a)
      BY <2>1, <2>4, <2>5, <3>6, <1>7, <1>8, <1>14 DEF Promise!Perform
    <3> QED BY <3>7, <2>3 DEF Promise!Next
  <2>7. CASE a.tool # "prepare_rollback"
    <3>1. Undecided(row, ds)
      BY <2>2, <2>7 DEF Undecided, DecisionsHold, IsGated
    <3> HIDE DEF a
    <3>2. Promise!MayPerform(a)
      BY <2>2, <2>7, <3>1, <1>5 DEF Promise!MayPerform, Promise!Cursor
    <3>3. Promise!Perform(a)
      BY <2>1, <2>4, <2>5, <3>2, <1>7, <1>8, <1>14 DEF Promise!Perform
    <3> QED BY <3>3, <2>3 DEF Promise!Next
  <2> QED BY <2>6, <2>7
<1>15. CASE IsDecided(row, row2, ds, ds2)
  <2>1. PICK d \in DecisionSet :
          /\ ds2 = ds \cup {d} /\ Undecided(row, ds)
          /\ row.status = "waiting_approval" /\ d.step = row.step
          /\ d.action = row.pending
          /\ row2.status = IF d.allow THEN "queued" ELSE "failed"
          /\ SamePlan(row, row2)
    BY <1>15 DEF IsDecided
  <2>2. /\ row.step \in KnownSteps /\ row.step \in Nat /\ Len(History) = row.step
        /\ RunHolds(Observed) /\ row \in RowSet
    BY <2>1, <1>4
  <2>3. AbstractStatus = "waiting"
    BY <1>1, <2>1 DEF StatusOf
  <2>4. AbstractStatus' = IF d.allow THEN "open" ELSE "failed"
    BY <1>2, <2>1 DEF StatusOf
  <2>5. Verdict' = [Verdict EXCEPT ![row.step] = [action |-> d.action, decision |-> d.allow]]
    BY <1>1, <1>2, <2>1, <2>2, OneVerdict DEF Undecided
  <2>6. d.allow \in BOOLEAN
    BY DEF DecisionSet
  <2>7. d.action \in KnownActions
    <3>1. /\ row.step < Len(row.hash.actions) /\ IsGated(row.pending)
          /\ row.pending = row.hash.actions[row.step + 1]
      BY <2>1, <2>2 DEF RunHolds, RunInv, Core, Waits
    <3>2. row.hash \in KnownScenarios /\ Len(row.hash.actions) \in Nat
      BY <2>2, RowFields, Plans, LenProperties
    <3>3. row.step + 1 \in 1..Len(row.hash.actions)
      BY <2>2, <3>1, <3>2
    <3>4. row.hash.actions[row.step + 1].type = "call_tool"
      BY <3>1 DEF IsGated
    <3>5. row.hash.actions[row.step + 1] \in KnownActions
      BY <3>2, <3>3, <3>4, KnownCall
    <3> QED BY <2>1, <3>1, <3>5
  <2>8. Promise!DecideAtOnce(d.action, d.allow)
    BY <2>1, <2>2, <2>3, <2>4, <2>5, <2>6, <1>5, <1>6
       DEF Promise!DecideAtOnce, Promise!Cursor
  <2> QED BY <2>6, <2>7, <2>8 DEF Promise!Next
<1> QED BY <1>3, <1>9, <1>10, <1>11, <1>12, <1>13, <1>14, <1>15 DEF Move

\* Whatever run is observed: its clients see a DurableRun, with every request of
\* every app, crash and upgrade a step of it or a stutter (_advance, approve).
THEOREM EngineKeepsPromise == Spec => ImplementsDurableRun
<1>1. Init => Promise!Init
  <2> SUFFICES ASSUME Init PROVE Promise!Init
    OBVIOUS
  <2>1. EngineInv
    BY InitInv
  <2>2. View /\ Observed \in Runs
    BY <2>1, ViewHolds, EngineAssumption
  <2>3. rows[Observed] = Absent /\ decisions[Observed] = {}
    BY <2>2 DEF Init
  <2>4. AbstractStatus = "absent"
    BY <2>2, <2>3 DEF View, StatusOf, Absent
  <2>5. History = <<>>
    <3>1. rows[Observed].step = 0 /\ 1..0 = {}
      BY <2>3 DEF Absent
    <3> QED BY <2>2, <3>1 DEF View, HistoryOf
  <2>6. Verdict = [s \in KnownSteps |-> NotDecided]
    BY <2>2, <2>3 DEF View, VerdictOf
  <2> QED BY <2>4, <2>5, <2>6 DEF Promise!Init
<1>2. EngineInv /\ EngineInv' /\ [Next]_vars => [Promise!Next]_(Promise!absVars)
  <2> SUFFICES ASSUME EngineInv, EngineInv', [Next]_vars
               PROVE  [Promise!Next]_(Promise!absVars)
    OBVIOUS
  <2>1. CASE rows'[Observed] = rows[Observed] /\ decisions'[Observed] = decisions[Observed]
    <3>1. View /\ View'
      BY ViewHolds, ViewStays
    <3>2. /\ AbstractStatus' = AbstractStatus /\ History' = History
          /\ Verdict' = Verdict
      BY <3>1, <2>1 DEF View
    <3> QED BY <3>2 DEF Promise!absVars
  <2>2. CASE Moves(Observed)
    BY <2>2, MoveKeepsPromise
  <2> QED BY <2>1, <2>2, NextMoves DEF ObservedMoves
<1> QED BY <1>1, <1>2, Invariant, PTL DEF Spec, ImplementsDurableRun, Promise!Spec

=============================================================================
