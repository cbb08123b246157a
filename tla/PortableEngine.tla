--------------------------- MODULE PortableEngine ---------------------------
(***************************************************************************)
(* The offline engine of the mobile and portable editions                  *)
(* (src/distribution/mobile_app.py): a second implementation of the run    *)
(* loop with neither leases nor claims.  A request is a chain of SQLite    *)
(* transactions: every policy action or tool attempt commits the row, its  *)
(* events, its effect and its checkpoint together.  The process can die    *)
(* between any two of them, and can come back with another catalog.        *)
(*                                                                         *)
(* The lock of a MobileApp serialises its requests.  portable_host.stop    *)
(* waits for no request, so those of a stopped app may go on beside those  *)
(* of the one that start makes next: Apps are the MobileApp objects of the *)
(* process whose requests are on their way.                                *)
(*                                                                         *)
(* An action is one transaction, or one return of the request's loop.      *)
(* Requests that are refused write nothing and are left out, as are the    *)
(* ones that only read (PortableReport has what they compute).  A digest   *)
(* is the value it is taken of.  Run identifiers are random in the code    *)
(* and counted here.                                                       *)
(*                                                                         *)
(* An operator introduced by "Mutation:" is used by no action; it is the   *)
(* definition that follows it with a mistake in it.                        *)
(***************************************************************************)
EXTENDS Integers, Sequences, FiniteSets

CONSTANTS
  Apps,          \* the MobileApp objects of the process
  Names,         \* scenario identifiers
  Suite,         \* the identifiers in order
  Catalogs,      \* the catalogs that packages of the app may carry
  Reviewers,     \* what tells two equal verdicts apart: actor and reason
  Evaluator,     \* the actor of the evaluation's own approvals
  MaxRuns,       \* bound: runs ever created
  Observed,      \* the run whose clients ImplementsDurableRun is about: any one
  MaxStarts,     \* bound: the runs among them that may be started one by one
  AdvanceBudget  \* transactions per request (64 in the code)

Runs == 1..MaxRuns

Tools == {"get_service_health", "search_recent_logs", "get_deployment",
          "prepare_rollback"}

TransientKinds == {"timeout", "rate_limit", "tool_error"}

\* result is the outcome of a finish, the code of a fail action.
Actions ==
  [type : {"call_tool", "finish", "fail"}, tool : Tools \cup {"none"},
   valid : BOOLEAN, result : STRING]

NoAction ==
  [type |-> "none", tool |-> "none", valid |-> FALSE, result |-> "none"]

Faults == [tool : Tools, attempt : Nat, type : STRING]

Scenario ==
  [actions : Seq(Actions), faults : SUBSET Faults, supplied : BOOLEAN,
   expected : STRING, sequence : Seq(Tools)]

ASSUME EngineAssumption ==
  /\ MaxRuns \in Nat /\ MaxStarts \in Nat /\ AdvanceBudget \in Nat
  /\ Catalogs \subseteq [Names -> Scenario]
  /\ Suite \in Seq(Names) /\ Observed \in Runs
  /\ Evaluator \notin Reviewers

\* The suite is the whole catalog.
ASSUME SuiteAssumption == {Suite[i] : i \in DOMAIN Suite} = Names

VARIABLES
  catalog,     \* the catalog of the running package
  rows,        \* table runs
  events,      \* table events, by run, in the order of their sequence
  decisions,   \* table decisions, by run: step and action, verdict and actor
  effects,     \* table effects, by run: step and action
  evaluations, \* table evaluations
  request,     \* the request that holds the lock of each app
  batch        \* the cases its evaluation has still to run, and its references

tables == <<rows, events, decisions, effects, evaluations>>

vars == <<catalog, tables, request, batch>>

Modes == {"fragile", "resilient"}

Terminal == {"succeeded", "failed"}

\* A row of table runs; scenario_hash is the scenario the run was made from.
Absent ==
  [status |-> "absent", scenario |-> "none", hash |-> "none", mode |-> "none",
   step |-> 0, attempt |-> 0, announced |-> 0, pending |-> NoAction,
   result |-> "none"]

\* phase: "idle", "advance" (in _advance), "returned" from it to _evaluate,
\* or "choose" (the next case).  seen is the row _advance returned.
NoRequest ==
  [phase |-> "idle", evaluates |-> FALSE, run |-> 0, left |-> 0,
   seen |-> Absent]

NoBatch == [todo |-> <<>>, refs |-> <<>>]

Init ==
  /\ catalog \in Catalogs
  /\ rows = [r \in Runs |-> Absent]
  /\ events = [r \in Runs |-> <<>>]
  /\ decisions = [r \in Runs |-> {}]
  /\ effects = [r \in Runs |-> {}]
  /\ evaluations = <<>>
  /\ request = [e \in Apps |-> NoRequest]
  /\ batch = [e \in Apps |-> NoBatch]

-----------------------------------------------------------------------------
(* Helpers *)

Exists(r) == rows[r].status # "absent"

Active(r) == rows[r].status \in {"queued", "running"}

Blank == [type |-> "none", step |-> -1, attempt |-> 0, action |-> NoAction,
          code |-> "none"]

\* _event numbers an event after the last one of the run.
Log(r, new) == events' = [events EXCEPT ![r] = @ \o new]

Save(r, row) == rows' = [rows EXCEPT ![r] = row]

FailedRow(row, code) ==
  [row EXCEPT !.status = "failed", !.pending = NoAction, !.result = code]

FailedEvent(code) == [Blank EXCEPT !.type = "run.failed", !.code = code]

\* Mutation: a run goes on under whatever catalog is installed.
AnyScenario(r) == TRUE

\* _assert_scenario_compatible
Compatible(r) == rows[r].hash = catalog[rows[r].scenario]

Exhausted(r) == rows[r].step >= Len(catalog[rows[r].scenario].actions)

ActionOf(r) == catalog[rows[r].scenario].actions[rows[r].step + 1]

DecisionsAt(r, s) == {d \in decisions[r] : d.step = s}

EffectsAt(r, s) == {e \in effects[r] : e.step = s}

-----------------------------------------------------------------------------
(* Requests *)

Idle(e) == request[e].phase = "idle"

Drive(e, r) ==
  request' = [request EXCEPT ![e] = [@ EXCEPT !.phase = "advance", !.run = r,
                                              !.left = AdvanceBudget,
                                              !.seen = Absent]]

Fresh(r) == ~Exists(r) /\ \A q \in Runs : q < r => Exists(q)

NewRow(name, mode) ==
  [status |-> "queued", scenario |-> name, hash |-> catalog[name],
   mode |-> mode, step |-> 0, attempt |-> 1, announced |-> -1,
   pending |-> NoAction, result |-> "none"]

\* The first transaction of _start.
CreateRun(e, r, name, mode) ==
  /\ Fresh(r)
  /\ Save(r, NewRow(name, mode))
  /\ Log(r, <<[Blank EXCEPT !.type = "run.created", !.code = mode]>>)
  /\ Drive(e, r)
  /\ UNCHANGED <<catalog, decisions, effects, evaluations>>

Start(e, r, name, mode) ==
  /\ Idle(e) /\ r <= MaxStarts
  /\ CreateRun(e, r, name, mode)
  /\ UNCHANGED batch

Resume(e, r) ==
  /\ Idle(e) /\ Exists(r) /\ rows[r].status \notin Terminal
  /\ Drive(e, r)
  /\ UNCHANGED <<catalog, tables, batch>>

\* _approve of a decision that is already stored: the same request again.
RepeatApproval(e, r, d) ==
  /\ Idle(e) /\ Compatible(r)
  /\ d \in decisions[r]
  /\ Drive(e, r)
  /\ UNCHANGED <<catalog, tables, batch>>

MatchesPending(r, d) ==
  /\ rows[r].status = "waiting_approval"
  /\ rows[r].pending = d.action
  /\ rows[r].step = d.step

RecordedEvent(d) ==
  [Blank EXCEPT !.type = "approval.recorded", !.step = d.step,
                !.action = d.action, !.code = IF d.allow THEN "allow" ELSE "deny"]

\* Mutation: the verdict is left to the next transaction.
QueuedAnyway(r, d) == [rows[r] EXCEPT !.pending = NoAction, !.status = "queued"]

Decided(r, d) ==
  IF d.allow
  THEN [rows[r] EXCEPT !.pending = NoAction, !.status = "queued"]
  ELSE FailedRow(rows[r], "approval_denied")

\* The transaction of _approve for a first decision.
Decide(e, r, d) ==
  /\ Compatible(r)
  /\ DecisionsAt(r, d.step) = {}
  /\ MatchesPending(r, d)
  /\ decisions' = [decisions EXCEPT ![r] = @ \cup {d}]
  /\ Save(r, Decided(r, d))
  /\ Log(r, <<RecordedEvent(d)>> \o
            IF d.allow THEN <<>>
            ELSE <<[RecordedEvent(d) EXCEPT !.type = "approval.denied"],
                   FailedEvent("approval_denied")>>)
  /\ Drive(e, r)
  /\ UNCHANGED <<catalog, effects, evaluations>>

Approve(e, r, d) ==
  /\ Idle(e)
  /\ Decide(e, r, d)
  /\ UNCHANGED batch

-----------------------------------------------------------------------------
(* _advance: one transaction per action or attempt *)

InAdvance(e, r) ==
  request[e].phase = "advance" /\ request[e].run = r /\ request[e].left > 0

\* run.running for a queued run, policy.action once per step.
OpeningEvents(r) ==
  (IF rows[r].status = "queued"
   THEN <<[Blank EXCEPT !.type = "run.running"]>> ELSE <<>>) \o
  (IF ~Exhausted(r) /\ rows[r].announced # rows[r].step
   THEN <<[Blank EXCEPT !.type = "policy.action", !.step = rows[r].step,
                        !.action = ActionOf(r)]>>
   ELSE <<>>)

Opened(r) == [rows[r] EXCEPT !.status = "running", !.announced = rows[r].step]

Transact(e, r, row, new) ==
  /\ InAdvance(e, r) /\ Active(r) /\ Compatible(r)
  /\ Save(r, row)
  /\ Log(r, OpeningEvents(r) \o new)
  /\ request' = [request EXCEPT ![e].left = @ - 1]
  /\ UNCHANGED <<catalog, decisions, evaluations, batch>>

FailTransaction(e, r, row, new, code) ==
  /\ Transact(e, r, FailedRow(row, code), new \o <<FailedEvent(code)>>)
  /\ UNCHANGED effects

Exhaust(e, r) ==
  /\ Active(r) /\ Compatible(r) /\ Exhausted(r)
  /\ FailTransaction(e, r, [rows[r] EXCEPT !.status = "running"], <<>>,
                     "scenario_exhausted")

Finish(e, r) ==
  /\ Active(r) /\ Compatible(r) /\ ~Exhausted(r)
  /\ ActionOf(r).type = "finish"
  /\ Transact(e, r, [Opened(r) EXCEPT !.status = "succeeded",
                                   !.result = ActionOf(r).result],
              <<[Blank EXCEPT !.type = "run.succeeded",
                              !.code = ActionOf(r).result]>>)
  /\ UNCHANGED effects

GiveUp(e, r) ==
  /\ Active(r) /\ Compatible(r) /\ ~Exhausted(r)
  /\ ActionOf(r).type = "fail"
  /\ FailTransaction(e, r, Opened(r), <<>>, ActionOf(r).result)

-----------------------------------------------------------------------------
(* _attempt *)

Calling(r) ==
  /\ Active(r) /\ Compatible(r) /\ ~Exhausted(r)
  /\ ActionOf(r).type = "call_tool"

Gated(r) == ActionOf(r).tool = "prepare_rollback"

\* Mutation: whoever calls is allowed to.
ClearedAnyway(r) == TRUE

\* The stored decision allows exactly this action.
Cleared(r) ==
  Gated(r) =>
    \E d \in DecisionsAt(r, rows[r].step) : d.action = ActionOf(r) /\ d.allow

\* Why a call is refused before its first attempt, or "none".
RefusalCode(r) ==
  IF ~ActionOf(r).valid THEN "invalid_input"
  ELSE IF DecisionsAt(r, rows[r].step) # {} /\ ~Cleared(r)
  THEN "approval_mismatch"
  ELSE "none"

RejectCall(e, r) ==
  /\ Calling(r) /\ RefusalCode(r) # "none"
  /\ FailTransaction(e, r, Opened(r),
       IF ActionOf(r).valid THEN <<>>
       ELSE <<[Blank EXCEPT !.type = "tool.preflight.failed",
                            !.step = rows[r].step, !.action = ActionOf(r),
                            !.code = "invalid_input"]>>,
       RefusalCode(r))

AwaitApproval(e, r) ==
  /\ Calling(r) /\ ActionOf(r).valid /\ Gated(r)
  /\ DecisionsAt(r, rows[r].step) = {}
  /\ Transact(e, r, [Opened(r) EXCEPT !.status = "waiting_approval",
                                   !.pending = ActionOf(r)],
              <<[Blank EXCEPT !.type = "run.waiting_approval",
                              !.step = rows[r].step, !.action = ActionOf(r)]>>)
  /\ UNCHANGED effects

\* Mutation: a fault rule matches every attempt.
FaultsAlways(r) ==
  {f \in catalog[rows[r].scenario].faults : f.tool = ActionOf(r).tool}

FaultsNow(r) ==
  {f \in catalog[rows[r].scenario].faults :
     f.tool = ActionOf(r).tool /\ f.attempt = rows[r].attempt}

\* The kind of the fault injected into this attempt, or "none".
FaultKind(r) ==
  IF FaultsNow(r) = {} THEN "none" ELSE (CHOOSE f \in FaultsNow(r) : TRUE).type

AttemptEvent(r, type) ==
  [Blank EXCEPT !.type = type, !.step = rows[r].step,
                !.attempt = rows[r].attempt, !.action = ActionOf(r)]

StartedEvents(r) ==
  <<AttemptEvent(r, "tool.attempt.started")>> \o
  IF FaultsNow(r) = {} THEN <<>>
  ELSE <<[AttemptEvent(r, "fault.injected") EXCEPT !.code = FaultKind(r)]>>

FailureCode(kind) ==
  CASE kind = "timeout" -> "tool_timeout"
    [] kind = "malformed_output" -> "invalid_output"
    [] OTHER -> kind

\* Mutation: an attempt that is retried leaves no outcome.
UnfinishedAttempt(r) == StartedEvents(r)

FailedAttempt(r) ==
  StartedEvents(r) \o
  (IF FaultKind(r) = "malformed_output"
   THEN <<AttemptEvent(r, "tool.output.validation_failed")>> ELSE <<>>) \o
  <<[AttemptEvent(r, "tool.attempt.failed")
       EXCEPT !.code = FailureCode(FaultKind(r))]>>

Fails(r) == FaultKind(r) \in TransientKinds \cup {"malformed_output"}

\* Mutation: the attempts are counted from zero.
NeverRetries(r) ==
  FaultKind(r) \in TransientKinds /\ rows[r].mode = "resilient"
  /\ rows[r].attempt < 1

Retries(r) ==
  /\ FaultKind(r) \in TransientKinds
  /\ rows[r].mode = "resilient" /\ rows[r].attempt < 3

Attempting(r) == Calling(r) /\ ActionOf(r).valid /\ Cleared(r)

\* Mutation: the attempt counter is not saved.
RetrySameAttempt(e, r) ==
  /\ Attempting(r) /\ Fails(r) /\ Retries(r)
  /\ Transact(e, r, Opened(r), FailedAttempt(r))
  /\ UNCHANGED effects

RetryAttempt(e, r) ==
  /\ Attempting(r) /\ Fails(r) /\ Retries(r)
  /\ Transact(e, r, [Opened(r) EXCEPT !.attempt = @ + 1], FailedAttempt(r))
  /\ UNCHANGED effects

FailAttempt(e, r) ==
  /\ Attempting(r) /\ Fails(r) /\ ~Retries(r)
  /\ FailTransaction(e, r, Opened(r), FailedAttempt(r), FailureCode(FaultKind(r)))

\* The write, once per step.  (The stored write of another action would end
\* the request; none exists at the step an active run is at.)
NewEffects(r) ==
  IF Gated(r) /\ EffectsAt(r, rows[r].step) = {}
  THEN {[step |-> rows[r].step, action |-> ActionOf(r)]} ELSE {}

SucceedAttempt(e, r) ==
  /\ Attempting(r) /\ ~Fails(r)
  /\ \A x \in EffectsAt(r, rows[r].step) : Gated(r) => x.action = ActionOf(r)
  /\ effects' = [effects EXCEPT ![r] = @ \cup NewEffects(r)]
  /\ Transact(e, r, [Opened(r) EXCEPT !.step = @ + 1, !.attempt = 1,
                                   !.pending = NoAction],
              StartedEvents(r) \o
              <<AttemptEvent(r, "tool.attempt.succeeded"),
                [Blank EXCEPT !.type = "run.checkpointed",
                              !.step = rows[r].step + 1]>>)

-----------------------------------------------------------------------------
(* How a request ends *)

Stop(e) ==
  /\ request' = [request EXCEPT ![e] = NoRequest]
  /\ batch' = [batch EXCEPT ![e] = NoBatch]

\* _advance returns a run that is terminal or waits.
Return(e, r) ==
  /\ InAdvance(e, r) /\ ~Active(r)
  /\ IF request[e].evaluates
     THEN /\ request' = [request EXCEPT ![e].phase = "returned",
                                          ![e].seen = rows[r]]
          /\ UNCHANGED batch
     ELSE Stop(e)
  /\ UNCHANGED <<catalog, tables>>

\* action_budget_exceeded
OutOfBudget(e) ==
  /\ request[e].phase = "advance" /\ request[e].left = 0
  /\ Stop(e)
  /\ UNCHANGED <<catalog, tables>>

\* Mutation: the loop goes on.
RefuseSilently(e, r) ==
  InAdvance(e, r) /\ Active(r) /\ ~Compatible(r) /\ UNCHANGED vars

\* scenario_changed
Refuse(e, r) ==
  /\ InAdvance(e, r) /\ Active(r) /\ ~Compatible(r)
  /\ Stop(e)
  /\ UNCHANGED <<catalog, tables>>

-----------------------------------------------------------------------------
(* _evaluate: every scenario in both modes, then one insert *)

Cases ==
  [i \in 1..(2 * Len(Suite)) |->
     [mode |-> IF i <= Len(Suite) THEN "fragile" ELSE "resilient",
      scenario |-> Suite[((i - 1) % Len(Suite)) + 1]]]

\* (One evaluation at a time is a bound of the model.)
Evaluate(e) ==
  /\ Idle(e) /\ \A f \in Apps : ~request[f].evaluates
  /\ \E r \in Runs : Fresh(r) /\ r + 2 * Len(Suite) - 1 <= MaxRuns
  /\ request' = [request EXCEPT ![e].phase = "choose", ![e].evaluates = TRUE]
  /\ batch' = [batch EXCEPT ![e].todo = Cases]
  /\ UNCHANGED <<catalog, tables>>

StartCase(e, r) ==
  /\ request[e].phase = "choose" /\ batch[e].todo # <<>>
  /\ CreateRun(e, r, Head(batch[e].todo).scenario, Head(batch[e].todo).mode)
  /\ UNCHANGED batch

\* What _advance returned; the row may have gone on since.  A case is approved
\* once: one that waits again, at a second gated step, is recorded as it is.
NeedsApproval(e) ==
  /\ request[e].seen.status = "waiting_approval"
  /\ catalog[request[e].seen.scenario].supplied
  /\ \A d \in decisions[request[e].run] : d.by # Evaluator

\* The evaluation supplies the approval its scenario declares, unless somebody
\* else has decided by now: then it fails.
ApproveCase(e, r) ==
  /\ request[e].phase = "returned" /\ request[e].run = r /\ NeedsApproval(e)
  /\ IF rows[r].status = "waiting_approval"
       THEN /\ Decide(e, r, [step |-> rows[r].step, action |-> rows[r].pending,
                             allow |-> TRUE, by |-> Evaluator])
            /\ UNCHANGED batch
       ELSE Stop(e) /\ UNCHANGED <<catalog, tables>>

\* What evidence_hash digests.
Evidence(r, row) == [row |-> row, events |-> events[r]]

RecordCase(e, r) ==
  /\ request[e].phase = "returned" /\ request[e].run = r /\ ~NeedsApproval(e)
  /\ batch' =
       [batch EXCEPT ![e] =
          [todo |-> Tail(@.todo),
           refs |-> Append(@.refs,
                           [run |-> r,
                            evidence |-> Evidence(r, request[e].seen)])]]
  /\ request' = [request EXCEPT ![e].phase = "choose", ![e].seen = Absent]
  /\ UNCHANGED <<catalog, tables>>

SaveEvaluation(e) ==
  /\ request[e].phase = "choose" /\ batch[e].todo = <<>>
  /\ evaluations' =
       Append(evaluations, [suite |-> catalog, runs |-> batch[e].refs])
  /\ Stop(e)
  /\ UNCHANGED <<catalog, rows, events, decisions, effects>>

-----------------------------------------------------------------------------
(* The process *)

\* A request dies between two transactions, with its process or by an error of
\* the database; SQLite rolls an open one back.
Crash(e) ==
  /\ ~Idle(e)
  /\ Stop(e)
  /\ UNCHANGED <<catalog, tables>>

\* Another package of the app is started on the same database.
Upgrade ==
  /\ \A e \in Apps : Idle(e)
  /\ catalog' \in Catalogs \ {catalog}
  /\ UNCHANGED <<tables, request, batch>>

\* Code that runs under the lock.
Proceed(e) ==
  \/ \E r \in Runs :
       \/ Exhaust(e, r) \/ Finish(e, r) \/ GiveUp(e, r)
       \/ RejectCall(e, r) \/ AwaitApproval(e, r)
       \/ RetryAttempt(e, r) \/ FailAttempt(e, r) \/ SucceedAttempt(e, r)
       \/ Return(e, r) \/ Refuse(e, r)
       \/ StartCase(e, r) \/ ApproveCase(e, r) \/ RecordCase(e, r)
  \/ OutOfBudget(e) \/ SaveEvaluation(e)

\* The approvals worth sending: about a step and an action of some version of
\* the run's scenario.
Bodies(r) ==
  {[step |-> s, action |-> a, allow |-> v, by |-> p] :
     s \in 0..rows[r].step,
     a \in UNION {{c[rows[r].scenario].actions[i] :
                     i \in DOMAIN c[rows[r].scenario].actions} : c \in Catalogs},
     v \in BOOLEAN, p \in Reviewers}

Ask(e) ==
  \/ \E r \in Runs, n \in Names, m \in Modes : Start(e, r, n, m)
  \/ \E r \in Runs : Resume(e, r)
  \/ \E r \in {r \in Runs : Exists(r)} : \E d \in Bodies(r) :
       Approve(e, r, d) \/ RepeatApproval(e, r, d)
  \/ Evaluate(e)

Next == \/ \E e \in Apps : Ask(e) \/ Proceed(e) \/ Crash(e)
        \/ Upgrade

Spec == Init /\ [][Next]_vars

\* Requests run to their end unless the process dies.
LiveSpec == Spec /\ \A e \in Apps : WF_vars(Proceed(e))

-----------------------------------------------------------------------------
(* Properties *)

Indices(r, types) == {i \in DOMAIN events[r] : events[r][i].type \in types}

StatusEvents ==
  {"run.created", "run.running", "run.waiting_approval", "approval.recorded",
   "run.succeeded", "run.failed"}

\* The status a run has after an event of its trace.
StatusAfter(e) ==
  CASE e.type = "run.created" -> "queued"
    [] e.type = "run.running" -> "running"
    [] e.type = "run.waiting_approval" -> "waiting_approval"
    [] e.type = "approval.recorded" ->
         IF e.code = "allow" THEN "queued" ELSE "failed"
    [] e.type = "run.succeeded" -> "succeeded"
    [] OTHER -> "failed"

\* The events of some type stand in the order of their steps, once each.
InOrder(r, type) ==
  \A i, j \in Indices(r, {type}) : i < j => events[r][i].step < events[r][j].step

StepsOf(r, type) == {events[r][i].step : i \in Indices(r, {type})}

\* After any crash the trace of a run explains its row: status, cursor and
\* attempt are what the events say, so a resumed run neither repeats nor skips
\* an attempt that was committed.
TrailExplainsRow ==
  \A r \in Runs : Exists(r) =>
    /\ \E i \in Indices(r, StatusEvents) :
         /\ rows[r].status = StatusAfter(events[r][i])
         /\ \A j \in Indices(r, StatusEvents) : j <= i
    /\ StepsOf(r, "run.checkpointed") = 1..rows[r].step
    /\ InOrder(r, "run.checkpointed")
    /\ Active(r) =>
         \A i \in Indices(r, {"tool.attempt.started"}) :
           \/ events[r][i].step < rows[r].step
           \/ /\ events[r][i].step = rows[r].step
              /\ events[r][i].attempt < rows[r].attempt

\* Whatever package resumes a run, its trace announces the actions of the
\* scenario it was made from, each once and in order.
RunsItsScenario ==
  \A r \in Runs : Exists(r) =>
    /\ StepsOf(r, "policy.action") = 0..rows[r].announced
    /\ InOrder(r, "policy.action")
    /\ \A i \in Indices(r, {"policy.action"}) :
         events[r][i].action = rows[r].hash.actions[events[r][i].step + 1]

\* The simulated write is done once per step and exactly when the trace says
\* so, after a reviewer allowed that very action, and never after a denial.
WritesAreAllowed ==
  \A r \in Runs :
    LET writes == {i \in Indices(r, {"tool.attempt.succeeded"}) :
                     events[r][i].action.tool = "prepare_rollback"}
    IN  /\ effects[r] = {[step |-> events[r][i].step,
                          action |-> events[r][i].action] : i \in writes}
        /\ \A i, j \in writes : events[r][i].step = events[r][j].step => i = j
        /\ \A i \in writes :
             /\ \E j \in Indices(r, {"approval.recorded"}) :
                  /\ j < i /\ events[r][j].code = "allow"
                  /\ events[r][j].step = events[r][i].step
                  /\ events[r][j].action = events[r][i].action
             /\ \A j \in Indices(r, {"approval.denied"}) : i < j

\* The lock is given back: every request ends.
RequestsEnd == \A e \in Apps : ~Idle(e) ~> Idle(e)

-----------------------------------------------------------------------------
(* Refinement: the engine keeps the promise of DurableRun *)

\* The action of the attempt that succeeded at step s.
PerformedAt(r, s) ==
  events[r][CHOOSE i \in Indices(r, {"tool.attempt.succeeded"}) :
              events[r][i].step = s].action

KnownActions ==
  {a \in UNION {{c[n].actions[i] : i \in DOMAIN c[n].actions} :
                  c \in Catalogs, n \in Names} : a.type = "call_tool"}

KnownSteps == UNION {0..Len(c[n].actions) : c \in Catalogs, n \in Names}

NotDecided == [action |-> NoAction, decision |-> FALSE]

AbstractStatus ==
  CASE Active(Observed) -> "open"
    [] rows[Observed].status = "waiting_approval" -> "waiting"
    [] OTHER -> rows[Observed].status

History ==
  [i \in 1..Cardinality(Indices(Observed, {"tool.attempt.succeeded"})) |->
     PerformedAt(Observed, i - 1)]

Verdict ==
  [s \in KnownSteps |->
     IF DecisionsAt(Observed, s) = {} THEN NotDecided
     ELSE LET d == CHOOSE d \in DecisionsAt(Observed, s) : TRUE
          IN  [action |-> d.action, decision |-> d.allow]]

Promise ==
  INSTANCE DurableRun
    WITH Actions <- KnownActions,
         Approvable <- {a \in KnownActions : a.tool = "prepare_rollback"},
         Verdicts <- BOOLEAN, Yes <- {TRUE}, Undecided <- NotDecided,
         AllSteps <- KnownSteps,
         status <- AbstractStatus, history <- History, verdict <- Verdict

\* With no lease, claim or version, a run of the offline engine is still the
\* durable run its clients were promised.
ImplementsDurableRun == Promise!Spec

=============================================================================
