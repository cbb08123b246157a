# TLA+ verification of Agent Reliability Lab

Agent Reliability Lab runs agents durably: a run survives the death of the
process that drives it, a dangerous tool waits for a reviewer, and a write is
not performed twice. This directory holds TLA+ modules translated from that
code, TLC configurations that check them on small instances, and TLAPS proofs
of the properties that matter most. `PROJECT.json` maps every modelling
definition to its source lines, lists the hazards and gives for every checked
property a mistake in the code ("Mutation:" operators) that would break it.

Paths below are relative to `src/src/agent_reliability_lab/` unless they start
with `src/`.

## 1. The system

| part | state | operations | talks to |
|---|---|---|---|
| run state machine `domain/runs.py` | the immutable `Run` value | `new`, `transition` | everyone |
| `SQLiteRunStore` `storage/store.py` | tables runs, run_execution_leases, approvals, tool_results, events, evaluation reports | one transaction per method | SQLite |
| `RunService` `runtime/service.py` | none of its own | `start`, `resume`, `approve`, heartbeat task | store, orchestrator |
| `DurableOrchestrator` `runtime/orchestrator.py` | the Run value it saved last | `execute` loop | store, policy, gateway |
| `ToolGateway` `tools/gateway.py` | none (the claim table is its memory) | `call`, `preflight`, `stabilize_action` | store, tools |
| tools, faults, incident backend `tools/` | in-memory incident of one request | handlers, `FaultPlan` | gateway |
| policies, providers | none | `next_action` | an HTTP endpoint |
| recorder, sanitization | none | append events | store |
| API `api/` | per-run locks, evaluation semaphore | HTTP handlers in worker threads | RunService, evaluation |
| evaluation `evaluation/` | the frozen manifest of the suite, one report | freeze, run cases in two modes, grade, enforce the gate on traces | scenario files, orchestrator, a store per case |
| portable engine `src/distribution/mobile_app.py` | its own SQLite tables | a second, offline implementation of the run loop | SQLite |
| portable host, desktop, Android shells | connection slots, server and window life cycle | start, stop, attach, detach | engine |
| web dashboard `src/web` | selection, loaded data | fetch, mutate, select | API |

How they interact. Every API request builds a fresh `RunService` over the
shared database; two requests, two workers or two processes therefore share
nothing but the tables. A service call draws an owner token, takes the run's
lease, and hands the run to the orchestrator, which saves every change with a
compare-and-swap on the run's version *and* a check of the lease, in one
transaction with the audit event. Tools with an idempotency key are run under
a second, independent lease: a claim in tool_results.

### What is hard

* **Interleavings.** A lease can run out while a policy or a tool is awaited;
  the overtaken call wakes up later with an old snapshot. A heartbeat revives an
  expired lease if nobody has taken it. `approve` reads, records, re-reads and
  claims in four transactions.
* **Crashes and cancellation.** A process can die between any two transactions,
  leaving a reserved policy slot, a decision nobody acts on, a lease or a claim.
* **Retries.** A key whose owner vanished is reclaimed; its first handler may
  still be running and answer afterwards.
* **Two leases with different clocks.** The run lease counts from the last
  heartbeat, the tool claim from the claim.
* **Waiting.** A reviewer whose claim conflicts waits for "the winner".
* **Two readings of one trace.** The evaluation runner filters a trace, the gate
  reads it event by event, and both must come to the same case. Events that are
  not fenced by the lease can be left in it by an overtaken worker.
* **A lock that is deleted.** The per-run lock of the API lives only while
  somebody uses it; an evaluation has the one slot or is refused.
* **Servers that overlap.** The offline engine keeps its runs apart by a lock per
  server; `stop` waits for no request, so two servers' requests interleave.
* **Late answers.** The dashboard's answers arrive in any order while the
  selection changes; an Android activity's start task may outlive it.

The hazards, each at its line, are in `PROJECT.json`.

### What makes each part correct

| part | property |
|---|---|
| store / orchestrator | only the current lease holder changes a run, and always from its current value; a terminal run is final; the trail explains the row |
| orchestrator | the policy budget holds across restarts; the reviewed action is the one performed |
| approvals | one decision per step, only while the run waits for it; no gated handler without it; a denial stops the run |
| gateway / claims | a completed key is never run again and its result is what the run carries; a write that was left behind or failed with its outcome unknown, and that its tool does not declare idempotent, is never handed out again; a write that may be repeated is reclaimed under the same key |
| service | every call returns; an approve that returns a run has had its effect |
| evaluation runner | what is reported ran the manifest that was frozen; only retries tell the two modes apart |
| gate | takes every honest report; what it takes tells what the runs did; PASS is earned |
| graders | agree with their definitions on every input |
| trace | readers get it whole whatever its writers do |
| API services | one request per run at a time, one evaluation at a time, answers not older than their command |
| portable engine | the promises of a durable run under one transaction per attempt; saved reports stay readable |
| portable host, Android | what an activity shows is a server that runs |
| dashboard | what is shown belongs to what is selected, and no button stays disabled |

## 2. Modules

| module | models | kind |
|---|---|---|
| `RunStore` | the tables of one run: row, lease, approvals, events written with the run; one operator per transaction | component |
| `ToolClaims` | the tool_results table: claim, complete, fail, expire | component |
| `RunExecution` | `RunService`, `DurableOrchestrator` and the claim protocol of `ToolGateway.call` over both tables; concurrent calls as processes | composition |
| `DurableRun` | what a run promises to clients, without versions, leases, claims or processes | abstract specification |
| `ToolGateway` | `tools/gateway.py` opened up over the claim table: concurrent calls that share a key, attempts, fault plan, backoff, cancellation, and `prepare_rollback`, the tool with an effect | composition |
| `IdempotentKey` | what an idempotency key promises, without claims, leases, attempts or processes | abstract specification |
| `IncidentSuite` | the built-in action sequences, scenario files and answers of the incident tools | data |
| `TraceGate` | `_trace_claims` of `evaluation/gate.py`: an acceptor of the events of a case that collects what they claim | algorithm |
| `ReportGate` | the rest of the gate: cases, summaries and comparison recomputed, then the thresholds | algorithm |
| `EvaluationRunner` | `evaluation/runner.py` with the orchestrator's events, writes to the suite directory, edits of the report, and the gate | composition |
| `Grading` | `evaluation/graders.py` | algorithm |
| `PortableEngine` | `src/distribution/mobile_app.py`: requests as chains of transactions, of one server or of two, crashes, other catalogs | component |
| `PortableReport` | what the portable engine derives from its tables: cases, reports, evidence | algorithm |
| `RunLocks` | `_RunLocks` of `api/services.py`, step by step | component |
| `ApiServices` | start, approve, resume and evaluate on worker threads around those locks, and the two reads of an answer | composition |
| `TraceLog` | the writers of a trace and the readers of its pages | component |
| `Dashboard` | `App.tsx` and `useRunDetail.ts`: selection, loads and commands on their way | component |
| `PortableShell` | the Android activities, `PortableRuntime` and the server of `portable_host.py` | component |
| `MCRunExecution`, `MCToolGateway`, `MCEvaluation`, `MCPortableEngine` | symmetry sets, fault plans, suites and catalogs of the TLC instances | model checking |
| `MCGrading` | the loop of the graders with reference definitions by enumeration | model checking |
| `MCSurroundings` | `ApiServices`, `TraceLog`, `Dashboard`, `PortableShell` and `MCGrading` side by side | model checking |
| `RunExecutionProofs`, `RunRefinementProofs`, `ToolGatewayProofs`, `GradingProofs`, `EvaluationProofs`, `EvidenceProofs`, `PortableEngineProofs`, `SurroundingsProofs` | inductive invariants and theorems | proofs |

`RunExecution` and `ToolGateway` both extend `ToolClaims`. The first follows a
run through every service call and makes one step of a tool's attempts; the
second follows one key through every attempt and leaves the run out.
`PortableEngine` is shown to implement the same `DurableRun` as `RunExecution`.
`TraceGate` extends `Grading` and `IncidentSuite`, `ReportGate` extends it, and
`EvaluationRunner` writes the traces they read. The parts that `MCSurroundings`
extends share no state; its variable `part` is drawn at the beginning and says
which of them moves, so that one run explores each on its own.

### How state and actions correspond to the code

* `row` is the `runs` row; `version = 0` means the row does not exist.
  `pending` is both `pending_action` and its fingerprint: a fingerprint is the
  hash of the complete action, so two fingerprints are equal exactly when the
  actions are.
* `lease` is the `run_execution_leases` row. It carries a flag `live` in place
  of a time: `LeaseExpires` clears it at any moment. The code samples the clock
  just before its transaction; a lease that expires in between is the same as
  one that expires just after the transaction, because nothing else reads it.
* `approvals[s]` is the row for step `s`. `trail` keeps those events that are
  inserted in the same transaction as a change of the run or of a decision.
* `claims[k]` is the `tool_results` row of key `k`. Keys the runtime generates
  hash run, step, tool and arguments, hence `Keys == Steps \X ToolActions`.
  A completed claim keeps its owner, who stands for the stored payload
  (secrets are redacted in that payload; redaction is left out).
* A call (`start`, `resume`, `approve`) is a member of `Calls`; it has its own
  owner token, so a member is used once. `pc` is where it is; a step of the
  model ends at a transaction or an await, because that is where another call
  can run. `snap` is the Run value it holds, `act` the action, `output` the
  tool output by the call that produced it, `fault` the failure code or the
  exception it carries through its finally block.
* `start` is `Start`; `resume` is `Resume`; `approve` is `Approve`
  (record), `Reread` (second read and the choice of a branch), then `Claim`, or
  `Poll`/`GiveUp` for the wait. `_execute_owned` is `Claim` ... `Release`;
  `_deny` is `Claim` at `deny_claim`, `Deny`, `Release`. The orchestrator's loop
  is `Enter`, `NextAction`, `PolicyAnswers`/`PolicyRaises`, `Finish`,
  `PolicyFails`, `Preflight`, `CheckApproval`, `Pause`, `CallTool`,
  `HandlerSucceeds`/`HandlerFails`, `Checkpoint`, `TerminalFailure`.
  `Heartbeat` is a renewal by the heartbeat task; `Cancel` is a
  `CancelledError` at an await; `Crash` is the death of the process.
* `invoked` and `asked` are history variables: which call entered the handler
  of which key, and how often a policy was called.

In `ToolGateway`:

* A call of `ToolGateway.call` is a member of `Callers`, which is also its
  owner token; `want` is the key and request it was made with, `answer` the
  `ToolCallResult` it will return, `by` the call whose handler produced the
  output.
* `call` up to the claim is `Call`, the claim and the four refusals
  (`idempotency_conflict`, a completed result or one that no longer validates,
  a failed claim, `idempotency_in_progress`) are `ClaimKey`. One round of
  `_attempts` is `StartAttempt`, then `HandlerApplies` for a write, then
  `HandlerReturns` or `HandlerFails`; `Backoff` ends the retry delay;
  `_persist_claim_result` is `Persist`. `Cancel` is a `CancelledError` in the
  handler or in the delay, `Crash` the death of the process.
* `effects` is `IncidentBackend._rollback_by_token`, kept across crashes: the
  gateway's claim is about work done outside the process. `HandlerFails` after
  `HandlerApplies` is a handler that did its work and then timed out, raised or
  returned output that does not validate.
* `log` keeps the type, number and transience of the attempt events of a call,
  as a history; it is dropped when the call ends, because nothing reads it.
* `FaultFor` is `FaultPlan.fault_for`: the first rule for the tool and attempt.
* The approval check is in `RunExecution`; here preflight is one outcome, for
  the requests in `Malformed`.

In the evaluation (`EvaluationRunner`, `TraceGate`, `ReportGate`):

* `disk` is the scenario directory. A file is parsed for the manifest
  (`ReadScenario`), read again for its hash (`HashScenario`), parsed once more to
  be run (`LoadScenario`), and compared after every case (`Recheck`); `WriteFile`
  is somebody else writing to it at any of these moments.
* A case is `OpenCase` .. `CloseCase`: the events that `DurableOrchestrator` and
  `ToolGateway` write for a scripted policy that nothing interrupts, one action
  of the model for each save. `claims` is what the runner filters from the trace.
  The second approve call of a case, which only reads the result back, is part of
  `Gradable`.
* A file whose fault names a tool that its scenario never calls ends the
  evaluation when it is read (`Listable`). A scenario that has no action left
  (`Exhaust`) or says to fail (`GiveUp`) fails the run; an approval is for one step,
  the one the run waits at (`run.approved`). `FaultAt` is the fault injected into an
  attempt.
* `Read` goes through a trace as the loop of `_trace_claims` does, one `Admits`
  (the checks of an event) and `After` (what it leaves behind) per event.
  `TraceClaims` adds the checks after the loop. An event's position is its
  sequence number; a digest or fingerprint is the value it is taken of.
* The gate accepts any failure code in `run.failed` after a failed attempt
  (`gate.py:758`) and a moved or repeated `run.running` of a queued run; the
  model does the same, and `Story` leaves that notice out.
* `EditReport` is a report that was changed between runner and gate: one event of
  one case dropped, moved, repeated or recorded by a second worker, everything
  derived from it rewritten to match.

In the offline engine (`PortableEngine`, `PortableReport`):

* `request[e]` is the request that holds the lock of the `MobileApp` object `e`. A
  request is a chain of transactions; each is one action, with the row, its
  events, its effect and its checkpoint. `Crash` is the death of the process
  between two, `Upgrade` a start with another catalog. A second member of `Apps`
  is the app that `portable_host.start` makes while requests of the stopped one
  are still on their way.
* `_advance` is `Exhaust`, `Finish` and `GiveUp` for the policy's part and
  `RejectCall`, `AwaitApproval`, `RetryAttempt`, `FailAttempt` and
  `SucceedAttempt` for that of `_attempt`; `Return`, `Refuse` and `OutOfBudget`
  leave its loop.
* `evaluations` is the table of saved reports; a report cites its runs' evidence,
  which is recomputed whenever it is read (`Readable`).

In the parts around the runtime:

* `RunLocks`: the places of a thread in `hold` are the points where another
  thread can run: before and after the guard, with it, in the wait for the
  entry's lock, inside. `ApiServices` reduces `RunService` to what an answer
  shows: `start` inserts the row, from where others see the run; while a thread owns
  the run it records attempts and saves the row. A starter whose run is claimed first
  by a resume fails (`LoseClaim`); a command that never owns the run, because there is
  none, it has ended or another worker has it, answers with the row or an error
  (`Conflict`).
* `TraceLog`: `Allocate` is the upsert of the counter, which takes SQLite's write
  lock until `Commit` or `Rollback`; a reader is `getTrace` with
  `validateTracePage`. Both ways to find out whether there are more events (the
  service's and the portable app's) are tried for every page.
* `Dashboard`: the effects of a click run with the click, those of an answer
  some time later (`Effect`); generations and aborts are flags on the loads and
  commands on their way, taken away by the next selection or load. Choosing the run
  that is selected takes the generation only: the effects depend on the run. The time
  between a new state and its render is left out.
* `PortableShell`: `obtain` and the clean-up hold the class lock from beginning to
  end and are one step each; a server is a number that stands for origin and
  cookie.

### Abstractions

* A policy is any policy: it answers any tool call, finish, fail, an invalid
  call (unknown tool, invalid input, missing key), or raises.
* In `RunExecution` keyed tool calls carry the key the runtime derives. A key
  supplied by the policy may repeat with other input (CONFLICT); `ToolGateway`
  has that, since its calls choose any key for any request.
* In `RunExecution` all attempts inside one gateway call are one step
  (`HandlerSucceeds` or `HandlerFails`), with the awaits around it still
  interleaved; `ToolGateway` has the attempts.
* A tool in `ToolGateway` has no time: a timeout is a handler that fails with a
  transient error at any moment, a delay ends at any moment.
* The codes of a policy's own failure, the several preflight failures and the
  tool's own error codes are one code each; messages are left out.
* Heartbeats and cancellations happen at the awaits of policy and tool (and
  cancellations at the polling wait): elsewhere the event loop is not given
  control.
* Events appended in a transaction of their own (`policy.action`,
  `tool.attempt.*`, rejections) are left out of `RunExecution`, where no step
  reads them; `EvaluationRunner` writes them and `TraceGate` reads them.
* `load_scenario` and `_policy` failing inside `approve` or `resume` (a scenario
  file removed meanwhile) are left out.

## 3. Runs

The first five instances use module `MCRunExecution`. Bounds: `Calls` (how many service
calls a run ever sees), `MaxActionSteps` (the budget, at least 1 in the code,
default 64), `ToolActions`. Nothing else is bounded; every behaviour ends
because calls are used once. When all calls have ended the system stutters
(`Quiescent`), so the deadlock check stays on and proves that no call is ever
stuck without a step of its own. `ToolGateway` does the same, and `OfflineRuns`
can always start a request or change its catalog. `CHECK_DEADLOCK FALSE` is said
where a bound really stops the model: all runs created (`offline_evaluation`), the
report judged and no write left (`evaluation`), all requests, events, activities
or loops used up (`surroundings`), one command on its way at most and no click
left (`late_trace`). That no request is stuck there is `RequestsEnd` and
`PendingEnds`.

| run | instance | question |
|---|---|---|
| `run_core` | 3 calls, an ungated read without key and a gated write, two decisions, budget 2; 0.6 M states | fencing, budget, gate, denial, trail, reviewed action, replies, and the refinement of `DurableRun` |
| `run_takeover` | 3 calls, keyed read and keyed write, no approvals, budget 2; 1.6 M states | idempotency under takeover, expiry and reclaim |
| `run_live` | 2 calls, as `run_core`, with fairness, no symmetry | every call ends |
| `still_processing` | 2 calls, no failures at all; violation expected | finding 1 |
| `death_strands` | 3 calls, budget 1; violation expected | finding 2 |
| `gateway` | `MCToolGateway`: 3 calls, a write and a read, one key or none, two fault plans, both modes, 2 attempts; 0.4 M states | one effect, truthful traces, and the refinement of `IdempotentKey` |
| `gateway_live` | `MCToolGateway`: 2 calls, one request that fails validation, with fairness, no symmetry | every call ends |
| `offline_runs` | `MCPortableEngine`: two apps, one reviewer, 2 runs driven by hand, 3 transactions per request, two catalogs, with fairness; 69 k states | trace, scenario, writes, every request ends, and the refinement of `DurableRun` |
| `offline_evaluation` | `MCPortableEngine`: two apps, the frozen suite in both modes (12 runs); 34 k states | gradable traces, readable reports, the suite's verdict |
| `evaluation` | `MCEvaluation`: 3 scenarios, 4 and 8 possible contents of two of them, 2 writes, 1 edit; 0.36 M states | evidence, manifest, earned PASS, the two modes |
| `surroundings` | `MCSurroundings`: 2 threads, 1 run, 3 requests, 2 saves; 2 writers, 2 readers, pages of 2, 6 events; 2 runs on the page, 2 commands on their way; 3 activities, 2 servers, 1 connection; sequences of up to 4 of 3 names; 0.19 M states | locks, slot and answers; whole traces; the settled page; servers; graders; every request and command ends |
| `late_trace` | `Dashboard`: 2 runs, 1 command on its way; violation expected | finding 3 |

Why these bounds are enough to be interesting: three calls give an owner, the
call that overtakes it and a third that overtakes or decides after both; two
steps make a decision, a key and a result of an earlier step visible at a later
one; a budget of two is both exceeded and shared between restarts. Calls other
than the starter are interchangeable, which is the symmetry used; `run_live`
does not use it.

For the gateway, two attempts are the default of `max_attempts` and both have a
retry to take and a retry to refuse. One key is enough because no step relates
two keys; three calls on it give an owner, the call that reclaims from it, and
one that meets the result of either, with the same request or the other one.
The two plans of `MCToolGateway` cover a rule hidden by an earlier one and a
write that fails for good on its second attempt.

The offline runs need two apps and no more than one reviewer: a decision by hand
and one by the evaluation are already two. Three transactions per request leave
a run open in the middle of an attempt's retries, so that it is resumed; the
catalogs hold a retried, gated write, a run that gives up and one that runs dry.
The evaluation's three scenarios hold a supplied approval, a permanent failure
and a transient fault; their other contents take the approval away, put a fault
on the gated write, turn the transient fault into none, a permanent one, one
that is never reached or one on a tool the scenario does not call, and let the
actions run out or end with a failure of the policy's own. Two writes change a file and change it back. Edits are
made only to reports of a suite nobody wrote to, which is a bound: each of the
two is explored alone. Stranded runs of an earlier evaluation beside a later one
are beyond `MaxRuns`. Three requests on two threads are the least by which an
entry of the lock table is deleted under a waiting thread and created again;
`SurroundingsProofs` has the general case. A page of two events and two pages reach
a page that is full, one that is not, and a trace that is too long.

Fairness. `LiveSpec` assumes only that a call which has been invoked takes its
own next step when it has one (`WF` of `Advance(c)`): the event loop and the
worker thread keep running while the process lives. Its death is a step of its
own (`Crash`) and ends the call. An awaited policy or tool eventually answers
or raises: the gateway bounds every attempt with a timeout, and the provider
its request. `GiveUp` is part of `Advance`: the polling loop has a deadline.
Nothing is assumed of expiry, heartbeats or of anyone calling again.
`ToolGateway`'s `LiveSpec` assumes the same of its calls: a handler ends because
`_invoke_with_timeout` bounds it, a delay because it is finite.
`PortableEngine`'s `LiveSpec` assumes that a request that holds its app's lock goes
on (it waits for nothing but SQLite, whose busy timeout ends the wait).
`ServiceFairness` assumes the same of a worker thread of the API: its guard and the
locks it waits for are held by threads that go on, and a run or an evaluation
ends, by `CallsReturn`. (Weak fairness is enough: with two threads nobody is
overtaken at a lock forever, as requests are bounded.) `PageFairness` assumes that
a fetch of the page settles, with an answer or an error.

What each property says

* `OwnerIsCurrent` (fencing): a call that holds the lease row, expired or not,
  has the row in hand; hence a stale version is never the reason a save is
  refused.
* `CursorWithinBudget`: steps, policy calls and reserved slots are ordered and
  bounded across crashes, cancellations and takeovers.
* `GatedCallsAreAllowed`: no gated handler is entered without an allowing
  decision for that action at that step.
* `DenialIsObeyed`: the run stays at the denied step, cannot succeed, and no
  handler is entered for it.
* `TrailReplaysRun`: the events alone give a path of the state machine that
  ends in the row's status, checkpoints number the steps without gap, and each
  decision is recorded once, while the run waits for it.
* `ReviewedActionIsKept`, `ApprovalReplyIsSettled`: see the comments above their
  definitions.
* `ImplementsDurableRun`: the tables refine `DurableRun` under the mapping at
  the end of `RunExecution` (status by name, history from the tool results,
  verdicts from the approvals).
* `CheckpointsAreClaimed`, `IndeterminateWritesAreLeft`: what the run carries is what the table
  completed; a completed key, and one marked indeterminate, are never handed out
  again. A claim that expired or was cancelled is handed out again, under the same key
  and so with the same token, when its write may be repeated.
* `CallsReturn`: nobody waits forever.
* `WritesHappenOnce`: the work of a key is done at most once whoever repeats it,
  for the request the key is bound to, and a reported success has an effect.
* `TraceTellsAnswer`: the attempt events of a call explain its answer, stated by
  their positions: starts number the attempts, each is followed by its own end
  before the next, and a next attempt by an announced retry of a transient failure.
* `ImplementsIdempotentKey`: `ToolGateway` refines `IdempotentKey` (the request
  stored with the claim is the binding; a completed claim is the settled key; a
  failed claim is sealed unless it may be retried). The first call that gets the
  claim binds the key, a completion settles it, a failure that may not be
  retried seals it, the return of a call replies; all else stutters.
* `CallsEnd`: retries, delays and foreign claims keep no call forever.
* `TrailExplainsRow`, `RunsItsScenario`, `WritesAreAllowed`: the offline tables
  explain each other: the events are those of the row's cursor, the actions those
  of the scenario the run was made from, the effects those that the trace shows
  after an allowing decision, once per step. `RequestsEnd`: the app's lock is given
  back. `ImplementsDurableRun`: without lease, version or claim the offline run is
  the durable run of the service.
* `TracesAreGradable`, `ReportsStayReadable`, `VerdictOfSuite`: no crash leaves half
  an attempt; a saved report is never spoilt by what clients do to its runs later;
  and it says of the frozen suite what the README promises. The last holds only
  if nobody but the evaluation decided about its runs: a reviewer who denies a
  case through another app, while it is evaluated, changes its verdict.
* `EvidenceIsGenuine`: an accepted report tells what the runs did, in order, though
  an edit rewrote everything derived from the trace. `HonestReportsAreEvidence` is
  the other direction: runner and gate agree on every untouched report.
* `ReportRanItsSuite`, `PassIsEarned`, `ModesDifferByRetriesOnly`: see the comments
  above their definitions. A file that is changed and changed back between the
  parse and the re-read can only alter an approval that no run asks for. Every
  re-read compares, so a report whose frozen content differs from what was parsed
  takes more than `2 * Rechecks` writes, with `Rechecks` the number of re-reads
  (one after every case of either mode and a last one). That bound is part of the property,
  so that it is stated for every `MaxWrites` and not for two only.
* `OneRequestPerRun`, `OneEvaluation`, `AnswersCoverTheirRow`, `RequestsEnd`: the
  locks, the slot, the two reads of an answer, and that exceptions keep nothing.
* `TracesAreWhole`: no reader is refused for a gap, whoever fails while it reads.
* `SettledPageIsWhole`, `PendingEnds`: when nothing is on its way the page shows
  the selected run with its own trace; a pending command ends or is given up.
* `ShownServerRuns`: what a live activity shows is the server that runs, and each
  of its connection slots is free or in use.
* `RowIsLcs`, `UnnecessaryIsFewest`, `PercentileIsLeastCover`: the graders are what
  they are named for, at every pass of the loop and every boundary.

### Findings

1. *A winner that does not exist* (`still_processing`). `approve` records its
   decision while the starter, having just saved WAITING_APPROVAL, still holds
   the lease. The claim conflicts, approve waits for the winner; the starter
   releases and returns. Nobody drives the run; approve polls until its deadline
   and raises "approval decision is still processing". The decision is durable,
   so repeating the approve or resuming the run repairs it. No expiry, crash or
   cancellation is needed.
2. *A dead call's claim fails the run* (`death_strands`). A process dies in a
   keyed handler before the next heartbeat. The run lease, renewed before the
   claim was taken, expires first; the call that takes over finds the claim
   still live, and `idempotency_in_progress` becomes a terminal failure.
3. *A late trace under another run* (`late_trace`). The reload of a trace after an
   approval compares only the run id (`src/web/src/hooks/useRunDetail.ts:29`). The
   user approves A, goes to B, which loads, and back to A: the old reload passes
   the comparison and replaces the events kept for B, and choosing B while A
   still loads shows B with A's trace until B is loaded again.

Two more disagreements that no run checks:

* `useRunDetail.ts:60` reports "loading" whenever its run is not the selected one,
  also after the load failed, so the screen "Run detail unavailable" with its
  button "Try again" (`src/web/src/App.tsx:172`) is never shown after a failed
  first load.
* When the last Android activity finishes while its start task waits for the class
  lock, the clean-up finds no session (`PortableRuntime.java:39`), and `obtain`
  (`:46`), which does not look at `attachedActivities`, then starts a server with
  no activity, although `src/android/README.md:6` says that the server is stopped
  when the last activity finishes.

## 4. Proofs

`RunExecutionProofs` proves, for any set of calls, actions, gated, keyed and
write tools, decisions and any positive budget, from the assumptions
`StoreAssumption` and `ExecutionAssumption` only:

| theorem | statement |
|---|---|
| `Typing` | `Spec => []TypeOK` |
| `Fencing` | `Spec => []OwnerIsCurrent` |
| `Budget` | `Spec => []CursorWithinBudget` |
| `Gate` | `Spec => []GatedCallsAreAllowed` |
| `Finality` | `Spec => TerminalIsFinal` |

They share one inductive invariant, `IInv`, the conjunction of

* `TypeOK`;
* `LocalsOK`: what a call's local variables hold at each place of the code, the
  slots of its snapshot included: an executing call has an action where it
  needs one, a failing call a failure code, an approve call a decided step;
* `FreshOK`: before the run is inserted nothing has happened in its tables;
* `OwnerIsCurrent`: needed by every save, since it turns the guard on the
  version into `snap = row`;
* `SlotsOK`: the budget in terms of the row (steps, policy slots and the policy
  calls in flight);
* `GatedCallsAreAllowed`: together with `LocalsOK` it is inductive because a
  decision, once stored, is never replaced.

TLC also checked `IInv` on the instance of `run_core`. The proof that a step
preserves `IInv` has one lemma per action and conjunct; saves share lemmas
about `SaveRunOwned` and the transactions of the store.

The second half of the module builds on it, from the same two assumptions:

| theorem | statement |
|---|---|
| `Denial` | `Spec => []DenialIsObeyed` |
| `Checkpoints` | `Spec => []CheckpointsAreClaimed` |
| `Reviewed` | `Spec => ReviewedActionIsKept` |
| `Indeterminate` | `Spec => IndeterminateWritesAreLeft` |

None of the four is inductive. `SInv` adds to `IInv`: who holds or completed a claim
entered the handler of its key, and only failed claims have a disposition
(`ClaimsInv`); a call works on the pending action, if there is one, and at the
checkpoint it holds what completed its key (`ActsOK`); a run at work has one result
per step and waits for a gated tool only (`RowInv`); a decided step has the decided
action pending unless the run failed, and only an allowed one is ever left behind
(`ReviewInv`). The argument runs over two lemmas that replace the list of actions by
what it does to the tables: `ClaimMoves`, the ways a claim changes, and `RowMoves`:
the row is inserted, left alone, or changed by one of seven moves of the call that
holds the lease and has the row in hand.

`RunRefinementProofs` proves

| theorem | statement |
|---|---|
| `Refinement` | `Spec => ImplementsDurableRun` |
| `ApprovalReply` | `Spec => ApprovalReplyIsSettled` |
| `AuditTrail` | `Spec => []TrailReplaysRun` |

the first two with one more invariant, `DrivesOK`: who is about to pause a run it owns is at an
undecided step; an approve call has its decision recorded, goes to deny only with a
denial, and holds a run at the decided step or past it, past it or terminal when it
releases without an error. `CursorIsStep` and `HistoryGrows` relate the list of
results to the history of `DurableRun`; each of the seven moves then maps to one of
its actions or to none, a recorded decision to `Decide`, the insertion to `Create`.
TLC checked `SInv` and `DrivesOK` on the instance of `run_core`.

`AuditTrail` needs an invariant about the trail as a whole. `Tells(t, status, n,
steps)` says that the entries of `t` are a path of the state machine to `status`, that
its checkpoints are numbered 0 to n - 1 in order, and that its decisions are of
`steps`, each once; `TrailInv` is `Tells` of the trail, the row's status, the number
of results and the decided steps. One lemma for each kind of entry says how `Tells`
grows by it, and `RowMoves` says which entry a step of the system appends.

`ToolGatewayProofs` proves, for any number of calls, keys, requests, fault plans
and any positive limit on attempts, from `GatewayAssumption` only (the null
values are not real ones, requests that write or are malformed are requests):

| theorem | statement |
|---|---|
| `Typing` | `Spec => []TypeOK` (with the bound on attempts) |
| `WritesOnce` | `Spec => []WritesHappenOnce` |
| `Refinement` | `Spec => ImplementsIdempotentKey` |
| `TraceExplainsAnswer` | `Spec => []TraceTellsAnswer` |

The type invariant holds with the limits on attempts (`Limits`), on which the
counters of a call depend. For the next two, which are not inductive alone, the
invariant, again named `IInv`, adds: the call a
claim names, unless it has crashed, made its request with that key (`OwnerOK`);
a call at work has its key bound to its request, even after it lost the claim
(`BoundOK`); an answer of success is what the table completed the key with
(`AnswerOK`); who is about to report a write has seen its effect (`WorkOK`); and
effects are filed under their key and exist for every completed write
(`EffectsOK`). Its proof rests on `Steady`, the four things no step may do to
the claim table: rebind a key, touch a completed claim, hand a claim to anybody
but the call that asks, complete one without a success. Every action is shown to
be steady, and a steady step of one call cannot disturb another (`Bystanders`).
The refinement maps each move of the claim table to one step of `IdempotentKey`.
TLC checked this invariant too, on the instance of `gateway`.

`TraceExplainsAnswer` rests on `Told`, which gives each call an `Account` of its log:
how many attempts it shows as begun and as ended at each place of the code, that a
call about to try again was promised the retry and one past its attempts was not,
and that its answer counts them. Each action changes the account of one call by at
most one event; `Within` is the limit on attempts of the mode.

`PortableEngineProofs` proves, for any number of apps and runs, any catalogs, batch
and loop bound, from the assumptions of `PortableEngine`:

| theorem | statement |
|---|---|
| `Invariant` | `Spec => []EngineInv` (with the types of all tables and requests) |
| `TraceExplainsRun` | `Spec => []TrailExplainsRow` |
| `ScenarioIsKept` | `Spec => []RunsItsScenario` |
| `OnlyAllowedWrites` | `Spec => []WritesAreAllowed` |
| `TracesStayGradable` | `Spec => []TracesAreGradable` |
| `SettledIsFinal` | `Spec => SettledRunsStay` |
| `EvaluationsStayGood` | `Spec => []EvaluationsStand` |
| `ReportsRemain` | `Spec => []((\A k \in DOMAIN evaluations : RanInFull(evaluations[k])) => ReportsStayReadable)` |
| `EngineKeepsPromise` | `Spec => ImplementsDurableRun` |

None of these properties of a trace is inductive: what the next transaction appends
depends on the row, the decisions and what was done, and all four change together.
`RunInv` relates the four tables of one run: the path of its statuses, the numbers of
announced, begun, ended and completed steps against its cursor, a decision for every
effect, and a trace that says nothing yet of the attempt to come. Events are counted
by the sets of their positions (`Idx`), which a block appended at the end extends, and
not by filtering, which would be a recursion. A request writes one run at a time, so
the lemmas about a transaction speak of one row and its trace. `SettledRunsStay` (no
request, under no package, writes a run that has ended) and `EvaluationsStand` (a saved
evaluation cites one run for each case of the suite, in order, and the evidence of
each that had ended is what its row and trace still say, attempts complete) are the
two reasons why reports stay readable; `BatchHolds` is what an evaluation on its way
has got ready for the second. They are stated beside their proofs and have no run.

`ReportsRemain` puts them together. `RanInFull` says of the evidence in an evaluation,
as it was when it was saved, that each run had ended and that its trace shows every
fault its suite declares. It is about what was saved, not about the moment, and it
cannot be dropped: whether a scenario meets its faults and supplies its approval is
data of the suite. (TLC finds that it holds of all that the frozen suite saves, in
`offline_evaluation`.) From there on the report stays readable: its evidence is
unchanged and complete, and by the order of the references (`CasesCover`) it covers
the suite in both modes.

`EngineKeepsPromise` is the refinement: the offline engine keeps the promise of
`DurableRun` that `RunRefinementProofs` shows of the server's executor. By `EngineInv`
the abstract history and verdicts, which the mapping reads off the trace and the
decisions, are functions of the row and the decisions (`View`); every transaction is
one of a few moves of that row (`Move`), and every move is a step of `DurableRun` or a
stutter.

`EvaluationProofs` proves, for any suite, any contents of its files and any number of
writes to them, from `EvaluationAssumption` only (the suite is not empty and names
different files, and a file holds a scenario):

| theorem | statement |
|---|---|
| `ReportsRanTheirSuite` | `Spec => []ReportRanItsSuite` |
| `OnlyRetriesDiffer` | `Spec => []ModesDifferByRetriesOnly` |

`EvaluationInv` is the conjunction of `StageInv` (what each stage of an evaluation has
got ready), `ReadsInv`, `ListingInv` and `TornInv` (which count the writes: `Since(n, v, w)`
says that w writes were made when file n was read as v, and that one more was made
if it holds something else), `CasesInv` and `ReportInv`. An entry of the manifest that was
torn, parsed as one thing and hashed as another, passes a comparison only if the file
is changed back for the parse and away again for the hash, two writes each time;
`TornAt` counts them through every stage of every re-read.

The second property compares two runs that are not in one state: the fragile case is
closed long before the resilient one begins. `FragileInv` therefore keeps, for every
fragile case, a `Path`: the states its run and trace went through, each of which
`Follow`s from the one before by functions of the loaded scenario alone (`NextRun`,
`NextTrace`). `ResilientInv` says that the resilient run is at a state of that path, or
the fragile one is lost at a transient fault (`Lost`). The two step functions agree
except at `Parting`, a transient failure that only resilient mode tries again, and
there the fragile run fails (`FragileFails`).

`EvidenceProofs` proves what the gate makes of a report, from the same assumption and
the action tables of the frozen suite (`FrozenActions`), which the gate has built in:

| theorem | statement |
|---|---|
| `HonestReportsAreTaken` | `Spec => []HonestReportsAreEvidence` |
| `PassesAreEarned` | `Spec => [](~Edited \/ EvidenceIsGenuine => PassIsEarned)` |
| `AcceptedTracesAreLawful` | `Spec => []AcceptedIsLawful` |

* The gate reads a trace event by event and the runner filters it. That the two agree
  is `Honest`: where a run is, how far the reader (`Read`) has come with the events
  written so far, and what it has collected, approvals and their resumption included
  (`Cycles`). Every step of a run keeps it (`HonestStep` and a lemma for each kind of
  step), and at its end the claims are equal and every check of `CaseIntact` passes.
  `EvidenceInv` carries this through the two passes over an untouched suite.
* A pass is stated over sums of counters, and `PassIsEarned` over what the runs did.
  `GradedInv` relates each counter to the faults of its scenario one by one, through
  the bijection that `SameFaults` promises (`FaultsCounted`), and `WrittenInv` says that
  the report lists the cases of its manifest. Of an edited report the theorem takes
  `EvidenceIsGenuine` as a hypothesis: the edits that got through changed no claim.
* `AcceptedIsLawful` is about any accepted report, with any number of edits by one who
  rewrites all that is derived from a trace: the trace of each case has no start of a
  gated call before the reviewer approved that very action, and no call that
  succeeded twice. `Heard` says of any trace what the reader has listed of its first k
  events (`Recorded` approvals, `Begun` starts, `Performed` attempts), and `LawfulTrace`
  draws the conclusion from the checks that follow. It has no run of its own; TLC
  checked it on the instance of `evaluation`, where letting the events of an approval
  come in any order breaks it.

`GradingProofs` holds what these and the next module need of the graders, for sequences
of any length. The theorems of the library on induction take an operator as a
parameter, which no installed prover instantiates, so induction is done over sets:
a set that holds 0 and with every number the next holds them all (`Induct`), and a
recursion over the numbers up to m has a solution (`Recursion`), which is what a
recursive function or a fold denotes.

`SurroundingsProofs` proves, for any number of threads, runs, entries, writers, readers,
pages of any size, activities, connections, slots and servers, and any inputs of the
graders:

| theorem | statement |
|---|---|
| `RunsAreSerial` | `ServiceSpec => []OneRequestPerRun` |
| `TableIsInUse` | `ServiceSpec => []EntriesAreInUse` |
| `EvaluationsAreSerial` | `ServiceSpec => []OneEvaluation` |
| `AnswersCover` | `ServiceSpec => []AnswersCoverTheirRow` |
| `Whole` | `TraceSpec => []TracesAreWhole` |
| `ShownIsServed` | `ShellSpec => []ShownServerRuns` |
| `SettledIsWhole` | `PageSpec => []SettledPageIsWhole` |
| `LoopFindsLongest` | `GradingSpec => []RowIsLcs` |
| `UnnecessaryCallsAreFewest` | `GradingSpec => []UnnecessaryIsFewest` |
| `PercentilesAreLeast` | `GradingSpec => []PercentileIsLeastCover` |

* API: `LocksInv` says who holds the guard, that an entry's count is the number of its
  registered threads, that a registered thread's entry is the one in the table
  under its run, and who holds each entry's lock; hence the lock of a run is one
  lock as long as anybody uses it. `PermitInv` counts the evaluations by cardinality,
  `AnswersInv` orders what a thread did, the row, what it read of it, and the
  attempts.
* Trace pages: `WholeInv` says that the events stored are 1 up to the counter, the open
  batch goes on from there, and a reader has loaded 1 up to its cursor; `PageOf`
  computes a page and both answers to "more".
* Android: `CountInv` says that `attached` is the number of live activities, so the
  session ends only when none is left; `SessionInv` that a live activity has obtained
  the server that runs, or none; `SlotInv` that free slots and open connections of
  a server add up to its slots.
* Dashboard: `LoadsInv` says that a load that counts is one of the run the hook is at,
  `HookInv` that the hook is at the selected run unless its effect is due; `KnownInv`
  types the list of runs and the selection.
* Graders: a pass of the loop keeps its row the longest common subsequence of what it
  has seen (`NextRowIsLongest`); the calls in excess are counted tool by tool
  (`ByToolCounts`) and are as few as one can take away (`FewestAreEnough`), and no
  match is among them (`MatchesAreNeeded`); a percentile takes that ranks sort
  (`SortedByRank`).

Only model-checked:

* liveness (`CallsReturn`, `CallsEnd`, `RequestsEnd`, `PendingEnds`), which is out of reach
  of the prover;
* `EvidenceIsGenuine`: that one edit which the gate accepts leaves each claim and the
  story of each trace as they were. It does not hold of two: one can take an event away
  and the other put a copy in its place that another caller would have written (its
  span), which the gate looks at in the events of an attempt only. So it is no
  consequence of what the reader has listed, but of how far one edit reaches. What is
  proved, for any number of edits, is `AcceptedTracesAreLawful`;
* `VerdictOfSuite`, which is about the data of the built-in suite: it follows from its six
  scenarios in two modes, and from nothing more general;
* of `ReportsStayReadable`, that the frozen suite meets its faults (`RanInFull`).

## 5. Not modelled

The parts listed as `not_modelled` in `PROJECT.json`: configuration, CLI, scenario
parsing, build and CI have no running state of interest. Of the parts listed as
`partly`:

* redaction, digests, message and notice texts, latencies and provenance; hence
  also that a notice of the dashboard says "could not be recorded" when only the
  reload of the trace failed;
* request parsing, schemas and routing of both servers, the session cookie, static
  files, the desktop window;
* `record_approval` and `save_run` with an expected version, which no runtime path
  of the service uses; rows of evaluation reports;
* the comparison of a report with a baseline, and the identifiers and times of
  events in the gate;
* `useOverview`, the evaluation button and the components that only render;
* in the Android shell, errors of `stop`, the branch for an invalid cookie, the
  death of the process, file pickers and staged files;
* an A, B, A change of the selection may also show an older trace of the same run,
  which no property speaks about.

## 6. Plan

Done: the runtime (`RunStore`, `ToolClaims`, `RunExecution`, `DurableRun`), the
gateway (`ToolGateway`, `IdempotentKey`), the evaluation (`TraceGate`, `ReportGate`,
`EvaluationRunner`, `Grading`), the offline engine (`PortableEngine`,
`PortableReport`), the parts around them, and proofs of all of them. Left, in this
order:

1. `EvidenceIsGenuine` for one edit: by cases on the event that was lost, moved or
   repeated, with the `Heard` of the trace up to that event.
2. That one call of `ToolGateway` refines the two handler steps of `RunExecution`.
3. The comparison of two evaluation reports (`gate.py`, baseline).
