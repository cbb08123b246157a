-------------------------- MODULE EvaluationRunner --------------------------
(***************************************************************************)
(* run_evaluation (evaluation/runner.py): freeze a manifest of the suite   *)
(* directory, load the scenarios, run every case in both modes on a store  *)
(* of its own, grade each from its trace, and check after every case that  *)
(* the directory still holds what was frozen.  A case is a run of the      *)
(* scripted policy that nothing interrupts; here its trace is written      *)
(* event by event as DurableOrchestrator.execute and ToolGateway.call do.  *)
(* The report then goes to the gate of ReportGate.                         *)
(*                                                                         *)
(* Outside the program, somebody may write the scenario files while the    *)
(* suite runs, and the report may be edited before the gate reads it: an   *)
(* event of one case lost, moved, repeated or recorded by a second worker, *)
(* with everything the report derives from it rewritten to match.          *)
(*                                                                         *)
(* An operator introduced by "Mutation:" is used by no definition; it is   *)
(* the definition that follows it with a mistake in it.                    *)
(***************************************************************************)
EXTENDS ReportGate

CONSTANTS
  Suite,     \* the scenario ids, in the order of their paths
  Contents,  \* what the file of each scenario may hold
  MaxWrites, \* bound on writes to the suite directory
  MaxEdits   \* bound on edits of the report

\* What load_scenario makes of a file.
ScenarioFiles ==
  [actions : Seq([type : {"call_tool", "finish", "fail"}, tool : STRING,
                  valid : BOOLEAN, result : STRING]),
   faults : SUBSET [tool : STRING, attempt : Nat \ {0},
                    type : DOMAIN FaultFailure],
   supplied : BOOLEAN, expected : STRING, sequence : Seq(STRING)]

ASSUME EvaluationAssumption ==
  /\ Suite \in Seq(DOMAIN Contents) /\ Suite # <<>>
  /\ \A i, j \in DOMAIN Suite : Suite[i] = Suite[j] => i = j
  /\ \A n \in DOMAIN Contents : Contents[n] \subseteq ScenarioFiles
  /\ MaxWrites \in Nat /\ MaxEdits \in Nat

VARIABLES
  disk,     \* the scenario files
  pc,       \* where run_evaluation is
  building, \* the manifest being read: what was parsed and what was hashed
  manifest, \* the manifest that was frozen
  loaded,   \* the scenarios that run
  cases,    \* the graded cases of each mode
  run,      \* the run of the case under way
  trace,    \* its evidence events
  report,   \* the report, possibly edited
  writes, edits

suiteVars == <<building, manifest, loaded>>

caseVars == <<run, trace>>

reportVars == <<report, edits>>

vars == <<disk, pc, suiteVars, cases, caseVars, reportVars, writes>>

NoStep == -1

\* approved is the step whose action was approved; before counts the writes
\* there were by then.
NoRun ==
  [status |-> "queued", at |-> "enter", step |-> 0, attempt |-> 0,
   context |-> <<>>, code |-> "none", approved |-> NoStep, effects |-> 0,
   before |-> 0]

NoReport == [hash |-> <<>>]

Edited == edits > 0

Init ==
  /\ disk \in [DOMAIN Contents -> UNION {Contents[n] : n \in DOMAIN Contents}]
  /\ \A n \in DOMAIN Contents : disk[n] \in Contents[n]
  /\ pc = "manifest"
  /\ building = <<>> /\ manifest = <<>> /\ loaded = <<>>
  /\ cases = [m \in Modes |-> <<>>]
  /\ run = NoRun /\ trace = <<>>
  /\ report = NoReport
  /\ writes = 0 /\ edits = 0

-----------------------------------------------------------------------------
(* The suite directory *)

Unread == [unread |-> TRUE]

Unhashed == building # <<>> /\ Last(building).sha = Unread

\* _declared_fault_evidence: the entry of a scenario names a step for each fault.
Listable(scenario) == \A f \in scenario.faults : Targets(scenario, f) # {}

\* build_suite_manifest parses each file and then reads its bytes again.
ReadScenario ==
  /\ pc \in {"manifest", "recheck", "final"}
  /\ Len(building) < Len(Suite) /\ ~Unhashed
  /\ LET n == Suite[Len(building) + 1]
     IN  IF Listable(disk[n])
         THEN /\ building' = Append(building, [id |-> n, content |-> disk[n],
                                               sha |-> Unread])
              /\ UNCHANGED pc
         ELSE pc' = "error" /\ UNCHANGED building
  /\ UNCHANGED <<disk, manifest, loaded, cases, caseVars, reportVars, writes>>

HashScenario ==
  /\ Unhashed
  /\ building' = [building EXCEPT ![Len(building)].sha =
                    disk[building[Len(building)].id]]
  /\ UNCHANGED <<disk, pc, manifest, loaded, cases, caseVars, reportVars, writes>>

Complete == Len(building) = Len(Suite) /\ ~Unhashed

\* _validate_supported_frozen_suite
Supported(entries) ==
  \A i \in DOMAIN entries :
    /\ entries[i].id \in FrozenNames
    /\ entries[i].content.actions = FrozenActions[entries[i].id]

Freeze ==
  /\ pc = "manifest" /\ Complete
  /\ manifest' = building
  /\ building' = <<>>
  /\ pc' = IF Supported(building) THEN "load" ELSE "error"
  /\ UNCHANGED <<disk, loaded, cases, caseVars, reportVars, writes>>

\* _validate_fault_targets: one action per rule, and reachable in fragile mode.
Runnable(scenario) ==
  \A f \in scenario.faults :
    Cardinality(Targets(scenario, f)) = 1 /\ f.attempt = 1

LoadScenario ==
  /\ pc = "load" /\ Len(loaded) < Len(Suite)
  /\ loaded' = Append(loaded, disk[Suite[Len(loaded) + 1]])
  /\ UNCHANGED <<disk, pc, building, manifest, cases, caseVars, reportVars,
                 writes>>

Loaded ==
  /\ pc = "load" /\ Len(loaded) = Len(Suite)
  /\ pc' = IF \A i \in DOMAIN loaded : Runnable(loaded[i]) THEN "case"
           ELSE "error"
  /\ UNCHANGED <<disk, suiteVars, cases, caseVars, reportVars, writes>>

\* Mutation: the manifest is not read again.
Unchecked ==
  /\ pc \in {"recheck", "final"}
  /\ building' = <<>>
  /\ pc' = IF pc = "final" THEN "report"
           ELSE IF \A m \in Modes : Len(cases[m]) = Len(Suite) THEN "final"
           ELSE "case"
  /\ UNCHANGED <<disk, manifest, loaded, cases, caseVars, reportVars, writes>>

\* _assert_suite_unchanged, after every case and once more after the last.
Recheck ==
  /\ pc \in {"recheck", "final"} /\ Complete
  /\ building' = <<>>
  /\ pc' = IF building # manifest THEN "error"
           ELSE IF pc = "final" THEN "report"
           ELSE IF \A m \in Modes : Len(cases[m]) = Len(Suite) THEN "final"
           ELSE "case"
  /\ UNCHANGED <<disk, manifest, loaded, cases, caseVars, reportVars, writes>>

-----------------------------------------------------------------------------
(* One case *)

Mode == IF Len(cases["fragile"]) < Len(Suite) THEN "fragile" ELSE "resilient"

Entry == manifest[Len(cases[Mode]) + 1]

Scenario == loaded[Len(cases[Mode]) + 1]

Action == ActionAt(Scenario.actions, run.step)

Here(type, data) == Event(type, run.step, Action.tool, 0, 0, data)

InAttemptEvent(type, data) ==
  Event(type, run.step, Action.tool, run.attempt, 0, data)

Logged(events) == trace' = trace \o events

Drive(at) == pc = "drive" /\ run.at = at

OfCase == UNCHANGED <<disk, pc, suiteVars, cases, reportVars, writes>>

OpenCase ==
  /\ pc = "case"
  /\ run' = NoRun /\ trace' = <<>>
  /\ pc' = "drive"
  /\ UNCHANGED <<disk, suiteVars, cases, reportVars, writes>>

\* execute: the run is running, from queued or from waiting for approval.
Enter ==
  /\ Drive("enter")
  /\ run' = [run EXCEPT !.status = "running", !.at = "propose"]
  /\ Logged(<<Event("run.running", -1, "none", 0, 0, run.status)>>)
  /\ OfCase

\* The policy has no action for the step.
Exhaust ==
  /\ Drive("propose") /\ Action = NoAction
  /\ run' = [run EXCEPT !.at = "fail", !.code = "policy_error"]
  /\ UNCHANGED trace /\ OfCase

Propose ==
  /\ Drive("propose") /\ Action # NoAction
  /\ run' = [run EXCEPT !.at = "dispatch"]
  /\ Logged(<<Here("policy.action", Action)>>)
  /\ OfCase

Finish ==
  /\ Drive("dispatch") /\ Action.type = "finish"
  /\ run' = [run EXCEPT !.status = "succeeded", !.code = Action.result,
                        !.at = "stopped"]
  /\ Logged(<<Event("run.succeeded", -1, "none", 0, 0, Action.result)>>)
  /\ OfCase

\* The scenario says to fail.
GiveUp ==
  /\ Drive("dispatch") /\ Action.type = "fail"
  /\ run' = [run EXCEPT !.at = "fail", !.code = Action.result]
  /\ UNCHANGED trace /\ OfCase

\* preflight refuses the arguments of a call before anything else.
Refuse ==
  /\ Drive("dispatch") /\ Action.type = "call_tool" /\ ~Action.valid
  /\ run' = [run EXCEPT !.at = "fail", !.code = "invalid_input"]
  /\ Logged(<<Here("tool.preflight.failed", "invalid_input")>>)
  /\ OfCase

MustWait == RequiresApproval(Action) /\ run.approved # run.step

Wait ==
  /\ Drive("dispatch") /\ Action.type = "call_tool" /\ Action.valid /\ MustWait
  /\ run' = [run EXCEPT !.status = "waiting_approval", !.at = "stopped"]
  /\ Logged(<<Here("run.waiting_approval", Action)>>)
  /\ OfCase

StartCall ==
  /\ Drive("dispatch") /\ Action.type = "call_tool" /\ Action.valid /\ ~MustWait
  /\ run' = [run EXCEPT !.at = "attempt", !.attempt = 1]
  /\ UNCHANGED trace /\ OfCase

\* fault_for: the first rule that matches.  (The rules of a scenario are a set
\* here; which of them comes first is the same whenever it is asked.)
FaultAt(scenario, r) ==
  LET matching == {f \in scenario.faults :
                     /\ f.tool = ActionAt(scenario.actions, r.step).tool
                     /\ f.attempt = r.attempt}
  IN  IF matching = {} THEN "none" ELSE (CHOOSE f \in matching : TRUE).type

FaultNow == FaultAt(Scenario, run)

\* The events of one failing attempt: a malformed output is injected, and
\* then rejected by the tool's output model.
FailingAttempt(type) ==
  <<InAttemptEvent("tool.attempt.started", "none"),
    InAttemptEvent("fault.injected", type)>>
  \o (IF type = "malformed_output"
      THEN <<InAttemptEvent("tool.output.validation_failed", "none")>>
      ELSE <<>>)
  \o <<InAttemptEvent("tool.attempt.failed", FaultFailure[type])>>

Attempted ==
  /\ Drive("attempt") /\ FaultNow # "none"
  /\ LET failure == FaultFailure[FaultNow]
         retry == failure.transient /\ run.attempt < AttemptLimit(Mode)
     IN  /\ Logged(FailingAttempt(FaultNow))
         /\ run' = IF retry THEN [run EXCEPT !.attempt = @ + 1]
                   ELSE [run EXCEPT !.at = "fail", !.code = failure.code]
  /\ OfCase

Succeed ==
  /\ Drive("attempt") /\ FaultNow = "none"
  /\ Logged(<<InAttemptEvent("tool.attempt.started", "none"),
              InAttemptEvent("tool.attempt.succeeded", Output(Action))>>)
  /\ run' = [run EXCEPT
               !.at = "checkpoint",
               !.effects = IF IsWrite(Action) THEN @ + 1 ELSE @]
  /\ OfCase

Checkpoint ==
  /\ Drive("checkpoint")
  /\ LET context == Append(run.context, [step |-> run.step, tool |-> Action.tool,
                                         output |-> Output(Action)])
     IN  /\ run' = [run EXCEPT !.at = "propose", !.step = @ + 1, !.attempt = 0,
                               !.context = context]
         /\ Logged(<<InAttemptEvent("run.checkpointed",
                                    [output |-> Output(Action),
                                     context |-> context])>>)
  /\ OfCase

Fail ==
  /\ Drive("fail")
  /\ run' = [run EXCEPT !.status = "failed", !.at = "stopped"]
  /\ Logged(<<Event("run.failed", -1, "none", 0, 0, run.code)>>)
  /\ OfCase

Waiting == Drive("stopped") /\ run.status = "waiting_approval"

Allowed(r) == r.approved # NoStep

\* _run_case: a run that waits is approved on a rebuilt service, once, if the
\* suite supplies the approval.
Approvable == Waiting /\ Scenario.supplied /\ ~Allowed(run)

Approve ==
  /\ Approvable
  /\ run' = [run EXCEPT !.at = "enter", !.approved = run.step,
                        !.before = run.effects]
  /\ Logged(<<Here("approval.recorded",
                   [action |-> Action, actor |-> Reviewer, allow |-> TRUE])>>)
  /\ OfCase

-----------------------------------------------------------------------------
(* Grading *)

OfType(events, types) ==
  Picked(events, {i \in DOMAIN events : events[i].type \in types})

\* _logical_tool_sequence: the tool of each step that calls one, by step.
LogicalTools(events) ==
  LET calls == {e \in ToSet(events) : /\ e.type = "policy.action"
                                      /\ e.data.type = "call_tool"}
  IN  [i \in 1..Cardinality({e.step : e \in calls}) |->
         (CHOOSE e \in calls : e.step = i - 1).tool]

\* The claims of _grade_case: filtered from the events, and read off the run.
Claims(r, events) ==
  LET ends == OfType(events, {"tool.attempt.failed", "tool.attempt.succeeded"})
      injected == OfType(events, {"fault.injected"})
      rejected == OfType(events, {"tool.output.validation_failed"})
  IN  [readable |-> TRUE, actual |-> LogicalTools(events),
       attempts |-> [i \in DOMAIN ends |-> Attempt(ends[i])],
       faults |-> [i \in DOMAIN injected |-> FaultEvidence(injected[i])],
       invalid |-> [i \in DOMAIN rejected |-> Identity(rejected[i])],
       accepted |-> r.context, status |-> r.status,
       result |-> IF r.status \in {"succeeded", "failed"} THEN r.code
                  ELSE r.status,
       approved |-> Allowed(r)]

\* Every attempt that started ended, and what was injected is what the
\* scenario declares; an approved write happened once.
Gradable ==
  LET claims == Claims(run, trace)
      started == OfType(trace, {"tool.attempt.started"})
  IN  /\ SameFaults(Declared(Scenario), claims.faults)
      /\ Len(started) = Len(claims.attempts)
      /\ {Identity(e) : e \in ToSet(started)}
           = {Identity(a) : a \in ToSet(claims.attempts)}
      /\ claims.approved => run.before = 0 /\ run.effects = 1

Case ==
  LET claims == Claims(run, trace)
  IN  [id |-> Entry.id, sha |-> Entry.sha, mode |-> Mode, trace |-> trace,
       claims |-> claims, ran |-> Scenario, counts |-> Counted(claims, Scenario),
       writesBefore |-> run.before, writes |-> run.effects]

CloseCase ==
  /\ Drive("stopped") /\ ~Approvable
  /\ IF Gradable
     THEN /\ cases' = [cases EXCEPT ![Mode] = Append(@, Case)]
          /\ pc' = "recheck"
     ELSE UNCHANGED cases /\ pc' = "error"
  /\ UNCHANGED <<disk, suiteVars, caseVars, reportVars, writes>>

WriteReport ==
  /\ pc = "report"
  /\ report' = Report(manifest, cases)
  /\ pc' = "gate"
  /\ UNCHANGED <<disk, suiteVars, cases, caseVars, edits, writes>>

EnforceGate ==
  /\ pc = "gate"
  /\ pc' = "done"
  /\ UNCHANGED <<disk, suiteVars, cases, caseVars, reportVars, writes>>

\* What the gate said.
verdict == IF pc = "done" THEN Verdict(report) ELSE "none"

-----------------------------------------------------------------------------
(* The environment *)

\* A scenario file is written while the evaluation runs.
WriteFile(n) ==
  /\ pc \notin {"report", "gate", "done", "error"} /\ writes < MaxWrites
  /\ disk' \in {[disk EXCEPT ![n] = c] : c \in Contents[n] \ {disk[n]}}
  /\ writes' = writes + 1
  /\ UNCHANGED <<pc, suiteVars, cases, caseVars, reportVars>>

\* One event lost, moved, or repeated by this worker or another.
EditsOf(events) ==
  LET lost(i) == RemoveAt(events, i)
      copies(i) == {[events[i] EXCEPT !.span = s] : s \in {0, 1}}
  IN  UNION {{lost(i)} \cup {InsertAt(lost(i), j, events[i]) : j \in DOMAIN events}
             \cup {InsertAt(events, j, e) : j \in 1..(Len(events) + 1),
                                          e \in copies(i)} : i \in DOMAIN events}
             \ {events}

\* The case with other evidence, and all it says of it changed to match.
Rewritten(case, events) ==
  LET claims == TraceClaims(events, case.mode, case.ran)
  IN  IF claims.readable
      THEN [case EXCEPT !.trace = events, !.claims = claims,
                        !.counts = Counted(claims, case.ran)]
      ELSE [case EXCEPT !.trace = events]

CasesOf(r) ==
  [fragile |-> r.modes.fragile.cases, resilient |-> r.modes.resilient.cases]

\* (That the suite is not written to as well is a bound of the model.)
EditReport ==
  /\ pc = "gate" /\ edits < MaxEdits /\ writes = 0
  /\ \E m \in Modes : \E i \in DOMAIN Suite :
       LET stated == CasesOf(report)
       IN  \E case \in {Rewritten(stated[m][i], events) :
                          events \in EditsOf(stated[m][i].trace)} :
             report' = Report(report.manifest, [stated EXCEPT ![m][i] = case])
  /\ edits' = edits + 1
  /\ UNCHANGED <<disk, pc, suiteVars, cases, caseVars, writes>>

-----------------------------------------------------------------------------

Evaluate ==
  \/ ReadScenario \/ HashScenario \/ Freeze \/ LoadScenario \/ Loaded \/ Recheck
  \/ OpenCase \/ Enter \/ Exhaust \/ Propose \/ Finish \/ GiveUp \/ Refuse
  \/ Wait \/ StartCall
  \/ Attempted \/ Succeed \/ Checkpoint \/ Fail \/ Approve \/ CloseCase
  \/ WriteReport \/ EnforceGate

Next ==
  \/ Evaluate
  \/ \E n \in DOMAIN Contents : WriteFile(n)
  \/ EditReport

Spec == Init /\ [][Next]_vars

-----------------------------------------------------------------------------
(* Properties *)

Rechecks == 2 * Len(Suite) + 1

Accepted == verdict \in {"passed", "failed"}

\* The events whose order tells the story of a run: all but the notice that a
\* queued run runs, and the rejection of an output, which may come before or
\* after the fault that caused it.
Story(events) ==
  SelectSeq(events, LAMBDA e : /\ e.type # "tool.output.validation_failed"
                               /\ ~(e.type = "run.running" /\ e.data = "queued"))

\* A report the gate takes as evidence tells of every case what its run did, in
\* the order it did it: the gate sees it when an event was lost, moved,
\* repeated or recorded by a second worker, though the rest of the report was
\* rewritten to match.
EvidenceIsGenuine ==
  Accepted =>
    \A m \in Modes : \A i \in DOMAIN Suite :
      LET stated == report.modes[m].cases[i]
      IN  /\ stated.claims = cases[m][i].claims
          /\ stated.counts = cases[m][i].counts
          /\ Story(stated.trace) = Story(cases[m][i].trace)

\* The gate rebuilds from the trace what the runner filtered from it: a report
\* of an untouched suite that nobody edited is never an infrastructure error,
\* unless a run was left waiting for an approval the suite does not supply.
HonestReportsAreEvidence ==
  verdict = "rejected" /\ ~Edited /\ writes = 0 =>
    \E m \in Modes : \E i \in DOMAIN Suite :
      cases[m][i].claims.status = "waiting_approval"

\* PASS means that the resilient runs reached the expected result in four
\* cases of five and got over three injected transient faults of four, and
\* that there were some.
PassIsEarned ==
  verdict = "passed" =>
    LET runs == cases["resilient"]
        solved == {i \in DOMAIN Suite : runs[i].claims.result = loaded[i].expected}
        faults == UNION {{<<i, f>> : f \in {g \in loaded[i].faults :
                                               g.type \in Transient}} :
                           i \in DOMAIN Suite}
        overcome == {p \in faults :
                       /\ p[1] \in solved
                       /\ \E a \in ToSet(runs[p[1]].claims.attempts) :
                            /\ a.tool = p[2].tool /\ a.status = "succeeded"
                            /\ a.attempt > p[2].attempt}
    IN  /\ 5 * Cardinality(solved) >= 4 * Len(Suite)
        /\ faults # {}
        /\ 4 * Cardinality(overcome) >= 3 * Cardinality(faults)

\* Whatever is written to the directory meanwhile, a report the gate takes ran
\* the scenarios its manifest lists; only an approval that no run asked for may
\* differ.  The manifest lists the bytes they were parsed from, unless the file
\* was written between the two reads of the manifest, and twice more during
\* each of the rechecks, of which there is one after every case and a last.
ReportRanItsSuite ==
  Accepted =>
    \A i \in DOMAIN Suite :
      LET listed == manifest[i].content
      IN  /\ manifest[i].sha # listed => writes > 2 * Rechecks
          /\ loaded[i] = [listed EXCEPT !.supplied = loaded[i].supplied]
          /\ \A m \in Modes :
               cases[m][i].claims.approved => loaded[i].supplied = listed.supplied

\* Only retries tell the modes apart: where no transient fault was injected
\* both modes end alike, and a case that resilient mode lost, fragile mode
\* lost too.
ModesDifferByRetriesOnly ==
  \A i \in DOMAIN cases["resilient"] :
    LET f == cases["fragile"][i].claims
        r == cases["resilient"][i].claims
    IN  /\ (\A j \in DOMAIN f.faults : f.faults[j].type \notin Transient) => f = r
        /\ r.status = "failed" => f.status = "failed"

=============================================================================
