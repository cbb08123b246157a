--------------------------- MODULE PortableReport ---------------------------
(***************************************************************************)
(* What the offline engine computes from its tables: the case of a run and *)
(* the report of an evaluation, derived from the traces each time it is    *)
(* read.  A report is answered only while the evidence it cites is         *)
(* unchanged and complete; otherwise the request, and with it the whole    *)
(* list of evaluations, is refused as evidence_invalid.                    *)
(***************************************************************************)
EXTENDS PortableEngine, Grading

-----------------------------------------------------------------------------
(* _case *)

Identity(e) == [step |-> e.step, tool |-> e.action.tool, attempt |-> e.attempt]

\* The events of some types as a multiset of identities.
Identities(r, types) ==
  [i \in Indices(r, types) |-> Identity(events[r][i])]

Occurs(bag, x) == Cardinality({i \in DOMAIN bag : bag[i] = x})

SameBag(b, c) ==
  \A x \in {b[i] : i \in DOMAIN b} \cup {c[i] : i \in DOMAIN c} :
    Occurs(b, x) = Occurs(c, x)

\* Every attempt that started ended once, and no attempt started twice.
AttemptsComplete(r) ==
  LET started == Identities(r, {"tool.attempt.started"})
      ended == Identities(r, {"tool.attempt.succeeded", "tool.attempt.failed"})
  IN  /\ SameBag(started, ended)
      /\ \A i, j \in DOMAIN started : started[i] = started[j] => i = j

FaultsSeen(r) ==
  [i \in Indices(r, {"fault.injected"}) |->
     [tool |-> events[r][i].action.tool, attempt |-> events[r][i].attempt,
      type |-> events[r][i].code]]

FaultsComplete(r) ==
  LET seen == FaultsSeen(r)
      declared == catalog[rows[r].scenario].faults
  IN  /\ {seen[i] : i \in DOMAIN seen} = declared
      /\ Cardinality(DOMAIN seen) = Cardinality(declared)

Outcome(r) ==
  IF rows[r].result = "none" THEN rows[r].status ELSE rows[r].result

Correct(r) == Outcome(r) = catalog[rows[r].scenario].expected

ToolsCalled(r) ==
  LET calls == SelectSeq(events[r], LAMBDA e : e.type = "policy.action"
                                               /\ e.action.type = "call_tool")
  IN  [i \in DOMAIN calls |-> calls[i].action.tool]

\* The transient faults after which the same call succeeded, in a correct run.
Recovered(r) ==
  {i \in Indices(r, {"fault.injected"}) :
     /\ events[r][i].code \in TransientKinds /\ Correct(r)
     /\ \E j \in Indices(r, {"tool.attempt.succeeded"}) :
          /\ events[r][j].step = events[r][i].step
          /\ events[r][j].action.tool = events[r][i].action.tool
          /\ events[r][j].attempt > events[r][i].attempt}

RetriesOf(r) ==
  LET starts == Indices(r, {"tool.attempt.started"})
  IN  Cardinality(starts) - Cardinality({events[r][i].step : i \in starts})

CaseOf(r) ==
  LET expected == catalog[rows[r].scenario].sequence
      injected == Indices(r, {"fault.injected"})
  IN  [scenario |-> rows[r].scenario, run |-> r, status |-> rows[r].status,
       correct |-> Correct(r),
       score |-> SequenceGrade(expected, ToolsCalled(r)),
       unnecessary |-> UnnecessaryCalls(expected, ToolsCalled(r)),
       retries |-> RetriesOf(r),
       recovered |-> Cardinality(Recovered(r)),
       transient |-> Cardinality({i \in injected :
                                    events[r][i].code \in TransientKinds}),
       accepted |-> Cardinality(Indices(r, {"tool.attempt.succeeded"})),
       rejected |->
         Cardinality(Indices(r, {"tool.output.validation_failed"})),
       malformed |-> Cardinality({i \in injected :
                                    events[r][i].code = "malformed_output"})]

-----------------------------------------------------------------------------
(* _report *)

CasesOf(e, mode) ==
  LET refs == SelectSeq(e.runs, LAMBDA ref : rows[ref.run].mode = mode)
  IN  [i \in DOMAIN refs |-> CaseOf(refs[i].run)]

CoversSuite(e, mode) ==
  LET cited == {i \in DOMAIN e.runs : rows[e.runs[i].run].mode = mode}
  IN  /\ Cardinality(cited) = Len(Suite)
      /\ {rows[e.runs[i].run].scenario : i \in cited} = Names

EvidenceStands(ref) ==
  /\ Evidence(ref.run, rows[ref.run]) = ref.evidence
  /\ AttemptsComplete(ref.run)
  /\ FaultsComplete(ref.run)

\* The report can be answered instead of being refused as evidence_invalid.
Readable(e) ==
  /\ e.suite = catalog
  /\ \A i \in DOMAIN e.runs : EvidenceStands(e.runs[i])
  /\ \A m \in Modes : CoversSuite(e, m)

Sum(cases, Field(_)) == Total([i \in DOMAIN cases |-> Field(cases[i])])

ReportMetrics(e, mode) ==
  LET cases == CasesOf(e, mode)
  IN  [correct |-> Sum(cases, LAMBDA c : IF c.correct THEN 1 ELSE 0),
       succeeded |->
         Sum(cases, LAMBDA c : IF c.status = "succeeded" THEN 1 ELSE 0),
       recovered |-> Sum(cases, LAMBDA c : c.recovered),
       transient |-> Sum(cases, LAMBDA c : c.transient),
       rejected |-> Sum(cases, LAMBDA c : c.rejected),
       malformed |-> Sum(cases, LAMBDA c : c.malformed),
       unnecessary |-> Sum(cases, LAMBDA c : c.unnecessary),
       retries |-> Sum(cases, LAMBDA c : c.retries)]

\* The scenarios in which only the resilient mode recovered.
FragileWorse(e) ==
  LET fragile == CasesOf(e, "fragile")
      resilient == CasesOf(e, "resilient")
  IN  {resilient[i].scenario :
         i \in {k \in DOMAIN resilient :
                  resilient[k].recovered > fragile[k].recovered}}

-----------------------------------------------------------------------------
(* Properties *)

\* A trace never stops halfway through an attempt: at every moment, also when
\* the process died, each started attempt has its one outcome beside it.
TracesAreGradable == \A r \in Runs : AttemptsComplete(r)

\* An evaluation that was saved stays readable under the catalog it was made
\* with: nothing a client does later to its runs, or to others, disturbs the
\* evidence it cites.
ReportsStayReadable ==
  \A k \in DOMAIN evaluations :
    evaluations[k].suite = catalog => Readable(evaluations[k])

\* Nobody but the evaluation decided about its runs while it went on.
Undisturbed(e) ==
  \A i \in DOMAIN e.runs : \A d \in decisions[e.runs[i].run] : d.by = Evaluator

\* What a report of the frozen suite says: the resilient mode recovers from
\* every transient fault and is right throughout, the fragile mode loses just
\* the scenarios with a transient fault, and neither accepts a malformed
\* output or calls a tool without need.  (A reviewer who decides about a case
\* through another server, while it is evaluated, changes its outcome.)
VerdictOfSuite ==
  \A k \in DOMAIN evaluations :
    LET e == evaluations[k]
        f == ReportMetrics(e, "fragile")
        t == ReportMetrics(e, "resilient")
        faulty == {n \in Names : \E x \in e.suite[n].faults :
                                   x.type \in TransientKinds}
    IN  Undisturbed(e) =>
          /\ t.correct = Len(Suite)
          /\ f.correct = Len(Suite) - Cardinality(faulty)
          /\ t.recovered = t.transient /\ f.recovered = 0
          /\ t.retries = t.transient /\ f.retries = 0
          /\ \A m \in {f, t} : m.rejected = m.malformed /\ m.unnecessary = 0
          /\ FragileWorse(e) = faulty

=============================================================================
