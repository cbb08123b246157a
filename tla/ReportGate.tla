----------------------------- MODULE ReportGate -----------------------------
(***************************************************************************)
(* The evidence gate on a whole report (evaluation/gate.py, enforce_gate): *)
(* every field of every case is recomputed from the frozen manifest and    *)
(* from what the case's trace claims, the summaries and the comparison are *)
(* recomputed from the cases, and only then are the thresholds applied.    *)
(* Provenance (a full git revision, a clean work tree) is left out.        *)
(***************************************************************************)
EXTENDS TraceGate

Modes == {"fragile", "resilient"}

OutcomeOf(claims) == claims.result

\* _fault_recovered
Recovered(fault, claims, correct) ==
  /\ correct
  /\ \E i \in DOMAIN claims.attempts :
       LET a == claims.attempts[i]
       IN  /\ CallOf(a) = CallOf(fault)
           /\ a.attempt > fault.attempt /\ a.status = "succeeded"

\* Attempts beyond the first of their call.
RetriesOf(claims) ==
  Len(claims.attempts) - Cardinality({CallOf(a) : a \in ToSet(claims.attempts)})

\* Accepted outputs that are not what their tool's output model takes.
InvalidAccepted(claims) ==
  CountBy(claims.accepted,
          LAMBDA x : x.tool \notin Registered \/ x.output = NoOutput)

\* The fields of a case that follow from its claims and its frozen scenario.
Counted(claims, frozen) ==
  LET correct == OutcomeOf(claims) = frozen.expected
      transient(f) == f.type \in Transient
      grade == SequenceGrade(frozen.sequence, claims.actual)
  IN  [correct |-> correct, match |-> grade[1], denominator |-> grade[2],
       unneeded |-> UnnecessaryCalls(frozen.sequence, claims.actual),
       transients |-> CountBy(claims.faults, transient),
       recovered |-> CountBy(claims.faults, LAMBDA f : /\ transient(f)
                                                       /\ Recovered(f, claims, correct)),
       retries |-> RetriesOf(claims),
       malformed |-> CountBy(claims.faults,
                             LAMBDA f : f.type = "malformed_output"),
       acceptedInvalid |-> InvalidAccepted(claims)]

\* The actions a fault rule is about; a supported suite has one for each.
Targets(scenario, fault) ==
  {i \in DOMAIN scenario.actions : /\ scenario.actions[i].type = "call_tool"
                                   /\ scenario.actions[i].tool = fault.tool}

\* The faults a scenario declares, at the first step that calls their tool.
Declared(scenario) ==
  {[step |-> Min(Targets(scenario, f)) - 1, tool |-> f.tool,
    attempt |-> f.attempt, type |-> f.type] : f \in scenario.faults}

\* Counter(declared) = Counter(observed)
SameFaults(declared, observed) ==
  /\ ToSet(observed) = declared
  /\ Len(observed) = Cardinality(declared)

\* _fault_has_matching_failure
Explains(fault, claims) ==
  CountBy(claims.attempts,
          LAMBDA a : /\ Identity(a) = Identity(fault) /\ a.status = "failed"
                     /\ FaultFailure[fault.type]
                          = [code |-> a.code, transient |-> a.transient]) = 1

\* Counter(validation identities) = Counter(failed invalid identities)
RejectionsMatch(claims) ==
  \A x \in ToSet(claims.attempts) \cup ToSet(claims.invalid) :
    CountBy(claims.invalid, LAMBDA i : Identity(i) = Identity(x))
      = CountBy(claims.attempts,
                LAMBDA a : /\ Identity(a) = Identity(x)
                           /\ a.status = "failed" /\ a.code = "invalid_output")

\* _case_evidence_errors: the case is what its trace and its manifest entry say.
CaseIntact(case, frozen) ==
  LET claims == TraceClaims(case.trace, case.mode, frozen)
  IN  /\ case.id \in FrozenNames /\ frozen.actions = FrozenActions[case.id]
      /\ claims.readable /\ case.claims = claims
      /\ case.ran.actions = frozen.actions
      /\ case.ran.expected = frozen.expected
      /\ case.ran.sequence = frozen.sequence
      /\ Declared(case.ran) = Declared(frozen)
      /\ case.counts = Counted(claims, frozen)
      /\ SameFaults(Declared(frozen), claims.faults)
      /\ \A f \in ToSet(claims.faults) : Explains(f, claims)
      /\ \A a \in ToSet(claims.attempts) :
           a.attempt > 1 => \E b \in ToSet(claims.attempts) :
                              CallOf(b) = CallOf(a) /\ b.attempt = a.attempt - 1
      /\ RejectionsMatch(claims)
      /\ claims.approved =>
           frozen.supplied /\ case.writesBefore = 0 /\ case.writes = 1

-----------------------------------------------------------------------------

\* _normalized_case_semantics
Semantics(case) == <<case.claims, case.counts.correct, case.writesBefore, case.writes>>

\* compare_modes: resilient minus fragile, and the scenarios only fragile lost.
Comparison(modes) ==
  LET f == modes.fragile
      r == modes.resilient
  IN  [correct |-> r.metrics.correct - f.metrics.correct,
       recovered |-> r.metrics.recovered - f.metrics.recovered,
       retries |-> r.metrics.retries - f.metrics.retries,
       unneeded |-> r.metrics.unneeded - f.metrics.unneeded,
       worse |-> {r.cases[i].id : i \in
                    {j \in DOMAIN r.cases :
                       /\ r.cases[j].counts.recovered > 0
                       /\ r.cases[j].counts.correct
                       /\ ~f.cases[j].counts.correct}}]

Report(manifest, cases) ==
  LET result(m) == [cases |-> cases[m], metrics |-> Metrics(cases[m])]
      modes == [fragile |-> result("fragile"), resilient |-> result("resilient")]
  IN  [manifest |-> manifest, hash |-> manifest, modes |-> modes,
       comparison |-> Comparison(modes)]

\* _integrity_errors finds none.  A report lists the cases of the two modes in
\* the order of its manifest, whose entries are [id, content, sha].
Intact(report) ==
  LET fragile == report.modes.fragile.cases
      resilient == report.modes.resilient.cases
  IN  /\ report.hash = report.manifest
      /\ \A m \in Modes :
           LET cases == report.modes[m].cases
           IN  /\ report.modes[m].metrics = Metrics(cases)
               /\ Len(cases) = Len(report.manifest)
               /\ \A i \in DOMAIN cases :
                    LET entry == report.manifest[i]
                    IN  /\ cases[i].id = entry.id /\ cases[i].sha = entry.sha
                        /\ cases[i].mode = m
                        /\ CaseIntact(cases[i], entry.content)
      /\ \A i \in DOMAIN fragile :
           /\ \A f \in Declared(fragile[i].ran) : f.type \notin Transient
           => Semantics(fragile[i]) = Semantics(resilient[i])
      /\ report.comparison = Comparison(report.modes)

-----------------------------------------------------------------------------

\* Mutation: a mode without a verified fault counts as recovered.
LenientThresholds(m) ==
  /\ 5 * m.correct >= 4 * m.count
  /\ 4 * m.recovered >= 3 * m.faults
  /\ m.acceptedInvalid = 0

\* The fixed thresholds on the resilient mode, as exact fractions.
Thresholds(m) ==
  /\ 5 * m.correct >= 4 * m.count
  /\ m.faults > 0 /\ 4 * m.recovered >= 3 * m.faults
  /\ m.acceptedInvalid = 0

\* enforce_gate without a baseline
Verdict(report) ==
  IF ~Intact(report) THEN "rejected"
  ELSE IF Thresholds(report.modes.resilient.metrics) THEN "passed" ELSE "failed"

=============================================================================
