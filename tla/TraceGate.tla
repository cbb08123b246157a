----------------------------- MODULE TraceGate ------------------------------
(***************************************************************************)
(* How the evidence gate reads the trace of one evaluated case             *)
(* (evaluation/gate.py, _trace_claims): an acceptor that goes through the  *)
(* ordered events, checks each against the frozen actions of the case and  *)
(* collects what they claim.  A trace it does not accept makes the whole   *)
(* report an infrastructure error.                                         *)
(*                                                                         *)
(* An event's position in the trace is its durable sequence; ids and the   *)
(* ok/error status follow from the run and the type and are left out.  A   *)
(* digest or a fingerprint is the value it was taken of.                   *)
(*                                                                         *)
(* An operator introduced by "Mutation:" is used by no definition; it is   *)
(* the definition that follows it with a mistake in it.                    *)
(***************************************************************************)
EXTENDS Grading, IncidentSuite, SequencesExt

CONSTANT Reviewer \* the actor the evaluation approves as

RunEvents ==
  {"run.running", "policy.action", "tool.preflight.failed",
   "run.waiting_approval", "approval.recorded", "approval.denied",
   "run.checkpointed", "run.succeeded", "run.failed"}

AttemptEvents ==
  {"tool.attempt.started", "fault.injected", "tool.output.validation_failed",
   "tool.attempt.failed", "tool.attempt.succeeded"}

EventTypes == RunEvents \cup AttemptEvents

\* data is the action, its result, the fault kind, the decision or the status,
\* by type; span tells the attempts of different callers apart.
Event(type, step, tool, attempt, span, data) ==
  [type |-> type, step |-> step, tool |-> tool, attempt |-> attempt,
   span |-> span, data |-> data]

NoCall == [step |-> -1, tool |-> "none"]

NoAction == Act("none", "none", FALSE, "none")

PreflightCodes ==
  {"unknown_tool", "invalid_input", "invalid_fault_plan",
   "idempotency_key_required"}

\* _FAULT_FAILURE
FaultFailure ==
  [timeout |-> [code |-> "tool_timeout", transient |-> TRUE],
   rate_limit |-> [code |-> "rate_limit", transient |-> TRUE],
   tool_error |-> [code |-> "tool_error", transient |-> TRUE],
   malformed_output |-> [code |-> "invalid_output", transient |-> FALSE]]

Transient == {"timeout", "rate_limit", "tool_error"}

\* Mutation: the modes are mixed up.
SwappedLimit(mode) == IF mode = "fragile" THEN 2 ELSE 1

AttemptLimit(mode) == IF mode = "fragile" THEN 1 ELSE 2

\* Where the reading of a trace stands.  next holds the event types that may
\* come next; a trace is complete when none may.
Start ==
  [ok |-> TRUE, pos |-> 0, next |-> EventTypes, step |-> -1, active |-> NoCall,
   closing |-> NoAction, started |-> {}, pending |-> NoOutput,
   refused |-> "none", denied |-> FALSE,
   proposals |-> <<>>, starts |-> <<>>, waits |-> <<>>, approvals |-> <<>>,
   resumes |-> <<>>, actual |-> <<>>, attempts |-> <<>>, faults |-> <<>>,
   invalid |-> <<>>, accepted |-> <<>>, status |-> "none", result |-> "none"]

CallOf(e) == [step |-> e.step, tool |-> e.tool]

Identity(e) == [step |-> e.step, tool |-> e.tool, attempt |-> e.attempt]

\* The frozen action at a step; steps count from 0.
ActionAt(actions, step) ==
  IF step + 1 \in DOMAIN actions THEN actions[step + 1] ELSE NoAction

\* The items at some positions, in order.
Picked(items, positions) ==
  LET picked[i \in 0..Len(items)] ==
        IF i = 0 THEN <<>>
        ELSE IF i \in positions THEN Append(picked[i - 1], items[i])
        ELSE picked[i - 1]
  IN  picked[Len(items)]

CountBy(items, Test(_)) == Cardinality({i \in DOMAIN items : Test(items[i])})

PreviousAttempts(s, e) ==
  Picked(s.attempts, {i \in DOMAIN s.attempts : CallOf(s.attempts[i]) = CallOf(e)})

-----------------------------------------------------------------------------
(* What each event must satisfy *)

\* Proposals follow the frozen actions; one may be repeated, never an earlier.
GoodProposal(s, e, actions, mode) ==
  /\ e.data = ActionAt(actions, e.step) /\ e.data # NoAction
  /\ e.step \in {s.step, s.step + 1}

\* An attempt is the first of its call or follows a transient failure.
GoodStart(s, e, actions, mode) ==
  LET previous == PreviousAttempts(s, e)
  IN  /\ s.active = CallOf(e)
      /\ Identity(e) \notin {Identity(x) : x \in s.started}
      /\ IF e.attempt = 1 THEN previous = <<>>
         ELSE /\ previous # <<>>
              /\ e.attempt = Last(previous).attempt + 1
              /\ Last(previous).status = "failed" /\ Last(previous).transient
      /\ e.attempt <= AttemptLimit(mode)

\* The other events of an attempt belong to one that was started, by span.
InAttempt(s, e) ==
  /\ s.active = CallOf(e)
  /\ \E x \in s.started : Identity(x) = Identity(e) /\ x.span = e.span

GoodEnd(s, e, actions, mode) ==
  /\ InAttempt(s, e)
  /\ e.type = "tool.attempt.succeeded" =>
       e.data # NoOutput /\ e.data = Output(ActionAt(actions, e.step))

\* A checkpoint stores the output that was just produced, at the next step, and
\* the context that all outputs so far make up.
GoodCheckpoint(s, e, actions, mode) ==
  /\ s.pending # NoOutput
  /\ CallOf(e) = s.active /\ e.attempt = Last(s.attempts).attempt
  /\ e.data = [output |-> s.pending,
               context |-> Append(s.accepted, [step |-> e.step, tool |-> e.tool,
                                               output |-> s.pending])]

GoodPreflight(s, e, actions, mode) ==
  /\ s.active # NoCall /\ s.active = CallOf(e) /\ s.started = {}
  /\ e.data \in PreflightCodes

GoodWait(s, e, actions, mode) == s.active # NoCall /\ s.active = CallOf(e)

GoodApproval(s, e, actions, mode) ==
  /\ ActionAt(actions, e.step) = e.data.action
  /\ s.active = [step |-> e.step, tool |-> e.data.action.tool]
  /\ ~e.data.allow => \A i \in DOMAIN s.approvals : ~s.approvals[i].allow

GoodDenial(s, e, actions, mode) ==
  /\ s.approvals # <<>>
  /\ \A i \in DOMAIN s.approvals : ~s.approvals[i].allow
  /\ Last(s.approvals) = [pos |-> s.pos, step |-> e.step, action |-> e.data.action,
                          actor |-> e.data.actor, allow |-> FALSE]
  /\ s.active = [step |-> e.step, tool |-> e.data.action.tool]

\* The terminal event says what the frozen terminal action, the denial or the
\* refused call says; after a failed attempt it says anything.
GoodEnding(s, e, actions, mode) ==
  /\ s.started = {}
  /\ CASE s.closing.type = "finish" ->
            e.type = "run.succeeded" /\ e.data = s.closing.result
       [] s.closing.type = "fail" ->
            e.type = "run.failed" /\ e.data = s.closing.result
       [] OTHER ->
            /\ e.type = "run.failed"
            /\ IF s.denied THEN e.data = "approval_denied"
               ELSE IF s.refused # "none" THEN e.data = s.refused
               ELSE s.attempts # <<>> /\ Last(s.attempts).status = "failed"

Admits(s, e, actions, mode) ==
  /\ e.type \in s.next
  /\ CASE e.type = "policy.action" -> GoodProposal(s, e, actions, mode)
       [] e.type = "tool.attempt.started" -> GoodStart(s, e, actions, mode)
       [] e.type \in {"tool.attempt.failed", "tool.attempt.succeeded"} ->
            GoodEnd(s, e, actions, mode)
       [] e.type \in {"fault.injected", "tool.output.validation_failed"} ->
            InAttempt(s, e)
       [] e.type = "run.checkpointed" -> GoodCheckpoint(s, e, actions, mode)
       [] e.type = "tool.preflight.failed" -> GoodPreflight(s, e, actions, mode)
       [] e.type = "run.waiting_approval" -> GoodWait(s, e, actions, mode)
       [] e.type = "approval.recorded" -> GoodApproval(s, e, actions, mode)
       [] e.type = "approval.denied" -> GoodDenial(s, e, actions, mode)
       [] e.type = "run.running" -> TRUE
       [] e.type \in {"run.succeeded", "run.failed"} ->
            GoodEnding(s, e, actions, mode)

-----------------------------------------------------------------------------
(* What each event adds *)

Proposed(s, e) ==
  LET call == e.data.type = "call_tool"
      new == e.step > s.step
  IN  [s EXCEPT
         !.step = e.step,
         !.proposals = Append(@, [pos |-> s.pos + 1, step |-> e.step]),
         !.actual = IF call /\ new THEN Append(@, e.data.tool) ELSE @,
         !.active = IF call THEN [step |-> e.step, tool |-> e.data.tool]
                    ELSE NoCall,
         !.closing = IF call THEN @ ELSE e.data,
         !.next = IF call THEN @ ELSE {"run.succeeded", "run.failed"}]

Started(s, e) ==
  [s EXCEPT !.started = @ \cup {e},
            !.starts = Append(@, [pos |-> s.pos + 1, step |-> e.step])]

Attempt(e) ==
  LET failed == e.type = "tool.attempt.failed"
  IN  [step |-> e.step, tool |-> e.tool, attempt |-> e.attempt,
       status |-> IF failed THEN "failed" ELSE "succeeded",
       code |-> IF failed THEN e.data.code ELSE "none",
       transient |-> failed /\ e.data.transient]

EndedAttempt(s, e) ==
  LET succeeded == e.type = "tool.attempt.succeeded"
  IN  [s EXCEPT
         !.started = {x \in @ : Identity(x) # Identity(e)},
         !.attempts = Append(@, Attempt(e)),
         !.pending = IF succeeded THEN e.data ELSE @,
         !.next = IF succeeded THEN {"run.checkpointed"} ELSE @]

FaultEvidence(e) ==
  [step |-> e.step, tool |-> e.tool, attempt |-> e.attempt, type |-> e.data]

Checkpointed(s, e) ==
  [s EXCEPT !.accepted = e.data.context, !.pending = NoOutput,
            !.active = NoCall, !.next = EventTypes]

Decided(s, e) ==
  [s EXCEPT
     !.approvals = Append(@, [pos |-> s.pos + 1, step |-> e.step,
                              action |-> e.data.action, actor |-> e.data.actor,
                              allow |-> e.data.allow]),
     !.next = IF e.data.allow THEN @ ELSE {"approval.denied"}]

After(s, e) ==
  CASE e.type = "policy.action" -> Proposed(s, e)
    [] e.type = "tool.attempt.started" -> Started(s, e)
    [] e.type \in {"tool.attempt.failed", "tool.attempt.succeeded"} ->
         EndedAttempt(s, e)
    [] e.type = "fault.injected" ->
         [s EXCEPT !.faults = Append(@, FaultEvidence(e))]
    [] e.type = "tool.output.validation_failed" ->
         [s EXCEPT !.invalid = Append(@, Identity(e))]
    [] e.type = "run.checkpointed" -> Checkpointed(s, e)
    [] e.type = "tool.preflight.failed" ->
         [s EXCEPT !.refused = e.data, !.next = {"run.failed"}]
    [] e.type = "run.waiting_approval" ->
         [s EXCEPT !.waits = Append(@, [pos |-> s.pos + 1, step |-> e.step,
                                        tool |-> e.tool, action |-> e.data])]
    [] e.type = "approval.recorded" -> Decided(s, e)
    [] e.type = "approval.denied" ->
         [s EXCEPT !.denied = TRUE, !.next = {"run.failed"}]
    [] e.type = "run.running" ->
         [s EXCEPT !.resumes = IF e.data = "waiting_approval"
                               THEN Append(@, s.pos + 1) ELSE @]
    [] e.type \in {"run.succeeded", "run.failed"} ->
         [s EXCEPT !.status = IF e.type = "run.failed" THEN "failed"
                              ELSE "succeeded",
                   !.result = e.data, !.next = {}]

Step(s, e, actions, mode) ==
  IF s.ok /\ Admits(s, e, actions, mode) THEN [After(s, e) EXCEPT !.pos = @ + 1]
  ELSE [s EXCEPT !.ok = FALSE]

Read(trace, actions, mode) ==
  LET reading[i \in 0..Len(trace)] ==
        IF i = 0 THEN Start ELSE Step(reading[i - 1], trace[i], actions, mode)
  IN  reading[Len(trace)]

-----------------------------------------------------------------------------
(* What the trace as a whole must satisfy *)

At(items, step) == Picked(items, {i \in DOMAIN items : items[i].step = step})

\* Mutation: the proposal of a resumed call is not expected.
OneProposalEach(s, actions) ==
  \A step \in 0..s.step : Len(At(s.proposals, step)) = 1

\* A gated call is proposed before its approval and again when it resumes,
\* every other action once.
ProposalCounts(s, actions) ==
  \A step \in 0..s.step :
    Len(At(s.proposals, step)) =
      IF /\ RequiresApproval(ActionAt(actions, step))
         /\ At(s.starts, step) # <<>>
      THEN 2 ELSE 1

\* Every failed attempt has the one fault, or the rejected output, behind it;
\* only transient failures are followed by another attempt.
AttemptsExplained(s) ==
  \A i \in DOMAIN s.attempts :
    LET a == s.attempts[i]
        same(x) == Identity(x) = Identity(a)
        later == {j \in DOMAIN s.attempts :
                    j > i /\ CallOf(s.attempts[j]) = CallOf(a)}
        causes == {k \in DOMAIN FaultFailure :
                     /\ FaultFailure[k] = [code |-> a.code,
                                           transient |-> a.transient]
                     /\ CountBy(s.faults, LAMBDA f : same(f) /\ f.type = k) = 1}
    IN  /\ a.status = "failed" =>
             IF a.code = "invalid_output"
             THEN /\ ~a.transient
                  /\ CountBy(s.invalid, same) = 1
             ELSE Cardinality(causes) = 1
        /\ later # {} => a.status = "failed" /\ a.transient

\* Mutation: the resumption may come before the decision.
UnorderedCycle(positions, wait, approval, resume, starts) ==
  /\ positions[1].pos < wait.pos /\ wait.pos < approval.pos
  /\ resume < positions[2].pos /\ positions[2].pos < starts[1].pos

\* proposal < wait < decision < resumption < proposal < first attempt
OrderedCycle(positions, wait, approval, resume, starts) ==
  /\ positions[1].pos < wait.pos /\ wait.pos < approval.pos
  /\ approval.pos < resume /\ resume < positions[2].pos
  /\ positions[2].pos < starts[1].pos

ApprovalSteps(s, actions) ==
  {step \in 0..s.step : /\ RequiresApproval(ActionAt(actions, step))
                        /\ At(s.starts, step) # <<>>}

\* _approval_cycles_are_valid: no gated call was executed and nothing waited,
\* or one was, after one wait, one decision and one resumption.
ApprovalCycles(s, actions, supplied) ==
  IF ApprovalSteps(s, actions) = {}
  THEN s.waits = <<>> /\ s.approvals = <<>> /\ s.resumes = <<>>
  ELSE \E step \in ApprovalSteps(s, actions) :
         /\ supplied /\ ApprovalSteps(s, actions) = {step}
         /\ Len(s.waits) = 1 /\ Len(s.approvals) = 1 /\ Len(s.resumes) = 1
         /\ Len(At(s.proposals, step)) = 2
         /\ s.waits[1].step = step /\ s.approvals[1].step = step
         /\ s.waits[1].action = ActionAt(actions, step)
         /\ s.approvals[1].actor = Reviewer /\ s.approvals[1].allow
         /\ OrderedCycle(At(s.proposals, step), s.waits[1], s.approvals[1],
                         s.resumes[1], At(s.starts, step))

\* _trace_claims: what the trace claims, or NoClaims.
NoClaims == [readable |-> FALSE]

TraceClaims(trace, mode, frozen) ==
  LET s == Read(trace, frozen.actions, mode)
  IN  IF /\ s.ok /\ s.next = {}
         /\ ProposalCounts(s, frozen.actions)
         /\ AttemptsExplained(s)
         /\ ApprovalCycles(s, frozen.actions, frozen.supplied)
      THEN [readable |-> TRUE, actual |-> s.actual, attempts |-> s.attempts,
            faults |-> s.faults, invalid |-> s.invalid,
            accepted |-> s.accepted, status |-> s.status, result |-> s.result,
            approved |-> ApprovalSteps(s, frozen.actions) # {}]
      ELSE NoClaims

=============================================================================
