---------------------------- MODULE RunExecution ----------------------------
(***************************************************************************)
(* One durable run driven by concurrent service calls: RunService.start,   *)
(* resume and approve (runtime/service.py), the DurableOrchestrator they   *)
(* execute under a lease (runtime/orchestrator.py) and the claim protocol  *)
(* of ToolGateway.call (tools/gateway.py).  The calls share nothing but    *)
(* the tables of RunStore and ToolClaims, so they may run in one process   *)
(* or in several.                                                          *)
(*                                                                         *)
(* A call's local state is its program counter, its request, the Run value *)
(* it read or saved last (snap), the action it works on, the tool output   *)
(* it got and the code of a failure it is about to write or raise.  A step *)
(* ends at a transaction or at an await, the points where another call can *)
(* be scheduled.  Events that TraceRecorder appends in a transaction of    *)
(* their own are read by no step and are left out.                         *)
(*                                                                         *)
(* An operator introduced by "Mutation:" is used by no action; it is the   *)
(* definition that follows it with a mistake in it.                        *)
(***************************************************************************)
EXTENDS RunStore

CONSTANTS
  Keyed,   \* tool calls that carry an idempotency key
  Gated,   \* those whose tool requires an approval
  Writes,  \* those whose tool is a write
  Starters \* the calls that are RunService.start

ASSUME ExecutionAssumption ==
  /\ Keyed \subseteq ToolActions
  /\ Gated \subseteq Keyed
  /\ Writes \subseteq Keyed
  /\ Starters \subseteq Calls
  \* What a policy answers that is not the call of a registered tool.
  /\ ToolActions \cap {"finish", "fail", "invalid_call"} = {}

VARIABLES
  claims,   \* the tool_results table
  pc,       \* where each call is
  req,      \* what it was asked
  snap,     \* the Run value it holds
  act,      \* the action it works on
  output,   \* the tool output it holds, named by the call that produced it
  fault,    \* the code it is about to write, or the error it is raising
  invoked,  \* history: which calls entered the handler of which key
  asked     \* history: how many times a policy has been called

vars == <<row, lease, approvals, trail, claims,
          pc, req, snap, act, output, fault, invoked, asked>>

localVars == <<pc, req, snap, act, output, fault>>

histVars == <<invoked, asked>>

\* stabilize_action hashes the run, the step, the tool and the arguments.
Keys == Steps \X ToolActions

Tool == INSTANCE ToolClaims
          WITH Callers <- Calls, NoCaller <- NoCall, Keys <- Keys,
               Requests <- ToolActions, NoRequest <- NoAction

Answers == ToolActions \cup {"finish", "fail", "invalid_call"}

Errors == {"none", "ownership_lost", "stale_version", "other_error"}

\* Between claiming the run's lease and releasing it in the finally block.
Executing ==
  {"enter", "loop", "policy", "chosen", "approval", "pausing", "call", "tool",
   "checkpoint", "failing", "denying", "release"}

\* How a call ends: with a run, with an error, at the polling deadline, or
\* with its process.
Returned == {"done", "raised", "gave_up", "crashed"}

Locations ==
  {"idle", "decided", "claim", "deny_claim", "await"} \cup Executing \cup Returned

Request ==
  [kind : {"none", "start", "resume", "approve"}, step : Steps,
   action : ToolActions \cup {NoAction}, decision : Decisions \cup {NoDecision}]

NoRequest ==
  [kind |-> "none", step |-> 0, action |-> NoAction, decision |-> NoDecision]

TypeOK ==
  /\ StoreTypeOK
  /\ Tool!ClaimsTypeOK
  /\ pc \in [Calls -> Locations]
  /\ req \in [Calls -> Request]
  /\ snap \in [Calls -> RunRow]
  /\ act \in [Calls -> Answers \cup {NoAction}]
  /\ output \in [Calls -> Calls \cup {NoCall}]
  /\ fault \in [Calls -> Results \cup Errors]
  /\ invoked \subseteq Keys \X Calls
  /\ asked \in Nat

Init ==
  /\ StoreInit
  /\ Tool!ClaimsInit
  /\ pc = [c \in Calls |-> "idle"]
  /\ req = [c \in Calls |-> NoRequest]
  /\ snap = [c \in Calls |-> NewRun]
  /\ act = [c \in Calls |-> NoAction]
  /\ output = [c \in Calls |-> NoCall]
  /\ fault = [c \in Calls |-> "none"]
  /\ invoked = {}
  /\ asked = 0

-----------------------------------------------------------------------------
(* Control flow of a call *)

Goto(c, l) == pc' = [pc EXCEPT ![c] = l]

\* An exception leaves execute: the finally block releases the lease.
Raise(c, error) ==
  /\ Goto(c, "release")
  /\ fault' = [fault EXCEPT ![c] = error]

\* The call ends; its local variables are gone.
Return(c, l) ==
  /\ Goto(c, l)
  /\ req' = [req EXCEPT ![c] = NoRequest]
  /\ snap' = [snap EXCEPT ![c] = NewRun]
  /\ act' = [act EXCEPT ![c] = NoAction]
  /\ output' = [output EXCEPT ![c] = NoCall]
  /\ fault' = [fault EXCEPT ![c] = "none"]

\* A call that lost the race for the lease: approve waits for the winner,
\* start and resume give the conflict to their caller.
AfterConflict(c) ==
  IF req[c].kind = "approve"
    THEN /\ Goto(c, "await")
         /\ fault' = [fault EXCEPT ![c] = "none"]
         /\ UNCHANGED <<req, snap, act, output>>
    ELSE Return(c, "raised")

\* Save the orchestrator's next Run value under the version of the last one.
Save(c, changed, entries, next) ==
  \/ /\ SaveRunOwned(c, snap[c].version, changed, entries)
     /\ snap' = [snap EXCEPT ![c] = row']
     /\ Goto(c, next)
     /\ UNCHANGED fault
  \/ /\ ~Saveable(c, snap[c].version)
     /\ Raise(c, SaveError(c))
     /\ UNCHANGED <<storeVars, snap>>

\* _terminal_failure is reached with the code it writes.
FailWith(c, code) ==
  /\ Goto(c, "failing")
  /\ fault' = [fault EXCEPT ![c] = code]

Key(c) == <<snap[c].step, act[c]>>

-----------------------------------------------------------------------------
(* Entry points of RunService *)

Start(c) ==
  /\ pc[c] = "idle" /\ c \in Starters
  /\ InsertRun
  /\ Goto(c, "claim")
  /\ req' = [req EXCEPT ![c].kind = "start"]
  /\ UNCHANGED <<claims, snap, act, output, fault, histVars>>

Resume(c) ==
  /\ pc[c] = "idle" /\ c \notin Starters
  /\ Exists
  /\ IF row.status \in Terminal
       THEN Return(c, "raised")
       ELSE /\ Goto(c, "claim")
            /\ req' = [req EXCEPT ![c].kind = "resume"]
            /\ UNCHANGED <<snap, act, output, fault>>
  /\ UNCHANGED <<storeVars, claims, histVars>>

\* The decision is recorded first; only then is the run driven.
Approve(c, s, a, d) ==
  /\ pc[c] = "idle" /\ c \notin Starters
  /\ Exists
  /\ RecordPendingApproval(s, a, d)
  /\ IF DecisionAccepted(s, a, d)
       THEN /\ Goto(c, "decided")
            /\ req' = [req EXCEPT ![c] = [kind |-> "approve", step |-> s,
                                          action |-> a, decision |-> d]]
            /\ UNCHANGED <<snap, act, output, fault>>
       ELSE Return(c, "raised")
  /\ UNCHANGED <<claims, histVars>>

\* approve reads the run again after its decision is durable.
Reread(c) ==
  /\ pc[c] = "decided"
  /\ LET target == row.step = req[c].step /\ row.pending = req[c].action
     IN  CASE row.status \in Terminal -> Return(c, "done")
           [] row.status \notin Terminal /\ ~target /\ row.step > req[c].step ->
                Goto(c, "await") /\ UNCHANGED <<req, snap, act, output, fault>>
           [] row.status \notin Terminal /\ target
                /\ row.status \in {"waiting_approval", "running"} ->
                /\ Goto(c, IF req[c].decision \in Allowing THEN "claim"
                                                           ELSE "deny_claim")
                /\ UNCHANGED <<req, snap, act, output, fault>>
           [] OTHER -> Return(c, "raised")
  /\ UNCHANGED <<storeVars, claims, histVars>>

\* claim_run_execution, for _execute_owned and for _deny.
Claim(c) ==
  /\ pc[c] \in {"claim", "deny_claim"}
  /\ \/ /\ ClaimRunExecution(c)
        /\ snap' = [snap EXCEPT ![c] = row]
        /\ Goto(c, IF pc[c] = "claim" THEN "enter" ELSE "denying")
        /\ UNCHANGED <<req, act, output, fault>>
     \/ /\ ~Claimable(c)
        /\ AfterConflict(c)
        /\ UNCHANGED storeVars
  /\ UNCHANGED <<claims, histVars>>

-----------------------------------------------------------------------------
(* DurableOrchestrator.execute *)

\* Mutation: entering clears the pending action as well.
EnteredAfresh(run) ==
  [run EXCEPT !.status = "running", !.pendingApproval = FALSE,
              !.pending = NoAction]

Entered(run) == [run EXCEPT !.status = "running", !.pendingApproval = FALSE]

Enter(c) ==
  /\ pc[c] = "enter"
  /\ \/ /\ snap[c].status \in {"queued", "waiting_approval"}
        /\ Save(c, Entered(snap[c]),
                <<Entry("run.running", snap[c].step)>>, "loop")
     \/ /\ snap[c].status = "running"
        /\ Goto(c, "loop")
        /\ UNCHANGED <<storeVars, snap, fault>>
     \/ /\ snap[c].status \in Terminal
        /\ Goto(c, "release")
        /\ UNCHANGED <<storeVars, snap, fault>>
  /\ UNCHANGED <<claims, req, act, output, histVars>>

\* Mutation: a policy call that never led to a step costs nothing.
StepsUsed(run) == run.step

BudgetUsed(run) ==
  IF run.step > run.policyCalls THEN run.step ELSE run.policyCalls

\* Take the stored action, or reserve a policy call before making it.
NextAction(c) ==
  /\ pc[c] = "loop"
  /\ \/ /\ snap[c].pending # NoAction
        /\ act' = [act EXCEPT ![c] = snap[c].pending]
        /\ Goto(c, "chosen")
        /\ UNCHANGED <<storeVars, snap, fault, asked>>
     \/ /\ snap[c].pending = NoAction
        /\ BudgetUsed(snap[c]) >= MaxActionSteps
        /\ FailWith(c, "action_budget_exhausted")
        /\ UNCHANGED <<storeVars, snap, act, asked>>
     \/ /\ snap[c].pending = NoAction
        /\ BudgetUsed(snap[c]) < MaxActionSteps
        /\ Save(c, [snap[c] EXCEPT !.policyCalls = BudgetUsed(snap[c]) + 1],
                <<>>, "policy")
        /\ asked' = IF Saveable(c, snap[c].version) THEN asked + 1 ELSE asked
        /\ UNCHANGED act
  /\ UNCHANGED <<claims, req, output, invoked>>

PolicyAnswers(c, a) ==
  /\ pc[c] = "policy"
  /\ act' = [act EXCEPT ![c] = a]
  /\ Goto(c, "chosen")
  /\ UNCHANGED <<storeVars, claims, req, snap, output, fault, histVars>>

PolicyRaises(c) ==
  /\ pc[c] = "policy"
  /\ FailWith(c, "policy_error")
  /\ UNCHANGED <<storeVars, claims, req, snap, act, output, histVars>>

Finish(c) ==
  /\ pc[c] = "chosen" /\ act[c] = "finish"
  /\ Save(c, [snap[c] EXCEPT !.status = "succeeded", !.step = @ + 1,
                             !.pending = NoAction, !.result = "finished"],
          <<Entry("run.succeeded", snap[c].step)>>, "release")
  /\ UNCHANGED <<claims, req, act, output, histVars>>

Failed(run, code) ==
  [run EXCEPT !.status = "failed", !.pendingApproval = FALSE,
              !.pending = NoAction, !.result = code]

PolicyFails(c) ==
  /\ pc[c] = "chosen" /\ act[c] = "fail"
  /\ Save(c, [Failed(snap[c], "policy_failed") EXCEPT !.step = @ + 1],
          <<Entry("run.failed", snap[c].step)>>, "release")
  /\ UNCHANGED <<claims, req, act, output, histVars>>

\* preflight without the approval check, then the tool's approval policy.
Preflight(c) ==
  /\ pc[c] = "chosen" /\ act[c] \in ToolActions \cup {"invalid_call"}
  /\ IF act[c] = "invalid_call"
       THEN FailWith(c, "tool_preflight_failed")
       ELSE /\ Goto(c, IF act[c] \in Gated THEN "approval" ELSE "call")
            /\ UNCHANGED fault
  /\ UNCHANGED <<storeVars, claims, req, snap, act, output, histVars>>

\* Mutation: a step without a decision passes.
MismatchOrDenial(s, a) ==
  CASE Decided(s) /\ approvals[s].action # a -> "approval_mismatch"
    [] approvals[s].action = a /\ approvals[s].decision \notin Allowing ->
         "approval_denied"
    [] OTHER -> "none"

\* Mutation: any decision about the action passes.
MissingOrMismatch(s, a) ==
  CASE ~Decided(s) -> "approval_required"
    [] Decided(s) /\ approvals[s].action # a -> "approval_mismatch"
    [] OTHER -> "none"

\* What the stored decision says of calling tool a at step s.
ApprovalFailure(s, a) ==
  CASE ~Decided(s) -> "approval_required"
    [] Decided(s) /\ approvals[s].action # a -> "approval_mismatch"
    [] approvals[s].action = a /\ approvals[s].decision \notin Allowing ->
         "approval_denied"
    [] OTHER -> "none"

\* get_approval for the current step, read outside any transaction with the
\* save that follows.
CheckApproval(c) ==
  /\ pc[c] = "approval"
  /\ LET failure == ApprovalFailure(snap[c].step, act[c])
     IN  \/ failure = "approval_required" /\ Goto(c, "pausing") /\ UNCHANGED fault
         \/ failure = "none" /\ Goto(c, "call") /\ UNCHANGED fault
         \/ /\ failure \in {"approval_mismatch", "approval_denied"}
            /\ FailWith(c, failure)
  /\ UNCHANGED <<storeVars, claims, req, snap, act, output, histVars>>

Pause(c) ==
  /\ pc[c] = "pausing"
  /\ Save(c, [snap[c] EXCEPT !.status = "waiting_approval",
                             !.pendingApproval = TRUE, !.pending = act[c]],
          <<Entry("run.waiting_approval", snap[c].step)>>, "release")
  /\ UNCHANGED <<claims, req, act, output, histVars>>

Checkpoint(c) ==
  /\ pc[c] = "checkpoint"
  /\ Save(c, [snap[c] EXCEPT
                !.step = @ + 1, !.pendingApproval = FALSE,
                !.pending = NoAction,
                !.toolResults = Append(@,
                  [action |-> act[c], by |-> output[c]])],
          <<Entry("run.checkpointed", snap[c].step)>>, "loop")
  /\ act' = [act EXCEPT ![c] = NoAction]
  /\ output' = [output EXCEPT ![c] = NoCall]
  /\ UNCHANGED <<claims, req, histVars>>

TerminalFailure(c) ==
  /\ pc[c] = "failing"
  /\ \/ /\ SaveRunOwned(c, snap[c].version, Failed(snap[c], fault[c]),
                        <<Entry("run.failed", snap[c].step)>>)
        /\ snap' = [snap EXCEPT ![c] = row']
        /\ Raise(c, "none")
     \/ /\ ~Saveable(c, snap[c].version)
        /\ Raise(c, SaveError(c))
        /\ UNCHANGED <<storeVars, snap>>
  /\ UNCHANGED <<claims, req, act, output, histVars>>

-----------------------------------------------------------------------------
(* ToolGateway.call *)

\* What a claim that was not granted makes the gateway answer.
RefusalCode(k) ==
  CASE claims[k].state = "claimed" -> "idempotency_in_progress"
    [] claims[k].disposition = "indeterminate" -> "idempotency_indeterminate"
    [] OTHER -> "idempotency_terminal_failure"

\* The approval is checked once more, then the key is claimed.  Registered
\* writes and gated tools are declared idempotent, so an expired or retryable
\* claim may always be reclaimed.  A completed claim answers from the table,
\* if what the table holds still validates.
CallTool(c) ==
  /\ pc[c] = "call"
  /\ LET k == Key(c)
         failure == IF act[c] \in Gated THEN ApprovalFailure(snap[c].step, act[c])
                                        ELSE "none"
         granted == act[c] \notin Keyed \/ Tool!Acquirable(k, act[c], TRUE)
     IN  IF failure # "none"
           THEN FailWith(c, failure) /\ UNCHANGED <<claims, output, invoked>>
           ELSE /\ IF act[c] \in Keyed
                     THEN Tool!ClaimToolExecution(k, c, act[c], TRUE)
                     ELSE UNCHANGED claims
                /\ \/ /\ granted
                      /\ invoked' = invoked \cup {<<k, c>>}
                      /\ Goto(c, "tool")
                      /\ UNCHANGED <<output, fault>>
                   \/ /\ ~granted /\ claims[k].state = "completed"
                      /\ output' = [output EXCEPT ![c] = claims[k].owner]
                      /\ Goto(c, "checkpoint")
                      /\ UNCHANGED <<invoked, fault>>
                   \/ /\ ~granted /\ claims[k].state = "completed"
                      /\ FailWith(c, "invalid_cached_output")
                      /\ UNCHANGED <<output, invoked>>
                   \/ /\ ~granted /\ claims[k].state # "completed"
                      /\ FailWith(c, RefusalCode(k))
                      /\ UNCHANGED <<output, invoked>>
  /\ UNCHANGED <<storeVars, req, snap, act, asked>>

\* The handler answers and the claim is completed.  A claim that was taken
\* over meanwhile, or an answer that cannot be stored as JSON, is a failure;
\* without a key the latter breaks the save that follows.
HandlerSucceeds(c, storable) ==
  /\ pc[c] = "tool"
  /\ output' = [output EXCEPT ![c] = c]
  /\ IF act[c] \in Keyed
       THEN /\ IF storable
                 THEN Tool!CompleteToolResult(Key(c), c)
                 ELSE Tool!FailToolExecution(Key(c), c,
                        IF act[c] \in Writes THEN "indeterminate"
                                             ELSE "retryable")
            /\ IF storable /\ Tool!Owns(Key(c), c)
                 THEN Goto(c, "checkpoint") /\ UNCHANGED fault
                 ELSE FailWith(c, IF act[c] \in Writes
                                    THEN "idempotency_indeterminate"
                                    ELSE "result_serialization_failed")
       ELSE /\ UNCHANGED claims
            /\ IF storable THEN Goto(c, "checkpoint") /\ UNCHANGED fault
                           ELSE Raise(c, "other_error")
  /\ UNCHANGED <<storeVars, req, snap, act, histVars>>

\* Every attempt failed.  A claim that was taken over meanwhile makes
\* fail_tool_execution raise out of the gateway.
HandlerFails(c, transient) ==
  /\ pc[c] = "tool"
  /\ LET disposition == CASE act[c] \in Writes -> "indeterminate"
                          [] act[c] \notin Writes /\ transient -> "retryable"
                          [] OTHER -> "terminal"
     IN  IF act[c] \in Keyed
           THEN /\ Tool!FailToolExecution(Key(c), c, disposition)
                /\ IF Tool!Owns(Key(c), c)
                     THEN FailWith(c, "tool_execution_failed")
                     ELSE Raise(c, "other_error")
           ELSE FailWith(c, "tool_execution_failed") /\ UNCHANGED claims
  /\ UNCHANGED <<storeVars, req, snap, act, output, histVars>>

-----------------------------------------------------------------------------
(* Denial, release and waiting for a concurrent winner *)

\* _deny claims the lease and fails the run it finds waiting; whatever step
\* the claimed row is at is the one that is failed.
Deny(c) ==
  /\ pc[c] = "denying"
  /\ \/ /\ snap[c].status # "waiting_approval"
        /\ Raise(c, "ownership_lost")
        /\ UNCHANGED <<storeVars, snap>>
     \/ /\ snap[c].status = "waiting_approval"
        /\ Save(c, Failed(snap[c], "approval_denied"),
                <<Entry("approval.denied", req[c].step),
                  Entry("run.failed", snap[c].step)>>, "release")
  /\ UNCHANGED <<claims, req, act, output, histVars>>

\* The finally block.  The pending exception wins over a failed release; a
\* failed release alone is an ownership conflict of its own.
Release(c) ==
  /\ pc[c] = "release"
  /\ ReleaseRunExecution(c)
  /\ LET error == IF fault[c] = "none" /\ lease.owner # c
                    THEN "ownership_lost" ELSE fault[c]
     IN  \/ /\ error \in {"ownership_lost", "stale_version"}
            /\ AfterConflict(c)
         \/ error = "other_error" /\ Return(c, "raised")
         \/ error = "none" /\ Return(c, "done")
  /\ UNCHANGED <<claims, histVars>>

\* Mutation: any pause of the run is taken for the winner's.
SettledOrPaused(s) == row.status \in Terminal \cup {"waiting_approval"}

Settled(s) ==
  \/ row.status \in Terminal
  \/ row.step > s /\ row.status = "waiting_approval"

\* One look of _await_approval_completion, repeated until it returns.
Poll(c) ==
  /\ pc[c] = "await"
  /\ Settled(req[c].step)
  /\ Return(c, "done")
  /\ UNCHANGED <<storeVars, claims, histVars>>

\* Mutation: the wait has no deadline.
WaitOn(c) == pc[c] = "await" /\ FALSE

\* Its deadline: "approval decision is still processing".
GiveUp(c) ==
  /\ pc[c] = "await"
  /\ Return(c, "gave_up")
  /\ UNCHANGED <<storeVars, claims, histVars>>

-----------------------------------------------------------------------------
(* Time, cancellation and process death *)

\* The heartbeat task runs while execute awaits the policy or a handler.
Heartbeat(c) ==
  /\ pc[c] \in {"policy", "tool"}
  /\ RenewRunExecution(c)
  /\ UNCHANGED <<claims, localVars, histVars>>

\* CancelledError at an await.  Inside a handler the claim is handed back as
\* retryable first.
Cancel(c) ==
  /\ \/ /\ pc[c] = "policy"
        /\ Raise(c, "other_error")
        /\ UNCHANGED <<claims, req, snap, act, output>>
     \/ /\ pc[c] = "tool"
        /\ IF act[c] \in Keyed
             THEN Tool!FailToolExecution(Key(c), c, "retryable")
             ELSE UNCHANGED claims
        /\ Raise(c, "other_error")
        /\ UNCHANGED <<req, snap, act, output>>
     \/ /\ pc[c] = "await"
        /\ Return(c, "raised")
        /\ UNCHANGED claims
  /\ UNCHANGED <<storeVars, histVars>>

\* The process dies: its lease and its claims stay behind.
Crash(c) ==
  /\ pc[c] \notin Returned \cup {"idle"}
  /\ Return(c, "crashed")
  /\ UNCHANGED <<storeVars, claims, histVars>>

RunLeaseExpires ==
  /\ LeaseExpires
  /\ UNCHANGED <<claims, localVars, histVars>>

ToolClaimExpires(k) ==
  /\ Tool!ClaimExpires(k)
  /\ UNCHANGED <<storeVars, localVars, histVars>>

-----------------------------------------------------------------------------
(* Specification *)

\* The steps a call takes of its own accord once it is invoked.
Advance(c) ==
  \/ Reread(c) \/ Claim(c) \/ Enter(c) \/ NextAction(c)
  \/ PolicyRaises(c) \/ \E a \in Answers : PolicyAnswers(c, a)
  \/ Finish(c) \/ PolicyFails(c) \/ Preflight(c) \/ CheckApproval(c)
  \/ Pause(c) \/ Checkpoint(c) \/ TerminalFailure(c)
  \/ CallTool(c)
  \/ \E storable \in BOOLEAN : HandlerSucceeds(c, storable)
  \/ \E transient \in BOOLEAN : HandlerFails(c, transient)
  \/ Deny(c) \/ Release(c) \/ Poll(c) \/ GiveUp(c)

Invoke(c) ==
  \/ Start(c) \/ Resume(c)
  \/ \E s \in Steps, a \in ToolActions, d \in Decisions : Approve(c, s, a, d)

\* Every call has ended: nothing is left to do.
Quiescent ==
  /\ \A c \in Calls : pc[c] \in Returned
  /\ UNCHANGED vars

Next ==
  \/ \E c \in Calls :
       Invoke(c) \/ Advance(c) \/ Heartbeat(c) \/ Cancel(c) \/ Crash(c)
  \/ RunLeaseExpires
  \/ \E k \in Keys : ToolClaimExpires(k)
  \/ Quiescent

Spec == Init /\ [][Next]_vars

\* The same calls where nobody dies or is cancelled and no lease runs out:
\* the heartbeat keeps up with the clock.
HealthyNext ==
  \/ \E c \in Calls : Invoke(c) \/ Advance(c)
  \/ Quiescent

HealthySpec == Init /\ [][HealthyNext]_vars

\* A call that has been invoked keeps running until it returns, unless its
\* process dies.
LiveSpec == Spec /\ \A c \in Calls : WF_vars(Advance(c))

-----------------------------------------------------------------------------
(* Safety *)

\* Fencing.  A call that still holds the run's lease row, expired or not, has
\* the current row in hand, so the compare-and-swap on the version never
\* fails for an owner (claim_run_execution re-reads the row after its upsert,
\* every later write is the owner's own).
OwnerIsCurrent ==
  \A c \in Calls :
    /\ lease.owner = c => pc[c] \in Executing \cup {"crashed"}
    /\ lease.owner = c /\ pc[c] \in Executing => snap[c] = row
    /\ fault[c] # "stale_version"

\* Every policy call and every step is paid for by a slot that was made
\* durable first, across crashes, cancellations and takeovers: the cursor
\* never overtakes the slots, no policy is called more often than slots were
\* reserved, and the slots never exceed the budget.
CursorWithinBudget ==
  /\ row.step <= row.policyCalls
  /\ asked <= row.policyCalls
  /\ row.policyCalls <= MaxActionSteps
  /\ row.pending # NoAction => row.step < row.policyCalls

\* No handler of a gated tool is ever entered, by any call, unless a decision
\* allowing exactly that action at that step is durable.
GatedCallsAreAllowed ==
  \A k \in Keys, c \in Calls :
    <<k, c>> \in invoked /\ k[2] \in Gated => Allowed(k[1], k[2])

\* A denial stops the run where it stands: the run never leaves the denied
\* step, no handler runs for it and the run cannot succeed.
DenialIsObeyed ==
  \A s \in Steps :
    Decided(s) /\ approvals[s].decision \notin Allowing =>
      /\ row.step = s
      /\ row.status # "succeeded"
      /\ \A c \in Calls : <<<<s, approvals[s].action>>, c>> \notin invoked

\* The result a run carries for a keyed step is the result the claim table
\* completed that key with, whoever's handler produced it.
CheckpointsAreClaimed ==
  \A i \in DOMAIN row.toolResults :
    LET r == row.toolResults[i]
        k == <<i - 1, r.action>>
    IN  /\ <<k, r.by>> \in invoked
        /\ r.action \in Keyed =>
             claims[k].state = "completed" /\ claims[k].owner = r.by

StatusAfter(type) ==
  CASE type = "run.running" -> "running"
    [] type = "run.waiting_approval" -> "waiting_approval"
    [] type = "run.succeeded" -> "succeeded"
    [] OTHER -> "failed"

\* ALLOWED_TRANSITIONS of domain/runs.py.
AllowedTransitions ==
  {<<"queued", "running">>, <<"waiting_approval", "running">>,
   <<"waiting_approval", "failed">>} \cup
  ({"running"} \X {"running", "waiting_approval", "succeeded", "failed"})

\* The audit entries of some types, by their places in the trail.
Places(types) == {i \in DOMAIN trail : trail[i].type \in types}

MoveTypes == {"run.running", "run.waiting_approval", "run.succeeded", "run.failed"}

LastOf(places) == CHOOSE i \in places : \A j \in places : j <= i

\* The status that the first n entries leave the run in.
StatusUpTo(n) ==
  LET moves == {i \in Places(MoveTypes) : i <= n}
  IN  IF moves = {} THEN "queued"
      ELSE StatusAfter(trail[LastOf(moves)].type)

\* The audit trail alone reconstructs the run: its moves are a path of the
\* state machine that ends in the row's status, its checkpoints number the
\* steps without gap, and every decision is recorded exactly once, while the
\* run waits at its step.
TrailReplaysRun ==
  LET checkpoints == Places({"run.checkpointed"})
      recorded == Places({"approval.recorded"})
  IN  /\ StatusUpTo(Len(trail)) = row.status
      /\ \A i \in Places(MoveTypes) :
           <<StatusUpTo(i - 1), StatusAfter(trail[i].type)>> \in AllowedTransitions
      /\ {trail[i].step : i \in checkpoints} = 0..(Len(row.toolResults) - 1)
      /\ \A i, j \in checkpoints : i < j => trail[i].step < trail[j].step
      /\ {trail[i].step : i \in recorded} = {s \in Steps : Decided(s)}
      /\ \A i, j \in recorded : trail[i].step = trail[j].step => i = j
      /\ \A i \in recorded : StatusUpTo(i) = "waiting_approval"

\* No terminal run is written again, whatever snapshot an overtaken call
\* still holds, and no decision is added to it.
TerminalIsFinal ==
  [][row.status \in Terminal =>
       row' = row /\ approvals' = approvals /\ trail' = trail]_vars

\* The action a reviewer was shown is the action the run keeps for that step
\* until it is performed or the run fails: no policy call replaces it.
ReviewedActionIsKept ==
  [][row.pending # NoAction /\ row'.pending # row.pending =>
       /\ row'.pending = NoAction
       /\ \/ row'.status = "failed"
          \/ /\ row'.step = row.step + 1
             /\ row'.toolResults[row.step + 1].action = row.pending]_vars

\* A write whose outcome is unknown is for a human: the key stays
\* indeterminate and no handler is entered for it again.
IndeterminateWritesAreLeft ==
  [][\A k \in Keys : claims[k].disposition = "indeterminate" =>
       /\ claims'[k] = claims[k]
       /\ \A c \in Calls : <<k, c>> \in invoked' => <<k, c>> \in invoked]_vars

\* An approve call that returns a run has seen its decision take effect: the
\* run is past the decided step or terminal.
ApprovalReplyIsSettled ==
  [][\A c \in Calls :
       req[c].kind = "approve" /\ pc[c] # "done" /\ pc'[c] = "done" =>
         row.status \in Terminal \/ row.step > req[c].step]_vars

-----------------------------------------------------------------------------
(* Liveness *)

\* Every invoked call ends: nobody waits forever for the lease, for a
\* decision or for a concurrent winner that died.
CallsReturn ==
  \A c \in Calls : pc[c] # "idle" ~> pc[c] \in Returned

-----------------------------------------------------------------------------
(* Refinement *)

AbstractStatus ==
  CASE ~Exists -> "absent"
    [] Exists /\ row.status \in {"queued", "running"} -> "open"
    [] Exists /\ row.status = "waiting_approval" -> "waiting"
    [] OTHER -> row.status

Promise ==
  INSTANCE DurableRun
    WITH Actions <- ToolActions, Approvable <- Gated, Verdicts <- Decisions,
         Yes <- Allowing, Undecided <- NoApproval, AllSteps <- Steps,
         status <- AbstractStatus,
         history <- [i \in DOMAIN row.toolResults |-> row.toolResults[i].action],
         verdict <- approvals

\* The leases, versions and claims implement the promise of DurableRun.
ImplementsDurableRun == Promise!Spec

-----------------------------------------------------------------------------
(* What the repository says of itself, and does not hold *)

\* service.py raises "approval decision is still processing" when the wait
\* for a concurrent winner times out.  Taken at its word: while an approve call
\* waits and the run still stands where the decision found it, another call is
\* at work on it.
StillProcessing ==
  \A c \in Calls :
    /\ pc[c] = "await"
    /\ row.status = "waiting_approval" /\ row.step = req[c].step
    => \E o \in Calls \ {c} : pc[o] \notin Returned \cup {"idle"}

\* "Process death must not strand a running run after its owner lease
\* expires": no run is failed because the call that died left a claim on the
\* key of the tool it was running.
DeathNeverStrands ==
  row.result = "idempotency_in_progress" =>
    \A k \in Keys :
      claims[k].state = "claimed" => pc[claims[k].owner] # "crashed"

=============================================================================
