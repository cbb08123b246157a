------------------------- MODULE RunRefinementProofs -------------------------
(***************************************************************************)
(* That RunExecution implements DurableRun, that an approve call that      *)
(* returns a run has seen its decision take effect, and that the audit     *)
(* trail replays the run, for every number of calls, every set of tool     *)
(* actions and decisions and every budget.                                 *)
(***************************************************************************)
EXTENDS RunExecutionProofs, SequenceTheorems

\* Who pauses a run it owns pauses an undecided step.  An approve call has its
\* decision behind it; it denies only what was denied, and while it holds a run
\* it is at the decided step or past it.
DriveOK(c) ==
  /\ pc[c] = "pausing" /\ lease.owner = c => ~Decided(snap[c].step)
  /\ pc[c] \in {"decided", "deny_claim", "denying"} => req[c].kind = "approve"
  /\ req[c].kind = "approve" =>
       /\ Decided(req[c].step)
       /\ approvals[req[c].step].decision = req[c].decision
       /\ pc[c] \in {"deny_claim", "denying"} => req[c].decision \notin Allowing
       /\ pc[c] \in Executing => snap[c].step >= req[c].step
       /\ pc[c] = "release" /\ fault[c] = "none" =>
            snap[c].status \in Terminal \/ snap[c].step > req[c].step

DrivesOK == \A c \in Calls : DriveOK(c)

RInv == IInv /\ SInv /\ DrivesOK

-----------------------------------------------------------------------------
(* The steps of other calls *)

\* A step of one call makes no other call the owner and leaves the others'
\* requests alone.
LEMMA OtherCalls ==
  ASSUME IInv, NEW c \in Calls, StepOf(c), NEW d \in Calls, d # c
  PROVE  req'[d] = req[d] /\ (lease'.owner = d => lease.owner = d)
  <1>0. fault[c] # "stale_version" /\ req \in [Calls -> Request]
    BY DEF IInv, OwnerIsCurrent, TypeOK
  <1>1. lease'.owner = d => lease.owner = d
    <2>1. lease'.owner \in {lease.owner, NoCall, c}
      BY <1>0, StepKinds, OutsideEffect, SavingEffect, QuietEffect DEF IInv
    <2> QED
      BY <2>1, StoreAssumption
  <1>2. ASSUME NEW l, Return(c, l) PROVE req'[d] = req[d]
    BY <1>0, <1>2 DEF Return
  <1>3. AfterConflict(c) => req'[d] = req[d]
    BY <1>2 DEF AfterConflict
  <1>4. Saving(c) => req' = req
    BY DEF Saving, Enter, NextAction, Finish, PolicyFails, Pause, Checkpoint,
           TerminalFailure, Deny
  <1>5. Start(c) \/ Claim(c) \/ Release(c) \/ Crash(c) => req'[d] = req[d]
    BY <1>0, <1>2, <1>3 DEF Start, Claim, Release, Crash
  <1>6. ASSUME NEW s \in Steps, NEW a \in ToolActions, NEW e \in Decisions,
               Approve(c, s, a, e)
        PROVE  req'[d] = req[d]
    BY <1>0, <1>2, <1>6 DEF Approve
  <1>7. Outside(c) => req'[d] = req[d]
    BY <1>0, <1>2, <1>6 DEF Outside, Resume, Reread, Poll, GiveUp, Cancel
  <1> QED
    BY <1>0, <1>1, <1>4, <1>5, <1>7, StepKinds, QuietEffect DEF IInv

\* A call whose own variables stay keeps its facts: no decision is recorded
\* at the step of an owner, and none is ever replaced.
LEMMA DriveFrame ==
  ASSUME IInv, DrivesOK, [Next]_vars, NEW c \in Calls,
         /\ pc'[c] = pc[c] /\ snap'[c] = snap[c] /\ fault'[c] = fault[c]
         /\ req'[c] = req[c] /\ (lease'.owner = c => lease.owner = c)
  PROVE  DriveOK(c)'
  <1>0. DriveOK(c) /\ req[c].step \in Steps
    BY DEF DrivesOK, IInv, TypeOK, Request
  <1>1. pc[c] = "pausing" /\ lease'.owner = c => ~Decided(snap[c].step)'
    <2>1. SUFFICES ASSUME pc[c] = "pausing", lease'.owner = c
                   PROVE  ~Decided(snap[c].step)'
      OBVIOUS
    <2>2. snap[c] = row /\ snap[c].status = "running"
      BY <2>1 DEF IInv, OwnerIsCurrent, LocalsOK, LocalOK, InLoop, Executing
    <2>3. approvals' = approvals
      BY <2>2, DecisionsKept
    <2> QED
      BY <1>0, <2>1, <2>3 DEF DriveOK, Decided
  <1>2. req[c].kind = "approve" =>
          approvals'[req[c].step] = approvals[req[c].step]
    BY <1>0, DecisionsKept DEF DriveOK
  <1> QED
    BY <1>0, <1>1, <1>2 DEF DriveOK, Decided

-----------------------------------------------------------------------------
(* The steps of the call itself *)

\* A call without an approve request that is not about to pause claims nothing.
LEMMA NoRequestNoClaim ==
  ASSUME NEW c \in Calls, req'[c].kind # "approve",
         pc'[c] \notin {"pausing", "decided", "deny_claim", "denying"}
  PROVE  DriveOK(c)'
  BY DEF DriveOK

\* So a call that returned claims nothing.
LEMMA ReturnDrives ==
  ASSUME IInv, NEW c \in Calls, NEW l \in Returned, Return(c, l)
  PROVE  DriveOK(c)'
  <1>1. req'[c].kind = "none" /\ pc'[c] = l
    BY DEF Return, Goto, NoRequest, IInv, TypeOK
  <1> QED
    BY <1>1, NoRequestNoClaim DEF Returned

\* A call that waits for a winner keeps its request.
LEMMA ConflictDrives ==
  ASSUME IInv, DrivesOK, NEW c \in Calls, AfterConflict(c),
         approvals' = approvals
  PROVE  DriveOK(c)'
  <1>1. CASE Return(c, "raised")
    BY <1>1, ReturnDrives DEF Returned
  <1>2. CASE req[c].kind = "approve" /\ Goto(c, "await") /\ UNCHANGED req
    BY <1>2 DEF DrivesOK, DriveOK, Goto, IInv, TypeOK, Executing, Decided
  <1> QED
    BY <1>1, <1>2 DEF AfterConflict

\* Invocations, the decision made durable, and the steps outside the lease.
LEMMA OutsideDrives ==
  ASSUME IInv, DrivesOK, NEW c \in Calls, Start(c) \/ Outside(c) \/ Crash(c)
  PROVE  DriveOK(c)'
  <1>0. /\ pc \in [Calls -> Locations] /\ req \in [Calls -> Request]
        /\ approvals \in [Steps -> Approval] /\ DriveOK(c)
        /\ {"done", "raised", "gave_up", "crashed"} = Returned
    BY DEF IInv, TypeOK, StoreTypeOK, DrivesOK, Returned
  <1>1. CASE Start(c)
    <2>1. req'[c].kind = "start" /\ pc'[c] = "claim"
      BY <1>0, <1>1 DEF Start, Goto, Request
    <2> QED
      BY <2>1, NoRequestNoClaim
  <1>2. CASE Crash(c) \/ Poll(c) \/ GiveUp(c) \/ (Cancel(c) /\ pc[c] = "await")
    BY <1>0, <1>2, ReturnDrives DEF Crash, Poll, GiveUp, Cancel
  <1>3. CASE Resume(c)
    <2>1. CASE Return(c, "raised")
      BY <1>0, <2>1, ReturnDrives
    <2>2. CASE Goto(c, "claim") /\ req' = [req EXCEPT ![c].kind = "resume"]
      <3>1. req'[c].kind = "resume" /\ pc'[c] = "claim"
        BY <1>0, <2>2 DEF Goto, Request
      <3> QED
        BY <3>1, NoRequestNoClaim
    <2> QED
      BY <1>3, <2>1, <2>2 DEF Resume
  <1>4. ASSUME NEW s \in Steps, NEW a \in ToolActions, NEW d \in Decisions,
               Approve(c, s, a, d)
        PROVE  DriveOK(c)'
    <2>1. CASE Return(c, "raised")
      BY <1>0, <2>1, ReturnDrives
    <2>2. CASE /\ DecisionAccepted(s, a, d) /\ Goto(c, "decided")
               /\ req' = [req EXCEPT ![c] = [kind |-> "approve", step |-> s,
                                             action |-> a, decision |-> d]]
      <3>1. approvals'[s] = [action |-> a, decision |-> d]
        BY <1>0, <1>4, <2>2
           DEF DecisionAccepted, Approve, RecordPendingApproval
      <3>2. /\ req'[c].kind = "approve" /\ req'[c].step = s
            /\ req'[c].decision = d /\ pc'[c] = "decided"
        BY <1>0, <2>2 DEF Goto
      <3>3. approvals'[s] # NoApproval /\ approvals'[s].decision = d
        BY <3>1, StoreAssumption DEF NoApproval
      <3> QED
        BY <3>2, <3>3 DEF DriveOK, Decided, Executing
    <2> QED
      BY <1>4, <2>1, <2>2 DEF Approve
  <1>5. CASE Reread(c)
    <2>0. approvals' = approvals /\ pc[c] = "decided"
      BY <1>5 DEF Reread, storeVars
    <2>1. CASE Return(c, "done") \/ Return(c, "raised")
      BY <1>0, <2>1, ReturnDrives
    <2>2. CASE /\ Goto(c, "await") \/ Goto(c, "claim")
               /\ UNCHANGED req
      BY <1>0, <2>0, <2>2 DEF DriveOK, Goto, Executing, Decided
    <2>3. CASE /\ req[c].decision \notin Allowing
               /\ Goto(c, "deny_claim") /\ UNCHANGED req
      BY <1>0, <2>0, <2>3 DEF DriveOK, Goto, Executing, Decided
    <2> QED
      BY <1>5, <2>1, <2>2, <2>3 DEF Reread
  <1> QED
    BY <1>1, <1>2, <1>3, <1>4, <1>5 DEF Outside

\* Who claims the lease reads a run that has come to every decided step.
LEMMA LeaseDrives ==
  ASSUME IInv, SInv, DrivesOK, NEW c \in Calls, Claim(c) \/ Release(c)
  PROVE  DriveOK(c)'
  <1>0. /\ pc \in [Calls -> Locations] /\ req \in [Calls -> Request]
        /\ snap \in [Calls -> RunRow] /\ DriveOK(c) /\ req[c].step \in Steps
    BY DEF IInv, TypeOK, DrivesOK, Request
  <1>1. CASE Claim(c)
    <2>0. approvals' = approvals
      BY <1>1 DEF Claim, ClaimRunExecution, storeVars
    <2>1. CASE AfterConflict(c)
      BY <2>0, <2>1, ConflictDrives
    <2>2. CASE /\ snap' = [snap EXCEPT ![c] = row] /\ UNCHANGED req
               /\ Goto(c, IF pc[c] = "claim" THEN "enter" ELSE "denying")
      <3>1. Decided(req[c].step) => row.step >= req[c].step
        BY <1>0 DEF SInv, ReviewInv, ReviewOK
      <3>2. /\ pc'[c] = IF pc[c] = "claim" THEN "enter" ELSE "denying"
            /\ snap'[c] = row /\ req'[c] = req[c]
            /\ pc[c] \in {"claim", "deny_claim"}
        BY <1>0, <1>1, <2>2 DEF Goto, Claim
      <3> QED
        BY <1>0, <2>0, <3>1, <3>2 DEF DriveOK, Decided
    <2> QED
      BY <1>1, <2>1, <2>2 DEF Claim
  <1>2. CASE Release(c)
    <2>1. approvals' = approvals
      BY <1>2 DEF Release, ReleaseRunExecution
    <2>2. Return(c, "raised") \/ Return(c, "done") \/ AfterConflict(c)
      BY <1>2 DEF Release
    <2> QED
      BY <2>1, <2>2, ReturnDrives, ConflictDrives DEF Returned
  <1> QED
    BY <1>1, <1>2

\* Inside the lease, away from the saves: only the check of a missing approval
\* leads to a pause, and only errors to the release.
LEMMA QuietDrives ==
  ASSUME IInv, DrivesOK, NEW c \in Calls, Quiet(c)
  PROVE  DriveOK(c)'
  <1>0. /\ pc \in [Calls -> Locations] /\ fault \in [Calls -> Results \cup Errors]
        /\ DriveOK(c)
        /\ UNCHANGED <<approvals, snap, req>>
        /\ pc[c] \in Executing
    BY QuietEffect DEF IInv, TypeOK, DrivesOK, OwnerIsCurrent
  <1>1. ASSUME pc'[c] \notin {"pausing", "decided", "deny_claim", "denying"},
               pc'[c] = "release" => fault'[c] # "none"
        PROVE  DriveOK(c)'
    BY <1>0, <1>1 DEF DriveOK, Decided
  <1>2. ASSUME NEW l, Goto(c, l),
               l \notin {"pausing", "decided", "deny_claim", "denying", "release"}
        PROVE  DriveOK(c)'
    BY <1>0, <1>1, <1>2 DEF Goto
  <1>3. ASSUME NEW e, Raise(c, e), e # "none"
        PROVE  DriveOK(c)'
    BY <1>0, <1>1, <1>3 DEF Raise, Goto
  <1>4. CASE \E code : FailWith(c, code)
    BY <1>2, <1>4 DEF FailWith
  <1>5. CASE \E a \in Answers : PolicyAnswers(c, a)
    BY <1>2, <1>5 DEF PolicyAnswers
  <1>6. CASE PolicyRaises(c) \/ Preflight(c) \/ CallTool(c)
    BY <1>2, <1>4, <1>6 DEF PolicyRaises, Preflight, CallTool
  <1>7. CASE CheckApproval(c)
    <2>1. CASE Goto(c, "call")
      BY <1>2, <2>1
    <2>2. CASE /\ ApprovalFailure(snap[c].step, act[c]) = "approval_required"
               /\ Goto(c, "pausing")
      <3>1. ~Decided(snap[c].step) /\ pc'[c] = "pausing"
        BY <1>0, <2>2 DEF ApprovalFailure, Goto
      <3> QED
        BY <1>0, <3>1 DEF DriveOK, Decided
    <2> QED
      BY <1>4, <1>7, <2>1, <2>2 DEF CheckApproval
  <1>8. ASSUME NEW b \in BOOLEAN, HandlerSucceeds(c, b) \/ HandlerFails(c, b)
        PROVE  DriveOK(c)'
    BY <1>2, <1>3, <1>4, <1>8 DEF HandlerSucceeds, HandlerFails
  <1>9. CASE Heartbeat(c)
    BY <1>1, <1>9 DEF Heartbeat, localVars
  <1>10. CASE Cancel(c) /\ pc[c] # "await"
    BY <1>3, <1>10 DEF Cancel
  <1> QED
    BY <1>5, <1>6, <1>7, <1>8, <1>9, <1>10 DEF Quiet

\* A save that ends the work leaves the run terminal, or paused past every
\* decision; the others go on from the same step or the next.
LEMMA SavingDrives ==
  ASSUME IInv, DrivesOK, [Next]_vars, NEW c \in Calls, Saving(c)
  PROVE  DriveOK(c)'
  <1> USE DEF IInv
  <1>0. /\ pc \in [Calls -> Locations] /\ fault \in [Calls -> Results \cup Errors]
        /\ DriveOK(c) /\ req' = req /\ approvals' = approvals
        /\ pc[c] \in Executing /\ snap[c] \in RunRow
        /\ req[c].step \in Nat /\ snap[c].step \in Nat
        /\ snap'[c].step \in Nat
    <2>1. req' = req
      BY DEF Saving, Enter, NextAction, Finish, PolicyFails, Pause, Checkpoint,
             TerminalFailure, Deny
    <2>2. req[c].step \in Nat /\ snap[c].step \in Nat
      BY StoreAssumption DEF TypeOK, Request, Steps, RunRow
    <2>3. snap'[c].step \in Nat
      BY TypeStep DEF TypeOK, RunRow
    <2> QED
      BY <2>1, <2>2, <2>3, SavingEffect DEF TypeOK, DrivesOK
  <1>1. snap'[c].step >= snap[c].step
    <2>1. \/ snap'[c] = snap[c]
          \/ snap[c] = row /\ snap'[c] = row' /\ (row' = row \/ RowMove(c))
      BY SavingMoves, SavingEffect
    <2>2. RowMove(c) => row'.step \in {row.step, row.step + 1}
      BY DEF RowMove, Same
    <2> QED
      BY <1>0, <2>1, <2>2
  <1>2. ASSUME pc'[c] \notin {"pausing", "decided", "deny_claim", "denying"},
               pc'[c] = "release" /\ fault'[c] = "none" =>
                 \/ snap'[c].status \in Terminal
                 \/ req[c].kind = "approve" => snap'[c].step > req[c].step
        PROVE  DriveOK(c)'
    <2>1. req[c].kind = "approve" => snap'[c].step >= req[c].step
      BY <1>0, <1>1 DEF DriveOK
    <2> QED
      BY <1>0, <1>2, <2>1 DEF DriveOK, Decided
  <1>3. ASSUME pc'[c] \in {"loop", "policy", "chosen", "failing"}
        PROVE  DriveOK(c)'
    BY <1>2, <1>3
  <1>4. ASSUME NEW e, Raise(c, e), e # "none"
        PROVE  DriveOK(c)'
    BY <1>0, <1>2, <1>4 DEF Raise, Goto
  <1>5. ASSUME NEW run \in RunRow, run.status \in Terminal,
               SaveStep(c, run, "release")
        PROVE  DriveOK(c)'
    <2>1. CASE fault'[c] = "ownership_lost" /\ pc'[c] = "release"
      BY <1>2, <2>1
    <2>2. CASE /\ pc'[c] = "release"
               /\ snap'[c] = [run EXCEPT !.version = snap[c].version + 1]
      <3>1. snap'[c].status \in Terminal
        BY <1>5, <2>2, VersionIsAllThatChanges DEF Same
      <3> QED
        BY <1>2, <2>2, <3>1
    <2> QED
      BY <1>5, <2>1, <2>2 DEF SaveStep
  <1>6. ASSUME NEW run, NEW next \in {"loop", "policy"}, SaveStep(c, run, next)
        PROVE  DriveOK(c)'
    <2>1. \/ pc'[c] = next
          \/ pc'[c] = "release" /\ fault'[c] = "ownership_lost"
      BY <1>6 DEF SaveStep
    <2> QED
      BY <1>2, <1>3, <2>1
  <1>7. CASE Enter(c)
    <2>1. CASE SaveStep(c, Entered(snap[c]), "loop")
      BY <1>6, <2>1
    <2>2. CASE UNCHANGED <<storeVars, snap, fault>> /\ Goto(c, "loop")
      BY <1>0, <1>3, <2>2 DEF Goto
    <2>3. CASE /\ snap[c].status \in Terminal /\ Goto(c, "release")
               /\ UNCHANGED snap
      BY <1>0, <1>2, <2>3 DEF Goto
    <2>4. \/ \E es : Save(c, Entered(snap[c]), es, "loop")
          \/ UNCHANGED <<storeVars, snap, fault>> /\ Goto(c, "loop")
          \/ /\ snap[c].status \in Terminal /\ Goto(c, "release")
             /\ UNCHANGED snap
      BY <1>7 DEF Enter
    <2> QED
      BY <1>0, <2>1, <2>2, <2>3, <2>4, SaveIsSaveStep
  <1>8. CASE NextAction(c)
    <2>1. CASE Goto(c, "chosen") \/ FailWith(c, "action_budget_exhausted")
      BY <1>0, <1>3, <2>1 DEF Goto, FailWith
    <2>2. CASE \E run : Save(c, run, <<>>, "policy")
      BY <1>0, <1>6, <2>2, SaveIsSaveStep
    <2> QED
      BY <1>8, <2>1, <2>2 DEF NextAction
  <1>9. CASE Finish(c)
    <2> DEFINE run == [snap[c] EXCEPT !.status = "succeeded", !.step = @ + 1,
                                      !.pending = NoAction,
                                      !.result = "finished"]
    <2>1. SaveStep(c, run, "release")
      BY <1>9, Saves
    <2>2. run \in RunRow /\ run.status = "succeeded"
      BY <1>0, FinalValues, SavedFields
    <2> HIDE DEF run
    <2> QED
      BY <1>5, <2>1, <2>2 DEF Terminal
  <1>10. CASE PolicyFails(c)
    <2> DEFINE run == [Failed(snap[c], "policy_failed") EXCEPT !.step = @ + 1]
    <2>1. SaveStep(c, run, "release")
      BY <1>10, Saves
    <2>2. run \in RunRow /\ run.status = "failed"
      BY <1>0, FinalValues, SavedFields
    <2> HIDE DEF run
    <2> QED
      BY <1>5, <2>1, <2>2 DEF Terminal
  <1>11. ASSUME NEW code \in Results,
                SaveStep(c, Failed(snap[c], code), "release")
         PROVE  DriveOK(c)'
    <2> DEFINE run == Failed(snap[c], code)
    <2>1. SaveStep(c, run, "release")
      BY <1>11
    <2>2. run \in RunRow
      BY <1>0, <1>11, RunValues
    <2>3. run.status = "failed"
      <3>1. snap[c] \in RunRow
        BY <1>0
      <3> QED
        BY <3>1 DEF Failed, RunRow
    <2> HIDE DEF run
    <2> QED
      BY <1>5, <2>1, <2>2, <2>3 DEF Terminal
  <1>12. CASE TerminalFailure(c)
    <2>1. fault[c] \in Results
      BY <1>12 DEF TerminalFailure, LocalsOK, LocalOK
    <2> QED
      BY <1>11, <1>12, <2>1, FailureIsSaveStep
  <1>13. CASE Deny(c)
    <2>1. "approval_denied" \in Results
      BY DEF Results
    <2> QED
      BY <1>4, <1>11, <1>13, <2>1, Saves
  <1>14. CASE Pause(c)
    <2> DEFINE run == [snap[c] EXCEPT !.status = "waiting_approval",
                                      !.pendingApproval = TRUE,
                                      !.pending = act[c]]
    <2>1. SaveStep(c, run, "release") /\ pc[c] = "pausing"
      BY <1>14, Saves DEF Pause
    <2>2. act[c] \in ToolActions
      BY <2>1 DEF LocalsOK, LocalOK, OnTool
    <2>3. run \in RunRow
      BY <1>0, <2>2, RunValues
    <2>6. run.step = snap[c].step
      BY <1>0, SavedFields
    <2> HIDE DEF run
    <2>4. CASE fault'[c] = "ownership_lost" /\ pc'[c] = "release"
      BY <1>2, <2>4
    <2>5. CASE /\ OwnsLease(c) /\ pc'[c] = "release"
               /\ snap'[c] = [run EXCEPT !.version = snap[c].version + 1]
      <3>1. ~Decided(snap[c].step)
        BY <1>0, <2>1, <2>5 DEF DriveOK, OwnsLease
      <3>2. req[c].kind = "approve" => snap[c].step > req[c].step
        <4>1. req[c].kind = "approve" =>
                snap[c].step >= req[c].step /\ snap[c].step # req[c].step
          BY <1>0, <3>1 DEF DriveOK
        <4> QED
          BY <1>0, <4>1
      <3>3. snap'[c].step = snap[c].step
        BY <2>3, <2>5, <2>6, VersionIsAllThatChanges DEF Same
      <3> QED
        BY <1>2, <2>5, <3>2, <3>3
    <2> QED
      BY <2>1, <2>4, <2>5 DEF SaveStep
  <1>15. CASE Checkpoint(c)
    <2>1. \E run : SaveStep(c, run, "loop")
      BY <1>15, Saves
    <2> QED
      BY <1>6, <2>1
  <1> QED
    BY <1>7, <1>8, <1>9, <1>10, <1>12, <1>13, <1>14, <1>15 DEF Saving

\* Every step keeps what the calls know of their decisions.
LEMMA DrivesStep ==
  ASSUME IInv, SInv, DrivesOK, [Next]_vars
  PROVE  DrivesOK'
  <1>1. ASSUME NEW c \in Calls, StepOf(c) PROVE DrivesOK'
    <2>1. DriveOK(c)'
      BY <1>1, StepKinds, OutsideDrives, LeaseDrives, QuietDrives, SavingDrives
    <2>2. \A d \in Calls \ {c} : DriveOK(d)'
      BY <1>1, Frame, OtherCalls, DriveFrame DEF IInv
    <2> QED
      BY <2>1, <2>2 DEF DrivesOK
  <1>2. ASSUME \/ RunLeaseExpires \/ Quiescent \/ UNCHANGED vars
               \/ \E k \in Keys : ToolClaimExpires(k)
        PROVE  DrivesOK'
    <2>1. lease'.owner = lease.owner
      <3>1. RunLeaseExpires => lease'.owner = lease.owner
        BY DEF RunLeaseExpires, LeaseExpires, IInv, TypeOK, StoreTypeOK, Lease,
               NoLease
      <3> QED
        BY <1>2, <3>1 DEF Quiescent, vars, ToolClaimExpires, storeVars
    <2>2. UNCHANGED <<pc, snap, fault, req>>
      BY <1>2 DEF RunLeaseExpires, Quiescent, vars, ToolClaimExpires, localVars
    <2> QED
      BY <2>1, <2>2, DriveFrame DEF DrivesOK
  <1> QED
    BY <1>1, <1>2 DEF Next, StepOf

\* The whole invariant.
LEMMA RefinementInvariance == Spec => []RInv
  <1>1. Init => RInv
    <2>1. Init => DrivesOK
      <3>1. SUFFICES ASSUME Init, NEW c \in Calls PROVE DriveOK(c)
        BY DEF DrivesOK
      <3>2. pc[c] = "idle" /\ req[c].kind = "none"
        BY <3>1 DEF Init, NoRequest
      <3> QED
        BY <3>2 DEF DriveOK
    <2> QED
      BY <2>1, InvInit, SafetyInit DEF RInv
  <1>2. RInv /\ [Next]_vars => RInv'
    BY InvStep, SafetyStep, DrivesStep DEF RInv
  <1> QED
    BY <1>1, <1>2, PTL DEF Spec

-----------------------------------------------------------------------------
(* The promise of DurableRun *)

\* The actions performed, as DurableRun keeps them.
History == [i \in DOMAIN row.toolResults |-> row.toolResults[i].action]

\* The cursor of DurableRun is the step of a run at work.
LEMMA CursorIsStep ==
  ASSUME IInv, RowInv
  PROVE  /\ History \in Seq(ToolActions)
         /\ Len(History) = Len(row.toolResults)
         /\ row.status \notin Terminal =>
              Len(History) = row.step /\ row.step \in Steps
  <1>1. row.toolResults \in Seq(ToolResult)
    BY DEF IInv, TypeOK, StoreTypeOK, RunRow
  <1>2. /\ Len(row.toolResults) \in Nat
        /\ DOMAIN row.toolResults = 1..Len(row.toolResults)
        /\ \A i \in 1..Len(row.toolResults) : row.toolResults[i] \in ToolResult
    BY <1>1, LenProperties
  <1>3. \A i \in 1..Len(row.toolResults) :
          row.toolResults[i].action \in ToolActions
    BY <1>2 DEF ToolResult
  <1>4. /\ DOMAIN History = 1..Len(row.toolResults)
        /\ History \in [1..Len(row.toolResults) -> ToolActions]
    BY <1>2, <1>3 DEF History
  <1>5. History \in Seq(ToolActions)
    BY <1>2, <1>4, SeqDef
  <1>6. Len(History) = Len(row.toolResults)
    BY <1>2, <1>4, <1>5, LenProperties
  <1>7. row.status \notin Terminal =>
          Len(row.toolResults) = row.step /\ row.step \in Steps
    <2>1. row.step \in Nat /\ row.policyCalls \in Nat
      BY DEF IInv, TypeOK, StoreTypeOK, RunRow
    <2> QED
      BY <2>1, StoreAssumption DEF IInv, SlotsOK, SlotsHold, Steps, RowInv
  <1> QED
    BY <1>5, <1>6, <1>7

\* A checkpoint appends the action it performed.
LEMMA HistoryGrows ==
  ASSUME IInv, RowInv, NEW a \in ToolActions, NEW d \in Calls,
         row'.toolResults = Append(row.toolResults, [action |-> a, by |-> d])
  PROVE  History' = Append(History, a)
  <1> DEFINE r == [action |-> a, by |-> d]
             n == Len(row.toolResults)
             longer == Append(row.toolResults, r)
  <1>1. r \in ToolResult /\ r.action = a
    BY DEF ToolResult
  <1>2. row.toolResults \in Seq(ToolResult) /\ n \in Nat
        /\ DOMAIN row.toolResults = 1..n
    BY LenProperties DEF IInv, TypeOK, StoreTypeOK, RunRow
  <1> HIDE DEF r, n
  <1>3. /\ longer \in Seq(ToolResult) /\ Len(longer) = n + 1
        /\ \A i \in 1..n : longer[i] = row.toolResults[i]
        /\ longer[n + 1] = r
    BY <1>1, <1>2, AppendProperties DEF n
  <1>4. DOMAIN longer = 1..(n + 1)
    BY <1>3, LenProperties
  <1>5. /\ History \in Seq(ToolActions) /\ Len(History) = n
        /\ \A i \in 1..n : History[i] = row.toolResults[i].action
    BY <1>2, CursorIsStep DEF History, n
  <1> DEFINE after == [i \in DOMAIN longer |-> longer[i].action]
             more == Append(History, a)
  <1>6. History' = after
    BY DEF History, r
  <1> HIDE DEF longer
  <1>7. /\ more \in Seq(ToolActions) /\ Len(more) = n + 1
        /\ \A i \in 1..n : more[i] = History[i]
        /\ more[n + 1] = a
    BY <1>5, AppendProperties
  <1> HIDE DEF more
  <1>8. /\ DOMAIN more = 1..(n + 1)
        /\ more = [i \in 1..(n + 1) |-> more[i]]
    BY <1>7, LenProperties
  <1>9. ASSUME NEW i \in 1..(n + 1) PROVE longer[i].action = more[i]
    <2>1. CASE i \in 1..n
      BY <1>3, <1>5, <1>7, <2>1
    <2>2. CASE i = n + 1
      BY <1>1, <1>3, <1>7, <2>2
    <2> QED
      BY <1>2, <2>1, <2>2
  <1>10. after = more
    BY <1>4, <1>8, <1>9
  <1> QED
    BY <1>6, <1>10 DEF more

\* DurableRun's view of a run at work before and after a move of the call that
\* drives it.
LEMMA MoveView ==
  ASSUME RInv, [Next]_vars, NEW c \in Calls, Drives(c), RowMove(c)
  PROVE  /\ AbstractStatus =
              IF row.status = "waiting_approval" THEN "waiting" ELSE "open"
         /\ row'.status = "running" => AbstractStatus' = "open"
         /\ row'.status = "waiting_approval" => AbstractStatus' = "waiting"
         /\ row'.status \in Terminal => AbstractStatus' = row'.status
         /\ row'.toolResults = row.toolResults => History' = History
         /\ pc[c] \in InLoop => row.status = "running"
         /\ Len(History) = row.step /\ row.step \in Steps
  <1> USE DEF RInv
  <1>1. row.status \in {"queued", "running", "waiting_approval"}
    BY DEF IInv, TypeOK, StoreTypeOK, RunRow, Status, Drives
  <1>2. AbstractStatus =
          IF row.status = "waiting_approval" THEN "waiting" ELSE "open"
    BY <1>1 DEF Drives, AbstractStatus
  <1>3. pc[c] \in InLoop => row.status = "running"
    BY DEF IInv, LocalsOK, LocalOK, Drives
  <1>4. row'.status # "queued"
    <2>1. pc[c] \in {"loop", "checkpoint"} => row.status = "running"
      BY <1>3 DEF InLoop
    <2> QED
      BY <2>1 DEF RowMove, Same
  <1>5. Exists'
    <2>1. FreshOK'
      BY InvStep DEF IInv
    <2> QED
      BY <1>4, <2>1 DEF FreshOK, NewRun
  <1>6. /\ row'.status = "running" => AbstractStatus' = "open"
        /\ row'.status = "waiting_approval" => AbstractStatus' = "waiting"
        /\ row'.status \in Terminal => AbstractStatus' = row'.status
    BY <1>5 DEF AbstractStatus, Terminal
  <1>7. row'.toolResults = row.toolResults => History' = History
    BY DEF History
  <1>8. Len(History) = row.step /\ row.step \in Steps
    BY CursorIsStep DEF SInv, Drives
  <1> QED
    BY <1>2, <1>3, <1>6, <1>7, <1>8

\* The moves of a run are steps of DurableRun: the checkpoint performs an
\* action it may perform, and a failure from a pause follows a denial.
LEMMA MoveKeepsPromise ==
  ASSUME RInv, [Next]_vars, approvals' = approvals,
         NEW c \in Calls, Drives(c), RowMove(c)
  PROVE  [Promise!Next]_(Promise!absVars)
  <1> USE DEF RInv
  <1>0. /\ AbstractStatus =
             IF row.status = "waiting_approval" THEN "waiting" ELSE "open"
        /\ row'.status = "running" => AbstractStatus' = "open"
        /\ row'.status = "waiting_approval" => AbstractStatus' = "waiting"
        /\ row'.status \in Terminal => AbstractStatus' = row'.status
        /\ row'.toolResults = row.toolResults => History' = History
        /\ pc[c] \in InLoop => row.status = "running"
        /\ Len(History) = row.step /\ row.step \in Steps
    BY MoveView
  <1>1. /\ ReviewOK(row.step)
        /\ ActsOK /\ ActOK(c) /\ DriveOK(c) /\ IInv
    BY <1>0 DEF SInv, ReviewInv, ActsOK, DrivesOK
  <1>2. ASSUME AbstractStatus = "open", AbstractStatus' \in {"open", "failed"},
               History' = History
        PROVE  [Promise!Next]_(Promise!absVars)
    BY <1>2 DEF Promise!Next, Promise!absVars, Promise!Fail, History
  <1>3. CASE /\ row'.status = "running" /\ row'.toolResults = row.toolResults
    BY <1>0, <1>2, <1>3
       DEF Promise!Next, Promise!absVars, Promise!Continue, History
  <1>4. CASE pc[c] = "loop" /\ Same(row', row)
    <2>1. row'.status = "running" /\ row'.toolResults = row.toolResults
      BY <1>0, <1>4 DEF Same, InLoop
    <2> QED
      BY <1>3, <2>1
  <1>5. CASE /\ pc[c] = "chosen" /\ act[c] = "finish"
             /\ row'.status = "succeeded" /\ row'.toolResults = row.toolResults
    <2>1. approvals[row.step] = NoApproval
      BY <1>0, <1>1, <1>5, DecidedAction DEF Decided
    <2>2. AbstractStatus = "open" /\ AbstractStatus' = "succeeded"
      BY <1>0, <1>5 DEF InLoop, Terminal
    <2>3. Promise!Succeed
      BY <1>0, <1>5, <2>1, <2>2 DEF Promise!Succeed, Promise!Cursor, History
    <2> QED
      BY <2>3 DEF Promise!Next
  <1>6. CASE /\ pc[c] \in {"chosen", "failing"}
             /\ row'.status = "failed" /\ row'.toolResults = row.toolResults
    BY <1>0, <1>2, <1>6 DEF InLoop, Terminal
  <1>7. CASE /\ pc[c] = "denying"
             /\ row'.status = "failed" /\ row'.toolResults = row.toolResults
    <2>1. Decided(row.step) /\ approvals[row.step].decision \notin Allowing
      <3>1. /\ req[c].step \in Steps /\ Decided(req[c].step)
            /\ approvals[req[c].step].decision \notin Allowing
        BY <1>1, <1>7 DEF DriveOK, TypeOK, IInv, Request
      <3>2. ReviewOK(req[c].step)
        BY <3>1 DEF SInv, ReviewInv
      <3> QED
        BY <3>1, <3>2 DEF ReviewOK
    <2>2. AbstractStatus' = "failed" /\ History' = History
      BY <1>0, <1>7 DEF Terminal
    <2>3. Promise!Fail
      BY <1>0, <2>1, <2>2
         DEF Promise!Fail, Promise!Cursor, History, Decided
    <2> QED
      BY <2>3 DEF Promise!Next
  <1>8. CASE /\ pc[c] = "pausing" /\ row'.status = "waiting_approval"
             /\ row'.toolResults = row.toolResults
    <2>1. approvals[row.step] = NoApproval
      BY <1>1, <1>8 DEF DriveOK, Drives, Decided
    <2>2. /\ AbstractStatus = "open" /\ AbstractStatus' = "waiting"
          /\ History' = History
      BY <1>0, <1>8 DEF InLoop
    <2>3. Promise!Ask
      BY <1>0, <2>1, <2>2 DEF Promise!Ask, Promise!Cursor, History
    <2> QED
      BY <2>3 DEF Promise!Next
  <1>9. CASE /\ pc[c] = "checkpoint" /\ row'.status = row.status
             /\ row'.toolResults =
                  Append(row.toolResults,
                         [action |-> act[c], by |-> output[c]])
    <2>1. act[c] \in ToolActions /\ output[c] \in Calls
      BY <1>9 DEF IInv, LocalsOK, LocalOK, OnTool
    <2> PICK a \in ToolActions : a = act[c]
      BY <2>1
    <2>2. History' = Append(History, a)
      BY <1>9, <2>1, HistoryGrows DEF SInv
    <2>3. AbstractStatus = "open" /\ AbstractStatus' = "open"
      BY <1>0, <1>9 DEF InLoop
    <2>4. \/ a \notin Gated /\ approvals[row.step] = NoApproval
          \/ /\ approvals[row.step] # NoApproval
             /\ approvals[row.step].action = a
             /\ approvals[row.step].decision \in Allowing
      <3>1. act[c] \in Gated => Allowed(row.step, act[c])
        BY <1>1, <1>9 DEF ActOK, Drives
      <3>2. Allowed(row.step, act[c]) => approvals[row.step] # NoApproval
        BY StoreAssumption DEF Allowed, NoApproval
      <3>3. Decided(row.step) =>
              /\ act[c] = approvals[row.step].action
              /\ approvals[row.step].decision \in Allowing
        BY <1>0, <1>1, <1>9, DecidedAction DEF OnAction
      <3> QED
        BY <3>1, <3>2, <3>3 DEF Decided
    <2>5. Promise!MayPerform(a)
      BY <1>0, <2>4 DEF Promise!MayPerform, Promise!Cursor, History
    <2>6. Promise!Perform(a)
      BY <2>2, <2>3, <2>5 DEF Promise!Perform, History
    <2> QED
      BY <2>6 DEF Promise!Next
  <1> QED
    BY <1>3, <1>4, <1>5, <1>6, <1>7, <1>8, <1>9 DEF RowMove

-----------------------------------------------------------------------------
(* Theorems *)

\* The leases, versions and claims of the store keep the promise a run makes to
\* its clients (domain/runs.py, service.py, orchestrator.py): every step of any
\* number of concurrent calls is a step of DurableRun, or none.
THEOREM Refinement == Spec => ImplementsDurableRun
  <1>1. Init => Promise!Init
    <2> SUFFICES ASSUME Init PROVE Promise!Init
      OBVIOUS
    <2>1. /\ ~Exists /\ row.toolResults = <<>>
          /\ approvals = [s \in Steps |-> NoApproval]
      BY DEF Init, StoreInit, NewRun, Exists
    <2>2. History = <<>>
      BY <2>1 DEF History
    <2> QED
      BY <2>1, <2>2 DEF Promise!Init, AbstractStatus, History
  <1>2. ASSUME RInv, [Next]_vars
        PROVE  [Promise!Next]_(Promise!absVars)
    <2> USE <1>2 DEF RInv
    <2>1. CASE row' = row /\ approvals' = approvals
      BY <2>1 DEF Promise!absVars, AbstractStatus, Exists
    <2>2. ASSUME NEW s \in Steps, NEW a \in ToolActions, NEW d \in Decisions,
                 row' = row, IsPendingAction(s, a), ~Decided(s),
                 approvals' =
                   [approvals EXCEPT ![s] = [action |-> a, decision |-> d]]
          PROVE  [Promise!Next]_(Promise!absVars)
      <3>1. row.status = "waiting_approval" /\ row.step = s
        BY <2>2 DEF IsPendingAction
      <3>2. Exists
        BY <3>1 DEF IInv, FreshOK, NewRun
      <3>3. AbstractStatus = "waiting" /\ AbstractStatus' = "waiting"
        BY <2>2, <3>1, <3>2 DEF AbstractStatus, Exists
      <3>4. Len(History) = s /\ History' = History
        BY <2>2, <3>1, CursorIsStep DEF SInv, Terminal, History
      <3>5. Promise!Decide(a, d)
        BY <2>2, <3>3, <3>4
           DEF Promise!Decide, Promise!Cursor, History, Decided
      <3> QED
        BY <3>5 DEF Promise!Next
    <2>3. CASE /\ approvals' = approvals /\ row = NewRun
               /\ row' = [NewRun EXCEPT !.version = 1]
      <3>1. /\ ~Exists /\ Exists' /\ row'.status = "queued"
            /\ row'.toolResults = row.toolResults
        BY <2>3 DEF Exists, NewRun
      <3>2. Promise!Create
        BY <2>3, <3>1 DEF Promise!Create, AbstractStatus
      <3> QED
        BY <3>2 DEF Promise!Next
    <2>4. ASSUME NEW c \in Calls, Drives(c), RowMove(c), approvals' = approvals
          PROVE  [Promise!Next]_(Promise!absVars)
      BY <2>4, MoveKeepsPromise
    <2> QED
      BY <2>1, <2>2, <2>3, <2>4, RowMoves, DecisionIsPending
  <1> QED
    BY <1>1, <1>2, RefinementInvariance, PTL
       DEF Spec, ImplementsDurableRun, Promise!Spec

\* An approve call that returns a run has seen its decision take effect
\* (service.approve and its wait for a concurrent winner): the run is past the
\* decided step or terminal.
THEOREM ApprovalReply == Spec => ApprovalReplyIsSettled
  <1>1. ASSUME RInv, [Next]_vars, NEW c \in Calls,
               req[c].kind = "approve", pc[c] # "done", pc'[c] = "done"
        PROVE  row.status \in Terminal \/ row.step > req[c].step
    <2> USE <1>1 DEF RInv
    <2>0. /\ TypeOK /\ fault[c] # "stale_version" /\ DriveOK(c)
          /\ pc \in [Calls -> Locations]
      BY DEF IInv, OwnerIsCurrent, DrivesOK, TypeOK
    <2>1. ASSUME NEW l, Return(c, l) \/ Goto(c, l) PROVE l = "done"
      BY <2>0, <2>1 DEF Return, Goto
    <2>2. CASE Start(c) \/ Claim(c) \/ Crash(c)
      <3>1. ~AfterConflict(c)
        BY <2>1 DEF AfterConflict
      <3>2. CASE Start(c) \/ Crash(c)
        BY <2>1, <3>2 DEF Start, Crash
      <3>3. CASE Claim(c)
        <4>1. Goto(c, IF pc[c] = "claim" THEN "enter" ELSE "denying")
          BY <3>1, <3>3 DEF Claim
        <4> QED
          BY <2>1, <4>1
      <3> QED
        BY <2>2, <3>2, <3>3
    <2>3. CASE Saving(c) \/ Quiet(c)
      <3>1. pc'[c] \in Executing
        BY <2>0, <2>3, SavingEffect, QuietEffect DEF IInv
      <3> QED
        BY <3>1 DEF Executing
    <2>4. CASE Release(c)
      <3>1. ~AfterConflict(c)
        BY <2>1 DEF AfterConflict
      <3>2. fault[c] = "none" /\ lease.owner = c /\ pc[c] = "release"
        BY <2>1, <2>4, <3>1 DEF Release
      <3>3. snap[c] = row
        BY <3>2 DEF IInv, OwnerIsCurrent, Executing
      <3> QED
        BY <2>0, <3>2, <3>3 DEF DriveOK
    <2>5. CASE Outside(c)
      <3>1. CASE Reread(c) \/ Poll(c)
        <4>1. ~Return(c, "raised") /\ ~Goto(c, "await") /\ ~Goto(c, "claim")
              /\ ~Goto(c, "deny_claim")
          BY <2>1
        <4> QED
          BY <3>1, <4>1 DEF Reread, Poll, Settled
      <3>2. CASE Resume(c) \/ GiveUp(c) \/ (Cancel(c) /\ pc[c] = "await")
        BY <2>1, <3>2 DEF Resume, GiveUp, Cancel
      <3>3. ASSUME NEW s \in Steps, NEW a \in ToolActions, NEW d \in Decisions,
                   Approve(c, s, a, d)
            PROVE  FALSE
        BY <2>1, <3>3 DEF Approve
      <3> QED
        BY <2>5, <3>1, <3>2, <3>3 DEF Outside
    <2>6. ASSUME NEW d \in Calls, StepOf(d), d # c PROVE FALSE
      BY <2>0, <2>6, Frame
    <2>7. ASSUME \/ RunLeaseExpires \/ Quiescent \/ UNCHANGED vars
                 \/ \E k \in Keys : ToolClaimExpires(k)
          PROVE  FALSE
      BY <2>7 DEF RunLeaseExpires, Quiescent, vars, ToolClaimExpires, localVars
    <2>8. StepOf(c) => row.status \in Terminal \/ row.step > req[c].step
      BY <2>2, <2>3, <2>4, <2>5, StepKinds
    <2> QED
      BY <2>6, <2>7, <2>8 DEF Next, StepOf
  <1>2. RInv /\ [Next]_vars =>
          [\A c \in Calls :
             req[c].kind = "approve" /\ pc[c] # "done" /\ pc'[c] = "done" =>
               row.status \in Terminal \/ row.step > req[c].step]_vars
    BY <1>1
  <1> QED
    BY <1>2, RefinementInvariance, PTL DEF Spec, ApprovalReplyIsSettled

-----------------------------------------------------------------------------
(* The audit trail *)

\* The operators of TrailReplaysRun for any trail t.
PlacesIn(t, types) == {i \in DOMAIN t : t[i].type \in types}

MovesTo(t, n) == {i \in PlacesIn(t, MoveTypes) : i <= n}

IsLast(i, S) == i \in S /\ \A j \in S : j <= i

After(t, n) ==
  IF MovesTo(t, n) = {} THEN "queued"
  ELSE StatusAfter(t[LastOf(MovesTo(t, n))].type)

CheckpointTypes == {"run.checkpointed"}

Recorded == {"approval.recorded"}

\* Some move is the last one, as StatusUpTo takes for granted.
HasLast(t) ==
  \A n \in 0..Len(t) : MovesTo(t, n) # {} => \E i : IsLast(i, MovesTo(t, n))

Path(t, status) ==
  /\ HasLast(t)
  /\ After(t, Len(t)) = status
  /\ \A i \in PlacesIn(t, MoveTypes) :
       <<After(t, i - 1), StatusAfter(t[i].type)>> \in AllowedTransitions

Numbered(t, n) ==
  /\ {t[i].step : i \in PlacesIn(t, CheckpointTypes)} = 0..(n - 1)
  /\ \A i, j \in PlacesIn(t, CheckpointTypes) : i < j => t[i].step < t[j].step

DecidedOnce(t, steps) ==
  /\ {t[i].step : i \in PlacesIn(t, Recorded)} = steps
  /\ \A i, j \in PlacesIn(t, Recorded) : t[i].step = t[j].step => i = j
  /\ \A i \in PlacesIn(t, Recorded) : After(t, i) = "waiting_approval"

Tells(t, status, n, steps) ==
  /\ t \in Seq(Entries)
  /\ Path(t, status) /\ Numbered(t, n) /\ DecidedOnce(t, steps)

DecidedSteps == {s \in Steps : Decided(s)}

TrailInv == Tells(trail, row.status, Len(row.toolResults), DecidedSteps)

\* An entry at the end leaves the earlier ones where they are.
LEMMA Appended ==
  ASSUME NEW t \in Seq(Entries), NEW e \in Entries
  PROVE  LET t2 == Append(t, e)
         IN  /\ t2 \in Seq(Entries) /\ Len(t) \in Nat /\ Len(t2) = Len(t) + 1
             /\ DOMAIN t = 1..Len(t) /\ DOMAIN t2 = 1..(Len(t) + 1)
             /\ \A i \in 1..Len(t) : t2[i] = t[i]
             /\ t2[Len(t) + 1] = e
BY AppendProperties, LenProperties

LEMMA AppendedPlaces ==
  ASSUME NEW t \in Seq(Entries), NEW e \in Entries, NEW types
  PROVE  /\ e.type \in types =>
              PlacesIn(Append(t, e), types) = PlacesIn(t, types) \cup {Len(t) + 1}
         /\ e.type \notin types =>
              PlacesIn(Append(t, e), types) = PlacesIn(t, types)
         /\ PlacesIn(t, types) \subseteq 1..Len(t)
<1> DEFINE t2 == Append(t, e)
           n == Len(t)
<1>1. /\ n \in Nat /\ DOMAIN t = 1..n /\ DOMAIN t2 = 1..(n + 1)
      /\ \A i \in 1..n : t2[i] = t[i]
      /\ t2[n + 1] = e
  BY Appended
<1> HIDE DEF t2, n
<1>2. 1..(n + 1) = 1..n \cup {n + 1} /\ n + 1 \notin 1..n
  BY <1>1
<1>3. PlacesIn(t2, types) = {i \in 1..n : t[i].type \in types}
                              \cup {i \in {n + 1} : e.type \in types}
  BY <1>1, <1>2 DEF PlacesIn
<1>4. PlacesIn(t, types) = {i \in 1..n : t[i].type \in types}
  BY <1>1 DEF PlacesIn
<1> QED BY <1>3, <1>4 DEF t2, n

\* So the moves up to an earlier place are the same,
LEMMA OldMoves ==
  ASSUME NEW t \in Seq(Entries), NEW e \in Entries, NEW m \in 0..Len(t)
  PROVE  MovesTo(Append(t, e), m) = MovesTo(t, m)
<1>1. Len(t) \in Nat
  BY LenProperties
<1>2. \A i : i = Len(t) + 1 => ~(i <= m)
  BY <1>1
<1> QED BY <1>2, AppendedPlaces DEF MovesTo

\* and so is the status after them.
LEMMA OldStatus ==
  ASSUME NEW t \in Seq(Entries), NEW e \in Entries, NEW m \in 0..Len(t), HasLast(t)
  PROVE  After(Append(t, e), m) = After(t, m)
<1> DEFINE M == MovesTo(t, m)
           i == LastOf(M)
<1>1. MovesTo(Append(t, e), m) = M
  BY OldMoves
<1>2. ASSUME M # {} PROVE i \in M
  BY <1>2 DEF HasLast, IsLast, LastOf
<1>3. M \subseteq 1..Len(t)
  BY AppendedPlaces DEF MovesTo
<1>4. ASSUME M # {} PROVE Append(t, e)[i] = t[i]
  BY <1>2, <1>3, <1>4, Appended
<1> QED BY <1>1, <1>4 DEF After

LEMMA NewStatus ==
  ASSUME NEW t \in Seq(Entries), NEW e \in Entries, HasLast(t)
  PROVE  LET t2 == Append(t, e)
         IN  /\ HasLast(t2)
             /\ e.type \in MoveTypes => After(t2, Len(t2)) = StatusAfter(e.type)
             /\ e.type \notin MoveTypes => After(t2, Len(t2)) = After(t, Len(t))
<1> DEFINE t2 == Append(t, e)
           n == Len(t)
<1>1. /\ n \in Nat /\ Len(t2) = n + 1 /\ t2[n + 1] = e
      /\ \A i \in 1..n : t2[i] = t[i]
  BY Appended
<1>2. /\ e.type \in MoveTypes =>
           PlacesIn(t2, MoveTypes) = PlacesIn(t, MoveTypes) \cup {n + 1}
      /\ e.type \notin MoveTypes =>
           PlacesIn(t2, MoveTypes) = PlacesIn(t, MoveTypes)
      /\ PlacesIn(t, MoveTypes) \subseteq 1..n
  BY AppendedPlaces
<1>3. \A m \in 0..n : MovesTo(t2, m) = MovesTo(t, m)
  BY OldMoves
<1> HIDE DEF t2, n
<1>4. MovesTo(t, n) = PlacesIn(t, MoveTypes) /\ MovesTo(t2, n + 1) = PlacesIn(t2, MoveTypes)
  BY <1>1, <1>2 DEF MovesTo
<1>5. ASSUME e.type \in MoveTypes
      PROVE  IsLast(n + 1, MovesTo(t2, n + 1)) /\ After(t2, n + 1) = StatusAfter(e.type)
  <2> DEFINE M == MovesTo(t2, n + 1)
  <2>1. n + 1 \in M /\ \A i \in M : i <= n + 1 /\ i \in Int
    BY <1>1, <1>2, <1>4, <1>5
  <2>2. LastOf(M) = n + 1
    <3>1. \A i \in M : (\A j \in M : j <= i) => i = n + 1
      BY <1>1, <2>1
    <3> HIDE DEF M
    <3> QED BY <2>1, <3>1 DEF LastOf
  <2> QED BY <1>1, <2>1, <2>2 DEF IsLast, After
<1>6. ASSUME e.type \notin MoveTypes
      PROVE  After(t2, n + 1) = After(t, n) /\ MovesTo(t2, n + 1) = MovesTo(t, n)
  <2>1. MovesTo(t2, n + 1) = MovesTo(t2, n)
    BY <1>1, <1>2, <1>3, <1>4, <1>6
  <2>2. After(t2, n + 1) = After(t2, n)
    BY <2>1 DEF After
  <2>3. After(t2, n) = After(t, n)
    BY <1>1, OldStatus DEF t2, n
  <2> QED BY <1>1, <1>3, <2>1, <2>2, <2>3
<1>7. HasLast(t2)
  <2> SUFFICES ASSUME NEW m \in 0..(n + 1), MovesTo(t2, m) # {}
               PROVE  \E i : IsLast(i, MovesTo(t2, m))
    BY <1>1 DEF HasLast
  <2>1. CASE m = n + 1
    <3>1. n \in 0..n
      BY <1>1
    <3> QED BY <1>5, <1>6, <2>1, <3>1 DEF HasLast, n
  <2>2. CASE m # n + 1
    <3>1. m \in 0..n
      BY <1>1, <2>2
    <3> QED BY <1>3, <3>1 DEF HasLast, n
  <2> QED BY <2>1, <2>2
<1> QED BY <1>1, <1>5, <1>6, <1>7 DEF t2, n

\* What one entry does to what the trail tells.
LEMMA MoveTold ==
  ASSUME NEW t, NEW st, NEW n, NEW steps, Tells(t, st, n, steps),
         NEW e \in Entries, e.type \in MoveTypes,
         <<st, StatusAfter(e.type)>> \in AllowedTransitions
  PROVE  Tells(Append(t, e), StatusAfter(e.type), n, steps)
<1> DEFINE t2 == Append(t, e)
           k == Len(t)
<1>0. t \in Seq(Entries) /\ HasLast(t) /\ After(t, k) = st
  BY DEF Tells, Path
<1>1. /\ k \in Nat /\ Len(t2) = k + 1 /\ t2[k + 1] = e /\ t2 \in Seq(Entries)
      /\ \A i \in 1..k : t2[i] = t[i]
  BY <1>0, Appended
<1>2. /\ PlacesIn(t2, MoveTypes) = PlacesIn(t, MoveTypes) \cup {k + 1}
      /\ PlacesIn(t2, CheckpointTypes) = PlacesIn(t, CheckpointTypes)
      /\ PlacesIn(t2, Recorded) = PlacesIn(t, Recorded)
      /\ \A types : PlacesIn(t, types) \subseteq 1..k
  BY <1>0, AppendedPlaces DEF MoveTypes, CheckpointTypes, Recorded
<1>3. HasLast(t2) /\ After(t2, k + 1) = StatusAfter(e.type)
  BY <1>0, <1>1, NewStatus
<1>4. \A m \in 0..k : After(t2, m) = After(t, m)
  BY <1>0, OldStatus
<1> HIDE DEF t2, k
<1>5. \A i \in 1..k : i - 1 \in 0..k /\ i \in 0..k
  BY <1>1
<1>6. Path(t2, StatusAfter(e.type))
  <2>1. ASSUME NEW i \in PlacesIn(t2, MoveTypes)
        PROVE  <<After(t2, i - 1), StatusAfter(t2[i].type)>> \in AllowedTransitions
    <3>1. CASE i \in PlacesIn(t, MoveTypes)
      BY <3>1, <1>1, <1>2, <1>4, <1>5 DEF Tells, Path
    <3>2. CASE i = k + 1
      <4>1. i - 1 = k /\ k \in 0..k
        BY <3>2, <1>1
      <4> QED BY <3>2, <4>1, <1>0, <1>1, <1>4
    <3> QED BY <3>1, <3>2, <1>2
  <2> QED BY <2>1, <1>1, <1>3 DEF Path
<1>7. Numbered(t2, n)
  BY <1>1, <1>2, SMTT(20) DEF Tells, Numbered
<1>8. DecidedOnce(t2, steps)
  BY <1>1, <1>2, <1>4, <1>5 DEF Tells, DecidedOnce
<1> QED BY <1>1, <1>6, <1>7, <1>8 DEF Tells, t2

LEMMA OtherTold ==
  ASSUME NEW t, NEW st, NEW n, NEW steps, Tells(t, st, n, steps),
         NEW e \in Entries, e.type \notin MoveTypes
  PROVE  LET t2 == Append(t, e)
         IN  /\ t2 \in Seq(Entries) /\ Path(t2, st)
             /\ e.type \notin CheckpointTypes => Numbered(t2, n)
             /\ e.type \notin Recorded => DecidedOnce(t2, steps)
<1> DEFINE t2 == Append(t, e)
           k == Len(t)
<1>0. t \in Seq(Entries) /\ HasLast(t) /\ After(t, k) = st
  BY DEF Tells, Path
<1>1. /\ k \in Nat /\ Len(t2) = k + 1 /\ t2[k + 1] = e /\ t2 \in Seq(Entries)
      /\ \A i \in 1..k : t2[i] = t[i]
  BY <1>0, Appended
<1>2. /\ PlacesIn(t2, MoveTypes) = PlacesIn(t, MoveTypes)
      /\ e.type \notin CheckpointTypes =>
           PlacesIn(t2, CheckpointTypes) = PlacesIn(t, CheckpointTypes)
      /\ e.type \notin Recorded => PlacesIn(t2, Recorded) = PlacesIn(t, Recorded)
      /\ \A types : PlacesIn(t, types) \subseteq 1..k
  BY <1>0, AppendedPlaces
<1>3. HasLast(t2) /\ After(t2, k + 1) = st
  BY <1>0, <1>1, NewStatus
<1>4. \A m \in 0..k : After(t2, m) = After(t, m)
  BY <1>0, OldStatus
<1> HIDE DEF t2, k
<1>5. \A i \in 1..k : i - 1 \in 0..k /\ i \in 0..k
  BY <1>1
<1>6. Path(t2, st)
  BY <1>1, <1>2, <1>3, <1>4, <1>5 DEF Tells, Path
<1>7. e.type \notin CheckpointTypes => Numbered(t2, n)
  BY <1>1, <1>2, SMTT(20) DEF Tells, Numbered
<1>8. e.type \notin Recorded => DecidedOnce(t2, steps)
  BY <1>1, <1>2, <1>4, <1>5 DEF Tells, DecidedOnce
<1> QED BY <1>1, <1>6, <1>7, <1>8 DEF t2

LEMMA CheckpointTold ==
  ASSUME NEW t, NEW st, NEW n \in Nat, NEW steps, Tells(t, st, n, steps)
  PROVE  Tells(Append(t, Entry("run.checkpointed", n)), st, n + 1, steps)
<1> DEFINE e == Entry("run.checkpointed", n)
           t2 == Append(t, e)
           k == Len(t)
<1>0. /\ t \in Seq(Entries) /\ e \in Entries /\ e.type \in CheckpointTypes /\ e.step = n
      /\ e.type \notin MoveTypes \cup Recorded
  BY DEF Tells, Entry, Entries, EntryTypes, CheckpointTypes, MoveTypes, Recorded
<1>1. /\ k \in Nat /\ t2[k + 1] = e /\ \A i \in 1..k : t2[i] = t[i]
  BY <1>0, Appended
<1>2. /\ PlacesIn(t2, CheckpointTypes) = PlacesIn(t, CheckpointTypes) \cup {k + 1}
      /\ PlacesIn(t, CheckpointTypes) \subseteq 1..k
  BY <1>0, AppendedPlaces
<1>3. t2 \in Seq(Entries) /\ Path(t2, st) /\ DecidedOnce(t2, steps)
  BY <1>0, OtherTold
<1> HIDE DEF e, t2, k
<1>4. /\ {t[i].step : i \in PlacesIn(t, CheckpointTypes)} = 0..(n - 1)
      /\ \A i, j \in PlacesIn(t, CheckpointTypes) : i < j => t[i].step < t[j].step
  BY DEF Tells, Numbered
<1>5. \A i \in PlacesIn(t, CheckpointTypes) : t2[i] = t[i] /\ i \in 1..k
  BY <1>1, <1>2
<1>6. {t2[i].step : i \in PlacesIn(t2, CheckpointTypes)} = 0..((n + 1) - 1)
  <2>1. {t2[i].step : i \in PlacesIn(t2, CheckpointTypes)} =
          {t[i].step : i \in PlacesIn(t, CheckpointTypes)} \cup {n}
    BY <1>0, <1>1, <1>2, <1>5
  <2>2. 0..((n + 1) - 1) = 0..(n - 1) \cup {n}
    OBVIOUS
  <2> QED BY <2>1, <2>2, <1>4
<1>7. ASSUME NEW i \in PlacesIn(t2, CheckpointTypes), NEW j \in PlacesIn(t2, CheckpointTypes), i < j
      PROVE  t2[i].step < t2[j].step
  <2>1. i \in PlacesIn(t, CheckpointTypes)
    BY <1>1, <1>2, <1>5, <1>7
  <2>2. t2[i].step \in 0..(n - 1)
    BY <2>1, <1>4, <1>5
  <2> QED BY <2>1, <2>2, <1>0, <1>1, <1>2, <1>4, <1>5, <1>7
<1> QED BY <1>3, <1>6, <1>7 DEF Tells, Numbered, t2, e

LEMMA DecisionTold ==
  ASSUME NEW t, NEW n, NEW steps, Tells(t, "waiting_approval", n, steps),
         NEW s \in Nat, s \notin steps
  PROVE  Tells(Append(t, Entry("approval.recorded", s)), "waiting_approval", n,
               steps \cup {s})
<1> DEFINE e == Entry("approval.recorded", s)
           t2 == Append(t, e)
           k == Len(t)
<1>0. /\ t \in Seq(Entries) /\ e \in Entries /\ e.type \in Recorded /\ e.step = s
      /\ e.type \notin MoveTypes \cup CheckpointTypes /\ HasLast(t)
  BY DEF Tells, Path, Entry, Entries, EntryTypes, CheckpointTypes, MoveTypes, Recorded
<1>1. /\ k \in Nat /\ Len(t2) = k + 1 /\ t2[k + 1] = e /\ \A i \in 1..k : t2[i] = t[i]
  BY <1>0, Appended
<1>2. /\ PlacesIn(t2, Recorded) = PlacesIn(t, Recorded) \cup {k + 1}
      /\ PlacesIn(t, Recorded) \subseteq 1..k
  BY <1>0, AppendedPlaces
<1>3. t2 \in Seq(Entries) /\ Path(t2, "waiting_approval") /\ Numbered(t2, n)
  BY <1>0, OtherTold
<1>4. \A m \in 0..k : After(t2, m) = After(t, m)
  BY <1>0, OldStatus
<1> HIDE DEF e, t2, k
<1>5. \A i \in PlacesIn(t, Recorded) :
        /\ t2[i] = t[i] /\ i \in 0..k /\ t[i].step \in steps
        /\ After(t, i) = "waiting_approval"
  BY <1>1, <1>2 DEF Tells, DecidedOnce
<1>6. {t2[i].step : i \in PlacesIn(t2, Recorded)} = steps \cup {s}
  <2>1. {t[i].step : i \in PlacesIn(t, Recorded)} = steps
    BY DEF Tells, DecidedOnce
  <2> QED BY <2>1, <1>0, <1>1, <1>2, <1>5
<1>7. \A i, j \in PlacesIn(t2, Recorded) : t2[i].step = t2[j].step => i = j
  <2>1. \A i, j \in PlacesIn(t, Recorded) : t[i].step = t[j].step => i = j
    BY DEF Tells, DecidedOnce
  <2> QED BY <2>1, <1>0, <1>1, <1>2, <1>5
<1>8. \A i \in PlacesIn(t2, Recorded) : After(t2, i) = "waiting_approval"
  BY <1>1, <1>2, <1>3, <1>4, <1>5 DEF Path
<1> QED BY <1>3, <1>6, <1>7, <1>8 DEF Tells, DecidedOnce, t2, e

LEMMA DenialTold ==
  ASSUME NEW t, NEW st, NEW n, NEW steps, Tells(t, st, n, steps), NEW s \in Nat
  PROVE  Tells(Append(t, Entry("approval.denied", s)), st, n, steps)
<1> DEFINE e == Entry("approval.denied", s)
<1>1. e \in Entries /\ e.type \notin MoveTypes \cup CheckpointTypes \cup Recorded
  BY DEF Entry, Entries, EntryTypes, CheckpointTypes, MoveTypes, Recorded
<1> HIDE DEF e
<1> QED BY <1>1, OtherTold DEF Tells, e

\* A save by the owner appends its entries to the trail.
LEMMA SavedTrail ==
  ASSUME TypeOK, OwnerIsCurrent, NEW c \in Calls, pc[c] \in Executing,
         NEW run \in RunRow, NEW es,
         \/ \E next : Save(c, run, es, next)
         \/ SaveRunOwned(c, snap[c].version, run, es)
  PROVE  \/ UNCHANGED <<row, approvals, trail>>
         \/ /\ snap[c] = row /\ Same(row', run) /\ trail' = trail \o es
            /\ UNCHANGED approvals
<1>1. SaveRunOwned(c, snap[c].version, run, es) \/ UNCHANGED storeVars
  BY DEF Save
<1>2. OwnsLease(c) => snap[c] = row
  BY DEF OwnerIsCurrent, OwnsLease
<1> QED BY <1>1, <1>2, VersionIsAllThatChanges DEF SaveRunOwned, Saveable, storeVars

LEMMA OneEntry ==
  ASSUME NEW t \in Seq(Entries), NEW e \in Entries
  PROVE  t \o <<e>> = Append(t, e)
BY AppendIsConcat

LEMMA TwoEntries ==
  ASSUME NEW t \in Seq(Entries), NEW e \in Entries, NEW f \in Entries
  PROVE  t \o <<e, f>> = Append(Append(t, e), f)
<1>1. <<e>> \in Seq(Entries) /\ <<f>> \in Seq(Entries) /\ <<e>> \o <<f>> = <<e, f>>
  <2> DEFINE a == <<e>>
             b == <<f>>
             ab == <<e, f>>
  <2>1. /\ a \in Seq(Entries) /\ Len(a) = 1 /\ a[1] = e
        /\ b \in Seq(Entries) /\ Len(b) = 1 /\ b[1] = f
        /\ ab \in Seq(Entries) /\ Len(ab) = 2 /\ ab[1] = e /\ ab[2] = f
    OBVIOUS
  <2> HIDE DEF a, b, ab
  <2>2. /\ a \o b \in Seq(Entries) /\ Len(a \o b) = 2
        /\ \A i \in 1..2 : (a \o b)[i] = IF i <= 1 THEN a[i] ELSE b[i - 1]
    BY <2>1, ConcatProperties, SMTT(20)
  <2>3. \A i \in 1..2 : (a \o b)[i] = ab[i]
    <3>1. (a \o b)[1] = ab[1] /\ (a \o b)[2] = ab[2]
      BY <2>1, <2>2
    <3>2. \A i \in 1..2 : i = 1 \/ i = 2
      OBVIOUS
    <3> QED BY <3>1, <3>2
  <2>4. a \o b = ab
    BY <2>1, <2>2, <2>3, SeqEqual
  <2> QED BY <2>1, <2>4 DEF a, b, ab
<1>2. (t \o <<e>>) \o <<f>> = t \o (<<e>> \o <<f>>)
  BY <1>1, ConcatAssociative
<1>3. t \o <<e>> = Append(t, e) /\ Append(t, e) \in Seq(Entries)
  BY OneEntry, Appended
<1>4. Append(t, e) \o <<f>> = Append(Append(t, e), f)
  BY <1>3, OneEntry
<1> QED BY <1>1, <1>2, <1>3, <1>4

LEMMA EntryFields ==
  ASSUME NEW type \in EntryTypes, NEW n \in Nat
  PROVE  /\ Entry(type, n) \in Entries
         /\ Entry(type, n).type = type /\ Entry(type, n).step = n
BY DEF Entry, Entries

LEMMA MoveEntries ==
  /\ MoveTypes \subseteq EntryTypes
  /\ StatusAfter("run.running") = "running"
  /\ StatusAfter("run.waiting_approval") = "waiting_approval"
  /\ StatusAfter("run.succeeded") = "succeeded"
  /\ StatusAfter("run.failed") = "failed"
BY DEF MoveTypes, EntryTypes, StatusAfter

\* A save that moves the status, and nothing else that the trail tells.
LEMMA MovingSave ==
  ASSUME IInv, TrailInv, NEW c \in Calls, pc[c] \in Executing, NEW run \in RunRow,
         NEW type \in MoveTypes, NEW n \in Nat,
         <<snap[c].status, StatusAfter(type)>> \in AllowedTransitions,
         run.status = StatusAfter(type), run.toolResults = snap[c].toolResults,
         \/ \E next : Save(c, run, <<Entry(type, n)>>, next)
         \/ SaveRunOwned(c, snap[c].version, run, <<Entry(type, n)>>)
  PROVE  TrailInv'
<1> DEFINE e == Entry(type, n)
<1>0. e \in Entries /\ e.type = type
  BY EntryFields, MoveEntries
<1>00. \/ UNCHANGED <<row, approvals, trail>>
       \/ /\ snap[c] = row /\ Same(row', run) /\ trail' = trail \o <<e>>
          /\ UNCHANGED approvals
  BY SavedTrail DEF IInv
<1> HIDE DEF e
<1>1. CASE UNCHANGED <<row, approvals, trail>>
  BY <1>1 DEF TrailInv, DecidedSteps, Decided
<1>2. CASE /\ snap[c] = row /\ Same(row', run) /\ trail' = trail \o <<e>>
           /\ UNCHANGED approvals
  <2>1. trail' = Append(trail, e)
    BY <1>0, <1>2, OneEntry DEF TrailInv, Tells
  <2>2. row'.status = StatusAfter(type) /\ row'.toolResults = row.toolResults
    BY <1>2 DEF Same
  <2>3. DecidedSteps' = DecidedSteps
    BY <1>2 DEF DecidedSteps, Decided
  <2>4. Tells(Append(trail, e), StatusAfter(type), Len(row.toolResults), DecidedSteps)
    BY <1>0, <1>2, MoveTold DEF TrailInv
  <2> QED BY <2>1, <2>2, <2>3, <2>4 DEF TrailInv
<1> QED BY <1>00, <1>1, <1>2

LEMMA EnterTold ==
  ASSUME IInv, TrailInv, NEW c \in Calls, Enter(c)
  PROVE  TrailInv'
<1>1. snap[c] \in RunRow /\ pc[c] \in Executing /\ snap[c].step \in Nat
  BY DEF IInv, TypeOK, RunRow, Enter, Executing
<1>2. CASE UNCHANGED storeVars
  BY <1>2 DEF storeVars, TrailInv, DecidedSteps, Decided
<1>3. CASE /\ snap[c].status \in {"queued", "waiting_approval"}
           /\ Save(c, Entered(snap[c]), <<Entry("run.running", snap[c].step)>>, "loop")
  <2>1. /\ Entered(snap[c]) \in RunRow /\ Entered(snap[c]).status = "running"
        /\ Entered(snap[c]).toolResults = snap[c].toolResults
    BY <1>1, RunValues, SavedFields
  <2>2. /\ "run.running" \in MoveTypes
        /\ <<snap[c].status, "running">> \in AllowedTransitions
    BY <1>3 DEF AllowedTransitions, MoveTypes
  <2> QED BY <1>1, <1>3, <2>1, <2>2, MovingSave, MoveEntries
<1> QED BY <1>2, <1>3 DEF Enter

LEMMA NextActionTold ==
  ASSUME IInv, TrailInv, NEW c \in Calls, NextAction(c)
  PROVE  TrailInv'
<1>1. snap[c] \in RunRow /\ pc[c] \in Executing
  BY DEF IInv, TypeOK, NextAction, Executing
<1>2. CASE UNCHANGED storeVars
  BY <1>2 DEF storeVars, TrailInv, DecidedSteps, Decided
<1>3. CASE Save(c, [snap[c] EXCEPT !.policyCalls = BudgetUsed(snap[c]) + 1],
                <<>>, "policy")
  <2> DEFINE run == [snap[c] EXCEPT !.policyCalls = BudgetUsed(snap[c]) + 1]
  <2>1. run \in RunRow /\ Same(run, snap[c]) /\ Save(c, run, <<>>, "policy")
    BY <1>1, <1>3, RunValues, SavedFields
  <2> HIDE DEF run
  <2>2. \/ UNCHANGED <<row, approvals, trail>>
        \/ /\ snap[c] = row /\ Same(row', run) /\ trail' = trail \o <<>>
           /\ UNCHANGED approvals
    BY <1>1, <2>1, SavedTrail DEF IInv
  <2>3. trail \o <<>> = trail
    BY ConcatEmptySeq DEF TrailInv, Tells
  <2> QED BY <2>1, <2>2, <2>3 DEF Same, TrailInv, DecidedSteps, Decided
<1> QED BY <1>2, <1>3 DEF NextAction

\* The saves of a call at work: its run is running.
LEMMA AtWork ==
  ASSUME IInv, NEW c \in Calls, pc[c] \in InLoop
  PROVE  /\ snap[c] \in RunRow /\ snap[c].step \in Nat /\ pc[c] \in Executing
         /\ snap[c].status = "running"
         /\ \A s \in {"waiting_approval", "succeeded", "failed"} :
              <<snap[c].status, s>> \in AllowedTransitions
BY DEF IInv, TypeOK, LocalsOK, LocalOK, RunRow, InLoop, Executing, AllowedTransitions

LEMMA FailedFields ==
  ASSUME NEW run \in RunRow, NEW code
  PROVE  /\ Failed(run, code).status = "failed"
         /\ Failed(run, code).toolResults = run.toolResults
BY DEF Failed, RunRow

LEMMA EndsTold ==
  ASSUME IInv, TrailInv, NEW c \in Calls, Finish(c) \/ PolicyFails(c) \/ TerminalFailure(c)
  PROVE  TrailInv'
<1>1. pc[c] \in InLoop
  BY DEF Finish, PolicyFails, TerminalFailure, InLoop
<1>2. /\ snap[c] \in RunRow /\ snap[c].step \in Nat /\ pc[c] \in Executing
      /\ <<snap[c].status, "succeeded">> \in AllowedTransitions
      /\ <<snap[c].status, "failed">> \in AllowedTransitions
  BY <1>1, AtWork
<1>3. "run.succeeded" \in MoveTypes /\ "run.failed" \in MoveTypes
  BY DEF MoveTypes
<1>4. CASE Finish(c)
  <2> DEFINE run == [snap[c] EXCEPT !.status = "succeeded", !.step = @ + 1,
                                    !.pending = NoAction, !.result = "finished"]
  <2>1. /\ run \in RunRow /\ run.status = "succeeded"
        /\ run.toolResults = snap[c].toolResults
    BY <1>2, FinalValues, SavedFields
  <2>2. Save(c, run, <<Entry("run.succeeded", snap[c].step)>>, "release")
    BY <1>4 DEF Finish
  <2> HIDE DEF run
  <2> QED BY <1>2, <1>3, <2>1, <2>2, MovingSave, MoveEntries
<1>5. CASE PolicyFails(c)
  <2> DEFINE run == [Failed(snap[c], "policy_failed") EXCEPT !.step = @ + 1]
  <2>1. /\ run \in RunRow /\ run.status = "failed"
        /\ run.toolResults = snap[c].toolResults
    BY <1>2, FinalValues, SavedFields
  <2>2. Save(c, run, <<Entry("run.failed", snap[c].step)>>, "release")
    BY <1>5 DEF PolicyFails
  <2> HIDE DEF run
  <2> QED BY <1>2, <1>3, <2>1, <2>2, MovingSave, MoveEntries
<1>6. CASE TerminalFailure(c)
  <2>1. fault[c] \in Results
    BY <1>6 DEF TerminalFailure, IInv, LocalsOK, LocalOK
  <2> DEFINE run == Failed(snap[c], fault[c])
  <2>2. run \in RunRow
    BY <1>2, <2>1, RunValues
  <2>5. run.status = "failed" /\ run.toolResults = snap[c].toolResults
    BY <1>2, FailedFields
  <2>3. \/ SaveRunOwned(c, snap[c].version, run, <<Entry("run.failed", snap[c].step)>>)
        \/ UNCHANGED storeVars
    BY <1>6 DEF TerminalFailure
  <2> HIDE DEF run
  <2>4. CASE UNCHANGED storeVars
    BY <2>4 DEF storeVars, TrailInv, DecidedSteps, Decided
  <2> QED BY <1>2, <1>3, <2>2, <2>3, <2>4, <2>5, MovingSave, MoveEntries
<1> QED BY <1>4, <1>5, <1>6

LEMMA PauseTold ==
  ASSUME IInv, TrailInv, NEW c \in Calls, Pause(c)
  PROVE  TrailInv'
<1>1. pc[c] = "pausing" /\ pc[c] \in InLoop /\ act[c] \in ToolActions
  BY DEF Pause, InLoop, IInv, LocalsOK, LocalOK, OnTool
<1>2. /\ snap[c] \in RunRow /\ snap[c].step \in Nat /\ pc[c] \in Executing
      /\ <<snap[c].status, "waiting_approval">> \in AllowedTransitions
  BY <1>1, AtWork
<1> DEFINE run == [snap[c] EXCEPT !.status = "waiting_approval",
                                  !.pendingApproval = TRUE, !.pending = act[c]]
<1>3. run \in RunRow
  BY <1>1, <1>2, RunValues
<1>6. run.status = "waiting_approval" /\ run.toolResults = snap[c].toolResults
  BY <1>2, SavedFields
<1>4. Save(c, run, <<Entry("run.waiting_approval", snap[c].step)>>, "release")
  BY DEF Pause
<1>5. "run.waiting_approval" \in MoveTypes
  BY DEF MoveTypes
<1> HIDE DEF run
<1> QED BY <1>2, <1>3, <1>4, <1>5, <1>6, MovingSave, MoveEntries

\* A checkpoint is numbered by the results that the run had.
LEMMA CheckpointIsTold ==
  ASSUME IInv, SInv, TrailInv, NEW c \in Calls, Checkpoint(c)
  PROVE  TrailInv'
<1>1. /\ pc[c] \in InLoop /\ act[c] \in ToolActions /\ output[c] \in Calls
  BY DEF Checkpoint, InLoop, IInv, LocalsOK, LocalOK, OnTool
<1>2. /\ snap[c] \in RunRow /\ snap[c].step \in Nat /\ pc[c] \in Executing
      /\ snap[c].status = "running"
  BY <1>1, AtWork
<1> DEFINE result == [action |-> act[c], by |-> output[c]]
           e == Entry("run.checkpointed", snap[c].step)
           run == [snap[c] EXCEPT !.step = @ + 1, !.pendingApproval = FALSE,
                                  !.pending = NoAction, !.toolResults = Append(@, result)]
<1>3. run \in RunRow
  BY <1>1, <1>2, FinalValues
<1>10. /\ run.status = snap[c].status
       /\ run.toolResults = Append(snap[c].toolResults, result)
  <2> HIDE DEF result
  <2> QED BY <1>2, SavedFields
<1>4. Save(c, run, <<e>>, "loop")
  BY DEF Checkpoint
<1>5. e \in Entries
  BY <1>2, EntryFields DEF EntryTypes
<1>6. result \in ToolResult
  BY <1>1 DEF ToolResult
<1> HIDE DEF run, result
<1>7. \/ UNCHANGED <<row, approvals, trail>>
      \/ /\ snap[c] = row /\ Same(row', run) /\ trail' = trail \o <<e>>
         /\ UNCHANGED approvals
  BY <1>2, <1>3, <1>4, SavedTrail DEF IInv
<1>8. CASE UNCHANGED <<row, approvals, trail>>
  BY <1>8 DEF TrailInv, DecidedSteps, Decided
<1>9. CASE /\ snap[c] = row /\ Same(row', run) /\ trail' = trail \o <<e>>
           /\ UNCHANGED approvals
  <2>1. trail' = Append(trail, e)
    BY <1>5, <1>9, OneEntry DEF TrailInv, Tells
  <2>2. row'.status = row.status /\ row'.toolResults = Append(row.toolResults, result)
    BY <1>10, <1>9 DEF Same
  <2>3. DecidedSteps' = DecidedSteps
    BY <1>9 DEF DecidedSteps, Decided
  <2>4. row.toolResults \in Seq(ToolResult) /\ Len(row.toolResults) = snap[c].step
    BY <1>2, <1>9 DEF SInv, RowInv, RunRow, Terminal
  <2>5. Len(row'.toolResults) = Len(row.toolResults) + 1
    BY <1>6, <2>2, <2>4, AppendProperties
  <2>6. Tells(Append(trail, e), row.status, Len(row.toolResults) + 1, DecidedSteps)
    BY <1>2, <2>4, CheckpointTold DEF TrailInv
  <2> HIDE DEF e
  <2> QED BY <2>1, <2>2, <2>3, <2>5, <2>6 DEF TrailInv
<1> QED BY <1>7, <1>8, <1>9

LEMMA DenyTold ==
  ASSUME IInv, TrailInv, NEW c \in Calls, Deny(c)
  PROVE  TrailInv'
<1>1. /\ snap[c] \in RunRow /\ pc[c] \in Executing /\ snap[c].step \in Nat
      /\ req[c].step \in Nat
  BY StoreAssumption DEF IInv, TypeOK, RunRow, Request, Steps, Deny, Executing
<1>2. CASE UNCHANGED storeVars
  BY <1>2 DEF storeVars, TrailInv, DecidedSteps, Decided
<1> DEFINE d == Entry("approval.denied", req[c].step)
           f == Entry("run.failed", snap[c].step)
           run == Failed(snap[c], "approval_denied")
<1>3. CASE snap[c].status = "waiting_approval" /\ Save(c, run, <<d, f>>, "release")
  <2>1. run \in RunRow
    <3>1. "approval_denied" \in Results
      BY DEF Results
    <3> QED BY <3>1, <1>1, RunValues
  <2>6. run.status = "failed" /\ run.toolResults = snap[c].toolResults
    BY <1>1, FailedFields
  <2>2. d \in Entries /\ f \in Entries /\ f.type = "run.failed"
    BY <1>1, EntryFields DEF EntryTypes
  <2> HIDE DEF run
  <2>3. \/ UNCHANGED <<row, approvals, trail>>
        \/ /\ snap[c] = row /\ Same(row', run) /\ trail' = trail \o <<d, f>>
           /\ UNCHANGED approvals
    BY <1>1, <1>3, <2>1, SavedTrail DEF IInv
  <2>4. CASE UNCHANGED <<row, approvals, trail>>
    BY <2>4 DEF TrailInv, DecidedSteps, Decided
  <2>5. CASE /\ snap[c] = row /\ Same(row', run) /\ trail' = trail \o <<d, f>>
             /\ UNCHANGED approvals
    <3> DEFINE t == Append(trail, d)
               n == Len(row.toolResults)
    <3>1. trail' = Append(t, f)
      BY <2>2, <2>5, TwoEntries DEF TrailInv, Tells
    <3>2. Tells(t, "waiting_approval", n, DecidedSteps)
      <4>1. Tells(trail, "waiting_approval", n, DecidedSteps)
        BY <1>3, <2>5 DEF TrailInv
      <4> QED BY <4>1, <1>1, DenialTold
    <3> HIDE DEF t, d, f, n
    <3>3. /\ <<"waiting_approval", StatusAfter(f.type)>> \in AllowedTransitions
          /\ f.type \in MoveTypes /\ StatusAfter(f.type) = "failed"
      BY <2>2, MoveEntries DEF AllowedTransitions, MoveTypes
    <3>4. Tells(Append(t, f), "failed", n, DecidedSteps)
      BY <2>2, <3>2, <3>3, MoveTold
    <3>5. row'.status = "failed" /\ row'.toolResults = row.toolResults
      BY <2>5, <2>6 DEF Same
    <3>6. DecidedSteps' = DecidedSteps
      BY <2>5 DEF DecidedSteps, Decided
    <3> QED BY <3>1, <3>4, <3>5, <3>6 DEF TrailInv, n
  <2> QED BY <2>3, <2>4, <2>5
<1> QED BY <1>2, <1>3 DEF Deny

\* The decision that is recorded is the one the run waits for.
LEMMA ApproveTold ==
  ASSUME IInv, TrailInv, NEW c \in Calls, NEW s \in Steps, NEW a \in ToolActions,
         NEW d \in Decisions, Approve(c, s, a, d)
  PROVE  TrailInv'
<1>1. CASE UNCHANGED <<row, approvals, trail>>
  BY <1>1 DEF TrailInv, DecidedSteps, Decided
<1>2. CASE /\ Inserts(s, a) /\ row' = row
           /\ approvals' = [approvals EXCEPT ![s] = [action |-> a, decision |-> d]]
           /\ trail' = Append(trail, Entry("approval.recorded", s))
  <2>1. row.status = "waiting_approval" /\ s \notin DecidedSteps /\ s \in Nat
    BY <1>2, StoreAssumption DEF Inserts, IsPendingAction, DecidedSteps, Decided, Steps
  <2>2. DecidedSteps' = DecidedSteps \cup {s}
    <3>1. approvals \in [Steps -> Approval] /\ a # NoAction
      BY StoreAssumption DEF IInv, TypeOK, StoreTypeOK
    <3>2. [action |-> a, decision |-> d] # NoApproval
      BY <3>1 DEF NoApproval
    <3> QED BY <1>2, <3>1, <3>2 DEF DecidedSteps, Decided
  <2>3. Tells(trail', "waiting_approval", Len(row.toolResults), DecidedSteps \cup {s})
    BY <1>2, <2>1, DecisionTold DEF TrailInv
  <2> QED BY <1>2, <2>1, <2>2, <2>3 DEF TrailInv
<1> QED BY <1>1, <1>2 DEF Approve, RecordPendingApproval

LEMMA TrailStep ==
  IInv /\ SInv /\ TrailInv /\ [Next]_vars => TrailInv'
<1> SUFFICES ASSUME IInv, SInv, TrailInv, [Next]_vars PROVE TrailInv'
  OBVIOUS
<1>1. ASSUME UNCHANGED <<row, approvals, trail>> PROVE TrailInv'
  BY <1>1 DEF TrailInv, DecidedSteps, Decided
<1>2. ASSUME NEW c \in Calls, StepOf(c) PROVE TrailInv'
  <2>0. fault[c] # "stale_version"
    BY DEF IInv, OwnerIsCurrent
  <2>1. CASE Start(c)
    <3>1. row = NewRun /\ row' = [NewRun EXCEPT !.version = 1]
      BY <2>1 DEF Start, InsertRun, IInv, FreshOK
    <3>2. row'.status = row.status /\ row'.toolResults = row.toolResults
      BY <3>1 DEF NewRun
    <3>3. UNCHANGED <<approvals, trail>>
      BY <2>1 DEF Start, InsertRun
    <3> QED BY <3>2, <3>3 DEF TrailInv, DecidedSteps, Decided
  <2>2. CASE Saving(c)
    BY <2>2, EnterTold, NextActionTold, EndsTold, PauseTold, CheckpointIsTold, DenyTold
       DEF Saving
  <2>3. CASE Quiet(c)
    BY <1>1, <2>0, <2>3, QuietEffect DEF IInv
  <2>4. CASE Claim(c) \/ Release(c) \/ Crash(c)
    BY <1>1, <2>4 DEF Claim, ClaimRunExecution, Release, ReleaseRunExecution, Crash,
                      storeVars
  <2>5. CASE Outside(c)
    <3>1. Resume(c) \/ Reread(c) \/ Poll(c) \/ GiveUp(c) \/ Cancel(c) =>
            UNCHANGED <<row, approvals, trail>>
      BY DEF Resume, Reread, Poll, GiveUp, Cancel, storeVars
    <3> QED BY <1>1, <2>5, <3>1, ApproveTold DEF Outside
  <2> QED BY <1>2, <2>1, <2>2, <2>3, <2>4, <2>5, StepKinds
<1>3. ASSUME \/ RunLeaseExpires \/ Quiescent \/ UNCHANGED vars
             \/ \E k \in Keys : ToolClaimExpires(k)
      PROVE  TrailInv'
  BY <1>1, <1>3 DEF RunLeaseExpires, LeaseExpires, Quiescent, vars, ToolClaimExpires,
                    storeVars
<1> QED BY <1>2, <1>3 DEF Next, StepOf

LEMMA TrailInit == Init => TrailInv
<1> SUFFICES ASSUME Init PROVE TrailInv
  OBVIOUS
<1>1. /\ trail = <<>> /\ row.status = "queued" /\ row.toolResults = <<>>
      /\ DecidedSteps = {}
  BY DEF Init, StoreInit, NewRun, DecidedSteps, Decided
<1>2. trail \in Seq(Entries) /\ Len(trail) = 0 /\ Len(row.toolResults) = 0
  BY <1>1
<1>3. \A types : PlacesIn(trail, types) = {}
  BY <1>1 DEF PlacesIn
<1>4. \A n : MovesTo(trail, n) = {}
  BY <1>3 DEF MovesTo
<1>5. Path(trail, "queued")
  BY <1>3, <1>4 DEF Path, HasLast, After
<1>6. Numbered(trail, 0) /\ DecidedOnce(trail, {})
  BY <1>3 DEF Numbered, DecidedOnce
<1> QED BY <1>1, <1>2, <1>5, <1>6 DEF TrailInv, Tells

\* Whatever calls race, die or are overtaken, the audit entries replay the run:
\* a save and its entries are one transaction (save_run_owned_with_events), and
\* so are a decision and its entry.
THEOREM AuditTrail == Spec => []TrailReplaysRun
<1>1. Init => IInv /\ SInv /\ TrailInv
  BY InvInit, SafetyInit, TrailInit
<1>2. (IInv /\ SInv /\ TrailInv) /\ [Next]_vars => (IInv /\ SInv /\ TrailInv)'
  BY InvStep, SafetyStep, TrailStep
<1>3. TrailInv => TrailReplaysRun
  <2> SUFFICES ASSUME TrailInv PROVE TrailReplaysRun
    OBVIOUS
  <2>1. \A types : Places(types) = PlacesIn(trail, types)
    BY DEF Places, PlacesIn
  <2>2. \A n : StatusUpTo(n) = After(trail, n)
    BY <2>1 DEF StatusUpTo, After, MovesTo
  <2> QED BY <2>1, <2>2
          DEF TrailInv, Tells, Path, Numbered, DecidedOnce, DecidedSteps,
              TrailReplaysRun, CheckpointTypes, Recorded
<1> QED BY <1>1, <1>2, <1>3, PTL DEF Spec

=============================================================================
