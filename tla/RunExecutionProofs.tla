------------------------- MODULE RunExecutionProofs -------------------------
(***************************************************************************)
(* What holds of RunExecution for every number of calls, every set of tool *)
(* actions and decisions and every budget: the type invariant, budgets and *)
(* the life of a run, and then what becomes of denials, reviewed actions,  *)
(* checkpoints and indeterminate writes.                                   *)
(***************************************************************************)
EXTENDS RunExecution, TLAPS

\* The budget facts of one Run value, the stored one or a call's snapshot.
SlotsHold(run) ==
  /\ run.step <= run.policyCalls
  /\ run.policyCalls <= MaxActionSteps
  /\ run.pending # NoAction => run.step < run.policyCalls

InLoop ==
  {"loop", "policy", "chosen", "approval", "pausing", "call", "tool",
   "checkpoint", "failing"}

OnAction ==
  {"policy", "chosen", "approval", "pausing", "call", "tool", "checkpoint"}

OnTool == {"approval", "pausing", "call", "tool", "checkpoint"}

\* What the code a call has reached tells of its local variables.
LocalOK(c) ==
  /\ SlotsHold(snap[c])
  /\ pc[c] \in InLoop => snap[c].status = "running"
  /\ pc[c] \in OnAction => snap[c].step < snap[c].policyCalls
  /\ pc[c] \in OnTool => act[c] \in ToolActions
  /\ pc[c] = "checkpoint" => output[c] \in Calls
  /\ pc[c] = "failing" => fault[c] \in Results

LocalsOK == \A c \in Calls : LocalOK(c)

\* Nothing happens to a run before it is inserted.
FreshOK == ~Exists => row = NewRun /\ \A c \in Calls : pc[c] = "idle"

SlotsOK == SlotsHold(row) /\ asked <= row.policyCalls

IInv ==
  /\ TypeOK
  /\ LocalsOK
  /\ FreshOK
  /\ OwnerIsCurrent
  /\ SlotsOK
  /\ GatedCallsAreAllowed

-----------------------------------------------------------------------------
(* The store and the control flow of a call keep their types *)

Entries == [type : EntryTypes, step : Nat]

\* A save writes a row of the right shape and appends its entries.
LEMMA SaveRunOwnedType ==
  ASSUME StoreTypeOK, NEW c \in Calls, NEW v \in Nat, NEW run \in RunRow,
         NEW es \in Seq(Entries), SaveRunOwned(c, v, run, es)
  PROVE  StoreTypeOK'
  <1>1. row' \in RunRow
    <2>1. row' = [run EXCEPT !.version = v + 1]
      BY DEF SaveRunOwned
    <2>2. [run EXCEPT !.version = v + 1] \in RunRow
      BY DEF RunRow
    <2> QED
      BY <2>1, <2>2
  <1>2. trail' \in Seq(Entries)
    BY DEF SaveRunOwned, StoreTypeOK, Entries
  <1>3. UNCHANGED <<lease, approvals>>
    BY DEF SaveRunOwned
  <1> QED
    BY <1>1, <1>2, <1>3 DEF StoreTypeOK, Entries

\* The orchestrator's save: the call's snapshot and location stay typed.
LEMMA SaveType ==
  ASSUME TypeOK, NEW c \in Calls, NEW run \in RunRow, NEW es \in Seq(Entries),
         NEW next \in Locations, Save(c, run, es, next)
  PROVE  /\ StoreTypeOK'
         /\ pc' \in [Calls -> Locations]
         /\ snap' \in [Calls -> RunRow]
         /\ fault' \in [Calls -> Results \cup Errors]
  <1>1. snap[c].version \in Nat /\ StoreTypeOK
    BY DEF TypeOK, RunRow
  <1>2. CASE SaveRunOwned(c, snap[c].version, run, es)
              /\ snap' = [snap EXCEPT ![c] = row']
              /\ Goto(c, next) /\ UNCHANGED fault
    <2>1. StoreTypeOK'
      BY <1>1, <1>2, SaveRunOwnedType
    <2>2. row' \in RunRow
      BY <2>1 DEF StoreTypeOK
    <2> QED
      BY <1>2, <2>1, <2>2 DEF TypeOK, Goto
  <1>3. CASE ~Saveable(c, snap[c].version) /\ Raise(c, SaveError(c))
              /\ UNCHANGED <<storeVars, snap>>
    <2>1. SaveError(c) \in Errors
      BY DEF SaveError, Errors
    <2>2. "release" \in Locations
      BY DEF Locations, Executing
    <2> QED
      BY <1>3, <2>1, <2>2 DEF TypeOK, StoreTypeOK, storeVars, Raise, Goto
  <1> QED
    BY <1>2, <1>3 DEF Save

\* The run before it is inserted has the shape of a run.
LEMMA NewRunType == NewRun \in RunRow
  <1>1. <<>> \in Seq(ToolResult)
    OBVIOUS
  <1> QED
    BY <1>1 DEF NewRun, RunRow, Status, Terminal, Results

\* A call that ends leaves initial locals behind.
LEMMA ReturnType ==
  ASSUME TypeOK, NEW c \in Calls, NEW l \in Locations, Return(c, l)
  PROVE  /\ pc' \in [Calls -> Locations]
         /\ req' \in [Calls -> Request]
         /\ snap' \in [Calls -> RunRow]
         /\ act' \in [Calls -> Answers \cup {NoAction}]
         /\ output' \in [Calls -> Calls \cup {NoCall}]
         /\ fault' \in [Calls -> Results \cup Errors]
  <1>1. NoRequest \in Request
    BY StoreAssumption DEF NoRequest, Request, Steps
  <1>2. "none" \in Results
    BY DEF Results
  <1> QED
    BY <1>1, <1>2, NewRunType DEF TypeOK, Return, Goto

\* The Run values the actions build from a run are runs.
LEMMA RunValues ==
  ASSUME NEW run \in RunRow
  PROVE  /\ Entered(run) \in RunRow
         /\ \A code \in Results : Failed(run, code) \in RunRow
         /\ [run EXCEPT !.policyCalls = BudgetUsed(run) + 1] \in RunRow
         /\ \A a \in ToolActions :
              [run EXCEPT !.status = "waiting_approval",
                          !.pendingApproval = TRUE, !.pending = a] \in RunRow
  <1>1. Entered(run) \in RunRow
    BY DEF Entered, RunRow, Status
  <1>2. \A code \in Results : Failed(run, code) \in RunRow
    BY DEF Failed, RunRow, Status, Terminal
  <1>3. BudgetUsed(run) \in Nat
    BY DEF BudgetUsed, RunRow
  <1>4. [run EXCEPT !.policyCalls = BudgetUsed(run) + 1] \in RunRow
    <2> DEFINE used == BudgetUsed(run) + 1
    <2>1. used \in Nat
      BY <1>3
    <2> HIDE DEF used
    <2>2. [run EXCEPT !.policyCalls = used] \in RunRow
      BY <2>1 DEF RunRow
    <2> QED
      BY <2>2 DEF used
  <1>5. \A a \in ToolActions :
          [run EXCEPT !.status = "waiting_approval",
                      !.pendingApproval = TRUE, !.pending = a] \in RunRow
    BY DEF RunRow, Status
  <1> QED
    BY <1>1, <1>2, <1>4, <1>5

\* A step that only changes the finished or failed cursor.
LEMMA FinalValues ==
  ASSUME NEW run \in RunRow
  PROVE  /\ [run EXCEPT !.status = "succeeded", !.step = @ + 1,
                         !.pending = NoAction, !.result = "finished"] \in RunRow
         /\ [Failed(run, "policy_failed") EXCEPT !.step = @ + 1] \in RunRow
         /\ \A a \in ToolActions, d \in Calls :
              [run EXCEPT !.step = @ + 1, !.pendingApproval = FALSE,
                          !.pending = NoAction,
                          !.toolResults = Append(@, [action |-> a, by |-> d])]
                \in RunRow
  <1>1. run.step + 1 \in Nat
    BY DEF RunRow
  <1>2. [run EXCEPT !.status = "succeeded", !.step = @ + 1,
                    !.pending = NoAction, !.result = "finished"] \in RunRow
    BY <1>1 DEF RunRow, Status, Terminal, Results
  <1>3. [Failed(run, "policy_failed") EXCEPT !.step = @ + 1] \in RunRow
    <2>1. "policy_failed" \in Results
      BY DEF Results
    <2>2. PICK f \in RunRow : f = Failed(run, "policy_failed")
      BY <2>1, RunValues
    <2>3. f.step + 1 \in Nat
      BY DEF RunRow
    <2>4. [f EXCEPT !.step = @ + 1] \in RunRow
      BY <2>3 DEF RunRow
    <2> QED
      BY <2>2, <2>4
  <1>4. ASSUME NEW a \in ToolActions, NEW d \in Calls
        PROVE  [run EXCEPT !.step = @ + 1, !.pendingApproval = FALSE,
                           !.pending = NoAction,
                           !.toolResults = Append(@, [action |-> a, by |-> d])]
                 \in RunRow
    <2>1. PICK r \in Seq(ToolResult) :
            r = Append(run.toolResults, [action |-> a, by |-> d])
      <3>1. PICK e \in ToolResult : e = [action |-> a, by |-> d]
        BY DEF ToolResult
      <3>2. run.toolResults \in Seq(ToolResult)
        BY DEF RunRow
      <3>3. Append(run.toolResults, e) \in Seq(ToolResult)
        BY <3>2
      <3> QED
        BY <3>1, <3>3
    <2>2. [run EXCEPT !.step = @ + 1, !.pendingApproval = FALSE,
                      !.pending = NoAction, !.toolResults = r] \in RunRow
      BY <1>1, <2>1 DEF RunRow
    <2> QED
      BY <2>1, <2>2
  <1> QED
    BY <1>2, <1>3, <1>4

\* A call on a tool works on one of the keys.
LEMMA KeyType ==
  ASSUME TypeOK, LocalsOK, NEW c \in Calls, pc[c] \in OnTool
  PROVE  Key(c) \in Keys /\ snap[c].step \in Steps /\ act[c] \in ToolActions
  BY StoreAssumption
     DEF TypeOK, LocalsOK, LocalOK, SlotsHold, RunRow, Keys, Key, Steps

\* The audit entries of the actions are entries.
LEMMA EntryType ==
  ASSUME NEW t \in EntryTypes, NEW n \in Nat
  PROVE  Entry(t, n) \in Entries /\ <<Entry(t, n)>> \in Seq(Entries)
  <1>1. Entry(t, n) \in Entries
    BY DEF Entry, Entries
  <1> QED
    BY <1>1

\* Invoking a call keeps the types.
LEMMA InvokeType ==
  ASSUME TypeOK, NEW c \in Calls, Invoke(c)
  PROVE  TypeOK'
  <1> USE DEF TypeOK
  <1>1. CASE Start(c)
    <2>1. StoreTypeOK'
      <3>1. [NewRun EXCEPT !.version = 1] \in RunRow
        BY NewRunType DEF RunRow
      <3>2. row' = [NewRun EXCEPT !.version = 1]
            /\ UNCHANGED <<lease, approvals, trail>>
        BY <1>1 DEF Start, InsertRun
      <3> QED
        BY <3>1, <3>2 DEF StoreTypeOK
    <2>2. req' \in [Calls -> Request]
      BY <1>1 DEF Start, Request
    <2>3. pc' \in [Calls -> Locations]
      BY <1>1 DEF Start, Goto, Locations
    <2> QED
      BY <1>1, <2>1, <2>2, <2>3 DEF Start, histVars, Tool!ClaimsTypeOK
  <1>2. CASE Resume(c)
    <2>1. "raised" \in Locations /\ "claim" \in Locations
      BY DEF Locations, Returned
    <2>2. CASE Return(c, "raised")
      BY <1>2, <2>1, <2>2, ReturnType
         DEF Resume, storeVars, histVars, StoreTypeOK, Tool!ClaimsTypeOK
    <2>3. CASE /\ Goto(c, "claim")
               /\ req' = [req EXCEPT ![c].kind = "resume"]
               /\ UNCHANGED <<snap, act, output, fault>>
      <3>1. req' \in [Calls -> Request]
        BY <2>3, ZenonT(30) DEF Request
      <3> QED
        BY <1>2, <2>1, <2>3, <3>1
           DEF Resume, Goto, storeVars, histVars, StoreTypeOK, Tool!ClaimsTypeOK
    <2> QED
      BY <1>2, <2>2, <2>3 DEF Resume
  <1>3. ASSUME NEW s \in Steps, NEW a \in ToolActions, NEW d \in Decisions,
               Approve(c, s, a, d)
        PROVE  TypeOK'
    <2>1. StoreTypeOK'
      <3>1. CASE Inserts(s, a)
        <4>0. /\ approvals' =
                   [approvals EXCEPT ![s] = [action |-> a, decision |-> d]]
              /\ trail' = Append(trail, Entry("approval.recorded", s))
              /\ UNCHANGED <<row, lease>>
          BY <1>3, <3>1 DEF Approve, RecordPendingApproval
        <4>1. approvals' \in [Steps -> Approval]
          BY <4>0 DEF StoreTypeOK, Approval
        <4>2. Entry("approval.recorded", s) \in Entries
          BY StoreAssumption, EntryType DEF Steps, EntryTypes
        <4>3. trail' \in Seq(Entries)
          <5> DEFINE e == Entry("approval.recorded", s)
          <5> HIDE DEF e
          <5>1. trail \in Seq(Entries) /\ e \in Entries
            BY <4>2 DEF StoreTypeOK, Entries, e
          <5>2. Append(trail, e) \in Seq(Entries)
            BY <5>1
          <5> QED
            BY <4>0, <5>2 DEF e
        <4> QED
          BY <4>0, <4>1, <4>3 DEF StoreTypeOK, Entries
      <3>2. CASE ~Inserts(s, a)
        BY <1>3, <3>2 DEF Approve, RecordPendingApproval, StoreTypeOK
      <3> QED
        BY <3>1, <3>2
    <2>2. "raised" \in Locations /\ "decided" \in Locations
      BY DEF Locations, Returned
    <2>3. CASE Return(c, "raised")
      BY <1>3, <2>1, <2>2, <2>3, ReturnType
         DEF Approve, histVars, Tool!ClaimsTypeOK
    <2>4. CASE /\ Goto(c, "decided")
               /\ req' = [req EXCEPT ![c] = [kind |-> "approve", step |-> s,
                                             action |-> a, decision |-> d]]
               /\ UNCHANGED <<snap, act, output, fault>>
      <3>1. req' \in [Calls -> Request]
        BY <2>4 DEF Request
      <3> QED
        BY <1>3, <2>1, <2>2, <2>4, <3>1
           DEF Approve, Goto, histVars, Tool!ClaimsTypeOK
    <2> QED
      BY <1>3, <2>3, <2>4 DEF Approve
  <1> QED
    BY <1>1, <1>2, <1>3 DEF Invoke

\* So does losing the race for the lease.
LEMMA AfterConflictType ==
  ASSUME TypeOK, NEW c \in Calls, AfterConflict(c)
  PROVE  /\ pc' \in [Calls -> Locations]
         /\ req' \in [Calls -> Request]
         /\ snap' \in [Calls -> RunRow]
         /\ act' \in [Calls -> Answers \cup {NoAction}]
         /\ output' \in [Calls -> Calls \cup {NoCall}]
         /\ fault' \in [Calls -> Results \cup Errors]
  <1>1. "await" \in Locations /\ "raised" \in Locations /\ "none" \in Results
    BY DEF Locations, Returned, Results
  <1>2. CASE Return(c, "raised")
    BY <1>1, <1>2, ReturnType
  <1>3. CASE /\ Goto(c, "await")
             /\ fault' = [fault EXCEPT ![c] = "none"]
             /\ UNCHANGED <<req, snap, act, output>>
    BY <1>1, <1>3 DEF TypeOK, Goto
  <1> QED
    BY <1>2, <1>3 DEF AfterConflict

\* Reading the run again and claiming its lease keep the types.
LEMMA ClaimType ==
  ASSUME TypeOK, NEW c \in Calls, Reread(c) \/ Claim(c)
  PROVE  TypeOK'
  <1>0. {"await", "claim", "deny_claim", "done", "raised", "enter", "denying"}
          \subseteq Locations
    BY DEF Locations, Returned, Executing
  <1>1. CASE Reread(c)
    <2>1. \/ \E l \in Locations : Return(c, l)
          \/ /\ \E l \in Locations : Goto(c, l)
             /\ UNCHANGED <<req, snap, act, output, fault>>
      BY <1>0, <1>1 DEF Reread
    <2>2. UNCHANGED <<storeVars, claims, histVars>>
      BY <1>1 DEF Reread
    <2> QED
      BY <2>1, <2>2, ReturnType
         DEF TypeOK, Goto, storeVars, histVars, StoreTypeOK, Tool!ClaimsTypeOK
  <1>2. CASE /\ ClaimRunExecution(c)
             /\ snap' = [snap EXCEPT ![c] = row]
             /\ \E l \in Locations : Goto(c, l)
             /\ UNCHANGED <<req, act, output, fault, claims, histVars>>
    BY <1>2 DEF TypeOK, ClaimRunExecution, Goto, StoreTypeOK, histVars,
                Tool!ClaimsTypeOK, Lease
  <1>3. CASE AfterConflict(c) /\ UNCHANGED <<storeVars, claims, histVars>>
    BY <1>0, <1>3, AfterConflictType
       DEF TypeOK, storeVars, histVars, StoreTypeOK, Tool!ClaimsTypeOK
  <1> QED
    BY <1>0, <1>1, <1>2, <1>3 DEF Claim

\* Saves of the orchestrator keep the types.
LEMMA SavingType ==
  ASSUME TypeOK, LocalsOK, NEW c \in Calls,
         \/ Enter(c) \/ NextAction(c) \/ Finish(c) \/ PolicyFails(c)
         \/ Pause(c) \/ Checkpoint(c) \/ TerminalFailure(c) \/ Deny(c)
  PROVE  TypeOK'
  <1>0. /\ snap[c] \in RunRow /\ snap[c].step \in Nat /\ req[c].step \in Nat
        /\ {"loop", "chosen", "policy", "failing", "release"} \subseteq Locations
        /\ {"run.running", "run.waiting_approval", "run.checkpointed",
            "run.succeeded", "run.failed", "approval.denied"} = EntryTypes
                                               \ {"approval.recorded"}
        /\ {"action_budget_exhausted", "approval_denied"} \subseteq Results
        /\ {"none", "ownership_lost"} \subseteq Errors
    BY StoreAssumption
       DEF TypeOK, RunRow, Locations, Executing, EntryTypes, Results, Errors,
           Request, Steps
  <1>1. ASSUME NEW run \in RunRow, NEW es \in Seq(Entries),
               NEW next \in Locations, Save(c, run, es, next),
               UNCHANGED <<claims, req, invoked>>,
               act' \in [Calls -> Answers \cup {NoAction}],
               output' \in [Calls -> Calls \cup {NoCall}],
               asked' \in Nat
        PROVE  TypeOK'
    BY <1>1, SaveType DEF TypeOK, Tool!ClaimsTypeOK
  <1>2. ASSUME NEW l \in Locations, Goto(c, l), UNCHANGED <<storeVars, snap>>,
               UNCHANGED <<claims, req, histVars>>,
               act' \in [Calls -> Answers \cup {NoAction}], UNCHANGED output,
               \/ UNCHANGED fault
               \/ \E e \in Results \cup Errors : fault' = [fault EXCEPT ![c] = e]
        PROVE  TypeOK'
    BY <1>2 DEF TypeOK, Goto, storeVars, histVars, StoreTypeOK, Tool!ClaimsTypeOK
  <1>3. CASE Enter(c)
    <2>1. CASE Save(c, Entered(snap[c]),
                    <<Entry("run.running", snap[c].step)>>, "loop")
      BY <1>0, <1>1, <1>3, <2>1, RunValues, EntryType DEF Enter, TypeOK, histVars
    <2>2. CASE UNCHANGED <<storeVars, snap, fault>>
               /\ (Goto(c, "loop") \/ Goto(c, "release"))
      BY <1>0, <1>2, <1>3, <2>2 DEF Enter, TypeOK
    <2> QED
      BY <1>3, <2>1, <2>2 DEF Enter
  <1>4. CASE NextAction(c)
    <2>1. UNCHANGED <<claims, req, output, invoked>>
      BY <1>4 DEF NextAction
    <2>2. CASE /\ act' = [act EXCEPT ![c] = snap[c].pending]
               /\ Goto(c, "chosen")
               /\ UNCHANGED <<storeVars, snap, fault, asked>>
      <3>1. act' \in [Calls -> Answers \cup {NoAction}]
        BY <1>0, <2>2 DEF TypeOK, RunRow, Answers
      <3> QED
        BY <1>0, <1>2, <2>1, <2>2, <3>1 DEF histVars
    <2>3. CASE /\ FailWith(c, "action_budget_exhausted")
               /\ UNCHANGED <<storeVars, snap, act, asked>>
      BY <1>0, <1>2, <2>1, <2>3 DEF histVars, FailWith, TypeOK
    <2>4. CASE /\ Save(c, [snap[c] EXCEPT !.policyCalls = BudgetUsed(snap[c]) + 1],
                       <<>>, "policy")
               /\ asked' = IF Saveable(c, snap[c].version) THEN asked + 1
                                                           ELSE asked
               /\ UNCHANGED act
      <3>1. <<>> \in Seq(Entries) /\ asked' \in Nat
        BY <2>4 DEF TypeOK
      <3> QED
        BY <1>0, <1>1, <2>1, <2>4, <3>1, RunValues DEF TypeOK
    <2> QED
      BY <1>4, <2>2, <2>3, <2>4 DEF NextAction
  <1>5. CASE Finish(c)
    BY <1>0, <1>1, <1>5, FinalValues, EntryType DEF Finish, TypeOK, histVars
  <1>6. CASE PolicyFails(c)
    BY <1>0, <1>1, <1>6, FinalValues, EntryType DEF PolicyFails, TypeOK, histVars
  <1>7. CASE Pause(c)
    <2>1. act[c] \in ToolActions
      BY <1>7 DEF Pause, LocalsOK, LocalOK, OnTool
    <2> QED
      BY <1>0, <1>1, <1>7, <2>1, RunValues, EntryType DEF Pause, TypeOK, histVars
  <1>8. CASE Checkpoint(c)
    <2>1. act[c] \in ToolActions /\ output[c] \in Calls
      BY <1>8 DEF Checkpoint, LocalsOK, LocalOK, OnTool
    <2>2. /\ act' \in [Calls -> Answers \cup {NoAction}]
          /\ output' \in [Calls -> Calls \cup {NoCall}]
      BY <1>8 DEF Checkpoint, TypeOK
    <2> QED
      BY <1>0, <1>1, <1>8, <2>1, <2>2, FinalValues, EntryType
         DEF Checkpoint, TypeOK, histVars
  <1>9. CASE TerminalFailure(c)
    <2>1. fault[c] \in Results
      BY <1>9 DEF TerminalFailure, LocalsOK, LocalOK
    <2>2. PICK run \in RunRow : run = Failed(snap[c], fault[c])
      BY <1>0, <2>1, RunValues
    <2>3. PICK es \in Seq(Entries) : es = <<Entry("run.failed", snap[c].step)>>
      BY <1>0, EntryType
    <2>4. CASE /\ SaveRunOwned(c, snap[c].version, run, es)
               /\ snap' = [snap EXCEPT ![c] = row']
               /\ Raise(c, "none")
      <3>1. StoreTypeOK'
        BY <1>0, <2>4, SaveRunOwnedType DEF TypeOK, RunRow
      <3>2. snap' \in [Calls -> RunRow]
        BY <2>4, <3>1 DEF TypeOK, StoreTypeOK
      <3> QED
        BY <1>0, <1>9, <2>4, <3>1, <3>2
           DEF TerminalFailure, Raise, Goto, TypeOK, histVars, Tool!ClaimsTypeOK
    <2>5. CASE Raise(c, SaveError(c)) /\ UNCHANGED <<storeVars, snap>>
      <3>1. SaveError(c) \in Errors
        BY DEF SaveError, Errors
      <3> QED
        BY <1>0, <1>2, <1>9, <2>5, <3>1 DEF TerminalFailure, Raise, TypeOK
    <2> QED
      BY <1>9, <2>2, <2>3, <2>4, <2>5 DEF TerminalFailure
  <1>10. CASE Deny(c)
    <2>1. CASE Raise(c, "ownership_lost") /\ UNCHANGED <<storeVars, snap>>
      BY <1>0, <1>2, <1>10, <2>1 DEF Deny, Raise, TypeOK
    <2>2. CASE Save(c, Failed(snap[c], "approval_denied"),
                    <<Entry("approval.denied", req[c].step),
                      Entry("run.failed", snap[c].step)>>, "release")
      <3>1. <<Entry("approval.denied", req[c].step),
              Entry("run.failed", snap[c].step)>> \in Seq(Entries)
        <4>1. /\ Entry("approval.denied", req[c].step) \in Entries
              /\ Entry("run.failed", snap[c].step) \in Entries
          BY <1>0, EntryType
        <4> QED
          BY <4>1
      <3> QED
        BY <1>0, <1>1, <1>10, <2>2, <3>1, RunValues DEF Deny, TypeOK, histVars
    <2> QED
      BY <1>10, <2>1, <2>2 DEF Deny
  <1> QED
    BY <1>3, <1>4, <1>5, <1>6, <1>7, <1>8, <1>9, <1>10

\* Steps that move only the call and its local variables keep the types.
LEMMA LocalType ==
  ASSUME TypeOK, LocalsOK, NEW c \in Calls,
         \/ \E a \in Answers : PolicyAnswers(c, a)
         \/ PolicyRaises(c) \/ Preflight(c) \/ CheckApproval(c)
         \/ Poll(c) \/ GiveUp(c) \/ Crash(c) \/ Release(c)
  PROVE  TypeOK'
  <1>0. /\ {"chosen", "failing", "approval", "call", "pausing", "done",
            "gave_up", "crashed", "raised"} \subseteq Locations
        /\ {"policy_error", "tool_preflight_failed", "approval_mismatch",
            "approval_denied"} \subseteq Results
    BY DEF Locations, Executing, Returned, Results
  <1>1. ASSUME NEW l \in Locations, Return(c, l),
               UNCHANGED <<storeVars, claims, histVars>>
        PROVE  TypeOK'
    BY <1>1, ReturnType
       DEF TypeOK, storeVars, histVars, StoreTypeOK, Tool!ClaimsTypeOK
  <1>2. ASSUME NEW l \in Locations, Goto(c, l),
               UNCHANGED <<storeVars, claims, req, snap, output, histVars>>,
               act' \in [Calls -> Answers \cup {NoAction}],
               \/ UNCHANGED fault
               \/ \E e \in Results : fault' = [fault EXCEPT ![c] = e]
        PROVE  TypeOK'
    BY <1>2 DEF TypeOK, Goto, storeVars, histVars, StoreTypeOK, Tool!ClaimsTypeOK
  <1>3. CASE \E a \in Answers : PolicyAnswers(c, a)
    BY <1>0, <1>2, <1>3 DEF PolicyAnswers, TypeOK
  <1>4. CASE PolicyRaises(c)
    BY <1>0, <1>2, <1>4 DEF PolicyRaises, FailWith, TypeOK
  <1>5. CASE Preflight(c)
    BY <1>0, <1>2, <1>5 DEF Preflight, FailWith, TypeOK
  <1>6. CASE CheckApproval(c)
    BY <1>0, <1>2, <1>6 DEF CheckApproval, FailWith, TypeOK
  <1>7. CASE Poll(c) \/ GiveUp(c) \/ Crash(c)
    BY <1>0, <1>1, <1>7 DEF Poll, GiveUp, Crash
  <1>8. CASE Release(c)
    <2>1. StoreTypeOK'
      BY <1>8 DEF Release, ReleaseRunExecution, TypeOK, StoreTypeOK, Lease
    <2>2. AfterConflict(c) \/ Return(c, "raised") \/ Return(c, "done")
      BY <1>8 DEF Release
    <2>3. UNCHANGED <<claims, histVars>>
      BY <1>8 DEF Release
    <2> QED
      BY <1>0, <2>1, <2>2, <2>3, ReturnType, AfterConflictType
         DEF TypeOK, histVars, Tool!ClaimsTypeOK
  <1> QED
    BY <1>3, <1>4, <1>5, <1>6, <1>7, <1>8

\* The claim table keeps its type.
LEMMA ClaimTableType ==
  ASSUME Tool!ClaimsTypeOK, NEW k \in Keys, NEW c \in Calls
  PROVE  /\ \A a \in ToolActions :
              Tool!ClaimToolExecution(k, c, a, TRUE) => Tool!ClaimsTypeOK'
         /\ Tool!CompleteToolResult(k, c) => Tool!ClaimsTypeOK'
         /\ \A d \in Tool!Dispositions :
              Tool!FailToolExecution(k, c, d) => Tool!ClaimsTypeOK'
  <1> USE DEF Tool!ClaimsTypeOK, Tool!ToolClaim, Tool!Absent
  <1>1. ASSUME NEW a \in ToolActions, Tool!ClaimToolExecution(k, c, a, TRUE)
        PROVE  Tool!ClaimsTypeOK'
    <2>1. Tool!Held(c, a) \in Tool!ToolClaim
      BY DEF Tool!Held, Tool!Dispositions
    <2>2. claims' = claims \/ claims' = [claims EXCEPT ![k] = Tool!Held(c, a)]
      BY <1>1 DEF Tool!ClaimToolExecution
    <2> QED
      BY <2>1, <2>2
  <1>2. ASSUME Tool!CompleteToolResult(k, c)
        PROVE  Tool!ClaimsTypeOK'
    BY <1>2 DEF Tool!CompleteToolResult, Tool!Owns
  <1>3. ASSUME NEW d \in Tool!Dispositions, Tool!FailToolExecution(k, c, d)
        PROVE  Tool!ClaimsTypeOK'
    <2>1. CASE Tool!Owns(k, c)
      <3>1. [claims[k] EXCEPT !.state = "failed", !.disposition = d]
              \in Tool!ToolClaim
        <4>1. claims[k] \in
                [state : {"claimed", "completed", "failed"}, owner : Calls,
                 live : BOOLEAN, request : ToolActions,
                 disposition : Tool!Dispositions]
          BY <2>1 DEF Tool!Owns
        <4> QED
          BY <4>1
      <3>2. claims' = [claims EXCEPT ![k] =
              [claims[k] EXCEPT !.state = "failed", !.disposition = d]]
        BY <1>3, <2>1 DEF Tool!FailToolExecution
      <3> QED
        BY <3>1, <3>2
    <2>2. CASE ~Tool!Owns(k, c)
      BY <1>3, <2>2 DEF Tool!FailToolExecution
    <2> QED
      BY <2>1, <2>2
  <1> QED
    BY <1>1, <1>2, <1>3

\* The clock and the heartbeat change one flag.
LEMMA ClockType ==
  ASSUME TypeOK
  PROVE  /\ \A c \in Calls : RenewRunExecution(c) => lease' \in Lease
         /\ LeaseExpires => lease' \in Lease
         /\ \A k \in Keys : Tool!ClaimExpires(k) => Tool!ClaimsTypeOK'
  <1>1. lease \in Lease /\ Tool!ClaimsTypeOK
    BY DEF TypeOK, StoreTypeOK
  <1>2. ASSUME lease.owner # NoCall \/ lease.live
        PROVE  \A b \in BOOLEAN : [lease EXCEPT !.live = b] \in Lease
    <2>1. lease \in [owner : Calls, live : BOOLEAN]
      BY <1>1, <1>2 DEF Lease, NoLease
    <2>2. \A b \in BOOLEAN :
            [lease EXCEPT !.live = b] \in [owner : Calls, live : BOOLEAN]
      BY <2>1
    <2> QED
      BY <2>2 DEF Lease
  <1>3. \A c \in Calls : RenewRunExecution(c) => lease' \in Lease
    BY <1>2, StoreAssumption DEF RenewRunExecution
  <1>4. LeaseExpires => lease' \in Lease
    BY <1>2 DEF LeaseExpires
  <1>5. ASSUME NEW k \in Keys, Tool!ClaimExpires(k)
        PROVE  Tool!ClaimsTypeOK'
    <2>1. [claims[k] EXCEPT !.live = FALSE] \in Tool!ToolClaim
      <3>1. claims[k] \in
              [state : {"claimed", "completed", "failed"}, owner : Calls,
               live : BOOLEAN, request : ToolActions,
               disposition : Tool!Dispositions]
        BY <1>1, <1>5 DEF Tool!ClaimExpires, Tool!ClaimsTypeOK, Tool!ToolClaim,
                          Tool!Absent
      <3> QED
        BY <3>1 DEF Tool!ToolClaim
    <2>2. claims' = [claims EXCEPT ![k] = [claims[k] EXCEPT !.live = FALSE]]
      BY <1>5 DEF Tool!ClaimExpires
    <2> QED
      BY <1>1, <2>1, <2>2 DEF Tool!ClaimsTypeOK
  <1> QED
    BY <1>3, <1>4, <1>5

\* Steps on a tool, a heartbeat, a cancellation and the clock keep the types.
LEMMA ToolType ==
  ASSUME TypeOK, LocalsOK, NEW c \in Calls,
         \/ CallTool(c)
         \/ \E storable \in BOOLEAN : HandlerSucceeds(c, storable)
         \/ \E transient \in BOOLEAN : HandlerFails(c, transient)
         \/ Cancel(c)
  PROVE  TypeOK'
  <1>0. /\ {"tool", "checkpoint", "failing", "release", "raised"}
             \subseteq Locations
        /\ {"approval_required", "approval_mismatch", "approval_denied", "none",
            "idempotency_in_progress", "idempotency_indeterminate",
            "idempotency_terminal_failure", "tool_execution_failed",
            "result_serialization_failed", "invalid_cached_output"}
             \subseteq Results
        /\ "other_error" \in Errors
        /\ {"retryable", "indeterminate", "terminal"} \subseteq Tool!Dispositions
    BY DEF Locations, Executing, Returned, Results, Errors, Tool!Dispositions
  <1>1. ASSUME NEW l \in Locations, Goto(c, l),
               UNCHANGED <<storeVars, req, snap, act, asked>>,
               Tool!ClaimsTypeOK',
               invoked' \subseteq Keys \X Calls,
               output' \in [Calls -> Calls \cup {NoCall}],
               \/ UNCHANGED fault
               \/ \E e \in Results \cup Errors : fault' = [fault EXCEPT ![c] = e]
        PROVE  TypeOK'
    BY <1>1 DEF TypeOK, Goto, storeVars, StoreTypeOK
  <1>2. pc[c] \in OnTool =>
          Key(c) \in Keys /\ snap[c].step \in Steps /\ act[c] \in ToolActions
    BY KeyType
  <1>3. CASE CallTool(c)
    <2>0. pc[c] \in OnTool /\ Tool!ClaimsTypeOK
      BY <1>3 DEF CallTool, OnTool, TypeOK
    <2>1. Tool!ClaimsTypeOK'
      BY <1>2, <1>3, <2>0, ClaimTableType DEF CallTool, Tool!ClaimsTypeOK
    <2>2. UNCHANGED <<storeVars, req, snap, act, asked>>
      BY <1>3 DEF CallTool
    <2>3. CASE /\ \E code \in Results : FailWith(c, code)
               /\ UNCHANGED <<output, invoked>>
      BY <1>0, <1>1, <2>1, <2>2, <2>3 DEF FailWith, TypeOK
    <2>4. CASE /\ invoked' = invoked \cup {<<Key(c), c>>}
               /\ Goto(c, "tool")
               /\ UNCHANGED <<output, fault>>
      BY <1>0, <1>1, <1>2, <2>0, <2>1, <2>2, <2>4 DEF TypeOK
    <2>5. CASE /\ claims[Key(c)].state = "completed"
               /\ output' = [output EXCEPT ![c] = claims[Key(c)].owner]
               /\ Goto(c, "checkpoint")
               /\ UNCHANGED <<invoked, fault>>
      <3>1. claims[Key(c)].owner \in Calls \cup {NoCall}
        BY <1>2, <2>0
           DEF Tool!ClaimsTypeOK, Tool!ToolClaim, Tool!Absent
      <3> QED
        BY <1>0, <1>1, <2>1, <2>2, <2>5, <3>1 DEF TypeOK
    <2>6. ApprovalFailure(snap[c].step, act[c]) \in Results
      BY <1>0 DEF ApprovalFailure
    <2>7. RefusalCode(Key(c)) \in Results
      BY <1>0 DEF RefusalCode
    <2> QED
      BY <1>0, <1>3, <2>3, <2>4, <2>5, <2>6, <2>7 DEF CallTool
  <1>4. ASSUME NEW storable \in BOOLEAN, HandlerSucceeds(c, storable)
        PROVE  TypeOK'
    <2>0. pc[c] \in OnTool /\ Tool!ClaimsTypeOK
      BY <1>4 DEF HandlerSucceeds, OnTool, TypeOK
    <2>1. Tool!ClaimsTypeOK'
      BY <1>0, <1>2, <1>4, <2>0, ClaimTableType
         DEF HandlerSucceeds, Tool!ClaimsTypeOK
    <2>2. output' \in [Calls -> Calls \cup {NoCall}]
      BY <1>4 DEF HandlerSucceeds, TypeOK
    <2>3. \/ Goto(c, "checkpoint") /\ UNCHANGED fault
          \/ \E code \in Results : FailWith(c, code)
          \/ Raise(c, "other_error")
      BY <1>0, <1>4 DEF HandlerSucceeds
    <2> QED
      BY <1>0, <1>1, <1>4, <2>1, <2>2, <2>3
         DEF HandlerSucceeds, FailWith, Raise, TypeOK, histVars
  <1>5. ASSUME NEW transient \in BOOLEAN, HandlerFails(c, transient)
        PROVE  TypeOK'
    <2>0. pc[c] \in OnTool /\ Tool!ClaimsTypeOK
      BY <1>5 DEF HandlerFails, OnTool, TypeOK
    <2>1. Tool!ClaimsTypeOK'
      BY <1>0, <1>2, <1>5, <2>0, ClaimTableType
         DEF HandlerFails, Tool!ClaimsTypeOK
    <2>2. FailWith(c, "tool_execution_failed") \/ Raise(c, "other_error")
      BY <1>5 DEF HandlerFails
    <2> QED
      BY <1>0, <1>1, <1>5, <2>1, <2>2
         DEF HandlerFails, FailWith, Raise, TypeOK, histVars
  <1>6. CASE Cancel(c)
    <2>1. CASE Return(c, "raised") /\ UNCHANGED claims
      BY <1>0, <1>6, <2>1, ReturnType
         DEF Cancel, TypeOK, storeVars, histVars, StoreTypeOK, Tool!ClaimsTypeOK
    <2>2. CASE pc[c] = "policy" /\ Raise(c, "other_error")
               /\ UNCHANGED <<claims, req, act, output, snap>>
      BY <1>0, <1>1, <1>6, <2>2
         DEF Cancel, Raise, TypeOK, histVars, Tool!ClaimsTypeOK
    <2>3. CASE pc[c] = "tool" /\ Raise(c, "other_error")
               /\ (UNCHANGED claims
                    \/ Tool!FailToolExecution(Key(c), c, "retryable"))
               /\ UNCHANGED <<req, act, output, snap>>
      <3>1. Tool!ClaimsTypeOK'
        BY <1>0, <1>2, <2>3, ClaimTableType
           DEF OnTool, TypeOK, Tool!ClaimsTypeOK
      <3> QED
        BY <1>0, <1>1, <1>6, <2>3, <3>1 DEF Cancel, Raise, TypeOK, histVars
    <2> QED
      BY <1>6, <2>1, <2>2, <2>3 DEF Cancel
  <1> QED
    BY <1>3, <1>4, <1>5, <1>6

\* Every step keeps the types.
LEMMA TypeStep ==
  ASSUME TypeOK, LocalsOK, [Next]_vars
  PROVE  TypeOK'
  <1>1. CASE UNCHANGED vars
    BY <1>1 DEF vars, TypeOK, StoreTypeOK, Tool!ClaimsTypeOK
  <1>2. ASSUME NEW c \in Calls, Heartbeat(c)
        PROVE  TypeOK'
    BY <1>2, ClockType
       DEF Heartbeat, RenewRunExecution, TypeOK, StoreTypeOK, localVars,
           histVars, Tool!ClaimsTypeOK
  <1>3. CASE RunLeaseExpires
    BY <1>3, ClockType
       DEF RunLeaseExpires, LeaseExpires, TypeOK, StoreTypeOK, localVars,
           histVars, Tool!ClaimsTypeOK
  <1>4. ASSUME NEW k \in Keys, ToolClaimExpires(k)
        PROVE  TypeOK'
    BY <1>4, ClockType
       DEF ToolClaimExpires, TypeOK, StoreTypeOK, storeVars, localVars, histVars
  <1> QED
    BY <1>1, <1>2, <1>3, <1>4, InvokeType, ClaimType, SavingType, LocalType,
       ToolType
       DEF Next, Advance, Quiescent

-----------------------------------------------------------------------------
(* What a step of one call leaves alone *)

StepOf(c) ==
  Invoke(c) \/ Advance(c) \/ Heartbeat(c) \/ Cancel(c) \/ Crash(c)

\* A step of one call leaves the local variables of the others alone.
LEMMA Frame ==
  ASSUME TypeOK, NEW c \in Calls, StepOf(c), NEW d \in Calls, d # c
  PROVE  /\ pc'[d] = pc[d] /\ snap'[d] = snap[d] /\ act'[d] = act[d]
         /\ output'[d] = output[d] /\ fault'[d] = fault[d]
  <1> DEFINE Framed ==
        /\ pc'[d] = pc[d] /\ snap'[d] = snap[d] /\ act'[d] = act[d]
        /\ output'[d] = output[d] /\ fault'[d] = fault[d]
  <1> USE DEF TypeOK
  <1>1. ASSUME NEW l, Return(c, l)
        PROVE  Framed
    BY <1>1 DEF Return, Goto
  <1>2. AfterConflict(c) => Framed
    BY <1>1 DEF AfterConflict, Goto
  <1>3. ASSUME NEW run, NEW es, NEW next, Save(c, run, es, next),
               act'[d] = act[d], output'[d] = output[d]
        PROVE  Framed
    BY <1>3 DEF Save, Raise, Goto
  <1>4. Invoke(c) => Framed
    BY <1>1 DEF Invoke, Start, Resume, Approve, Goto
  <1>5. Reread(c) => Framed
    BY <1>1 DEF Reread, Goto
  <1>6. Claim(c) => Framed
    BY <1>2 DEF Claim, Goto
  <1>7. Enter(c) => Framed
    BY <1>3 DEF Enter, Goto
  <1>8. NextAction(c) => Framed
    BY <1>3 DEF NextAction, Goto, FailWith
  <1>9. /\ PolicyRaises(c) => Framed
        /\ \A a \in Answers : PolicyAnswers(c, a) => Framed
        /\ Preflight(c) => Framed
        /\ CheckApproval(c) => Framed
    BY DEF PolicyRaises, PolicyAnswers, Preflight, CheckApproval, Goto, FailWith
  <1>10. Finish(c) \/ PolicyFails(c) \/ Pause(c) \/ Checkpoint(c) => Framed
    BY <1>3 DEF Finish, PolicyFails, Pause, Checkpoint
  <1>11. TerminalFailure(c) => Framed
    BY DEF TerminalFailure, Raise, Goto
  <1>12. CallTool(c) => Framed
    BY DEF CallTool, Goto, FailWith
  <1>13. \A b \in BOOLEAN : HandlerSucceeds(c, b) => Framed
    BY DEF HandlerSucceeds, Goto, FailWith, Raise
  <1>14. \A b \in BOOLEAN : HandlerFails(c, b) => Framed
    BY DEF HandlerFails, Goto, FailWith, Raise
  <1>15. Deny(c) => Framed
    BY <1>3 DEF Deny, Raise, Goto
  <1>16. Release(c) => Framed
    BY <1>1, <1>2 DEF Release
  <1>17. Poll(c) \/ GiveUp(c) \/ Crash(c) => Framed
    BY <1>1 DEF Poll, GiveUp, Crash
  <1>18. Cancel(c) => Framed
    BY <1>1 DEF Cancel, Raise, Goto
  <1>19. Heartbeat(c) => Framed
    BY DEF Heartbeat, localVars
  <1> QED
    BY <1>4, <1>5, <1>6, <1>7, <1>8, <1>9, <1>10, <1>11, <1>12, <1>13, <1>14,
       <1>15, <1>16, <1>17, <1>18, <1>19 DEF StepOf, Advance

\* A save of a call that executes: either it holds the lease, has the current
\* row in hand and replaces it, or it lost the lease and changes nothing.
SaveStep(c, run, next) ==
  /\ UNCHANGED <<approvals, lease>>
  /\ \/ /\ OwnsLease(c) /\ snap[c] = row
        /\ row' = [run EXCEPT !.version = snap[c].version + 1]
        /\ snap'[c] = row' /\ pc'[c] = next
        /\ fault'[c] # "stale_version"
     \/ /\ ~OwnsLease(c)
        /\ UNCHANGED <<row, trail, snap>>
        /\ pc'[c] = "release" /\ fault'[c] = "ownership_lost"

\* Every save is such a step: an owner's snapshot is never stale.
LEMMA SaveIsSaveStep ==
  ASSUME TypeOK, OwnerIsCurrent, NEW c \in Calls, pc[c] \in Executing,
         NEW run, NEW es, NEW next, Save(c, run, es, next)
  PROVE  SaveStep(c, run, next)
  <1>1. OwnsLease(c) => snap[c] = row
    BY DEF OwnerIsCurrent, OwnsLease
  <1>2. CASE SaveRunOwned(c, snap[c].version, run, es)
              /\ snap' = [snap EXCEPT ![c] = row']
              /\ Goto(c, next) /\ UNCHANGED fault
    BY <1>1, <1>2
       DEF SaveStep, SaveRunOwned, Saveable, Goto, TypeOK, OwnerIsCurrent
  <1>3. CASE ~Saveable(c, snap[c].version) /\ Raise(c, SaveError(c))
              /\ UNCHANGED <<storeVars, snap>>
    <2>1. ~OwnsLease(c)
      BY <1>1, <1>3 DEF Saveable
    <2> QED
      BY <1>3, <2>1 DEF SaveStep, SaveError, Raise, Goto, storeVars, TypeOK
  <1> QED
    BY <1>2, <1>3 DEF Save

\* So is the save of a terminal failure.
LEMMA FailureIsSaveStep ==
  ASSUME TypeOK, OwnerIsCurrent, NEW c \in Calls, TerminalFailure(c)
  PROVE  SaveStep(c, Failed(snap[c], fault[c]), "release")
  <1>1. OwnsLease(c) => snap[c] = row
    BY DEF OwnerIsCurrent, OwnsLease, TerminalFailure, Executing
  <1>2. CASE SaveRunOwned(c, snap[c].version, Failed(snap[c], fault[c]),
                          <<Entry("run.failed", snap[c].step)>>)
              /\ snap' = [snap EXCEPT ![c] = row'] /\ Raise(c, "none")
    BY <1>1, <1>2 DEF SaveStep, SaveRunOwned, Saveable, Raise, Goto, TypeOK
  <1>3. CASE ~Saveable(c, snap[c].version) /\ Raise(c, SaveError(c))
              /\ UNCHANGED <<storeVars, snap>>
    <2>1. ~OwnsLease(c)
      BY <1>1, <1>3 DEF Saveable
    <2> QED
      BY <1>3, <2>1 DEF SaveStep, SaveError, Raise, Goto, storeVars, TypeOK
  <1> QED
    BY <1>2, <1>3 DEF TerminalFailure

\* The saves, each with the run it writes and where it leads.
LEMMA Saves ==
  ASSUME TypeOK, OwnerIsCurrent, NEW c \in Calls
  PROVE  /\ Enter(c) =>
              \/ UNCHANGED <<storeVars, snap, fault>>
              \/ /\ snap[c].status \in {"queued", "waiting_approval"}
                 /\ SaveStep(c, Entered(snap[c]), "loop")
         /\ NextAction(c) =>
              \/ UNCHANGED <<storeVars, snap, asked>>
              \/ /\ snap[c].pending = NoAction
                 /\ BudgetUsed(snap[c]) < MaxActionSteps
                 /\ SaveStep(c, [snap[c] EXCEPT
                      !.policyCalls = BudgetUsed(snap[c]) + 1], "policy")
                 /\ asked' = IF OwnsLease(c) THEN asked + 1 ELSE asked
         /\ Finish(c) =>
              SaveStep(c, [snap[c] EXCEPT
                !.status = "succeeded", !.step = @ + 1, !.pending = NoAction,
                !.result = "finished"], "release")
         /\ PolicyFails(c) =>
              SaveStep(c, [Failed(snap[c], "policy_failed") EXCEPT !.step = @ + 1],
                       "release")
         /\ Pause(c) =>
              SaveStep(c, [snap[c] EXCEPT
                !.status = "waiting_approval", !.pendingApproval = TRUE,
                !.pending = act[c]], "release")
         /\ Checkpoint(c) =>
              SaveStep(c, [snap[c] EXCEPT
                !.step = @ + 1, !.pendingApproval = FALSE, !.pending = NoAction,
                !.toolResults = Append(@, [action |-> act[c], by |-> output[c]])],
                "loop")
         /\ Deny(c) =>
              \/ /\ UNCHANGED <<storeVars, snap>>
                 /\ Raise(c, "ownership_lost")
              \/ /\ snap[c].status = "waiting_approval"
                 /\ SaveStep(c, Failed(snap[c], "approval_denied"), "release")
  <1>1. Enter(c) =>
          \/ UNCHANGED <<storeVars, snap, fault>>
          \/ /\ snap[c].status \in {"queued", "waiting_approval"}
             /\ SaveStep(c, Entered(snap[c]), "loop")
    BY SaveIsSaveStep DEF Enter, Executing
  <1>2. ASSUME NextAction(c)
        PROVE  \/ UNCHANGED <<storeVars, snap, asked>>
               \/ /\ snap[c].pending = NoAction
                  /\ BudgetUsed(snap[c]) < MaxActionSteps
                  /\ SaveStep(c, [snap[c] EXCEPT
                       !.policyCalls = BudgetUsed(snap[c]) + 1], "policy")
                  /\ asked' = IF OwnsLease(c) THEN asked + 1 ELSE asked
    <2>1. pc[c] \in Executing
      BY <1>2 DEF NextAction, Executing
    <2>2. OwnsLease(c) <=> Saveable(c, snap[c].version)
      BY <2>1 DEF Saveable, OwnsLease, OwnerIsCurrent
    <2> QED
      BY <1>2, <2>1, <2>2, SaveIsSaveStep DEF NextAction
  <1>3. /\ Finish(c) =>
             SaveStep(c, [snap[c] EXCEPT
               !.status = "succeeded", !.step = @ + 1, !.pending = NoAction,
               !.result = "finished"], "release")
        /\ PolicyFails(c) =>
             SaveStep(c, [Failed(snap[c], "policy_failed") EXCEPT !.step = @ + 1],
                      "release")
    BY SaveIsSaveStep DEF Finish, PolicyFails, Executing
  <1>4. /\ Pause(c) =>
             SaveStep(c, [snap[c] EXCEPT
               !.status = "waiting_approval", !.pendingApproval = TRUE,
               !.pending = act[c]], "release")
        /\ Checkpoint(c) =>
             SaveStep(c, [snap[c] EXCEPT
               !.step = @ + 1, !.pendingApproval = FALSE, !.pending = NoAction,
               !.toolResults = Append(@, [action |-> act[c], by |-> output[c]])],
               "loop")
    BY SaveIsSaveStep DEF Pause, Checkpoint, Executing
  <1>5. Deny(c) =>
          \/ UNCHANGED <<storeVars, snap>> /\ Raise(c, "ownership_lost")
          \/ /\ snap[c].status = "waiting_approval"
             /\ SaveStep(c, Failed(snap[c], "approval_denied"), "release")
    BY SaveIsSaveStep DEF Deny, Executing
  <1> QED
    BY <1>1, <1>2, <1>3, <1>4, <1>5

\* The actions that replace the row.
Saving(c) ==
  \/ Enter(c) \/ NextAction(c) \/ Finish(c) \/ PolicyFails(c) \/ Pause(c)
  \/ Checkpoint(c) \/ TerminalFailure(c) \/ Deny(c)

\* Whatever it saves, a call keeps executing and, when it writes, holds the
\* lease of a run that is not terminal.
LEMMA SavingEffect ==
  ASSUME TypeOK, LocalsOK, OwnerIsCurrent, NEW c \in Calls, Saving(c)
  PROVE  /\ pc[c] \in Executing /\ pc'[c] \in Executing
         /\ UNCHANGED <<approvals, lease>>
         /\ fault'[c] # "stale_version"
         /\ \/ /\ OwnsLease(c) /\ snap[c] = row /\ snap'[c] = row'
               /\ row.status \notin Terminal
            \/ UNCHANGED <<row, trail, snap>>
  <1>0. fault[c] # "stale_version"
    BY DEF OwnerIsCurrent
  <1>1. ASSUME NEW run, NEW next \in Executing, SaveStep(c, run, next),
               pc[c] \in Executing, snap[c].status \notin Terminal
        PROVE  /\ pc[c] \in Executing /\ pc'[c] \in Executing
               /\ UNCHANGED <<approvals, lease>>
               /\ fault'[c] # "stale_version"
               /\ \/ /\ OwnsLease(c) /\ snap[c] = row /\ snap'[c] = row'
                     /\ row.status \notin Terminal
                  \/ UNCHANGED <<row, trail, snap>>
    BY <1>1 DEF SaveStep, Executing
  <1>2. /\ {"loop", "policy", "release", "failing", "chosen"} \subseteq Executing
        /\ InLoop \subseteq Executing
        /\ "enter" \in Executing /\ "denying" \in Executing
    BY DEF Executing, InLoop
  <1>3. pc[c] \in InLoop => snap[c].status \notin Terminal
    BY DEF LocalsOK, LocalOK, Terminal
  <1>4. CASE Enter(c)
    <2>1. pc[c] = "enter"
      BY <1>4 DEF Enter
    <2>2. CASE UNCHANGED <<storeVars, snap, fault>>
      <3>1. pc'[c] \in {"loop", "release"}
        BY <1>4, <2>1, <2>2 DEF Enter, Goto, TypeOK, Save, Raise
      <3> QED
        BY <1>0, <1>2, <2>1, <2>2, <3>1 DEF storeVars
    <2>3. CASE snap[c].status \in {"queued", "waiting_approval"}
               /\ SaveStep(c, Entered(snap[c]), "loop")
      BY <1>1, <1>2, <2>1, <2>3 DEF Terminal
    <2> QED
      BY <1>4, <2>2, <2>3, Saves
  <1>5. CASE NextAction(c)
    <2>1. pc[c] \in InLoop
      BY <1>5 DEF NextAction, InLoop
    <2>2. CASE UNCHANGED <<storeVars, snap, asked>>
      <3>1. /\ pc'[c] \in {"chosen", "failing", "policy", "release"}
            /\ fault'[c] # "stale_version"
        <4>1. CASE Goto(c, "chosen") /\ UNCHANGED fault
          BY <1>0, <4>1 DEF Goto, TypeOK
        <4>2. CASE FailWith(c, "action_budget_exhausted")
          BY <4>2 DEF FailWith, Goto, TypeOK
        <4>3. ASSUME NEW run, Save(c, run, <<>>, "policy")
              PROVE  /\ pc'[c] \in {"chosen", "failing", "policy", "release"}
                     /\ fault'[c] # "stale_version"
          BY <1>2, <2>1, <4>3, SaveIsSaveStep DEF SaveStep
        <4> QED
          BY <1>5, <4>1, <4>2, <4>3 DEF NextAction
      <3> QED
        BY <1>2, <2>1, <2>2, <3>1 DEF storeVars
    <2>3. CASE SaveStep(c, [snap[c] EXCEPT
                 !.policyCalls = BudgetUsed(snap[c]) + 1], "policy")
      BY <1>1, <1>2, <1>3, <2>1, <2>3
    <2> QED
      BY <1>5, <2>2, <2>3, Saves
  <1>6. CASE Finish(c) \/ PolicyFails(c) \/ Pause(c) \/ Checkpoint(c)
               \/ TerminalFailure(c)
    <2>1. pc[c] \in InLoop
      BY <1>6 DEF Finish, PolicyFails, Pause, Checkpoint, TerminalFailure, InLoop
    <2>2. \E run : SaveStep(c, run, "release") \/ SaveStep(c, run, "loop")
      BY <1>6, Saves, FailureIsSaveStep
    <2> QED
      BY <1>1, <1>2, <1>3, <2>1, <2>2
  <1>7. CASE Deny(c)
    <2>1. pc[c] = "denying"
      BY <1>7 DEF Deny
    <2>2. CASE UNCHANGED <<storeVars, snap>> /\ Raise(c, "ownership_lost")
      BY <1>2, <2>1, <2>2 DEF storeVars, Raise, Goto, TypeOK
    <2>3. CASE snap[c].status = "waiting_approval"
               /\ SaveStep(c, Failed(snap[c], "approval_denied"), "release")
      BY <1>1, <1>2, <2>1, <2>3 DEF Terminal
    <2> QED
      BY <1>7, <2>2, <2>3, Saves
  <1> QED
    BY <1>4, <1>5, <1>6, <1>7 DEF Saving

\* A call's other steps inside its lease: the store's row and the snapshot
\* stay, and the call keeps executing.
Quiet(c) ==
  \/ \E a \in Answers : PolicyAnswers(c, a)
  \/ PolicyRaises(c) \/ Preflight(c) \/ CheckApproval(c) \/ CallTool(c)
  \/ \E b \in BOOLEAN : HandlerSucceeds(c, b) \/ HandlerFails(c, b)
  \/ Heartbeat(c)
  \/ Cancel(c) /\ pc[c] # "await"

LEMMA QuietEffect ==
  ASSUME TypeOK, NEW c \in Calls, Quiet(c), fault[c] # "stale_version"
  PROVE  /\ UNCHANGED <<row, approvals, trail, snap, req, asked>>
         /\ lease'.owner = lease.owner
         /\ pc[c] \in Executing /\ pc'[c] \in Executing
         /\ fault'[c] # "stale_version"
  <1> USE DEF Executing, TypeOK, Goto, storeVars, histVars
  <1>1. CASE \E a \in Answers : PolicyAnswers(c, a)
    BY <1>1 DEF PolicyAnswers
  <1>2. CASE PolicyRaises(c) \/ Preflight(c)
    BY <1>2 DEF PolicyRaises, Preflight, FailWith
  <1>3. CASE CheckApproval(c)
    BY <1>3 DEF CheckApproval, FailWith
  <1>4. CASE CallTool(c)
    BY <1>4 DEF CallTool, FailWith, RefusalCode, ApprovalFailure
  <1>5. ASSUME NEW b \in BOOLEAN, HandlerSucceeds(c, b)
        PROVE  /\ UNCHANGED <<row, approvals, trail, snap, req, asked>>
               /\ lease'.owner = lease.owner
               /\ pc[c] \in Executing /\ pc'[c] \in Executing
               /\ fault'[c] # "stale_version"
    BY <1>5 DEF HandlerSucceeds, FailWith, Raise
  <1>6. ASSUME NEW b \in BOOLEAN, HandlerFails(c, b)
        PROVE  /\ UNCHANGED <<row, approvals, trail, snap, req, asked>>
               /\ lease'.owner = lease.owner
               /\ pc[c] \in Executing /\ pc'[c] \in Executing
               /\ fault'[c] # "stale_version"
    BY <1>6 DEF HandlerFails, FailWith, Raise
  <1>7. CASE Heartbeat(c)
    <2>1. lease'.owner = lease.owner
      BY <1>7 DEF Heartbeat, RenewRunExecution, StoreTypeOK, Lease, NoLease
    <2> QED
      BY <1>7, <2>1 DEF Heartbeat, RenewRunExecution, localVars
  <1>8. CASE Cancel(c) /\ pc[c] # "await"
    BY <1>8 DEF Cancel, Raise
  <1> QED
    BY <1>1, <1>2, <1>3, <1>4, <1>5, <1>6, <1>7, <1>8 DEF Quiet

\* The steps of a call before it has the lease and after it returned it.
Outside(c) ==
  \/ Resume(c) \/ Reread(c) \/ Poll(c) \/ GiveUp(c)
  \/ Cancel(c) /\ pc[c] = "await"
  \/ \E s \in Steps, a \in ToolActions, d \in Decisions : Approve(c, s, a, d)

\* The steps by which a call comes to its lease, ends it or stays outside it.
LEMMA OutsideEffect ==
  ASSUME TypeOK, FreshOK, NEW c \in Calls, fault[c] # "stale_version"
  PROVE  /\ Start(c) => /\ ~Exists /\ UNCHANGED lease
                        /\ fault'[c] # "stale_version"
         /\ Outside(c) =>
              /\ UNCHANGED <<row, lease>>
              /\ pc[c] \notin Executing /\ pc'[c] \notin Executing
              /\ fault'[c] # "stale_version"
         /\ Claim(c) =>
              /\ UNCHANGED row /\ pc[c] \notin Executing
              /\ fault'[c] # "stale_version"
              /\ \/ /\ lease'.owner = c /\ snap'[c] = row
                    /\ pc'[c] \in Executing
                 \/ UNCHANGED lease /\ pc'[c] \notin Executing
         /\ Release(c) =>
              /\ UNCHANGED row /\ lease'.owner \in {lease.owner, NoCall}
              /\ lease'.owner # c /\ pc'[c] \notin Executing
              /\ fault'[c] # "stale_version"
         /\ Crash(c) => UNCHANGED <<row, lease>> /\ pc'[c] = "crashed"
                        /\ fault'[c] # "stale_version"
  <1> USE DEF TypeOK, storeVars
  <1>1. Start(c) => ~Exists /\ UNCHANGED lease /\ fault'[c] # "stale_version"
    BY DEF Start, InsertRun
  <1>2. ASSUME NEW l, Return(c, l)
        PROVE  pc'[c] = l /\ fault'[c] # "stale_version"
    BY <1>2 DEF Return, Goto
  <1>3. AfterConflict(c) =>
          pc'[c] \in {"await", "raised"} /\ fault'[c] # "stale_version"
    BY <1>2 DEF AfterConflict, Goto
  <1>4. Resume(c) \/ Reread(c) \/ Poll(c) \/ GiveUp(c)
          \/ (Cancel(c) /\ pc[c] = "await") =>
          /\ UNCHANGED <<row, lease>>
          /\ pc[c] \notin Executing /\ pc'[c] \notin Executing
          /\ fault'[c] # "stale_version"
    BY <1>2 DEF Resume, Reread, Poll, GiveUp, Cancel, Goto, Executing
  <1>5. ASSUME NEW s \in Steps, NEW a \in ToolActions, NEW d \in Decisions,
               Approve(c, s, a, d)
        PROVE  /\ UNCHANGED <<row, lease>>
               /\ pc[c] \notin Executing /\ pc'[c] \notin Executing
               /\ fault'[c] # "stale_version"
    BY <1>2, <1>5 DEF Approve, RecordPendingApproval, Goto, Executing
  <1>6. Claim(c) =>
          /\ UNCHANGED row /\ pc[c] \notin Executing
          /\ fault'[c] # "stale_version"
          /\ \/ lease'.owner = c /\ snap'[c] = row /\ pc'[c] \in Executing
             \/ UNCHANGED lease /\ pc'[c] \notin Executing
    BY <1>3 DEF Claim, ClaimRunExecution, Goto, Executing
  <1>7. ASSUME Release(c)
        PROVE  /\ UNCHANGED row /\ lease'.owner \in {lease.owner, NoCall}
               /\ lease'.owner # c /\ pc'[c] \notin Executing
               /\ fault'[c] # "stale_version"
    <2>1. /\ UNCHANGED row /\ lease'.owner \in {lease.owner, NoCall}
          /\ lease'.owner # c
      BY <1>7, StoreAssumption DEF Release, ReleaseRunExecution, NoLease
    <2>2. pc'[c] \in {"await", "raised", "done"} /\ fault'[c] # "stale_version"
      BY <1>2, <1>3, <1>7 DEF Release
    <2> QED
      BY <2>1, <2>2 DEF Executing
  <1>8. Crash(c) => UNCHANGED <<row, lease>> /\ pc'[c] = "crashed"
                    /\ fault'[c] # "stale_version"
    BY <1>2 DEF Crash
  <1>9. Outside(c) =>
          /\ UNCHANGED <<row, lease>>
          /\ pc[c] \notin Executing /\ pc'[c] \notin Executing
          /\ fault'[c] # "stale_version"
    <2>1. CASE \E s \in Steps, a \in ToolActions, d \in Decisions :
                 Approve(c, s, a, d)
      BY <1>5, <2>1
    <2>2. CASE \/ Resume(c) \/ Reread(c) \/ Poll(c) \/ GiveUp(c)
               \/ Cancel(c) /\ pc[c] = "await"
      BY <1>4, <2>2
    <2> QED
      BY <2>1, <2>2 DEF Outside
  <1> QED
    BY <1>1, <1>6, <1>7, <1>8, <1>9

\* Every step of a call is one of these.
LEMMA StepKinds ==
  ASSUME NEW c \in Calls, StepOf(c)
  PROVE  \/ Start(c) \/ Saving(c) \/ Quiet(c) \/ Claim(c) \/ Release(c)
         \/ Crash(c) \/ Outside(c)
  <1>1. Invoke(c) => Start(c) \/ Outside(c)
    BY DEF Invoke, Outside
  <1>2. Cancel(c) => Quiet(c) \/ Outside(c)
    BY DEF Quiet, Outside
  <1>3. ASSUME Advance(c)
        PROVE  Saving(c) \/ Quiet(c) \/ Claim(c) \/ Release(c) \/ Outside(c)
    <2>1. CASE Reread(c) \/ Poll(c) \/ GiveUp(c)
      BY <2>1 DEF Outside
    <2>2. CASE Saving(c) \/ Quiet(c) \/ Claim(c) \/ Release(c)
      BY <2>2
    <2> QED
      BY <1>3, <2>1, <2>2 DEF Advance, Saving, Quiet
  <1>4. Heartbeat(c) => Quiet(c)
    BY DEF Quiet
  <1> QED
    BY <1>1, <1>2, <1>3, <1>4 DEF StepOf

\* Fencing is kept: whoever writes the row holds the lease, and whoever gets
\* the lease reads the row in the same transaction.
LEMMA OwnerStep ==
  ASSUME IInv, NEW c \in Calls, StepOf(c)
  PROVE  OwnerIsCurrent'
  <1> USE DEF IInv
  <1>0. fault[c] # "stale_version"
    BY DEF OwnerIsCurrent
  <1>1. \A d \in Calls \ {c} : lease'.owner = d => lease.owner = d
    <2>1. CASE lease'.owner \in {lease.owner, NoCall, c}
      BY <2>1, StoreAssumption
    <2> QED
      BY <1>0, <2>1, StepKinds, OutsideEffect, SavingEffect, QuietEffect
  <1>2. \A d \in Calls \ {c} : lease'.owner = d => row' = row
    <2>1. Start(c) => \A d \in Calls : lease.owner # d
      BY <1>0, OutsideEffect DEF FreshOK, OwnerIsCurrent, Executing
    <2>2. ASSUME Saving(c), NEW d \in Calls \ {c}, lease'.owner = d
          PROVE  row' = row
      BY <1>1, <2>2, SavingEffect DEF OwnsLease
    <2> QED
      BY <1>0, <1>1, <2>1, <2>2, StepKinds, OutsideEffect, QuietEffect
  <1>3. /\ lease'.owner = c => pc'[c] \in Executing \cup {"crashed"}
        /\ lease'.owner = c /\ pc'[c] \in Executing => snap'[c] = row'
        /\ fault'[c] # "stale_version"
    <2>1. CASE Start(c)
      BY <1>0, <2>1, OutsideEffect DEF FreshOK, OwnerIsCurrent, Executing
    <2>2. CASE Saving(c)
      BY <2>2, SavingEffect DEF OwnerIsCurrent
    <2>3. CASE Quiet(c)
      BY <1>0, <2>3, QuietEffect DEF OwnerIsCurrent
    <2>4. CASE Claim(c)
      BY <1>0, <2>4, OutsideEffect DEF OwnerIsCurrent, Claim
    <2>5. CASE Release(c)
      BY <1>0, <2>5, OutsideEffect
    <2>6. CASE Crash(c)
      BY <1>0, <2>6, OutsideEffect DEF Executing
    <2>7. CASE Outside(c)
      <3>1. /\ UNCHANGED lease /\ fault'[c] # "stale_version"
            /\ pc[c] \notin Executing /\ pc'[c] \notin Executing
        BY <1>0, <2>7, OutsideEffect
      <3>2. pc[c] # "crashed"
        BY <2>7 DEF Outside, Resume, Reread, Poll, GiveUp, Approve
      <3> QED
        BY <3>1, <3>2 DEF OwnerIsCurrent
    <2> QED
      BY <2>1, <2>2, <2>3, <2>4, <2>5, <2>6, <2>7, StepKinds
  <1> QED
    BY <1>1, <1>2, <1>3, Frame DEF OwnerIsCurrent

-----------------------------------------------------------------------------
(* The budget and the local facts *)

\* The runs that the saves write keep the budget facts.
LEMMA SlotsOfSaves ==
  ASSUME NEW run \in RunRow, SlotsHold(run)
  PROVE  /\ SlotsHold(Entered(run))
         /\ \A code : SlotsHold(Failed(run, code))
         /\ run.pending = NoAction /\ BudgetUsed(run) < MaxActionSteps =>
              LET next == [run EXCEPT !.policyCalls = BudgetUsed(run) + 1]
              IN  /\ SlotsHold(next) /\ next.step < next.policyCalls
                  /\ next.policyCalls = run.policyCalls + 1
         /\ run.step < run.policyCalls =>
              /\ SlotsHold([run EXCEPT
                   !.status = "succeeded", !.step = @ + 1,
                   !.pending = NoAction, !.result = "finished"])
              /\ SlotsHold([Failed(run, "policy_failed") EXCEPT !.step = @ + 1])
              /\ \A a : SlotsHold([run EXCEPT
                   !.status = "waiting_approval", !.pendingApproval = TRUE,
                   !.pending = a])
              /\ \A r : SlotsHold([run EXCEPT
                   !.step = @ + 1, !.pendingApproval = FALSE,
                   !.pending = NoAction, !.toolResults = Append(@, r)])
  <1> USE DEF SlotsHold, RunRow
  <1>1. SlotsHold(Entered(run))
    BY DEF Entered
  <1>2. \A code : SlotsHold(Failed(run, code))
    BY DEF Failed
  <1>3. ASSUME run.pending = NoAction, BudgetUsed(run) < MaxActionSteps
        PROVE  LET next == [run EXCEPT !.policyCalls = BudgetUsed(run) + 1]
               IN  /\ SlotsHold(next) /\ next.step < next.policyCalls
                   /\ next.policyCalls = run.policyCalls + 1
    <2>1. BudgetUsed(run) = run.policyCalls
      BY DEF BudgetUsed
    <2> QED
      BY <1>3, <2>1, StoreAssumption
  <1>4. ASSUME run.step < run.policyCalls
        PROVE  /\ SlotsHold([run EXCEPT
                    !.status = "succeeded", !.step = @ + 1,
                    !.pending = NoAction, !.result = "finished"])
               /\ SlotsHold([Failed(run, "policy_failed") EXCEPT !.step = @ + 1])
               /\ \A a : SlotsHold([run EXCEPT
                    !.status = "waiting_approval", !.pendingApproval = TRUE,
                    !.pending = a])
               /\ \A r : SlotsHold([run EXCEPT
                    !.step = @ + 1, !.pendingApproval = FALSE,
                    !.pending = NoAction, !.toolResults = Append(@, r)])
    BY <1>4 DEF Failed
  <1> QED
    BY <1>1, <1>2, <1>3, <1>4

\* The version a save writes does not matter to the budget.
LEMMA SlotsOfVersion ==
  ASSUME NEW run \in RunRow, NEW v
  PROVE  LET next == [run EXCEPT !.version = v]
         IN  /\ next.status = run.status /\ next.step = run.step
             /\ next.policyCalls = run.policyCalls
             /\ next.pending = run.pending
             /\ next.version = v
             /\ SlotsHold(next) <=> SlotsHold(run)
  BY DEF SlotsHold, RunRow

\* A save of a call that keeps its budget facts keeps them for the row and
\* for the call's snapshot.
SlotsSaved(c) ==
  /\ SlotsHold(snap'[c])
  /\ SlotsHold(row')
  /\ row'.policyCalls >= row.policyCalls
  /\ asked' <= row'.policyCalls
  /\ row' = row \/ row'.version = row.version + 1

LEMMA SavingSlots ==
  ASSUME IInv, NEW c \in Calls, Saving(c)
  PROVE  SlotsSaved(c)
  <1> USE DEF IInv
  <1>0. /\ snap[c] \in RunRow /\ row \in RunRow /\ asked \in Nat
        /\ SlotsHold(snap[c]) /\ SlotsHold(row) /\ asked <= row.policyCalls
        /\ pc[c] \in OnAction => snap[c].step < snap[c].policyCalls
    BY DEF TypeOK, StoreTypeOK, LocalsOK, LocalOK, SlotsOK
  <1>1. ASSUME NEW run \in RunRow, NEW next, SaveStep(c, run, next),
               SlotsHold(run),
               \/ asked' = asked /\ run.policyCalls = snap[c].policyCalls
               \/ /\ run.policyCalls = snap[c].policyCalls + 1
                  /\ asked' = IF OwnsLease(c) THEN asked + 1 ELSE asked
        PROVE  SlotsSaved(c)
    <2>1. CASE /\ OwnsLease(c) /\ snap[c] = row
               /\ row' = [run EXCEPT !.version = snap[c].version + 1]
               /\ snap'[c] = row'
      <3>1. /\ SlotsHold(row') /\ row'.policyCalls = run.policyCalls
            /\ row'.version = row.version + 1
        BY <1>1, <2>1, SlotsOfVersion
      <3> QED
        BY <1>0, <1>1, <2>1, <3>1 DEF SlotsSaved, RunRow
    <2>2. CASE ~OwnsLease(c) /\ UNCHANGED <<row, snap>>
      BY <1>0, <1>1, <2>2 DEF SlotsSaved, RunRow
    <2> QED
      BY <1>1, <2>1, <2>2 DEF SaveStep
  <1>2. UNCHANGED <<row, snap, asked>> => SlotsSaved(c)
    BY <1>0 DEF SlotsSaved, RunRow
  <1>3. CASE Enter(c)
    <2>1. CASE UNCHANGED <<storeVars, snap, fault>>
      BY <1>2, <1>3, <2>1 DEF Enter, storeVars, histVars
    <2>2. CASE SaveStep(c, Entered(snap[c]), "loop")
      <3>1. Entered(snap[c]).policyCalls = snap[c].policyCalls
        BY <1>0 DEF Entered, RunRow
      <3> QED
        BY <1>0, <1>1, <1>3, <2>2, <3>1, SlotsOfSaves, RunValues
           DEF Enter, histVars
    <2> QED
      BY <1>3, <2>1, <2>2, Saves
  <1>4. CASE NextAction(c)
    <2>1. CASE UNCHANGED <<storeVars, snap, asked>>
      BY <1>2, <2>1 DEF storeVars
    <2>2. CASE /\ snap[c].pending = NoAction
               /\ BudgetUsed(snap[c]) < MaxActionSteps
               /\ SaveStep(c, [snap[c] EXCEPT
                    !.policyCalls = BudgetUsed(snap[c]) + 1], "policy")
               /\ asked' = IF OwnsLease(c) THEN asked + 1 ELSE asked
      <3> DEFINE run == [snap[c] EXCEPT !.policyCalls = BudgetUsed(snap[c]) + 1]
      <3>1. /\ run \in RunRow /\ SlotsHold(run)
            /\ run.policyCalls = snap[c].policyCalls + 1
        BY <1>0, <2>2, SlotsOfSaves, RunValues
      <3> HIDE DEF run
      <3>2. SaveStep(c, run, "policy")
        BY <2>2 DEF run
      <3> QED
        BY <1>1, <2>2, <3>1, <3>2
    <2> QED
      BY <1>4, <2>1, <2>2, Saves
  <1>5. CASE Finish(c)
    <2> DEFINE run == [snap[c] EXCEPT
                  !.status = "succeeded", !.step = @ + 1, !.pending = NoAction,
                  !.result = "finished"]
    <2>1. SaveStep(c, run, "release") /\ asked' = asked
      BY <1>5, Saves DEF Finish, histVars
    <2>2. pc[c] \in OnAction
      BY <1>5 DEF Finish, OnAction
    <2>3. /\ run \in RunRow /\ SlotsHold(run)
          /\ run.policyCalls = snap[c].policyCalls
      BY <1>0, <2>2, SlotsOfSaves, FinalValues DEF RunRow
    <2> HIDE DEF run
    <2> QED
      BY <1>1, <2>1, <2>3
  <1>6. CASE PolicyFails(c)
    <2> DEFINE run == [Failed(snap[c], "policy_failed") EXCEPT !.step = @ + 1]
    <2>1. SaveStep(c, run, "release") /\ asked' = asked
      BY <1>6, Saves DEF PolicyFails, histVars
    <2>2. pc[c] \in OnAction
      BY <1>6 DEF PolicyFails, OnAction
    <2>3. /\ run \in RunRow /\ SlotsHold(run)
          /\ run.policyCalls = snap[c].policyCalls
      BY <1>0, <2>2, SlotsOfSaves, FinalValues DEF RunRow, Failed
    <2> HIDE DEF run
    <2> QED
      BY <1>1, <2>1, <2>3
  <1>7. CASE Pause(c)
    <2> DEFINE run == [snap[c] EXCEPT
                  !.status = "waiting_approval", !.pendingApproval = TRUE,
                  !.pending = act[c]]
    <2>1. SaveStep(c, run, "release") /\ asked' = asked
      BY <1>7, Saves DEF Pause, histVars
    <2>2. pc[c] \in OnAction /\ act[c] \in ToolActions
      BY <1>7 DEF Pause, OnAction, LocalsOK, LocalOK, OnTool
    <2>3. /\ run \in RunRow /\ SlotsHold(run)
          /\ run.policyCalls = snap[c].policyCalls
      BY <1>0, <2>2, SlotsOfSaves, RunValues DEF RunRow
    <2> HIDE DEF run
    <2> QED
      BY <1>1, <2>1, <2>3
  <1>8. CASE Checkpoint(c)
    <2> DEFINE run == [snap[c] EXCEPT
                  !.step = @ + 1, !.pendingApproval = FALSE, !.pending = NoAction,
                  !.toolResults = Append(@, [action |-> act[c], by |-> output[c]])]
    <2>1. SaveStep(c, run, "loop") /\ asked' = asked
      BY <1>8, Saves DEF Checkpoint, histVars
    <2>2. pc[c] \in OnAction /\ act[c] \in ToolActions /\ output[c] \in Calls
      BY <1>8 DEF Checkpoint, OnAction, LocalsOK, LocalOK, OnTool
    <2>3. /\ run \in RunRow /\ SlotsHold(run)
          /\ run.policyCalls = snap[c].policyCalls
      BY <1>0, <2>2, SlotsOfSaves, FinalValues DEF RunRow
    <2> HIDE DEF run
    <2> QED
      BY <1>1, <2>1, <2>3
  <1>9. ASSUME NEW code \in Results,
               SaveStep(c, Failed(snap[c], code), "release"), asked' = asked
        PROVE  SlotsSaved(c)
    <2>1. Failed(snap[c], code).policyCalls = snap[c].policyCalls
      BY <1>0 DEF Failed, RunRow
    <2> QED
      BY <1>0, <1>1, <1>9, <2>1, SlotsOfSaves, RunValues
  <1>10. CASE TerminalFailure(c)
    <2>1. fault[c] \in Results /\ asked' = asked
      BY <1>10 DEF TerminalFailure, LocalsOK, LocalOK, histVars
    <2> QED
      BY <1>9, <1>10, <2>1, FailureIsSaveStep
  <1>11. CASE Deny(c)
    <2>1. asked' = asked /\ "approval_denied" \in Results
      BY <1>11 DEF Deny, histVars, Results
    <2>2. \/ UNCHANGED <<storeVars, snap>>
          \/ SaveStep(c, Failed(snap[c], "approval_denied"), "release")
      BY <1>11, Saves
    <2> QED
      BY <1>2, <1>9, <2>1, <2>2 DEF storeVars
  <1> QED
    BY <1>3, <1>4, <1>5, <1>6, <1>7, <1>8, <1>10, <1>11 DEF Saving

\* Where a call stands after a step, its local facts hold again.
LEMMA LocalStep ==
  ASSUME IInv, NEW c \in Calls, StepOf(c)
  PROVE  LocalOK(c)'
  <1> USE DEF IInv
  <1>0. /\ fault[c] # "stale_version" /\ LocalOK(c)
        /\ snap[c] \in RunRow /\ row \in RunRow /\ SlotsHold(row)
        /\ SlotsHold(NewRun)
    BY StoreAssumption
       DEF OwnerIsCurrent, LocalsOK, TypeOK, StoreTypeOK, SlotsOK, SlotsHold,
           NewRun
  <1>1. ASSUME SlotsHold(snap'[c]),
               pc'[c] \notin InLoop
        PROVE  LocalOK(c)'
    BY <1>1 DEF LocalOK, InLoop, OnAction, OnTool
  <1>2. ASSUME NEW l, Return(c, l), l \notin InLoop
        PROVE  LocalOK(c)'
    BY <1>0, <1>1, <1>2 DEF Return, Goto, TypeOK
  <1>3. ASSUME NEW l, Goto(c, l), l \notin InLoop,
               snap' = snap \/ snap' = [snap EXCEPT ![c] = row]
        PROVE  LocalOK(c)'
    BY <1>0, <1>1, <1>3 DEF Goto, TypeOK, LocalOK
  <1>4. /\ AfterConflict(c) => LocalOK(c)'
        /\ \A e : Raise(c, e) /\ snap' = snap => LocalOK(c)'
    BY <1>2, <1>3 DEF AfterConflict, Raise, InLoop
  <1>5. CASE Start(c) \/ Outside(c) \/ Crash(c)
    <2>1. Start(c) => LocalOK(c)'
      BY <1>3 DEF Start, InLoop
    <2>2. Resume(c) => LocalOK(c)'
      BY <1>2, <1>3 DEF Resume, InLoop
    <2>3. \A s \in Steps, a \in ToolActions, d \in Decisions :
            Approve(c, s, a, d) => LocalOK(c)'
      BY <1>2, <1>3 DEF Approve, InLoop
    <2>4. Reread(c) => LocalOK(c)'
      BY <1>2, <1>3 DEF Reread, InLoop
    <2>5. Poll(c) \/ GiveUp(c) \/ Crash(c) => LocalOK(c)'
      BY <1>2 DEF Poll, GiveUp, Crash, InLoop
    <2>6. Cancel(c) /\ pc[c] = "await" => LocalOK(c)'
      BY <1>2 DEF Cancel, InLoop
    <2> QED
      BY <1>5, <2>1, <2>2, <2>3, <2>4, <2>5, <2>6 DEF Outside
  <1>6. CASE Claim(c)
    BY <1>3, <1>4, <1>6 DEF Claim, InLoop
  <1>7. CASE Release(c)
    BY <1>2, <1>4, <1>7 DEF Release, InLoop
  <1>8. CASE Saving(c)
    <2>0. SlotsHold(snap'[c])
      BY <1>8, SavingSlots DEF SlotsSaved
    <2>1. ASSUME NEW run, SaveStep(c, run, "release")
          PROVE  LocalOK(c)'
      BY <1>1, <2>0, <2>1 DEF SaveStep, InLoop
    <2>2. ASSUME NEW run \in RunRow, run.status = "running",
                 SaveStep(c, run, "loop")
          PROVE  LocalOK(c)'
      <3>1. pc'[c] = "loop" => snap'[c].status = "running"
        <4>1. pc'[c] = "loop" =>
                snap'[c] = [run EXCEPT !.version = snap[c].version + 1]
          BY <2>2 DEF SaveStep
        <4>2. [run EXCEPT !.version = snap[c].version + 1].status = "running"
          BY <2>2, SlotsOfVersion
        <4> QED
          BY <4>1, <4>2
      <3>2. pc'[c] \in {"loop", "release"}
        BY <2>2 DEF SaveStep
      <3> QED
        BY <2>0, <3>1, <3>2 DEF LocalOK, InLoop, OnAction, OnTool
    <2>3. CASE Enter(c)
      <3>1. CASE UNCHANGED <<storeVars, snap, fault>>
        <4>1. \/ Goto(c, "loop") /\ snap[c].status = "running"
              \/ Goto(c, "release")
              \/ \E es : /\ Save(c, Entered(snap[c]), es, "loop")
                         /\ snap[c].status \in {"queued", "waiting_approval"}
          BY <2>3 DEF Enter
        <4>2. CASE Goto(c, "loop") /\ snap[c].status = "running"
          BY <2>0, <3>1, <4>2 DEF LocalOK, InLoop, OnAction, OnTool, Goto, TypeOK
        <4>3. CASE Goto(c, "release")
          BY <1>3, <3>1, <4>3 DEF InLoop
        <4>4. CASE \E es : Save(c, Entered(snap[c]), es, "loop")
          <5>1. SaveStep(c, Entered(snap[c]), "loop")
            BY <2>3, <4>4, SaveIsSaveStep DEF Enter, Executing
          <5> QED
            BY <1>0, <2>2, <5>1, RunValues DEF Entered, RunRow
        <4> QED
          BY <4>1, <4>2, <4>3, <4>4
      <3>2. CASE SaveStep(c, Entered(snap[c]), "loop")
        BY <1>0, <2>2, <3>2, RunValues DEF Entered, RunRow
      <3> QED
        BY <2>3, <3>1, <3>2, Saves
    <2>4. CASE NextAction(c)
      <3>1. pc[c] = "loop" /\ snap[c].status = "running"
        BY <1>0, <2>4 DEF NextAction, LocalOK, InLoop
      <3>2. CASE /\ snap[c].pending # NoAction
                 /\ Goto(c, "chosen") /\ UNCHANGED snap
        BY <1>0, <3>1, <3>2
           DEF LocalOK, InLoop, OnAction, OnTool, Goto, TypeOK, SlotsHold
      <3>3. CASE FailWith(c, "action_budget_exhausted") /\ UNCHANGED snap
        BY <1>0, <3>1, <3>3
           DEF LocalOK, InLoop, OnAction, OnTool, FailWith, Goto, TypeOK, Results
      <3>4. CASE /\ snap[c].pending = NoAction
                 /\ BudgetUsed(snap[c]) < MaxActionSteps
                 /\ Save(c, [snap[c] EXCEPT
                      !.policyCalls = BudgetUsed(snap[c]) + 1], <<>>, "policy")
        <4> DEFINE run == [snap[c] EXCEPT
                             !.policyCalls = BudgetUsed(snap[c]) + 1]
        <4>1. SaveStep(c, run, "policy")
          BY <3>1, <3>4, SaveIsSaveStep DEF Executing
        <4>2. /\ run \in RunRow /\ run.status = "running"
              /\ run.step < run.policyCalls
          BY <1>0, <3>1, <3>4, SlotsOfSaves, RunValues DEF LocalOK, RunRow
        <4> HIDE DEF run
        <4>3. pc'[c] = "policy" =>
                snap'[c].status = "running" /\ snap'[c].step < snap'[c].policyCalls
          <5>1. pc'[c] = "policy" =>
                  snap'[c] = [run EXCEPT !.version = snap[c].version + 1]
            BY <4>1 DEF SaveStep
          <5>2. LET next == [run EXCEPT !.version = snap[c].version + 1]
                IN  next.status = "running" /\ next.step < next.policyCalls
            BY <4>2, SlotsOfVersion
          <5> QED
            BY <5>1, <5>2
        <4>4. pc'[c] \in {"policy", "release"}
          BY <4>1 DEF SaveStep
        <4> QED
          BY <2>0, <4>3, <4>4 DEF LocalOK, InLoop, OnAction, OnTool
      <3> QED
        BY <2>4, <3>2, <3>3, <3>4 DEF NextAction
    <2>5. CASE Finish(c) \/ PolicyFails(c) \/ Pause(c) \/ TerminalFailure(c)
      <3>1. \E run : SaveStep(c, run, "release")
        BY <2>5, Saves, FailureIsSaveStep
      <3> QED
        BY <2>1, <3>1
    <2>6. CASE Checkpoint(c)
      <3> DEFINE run == [snap[c] EXCEPT
                  !.step = @ + 1, !.pendingApproval = FALSE, !.pending = NoAction,
                  !.toolResults = Append(@, [action |-> act[c], by |-> output[c]])]
      <3>1. SaveStep(c, run, "loop")
        BY <2>6, Saves
      <3>2. /\ act[c] \in ToolActions /\ output[c] \in Calls
            /\ snap[c].status = "running"
        BY <1>0, <2>6 DEF Checkpoint, LocalOK, OnTool, InLoop
      <3>3. run \in RunRow /\ run.status = "running"
        BY <1>0, <3>2, FinalValues DEF RunRow
      <3> HIDE DEF run
      <3> QED
        BY <2>2, <3>1, <3>3
    <2>7. CASE Deny(c)
      BY <1>4, <2>1, <2>7, Saves
    <2> QED
      BY <1>8, <2>3, <2>4, <2>5, <2>6, <2>7 DEF Saving
  <1>9. CASE Quiet(c)
    <2>0. snap' = snap
      BY <1>0, <1>9, QuietEffect DEF Quiet
    <2> USE DEF LocalOK, InLoop, OnAction, OnTool, Goto, TypeOK
    <2>1. ASSUME NEW code \in Results, FailWith(c, code), pc[c] \in OnAction
          PROVE  LocalOK(c)'
      BY <1>0, <2>0, <2>1 DEF FailWith
    <2>2. CASE \E a \in Answers : PolicyAnswers(c, a)
      BY <1>0, <2>0, <2>2 DEF PolicyAnswers
    <2>3. CASE PolicyRaises(c)
      BY <2>1, <2>3 DEF PolicyRaises, Results
    <2>4. CASE Preflight(c)
      <3>1. CASE FailWith(c, "tool_preflight_failed")
        BY <2>1, <2>4, <3>1 DEF Preflight, Results
      <3>2. CASE /\ act[c] # "invalid_call"
                 /\ Goto(c, "approval") \/ Goto(c, "call")
        BY <1>0, <2>0, <2>4, <3>2 DEF Preflight
      <3> QED
        BY <2>4, <3>1, <3>2 DEF Preflight
    <2>5. CASE CheckApproval(c)
      <3>1. CASE \E code \in Results : FailWith(c, code)
        BY <2>1, <2>5, <3>1 DEF CheckApproval
      <3>2. CASE Goto(c, "pausing") \/ Goto(c, "call")
        BY <1>0, <2>0, <2>5, <3>2 DEF CheckApproval
      <3>3. {"approval_mismatch", "approval_denied"} \subseteq Results
        BY DEF Results
      <3> QED
        BY <2>5, <3>1, <3>2, <3>3 DEF CheckApproval
    <2>6. CASE CallTool(c)
      <3>0. pc[c] = "call" /\ act' = act
        BY <2>6 DEF CallTool
      <3>1. CASE \E code \in Results : FailWith(c, code)
        BY <2>1, <3>0, <3>1
      <3>2. CASE Goto(c, "tool") /\ output' = output
        BY <1>0, <2>0, <3>0, <3>2
      <3>3. CASE /\ claims[Key(c)].state = "completed"
                 /\ output' = [output EXCEPT ![c] = claims[Key(c)].owner]
                 /\ Goto(c, "checkpoint")
        <4>1. claims[Key(c)].owner \in Calls
          BY <3>0, <3>3, KeyType
             DEF Tool!ClaimsTypeOK, Tool!ToolClaim, Tool!Absent
        <4> QED
          BY <1>0, <2>0, <3>0, <3>3, <4>1
      <3>4. /\ ApprovalFailure(snap[c].step, act[c]) \in Results
            /\ RefusalCode(Key(c)) \in Results
            /\ "invalid_cached_output" \in Results
        BY DEF ApprovalFailure, RefusalCode, Results
      <3> QED
        BY <2>6, <3>1, <3>2, <3>3, <3>4 DEF CallTool
    <2>7. ASSUME NEW b \in BOOLEAN, HandlerSucceeds(c, b)
          PROVE  LocalOK(c)'
      <3>0. pc[c] = "tool" /\ act' = act /\ output' = [output EXCEPT ![c] = c]
        BY <2>7 DEF HandlerSucceeds
      <3>1. CASE \E code \in Results : FailWith(c, code)
        BY <2>1, <3>0, <3>1
      <3>2. CASE Goto(c, "checkpoint")
        BY <1>0, <2>0, <3>0, <3>2
      <3>3. {"idempotency_indeterminate", "result_serialization_failed"}
              \subseteq Results
        BY DEF Results
      <3>4. CASE Raise(c, "other_error")
        BY <1>4, <2>0, <3>4
      <3> QED
        BY <2>7, <3>1, <3>2, <3>3, <3>4 DEF HandlerSucceeds
    <2>8. ASSUME NEW b \in BOOLEAN, HandlerFails(c, b)
          PROVE  LocalOK(c)'
      <3>1. FailWith(c, "tool_execution_failed") \/ Raise(c, "other_error")
        BY <2>8 DEF HandlerFails
      <3>2. pc[c] \in OnAction /\ "tool_execution_failed" \in Results
        BY <2>8 DEF HandlerFails, Results
      <3> QED
        BY <1>4, <2>0, <2>1, <3>1, <3>2
    <2>9. CASE Heartbeat(c)
      BY <1>0, <2>9 DEF Heartbeat, localVars
    <2>10. CASE Cancel(c) /\ pc[c] # "await"
      BY <1>4, <2>0, <2>10 DEF Cancel
    <2> QED
      BY <1>9, <2>2, <2>3, <2>4, <2>5, <2>6, <2>7, <2>8, <2>9, <2>10 DEF Quiet
  <1> QED
    BY <1>5, <1>6, <1>7, <1>8, <1>9, StepKinds

-----------------------------------------------------------------------------
(* Approvals *)

\* Decisions are never changed, and none is added to a terminal run.
LEMMA DecisionsKept ==
  ASSUME IInv, [Next]_vars
  PROVE  /\ \A s \in Steps : Decided(s) => approvals'[s] = approvals[s]
         /\ row.status # "waiting_approval" =>
              approvals' = approvals
  <1> USE DEF IInv
  <1>1. ASSUME NEW c \in Calls, NEW s \in Steps, NEW a \in ToolActions,
               NEW d \in Decisions, Approve(c, s, a, d)
        PROVE  \/ approvals' = approvals
               \/ /\ row.status = "waiting_approval" /\ ~Decided(s)
                  /\ approvals' =
                       [approvals EXCEPT ![s] = [action |-> a, decision |-> d]]
    BY <1>1 DEF Approve, RecordPendingApproval, Inserts, IsPendingAction, Decided
  <1>2. \/ approvals' = approvals
        \/ \E s \in Steps, a \in ToolActions, d \in Decisions :
             /\ row.status = "waiting_approval" /\ ~Decided(s)
             /\ approvals' =
                  [approvals EXCEPT ![s] = [action |-> a, decision |-> d]]
    <2>1. ASSUME NEW c \in Calls, StepOf(c)
          PROVE  \/ approvals' = approvals
                 \/ \E s \in Steps, a \in ToolActions, d \in Decisions :
                      Approve(c, s, a, d)
      <3>1. fault[c] # "stale_version"
        BY DEF OwnerIsCurrent
      <3>2. Saving(c) \/ Quiet(c) => approvals' = approvals
        BY <3>1, SavingEffect, QuietEffect
      <3>3. Start(c) \/ Release(c) \/ Crash(c) => approvals' = approvals
        BY DEF Start, InsertRun, Release, ReleaseRunExecution, Crash, storeVars
      <3>4. Claim(c) => approvals' = approvals
        BY DEF Claim, ClaimRunExecution, storeVars
      <3>5. Outside(c) =>
              \/ approvals' = approvals
              \/ \E s \in Steps, a \in ToolActions, d \in Decisions :
                   Approve(c, s, a, d)
        BY DEF Outside, Resume, Reread, Poll, GiveUp, Cancel, storeVars
      <3> QED
        BY <2>1, <3>2, <3>3, <3>4, <3>5, StepKinds
    <2>2. ASSUME NEW k \in Keys, ToolClaimExpires(k)
          PROVE  approvals' = approvals
      BY <2>2 DEF ToolClaimExpires, storeVars
    <2>3. RunLeaseExpires \/ Quiescent \/ UNCHANGED vars =>
            approvals' = approvals
      BY DEF RunLeaseExpires, LeaseExpires, Quiescent, vars
    <2> QED
      BY <1>1, <2>1, <2>2, <2>3 DEF Next, StepOf
  <1> QED
    BY <1>2 DEF TypeOK, StoreTypeOK

\* A handler is entered only behind an allowing decision, and that decision
\* stays.
LEMMA GatedStep ==
  ASSUME IInv, [Next]_vars
  PROVE  GatedCallsAreAllowed'
  <1> USE DEF IInv
  <1>1. ASSUME NEW c \in Calls, CallTool(c),
               <<Key(c), c>> \in invoked', <<Key(c), c>> \notin invoked,
               act[c] \in Gated
        PROVE  Allowed(snap[c].step, act[c])
    <2>1. ApprovalFailure(snap[c].step, act[c]) = "none"
      BY <1>1 DEF CallTool
    <2>2. act[c] \in ToolActions /\ snap[c].step \in Steps
      BY <1>1, KeyType DEF CallTool, OnTool
    <2> QED
      BY <2>1, <2>2 DEF ApprovalFailure, Allowed, Decided
  <1>2. \A k \in Keys, c \in Calls :
          <<k, c>> \in invoked' /\ k[2] \in Gated => Allowed(k[1], k[2])
    <2>1. \/ invoked' = invoked
          \/ \E c \in Calls : /\ CallTool(c)
                              /\ invoked' = invoked \cup {<<Key(c), c>>}
      <3>1. ASSUME NEW c \in Calls, StepOf(c)
            PROVE  invoked' = invoked \/ CallTool(c)
        <4>1. Saving(c) => invoked' = invoked
          BY DEF Saving, Enter, NextAction, Finish, PolicyFails, Pause,
                 Checkpoint, TerminalFailure, Deny, histVars
        <4>2. Quiet(c) => invoked' = invoked \/ CallTool(c)
          BY DEF Quiet, PolicyAnswers, PolicyRaises, Preflight, CheckApproval,
                 HandlerSucceeds, HandlerFails, Heartbeat, Cancel, histVars
        <4>3. Start(c) \/ Claim(c) \/ Release(c) \/ Crash(c) =>
                invoked' = invoked
          BY DEF Start, Claim, Release, Crash, histVars
        <4>4. Outside(c) => invoked' = invoked
          BY DEF Outside, Resume, Reread, Poll, GiveUp, Cancel, Approve, histVars
        <4> QED
          BY <3>1, <4>1, <4>2, <4>3, <4>4, StepKinds
      <3>2. ASSUME NEW c \in Calls, CallTool(c)
            PROVE  \/ invoked' = invoked
                   \/ invoked' = invoked \cup {<<Key(c), c>>}
        BY <3>2 DEF CallTool
      <3>3. ASSUME NEW k \in Keys, ToolClaimExpires(k)
            PROVE  invoked' = invoked
        BY <3>3 DEF ToolClaimExpires, histVars
      <3>4. RunLeaseExpires \/ Quiescent \/ UNCHANGED vars => invoked' = invoked
        BY DEF RunLeaseExpires, Quiescent, vars, histVars
      <3> QED
        BY <3>1, <3>2, <3>3, <3>4 DEF Next, StepOf
    <2> QED
      BY <1>1, <2>1 DEF GatedCallsAreAllowed, Key
  <1>3. \A s \in Steps, a \in Gated : Allowed(s, a) => Allowed(s, a)'
    <2>1. \A s \in Steps, a \in Gated : Allowed(s, a) => Decided(s)
      BY StoreAssumption, ExecutionAssumption
         DEF Allowed, Decided, NoApproval
    <2> QED
      BY <2>1, DecisionsKept DEF Allowed
  <1> QED
    BY <1>2, <1>3 DEF GatedCallsAreAllowed, Keys

-----------------------------------------------------------------------------
(* The inductive invariant *)

\* A run that has not been inserted has no calls at work on it.
LEMMA FreshStep ==
  ASSUME IInv, [Next]_vars
  PROVE  FreshOK'
  <1> USE DEF IInv
  <1>1. ASSUME NEW c \in Calls, StepOf(c), ~Exists
        PROVE  Start(c)
    <2>1. pc[c] = "idle"
      BY <1>1 DEF FreshOK
    <2> QED
      BY <1>1, <2>1
         DEF StepOf, Invoke, Resume, Approve, Advance, Reread, Claim, Enter,
             NextAction, PolicyAnswers, PolicyRaises, Finish, PolicyFails,
             Preflight, CheckApproval, Pause, Checkpoint, TerminalFailure,
             CallTool, HandlerSucceeds, HandlerFails, Deny, Release, Poll,
             GiveUp, Heartbeat, Cancel, Crash
  <1>2. ASSUME NEW c \in Calls, StepOf(c)
        PROVE  FreshOK'
    <2>1. CASE Start(c)
      <3>1. row'.version = 1
        BY <2>1 DEF Start, InsertRun, NewRun
      <3> QED
        BY <3>1 DEF FreshOK, Exists
    <2>2. CASE Exists /\ ~Start(c)
      <3>1. row' = row \/ row'.version = row.version + 1
        <4>1. Saving(c) => row' = row \/ row'.version = row.version + 1
          BY SavingSlots DEF SlotsSaved
        <4>2. fault[c] # "stale_version"
          BY DEF OwnerIsCurrent
        <4> QED
          BY <1>2, <2>2, <4>1, <4>2, StepKinds, QuietEffect, OutsideEffect
      <3>2. row.version \in Nat
        BY DEF TypeOK, StoreTypeOK, RunRow
      <3> QED
        BY <2>2, <3>1, <3>2 DEF FreshOK, Exists
    <2> QED
      BY <1>1, <1>2, <2>1, <2>2
  <1>3. ASSUME \/ RunLeaseExpires \/ Quiescent \/ UNCHANGED vars
               \/ \E k \in Keys : ToolClaimExpires(k)
        PROVE  FreshOK'
    <2>1. UNCHANGED <<row, pc>>
      BY <1>3 DEF RunLeaseExpires, LeaseExpires, Quiescent, vars,
                  ToolClaimExpires, storeVars, localVars
    <2> QED
      BY <2>1 DEF FreshOK, Exists
  <1> QED
    BY <1>2, <1>3 DEF Next, StepOf

\* Reserved slots cover every step and every policy call after a step, too.
LEMMA SlotsStep ==
  ASSUME IInv, [Next]_vars
  PROVE  SlotsOK' /\ row'.policyCalls >= row.policyCalls
  <1> USE DEF IInv
  <1>0. row.policyCalls \in Nat
    BY DEF TypeOK, StoreTypeOK, RunRow
  <1>1. ASSUME row' = row, asked' = asked
        PROVE  SlotsOK' /\ row'.policyCalls >= row.policyCalls
    BY <1>0, <1>1 DEF SlotsOK, SlotsHold
  <1>2. ASSUME NEW c \in Calls, StepOf(c)
        PROVE  SlotsOK' /\ row'.policyCalls >= row.policyCalls
    <2>0. fault[c] # "stale_version"
      BY DEF OwnerIsCurrent
    <2>1. CASE Saving(c)
      BY <2>1, SavingSlots DEF SlotsSaved, SlotsOK
    <2>2. CASE Start(c)
      <3>1. row = NewRun /\ row' = [NewRun EXCEPT !.version = 1]
        BY <2>2 DEF Start, InsertRun, FreshOK
      <3>2. asked' = asked
        BY <2>2 DEF Start, histVars
      <3> QED
        BY <3>1, <3>2 DEF SlotsOK, SlotsHold, NewRun
    <2>3. CASE Quiet(c)
      BY <1>1, <2>0, <2>3, QuietEffect
    <2>4. CASE Claim(c) \/ Release(c) \/ Crash(c) \/ Outside(c)
      <3>1. row' = row
        BY <2>0, <2>4, OutsideEffect
      <3>2. asked' = asked
        BY <2>4 DEF Claim, Release, Crash, Outside, Resume, Reread, Poll, GiveUp,
                    Cancel, Approve, histVars
      <3> QED
        BY <1>1, <3>1, <3>2
    <2> QED
      BY <1>2, <2>1, <2>2, <2>3, <2>4, StepKinds
  <1>3. ASSUME \/ RunLeaseExpires \/ Quiescent \/ UNCHANGED vars
               \/ \E k \in Keys : ToolClaimExpires(k)
        PROVE  SlotsOK' /\ row'.policyCalls >= row.policyCalls
    BY <1>1, <1>3 DEF RunLeaseExpires, LeaseExpires, Quiescent, vars,
                      ToolClaimExpires, storeVars, histVars
  <1> QED
    BY <1>2, <1>3 DEF Next, StepOf

\* The invariant holds at the start.
LEMMA InvInit == Init => IInv
  <1> SUFFICES ASSUME Init PROVE IInv
    OBVIOUS
  <1> USE DEF Init, StoreInit, Tool!ClaimsInit
  <1>1. TypeOK
    <2>1. StoreTypeOK
      <3>1. trail \in Seq(Entries)
        OBVIOUS
      <3>2. approvals \in [Steps -> Approval] /\ lease \in Lease
        BY DEF Approval, Lease
      <3> QED
        BY <3>1, <3>2, NewRunType DEF StoreTypeOK, Entries
    <2>2. NoRequest \in Request
      BY StoreAssumption DEF NoRequest, Request, Steps
    <2> QED
      BY <2>1, <2>2, NewRunType
         DEF TypeOK, Tool!ClaimsTypeOK, Tool!ToolClaim, Locations, Results
  <1>2. SlotsHold(NewRun)
    BY StoreAssumption DEF SlotsHold, NewRun
  <1>3. LocalsOK
    BY <1>2 DEF LocalsOK, LocalOK, InLoop, OnAction, OnTool
  <1>4. OwnerIsCurrent
    BY StoreAssumption DEF OwnerIsCurrent, NoLease
  <1>5. FreshOK /\ SlotsOK /\ GatedCallsAreAllowed
    BY <1>2 DEF FreshOK, SlotsOK, GatedCallsAreAllowed, NewRun
  <1> QED
    BY <1>1, <1>3, <1>4, <1>5 DEF IInv

\* Every step keeps it.
LEMMA InvStep == IInv /\ [Next]_vars => IInv'
  <1> SUFFICES ASSUME IInv, [Next]_vars PROVE IInv'
    OBVIOUS
  <1>1. TypeOK'
    BY TypeStep DEF IInv
  <1>2. ASSUME NEW c \in Calls, StepOf(c)
        PROVE  LocalsOK' /\ OwnerIsCurrent'
    <2>1. OwnerIsCurrent'
      BY <1>2, OwnerStep
    <2>2. LocalOK(c)'
      BY <1>2, LocalStep
    <2>3. \A d \in Calls \ {c} : LocalOK(d)'
      BY <1>2, Frame DEF IInv, LocalsOK, LocalOK
    <2> QED
      BY <2>1, <2>2, <2>3 DEF LocalsOK
  <1>3. ASSUME \/ RunLeaseExpires \/ Quiescent \/ UNCHANGED vars
               \/ \E k \in Keys : ToolClaimExpires(k)
        PROVE  LocalsOK' /\ OwnerIsCurrent'
    <2>1. UNCHANGED <<row, pc, snap, act, output, fault>>
          /\ lease'.owner = lease.owner
      <3>1. RunLeaseExpires => lease'.owner = lease.owner
        BY DEF RunLeaseExpires, LeaseExpires, IInv, TypeOK, StoreTypeOK, Lease,
               NoLease
      <3> QED
        BY <1>3, <3>1 DEF RunLeaseExpires, LeaseExpires, Quiescent, vars,
                          ToolClaimExpires, storeVars, localVars
    <2> QED
      BY <2>1 DEF IInv, LocalsOK, LocalOK, OwnerIsCurrent
  <1>4. FreshOK' /\ SlotsOK' /\ GatedCallsAreAllowed'
    BY FreshStep, SlotsStep, GatedStep
  <1> QED
    BY <1>1, <1>2, <1>3, <1>4 DEF IInv, Next, StepOf

LEMMA Invariance == Spec => []IInv
  BY InvInit, InvStep, PTL DEF Spec

-----------------------------------------------------------------------------
(* Theorems *)

\* The variables stay in their types whatever the calls, crashes and expiries
\* do.
THEOREM Typing == Spec => []TypeOK
  BY Invariance, PTL DEF IInv

\* Fencing (save_run_owned, claim_run_execution): a call that holds the run's
\* lease row has the current row in hand, so an owner's compare-and-swap never
\* fails on the version.
THEOREM Fencing == Spec => []OwnerIsCurrent
  BY Invariance, PTL DEF IInv

\* The action budget (orchestrator.execute): durable slots cover every step
\* and every policy call and never exceed max_action_steps.
THEOREM Budget == Spec => []CursorWithinBudget
  <1>1. IInv => CursorWithinBudget
    BY DEF IInv, SlotsOK, SlotsHold, CursorWithinBudget
  <1> QED
    BY <1>1, Invariance, PTL

\* The approval gate (orchestrator.execute, gateway.preflight): no handler of
\* a gated tool is entered without a durable decision that allows exactly that
\* action at that step.
THEOREM Gate == Spec => []GatedCallsAreAllowed
  BY Invariance, PTL DEF IInv

\* A terminal run is never written again, by any call with any snapshot, and
\* gets no further decision.
THEOREM Finality == Spec => TerminalIsFinal
  <1>1. ASSUME IInv, [Next]_vars, row.status \in Terminal
        PROVE  row' = row /\ approvals' = approvals /\ trail' = trail
    <2> USE DEF IInv
    <2>1. approvals' = approvals
      BY <1>1, DecisionsKept DEF Terminal
    <2>2. ASSUME NEW c \in Calls, StepOf(c)
          PROVE  row' = row /\ trail' = trail
      <3>0. fault[c] # "stale_version"
        BY <1>1 DEF OwnerIsCurrent
      <3>1. CASE Start(c)
        <4>1. row = NewRun
          BY <1>1, <3>1 DEF Start, InsertRun, FreshOK
        <4> QED
          BY <1>1, <4>1 DEF NewRun, Terminal
      <3>2. CASE Saving(c) \/ Quiet(c)
        BY <1>1, <3>0, <3>2, SavingEffect, QuietEffect
      <3>3. CASE Claim(c) \/ Release(c) \/ Crash(c)
        BY <3>3 DEF Claim, ClaimRunExecution, Release, ReleaseRunExecution,
                    Crash, storeVars
      <3>4. CASE Outside(c)
        <4>1. ASSUME NEW s \in Steps, NEW a \in ToolActions, NEW d \in Decisions,
                     Approve(c, s, a, d)
              PROVE  row' = row /\ trail' = trail
          BY <1>1, <4>1 DEF Approve, RecordPendingApproval, Inserts,
                            IsPendingAction, Terminal
        <4>2. Resume(c) \/ Reread(c) \/ Poll(c) \/ GiveUp(c) \/ Cancel(c) =>
                row' = row /\ trail' = trail
          BY DEF Resume, Reread, Poll, GiveUp, Cancel, storeVars
        <4> QED
          BY <3>4, <4>1, <4>2 DEF Outside
      <3> QED
        BY <2>2, <3>1, <3>2, <3>3, <3>4, StepKinds
    <2>3. ASSUME \/ RunLeaseExpires \/ Quiescent \/ UNCHANGED vars
                 \/ \E k \in Keys : ToolClaimExpires(k)
          PROVE  row' = row /\ trail' = trail
      BY <2>3 DEF RunLeaseExpires, LeaseExpires, Quiescent, vars,
                  ToolClaimExpires, storeVars
    <2> QED
      BY <1>1, <2>1, <2>2, <2>3 DEF Next, StepOf
  <1>2. IInv /\ [Next]_vars =>
          [row.status \in Terminal =>
             row' = row /\ approvals' = approvals /\ trail' = trail]_vars
    BY <1>1
  <1> QED
    BY <1>2, Invariance, PTL DEF Spec, TerminalIsFinal

-----------------------------------------------------------------------------
(* Denials, reviewed actions, checkpoints and indeterminate writes *)

\* Only keyed tools are in the table; only a failure has a disposition; who
\* holds or completed a claim was in the handler.
ClaimOK(k) ==
  /\ claims[k].state # "failed" => claims[k].disposition = "none"
  /\ claims[k].state # "absent" => k[2] \in Keyed
  /\ claims[k].state \in {"claimed", "completed"} =>
       <<k, claims[k].owner>> \in invoked

ClaimsInv == \A k \in Keys : ClaimOK(k)

\* The output a call holds came from a handler of its key and, if the key is
\* in the table, completed it.
Answered(c) ==
  /\ <<Key(c), output[c]>> \in invoked
  /\ act[c] \in Keyed =>
       claims[Key(c)].state = "completed" /\ claims[Key(c)].owner = output[c]

\* A call works on the pending action, if there is one, and knows what the
\* code it has passed established.
ActOK(c) ==
  /\ pc[c] = "policy" => snap[c].pending = NoAction
  /\ pc[c] \in OnAction \ {"policy"} => snap[c].pending \in {NoAction, act[c]}
  /\ pc[c] \in {"approval", "pausing"} => act[c] \in Gated
  /\ pc[c] \in {"tool", "checkpoint"} /\ act[c] \in Gated =>
       Allowed(snap[c].step, act[c])
  /\ pc[c] = "tool" => <<Key(c), c>> \in invoked
  /\ pc[c] = "checkpoint" => Answered(c)

ActsOK == \A c \in Calls : ActOK(c)

\* A run at work has one result per step; it waits for a gated tool only.
RowInv ==
  /\ row.status \notin Terminal => Len(row.toolResults) = row.step
  /\ row.status = "waiting_approval" => row.pending \in Gated

\* Only gated tools are decided, at steps the run has come to.  It goes on
\* from an allowed step only, and stays at the step with that action pending,
\* unless it fails.
ReviewOK(s) ==
  Decided(s) =>
    /\ approvals[s].action \in Gated
    /\ row.step >= s
    /\ approvals[s].decision \notin Allowing => row.step = s
    /\ row.step = s =>
         \/ row.status = "failed"
         \/ /\ row.status \in {"running", "waiting_approval"}
            /\ row.pending = approvals[s].action

ReviewInv == \A s \in Steps : ReviewOK(s)

SInv == ClaimsInv /\ ActsOK /\ RowInv /\ ReviewInv /\ CheckpointsAreClaimed

-----------------------------------------------------------------------------
(* The claim table *)

\* What a step may do to one key of the claim table.
ClaimMove(k, c) ==
  \/ /\ claims[k].state = "absent" \/ Tool!Abandoned(k) \/ Tool!Retryable(k)
     /\ claims' = [claims EXCEPT ![k] = Tool!Held(c, k[2])]
     /\ k[2] \in Keyed /\ <<k, c>> \in invoked'
  \/ /\ Tool!Owns(k, c)
     /\ \/ claims' = [claims EXCEPT ![k].state = "completed"]
        \/ \E d \in Tool!Dispositions :
             claims' = [claims EXCEPT ![k].state = "failed",
                                      ![k].disposition = d]
  \/ /\ claims[k].state = "claimed"
     /\ claims' = [claims EXCEPT ![k].live = FALSE]

\* A gateway call claims a key that nobody holds, or leaves the table alone.
LEMMA CallMoves ==
  ASSUME IInv, NEW c \in Calls, CallTool(c)
  PROVE  /\ claims' = claims \/ \E k \in Keys : ClaimMove(k, c)
         /\ invoked \subseteq invoked'
         /\ \A k \in Keys, d \in Calls :
              <<k, d>> \in invoked' /\ <<k, d>> \notin invoked =>
                \/ k[2] \notin Keyed
                \/ claims[k].state = "absent" \/ Tool!Abandoned(k)
                \/ Tool!Retryable(k)
  <1> DEFINE k == Key(c)
  <1>1. k \in Keys /\ k[2] = act[c]
    BY KeyType DEF IInv, CallTool, OnTool, Key
  <1> HIDE DEF k
  <1>2. Tool!Acquirable(k, act[c], TRUE) =>
          claims[k].state = "absent" \/ Tool!Abandoned(k) \/ Tool!Retryable(k)
    BY DEF Tool!Acquirable
  <1>3. \/ claims' = claims /\ invoked' = invoked
        \/ /\ act[c] \notin Keyed /\ claims' = claims
           /\ invoked' = invoked \cup {<<k, c>>}
        \/ /\ act[c] \in Keyed
           /\ Tool!ClaimToolExecution(k, c, act[c], TRUE)
           /\ \/ /\ Tool!Acquirable(k, act[c], TRUE)
                 /\ invoked' = invoked \cup {<<k, c>>}
              \/ ~Tool!Acquirable(k, act[c], TRUE) /\ invoked' = invoked
    BY DEF CallTool, k
  <1>4. ~Tool!Acquirable(k, act[c], TRUE)
           /\ Tool!ClaimToolExecution(k, c, act[c], TRUE) => claims' = claims
    BY DEF Tool!ClaimToolExecution
  <1>5. Tool!Acquirable(k, act[c], TRUE)
           /\ Tool!ClaimToolExecution(k, c, act[c], TRUE) =>
          claims' = [claims EXCEPT ![k] = Tool!Held(c, act[c])]
    BY DEF Tool!ClaimToolExecution
  <1>6. CASE \/ claims' = claims /\ invoked' = invoked
             \/ /\ act[c] \notin Keyed /\ claims' = claims
                /\ invoked' = invoked \cup {<<k, c>>}
    BY <1>1, <1>6
  <1>7. CASE /\ act[c] \in Keyed
             /\ Tool!ClaimToolExecution(k, c, act[c], TRUE)
             /\ ~Tool!Acquirable(k, act[c], TRUE) /\ invoked' = invoked
    BY <1>4, <1>7
  <1>8. CASE /\ act[c] \in Keyed
             /\ Tool!ClaimToolExecution(k, c, act[c], TRUE)
             /\ Tool!Acquirable(k, act[c], TRUE)
             /\ invoked' = invoked \cup {<<k, c>>}
    <2>1. ClaimMove(k, c)
      BY <1>1, <1>2, <1>5, <1>8 DEF ClaimMove
    <2> QED
      BY <1>1, <1>2, <1>8, <2>1
  <1> QED
    BY <1>3, <1>6, <1>7, <1>8

\* The end of a handler completes or fails the claim its call still owns.
LEMMA HandlerMoves ==
  ASSUME IInv, NEW c \in Calls,
         \/ \E b \in BOOLEAN : HandlerSucceeds(c, b) \/ HandlerFails(c, b)
         \/ Cancel(c)
  PROVE  /\ claims' = claims \/ \E k \in Keys : ClaimMove(k, c)
         /\ invoked' = invoked
  <1>1. ASSUME NEW d \in Tool!Dispositions, pc[c] = "tool",
               \/ Tool!CompleteToolResult(Key(c), c)
               \/ Tool!FailToolExecution(Key(c), c, d)
        PROVE  claims' = claims \/ \E k \in Keys : ClaimMove(k, c)
    <2>1. Key(c) \in Keys
      BY <1>1, KeyType DEF IInv, OnTool
    <2>2. \/ claims' = claims
          \/ /\ Tool!Owns(Key(c), c)
             /\ \/ claims' = [claims EXCEPT ![Key(c)].state = "completed"]
                \/ claims' = [claims EXCEPT ![Key(c)].state = "failed",
                                            ![Key(c)].disposition = d]
      BY <1>1 DEF Tool!CompleteToolResult, Tool!FailToolExecution
    <2> QED
      BY <2>1, <2>2 DEF ClaimMove
  <1>2. {"indeterminate", "retryable", "terminal"} \subseteq Tool!Dispositions
    BY DEF Tool!Dispositions
  <1>3. ASSUME NEW b \in BOOLEAN, HandlerSucceeds(c, b)
        PROVE  /\ pc[c] = "tool" /\ invoked' = invoked
               /\ \/ claims' = claims
                  \/ \E d \in Tool!Dispositions :
                       \/ Tool!CompleteToolResult(Key(c), c)
                       \/ Tool!FailToolExecution(Key(c), c, d)
    BY <1>2, <1>3 DEF HandlerSucceeds, histVars
  <1>4. ASSUME NEW b \in BOOLEAN, HandlerFails(c, b)
        PROVE  /\ pc[c] = "tool" /\ invoked' = invoked
               /\ \/ claims' = claims
                  \/ \E d \in Tool!Dispositions :
                       Tool!FailToolExecution(Key(c), c, d)
    BY <1>2, <1>4 DEF HandlerFails, histVars
  <1>5. ASSUME Cancel(c)
        PROVE  /\ invoked' = invoked
               /\ \/ claims' = claims
                  \/ /\ pc[c] = "tool"
                     /\ Tool!FailToolExecution(Key(c), c, "retryable")
    BY <1>5 DEF Cancel, histVars
  <1> QED
    BY <1>1, <1>2, <1>3, <1>4, <1>5

\* Every step moves at most one claim, and enters a keyed handler only when
\* the key is free.
LEMMA ClaimMoves ==
  ASSUME IInv, [Next]_vars
  PROVE  /\ \/ claims' = claims
            \/ \E k \in Keys, c \in Calls : ClaimMove(k, c)
         /\ invoked \subseteq invoked'
         /\ \A k \in Keys, d \in Calls :
              <<k, d>> \in invoked' /\ <<k, d>> \notin invoked =>
                \/ k[2] \notin Keyed
                \/ claims[k].state = "absent" \/ Tool!Abandoned(k)
                \/ Tool!Retryable(k)
  <1>1. ASSUME NEW c \in Calls, StepOf(c)
        PROVE  \/ UNCHANGED <<claims, invoked>>
               \/ CallTool(c) \/ Cancel(c)
               \/ \E b \in BOOLEAN : HandlerSucceeds(c, b) \/ HandlerFails(c, b)
    <2>1. Saving(c) => UNCHANGED <<claims, invoked>>
      BY DEF Saving, Enter, NextAction, Finish, PolicyFails, Pause,
             Checkpoint, TerminalFailure, Deny, histVars
    <2>2. Quiet(c) =>
            \/ UNCHANGED <<claims, invoked>> \/ CallTool(c) \/ Cancel(c)
            \/ \E b \in BOOLEAN : HandlerSucceeds(c, b) \/ HandlerFails(c, b)
      BY DEF Quiet, PolicyAnswers, PolicyRaises, Preflight, CheckApproval,
             Heartbeat, histVars
    <2>3. Start(c) \/ Claim(c) \/ Release(c) \/ Crash(c) =>
            UNCHANGED <<claims, invoked>>
      BY DEF Start, Claim, Release, Crash, histVars
    <2>4. Outside(c) => UNCHANGED <<claims, invoked>> \/ Cancel(c)
      BY DEF Outside, Resume, Reread, Poll, GiveUp, Approve, histVars
    <2> QED
      BY <1>1, <2>1, <2>2, <2>3, <2>4, StepKinds
  <1>2. ASSUME NEW k \in Keys, ToolClaimExpires(k)
        PROVE  /\ \E c \in Calls : ClaimMove(k, c)
               /\ invoked' = invoked
    <2>1. claims[k].owner \in Calls
      BY <1>2 DEF ToolClaimExpires, Tool!ClaimExpires, IInv, TypeOK,
                  Tool!ClaimsTypeOK, Tool!ToolClaim, Tool!Absent
    <2> QED
      BY <1>2, <2>1 DEF ClaimMove, ToolClaimExpires, Tool!ClaimExpires, histVars
  <1>3. RunLeaseExpires \/ Quiescent \/ UNCHANGED vars =>
          UNCHANGED <<claims, invoked>>
    BY DEF RunLeaseExpires, Quiescent, vars, histVars
  <1>4. UNCHANGED <<claims, invoked>>
          \/ (\E c \in Calls : StepOf(c) /\ ~UNCHANGED <<claims, invoked>>)
          \/ \E k \in Keys : ToolClaimExpires(k)
    BY <1>3 DEF Next, StepOf
  <1> QED
    BY <1>1, <1>2, <1>4, CallMoves, HandlerMoves

\* What a move of the table leaves of a claim.
LEMMA MoveOfClaim ==
  ASSUME IInv, ClaimsInv, NEW k \in Keys, NEW c \in Calls, ClaimMove(k, c),
         invoked \subseteq invoked'
  PROVE  /\ ClaimOK(k)'
         /\ claims[k].state # "completed"
         /\ claims[k].disposition # "indeterminate"
         /\ \A j \in Keys \ {k} : claims'[j] = claims[j]
  <1>1. claims \in [Keys -> Tool!ToolClaim] /\ ClaimOK(k)
    BY DEF IInv, TypeOK, Tool!ClaimsTypeOK, ClaimsInv
  <1>2. \A j \in Keys \ {k} : claims'[j] = claims[j]
    BY <1>1 DEF ClaimMove
  <1>3. /\ claims[k].state \in {"absent", "claimed", "completed", "failed"}
        /\ claims[k].state # "completed"
        /\ claims[k].disposition # "indeterminate"
    BY <1>1 DEF ClaimMove, ClaimOK, Tool!Abandoned, Tool!Retryable, Tool!Owns,
                Tool!ToolClaim, Tool!Absent
  <1>4. CASE /\ claims' = [claims EXCEPT ![k] = Tool!Held(c, k[2])]
             /\ k[2] \in Keyed /\ <<k, c>> \in invoked'
    BY <1>1, <1>2, <1>3, <1>4 DEF ClaimOK, Tool!Held
  <1>5. CASE /\ Tool!Owns(k, c)
             /\ claims' = [claims EXCEPT ![k].state = "completed"]
    <2>1. claims[k] \in [state : {"claimed", "completed", "failed"},
                         owner : Calls, live : BOOLEAN,
                         request : ToolActions,
                         disposition : Tool!Dispositions]
      BY <1>1, <1>5 DEF Tool!Owns, Tool!ToolClaim, Tool!Absent
    <2>2. /\ claims'[k].state = "completed"
          /\ claims'[k].owner = claims[k].owner
          /\ claims'[k].disposition = claims[k].disposition
      BY <1>1, <1>5, <2>1
    <2> QED
      BY <1>1, <1>2, <1>3, <1>5, <2>2 DEF ClaimOK, Tool!Owns
  <1>6. ASSUME Tool!Owns(k, c), NEW d \in Tool!Dispositions,
               claims' = [claims EXCEPT ![k].state = "failed",
                                        ![k].disposition = d]
        PROVE  ClaimOK(k)'
    <2>1. claims[k] \in [state : {"claimed", "completed", "failed"},
                         owner : Calls, live : BOOLEAN,
                         request : ToolActions,
                         disposition : Tool!Dispositions]
      BY <1>1, <1>6 DEF Tool!Owns, Tool!ToolClaim, Tool!Absent
    <2>2. claims'[k].state = "failed"
      BY <1>1, <1>6, <2>1
    <2> QED
      BY <1>1, <1>6, <2>2 DEF ClaimOK, Tool!Owns
  <1>7. CASE /\ claims[k].state = "claimed"
             /\ claims' = [claims EXCEPT ![k].live = FALSE]
    <2>1. claims[k] \in [state : {"claimed", "completed", "failed"},
                         owner : Calls, live : BOOLEAN,
                         request : ToolActions,
                         disposition : Tool!Dispositions]
      BY <1>1, <1>7 DEF Tool!ToolClaim, Tool!Absent
    <2>2. /\ claims'[k].state = claims[k].state
          /\ claims'[k].owner = claims[k].owner
          /\ claims'[k].disposition = claims[k].disposition
      BY <1>1, <1>7, <2>1
    <2> QED
      BY <1>1, <1>7, <2>2 DEF ClaimOK
  <1> QED
    BY <1>2, <1>3, <1>4, <1>5, <1>6, <1>7 DEF ClaimMove

\* The claim table stays true, and what is completed or indeterminate in it
\* stays as it is.
LEMMA ClaimsStep ==
  ASSUME IInv, ClaimsInv, [Next]_vars
  PROVE  /\ ClaimsInv'
         /\ invoked \subseteq invoked'
         /\ \A k \in Keys :
              claims[k].state = "completed"
                \/ claims[k].disposition = "indeterminate" =>
              claims'[k] = claims[k]
  <1>1. CASE claims' = claims
    BY <1>1, ClaimMoves DEF ClaimsInv, ClaimOK
  <1>2. ASSUME NEW k \in Keys, NEW c \in Calls, ClaimMove(k, c)
        PROVE  /\ ClaimsInv'
               /\ \A j \in Keys :
                    claims[j].state = "completed"
                      \/ claims[j].disposition = "indeterminate" =>
                    claims'[j] = claims[j]
    <2>1. invoked \subseteq invoked'
      BY ClaimMoves
    <2>2. \A j \in Keys \ {k} : ClaimOK(j)'
      BY <1>2, <2>1, MoveOfClaim DEF ClaimsInv, ClaimOK
    <2> QED
      BY <1>2, <2>1, <2>2, MoveOfClaim DEF ClaimsInv
  <1> QED
    BY <1>1, <1>2, ClaimMoves

-----------------------------------------------------------------------------
(* The row *)

Same(r, s) ==
  /\ r.status = s.status /\ r.step = s.step /\ r.pending = s.pending
  /\ r.toolResults = s.toolResults

\* The call has the lease and the current run, which is at work.
Drives(c) ==
  /\ Exists /\ lease.owner = c /\ snap[c] = row
  /\ row.status \notin Terminal

\* What a call's step may do to the run, field by field.
RowMove(c) ==
  \/ /\ row.status \in {"queued", "waiting_approval"}
     /\ row'.status = "running" /\ row'.step = row.step
     /\ row'.pending = row.pending /\ row'.toolResults = row.toolResults
  \/ pc[c] = "loop" /\ row.pending = NoAction /\ Same(row', row)
  \/ /\ pc[c] = "chosen" /\ act[c] = "finish"
     /\ row'.status = "succeeded" /\ row'.pending = NoAction
     /\ row'.step = row.step + 1 /\ row'.toolResults = row.toolResults
  \/ /\ pc[c] = "chosen" /\ act[c] = "fail"
     /\ row'.status = "failed" /\ row'.pending = NoAction
     /\ row'.step = row.step + 1 /\ row'.toolResults = row.toolResults
  \/ /\ pc[c] \in {"failing", "denying"}
     /\ row'.status = "failed" /\ row'.pending = NoAction
     /\ row'.step = row.step /\ row'.toolResults = row.toolResults
  \/ /\ pc[c] = "pausing"
     /\ row'.status = "waiting_approval" /\ row'.pending = act[c]
     /\ row'.step = row.step /\ row'.toolResults = row.toolResults
  \/ /\ pc[c] = "checkpoint"
     /\ row'.status = row.status /\ row'.pending = NoAction
     /\ row'.step = row.step + 1
     /\ row'.toolResults =
          Append(row.toolResults, [action |-> act[c], by |-> output[c]])

\* A new version changes no other field.
LEMMA VersionIsAllThatChanges ==
  ASSUME NEW run \in RunRow, NEW v
  PROVE  Same([run EXCEPT !.version = v], run)
  BY DEF Same, RunRow

\* The fields of the runs that the saves write.
LEMMA SavedFields ==
  ASSUME NEW run \in RunRow, NEW a, NEW r
  PROVE  /\ Entered(run).status = "running" /\ Entered(run).step = run.step
         /\ Entered(run).pending = run.pending
         /\ Entered(run).toolResults = run.toolResults
         /\ \A code : /\ Failed(run, code).status = "failed"
                      /\ Failed(run, code).pending = NoAction
                      /\ Failed(run, code).step = run.step
                      /\ Failed(run, code).toolResults = run.toolResults
         /\ \A n : Same([run EXCEPT !.policyCalls = n], run)
         /\ LET next == [run EXCEPT !.status = "succeeded", !.step = @ + 1,
                                    !.pending = NoAction, !.result = "finished"]
            IN  /\ next.status = "succeeded" /\ next.pending = NoAction
                /\ next.step = run.step + 1
                /\ next.toolResults = run.toolResults
         /\ LET next == [Failed(run, "policy_failed") EXCEPT !.step = @ + 1]
            IN  /\ next.status = "failed" /\ next.pending = NoAction
                /\ next.step = run.step + 1
                /\ next.toolResults = run.toolResults
         /\ LET next == [run EXCEPT !.status = "waiting_approval",
                                    !.pendingApproval = TRUE, !.pending = a]
            IN  /\ next.status = "waiting_approval" /\ next.pending = a
                /\ next.step = run.step /\ next.toolResults = run.toolResults
         /\ LET next == [run EXCEPT !.step = @ + 1, !.pendingApproval = FALSE,
                                    !.pending = NoAction,
                                    !.toolResults = Append(@, r)]
            IN  /\ next.status = run.status /\ next.pending = NoAction
                /\ next.step = run.step + 1
                /\ next.toolResults = Append(run.toolResults, r)
  <1>1. /\ Entered(run).status = "running" /\ Entered(run).step = run.step
        /\ Entered(run).pending = run.pending
        /\ Entered(run).toolResults = run.toolResults
    BY DEF Entered, RunRow
  <1>2. \A code : /\ Failed(run, code).status = "failed"
                  /\ Failed(run, code).pending = NoAction
                  /\ Failed(run, code).step = run.step
                  /\ Failed(run, code).toolResults = run.toolResults
    BY DEF Failed, RunRow
  <1>3. \A n : Same([run EXCEPT !.policyCalls = n], run)
    BY DEF Same, RunRow
  <1>4. LET next == [run EXCEPT !.status = "succeeded", !.step = @ + 1,
                                !.pending = NoAction, !.result = "finished"]
        IN  /\ next.status = "succeeded" /\ next.pending = NoAction
            /\ next.step = run.step + 1
            /\ next.toolResults = run.toolResults
    BY DEF RunRow
  <1>5. LET next == [Failed(run, "policy_failed") EXCEPT !.step = @ + 1]
        IN  /\ next.status = "failed" /\ next.pending = NoAction
            /\ next.step = run.step + 1
            /\ next.toolResults = run.toolResults
    <2>1. "policy_failed" \in Results
      BY DEF Results
    <2>2. PICK f \in RunRow : f = Failed(run, "policy_failed")
      BY <2>1, RunValues
    <2>3. LET next == [f EXCEPT !.step = @ + 1]
          IN  /\ next.status = f.status /\ next.pending = f.pending
              /\ next.step = f.step + 1
              /\ next.toolResults = f.toolResults
      BY DEF RunRow
    <2> QED
      BY <1>2, <2>2, <2>3
  <1>6. LET next == [run EXCEPT !.status = "waiting_approval",
                                !.pendingApproval = TRUE, !.pending = a]
        IN  /\ next.status = "waiting_approval" /\ next.pending = a
            /\ next.step = run.step /\ next.toolResults = run.toolResults
    BY DEF RunRow
  <1>7. LET next == [run EXCEPT !.step = @ + 1, !.pendingApproval = FALSE,
                                !.pending = NoAction,
                                !.toolResults = Append(@, r)]
        IN  /\ next.status = run.status /\ next.pending = NoAction
            /\ next.step = run.step + 1
            /\ next.toolResults = Append(run.toolResults, r)
    <2> DEFINE results == Append(run.toolResults, r)
               step == run.step + 1
    <2> HIDE DEF results, step
    <2>1. LET next == [run EXCEPT !.step = step, !.pendingApproval = FALSE,
                                  !.pending = NoAction,
                                  !.toolResults = results]
          IN  /\ next.status = run.status /\ next.pending = NoAction
              /\ next.step = step /\ next.toolResults = results
      BY DEF RunRow
    <2> QED
      BY <2>1 DEF results, step
  <1> QED
    BY <1>1, <1>2, <1>3, <1>4, <1>5, <1>6, <1>7

\* A call that saves makes one of these moves from the row it has in hand, or
\* none.
LEMMA SavingMoves ==
  ASSUME IInv, NEW c \in Calls, Saving(c)
  PROVE  row' = row \/ (snap[c] = row /\ snap'[c] = row' /\ RowMove(c))
  <1> USE DEF IInv
  <1>0. snap[c] \in RunRow
    BY DEF TypeOK
  <1>1. ASSUME NEW run \in RunRow, NEW next, SaveStep(c, run, next)
        PROVE  \/ row' = row
               \/ snap[c] = row /\ snap'[c] = row' /\ Same(row', run)
    BY <1>1, VersionIsAllThatChanges DEF SaveStep
  <1>2. ASSUME NEW code \in Results, pc[c] \in {"failing", "denying"},
               SaveStep(c, Failed(snap[c], code), "release")
        PROVE  row' = row \/ (snap[c] = row /\ snap'[c] = row' /\ RowMove(c))
    <2> DEFINE run == Failed(snap[c], code)
    <2>1. run \in RunRow
      BY <1>0, RunValues
    <2>2. /\ run.status = "failed" /\ run.pending = NoAction
          /\ run.step = snap[c].step /\ run.toolResults = snap[c].toolResults
      BY <1>0, SavedFields
    <2>3. SaveStep(c, run, "release")
      BY <1>2
    <2> HIDE DEF run
    <2> QED
      BY <1>1, <1>2, <2>1, <2>2, <2>3 DEF RowMove, Same
  <1>3. CASE Enter(c)
    <2>1. \/ row' = row
          \/ /\ snap[c].status \in {"queued", "waiting_approval"}
             /\ SaveStep(c, Entered(snap[c]), "loop")
      BY <1>3, Saves DEF storeVars
    <2>2. Entered(snap[c]) \in RunRow
      BY <1>0, RunValues
    <2> QED
      BY <1>0, <1>1, <2>1, <2>2, SavedFields DEF RowMove, Same
  <1>4. CASE NextAction(c)
    <2> DEFINE run == [snap[c] EXCEPT !.policyCalls = BudgetUsed(snap[c]) + 1]
    <2>1. \/ row' = row
          \/ snap[c].pending = NoAction /\ SaveStep(c, run, "policy")
      BY <1>4, Saves DEF storeVars
    <2>2. run \in RunRow /\ Same(run, snap[c])
      BY <1>0, RunValues, SavedFields
    <2> HIDE DEF run
    <2>3. pc[c] = "loop"
      BY <1>4 DEF NextAction
    <2> QED
      BY <1>1, <2>1, <2>2, <2>3 DEF RowMove, Same
  <1>5. CASE Finish(c)
    <2> DEFINE run == [snap[c] EXCEPT !.status = "succeeded", !.step = @ + 1,
                                      !.pending = NoAction,
                                      !.result = "finished"]
    <2>1. SaveStep(c, run, "release") /\ pc[c] = "chosen" /\ act[c] = "finish"
      BY <1>5, Saves DEF Finish
    <2>2. run \in RunRow
      BY <1>0, FinalValues
    <2>3. /\ run.status = "succeeded" /\ run.pending = NoAction
          /\ run.step = snap[c].step + 1
          /\ run.toolResults = snap[c].toolResults
      BY <1>0, SavedFields
    <2> HIDE DEF run
    <2> QED
      BY <1>1, <2>1, <2>2, <2>3 DEF RowMove, Same
  <1>6. CASE PolicyFails(c)
    <2> DEFINE run == [Failed(snap[c], "policy_failed") EXCEPT !.step = @ + 1]
    <2>1. SaveStep(c, run, "release") /\ pc[c] = "chosen" /\ act[c] = "fail"
      BY <1>6, Saves DEF PolicyFails
    <2>2. run \in RunRow
      BY <1>0, FinalValues
    <2>3. /\ run.status = "failed" /\ run.pending = NoAction
          /\ run.step = snap[c].step + 1
          /\ run.toolResults = snap[c].toolResults
      BY <1>0, SavedFields
    <2> HIDE DEF run
    <2> QED
      BY <1>1, <2>1, <2>2, <2>3 DEF RowMove, Same
  <1>7. CASE Pause(c)
    <2> DEFINE run == [snap[c] EXCEPT !.status = "waiting_approval",
                                      !.pendingApproval = TRUE,
                                      !.pending = act[c]]
    <2>1. SaveStep(c, run, "release") /\ pc[c] = "pausing"
      BY <1>7, Saves DEF Pause
    <2>2. act[c] \in ToolActions
      BY <2>1 DEF LocalsOK, LocalOK, OnTool
    <2>3. run \in RunRow
      BY <1>0, <2>2, RunValues
    <2>4. /\ run.status = "waiting_approval" /\ run.pending = act[c]
          /\ run.step = snap[c].step /\ run.toolResults = snap[c].toolResults
      BY <1>0, SavedFields
    <2> HIDE DEF run
    <2> QED
      BY <1>1, <2>1, <2>3, <2>4 DEF RowMove, Same
  <1>8. CASE Checkpoint(c)
    <2> DEFINE run == [snap[c] EXCEPT
                !.step = @ + 1, !.pendingApproval = FALSE, !.pending = NoAction,
                !.toolResults = Append(@, [action |-> act[c], by |-> output[c]])]
    <2>1. SaveStep(c, run, "loop") /\ pc[c] = "checkpoint"
      BY <1>8, Saves DEF Checkpoint
    <2>2. act[c] \in ToolActions /\ output[c] \in Calls
      BY <2>1 DEF LocalsOK, LocalOK, OnTool
    <2>3. run \in RunRow
      BY <1>0, <2>2, FinalValues
    <2>4. /\ run.status = snap[c].status /\ run.pending = NoAction
          /\ run.step = snap[c].step + 1
          /\ run.toolResults = Append(snap[c].toolResults,
                                      [action |-> act[c], by |-> output[c]])
      BY <1>0, SavedFields
    <2> HIDE DEF run
    <2> QED
      BY <1>1, <2>1, <2>3, <2>4 DEF RowMove, Same
  <1>9. CASE TerminalFailure(c)
    <2>1. fault[c] \in Results /\ pc[c] = "failing"
      BY <1>9 DEF TerminalFailure, LocalsOK, LocalOK
    <2> QED
      BY <1>2, <1>9, <2>1, FailureIsSaveStep
  <1>10. CASE Deny(c)
    <2>1. "approval_denied" \in Results /\ pc[c] = "denying"
      BY <1>10 DEF Results, Deny
    <2> QED
      BY <1>2, <1>10, <2>1, Saves DEF storeVars
  <1> QED
    BY <1>3, <1>4, <1>5, <1>6, <1>7, <1>8, <1>9, <1>10 DEF Saving

\* So every step inserts the run, leaves it alone or is such a move of a call
\* that holds the lease and has the run in hand.
LEMMA RowMoves ==
  ASSUME IInv, [Next]_vars
  PROVE  \/ row' = row
         \/ row = NewRun /\ row' = [NewRun EXCEPT !.version = 1]
         \/ \E c \in Calls : Drives(c) /\ RowMove(c)
  <1> USE DEF IInv
  <1>1. ASSUME NEW c \in Calls, StepOf(c)
        PROVE  \/ row' = row
               \/ row = NewRun /\ row' = [NewRun EXCEPT !.version = 1]
               \/ Drives(c) /\ RowMove(c)
    <2>1. fault[c] # "stale_version"
      BY DEF OwnerIsCurrent
    <2>2. Start(c) => row = NewRun /\ row' = [NewRun EXCEPT !.version = 1]
      BY DEF Start, InsertRun, FreshOK
    <2>3. Saving(c) => row' = row \/ (Drives(c) /\ RowMove(c))
      <3>1. pc[c] \in Executing => Exists
        BY DEF FreshOK, Executing
      <3> QED
        BY <3>1, SavingMoves, SavingEffect DEF Drives, OwnsLease
    <2> QED
      BY <1>1, <2>1, <2>2, <2>3, StepKinds, QuietEffect, OutsideEffect
  <1>2. ASSUME \/ RunLeaseExpires \/ Quiescent \/ UNCHANGED vars
               \/ \E k \in Keys : ToolClaimExpires(k)
        PROVE  row' = row
    BY <1>2 DEF RunLeaseExpires, LeaseExpires, Quiescent, vars,
                ToolClaimExpires, storeVars
  <1> QED
    BY <1>1, <1>2 DEF Next, StepOf

-----------------------------------------------------------------------------
(* The local variables *)

\* A call that has left its action, or not come to it, claims nothing.
LEMMA OffAction ==
  ASSUME NEW c \in Calls, pc'[c] \notin OnAction
  PROVE  ActOK(c)'
  BY DEF ActOK, OnAction

\* Before and after its lease a call works on no action.
LEMMA OutsideActs ==
  ASSUME IInv, NEW c \in Calls,
         Start(c) \/ Outside(c) \/ Crash(c) \/ Claim(c) \/ Release(c)
  PROVE  ActOK(c)'
  <1>0. fault[c] # "stale_version" /\ OnAction \subseteq Executing
    BY DEF IInv, OwnerIsCurrent, OnAction, Executing
  <1>1. CASE Start(c)
    BY <1>1, OffAction DEF Start, Goto, IInv, TypeOK, OnAction
  <1>2. CASE Outside(c) \/ Crash(c) \/ Release(c)
    <2>1. pc'[c] \notin Executing
      BY <1>0, <1>2, OutsideEffect DEF IInv, Executing
    <2> QED
      BY <1>0, <2>1, OffAction
  <1>3. CASE Claim(c)
    <2>1. \/ pc'[c] \in {"enter", "denying"}
          \/ pc'[c] \notin Executing
      BY <1>0, <1>3, OutsideEffect
         DEF Claim, ClaimRunExecution, AfterConflict, Return, Goto, IInv, TypeOK,
             Executing
    <2> QED
      BY <1>0, <2>1, OffAction DEF OnAction
  <1> QED
    BY <1>1, <1>2, <1>3

\* Of the saves only the one before a policy call leads to an action; the
\* other way to one is the stored action itself.
LEMMA SavingActs ==
  ASSUME IInv, NEW c \in Calls, Saving(c)
  PROVE  ActOK(c)'
  <1> USE DEF IInv
  <1>0. snap[c] \in RunRow
    BY DEF TypeOK
  <1>1. ASSUME pc'[c] \in {"loop", "release", "failing"}
        PROVE  ActOK(c)'
    BY <1>1, OffAction DEF OnAction
  <1>2. CASE NextAction(c)
    <2> DEFINE run == [snap[c] EXCEPT !.policyCalls = BudgetUsed(snap[c]) + 1]
    <2>1. CASE /\ act' = [act EXCEPT ![c] = snap[c].pending]
               /\ Goto(c, "chosen") /\ UNCHANGED snap
      BY <2>1 DEF ActOK, OnAction, Goto, TypeOK
    <2>2. CASE FailWith(c, "action_budget_exhausted")
      BY <1>1, <2>2 DEF FailWith, Goto, TypeOK
    <2>3. CASE snap[c].pending = NoAction /\ Save(c, run, <<>>, "policy")
      <3>1. SaveStep(c, run, "policy")
        BY <1>2, <2>3, SaveIsSaveStep DEF NextAction, Executing
      <3>0. run \in RunRow /\ Same(run, snap[c])
        BY <1>0, RunValues, SavedFields
      <3> HIDE DEF run
      <3>2. run \in RunRow /\ run.pending = NoAction
        BY <2>3, <3>0 DEF Same
      <3>3. CASE pc'[c] = "release"
        BY <1>1, <3>3
      <3>4. CASE pc'[c] = "policy" /\ pc'[c] # "release"
        <4>1. snap'[c] = [run EXCEPT !.version = snap[c].version + 1]
          BY <3>1, <3>4 DEF SaveStep
        <4>2. snap'[c].pending = NoAction
          BY <3>2, <4>1, VersionIsAllThatChanges DEF Same
        <4> QED
          BY <3>4, <4>2 DEF ActOK, OnAction
      <3> QED
        BY <3>1, <3>3, <3>4 DEF SaveStep
    <2> QED
      BY <1>2, <2>1, <2>2, <2>3 DEF NextAction
  <1>3. CASE Enter(c)
    BY <1>1, <1>3 DEF Enter, Save, Goto, Raise, TypeOK
  <1>4. CASE Finish(c) \/ PolicyFails(c) \/ Pause(c) \/ Checkpoint(c)
               \/ TerminalFailure(c)
    <2>1. \E run : SaveStep(c, run, "release") \/ SaveStep(c, run, "loop")
      BY <1>4, Saves, FailureIsSaveStep
    <2> QED
      BY <1>1, <2>1 DEF SaveStep
  <1>5. CASE Deny(c)
    <2>1. Raise(c, "ownership_lost") \/ \E run : SaveStep(c, run, "release")
      BY <1>5, Saves
    <2> QED
      BY <1>1, <2>1 DEF SaveStep, Raise, Goto, TypeOK
  <1> QED
    BY <1>2, <1>3, <1>4, <1>5 DEF Saving

\* A gateway call that does not fail has been allowed, and is in the handler
\* or holds the output that completed its key.
LEMMA CallActs ==
  ASSUME IInv, ClaimsInv, ActsOK, [Next]_vars, NEW c \in Calls, CallTool(c)
  PROVE  ActOK(c)'
  <1>1. /\ pc[c] = "call" /\ ActOK(c) /\ Key(c) \in Keys
        /\ act[c] \in ToolActions
        /\ UNCHANGED <<snap, act, approvals>>
        /\ pc \in [Calls -> Locations]
        /\ output \in [Calls -> Calls \cup {NoCall}]
    BY KeyType DEF CallTool, ActsOK, IInv, TypeOK, OnTool, storeVars
  <1>2. CASE \E code : FailWith(c, code)
    BY <1>1, <1>2, OffAction DEF FailWith, Goto, OnAction
  <1>3. CASE ~\E code : FailWith(c, code)
    <2>1. act[c] \in Gated => Allowed(snap[c].step, act[c])
      <3>1. act[c] \in Gated => ApprovalFailure(snap[c].step, act[c]) = "none"
        BY <1>3 DEF CallTool
      <3> QED
        BY <3>1 DEF ApprovalFailure, Allowed, Decided
    <2>2. act'[c] \in Gated => Allowed(snap[c].step, act[c])'
      BY <1>1, <2>1 DEF Allowed
    <2>3. snap'[c].pending \in {NoAction, act'[c]}
      BY <1>1 DEF ActOK, OnAction
    <2>4. CASE Goto(c, "tool") /\ invoked' = invoked \cup {<<Key(c), c>>}
      BY <1>1, <2>2, <2>3, <2>4 DEF ActOK, Goto, OnAction, Key
    <2>5. CASE /\ act[c] \in Keyed /\ claims[Key(c)].state = "completed"
               /\ output' = [output EXCEPT ![c] = claims[Key(c)].owner]
               /\ Goto(c, "checkpoint")
      <3>1. claims'[Key(c)] = claims[Key(c)] /\ invoked \subseteq invoked'
        BY <1>1, <2>5, ClaimsStep
      <3>2. <<Key(c), claims[Key(c)].owner>> \in invoked
        BY <1>1, <2>5 DEF ClaimsInv, ClaimOK
      <3>3. Key(c)' = Key(c) /\ output'[c] = claims[Key(c)].owner
        BY <1>1, <2>5 DEF Key
      <3>4. Answered(c)'
        BY <2>5, <3>1, <3>2, <3>3 DEF Answered
      <3> QED
        BY <1>1, <2>2, <2>3, <2>5, <3>4 DEF ActOK, Goto, OnAction
    <2>6. \/ Goto(c, "tool") /\ invoked' = invoked \cup {<<Key(c), c>>}
          \/ /\ act[c] \in Keyed /\ claims[Key(c)].state = "completed"
             /\ output' = [output EXCEPT ![c] = claims[Key(c)].owner]
             /\ Goto(c, "checkpoint")
      BY <1>3 DEF CallTool
    <2> QED
      BY <2>4, <2>5, <2>6
  <1> QED
    BY <1>2, <1>3

\* A handler that answers completed the key with its own call, or failed.
LEMMA AnswerActs ==
  ASSUME IInv, ActsOK, NEW c \in Calls, NEW b \in BOOLEAN, HandlerSucceeds(c, b)
  PROVE  ActOK(c)'
  <1>1. /\ pc[c] = "tool" /\ ActOK(c) /\ Key(c) \in Keys
        /\ UNCHANGED <<snap, act, approvals, invoked>>
        /\ pc \in [Calls -> Locations]
        /\ output' = [output EXCEPT ![c] = c]
        /\ output \in [Calls -> Calls \cup {NoCall}]
        /\ claims \in [Keys -> Tool!ToolClaim]
    BY KeyType DEF HandlerSucceeds, ActsOK, IInv, TypeOK, OnTool, storeVars,
                   histVars, Tool!ClaimsTypeOK
  <1>2. CASE (\E code : FailWith(c, code)) \/ Raise(c, "other_error")
    BY <1>1, <1>2, OffAction DEF FailWith, Raise, Goto, OnAction
  <1>3. CASE /\ Goto(c, "checkpoint")
             /\ act[c] \in Keyed =>
                  Tool!Owns(Key(c), c) /\ Tool!CompleteToolResult(Key(c), c)
    <2>1. Key(c)' = Key(c) /\ output'[c] = c
      BY <1>1 DEF Key
    <2>2. act[c] \in Keyed =>
            claims'[Key(c)].state = "completed" /\ claims'[Key(c)].owner = c
      <3>1. SUFFICES ASSUME act[c] \in Keyed
                     PROVE  /\ claims'[Key(c)].state = "completed"
                            /\ claims'[Key(c)].owner = c
        OBVIOUS
      <3> DEFINE k == Key(c)
      <3>2. /\ claims' = [claims EXCEPT ![k].state = "completed"]
            /\ claims[k].owner = c /\ claims[k].state = "claimed"
        BY <1>3, <3>1 DEF Tool!CompleteToolResult, Tool!Owns
      <3>3. claims[k] \in [state : {"claimed", "completed", "failed"},
                           owner : Calls, live : BOOLEAN,
                           request : ToolActions,
                           disposition : Tool!Dispositions]
        BY <1>1, <3>2 DEF Tool!ToolClaim, Tool!Absent
      <3>4. k \in Keys
        BY <1>1
      <3> HIDE DEF k
      <3>5. claims'[k].state = "completed" /\ claims'[k].owner = c
        BY <1>1, <3>2, <3>3, <3>4
      <3> QED
        BY <3>5 DEF k
    <2>3. Answered(c)'
      BY <1>1, <2>1, <2>2 DEF Answered, ActOK
    <2>4. act'[c] \in Gated => Allowed(snap[c].step, act[c])'
      BY <1>1 DEF ActOK, Allowed
    <2> QED
      BY <1>1, <1>3, <2>3, <2>4 DEF ActOK, Goto, OnAction
  <1> QED
    BY <1>2, <1>3 DEF HandlerSucceeds

\* A step of a call leaves its own facts true.
LEMMA ActStep ==
  ASSUME IInv, ClaimsInv, ActsOK, [Next]_vars, NEW c \in Calls, StepOf(c)
  PROVE  ActOK(c)'
  <1>0. ActOK(c) /\ pc \in [Calls -> Locations]
        /\ act \in [Calls -> Answers \cup {NoAction}]
    BY DEF ActsOK, IInv, TypeOK
  <1>1. CASE Quiet(c)
    <2>0. UNCHANGED <<approvals, snap>>
      BY <1>1, QuietEffect DEF IInv, OwnerIsCurrent
    <2>1. ASSUME (\E code : FailWith(c, code)) \/ \E e : Raise(c, e)
          PROVE  ActOK(c)'
      BY <1>0, <2>1, OffAction DEF FailWith, Raise, Goto, OnAction
    <2>2. CASE \E a \in Answers : PolicyAnswers(c, a)
      BY <1>0, <2>0, <2>2 DEF PolicyAnswers, Goto, ActOK, OnAction
    <2>3. CASE Preflight(c)
      <3>1. CASE \E code : FailWith(c, code)
        BY <2>1, <3>1
      <3>2. CASE /\ UNCHANGED act /\ pc[c] = "chosen"
                 /\ \/ act[c] \in Gated /\ Goto(c, "approval")
                    \/ Goto(c, "call")
        BY <1>0, <2>0, <3>2 DEF Goto, ActOK, OnAction
      <3> QED
        BY <2>3, <3>1, <3>2 DEF Preflight
    <2>4. CASE CheckApproval(c)
      <3>1. CASE \E code : FailWith(c, code)
        BY <2>1, <3>1
      <3>2. CASE /\ UNCHANGED act /\ pc[c] = "approval"
                 /\ Goto(c, "pausing") \/ Goto(c, "call")
        BY <1>0, <2>0, <3>2 DEF Goto, ActOK, OnAction
      <3> QED
        BY <2>4, <3>1, <3>2 DEF CheckApproval
    <2>5. CASE Heartbeat(c)
      <3>1. /\ UNCHANGED <<pc, act, output, invoked>>
            /\ pc[c] \in {"policy", "tool"}
        BY <2>5 DEF Heartbeat, localVars, histVars
      <3>2. Key(c)' = Key(c) /\ (Allowed(snap[c].step, act[c])'
              <=> Allowed(snap[c].step, act[c]))
        BY <2>0, <3>1 DEF Key, Allowed
      <3> QED
        BY <1>0, <2>0, <3>1, <3>2 DEF ActOK, OnAction
    <2>6. CASE \/ PolicyRaises(c)
               \/ \E b \in BOOLEAN : HandlerFails(c, b)
               \/ Cancel(c) /\ pc[c] # "await"
      BY <2>1, <2>6 DEF PolicyRaises, HandlerFails, Cancel
    <2> QED
      BY <1>1, <2>2, <2>3, <2>4, <2>5, <2>6, CallActs, AnswerActs DEF Quiet
  <1> QED
    BY <1>1, OutsideActs, SavingActs, StepKinds

\* A step that leaves a call's local variables alone leaves its facts true.
LEMMA ActFrame ==
  ASSUME IInv, ClaimsInv, ActsOK, [Next]_vars, NEW c \in Calls,
         /\ pc'[c] = pc[c] /\ snap'[c] = snap[c] /\ act'[c] = act[c]
         /\ output'[c] = output[c]
  PROVE  ActOK(c)'
  <1>1. ActOK(c) /\ Key(c)' = Key(c) /\ invoked \subseteq invoked'
    BY ClaimsStep DEF ActsOK, Key
  <1>2. pc[c] \in OnTool => Key(c) \in Keys /\ snap[c].step \in Steps
    BY KeyType DEF IInv
  <1>3. pc[c] = "checkpoint" => Answered(c)'
    <2>1. SUFFICES ASSUME pc[c] = "checkpoint" PROVE Answered(c)'
      OBVIOUS
    <2>2. Answered(c) /\ Key(c) \in Keys
      BY <1>1, <1>2, <2>1 DEF ActOK, OnTool
    <2>3. act[c] \in Keyed => claims'[Key(c)] = claims[Key(c)]
      BY <2>2, ClaimsStep DEF Answered
    <2> QED
      BY <1>1, <2>2, <2>3 DEF Answered
  <1>4. pc[c] \in {"tool", "checkpoint"} /\ act[c] \in Gated =>
          Allowed(snap[c].step, act[c])'
    <2>1. SUFFICES ASSUME pc[c] \in {"tool", "checkpoint"}, act[c] \in Gated
                   PROVE  Allowed(snap[c].step, act[c])'
      OBVIOUS
    <2>2. Allowed(snap[c].step, act[c]) /\ snap[c].step \in Steps
      BY <1>1, <1>2, <2>1 DEF ActOK, OnTool
    <2>3. Decided(snap[c].step)
      BY <2>1, <2>2, StoreAssumption, ExecutionAssumption
         DEF Allowed, Decided, NoApproval
    <2>4. approvals'[snap[c].step] = approvals[snap[c].step]
      BY <2>2, <2>3, DecisionsKept
    <2> QED
      BY <2>2, <2>4 DEF Allowed
  <1> QED
    BY <1>1, <1>3, <1>4 DEF ActOK, OnAction, OnTool

\* So all calls' facts stay true.
LEMMA ActsStep ==
  ASSUME IInv, ClaimsInv, ActsOK, [Next]_vars
  PROVE  ActsOK'
  <1>1. ASSUME NEW c \in Calls, StepOf(c) PROVE ActsOK'
    <2>1. \A d \in Calls \ {c} : ActOK(d)'
      BY <1>1, Frame, ActFrame DEF IInv
    <2> QED
      BY <1>1, <2>1, ActStep DEF ActsOK
  <1>2. ASSUME \/ RunLeaseExpires \/ Quiescent \/ UNCHANGED vars
               \/ \E k \in Keys : ToolClaimExpires(k)
        PROVE  ActsOK'
    <2>1. UNCHANGED <<pc, snap, act, output>>
      BY <1>2 DEF RunLeaseExpires, Quiescent, vars, ToolClaimExpires, localVars
    <2> QED
      BY <2>1, ActFrame DEF ActsOK
  <1> QED
    BY <1>1, <1>2 DEF Next, StepOf

-----------------------------------------------------------------------------
(* Results and reviews *)

\* A run at work keeps one result per step and waits for gated tools only.
LEMMA RowStep ==
  ASSUME IInv, ActsOK, RowInv, [Next]_vars
  PROVE  RowInv'
  <1>0. row \in RunRow
    BY DEF IInv, TypeOK, StoreTypeOK
  <1>1. CASE row' = row
    BY <1>1 DEF RowInv
  <1>2. CASE row = NewRun /\ row' = [NewRun EXCEPT !.version = 1]
    <2>1. row'.status = "queued" /\ row'.step = 0 /\ row'.toolResults = <<>>
      BY <1>2 DEF NewRun
    <2> QED
      BY <2>1 DEF RowInv
  <1>3. ASSUME NEW c \in Calls, Drives(c), RowMove(c)
        PROVE  RowInv'
    <2>0. snap[c] = row /\ row.status \notin Terminal
      BY <1>3 DEF Drives
    <2>1. Len(row.toolResults) = row.step /\ row.toolResults \in Seq(ToolResult)
      BY <1>0, <2>0 DEF RowInv, RunRow
    <2>2. pc[c] = "pausing" => act[c] \in Gated
      BY DEF ActsOK, ActOK
    <2>3. CASE /\ pc[c] = "checkpoint" /\ row'.status = row.status
               /\ row'.step = row.step + 1 /\ row'.pending = NoAction
               /\ row'.toolResults =
                    Append(row.toolResults,
                           [action |-> act[c], by |-> output[c]])
      <3>1. pc[c] = "checkpoint" => snap[c].status = "running"
        BY DEF IInv, LocalsOK, LocalOK, InLoop
      <3>2. Len(row'.toolResults) = row.step + 1
        <4> DEFINE r == [action |-> act[c], by |-> output[c]]
        <4> HIDE DEF r
        <4>1. Len(Append(row.toolResults, r)) = Len(row.toolResults) + 1
          BY <2>1
        <4> QED
          BY <2>1, <2>3, <4>1 DEF r
      <3> QED
        BY <2>0, <2>3, <3>1, <3>2 DEF RowInv
    <2>4. CASE pc[c] = "loop" /\ Same(row', row)
      BY <2>4 DEF Same, RowInv
    <2>5. CASE /\ row'.status = "running" /\ row'.step = row.step
               /\ row'.toolResults = row.toolResults
      BY <2>1, <2>5 DEF RowInv
    <2>6. CASE row'.status \in Terminal
      BY <2>6 DEF RowInv, Terminal
    <2>7. CASE /\ pc[c] = "pausing" /\ row'.pending = act[c]
               /\ row'.step = row.step /\ row'.toolResults = row.toolResults
      BY <2>1, <2>2, <2>7 DEF RowInv
    <2> QED
      BY <1>3, <2>3, <2>4, <2>5, <2>6, <2>7 DEF RowMove, Terminal
  <1> QED
    BY <1>1, <1>2, <1>3, RowMoves

\* A decision is recorded for the action the run waits for.
LEMMA DecisionIsPending ==
  ASSUME IInv, [Next]_vars
  PROVE  \/ approvals' = approvals
         \/ \E s \in Steps, a \in ToolActions, d \in Decisions :
              /\ row' = row /\ IsPendingAction(s, a) /\ ~Decided(s)
              /\ approvals' =
                   [approvals EXCEPT ![s] = [action |-> a, decision |-> d]]
  <1>1. ASSUME NEW c \in Calls, NEW s \in Steps, NEW a \in ToolActions,
               NEW d \in Decisions, Approve(c, s, a, d)
        PROVE  \/ approvals' = approvals
               \/ /\ row' = row /\ IsPendingAction(s, a) /\ ~Decided(s)
                  /\ approvals' =
                       [approvals EXCEPT ![s] = [action |-> a, decision |-> d]]
    BY <1>1 DEF Approve, RecordPendingApproval, Inserts, Decided
  <1>2. ASSUME NEW c \in Calls, StepOf(c)
        PROVE  \/ approvals' = approvals
               \/ \E s \in Steps, a \in ToolActions, d \in Decisions :
                    Approve(c, s, a, d)
    <2>1. fault[c] # "stale_version"
      BY DEF IInv, OwnerIsCurrent
    <2>2. Saving(c) \/ Quiet(c) => approvals' = approvals
      BY <2>1, SavingEffect, QuietEffect DEF IInv
    <2>3. Start(c) \/ Release(c) \/ Crash(c) \/ Claim(c) =>
            approvals' = approvals
      BY DEF Start, InsertRun, Release, ReleaseRunExecution, Crash, Claim,
             ClaimRunExecution, storeVars
    <2>4. Outside(c) =>
            \/ approvals' = approvals
            \/ \E s \in Steps, a \in ToolActions, d \in Decisions :
                 Approve(c, s, a, d)
      BY DEF Outside, Resume, Reread, Poll, GiveUp, Cancel, storeVars
    <2> QED
      BY <1>2, <2>2, <2>3, <2>4, StepKinds
  <1>3. ASSUME \/ RunLeaseExpires \/ Quiescent \/ UNCHANGED vars
               \/ \E k \in Keys : ToolClaimExpires(k)
        PROVE  approvals' = approvals
    BY <1>3 DEF RunLeaseExpires, LeaseExpires, Quiescent, vars,
                ToolClaimExpires, storeVars
  <1>4. \/ approvals' = approvals
        \/ \E c \in Calls, s \in Steps, a \in ToolActions, d \in Decisions :
             Approve(c, s, a, d)
    BY <1>2, <1>3 DEF Next, StepOf
  <1> QED
    BY <1>1, <1>4

\* At a decided step a call that drives the run works on the decided action,
\* which is the pending one.
LEMMA DecidedAction ==
  ASSUME IInv, ActsOK, NEW s \in Steps, ReviewOK(s), Decided(s),
         NEW c \in Calls, Drives(c), row.step = s
  PROVE  /\ row.status \in {"running", "waiting_approval"}
         /\ row.pending = approvals[s].action /\ row.pending \in Gated
         /\ pc[c] \in OnAction \ {"policy"} => act[c] = row.pending
         /\ pc[c] = "chosen" => act[c] \notin {"finish", "fail"}
         /\ pc[c] = "checkpoint" => approvals[s].decision \in Allowing
  <1>1. /\ row.status \in {"running", "waiting_approval"}
        /\ row.pending = approvals[s].action /\ row.pending \in Gated
        /\ row.pending \in ToolActions /\ row.pending # NoAction
    BY StoreAssumption, ExecutionAssumption DEF ReviewOK, Terminal, Drives
  <1>2. pc[c] \in OnAction \ {"policy"} => act[c] = row.pending
    BY <1>1 DEF ActsOK, ActOK, Drives
  <1>3. pc[c] = "chosen" => act[c] \notin {"finish", "fail"}
    BY <1>1, <1>2, ExecutionAssumption DEF OnAction
  <1>4. pc[c] = "checkpoint" => approvals[s].decision \in Allowing
    <2>1. pc[c] = "checkpoint" => act[c] = row.pending
      BY <1>2 DEF OnAction
    <2>2. pc[c] = "checkpoint" => Allowed(s, act[c])
      BY <1>1, <2>1 DEF ActsOK, ActOK, Drives
    <2> QED
      BY <2>2 DEF Allowed
  <1> QED
    BY <1>1, <1>2, <1>3, <1>4

\* A move of the run leaves a review true: at a decided step it performs the
\* decided action only, and only when allowed.
LEMMA ReviewMove ==
  ASSUME IInv, ActsOK, NEW s \in Steps, ReviewOK(s), approvals' = approvals,
         NEW c \in Calls, Drives(c), RowMove(c)
  PROVE  ReviewOK(s)'
  <1> SUFFICES ASSUME Decided(s) PROVE ReviewOK(s)'
    BY DEF ReviewOK, Decided
  <1>0. row.step \in Nat /\ s \in Nat /\ row'.step \in {row.step, row.step + 1}
    BY StoreAssumption
       DEF IInv, TypeOK, StoreTypeOK, RunRow, Steps, RowMove, Same
  <1>1. CASE row.step # s
    BY <1>0, <1>1 DEF ReviewOK
  <1>2. CASE row.step = s
    <2>1. /\ row.status \in {"running", "waiting_approval"}
          /\ row.pending = approvals[s].action /\ row.pending # NoAction
          /\ pc[c] \in OnAction \ {"policy"} => act[c] = row.pending
          /\ pc[c] = "chosen" => act[c] \notin {"finish", "fail"}
          /\ pc[c] = "checkpoint" => approvals[s].decision \in Allowing
      BY <1>2, DecidedAction, StoreAssumption, ExecutionAssumption
    <2>2. CASE /\ row'.step = row.step
               /\ \/ row'.status = "failed"
                  \/ /\ row'.status \in {"running", "waiting_approval"}
                     /\ row'.pending = row.pending
      BY <1>0, <1>2, <2>1, <2>2 DEF ReviewOK
    <2>3. CASE pc[c] = "checkpoint" /\ row'.step = row.step + 1
      BY <1>0, <1>2, <2>1, <2>3 DEF ReviewOK
    <2>4. pc[c] = "pausing" => act[c] = row.pending
      BY <2>1 DEF OnAction
    <2> QED
      BY <2>1, <2>2, <2>3, <2>4 DEF RowMove, Same
  <1> QED
    BY <1>1, <1>2

\* Reviews stay true: of the decision just recorded, and of the others while
\* the run moves.
LEMMA ReviewStep ==
  ASSUME IInv, ActsOK, RowInv, ReviewInv, [Next]_vars
  PROVE  ReviewInv'
  <1>1. CASE approvals' = approvals
    <2> SUFFICES ASSUME NEW s \in Steps PROVE ReviewOK(s)'
      BY DEF ReviewInv
    <2>0. ReviewOK(s) /\ (Decided(s)' <=> Decided(s))
      BY <1>1 DEF ReviewInv, Decided
    <2>1. CASE row' = row
      BY <1>1, <2>0, <2>1 DEF ReviewOK
    <2>2. CASE row = NewRun /\ row' = [NewRun EXCEPT !.version = 1]
      <3>1. /\ row.status = "queued" /\ row.step = 0 /\ row'.step = 0
            /\ row'.status = "queued"
        BY <2>2 DEF NewRun
      <3> QED
        BY <1>1, <2>0, <3>1 DEF ReviewOK
    <2>3. ASSUME NEW c \in Calls, Drives(c), RowMove(c)
          PROVE  ReviewOK(s)'
      BY <1>1, <2>0, <2>3, ReviewMove
    <2> QED
      BY <2>1, <2>2, <2>3, RowMoves
  <1>2. ASSUME NEW s \in Steps, NEW a \in ToolActions, NEW d \in Decisions,
               row' = row, IsPendingAction(s, a),
               approvals' =
                 [approvals EXCEPT ![s] = [action |-> a, decision |-> d]]
        PROVE  ReviewInv'
    <2>1. approvals \in [Steps -> Approval]
      BY DEF IInv, TypeOK, StoreTypeOK
    <2>2. \A t \in Steps \ {s} : approvals'[t] = approvals[t]
      BY <1>2, <2>1
    <2>3. approvals'[s].action = a
      BY <1>2, <2>1
    <2>4. a \in Gated /\ row.step = s /\ row.pending = a
            /\ row.status = "waiting_approval"
      BY <1>2 DEF IsPendingAction, RowInv
    <2>5. ReviewOK(s)'
      <3>1. row'.step = s /\ s \in Nat
        BY <1>2, <2>4, StoreAssumption DEF Steps
      <3> QED
        BY <1>2, <2>3, <2>4, <3>1 DEF ReviewOK
    <2>6. \A t \in Steps \ {s} : ReviewOK(t)'
      BY <1>2, <2>2 DEF ReviewInv, ReviewOK, Decided
    <2> QED
      BY <2>5, <2>6 DEF ReviewInv
  <1> QED
    BY <1>1, <1>2, DecisionIsPending

\* A result keeps its claim, and a checkpoint adds one that has it.
LEMMA CheckpointStep ==
  ASSUME IInv, ClaimsInv, ActsOK, RowInv, CheckpointsAreClaimed, [Next]_vars
  PROVE  CheckpointsAreClaimed'
  <1> DEFINE Kept(k, a, b) ==
        /\ <<k, b>> \in invoked
        /\ a \in Keyed => claims[k].state = "completed" /\ claims[k].owner = b
             Still(k, a, b) ==
        /\ <<k, b>> \in invoked'
        /\ a \in Keyed => claims'[k].state = "completed" /\ claims'[k].owner = b
  <1>1. ASSUME NEW k, NEW a, NEW b, Kept(k, a, b) PROVE Still(k, a, b)
    <2>1. k \in Keys
      BY <1>1 DEF IInv, TypeOK
    <2> QED
      BY <1>1, <2>1, ClaimsStep
  <1>2. \A i \in DOMAIN row.toolResults :
          Kept(<<i - 1, row.toolResults[i].action>>,
               row.toolResults[i].action, row.toolResults[i].by)
    BY DEF CheckpointsAreClaimed
  <1>3. CASE row'.toolResults = row.toolResults
    <2>1. \A i \in DOMAIN row'.toolResults :
            Still(<<i - 1, row'.toolResults[i].action>>,
                  row'.toolResults[i].action, row'.toolResults[i].by)
      BY <1>1, <1>2, <1>3
    <2> QED
      BY <2>1 DEF CheckpointsAreClaimed
  <1>4. CASE row = NewRun /\ row' = [NewRun EXCEPT !.version = 1]
    BY <1>3, <1>4 DEF NewRun
  <1>5. ASSUME NEW c \in Calls, Drives(c), pc[c] = "checkpoint",
               row'.toolResults =
                 Append(row.toolResults, [action |-> act[c], by |-> output[c]])
        PROVE  CheckpointsAreClaimed'
    <2> DEFINE r == [action |-> act[c], by |-> output[c]]
               n == Len(row.toolResults)
    <2>0. r.action = act[c] /\ r.by = output[c]
      OBVIOUS
    <2>1. row.toolResults \in Seq(ToolResult) /\ n = row.step
      BY <1>5 DEF IInv, TypeOK, StoreTypeOK, RunRow, RowInv, Drives
    <2>2. row'.toolResults = Append(row.toolResults, r)
      BY <1>5
    <2>3. Kept(Key(c), act[c], output[c])
      BY <1>5 DEF ActsOK, ActOK, Answered
    <2>4. Key(c) = <<n, act[c]>>
      BY <1>5, <2>1 DEF Key, Drives
    <2> HIDE DEF r
    <2>5. /\ n \in Nat /\ DOMAIN row'.toolResults = 1..(n + 1)
          /\ DOMAIN row.toolResults = 1..n
          /\ \A i \in 1..n : row'.toolResults[i] = row.toolResults[i]
          /\ row'.toolResults[n + 1] = r
      BY <2>1, <2>2
    <2> HIDE DEF n, Kept, Still
    <2>6. ASSUME NEW i \in DOMAIN row'.toolResults
          PROVE  Still(<<i - 1, row'.toolResults[i].action>>,
                       row'.toolResults[i].action, row'.toolResults[i].by)
      <3>1. CASE i \in 1..n
        <4>1. /\ row'.toolResults[i] = row.toolResults[i]
              /\ i \in DOMAIN row.toolResults
          BY <2>5, <3>1
        <4>2. Kept(<<i - 1, row.toolResults[i].action>>,
                   row.toolResults[i].action, row.toolResults[i].by)
          BY <1>2, <4>1
        <4> QED
          BY <1>1, <4>1, <4>2
      <3>2. CASE i = n + 1
        <4>1. i - 1 = n /\ row'.toolResults[i] = r
          BY <2>5, <3>2
        <4>2. Kept(<<i - 1, r.action>>, r.action, r.by)
          BY <2>0, <2>3, <2>4, <4>1
        <4> QED
          BY <1>1, <4>1, <4>2
      <3> QED
        BY <2>5, <3>1, <3>2
    <2> QED
      BY <2>6 DEF CheckpointsAreClaimed, Still
  <1>6. ASSUME NEW c \in Calls, Drives(c), RowMove(c)
        PROVE  CheckpointsAreClaimed'
    BY <1>3, <1>5, <1>6 DEF RowMove, Same
  <1> QED
    BY <1>3, <1>4, <1>6, RowMoves

-----------------------------------------------------------------------------
(* The inductive invariant *)

\* Nothing has happened yet.
LEMMA SafetyInit == Init => SInv
  <1> SUFFICES ASSUME Init PROVE SInv
    OBVIOUS
  <1> USE DEF Init, StoreInit, Tool!ClaimsInit
  <1>1. ClaimsInv
    BY DEF ClaimsInv, ClaimOK, Tool!Absent
  <1>2. ActsOK
    BY DEF ActsOK, ActOK, OnAction
  <1>3. RowInv
    <2>1. row.status = "queued" /\ row.step = 0 /\ row.toolResults = <<>>
      BY DEF NewRun
    <2> QED
      BY <2>1 DEF RowInv
  <1>4. ReviewInv
    BY DEF ReviewInv, ReviewOK, Decided
  <1>5. CheckpointsAreClaimed
    BY DEF CheckpointsAreClaimed, NewRun
  <1> QED
    BY <1>1, <1>2, <1>3, <1>4, <1>5 DEF SInv

LEMMA SafetyStep == IInv /\ SInv /\ [Next]_vars => SInv'
  BY ClaimsStep, ActsStep, RowStep, ReviewStep, CheckpointStep DEF SInv

LEMMA SafetyInvariance == Spec => [](IInv /\ SInv)
  <1>1. Init => IInv /\ SInv
    BY InvInit, SafetyInit
  <1>2. (IInv /\ SInv) /\ [Next]_vars => (IInv /\ SInv)'
    BY InvStep, SafetyStep
  <1> QED
    BY <1>1, <1>2, PTL DEF Spec

-----------------------------------------------------------------------------
(* Theorems *)

\* A denial stops the run where it stands (service.approve, orchestrator
\* _deny and execute): the run never leaves the denied step, cannot succeed,
\* and no call enters the handler of the denied action.
THEOREM Denial == Spec => []DenialIsObeyed
  <1>1. IInv /\ SInv => DenialIsObeyed
    <2> SUFFICES ASSUME IInv, SInv, NEW s \in Steps, Decided(s),
                        approvals[s].decision \notin Allowing
                 PROVE  /\ row.step = s
                        /\ row.status # "succeeded"
                        /\ \A c \in Calls :
                             <<<<s, approvals[s].action>>, c>> \notin invoked
      BY DEF DenialIsObeyed
    <2>1. ReviewOK(s)
      BY DEF SInv, ReviewInv
    <2>2. \A c \in Calls : <<<<s, approvals[s].action>>, c>> \notin invoked
      <3> SUFFICES ASSUME NEW c \in Calls,
                          <<<<s, approvals[s].action>>, c>> \in invoked
                   PROVE  FALSE
        OBVIOUS
      <3> DEFINE k == <<s, approvals[s].action>>
      <3>1. k[1] = s /\ k[2] = approvals[s].action
        OBVIOUS
      <3>2. k \in Keys
        BY DEF IInv, TypeOK
      <3> HIDE DEF k
      <3>3. Allowed(k[1], k[2])
        BY <2>1, <3>1, <3>2 DEF IInv, GatedCallsAreAllowed, ReviewOK, k
      <3> QED
        BY <3>1, <3>3 DEF Allowed
    <2> QED
      BY <2>1, <2>2 DEF ReviewOK
  <1> QED
    BY <1>1, SafetyInvariance, PTL

\* The result a run carries for a keyed step is the one the claim table
\* completed that key with (gateway.call, save_run_owned).
THEOREM Checkpoints == Spec => []CheckpointsAreClaimed
  BY SafetyInvariance, PTL DEF SInv

\* The action a reviewer was shown is performed, or the run fails: no policy
\* call replaces it (orchestrator.execute).
THEOREM Reviewed == Spec => ReviewedActionIsKept
  <1>1. ASSUME IInv, SInv, [Next]_vars, row.pending # NoAction,
               row'.pending # row.pending
        PROVE  /\ row'.pending = NoAction
               /\ \/ row'.status = "failed"
                  \/ /\ row'.step = row.step + 1
                     /\ row'.toolResults[row.step + 1].action = row.pending
    <2>0. row \in RunRow
      BY <1>1 DEF IInv, TypeOK, StoreTypeOK
    <2>1. PICK c \in Calls : /\ snap[c] = row /\ row.status \notin Terminal
                             /\ RowMove(c)
      BY <1>1, RowMoves DEF NewRun, Drives
    <2>2. pc[c] \in OnAction \ {"policy"} => act[c] = row.pending
      BY <1>1, <2>1 DEF SInv, ActsOK, ActOK
    <2>3. pc[c] = "chosen" => act[c] # "finish"
      BY <1>1, <2>0, <2>2, ExecutionAssumption DEF OnAction, RunRow
    <2>4. CASE row'.status = "failed" /\ row'.pending = NoAction
      BY <2>4
    <2>5. CASE /\ pc[c] = "checkpoint" /\ row'.pending = NoAction
               /\ row'.step = row.step + 1
               /\ row'.toolResults =
                    Append(row.toolResults,
                           [action |-> act[c], by |-> output[c]])
      <3>1. act[c] = row.pending
        BY <2>2, <2>5 DEF OnAction
      <3>2. Len(row.toolResults) = row.step
              /\ row.toolResults \in Seq(ToolResult)
        BY <1>1, <2>0, <2>1 DEF SInv, RowInv, RunRow
      <3> DEFINE r == [action |-> act[c], by |-> output[c]]
      <3>3. r.action = act[c]
        OBVIOUS
      <3> HIDE DEF r
      <3>4. Append(row.toolResults, r)[Len(row.toolResults) + 1] = r
        BY <3>2
      <3> QED
        BY <2>5, <3>1, <3>2, <3>3, <3>4 DEF r
    <2>6. pc[c] = "pausing" => act[c] = row.pending
      BY <2>2 DEF OnAction
    <2> QED
      BY <1>1, <2>1, <2>3, <2>4, <2>5, <2>6 DEF RowMove, Same
  <1>2. IInv /\ SInv /\ [Next]_vars =>
          [row.pending # NoAction /\ row'.pending # row.pending =>
             /\ row'.pending = NoAction
             /\ \/ row'.status = "failed"
                \/ /\ row'.step = row.step + 1
                   /\ row'.toolResults[row.step + 1].action = row.pending]_vars
    BY <1>1
  <1> QED
    BY <1>2, SafetyInvariance, PTL DEF Spec, ReviewedActionIsKept

\* A write whose outcome is unknown keeps its key, and no handler is entered
\* for it again (claim_tool_execution).
THEOREM Indeterminate == Spec => IndeterminateWritesAreLeft
  <1>1. ASSUME IInv, SInv, [Next]_vars, NEW k \in Keys,
               claims[k].disposition = "indeterminate"
        PROVE  /\ claims'[k] = claims[k]
               /\ \A c \in Calls : <<k, c>> \in invoked' => <<k, c>> \in invoked
    <2>1. claims'[k] = claims[k]
      BY <1>1, ClaimsStep DEF SInv
    <2>2. claims[k].state = "failed" /\ k[2] \in Keyed
      BY <1>1 DEF SInv, ClaimsInv, ClaimOK
    <2>3. ~Tool!Abandoned(k) /\ ~Tool!Retryable(k)
      BY <1>1, <2>2 DEF Tool!Abandoned, Tool!Retryable
    <2> QED
      BY <1>1, <2>1, <2>2, <2>3, ClaimMoves
  <1>2. IInv /\ SInv /\ [Next]_vars =>
          [\A k \in Keys : claims[k].disposition = "indeterminate" =>
             /\ claims'[k] = claims[k]
             /\ \A c \in Calls :
                  <<k, c>> \in invoked' => <<k, c>> \in invoked]_vars
    BY <1>1
  <1> QED
    BY <1>2, SafetyInvariance, PTL DEF Spec, IndeterminateWritesAreLeft

=============================================================================
