------------------------------ MODULE RunStore ------------------------------
(***************************************************************************)
(* The durable tables of one run, as storage/store.py keeps them: the run  *)
(* row, its execution lease, the approval decisions and the audit entries  *)
(* that are written in the same transaction as the state they describe.    *)
(* Every operator below is one SQLite transaction, hence one atomic step.  *)
(*                                                                         *)
(* A lease carries a flag instead of a clock: live becomes FALSE when its  *)
(* expiry time has passed, which may happen between any two steps.  The    *)
(* fingerprint of an action is the action itself, so the column            *)
(* pending_action_fingerprint is the field pending.                        *)
(*                                                                         *)
(* An operator introduced by "Mutation:" is used by no action; it is the   *)
(* definition that follows it with a mistake in it.                        *)
(***************************************************************************)
EXTENDS Integers, Sequences

CONSTANTS
  Calls,          \* owner tokens: each service call draws a fresh uuid4
  NoCall,         \* the owner column of an absent lease
  ToolActions,    \* the tool calls a policy may propose
  NoAction,       \* pending_action = None
  Decisions,      \* (actor, allow, reason) triples of reviewers
  Allowing,       \* the decisions with allow = True
  NoDecision,     \* an approval row that does not exist
  MaxActionSteps  \* RunService's max_action_steps

ASSUME StoreAssumption ==
  /\ NoCall \notin Calls
  /\ NoAction \notin ToolActions
  /\ Allowing \subseteq Decisions
  /\ NoDecision \notin Decisions
  /\ MaxActionSteps \in Nat \ {0}

VARIABLES row, lease, approvals, trail

storeVars == <<row, lease, approvals, trail>>

Steps == 0..MaxActionSteps

Terminal == {"succeeded", "failed"}

Status == {"queued", "running", "waiting_approval"} \cup Terminal

Results ==
  {"none", "finished", "policy_failed", "policy_error",
   "action_budget_exhausted", "tool_preflight_failed", "approval_required",
   "approval_mismatch", "approval_denied", "idempotency_in_progress",
   "idempotency_indeterminate", "idempotency_terminal_failure",
   "tool_execution_failed", "result_serialization_failed",
   "invalid_cached_output"}

\* One accepted tool result: context.tool_results[step], tagged with the call
\* whose handler produced it.
ToolResult == [action : ToolActions, by : Calls]

RunRow ==
  [version : Nat, status : Status, step : Nat, policyCalls : Nat,
   pendingApproval : BOOLEAN, pending : ToolActions \cup {NoAction},
   toolResults : Seq(ToolResult), result : Results]

\* Run.new, before save_run inserts it: version 0 is the absent row.
NewRun ==
  [version |-> 0, status |-> "queued", step |-> 0, policyCalls |-> 0,
   pendingApproval |-> FALSE, pending |-> NoAction,
   toolResults |-> <<>>, result |-> "none"]

NoLease == [owner |-> NoCall, live |-> FALSE]

Lease == {NoLease} \cup [owner : Calls, live : BOOLEAN]

NoApproval == [action |-> NoAction, decision |-> NoDecision]

Approval == {NoApproval} \cup [action : ToolActions, decision : Decisions]

EntryTypes ==
  {"run.running", "run.waiting_approval", "run.checkpointed",
   "run.succeeded", "run.failed", "approval.recorded", "approval.denied"}

Entry(type, step) == [type |-> type, step |-> step]

StoreTypeOK ==
  /\ row \in RunRow
  /\ lease \in Lease
  /\ approvals \in [Steps -> Approval]
  /\ trail \in Seq([type : EntryTypes, step : Nat])

StoreInit ==
  /\ row = NewRun
  /\ lease = NoLease
  /\ approvals = [s \in Steps |-> NoApproval]
  /\ trail = <<>>

-----------------------------------------------------------------------------
(* Runs *)

Exists == row.version # 0

InsertRun ==
  /\ ~Exists
  /\ row' = [NewRun EXCEPT !.version = 1]
  /\ UNCHANGED <<lease, approvals, trail>>

\* The caller holds the lease row and it has not expired.
OwnsLease(c) == lease.owner = c /\ lease.live

\* The WHERE clause of save_run_owned: the version the caller read, and a
\* valid lease of the caller.
Saveable(c, expected) == row.version = expected /\ OwnsLease(c)

SaveRunOwned(c, expected, changed, entries) ==
  /\ Saveable(c, expected)
  /\ row' = [changed EXCEPT !.version = expected + 1]
  /\ trail' = trail \o entries
  /\ UNCHANGED <<lease, approvals>>

\* What a refused save raises: RunExecutionConflictError when ownership is
\* lost, ConcurrentUpdateError when only the version is stale.
SaveError(c) == IF OwnsLease(c) THEN "stale_version" ELSE "ownership_lost"

-----------------------------------------------------------------------------
(* Execution leases *)

Claimable(c) == lease.owner \in {NoCall, c} \/ ~lease.live

ClaimRunExecution(c) ==
  /\ Claimable(c)
  /\ lease' = [owner |-> c, live |-> TRUE]
  /\ UNCHANGED <<row, approvals, trail>>

\* Mutation: whoever renews becomes the owner.
RenewForAnyone(c) ==
  /\ lease' = [owner |-> c, live |-> TRUE]
  /\ UNCHANGED <<row, approvals, trail>>

\* The update has no expiry condition: it revives an expired lease that no
\* other call has claimed.
RenewRunExecution(c) ==
  /\ lease.owner = c
  /\ lease' = [lease EXCEPT !.live = TRUE]
  /\ UNCHANGED <<row, approvals, trail>>

\* Mutation: the owner is cleared, the expiry time stays.
ReleaseOwnerOnly(c) ==
  /\ lease' = IF lease.owner = c THEN [lease EXCEPT !.owner = NoCall] ELSE lease
  /\ UNCHANGED <<row, approvals, trail>>

\* Deletes the lease row only if it still names the caller.
ReleaseRunExecution(c) ==
  /\ lease' = IF lease.owner = c THEN NoLease ELSE lease
  /\ UNCHANGED <<row, approvals, trail>>

\* Time passes the expiry of the current lease.
LeaseExpires ==
  /\ lease.live
  /\ lease' = [lease EXCEPT !.live = FALSE]
  /\ UNCHANGED <<row, approvals, trail>>

-----------------------------------------------------------------------------
(* Approvals *)

\* Mutation: the run need not be waiting.
IsNextAction(s, a) == row.step = s /\ row.pending = a

\* The SELECT that record_pending_approval inserts from.
IsPendingAction(s, a) ==
  /\ row.status = "waiting_approval"
  /\ row.pendingApproval
  /\ row.step = s
  /\ row.pending = a

\* Mutation: a later decision replaces the stored one.
InsertsOrReplaces(s, a) == IsPendingAction(s, a)

Inserts(s, a) == IsPendingAction(s, a) /\ approvals[s] = NoApproval

\* The decision is durable after the transaction: inserted by it, or equal to
\* the one already stored.
DecisionAccepted(s, a, d) ==
  \/ Inserts(s, a)
  \/ approvals[s] = [action |-> a, decision |-> d]

RecordPendingApproval(s, a, d) ==
  /\ IF Inserts(s, a)
       THEN /\ approvals' =
                 [approvals EXCEPT ![s] = [action |-> a, decision |-> d]]
            /\ trail' = Append(trail, Entry("approval.recorded", s))
       ELSE UNCHANGED <<approvals, trail>>
  /\ UNCHANGED <<row, lease>>

\* The stored decision at s allows action a.
Allowed(s, a) == approvals[s].action = a /\ approvals[s].decision \in Allowing

Decided(s) == approvals[s] # NoApproval

=============================================================================
