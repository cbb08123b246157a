----------------------------- MODULE ToolClaims -----------------------------
(***************************************************************************)
(* The tool_results table of storage/store.py: who may run the handler of  *)
(* an idempotency key, and which result the key ends with.  Each operator  *)
(* is one SQLite transaction.  As in RunStore, a claim's lease is a flag   *)
(* that time clears.  A completed claim keeps its owner, and that owner    *)
(* stands for the stored payload.                                          *)
(*                                                                         *)
(* An operator introduced by "Mutation:" is used by no action; it is the   *)
(* definition that follows it with a mistake in it.                        *)
(***************************************************************************)
EXTENDS Integers

CONSTANTS
  Callers,   \* owner tokens of gateway calls
  NoCaller,  \* the owner of an absent claim
  Keys,      \* idempotency keys of one run
  Requests,  \* request fingerprints: tool name and validated input
  NoRequest  \* the fingerprint of an absent claim

VARIABLE claims

Dispositions == {"none", "retryable", "terminal", "indeterminate"}

Absent ==
  [state |-> "absent", owner |-> NoCaller, live |-> FALSE,
   request |-> NoRequest, disposition |-> "none"]

ToolClaim ==
  {Absent} \cup
  [state : {"claimed", "completed", "failed"}, owner : Callers,
   live : BOOLEAN, request : Requests, disposition : Dispositions]

Held(c, q) ==
  [state |-> "claimed", owner |-> c, live |-> TRUE,
   request |-> q, disposition |-> "none"]

ClaimsTypeOK == claims \in [Keys -> ToolClaim]

ClaimsInit == claims = [k \in Keys |-> Absent]

\* The stored claim was taken for other input: the call answers CONFLICT.
Conflicts(k, q) == claims[k].state # "absent" /\ claims[k].request # q

\* Claimed, and its lease ran out.
Abandoned(k) == claims[k].state = "claimed" /\ ~claims[k].live

\* Mutation: the disposition of the failure is not checked.
FailedClaim(k) == claims[k].state = "failed"

Retryable(k) ==
  claims[k].state = "failed" /\ claims[k].disposition = "retryable"

\* The three ways a call acquires the key: first insert, an expired claim it
\* may reclaim, a failed claim marked safe to retry.
Acquirable(k, q, allowReclaim) ==
  \/ claims[k].state = "absent"
  \/ /\ ~Conflicts(k, q)
     /\ allowReclaim
     /\ Abandoned(k) \/ Retryable(k)

ClaimToolExecution(k, c, q, allowReclaim) ==
  claims' =
    CASE Acquirable(k, q, allowReclaim) ->
           [claims EXCEPT ![k] = Held(c, q)]
      [] Abandoned(k) /\ ~Conflicts(k, q) /\ ~allowReclaim ->
           [claims EXCEPT ![k].state = "failed",
                          ![k].disposition = "indeterminate"]
      [] OTHER -> claims

\* Neither update below looks at the expiry of the claim: an expired claim
\* nobody has taken over is still its owner's.
Owns(k, c) == claims[k].state = "claimed" /\ claims[k].owner = c

\* Mutation: the result is not stored.
DropToolResult(k, c) == claims' = claims

CompleteToolResult(k, c) ==
  claims' = IF Owns(k, c) THEN [claims EXCEPT ![k].state = "completed"]
                          ELSE claims

FailToolExecution(k, c, disposition) ==
  claims' = IF Owns(k, c)
              THEN [claims EXCEPT ![k].state = "failed",
                                  ![k].disposition = disposition]
              ELSE claims

ClaimExpires(k) ==
  /\ claims[k].state = "claimed"
  /\ claims[k].live
  /\ claims' = [claims EXCEPT ![k].live = FALSE]

=============================================================================
