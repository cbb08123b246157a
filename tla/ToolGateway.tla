----------------------------- MODULE ToolGateway -----------------------------
(***************************************************************************)
(* ToolGateway.call (tools/gateway.py) opened up: concurrent calls of one  *)
(* run's tools that may share an idempotency key, the attempts inside each *)
(* call, the fault plan of the scenario (tools/faults.py), backoff,        *)
(* timeouts, cancellation, and the outcome written to the claim table of   *)
(* ToolClaims.  RunExecution makes one step of all this and adds the run   *)
(* around it; the approval check of a call is modelled there.              *)
(*                                                                         *)
(* Handlers are code outside the gateway.  The ones that write must be     *)
(* declared idempotent (tools/contracts.py), which they are by the token   *)
(* they are given: IncidentBackend.prepare_rollback does its work once per *)
(* token, whatever the input.  The backend here outlives a crashed call.   *)
(*                                                                         *)
(* An operator introduced by "Mutation:" is used by no action; it is the   *)
(* definition that follows it with a mistake in it.                        *)
(***************************************************************************)
EXTENDS ToolClaims, Sequences, FiniteSets

CONSTANTS
  NoKey,       \* a call without idempotency key
  Writes,      \* the requests whose tool is a write
  Malformed,   \* requests that fail validation: unknown tool, invalid input
  MaxAttempts, \* ToolDefinition.max_attempts
  Plans        \* fault plans: sequences of rules

ASSUME GatewayAssumption ==
  /\ NoKey \notin Keys
  /\ NoCaller \notin Callers
  /\ NoRequest \notin Requests
  /\ Writes \subseteq Requests
  /\ Malformed \subseteq Requests
  /\ MaxAttempts \in Nat \ {0}

VARIABLES
  pc,      \* where each call is
  want,    \* the key and the request of each call
  attempt, \* the attempt each call is in, 0 before the first
  last,    \* the outcome of its last attempt
  answer,  \* the ToolCallResult it returns
  log,     \* history: the attempt events of each call
  effects, \* what the write handlers did, by token
  mode,    \* run.mode
  plan     \* the scenario's fault plan

callVars == <<pc, want, attempt, last, answer, log>>

runVars == <<mode, plan>>

vars == <<claims, callVars, effects, runVars>>

FaultKinds ==
  {"timeout", "transient_failure", "rate_limit", "tool_error",
   "malformed_output"}

Outcomes == {"none", "ok", "transient", "permanent"}

Codes ==
  {"none", "preflight_failed", "idempotency_conflict", "invalid_cached_output",
   "idempotency_in_progress", "idempotency_indeterminate",
   "idempotency_terminal_failure", "result_serialization_failed",
   "tool_execution_failed"}

Want == [key : Keys \cup {NoKey}, request : Requests \cup {NoRequest}]

NoWant == [key |-> NoKey, request |-> NoRequest]

\* by names the call whose handler produced the output.
Answer ==
  [status : {"none", "succeeded", "failed"}, code : Codes, attempts : Nat,
   cached : BOOLEAN, by : Callers \cup {NoCaller}]

NoAnswer ==
  [status |-> "none", code |-> "none", attempts |-> 0, cached |-> FALSE,
   by |-> NoCaller]

Event ==
  [type : {"started", "fault", "invalid", "succeeded", "failed", "cancelled",
           "retry_cancelled"},
   attempt : Nat, transient : BOOLEAN, retry : BOOLEAN]

Ended == {"done", "raised", "crashed"}

Places ==
  {"idle", "claim", "attempt", "handler", "applied", "backoff", "persist",
   "reply"} \cup Ended

TypeOK ==
  /\ ClaimsTypeOK
  /\ pc \in [Callers -> Places]
  /\ want \in [Callers -> Want]
  /\ attempt \in [Callers -> 0..MaxAttempts]
  /\ last \in [Callers -> Outcomes]
  /\ answer \in [Callers -> Answer]
  /\ log \in [Callers -> Seq(Event)]
  /\ effects \subseteq
       [token : Keys, key : Keys, request : Requests]
  /\ mode \in {"fragile", "resilient"}
  /\ plan \in Plans

Init ==
  /\ ClaimsInit
  /\ pc = [c \in Callers |-> "idle"]
  /\ want = [c \in Callers |-> NoWant]
  /\ attempt = [c \in Callers |-> 0]
  /\ last = [c \in Callers |-> "none"]
  /\ answer = [c \in Callers |-> NoAnswer]
  /\ log = [c \in Callers |-> <<>>]
  /\ effects = {}
  /\ mode \in {"fragile", "resilient"}
  /\ plan \in Plans

-----------------------------------------------------------------------------
(* Helpers *)

Goto(c, l) == pc' = [pc EXCEPT ![c] = l]

Key(c) == want[c].key

IsKeyed(c) == Key(c) # NoKey

IsWrite(c) == want[c].request \in Writes

\* range(1, max_attempts + 1) of _attempts.
AttemptLimit == IF mode = "fragile" THEN 1 ELSE MaxAttempts

\* FaultPlan.fault_for: the first rule for this tool and attempt.
FaultFor(q, n) ==
  LET matching == {i \in DOMAIN plan : plan[i].request = q /\ plan[i].attempt = n}
  IN  IF matching = {}
        THEN "none"
        ELSE plan[CHOOSE i \in matching : \A j \in matching : i <= j].kind

Happened(c, type) ==
  [type |-> type, attempt |-> attempt'[c], transient |-> FALSE, retry |-> FALSE]

\* Mutation: the token is the caller's own.
CallerToken(c) == c

\* context.idempotency_token: the same for every attempt of every call that
\* carries the key.
Token(c) == Key(c)

Failing(code, attempts) ==
  [NoAnswer EXCEPT !.status = "failed", !.code = code, !.attempts = attempts]

Finishing(c, a) ==
  /\ answer' = [answer EXCEPT ![c] = a]
  /\ Goto(c, "reply")

\* Mutation: a permanent failure is retried like a transient one.
RetriesAnything(c, transient) == attempt'[c] < AttemptLimit

Retries(c, transient) == transient /\ attempt'[c] < AttemptLimit

\* The end of a failed attempt: events, then a retry or the end of _attempts.
AttemptFails(c, events, transient) ==
  LET failure ==
        [type |-> "failed", attempt |-> attempt'[c], transient |-> transient,
         retry |-> Retries(c, transient)]
  IN  /\ log' = [log EXCEPT ![c] = @ \o events \o <<failure>>]
      /\ last' = [last EXCEPT ![c] = IF transient THEN "transient"
                                                  ELSE "permanent"]
      /\ Goto(c, IF Retries(c, transient) THEN "backoff" ELSE "persist")

-----------------------------------------------------------------------------
(* One call *)

\* stabilize_action gives every write a key; a read may have none.
Call(c, k, q) ==
  /\ pc[c] = "idle"
  /\ q \in Writes => k # NoKey
  /\ want' = [want EXCEPT ![c] = [key |-> k, request |-> q]]
  /\ IF q \in Malformed
       THEN Finishing(c, Failing("preflight_failed", 0))
       ELSE /\ Goto(c, IF k = NoKey THEN "attempt" ELSE "claim")
            /\ UNCHANGED answer
  /\ UNCHANGED <<claims, attempt, last, log, effects, runVars>>

\* The answer to a call whose claim was not granted; a completed claim may
\* also turn out not to validate any more.
Refusals(c) ==
  LET held == claims[Key(c)]
  IN  CASE Conflicts(Key(c), want[c].request) ->
             {Failing("idempotency_conflict", 0)}
        [] held.state = "completed" /\ ~Conflicts(Key(c), want[c].request) ->
             {Failing("invalid_cached_output", 0),
              [NoAnswer EXCEPT !.status = "succeeded", !.cached = TRUE,
                               !.by = held.owner]}
        [] held.state = "failed" /\ ~Conflicts(Key(c), want[c].request) ->
             {Failing(IF held.disposition = "indeterminate"
                        THEN "idempotency_indeterminate"
                        ELSE "idempotency_terminal_failure", 0)}
        [] OTHER -> {Failing("idempotency_in_progress", 0)}

\* Mutation: a call waits until it is granted the claim.
ClaimOrWait(c) ==
  /\ pc[c] = "claim"
  /\ Acquirable(Key(c), want[c].request, TRUE)
  /\ ClaimToolExecution(Key(c), c, want[c].request, TRUE)
  /\ Goto(c, "attempt")
  /\ UNCHANGED <<want, attempt, last, answer, log, effects, runVars>>

\* A write is always idempotent, so the claim may always be reclaimed.
ClaimKey(c) ==
  /\ pc[c] = "claim"
  /\ ClaimToolExecution(Key(c), c, want[c].request, TRUE)
  /\ IF Acquirable(Key(c), want[c].request, TRUE)
       THEN Goto(c, "attempt") /\ UNCHANGED answer
       ELSE \E a \in Refusals(c) : Finishing(c, a)
  /\ UNCHANGED <<want, attempt, last, log, effects, runVars>>

\* The next round of the loop: an injected fault replaces the handler.
StartAttempt(c) ==
  /\ pc[c] = "attempt"
  /\ attempt' = [attempt EXCEPT ![c] = @ + 1]
  /\ LET fault == FaultFor(want[c].request, attempt[c] + 1)
         begun == <<Happened(c, "started")>>
     IN  \/ /\ fault = "none"
            /\ log' = [log EXCEPT ![c] = @ \o begun]
            /\ Goto(c, "handler")
            /\ UNCHANGED last
         \/ /\ fault = "malformed_output"
            /\ AttemptFails(c, begun \o <<Happened(c, "fault"),
                                          Happened(c, "invalid")>>, FALSE)
         \/ /\ fault \notin {"none", "malformed_output"}
            /\ AttemptFails(c, begun \o <<Happened(c, "fault")>>, TRUE)
  /\ UNCHANGED <<claims, want, answer, effects, runVars>>

\* A write handler does its work, unless the work of its token is done.
HandlerApplies(c) ==
  /\ pc[c] = "handler" /\ IsWrite(c)
  /\ Goto(c, "applied")
  /\ effects' =
       IF \E e \in effects : e.token = Token(c)
         THEN effects
         ELSE effects \cup {[token |-> Token(c), key |-> Key(c),
                             request |-> want[c].request]}
  /\ UNCHANGED <<claims, want, attempt, last, answer, log, runVars>>

\* The handler returns output that validates.
HandlerReturns(c) ==
  /\ pc[c] = IF IsWrite(c) THEN "applied" ELSE "handler"
  /\ last' = [last EXCEPT ![c] = "ok"]
  /\ Goto(c, "persist")
  /\ UNCHANGED attempt
  /\ log' = [log EXCEPT ![c] = Append(@, Happened(c, "succeeded"))]
  /\ UNCHANGED <<claims, want, answer, effects, runVars>>

\* It times out or raises, before or after its work is done, or returns what
\* does not validate.
HandlerFails(c, kind) ==
  /\ pc[c] \in {"handler", "applied"}
  /\ UNCHANGED attempt
  /\ AttemptFails(c, IF kind = "invalid" THEN <<Happened(c, "invalid")>>
                                         ELSE <<>>, kind = "transient")
  /\ UNCHANGED <<claims, want, answer, effects, runVars>>

\* The retry delay is over.
Backoff(c) ==
  /\ pc[c] = "backoff"
  /\ Goto(c, "attempt")
  /\ UNCHANGED <<claims, want, attempt, last, answer, log, effects, runVars>>

\* The disposition _persist_claim_result gives a failed call.
Disposition(c) ==
  CASE IsWrite(c) -> "indeterminate"
    [] ~IsWrite(c) /\ last[c] = "permanent" -> "terminal"
    [] OTHER -> "retryable"

\* Mutation: a completion that was refused is not noticed.
ReturnAnyway(c, storable) ==
  [NoAnswer EXCEPT !.status = "succeeded", !.attempts = attempt[c], !.by = c]

\* What the call returns after a handler succeeded: completing the claim
\* fails if it was taken over or the output cannot be stored.
AfterSuccess(c, storable) ==
  IF IsKeyed(c) => storable /\ Owns(Key(c), c)
    THEN [NoAnswer EXCEPT !.status = "succeeded", !.attempts = attempt[c],
                          !.by = c]
    ELSE Failing(IF IsWrite(c) THEN "idempotency_indeterminate"
                               ELSE "result_serialization_failed", attempt[c])

\* _persist_claim_result.  fail_tool_execution raises if the claim was taken
\* over, and the exception leaves the gateway.
Persist(c, storable) ==
  /\ pc[c] = "persist"
  /\ IF last[c] = "ok"
       THEN /\ Finishing(c, AfterSuccess(c, storable))
            /\ CASE IsKeyed(c) /\ storable -> CompleteToolResult(Key(c), c)
                 [] IsKeyed(c) /\ ~storable ->
                      FailToolExecution(Key(c), c, Disposition(c))
                 [] OTHER -> UNCHANGED claims
       ELSE /\ IF IsKeyed(c) THEN FailToolExecution(Key(c), c, Disposition(c))
                             ELSE UNCHANGED claims
            /\ IF IsKeyed(c) => Owns(Key(c), c)
                 THEN Finishing(c, Failing("tool_execution_failed", attempt[c]))
                 ELSE Goto(c, "raised") /\ UNCHANGED answer
  /\ UNCHANGED <<want, attempt, last, log, effects, runVars>>

\* The local variables of an ended call are gone, and its events, which no
\* step reads, are dropped from the history.
Forget(c) ==
  /\ attempt' = [attempt EXCEPT ![c] = 0]
  /\ last' = [last EXCEPT ![c] = "none"]
  /\ log' = [log EXCEPT ![c] = <<>>]

\* The result reaches the caller.
Return(c) ==
  /\ pc[c] = "reply"
  /\ Goto(c, "done")
  /\ Forget(c)
  /\ UNCHANGED <<claims, want, answer, effects, runVars>>

\* CancelledError in the handler or in the retry delay.
Cancel(c) ==
  /\ pc[c] \in {"handler", "applied", "backoff"}
  /\ UNCHANGED attempt
  /\ log' = [log EXCEPT ![c] =
       Append(@, Happened(c, IF pc[c] = "backoff" THEN "retry_cancelled"
                                                  ELSE "cancelled"))]
  /\ IF IsKeyed(c) THEN FailToolExecution(Key(c), c, "retryable")
                   ELSE UNCHANGED claims
  /\ Goto(c, "raised")
  /\ UNCHANGED <<want, last, answer, effects, runVars>>

Crash(c) ==
  /\ pc[c] \notin Ended \cup {"idle"}
  /\ Goto(c, "crashed")
  /\ Forget(c)
  /\ want' = [want EXCEPT ![c] = NoWant]
  /\ answer' = [answer EXCEPT ![c] = NoAnswer]
  /\ UNCHANGED <<claims, effects, runVars>>

Expire(k) ==
  /\ ClaimExpires(k)
  /\ UNCHANGED <<callVars, effects, runVars>>

-----------------------------------------------------------------------------
(* Specification *)

\* The steps a call takes of its own accord.
Advance(c) ==
  \/ ClaimKey(c) \/ StartAttempt(c) \/ HandlerApplies(c) \/ HandlerReturns(c)
  \/ \E kind \in {"transient", "permanent", "invalid"} : HandlerFails(c, kind)
  \/ \E storable \in BOOLEAN : Persist(c, storable)
  \/ Backoff(c) \/ Return(c)

Quiescent ==
  /\ \A c \in Callers : pc[c] \in Ended
  /\ UNCHANGED vars

Next ==
  \/ \E c \in Callers :
       \/ \E k \in Keys \cup {NoKey}, q \in Requests : Call(c, k, q)
       \/ Advance(c) \/ Cancel(c) \/ Crash(c)
  \/ \E k \in Keys : Expire(k)
  \/ Quiescent

Spec == Init /\ [][Next]_vars

\* A call keeps running until it ends, unless its process dies.
LiveSpec == Spec /\ \A c \in Callers : WF_vars(Advance(c))

-----------------------------------------------------------------------------
(* Safety *)

\* However often its attempts, its retries by other calls and its takeovers
\* repeat a write, the work of a key is done at most once, for the request
\* the key is bound to, and a call that is told of success can rely on it.
WritesHappenOnce ==
  /\ \A e, f \in effects : e.key = f.key => e = f
  /\ \A e \in effects : claims[e.key].request = e.request
  /\ \A c \in Callers :
       answer[c].status = "succeeded" /\ IsWrite(c) =>
         \E e \in effects : e.key = Key(c) /\ e.request = want[c].request

\* The events of a trace that begin an attempt, and those that end one, by
\* their places.
Starts(trace) == {i \in DOMAIN trace : trace[i].type = "started"}

Ends(trace) ==
  {i \in DOMAIN trace : trace[i].type \in {"succeeded", "failed", "cancelled"}}

\* The events at these places bear the numbers 1 to n, in order.
Counts(trace, places, n) ==
  /\ {trace[i].attempt : i \in places} = 1..n
  /\ \A i, j \in places : i < j => trace[i].attempt < trace[j].attempt

MayRetry(event) == event.type = "failed" /\ event.transient /\ event.retry

\* n attempts have begun and m have ended, each after it began; each but the
\* first began after its predecessor failed and announced it.
Tells(trace, n, m) ==
  /\ Counts(trace, Starts(trace), n)
  /\ Counts(trace, Ends(trace), m)
  /\ \A i \in Ends(trace) :
       \E j \in Starts(trace) : j < i /\ trace[j].attempt = trace[i].attempt
  /\ \A i \in Starts(trace) : trace[i].attempt > 1 =>
       \E j \in Ends(trace) :
         /\ j < i /\ trace[j].attempt + 1 = trace[i].attempt
         /\ MayRetry(trace[j])

\* The trace of a call explains its answer: attempts are numbered without
\* gap up to the limit of the mode, each one ends before the next begins, the
\* next begins only after a transient failure that announced it, an answer
\* counts the attempts the trace shows, and the last one decides it.
TraceTellsAnswer ==
  \A c \in Callers : \E n \in 0..AttemptLimit, m \in 0..AttemptLimit :
    /\ m \in {n - 1, n}
    /\ Tells(log[c], n, m)
    /\ pc[c] = "reply" /\ answer[c].attempts > 0 =>
         /\ answer[c].attempts = n /\ m = n
         /\ \A i \in Ends(log[c]) : log[c][i].attempt = n =>
              /\ ~log[c][i].retry
              /\ answer[c].status = "succeeded" => log[c][i].type = "succeeded"

-----------------------------------------------------------------------------
(* Liveness *)

\* Every call ends: retries do not go on for ever.
CallsEnd == \A c \in Callers : pc[c] # "idle" ~> pc[c] \in Ended

-----------------------------------------------------------------------------
(* Refinement *)

\* A failed claim that may be retried is as open as one not yet decided.
FateOf(k) ==
  CASE claims[k].state = "completed" -> "settled"
    [] claims[k].state = "failed" /\ claims[k].disposition # "retryable" ->
         "sealed"
    [] OTHER -> "open"

Replied == {c \in Callers : pc[c] = "done" /\ Key(c) # NoKey}

Promise ==
  INSTANCE IdempotentKey
    WITH Clients <- Callers, Ids <- Keys, Demands <- Requests,
         Unbound <- NoRequest, Failure <- NoCaller,
         bound <- [k \in Keys |-> claims[k].request],
         fate <- [k \in Keys |-> FateOf(k)],
         product <- [k \in Keys |-> IF claims[k].state = "completed"
                                      THEN {claims[k].owner} ELSE {}],
         replies <- {[client |-> c, id |-> Key(c), demand |-> want[c].request,
                      result |-> answer[c].by] : c \in Replied}

\* Attempts, claims and leases implement the promise of an idempotency key.
ImplementsIdempotentKey == Promise!Spec

=============================================================================
