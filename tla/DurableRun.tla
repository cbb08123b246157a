----------------------------- MODULE DurableRun -----------------------------
(***************************************************************************)
(* What a durable run promises to its clients, with no word of versions,   *)
(* leases, claims or processes.  A run performs tool calls one after       *)
(* another.  It may stop to ask for a decision about its next step; a      *)
(* decision, once given, is never changed, and from then on the run can    *)
(* only perform exactly the action that was allowed, or fail.  A run that  *)
(* succeeded or failed never changes again.                                *)
(***************************************************************************)
EXTENDS Integers, Sequences

CONSTANTS
  Actions,    \* tool calls
  Approvable, \* the ones that need a decision
  Verdicts,   \* decisions
  Yes,        \* the allowing ones
  Undecided,  \* no decision for a step
  AllSteps    \* steps a decision can be about

VARIABLES
  status,   \* "absent", "open", "waiting", "succeeded", "failed"
  history,  \* the actions performed, in order
  verdict   \* per step: the decided action and decision, or Undecided

absVars == <<status, history, verdict>>

Init ==
  /\ status = "absent"
  /\ history = <<>>
  /\ verdict = [s \in AllSteps |-> Undecided]

Cursor == Len(history)

Create ==
  /\ status = "absent"
  /\ status' = "open"
  /\ UNCHANGED <<history, verdict>>

\* The run stops for a decision about its next step.
Ask ==
  /\ status = "open" /\ verdict[Cursor] = Undecided
  /\ status' = "waiting"
  /\ UNCHANGED <<history, verdict>>

\* Decisions are taken only while the run waits, and only once per step.
Decide(a, d) ==
  /\ status = "waiting" /\ verdict[Cursor] = Undecided
  /\ verdict' = [verdict EXCEPT ![Cursor] = [action |-> a, decision |-> d]]
  /\ UNCHANGED <<status, history>>

\* A decision that takes effect at once: the run goes on, or fails.
DecideAtOnce(a, d) ==
  /\ status = "waiting" /\ verdict[Cursor] = Undecided
  /\ verdict' = [verdict EXCEPT ![Cursor] = [action |-> a, decision |-> d]]
  /\ status' = IF d \in Yes THEN "open" ELSE "failed"
  /\ UNCHANGED history

\* Somebody drives the run on, decided or not.
Continue ==
  /\ status = "waiting"
  /\ status' = "open"
  /\ UNCHANGED <<history, verdict>>

MayPerform(a) ==
  \/ a \notin Approvable /\ verdict[Cursor] = Undecided
  \/ /\ verdict[Cursor] # Undecided
     /\ verdict[Cursor].action = a
     /\ verdict[Cursor].decision \in Yes

Perform(a) ==
  /\ status = "open" /\ MayPerform(a)
  /\ history' = Append(history, a)
  /\ UNCHANGED <<status, verdict>>

\* A run cannot declare success over a pending decision.
Succeed ==
  /\ status = "open" /\ verdict[Cursor] = Undecided
  /\ status' = "succeeded"
  /\ UNCHANGED <<history, verdict>>

\* A waiting run fails only because its decision denies the step.
Fail ==
  /\ \/ status = "open"
     \/ /\ status = "waiting"
        /\ verdict[Cursor] # Undecided
        /\ verdict[Cursor].decision \notin Yes
  /\ status' = "failed"
  /\ UNCHANGED <<history, verdict>>

Next ==
  \/ Create \/ Ask \/ Continue \/ Succeed \/ Fail
  \/ \E a \in Actions : Perform(a)
  \/ \E a \in Actions, d \in Verdicts : Decide(a, d) \/ DecideAtOnce(a, d)

Spec == Init /\ [][Next]_absVars

=============================================================================
