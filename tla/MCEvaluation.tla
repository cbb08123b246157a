---------------------------- MODULE MCEvaluation ----------------------------
(* A suite for TLC: three scenarios of the frozen one, two of whose files    *)
(* may hold something else.                                                  *)
EXTENDS EvaluationRunner

SmallSuite ==
  <<"approval-reconstruction", "permanent-invalid-input", "rate-limit-recovery">>

Gated == Frozen["approval-reconstruction"]

Limited == Frozen["rate-limit-recovery"]

\* Of the gated scenario: without its approval, with another expectation, with
\* a fault on the write; of the other: without its fault, with a fault that is
\* not transient, one that cannot be reached, one of a tool that is not called,
\* with an approval, without its end, with another end.
SmallContents ==
  [n \in {SmallSuite[i] : i \in DOMAIN SmallSuite} |->
     CASE n = "approval-reconstruction" ->
            {Gated, [Gated EXCEPT !.supplied = FALSE],
             [Gated EXCEPT !.expected = "invalid_input"],
             [Gated EXCEPT !.faults = {Fault(Rollback, 1, "timeout")}]}
       [] n = "rate-limit-recovery" ->
            {Limited, [Limited EXCEPT !.faults = {}],
             [Limited EXCEPT !.supplied = TRUE],
             [Limited EXCEPT !.faults = {Fault(Deployment, 1, "malformed_output")}],
             [Limited EXCEPT !.faults = {Fault(Deployment, 2, "timeout")}],
             [Limited EXCEPT !.faults = {Fault(Logs, 1, "timeout")}],
             [Limited EXCEPT !.actions = <<Health, Deployment>>],
             [Limited EXCEPT !.actions[3] = Act("fail", "none", TRUE, "unsafe")]}
       [] OTHER -> {Frozen[n]}]

=============================================================================
