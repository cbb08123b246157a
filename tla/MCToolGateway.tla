---------------------------- MODULE MCToolGateway ----------------------------
(* Small instances of ToolGateway for TLC. *)
EXTENDS ToolGateway, TLC

CONSTANTS put, peek

Rule(q, n, kind) == [request |-> q, attempt |-> n, kind |-> kind]

\* The first rule of two for one attempt counts; the second plan fails the
\* write for good on its second attempt, after a transient failure.
SomePlans ==
  {<<Rule(peek, 1, "rate_limit"), Rule(peek, 1, "malformed_output")>>,
   <<Rule(put, 1, "timeout"), Rule(put, 2, "malformed_output")>>}

CallerSymmetry == Permutations(Callers)
=============================================================================
