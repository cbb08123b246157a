--------------------------- MODULE MCRunExecution ---------------------------
(* Small instances of RunExecution for TLC. *)
EXTENDS RunExecution, TLC

\* Calls that can be exchanged: all but those that start the run.
CallSymmetry == Permutations(Calls \ Starters)
=============================================================================
