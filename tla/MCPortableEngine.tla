-------------------------- MODULE MCPortableEngine --------------------------
(* Catalogs for TLC: the frozen suite of IncidentSuite, and a small catalog  *)
(* in two versions for runs that are driven by hand.                         *)
EXTENDS PortableReport, IncidentSuite, TLC

AppSymmetry == Permutations(Apps)

FrozenCatalogs == {Frozen}

HandSuite == <<"gated", "odd">>

HandNames == {"gated", "odd"}

\* Two versions of a scenario with a gated write: one that retries, is approved
\* and goes on, and one with two writes, each with a decision of its own; and a
\* scenario that gives up in one version and fails at an invalid call in the other.
HandCatalogs ==
  {[n \in HandNames |->
      IF n = "gated"
      THEN Scen(<<Rollback, Health, Done("prepared")>>,
                {Fault(Rollback, 1, "timeout"), Fault(Rollback, 2, "rate_limit"),
                 Fault(Health, 2, "tool_error")},
                TRUE, "prepared", <<Rollback, Health>>)
      ELSE Scen(<<Health, Act("fail", "none", TRUE, "unsafe")>>, {}, FALSE,
                "unsafe", <<Health>>)],
   [n \in HandNames |->
      IF n = "gated"
      THEN Scen(<<Rollback, Rollback>>, {Fault(Rollback, 1, "tool_error")}, FALSE,
                "prepared", <<Rollback, Rollback>>)
      ELSE Scen(<<Health, BadLogs>>, {}, FALSE, "invalid_input", <<Logs>>)]}

=============================================================================
