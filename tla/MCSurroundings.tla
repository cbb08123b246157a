---------------------------- MODULE MCSurroundings ----------------------------
(***************************************************************************)
(* The parts around the runtime: the services of the HTTP API, the trace   *)
(* and its readers, the page of the dashboard, the Android shell and the   *)
(* loop of the graders.  They share no state, so they are checked side by  *)
(* side: a behaviour is about one part, chosen at its beginning, and the   *)
(* others stay as they were initialised.                                   *)
(***************************************************************************)
EXTENDS ApiServices, TraceLog, Dashboard, PortableShell, MCGrading

VARIABLE part

parts == <<serviceVars, traceVars, pageVars, shellVars, gradingVars>>

Init ==
  /\ part \in {"services", "trace", "page", "shell", "graders"}
  /\ ServiceInit /\ TraceInit /\ PageInit /\ ShellInit /\ GradingInit
  /\ part # "graders" => expected = <<>> /\ actual = <<>>

InServices ==
  /\ part = "services" /\ ServiceNext
  /\ UNCHANGED <<part, traceVars, pageVars, shellVars, gradingVars>>

InTrace ==
  /\ part = "trace" /\ TraceNext
  /\ UNCHANGED <<part, serviceVars, pageVars, shellVars, gradingVars>>

InPage ==
  /\ part = "page" /\ PageNext
  /\ UNCHANGED <<part, serviceVars, traceVars, shellVars, gradingVars>>

InShell ==
  /\ part = "shell" /\ ShellNext
  /\ UNCHANGED <<part, serviceVars, traceVars, pageVars, gradingVars>>

InGraders ==
  /\ part = "graders" /\ Loop
  /\ UNCHANGED <<part, serviceVars, traceVars, pageVars, shellVars>>

Next == InServices \/ InTrace \/ InPage \/ InShell \/ InGraders

Spec == Init /\ [][Next]_<<part, parts>> /\ ServiceFairness /\ PageFairness

=============================================================================
