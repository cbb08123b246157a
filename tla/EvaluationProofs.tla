-------------------------- MODULE EvaluationProofs --------------------------
(***************************************************************************)
(* Proofs about the evaluation (EvaluationRunner), for every suite, what   *)
(* its files may hold and any number of writes to them: a report the gate  *)
(* takes ran the scenarios its manifest lists, and only retries tell the   *)
(* two modes apart.                                                        *)
(*                                                                         *)
(* EvaluationInv counts, for each thing that was read from the directory,  *)
(* the writes it takes for the file to hold something else; ModesInv keeps *)
(* of every fragile case the states its run went through, for the run in   *)
(* resilient mode to be compared with.                                     *)
(***************************************************************************)
EXTENDS EvaluationRunner, GradingProofs, SequenceTheorems

\* What the proofs need of the claims and of the case.
LEMMA ClaimsFields ==
  ASSUME NEW r, NEW events
  PROVE  /\ Claims(r, events).status = r.status
         /\ Claims(r, events).approved = Allowed(r)
BY DEF Claims

LEMMA CaseFields ==
  /\ Case.ran = Scenario /\ Case.claims = Claims(run, trace)
  /\ Case.sha = Entry.sha
BY DEF Case

LEMMA Appended ==
  ASSUME NEW S, NEW s \in Seq(S), NEW x
  PROVE  /\ Append(s, x) \in Seq(S \cup {x})
         /\ Len(s) \in Nat /\ DOMAIN s = 1..Len(s)
         /\ Len(Append(s, x)) = Len(s) + 1
         /\ DOMAIN Append(s, x) = 1..(Len(s) + 1)
         /\ \A i \in 1..Len(s) : Append(s, x)[i] = s[i]
         /\ Append(s, x)[Len(s) + 1] = x
<1>1. s \in Seq(S \cup {x})
  BY SeqDef
<1> QED BY <1>1, AppendProperties, LenProperties

-----------------------------------------------------------------------------
(* The suite directory and the stages of an evaluation *)

Entries ==
  [id : DOMAIN Contents, content : ScenarioFiles,
   sha : ScenarioFiles \cup {Unread}]

SuiteType ==
  /\ disk \in [DOMAIN Contents -> ScenarioFiles]
  /\ building \in Seq(Entries) /\ manifest \in Seq(Entries)
  /\ loaded \in Seq(ScenarioFiles)
  /\ writes \in Nat /\ edits \in Nat
  /\ \E S : cases \in [Modes -> Seq(S)]

\* The stages in which nothing is read from the directory.
Running == {"case", "drive"}

Reporting == {"report", "gate", "done"}

\* What each stage has got ready, file by file.
Prepared ==
  /\ pc \in {"manifest", "load", "recheck", "final", "error"} \cup Running
              \cup Reporting
  /\ Len(building) <= Len(Suite) /\ Len(loaded) <= Len(Suite)
  /\ \A i \in DOMAIN building :
       /\ building[i].id = Suite[i]
       /\ i < Len(building) => building[i].sha # Unread
  /\ pc \in {"load"} \cup Running \cup Reporting => building = <<>>
  /\ pc \notin {"manifest", "error"} =>
       /\ Len(manifest) = Len(Suite)
       /\ \A i \in DOMAIN manifest :
            manifest[i].id = Suite[i] /\ manifest[i].sha # Unread
  /\ pc \notin {"manifest", "load", "error"} =>
       /\ Len(loaded) = Len(Suite)
       /\ \A i \in DOMAIN loaded : Runnable(loaded[i])

\* How far the cases are: all of the fragile mode come first.
Counting ==
  LET f == Len(cases["fragile"])
      r == Len(cases["resilient"])
  IN  /\ f <= Len(Suite) /\ r <= Len(Suite) /\ (r > 0 => f = Len(Suite))
      /\ pc \in {"manifest", "load"} => f = 0 /\ r = 0
      /\ pc \in Running => f < Len(Suite) \/ r < Len(Suite)
      /\ pc = "recheck" => f > 0
      /\ pc \in {"final"} \cup Reporting => f = Len(Suite) /\ r = Len(Suite)

StageInv == SuiteType /\ Prepared /\ Counting

\* The steps of one run: they change the run and its trace.
RunStep ==
  \/ Enter \/ Exhaust \/ Propose \/ Finish \/ GiveUp \/ Refuse \/ Wait
  \/ StartCall \/ Attempted \/ Succeed \/ Checkpoint \/ Fail \/ Approve

LEMMA RunStepKeeps ==
  ASSUME RunStep
  PROVE  /\ pc = "drive" /\ pc' = pc
         /\ disk' = disk /\ cases' = cases /\ writes' = writes
         /\ building' = building /\ manifest' = manifest /\ loaded' = loaded
         /\ report' = report /\ edits' = edits
BY DEF RunStep, Enter, Exhaust, Propose, Finish, GiveUp, Refuse, Wait, StartCall,
       Attempted, Succeed, Checkpoint, Fail, Approve, Approvable, Waiting, Drive,
       OfCase, suiteVars, reportVars

LEMMA SuiteFiles ==
  /\ Suite \in Seq(DOMAIN Contents)
  /\ Len(Suite) \in Nat \ {0} /\ DOMAIN Suite = 1..Len(Suite)
  /\ \A i \in 1..Len(Suite) : Suite[i] \in DOMAIN Contents
<1>1. Suite \in Seq(DOMAIN Contents) /\ Suite # <<>>
  BY EvaluationAssumption
<1>2. Len(Suite) \in Nat \ {0} /\ DOMAIN Suite = 1..Len(Suite)
  BY <1>1, EmptySeq, LenProperties
<1> QED BY <1>1, <1>2, ElementOfSeq

LEMMA UnreadIsNoFile == Unread \notin ScenarioFiles
<1> SUFFICES ASSUME Unread \in ScenarioFiles PROVE FALSE
  OBVIOUS
<1>1. DOMAIN Unread = {"unread"}
  BY DEF Unread
<1>2. \A x \in ScenarioFiles : "actions" \in DOMAIN x
  BY DEF ScenarioFiles
<1> QED BY <1>1, <1>2

\* The next file of the suite to be read.
LEMMA NextFile ==
  ASSUME SuiteType, NEW s, NEW S, s \in Seq(S), Len(s) < Len(Suite)
  PROVE  /\ Len(s) \in Nat /\ Len(s) + 1 \in 1..Len(Suite)
         /\ Suite[Len(s) + 1] \in DOMAIN Contents
         /\ disk[Suite[Len(s) + 1]] \in ScenarioFiles
<1>1. Len(s) \in Nat /\ Len(s) + 1 \in 1..Len(Suite)
  BY SuiteFiles, LenProperties
<1> QED BY <1>1, SuiteFiles DEF SuiteType

\* What reading one more file does to the manifest being built.
LEMMA ReadFields ==
  ASSUME SuiteType, ReadScenario
  PROVE  /\ pc \in {"manifest", "recheck", "final"}
         /\ Len(building) < Len(Suite) /\ ~Unhashed
         /\ \/ pc' = "error" /\ building' = building
            \/ /\ pc' = pc /\ building' \in Seq(Entries)
               /\ Len(building') = Len(building) + 1
               /\ DOMAIN building' = 1..(Len(building) + 1)
               /\ DOMAIN building = 1..Len(building) /\ Len(building) \in Nat
               /\ \A i \in 1..Len(building) : building'[i] = building[i]
               /\ LET e == building'[Len(building) + 1]
                      n == Suite[Len(building) + 1]
                  IN  e.id = n /\ e.content = disk[n] /\ e.sha = Unread
<1> DEFINE n == Suite[Len(building) + 1]
           e == [id |-> n, content |-> disk[n], sha |-> Unread]
<1>1. /\ pc \in {"manifest", "recheck", "final"}
      /\ Len(building) < Len(Suite) /\ ~Unhashed
      /\ \/ pc' = "error" /\ building' = building
         \/ pc' = pc /\ building' = Append(building, e)
  BY DEF ReadScenario
<1>2. building \in Seq(Entries)
  BY DEF SuiteType
<1>3. e \in Entries
  BY <1>1, <1>2, NextFile DEF Entries
<1>4. e.id = n /\ e.content = disk[n] /\ e.sha = Unread
  OBVIOUS
<1> HIDE DEF e
<1>5. /\ Append(building, e) \in Seq(Entries)
      /\ Len(Append(building, e)) = Len(building) + 1
      /\ DOMAIN Append(building, e) = 1..(Len(building) + 1)
      /\ DOMAIN building = 1..Len(building) /\ Len(building) \in Nat
      /\ \A i \in 1..Len(building) : Append(building, e)[i] = building[i]
      /\ Append(building, e)[Len(building) + 1] = e
  BY <1>2, <1>3, AppendProperties, LenProperties
<1> QED BY <1>1, <1>4, <1>5

\* The last file read is read again for its hash.
LEMMA HashFields ==
  ASSUME SuiteType, Prepared, HashScenario
  PROVE  LET k == Len(building)
             e == building'[k]
         IN  /\ k \in DOMAIN building /\ DOMAIN building = 1..k
             /\ building' \in Seq(Entries) /\ Len(building') = k
             /\ DOMAIN building' = 1..k
             /\ building[k].sha = Unread /\ k \in Nat
             /\ \A i \in 1..k : i # k => building'[i] = building[i]
             /\ e.id = building[k].id /\ e.content = building[k].content
             /\ e.sha = disk[Suite[k]] /\ e.sha # Unread
<1> DEFINE k == Len(building)
           e == [building[k] EXCEPT !.sha = disk[building[k].id]]
<1>1. building \in Seq(Entries) /\ building # <<>> /\ building[k].sha = Unread
  BY DEF SuiteType, HashScenario, Unhashed, Last
<1>2. k \in Nat \ {0} /\ DOMAIN building = 1..k
  BY <1>1, EmptySeq, LenProperties
<1>3. k \in 1..k /\ building[k] \in Entries
  BY <1>1, <1>2, ElementOfSeq
<1>4. building[k].id = Suite[k] /\ building[k].id \in DOMAIN Contents
  BY <1>2, <1>3 DEF Prepared, Entries
<1>5. disk[building[k].id] \in ScenarioFiles
  BY <1>4 DEF SuiteType
<1>6. /\ e.id = building[k].id /\ e.content = building[k].content
      /\ e.sha = disk[building[k].id]
  BY <1>3 DEF Entries
<1>7. e \in Entries
  BY <1>3, <1>5 DEF Entries
<1>8. building' = [building EXCEPT ![k] = e]
  BY DEF HashScenario
<1> HIDE DEF e
<1>9. /\ building' \in Seq(Entries) /\ Len(building') = k
      /\ \A j \in 1..k : building'[j] = IF j = k THEN e ELSE building[j]
  BY <1>1, <1>3, <1>7, <1>8, ExceptSeq
<1>10. DOMAIN building' = 1..k
  BY <1>9, LenProperties
<1>11. e.sha # Unread
  BY <1>5, <1>6, UnreadIsNoFile
<1> QED BY <1>1, <1>2, <1>3, <1>4, <1>6, <1>9, <1>10, <1>11

LEMMA CaseClosed ==
  ASSUME SuiteType, CloseCase
  PROVE  /\ pc = "drive" /\ run.at = "stopped" /\ ~Approvable
         /\ disk' = disk /\ writes' = writes /\ building' = building
         /\ manifest' = manifest /\ loaded' = loaded
         /\ run' = run /\ trace' = trace /\ report' = report /\ edits' = edits
         /\ \/ pc' = "error" /\ cases' = cases
            \/ /\ pc' = "recheck" /\ Gradable
               /\ \E S : cases' \in [Modes -> Seq(S)]
               /\ \A m \in Modes \ {Mode} : cases'[m] = cases[m]
               /\ LET k == Len(cases[Mode])
                  IN  /\ k \in Nat /\ DOMAIN cases[Mode] = 1..k
                      /\ Len(cases'[Mode]) = k + 1
                      /\ DOMAIN cases'[Mode] = 1..(k + 1)
                      /\ \A i \in 1..k : cases'[Mode][i] = cases[Mode][i]
                      /\ cases'[Mode][k + 1] = Case
<1>1. /\ pc = "drive" /\ run.at = "stopped" /\ ~Approvable
      /\ disk' = disk /\ writes' = writes /\ building' = building
      /\ manifest' = manifest /\ loaded' = loaded
      /\ run' = run /\ trace' = trace /\ report' = report /\ edits' = edits
  BY DEF CloseCase, Drive, suiteVars, caseVars, reportVars
<1>2. CASE ~Gradable
  BY <1>1, <1>2 DEF CloseCase
<1>3. CASE Gradable
  <2>1. PICK S : cases \in [Modes -> Seq(S)]
    BY DEF SuiteType
  <2>2. Mode \in Modes
    BY DEF Mode, Modes
  <2>3. PICK m, x : m \in Modes /\ m = Mode /\ x = Case
    BY <2>2
  <2>4. pc' = "recheck" /\ cases' = [cases EXCEPT ![m] = Append(cases[m], x)]
    BY <1>3, <2>3 DEF CloseCase
  <2> DEFINE more == Append(cases[m], x)
  <2>5. /\ more \in Seq(S \cup {x})
        /\ Len(cases[m]) \in Nat /\ DOMAIN cases[m] = 1..Len(cases[m])
        /\ Len(more) = Len(cases[m]) + 1
        /\ DOMAIN more = 1..(Len(cases[m]) + 1)
        /\ \A i \in 1..Len(cases[m]) : more[i] = cases[m][i]
        /\ more[Len(cases[m]) + 1] = x
    <3>1. PICK s \in Seq(S) : s = cases[m]
      BY <2>1, <2>3
    <3> QED BY <3>1, Appended
  <2> HIDE DEF more
  <2>6. cases' = [cases EXCEPT ![m] = more]
    BY <2>4 DEF more
  <2>7. cases'[m] = more /\ \A q \in Modes \ {m} : cases'[q] = cases[q]
    BY <2>1, <2>3, <2>6
  <2>8. cases' \in [Modes -> Seq(S \cup {x})]
    <3>1. \A q \in Modes : cases[q] \in Seq(S \cup {x})
      BY <2>1, SeqMonotonic
    <3>2. cases \in [Modes -> Seq(S \cup {x})]
      BY <2>1, <3>1
    <3> QED BY <2>3, <2>5, <2>6, <3>2
  <2> QED BY <1>1, <1>3, <2>3, <2>4, <2>5, <2>7, <2>8
<1> QED BY <1>2, <1>3

\* The lengths of the two lists of cases.
LEMMA CaseLengths ==
  ASSUME SuiteType
  PROVE  /\ Len(cases["fragile"]) \in Nat /\ Len(cases["resilient"]) \in Nat
         /\ \A m \in Modes : DOMAIN cases[m] = 1..Len(cases[m])
<1>1. PICK S : cases \in [Modes -> Seq(S)]
  BY DEF SuiteType
<1>2. \A m \in Modes : cases[m] \in Seq(S)
  BY <1>1
<1> QED BY <1>2, LenProperties DEF Modes

LEMMA StageStart == Init => StageInv
<1> SUFFICES ASSUME Init PROVE StageInv
  OBVIOUS
<1>1. SuiteType
  <2>1. disk \in [DOMAIN Contents -> ScenarioFiles]
    BY EvaluationAssumption DEF Init
  <2>2. \A S : <<>> \in Seq(S)
    BY EmptySeq
  <2>3. cases \in [Modes -> Seq({})]
    BY <2>2 DEF Init
  <2> QED BY <2>1, <2>2, <2>3 DEF Init, SuiteType
<1>2. Len(<<>>) = 0 /\ DOMAIN <<>> = {}
  BY EmptySeq
<1>3. Prepared
  BY <1>2, SuiteFiles DEF Init, Prepared, Running, Reporting
<1>4. Counting
  <2>1. cases["fragile"] = <<>> /\ cases["resilient"] = <<>>
    BY DEF Init, Modes
  <2> QED BY <1>2, <2>1, SuiteFiles DEF Init, Counting, Running, Reporting
<1> QED BY <1>1, <1>3, <1>4 DEF StageInv

LEMMA ReadKeepsStages ==
  ASSUME StageInv, ReadScenario
  PROVE  StageInv'
<1>1. /\ disk' = disk /\ writes' = writes /\ manifest' = manifest
      /\ loaded' = loaded /\ cases' = cases /\ edits' = edits
  BY DEF ReadScenario, reportVars
<1>2. CASE pc' = "error" /\ building' = building
  BY <1>1, <1>2 DEF StageInv, SuiteType, Prepared, Counting, Running, Reporting
<1>3. CASE pc' = pc /\ building' # building
  <2> DEFINE k == Len(building)
  <2>1. /\ pc \in {"manifest", "recheck", "final"}
        /\ building' \in Seq(Entries) /\ Len(building') = k + 1
        /\ DOMAIN building' = 1..(k + 1) /\ DOMAIN building = 1..k /\ k \in Nat
        /\ \A i \in 1..k : building'[i] = building[i]
        /\ building'[k + 1].id = Suite[k + 1]
        /\ k < Len(Suite) /\ ~Unhashed
    BY <1>3, ReadFields DEF StageInv
  <2>2. \A i \in 1..k : building[i].id = Suite[i] /\ building[i].sha # Unread
    <3>1. k \in 1..k => building[k].sha # Unread
      <4>1. k \in 1..k => building # <<>>
        BY <2>1, EmptySeq
      <4> QED BY <2>1, <4>1 DEF Unhashed, Last
    <3>2. \A i \in 1..k : building[i].id = Suite[i]
                          /\ (i < k => building[i].sha # Unread)
      BY <2>1 DEF StageInv, Prepared
    <3>3. \A i \in 1..k : i < k \/ i = k
      BY <2>1
    <3> QED BY <3>1, <3>2, <3>3
  <2>3. \A i \in 1..(k + 1) : i = k + 1 \/ i \in 1..k
    BY <2>1
  <2>4. k + 1 <= Len(Suite)
    BY <2>1, SuiteFiles
  <2> HIDE DEF k
  <2>5. SuiteType'
    BY <1>1, <2>1 DEF StageInv, SuiteType
  <2>6. Prepared'
    <3>1. \A i \in DOMAIN building' :
            /\ building'[i].id = Suite[i]
            /\ i < Len(building') => building'[i].sha # Unread
      BY <2>1, <2>2, <2>3
    <3> QED BY <1>1, <1>3, <2>1, <2>4, <3>1
            DEF StageInv, Prepared, Running, Reporting
  <2>7. Counting'
    BY <1>1, <1>3 DEF StageInv, Counting
  <2> QED BY <2>5, <2>6, <2>7 DEF StageInv
<1> QED BY <1>2, <1>3, ReadFields DEF StageInv

LEMMA HashKeepsStages ==
  ASSUME StageInv, HashScenario
  PROVE  StageInv'
<1> DEFINE k == Len(building)
<1>1. /\ disk' = disk /\ writes' = writes /\ manifest' = manifest /\ pc' = pc
      /\ loaded' = loaded /\ cases' = cases /\ edits' = edits
      /\ building # <<>>
  BY DEF HashScenario, reportVars, Unhashed
<1>2. /\ k \in DOMAIN building /\ DOMAIN building = 1..k
      /\ building' \in Seq(Entries) /\ Len(building') = k
      /\ DOMAIN building' = 1..k
      /\ \A i \in 1..k : i # k => building'[i] = building[i]
      /\ building'[k].id = building[k].id /\ building'[k].sha # Unread
  BY HashFields DEF StageInv
<1> HIDE DEF k
<1>3. SuiteType'
  BY <1>1, <1>2 DEF StageInv, SuiteType
<1>4. \A i \in DOMAIN building' :
        building'[i].id = Suite[i] /\ building'[i].sha # Unread
  <2>1. \A i \in 1..k : building[i].id = Suite[i]
                        /\ (i < k => building[i].sha # Unread)
    BY <1>2 DEF StageInv, Prepared, k
  <2>2. \A i \in 1..k : i < k \/ i = k
    BY LenProperties DEF StageInv, SuiteType, k
  <2> QED BY <1>2, <2>1, <2>2
<1>5. Len(building') <= Len(Suite)
  BY <1>2 DEF StageInv, Prepared, k
<1>6. Prepared'
  BY <1>1, <1>4, <1>5 DEF StageInv, Prepared
<1>7. Counting'
  BY <1>1 DEF StageInv, Counting
<1> QED BY <1>3, <1>6, <1>7 DEF StageInv

LEMMA FreezeKeepsStages ==
  ASSUME StageInv, Freeze
  PROVE  StageInv'
<1>1. /\ disk' = disk /\ writes' = writes /\ loaded' = loaded /\ cases' = cases
      /\ edits' = edits /\ pc = "manifest" /\ pc' \in {"load", "error"}
      /\ building' = <<>> /\ manifest' = building
      /\ Len(building) = Len(Suite) /\ ~Unhashed
  BY DEF Freeze, reportVars, Complete
<1>2. <<>> \in Seq(Entries) /\ Len(<<>>) = 0 /\ DOMAIN <<>> = {}
  BY EmptySeq
<1>3. SuiteType'
  BY <1>1, <1>2 DEF StageInv, SuiteType
<1>4. \A i \in DOMAIN building : building[i].id = Suite[i] /\ building[i].sha # Unread
  <2>1. DOMAIN building = 1..Len(Suite) /\ Len(Suite) \in Nat \ {0}
    BY <1>1, SuiteFiles, LenProperties DEF StageInv, SuiteType
  <2>2. building # <<>>
    BY <1>1, <1>2, SuiteFiles
  <2>3. building[Len(Suite)].sha # Unread
    BY <1>1, <2>2 DEF Unhashed, Last
  <2>4. \A i \in 1..Len(Suite) : i < Len(Suite) \/ i = Len(Suite)
    BY <2>1
  <2> QED BY <1>1, <2>1, <2>3, <2>4 DEF StageInv, Prepared
<1>5. Prepared'
  <2>1. 0 <= Len(Suite)
    BY SuiteFiles
  <2> QED BY <1>1, <1>2, <1>4, <2>1 DEF StageInv, Prepared, Running, Reporting
<1>6. Counting'
  BY <1>1 DEF StageInv, Counting, Running, Reporting
<1> QED BY <1>3, <1>5, <1>6 DEF StageInv

LEMMA LoadKeepsStages ==
  ASSUME StageInv, LoadScenario
  PROVE  StageInv'
<1> DEFINE x == disk[Suite[Len(loaded) + 1]]
           more == Append(loaded, x)
<1>1. /\ disk' = disk /\ writes' = writes /\ manifest' = manifest /\ pc' = pc
      /\ building' = building /\ cases' = cases /\ edits' = edits
      /\ pc = "load" /\ Len(loaded) < Len(Suite) /\ loaded' = more
  BY DEF LoadScenario, reportVars
<1>2. loaded \in Seq(ScenarioFiles)
  BY DEF StageInv, SuiteType
<1>3. x \in ScenarioFiles
  BY <1>1, <1>2, NextFile DEF StageInv
<1> HIDE DEF x
<1>4. /\ more \in Seq(ScenarioFiles) /\ Len(more) = Len(loaded) + 1
      /\ Len(loaded) \in Nat
  BY <1>2, <1>3, AppendProperties, LenProperties
<1> HIDE DEF more
<1>5. Len(more) <= Len(Suite)
  BY <1>1, <1>4, SuiteFiles
<1>6. SuiteType'
  BY <1>1, <1>4 DEF StageInv, SuiteType
<1>7. Prepared'
  BY <1>1, <1>5 DEF StageInv, Prepared, Running, Reporting
<1>8. Counting'
  BY <1>1 DEF StageInv, Counting
<1> QED BY <1>6, <1>7, <1>8 DEF StageInv

LEMMA RecheckKeepsStages ==
  ASSUME StageInv, Recheck
  PROVE  StageInv'
<1>1. /\ disk' = disk /\ writes' = writes /\ loaded' = loaded /\ cases' = cases
      /\ edits' = edits /\ manifest' = manifest /\ building' = <<>>
      /\ pc \in {"recheck", "final"}
  BY DEF Recheck, reportVars
<1>2. <<>> \in Seq(Entries) /\ Len(<<>>) = 0 /\ DOMAIN <<>> = {} /\ 0 <= Len(Suite)
  BY EmptySeq, SuiteFiles
<1>3. SuiteType'
  BY <1>1, <1>2 DEF StageInv, SuiteType
<1>4. /\ pc' \in {"error", "report", "final", "case"}
      /\ pc' = "report" => pc = "final"
      /\ pc' = "final" => \A m \in Modes : Len(cases[m]) = Len(Suite)
      /\ pc' = "case" => \E m \in Modes : Len(cases[m]) # Len(Suite)
  BY <1>1 DEF Recheck
<1>5. Prepared'
  BY <1>1, <1>2, <1>4 DEF StageInv, Prepared, Running, Reporting
<1>6. Counting'
  <2>1. pc' = "case" => \/ Len(cases["fragile"]) < Len(Suite)
                        \/ Len(cases["resilient"]) < Len(Suite)
    BY <1>4, SuiteFiles, CaseLengths DEF StageInv, Counting, Modes
  <2>2. pc' \in {"final", "report"} => /\ Len(cases["fragile"]) = Len(Suite)
                                       /\ Len(cases["resilient"]) = Len(Suite)
    BY <1>4 DEF StageInv, Counting, Modes
  <2> QED BY <1>1, <1>4, <2>1, <2>2 DEF StageInv, Counting, Running, Reporting
<1> QED BY <1>3, <1>5, <1>6 DEF StageInv

LEMMA CloseKeepsStages ==
  ASSUME StageInv, CloseCase
  PROVE  StageInv'
<1>1. /\ disk' = disk /\ writes' = writes /\ loaded' = loaded
      /\ edits' = edits /\ manifest' = manifest /\ building' = building
      /\ pc = "drive"
  BY CaseClosed DEF StageInv
<1>2. CASE pc' = "error" /\ cases' = cases
  BY <1>1, <1>2 DEF StageInv, SuiteType, Prepared, Counting, Running, Reporting
<1>3. CASE pc' = "recheck" /\ cases' # cases
  <2>1. /\ \E S : cases' \in [Modes -> Seq(S)]
        /\ \A m \in Modes \ {Mode} : cases'[m] = cases[m]
        /\ Len(cases'[Mode]) = Len(cases[Mode]) + 1
    BY <1>3, CaseClosed DEF StageInv
  <2>2. SuiteType'
    BY <1>1, <2>1 DEF StageInv, SuiteType
  <2>3. Prepared'
    BY <1>1, <1>3 DEF StageInv, Prepared, Running, Reporting
  <2>4. Counting'
    <3> DEFINE f == Len(cases["fragile"])
               r == Len(cases["resilient"])
               g == Len(cases'["fragile"])
               s == Len(cases'["resilient"])
               n == Len(Suite)
    <3>1. /\ f \in Nat /\ r \in Nat /\ n \in Nat
          /\ f <= n /\ r <= n /\ (r > 0 => f = n) /\ (f < n \/ r < n)
      BY <1>1, SuiteFiles, CaseLengths DEF StageInv, Counting, Running
    <3>2. IF f < n THEN g = f + 1 /\ s = r ELSE g = f /\ s = r + 1
      BY <2>1 DEF Mode, Modes
    <3> HIDE DEF f, r, g, s, n
    <3>3. g <= n /\ s <= n /\ (s > 0 => g = n) /\ g > 0
      BY <3>1, <3>2
    <3> QED BY <1>3, <3>3 DEF Counting, Running, Reporting, g, s, n
  <2> QED BY <2>2, <2>3, <2>4 DEF StageInv
<1> QED BY <1>2, <1>3, CaseClosed DEF StageInv

LEMMA FileWritten ==
  ASSUME StageInv, NEW n \in DOMAIN Contents, WriteFile(n)
  PROVE  /\ StageInv' /\ writes' = writes + 1
         /\ disk' \in [DOMAIN Contents -> ScenarioFiles]
         /\ pc' = pc /\ building' = building /\ manifest' = manifest
         /\ loaded' = loaded /\ cases' = cases /\ run' = run /\ trace' = trace
         /\ report' = report /\ edits' = edits /\ pc \notin Reporting
<1>1. /\ pc' = pc /\ building' = building /\ manifest' = manifest
      /\ loaded' = loaded /\ cases' = cases /\ run' = run /\ trace' = trace
      /\ report' = report /\ edits' = edits
      /\ writes' = writes + 1 /\ pc \notin Reporting
  BY DEF WriteFile, suiteVars, caseVars, reportVars, Reporting
<1>2. disk' \in [DOMAIN Contents -> ScenarioFiles]
  <2>1. PICK c \in Contents[n] : disk' = [disk EXCEPT ![n] = c]
    BY DEF WriteFile
  <2>2. c \in ScenarioFiles
    BY EvaluationAssumption
  <2> QED BY <2>1, <2>2 DEF StageInv, SuiteType
<1>3. SuiteType'
  BY <1>1, <1>2 DEF StageInv, SuiteType
<1>4. Prepared' /\ Counting'
  BY <1>1 DEF StageInv, Prepared, Counting
<1> QED BY <1>1, <1>2, <1>3, <1>4 DEF StageInv

LEMMA StageStep == StageInv /\ [Next]_vars => StageInv'
<1> SUFFICES ASSUME StageInv, [Next]_vars PROVE StageInv'
  OBVIOUS
<1>1. ASSUME disk' = disk, writes' = writes, loaded' = loaded, cases' = cases,
             edits' \in Nat, manifest' = manifest, building' = building,
             \/ pc' = pc
             \/ pc = "load" /\ pc' \in {"case", "error"}
                /\ (pc' = "case" => /\ Len(loaded) = Len(Suite)
                                    /\ \A i \in DOMAIN loaded : Runnable(loaded[i]))
             \/ pc = "case" /\ pc' = "drive"
             \/ pc = "report" /\ pc' = "gate"
             \/ pc = "gate" /\ pc' = "done"
      PROVE  StageInv'
  <2>1. SuiteType'
    BY <1>1 DEF StageInv, SuiteType
  <2>2. Prepared'
    BY <1>1 DEF StageInv, Prepared, Running, Reporting
  <2>3. Counting'
    <3>1. pc = "load" /\ pc' = "case" => 0 < Len(Suite) /\ Len(cases["fragile"]) = 0
      BY SuiteFiles DEF StageInv, Counting
    <3> QED BY <1>1, <3>1 DEF StageInv, Counting, Running, Reporting
  <2> QED BY <2>1, <2>2, <2>3 DEF StageInv
<1>2. edits \in Nat
  BY DEF StageInv, SuiteType
<1>3. CASE Loaded \/ OpenCase \/ WriteReport \/ EnforceGate \/ UNCHANGED vars
  <2>1. CASE Loaded
    <3>1. /\ pc = "load" /\ Len(loaded) = Len(Suite) /\ pc' \in {"case", "error"}
          /\ pc' = "case" => \A i \in DOMAIN loaded : Runnable(loaded[i])
      BY <2>1 DEF Loaded
    <3> QED BY <1>1, <1>2, <2>1, <3>1 DEF Loaded, suiteVars, reportVars
  <2>2. CASE OpenCase
    BY <1>1, <1>2, <2>2 DEF OpenCase, suiteVars, reportVars
  <2>3. CASE WriteReport
    <3>1. /\ pc = "report" /\ pc' = "gate" /\ disk' = disk /\ writes' = writes
          /\ edits' = edits /\ cases' = cases /\ UNCHANGED suiteVars
      BY <2>3 DEF WriteReport
    <3> QED BY <1>1, <1>2, <3>1 DEF suiteVars
  <2>4. CASE EnforceGate
    BY <1>1, <1>2, <2>4 DEF EnforceGate, suiteVars, reportVars
  <2>5. CASE UNCHANGED vars
    BY <1>1, <1>2, <2>5 DEF vars, suiteVars, reportVars
  <2> QED BY <1>3, <2>1, <2>2, <2>3, <2>4, <2>5
<1>4. CASE RunStep
  BY <1>1, <1>2, <1>4, RunStepKeeps
<1>5. CASE EditReport
  BY <1>1, <1>2, <1>5 DEF EditReport, suiteVars
<1> QED BY <1>3, <1>4, <1>5, ReadKeepsStages, HashKeepsStages, FreezeKeepsStages,
           LoadKeepsStages, RecheckKeepsStages, CloseKeepsStages, FileWritten
        DEF Next, Evaluate, RunStep

-----------------------------------------------------------------------------
(* What is read from the directory, and when it was written *)

\* There were w writes when the file of n was read as v; what it holds since
\* then, it was written to hold.
Since(n, v, w) == writes >= w /\ (disk[n] = v \/ writes >= w + 1)

\* Nothing that was read differs from the directory before somebody writes.
ReadsInv ==
  /\ \A i \in DOMAIN building : Since(Suite[i], building[i].content, 0)
  /\ \A i \in DOMAIN manifest : Since(Suite[i], manifest[i].content, 0)
  /\ \A i \in DOMAIN loaded : Since(Suite[i], loaded[i], 0)

\* A file whose bytes are not what was parsed was written in between.
ListingInv ==
  pc = "manifest" =>
    \A i \in DOMAIN building :
      building[i].sha \notin {Unread, building[i].content} =>
        Since(Suite[i], building[i].sha, 1)

\* The rechecks that were passed.
Passed ==
  (Len(cases["fragile"]) + Len(cases["resilient"]))
    - (IF pc = "recheck" THEN 1 ELSE 0) + (IF pc \in Reporting THEN 1 ELSE 0)

\* The writes it takes to get a torn entry of the manifest past k rechecks, and
\* past what was read of it in the recheck under way.
TornAt(i, k) ==
  LET n == Suite[i]
      e == manifest[i]
  IN  IF i \in DOMAIN building
      THEN building[i].content = e.content =>
             /\ building[i].sha = Unread => Since(n, e.content, 2 * k + 2)
             /\ building[i].sha = e.sha => Since(n, e.sha, 2 * k + 3)
      ELSE Since(n, e.sha, 2 * k + 1)

TornInv ==
  pc \notin {"manifest", "error"} =>
    \A i \in DOMAIN manifest :
      manifest[i].sha # manifest[i].content => TornAt(i, Passed)

LEMMA DirectoryStep ==
  ASSUME StageInv, [Next]_vars
  PROVE  /\ \/ disk' = disk /\ writes' = writes
            \/ /\ writes' = writes + 1 /\ pc' = pc /\ pc \notin Reporting
               /\ building' = building /\ manifest' = manifest
               /\ loaded' = loaded /\ cases' = cases /\ report' = report
               /\ edits' = edits
         /\ building' = building \/ building' = <<>> \/ ReadScenario \/ HashScenario
         /\ manifest' = manifest \/ Freeze
         /\ loaded' = loaded \/ LoadScenario
         /\ cases' = cases \/ CloseCase
<1>1. CASE RunStep
  BY <1>1, RunStepKeeps
<1>2. ASSUME NEW n \in DOMAIN Contents, WriteFile(n)
      PROVE  /\ writes' = writes + 1 /\ pc' = pc /\ pc \notin Reporting
             /\ building' = building /\ manifest' = manifest
             /\ loaded' = loaded /\ cases' = cases /\ report' = report
             /\ edits' = edits
  BY <1>2, FileWritten
<1>3. CASE CloseCase
  BY <1>3, CaseClosed DEF StageInv
<1>4. CASE ReadScenario \/ HashScenario \/ LoadScenario \/ Loaded
  BY <1>4 DEF ReadScenario, HashScenario, LoadScenario, Loaded, suiteVars
<1>5. CASE Freeze \/ Recheck \/ OpenCase \/ EnforceGate
  BY <1>5 DEF Freeze, Recheck, OpenCase, EnforceGate, suiteVars
<1>6. CASE WriteReport
  <2>1. disk' = disk /\ writes' = writes /\ cases' = cases /\ UNCHANGED suiteVars
    BY <1>6 DEF WriteReport
  <2> QED BY <2>1 DEF suiteVars
<1>7. CASE EditReport
  <2>1. disk' = disk /\ writes' = writes /\ cases' = cases /\ UNCHANGED suiteVars
    BY <1>7 DEF EditReport
  <2> QED BY <2>1 DEF suiteVars
<1>8. CASE UNCHANGED vars
  BY <1>8 DEF vars, suiteVars
<1> QED BY <1>1, <1>2, <1>3, <1>4, <1>5, <1>6, <1>7, <1>8 DEF Next, Evaluate, RunStep

LEMMA Later ==
  ASSUME StageInv, [Next]_vars, NEW n, NEW v, NEW w \in Nat, Since(n, v, w)
  PROVE  Since(n, v, w)'
<1>1. writes \in Nat
  BY DEF StageInv, SuiteType
<1> QED BY <1>1, DirectoryStep DEF Since

\* What is read now is what the file holds.
LEMMA ReadNow ==
  ASSUME StageInv, disk' = disk, writes' = writes, NEW n
  PROVE  Since(n, disk[n], 0)'
BY DEF Since, StageInv, SuiteType

LEMMA ReadsStep ==
  ASSUME StageInv, ReadsInv, [Next]_vars
  PROVE  ReadsInv'
<1>1. ASSUME NEW i \in DOMAIN building' PROVE Since(Suite[i], building[i].content, 0)'
  <2>1. CASE building' = building
    <3>1. PICK n, v : n = Suite[i] /\ v = building[i].content
      OBVIOUS
    <3>2. Since(n, v, 0)
      BY <2>1, <3>1 DEF ReadsInv
    <3>3. Since(n, v, 0)'
      BY <3>2, Later
    <3> QED BY <2>1, <3>1, <3>3
  <2>2. CASE building' = <<>>
    BY <2>2, EmptySeq
  <2>3. CASE ReadScenario /\ building' # building
    <3> DEFINE k == Len(building)
    <3>1. /\ k \in Nat /\ DOMAIN building' = 1..(k + 1) /\ DOMAIN building = 1..k
          /\ \A j \in 1..k : building'[j] = building[j]
          /\ building'[k + 1].content = disk[Suite[k + 1]]
      BY <2>3, ReadFields DEF StageInv
    <3>2. disk' = disk /\ writes' = writes
      BY <2>3 DEF ReadScenario
    <3>3. i \in 1..k \/ i = k + 1
      BY <3>1
    <3> HIDE DEF k
    <3>4. CASE i \in 1..k
      <4>1. PICK n, v : n = Suite[i] /\ v = building[i].content
        OBVIOUS
      <4>2. Since(n, v, 0)
        BY <3>1, <3>4, <4>1 DEF ReadsInv
      <4>3. Since(n, v, 0)'
        BY <4>2, Later
      <4> QED BY <3>1, <3>4, <4>1, <4>3
    <3>5. CASE i = k + 1
      <4>1. PICK n : n = Suite[i]
        OBVIOUS
      <4>2. Since(n, disk[n], 0)'
        BY <3>2, ReadNow
      <4> QED BY <3>1, <3>2, <3>5, <4>1, <4>2
    <3> QED BY <3>3, <3>4, <3>5
  <2>4. CASE HashScenario
    <3>1. /\ i \in DOMAIN building /\ building'[i].content = building[i].content
      BY <2>4, HashFields DEF StageInv
    <3>2. PICK n, v : n = Suite[i] /\ v = building[i].content
      OBVIOUS
    <3>3. Since(n, v, 0)
      BY <3>1, <3>2 DEF ReadsInv
    <3>4. Since(n, v, 0)'
      BY <3>3, Later
    <3> QED BY <3>1, <3>2, <3>4
  <2> QED BY <2>1, <2>2, <2>3, <2>4, DirectoryStep
<1>2. ASSUME NEW i \in DOMAIN manifest' PROVE Since(Suite[i], manifest[i].content, 0)'
  <2>1. PICK n, v : n = Suite[i] /\ v = manifest'[i].content
    OBVIOUS
  <2>2. manifest' = manifest \/ manifest' = building
    BY DirectoryStep DEF Freeze
  <2>3. Since(n, v, 0)
    BY <2>1, <2>2 DEF ReadsInv
  <2>4. Since(n, v, 0)'
    BY <2>3, Later
  <2> QED BY <2>1, <2>4
<1>3. ASSUME NEW i \in DOMAIN loaded' PROVE Since(Suite[i], loaded[i], 0)'
  <2>1. PICK n, v : n = Suite[i] /\ v = loaded'[i]
    OBVIOUS
  <2>2. CASE loaded' = loaded
    <3>1. Since(n, v, 0)
      BY <2>1, <2>2 DEF ReadsInv
    <3>2. Since(n, v, 0)'
      BY <3>1, Later
    <3> QED BY <2>1, <3>2
  <2>3. CASE LoadScenario
    <3> DEFINE k == Len(loaded)
               x == disk[Suite[k + 1]]
    <3>1. /\ loaded' = Append(loaded, x) /\ disk' = disk /\ writes' = writes
          /\ k < Len(Suite)
      BY <2>3 DEF LoadScenario
    <3>2. loaded \in Seq(ScenarioFiles) /\ x \in ScenarioFiles
      BY <3>1, NextFile DEF StageInv, SuiteType
    <3> HIDE DEF x
    <3>3. /\ k \in Nat /\ DOMAIN loaded' = 1..(k + 1) /\ DOMAIN loaded = 1..k
          /\ \A j \in 1..k : loaded'[j] = loaded[j]
          /\ loaded'[k + 1] = x
      BY <3>1, <3>2, AppendProperties, LenProperties
    <3>4. i \in 1..k \/ i = k + 1
      BY <3>3
    <3> HIDE DEF k
    <3>5. CASE i \in 1..k
      <4>1. Since(n, v, 0)
        BY <2>1, <3>3, <3>5 DEF ReadsInv
      <4>2. Since(n, v, 0)'
        BY <4>1, Later
      <4> QED BY <2>1, <4>2
    <3>6. CASE i = k + 1
      <4>1. v = disk[n]
        BY <2>1, <3>3, <3>6 DEF x
      <4>2. Since(n, disk[n], 0)'
        BY <3>1, ReadNow
      <4> QED BY <2>1, <3>1, <4>1, <4>2
    <3> QED BY <3>4, <3>5, <3>6
  <2> QED BY <2>2, <2>3, DirectoryStep
<1> QED BY <1>1, <1>2, <1>3 DEF ReadsInv

LEMMA ListingStep ==
  ASSUME StageInv, ReadsInv, ListingInv, [Next]_vars
  PROVE  ListingInv'
<1> SUFFICES ASSUME pc' = "manifest", NEW i \in DOMAIN building',
                    building'[i].sha \notin {Unread, building'[i].content}
             PROVE  Since(Suite[i], building[i].sha, 1)'
  BY DEF ListingInv
<1>1. pc = "manifest"
  <2>1. CASE RunStep
    BY <2>1, RunStepKeeps
  <2>2. CASE CloseCase
    BY <2>2, CaseClosed DEF StageInv
  <2>3. CASE ReadScenario \/ HashScenario \/ Freeze \/ LoadScenario \/ Loaded
             \/ Recheck
    BY <2>3 DEF ReadScenario, HashScenario, Freeze, LoadScenario, Loaded, Recheck
  <2>4. CASE OpenCase \/ WriteReport \/ EnforceGate \/ EditReport
    BY <2>4 DEF OpenCase, WriteReport, EnforceGate, EditReport
  <2>5. CASE \E n \in DOMAIN Contents : WriteFile(n)
    BY <2>5 DEF WriteFile
  <2>6. CASE UNCHANGED vars
    BY <2>6 DEF vars
  <2> QED BY <2>1, <2>2, <2>3, <2>4, <2>5, <2>6 DEF Next, Evaluate, RunStep
<1>2. PICK n, v : n = Suite[i] /\ v = building'[i].sha
  OBVIOUS
<1>3. ASSUME i \in DOMAIN building, building[i].sha = v,
             building[i].content = building'[i].content
      PROVE  Since(n, v, 1)'
  <2>1. Since(n, v, 1)
    BY <1>1, <1>2, <1>3 DEF ListingInv
  <2> QED BY <2>1, Later
<1>4. CASE building' = building
  BY <1>2, <1>3, <1>4
<1>5. CASE building' = <<>>
  BY <1>5, EmptySeq
<1>6. CASE ReadScenario /\ building' # building
  <2>1. /\ Len(building) \in Nat /\ DOMAIN building' = 1..(Len(building) + 1)
        /\ DOMAIN building = 1..Len(building)
        /\ \A j \in 1..Len(building) : building'[j] = building[j]
        /\ building'[Len(building) + 1].sha = Unread
    BY <1>6, ReadFields DEF StageInv
  <2>2. i \in 1..Len(building) \/ i = Len(building) + 1
    BY <2>1
  <2> QED BY <1>2, <1>3, <2>1, <2>2
<1>7. CASE HashScenario
  <2> DEFINE k == Len(building)
  <2>1. /\ k \in DOMAIN building /\ DOMAIN building = 1..k /\ DOMAIN building' = 1..k
        /\ \A j \in 1..k : j # k => building'[j] = building[j]
        /\ building[k].content = building'[k].content
        /\ building'[k].sha = disk[Suite[k]]
    BY <1>7, HashFields DEF StageInv
  <2>2. disk' = disk /\ writes' = writes
    BY <1>7 DEF HashScenario
  <2> HIDE DEF k
  <2>3. CASE i # k
    BY <1>2, <1>3, <2>1, <2>3
  <2>4. CASE i = k
    <3>1. disk[n] = v /\ v # building[i].content
      BY <1>2, <2>1, <2>4
    <3>2. Since(n, building[i].content, 0)
      BY <1>1, <1>2, <2>1, <2>4, <1>7 DEF ReadsInv
    <3>3. writes \in Nat
      BY DEF StageInv, SuiteType
    <3> QED BY <1>2, <2>2, <3>1, <3>2, <3>3 DEF Since
  <2> QED BY <2>3, <2>4
<1> QED BY <1>2, <1>4, <1>5, <1>6, <1>7, DirectoryStep

\* One entry of the manifest, where nothing was read or frozen meanwhile.
LEMMA TornKept ==
  ASSUME StageInv, [Next]_vars, NEW i \in DOMAIN manifest, NEW k \in Nat,
         manifest' = manifest, building' = building, TornAt(i, k)
  PROVE  TornAt(i, k)'
<1> DEFINE n == Suite[i]
           e == manifest[i]
<1>1. PICK c, s : c = e.content /\ s = e.sha
  OBVIOUS
<1>2. 2 * k + 1 \in Nat /\ 2 * k + 2 \in Nat /\ 2 * k + 3 \in Nat
  OBVIOUS
<1>3. CASE i \in DOMAIN building /\ building[i].content = c
  <2>1. /\ building[i].sha = Unread => Since(n, c, 2 * k + 2)
        /\ building[i].sha = s => Since(n, s, 2 * k + 3)
    BY <1>1, <1>3 DEF TornAt
  <2>2. ASSUME Since(n, c, 2 * k + 2) PROVE Since(n, c, 2 * k + 2)'
    BY <1>2, <2>2, Later
  <2>3. ASSUME Since(n, s, 2 * k + 3) PROVE Since(n, s, 2 * k + 3)'
    BY <1>2, <2>3, Later
  <2> QED BY <1>1, <1>3, <2>1, <2>2, <2>3 DEF TornAt
<1>4. CASE i \in DOMAIN building /\ building[i].content # c
  BY <1>1, <1>4 DEF TornAt
<1>5. CASE i \notin DOMAIN building
  <2>1. Since(n, s, 2 * k + 1)
    BY <1>1, <1>5 DEF TornAt
  <2>2. Since(n, s, 2 * k + 1)'
    BY <1>2, <2>1, Later
  <2> QED BY <1>1, <1>5, <2>2 DEF TornAt
<1> QED BY <1>3, <1>4, <1>5

LEMMA PassedNat == StageInv => Passed \in Nat
<1> SUFFICES ASSUME StageInv PROVE Passed \in Nat
  OBVIOUS
<1>1. pc = "recheck" => Len(cases["fragile"]) > 0 /\ pc \notin Reporting
  BY DEF StageInv, Counting, Reporting
<1>2. Len(cases["fragile"]) \in Nat /\ Len(cases["resilient"]) \in Nat
  BY CaseLengths DEF StageInv
<1> DEFINE f == Len(cases["fragile"])
           r == Len(cases["resilient"])
<1>3. Passed = (f + r) - (IF pc = "recheck" THEN 1 ELSE 0)
                 + (IF pc \in Reporting THEN 1 ELSE 0)
  BY DEF Passed
<1> HIDE DEF f, r
<1>4. f \in Nat /\ r \in Nat /\ (pc = "recheck" => f > 0 /\ pc \notin Reporting)
  BY <1>1, <1>2 DEF f, r
<1> QED BY <1>3, <1>4

\* The file of a torn entry was read to be parsed: if it is what was parsed
\* before, somebody wrote it back.
LEMMA TornRead ==
  ASSUME StageInv, TornInv, ReadScenario, pc' # "error", pc # "manifest",
         NEW i \in DOMAIN manifest, manifest[i].sha # manifest[i].content
  PROVE  TornAt(i, Passed)'
<1>1. disk' = disk /\ writes' = writes /\ manifest' = manifest /\ cases' = cases
  BY DEF ReadScenario
<1>2. pc \in {"recheck", "final"} /\ pc' = pc
  BY ReadFields DEF StageInv
<1>3. PICK k, p : k = Len(building) /\ p = Passed
  OBVIOUS
<1>4. /\ k \in Nat /\ DOMAIN building' = 1..(k + 1) /\ DOMAIN building = 1..k
      /\ \A j \in 1..k : building'[j] = building[j]
      /\ building'[k + 1].content = disk[Suite[k + 1]]
      /\ building'[k + 1].sha = Unread
  BY <1>2, <1>3, ReadFields DEF StageInv
<1>5. TornAt(i, p) /\ manifest[i].sha # Unread
  BY <1>2, <1>3 DEF TornInv, StageInv, Prepared
<1>6. Passed' = p
  BY <1>1, <1>2, <1>3 DEF Passed, Reporting
<1>7. writes \in Nat /\ p \in Nat
  BY <1>3, PassedNat DEF StageInv, SuiteType
<1>8. CASE i \in 1..k
  <2>1. TornAt(i, p)'
    BY <1>1, <1>4, <1>5, <1>8 DEF TornAt, Since
  <2> QED BY <1>6, <2>1 DEF TornAt
<1>9. CASE i = k + 1
  <2>1. PICK n, c, s : n = Suite[i] /\ c = manifest[i].content /\ s = manifest[i].sha
    OBVIOUS
  <2>2. Since(n, s, 2 * p + 1) /\ c # s
    BY <1>4, <1>5, <1>7, <1>9, <2>1 DEF TornAt
  <2>3. disk[n] = c => writes >= 2 * p + 2
    BY <1>7, <2>2 DEF Since
  <2>4. disk[n] = c => Since(n, c, 2 * p + 2)'
    BY <1>1, <2>3 DEF Since
  <2> QED BY <1>1, <1>4, <1>5, <1>6, <1>9, <2>1, <2>4 DEF TornAt
<1>10. CASE i \notin 1..(k + 1)
  <2>1. TornAt(i, p)'
    BY <1>1, <1>4, <1>5, <1>10 DEF TornAt, Since
  <2> QED BY <1>6, <2>1 DEF TornAt
<1> QED BY <1>4, <1>8, <1>9, <1>10

\* It was read again for its hash: if that is the hash of the manifest, somebody
\* wrote it once more.
LEMMA TornHash ==
  ASSUME StageInv, TornInv, HashScenario, pc \notin {"manifest", "error"},
         NEW i \in DOMAIN manifest, manifest[i].sha # manifest[i].content
  PROVE  TornAt(i, Passed)'
<1>1. /\ disk' = disk /\ writes' = writes /\ manifest' = manifest
      /\ cases' = cases /\ pc' = pc
  BY DEF HashScenario
<1>2. PICK k, p : k = Len(building) /\ p = Passed
  OBVIOUS
<1>3. /\ k \in DOMAIN building /\ DOMAIN building = 1..k /\ DOMAIN building' = 1..k
      /\ \A j \in 1..k : j # k => building'[j] = building[j]
      /\ building[k].sha = Unread
      /\ building'[k].content = building[k].content
      /\ building'[k].sha = disk[Suite[k]] /\ building'[k].sha # Unread
  BY <1>2, HashFields DEF StageInv
<1>4. TornAt(i, p)
  BY <1>2 DEF TornInv
<1>5. Passed' = p
  BY <1>1, <1>2 DEF Passed, Reporting
<1>6. writes \in Nat /\ p \in Nat
  BY <1>2, PassedNat DEF StageInv, SuiteType
<1>7. CASE i # k
  <2>1. TornAt(i, p)'
    BY <1>1, <1>3, <1>4, <1>7 DEF TornAt, Since
  <2> QED BY <1>5, <2>1 DEF TornAt
<1>8. CASE i = k
  <2>1. PICK n, c, s : n = Suite[i] /\ c = manifest[i].content /\ s = manifest[i].sha
    OBVIOUS
  <2>2. building[k].content = c => Since(n, c, 2 * p + 2)
    BY <1>3, <1>4, <1>8, <2>1 DEF TornAt
  <2>3. building[k].content = c /\ disk[n] = s => writes >= 2 * p + 3
    BY <1>6, <2>1, <2>2 DEF Since
  <2>4. building[k].content = c /\ disk[n] = s => Since(n, s, 2 * p + 3)'
    BY <1>1, <2>3 DEF Since
  <2> QED BY <1>1, <1>3, <1>5, <1>8, <2>1, <2>4 DEF TornAt
<1> QED BY <1>7, <1>8

\* The recheck found what the manifest says.
LEMMA TornRecheck ==
  ASSUME StageInv, TornInv, Recheck, pc' # "error",
         NEW i \in DOMAIN manifest, manifest[i].sha # manifest[i].content
  PROVE  TornAt(i, Passed)'
<1>1. /\ pc \in {"recheck", "final"} /\ building = manifest /\ building' = <<>>
      /\ disk' = disk /\ writes' = writes /\ manifest' = manifest /\ cases' = cases
      /\ pc' \in {"case", "final", "report"}
      /\ pc = "final" <=> pc' = "report"
  BY DEF Recheck
<1>2. PICK p : p = Passed
  OBVIOUS
<1>3. TornAt(i, p) /\ p \in Nat
  BY <1>1, <1>2, PassedNat DEF TornInv
<1>4. Since(Suite[i], manifest[i].sha, 2 * p + 3)
  BY <1>1, <1>3 DEF TornAt
<1>5. Passed' = p + 1
  <2>1. PICK f, r : /\ f = Len(cases["fragile"]) /\ r = Len(cases["resilient"])
                    /\ f \in Nat /\ r \in Nat
    BY CaseLengths DEF StageInv
  <2>2. p = (f + r) - (IF pc = "recheck" THEN 1 ELSE 0)
              + (IF pc \in Reporting THEN 1 ELSE 0)
    BY <1>2, <2>1 DEF Passed
  <2>3. Passed' = (f + r) - (IF pc' = "recheck" THEN 1 ELSE 0)
              + (IF pc' \in Reporting THEN 1 ELSE 0)
    BY <1>1, <2>1 DEF Passed
  <2>4. CASE pc = "recheck"
    <3>1. p = (f + r) - 1 + 0
      BY <2>2, <2>4 DEF Reporting
    <3>2. Passed' = (f + r) - 0 + 0
      BY <1>1, <2>3, <2>4 DEF Reporting
    <3> QED BY <2>1, <3>1, <3>2
  <2>5. CASE pc = "final"
    <3>1. p = (f + r) - 0 + 0
      BY <2>2, <2>5 DEF Reporting
    <3>2. Passed' = (f + r) - 0 + 1
      BY <1>1, <2>3, <2>5 DEF Reporting
    <3> QED BY <2>1, <3>1, <3>2
  <2> QED BY <1>1, <2>4, <2>5
<1>6. 2 * (p + 1) + 1 = 2 * p + 3
  BY <1>3
<1>7. Since(Suite[i], manifest[i].sha, 2 * p + 3)'
  BY <1>1, <1>4 DEF Since
<1>8. i \notin DOMAIN building'
  BY <1>1, EmptySeq
<1> QED BY <1>1, <1>5, <1>6, <1>7, <1>8 DEF TornAt

\* A case is closed, and its recheck is still to come.
LEMMA ClosedPassed ==
  ASSUME StageInv, CloseCase, pc' # "error"
  PROVE  Passed' = Passed
<1>1. /\ pc = "drive" /\ pc' = "recheck"
      /\ \A m \in Modes \ {Mode} : cases'[m] = cases[m]
      /\ Len(cases'[Mode]) = Len(cases[Mode]) + 1
  BY CaseClosed DEF StageInv
<1>2. PICK f \in Nat, r \in Nat :
        f = Len(cases["fragile"]) /\ r = Len(cases["resilient"])
  BY CaseLengths DEF StageInv
<1>3. PICK g, s : /\ g = Len(cases'["fragile"]) /\ s = Len(cases'["resilient"])
  OBVIOUS
<1>4. \/ g = f + 1 /\ s = r
      \/ g = f /\ s = r + 1
  BY <1>1, <1>2, <1>3 DEF Mode, Modes
<1>5. Passed = (f + r) - 0 + 0
  BY <1>1, <1>2 DEF Passed, Reporting
<1>6. Passed' = (g + s) - 1 + 0
  BY <1>1, <1>3 DEF Passed, Reporting
<1>7. f \in Nat /\ r \in Nat
  OBVIOUS
<1>8. CASE g = f + 1 /\ s = r
  BY <1>5, <1>6, <1>7, <1>8
<1>9. CASE g = f /\ s = r + 1
  BY <1>5, <1>6, <1>7, <1>9
<1> QED BY <1>4, <1>8, <1>9

LEMMA TornStep ==
  ASSUME StageInv, ListingInv, TornInv, [Next]_vars
  PROVE  TornInv'
<1> SUFFICES ASSUME pc' \notin {"manifest", "error"}, NEW i \in DOMAIN manifest',
                    manifest'[i].sha # manifest'[i].content
             PROVE  TornAt(i, Passed)'
  BY DEF TornInv
<1> DEFINE Kept == /\ pc \notin {"manifest", "error"} /\ Passed' = Passed
                   /\ manifest' = manifest /\ building' = building
<1>1. CASE Kept
  <2>1. PICK p : p = Passed /\ p \in Nat
    BY PassedNat
  <2>2. TornAt(i, p)
    BY <1>1, <2>1 DEF TornInv
  <2>3. TornAt(i, p)'
    BY <1>1, <2>1, <2>2, TornKept
  <2> QED BY <1>1, <2>1, <2>3 DEF TornAt
<1>2. CASE RunStep
  <2>1. Kept
    BY <1>2, RunStepKeeps DEF Passed
  <2> QED BY <1>1, <2>1
<1>3. CASE UNCHANGED vars
  <2>1. Kept
    BY <1>3 DEF Passed, vars, suiteVars
  <2> QED BY <1>1, <2>1
<1>4. CASE LoadScenario \/ Loaded \/ OpenCase \/ EnforceGate
  <2>1. Kept
    BY <1>4 DEF Passed, LoadScenario, Loaded, OpenCase, EnforceGate, suiteVars,
                Reporting
  <2> QED BY <1>1, <2>1
<1>5. CASE WriteReport \/ EditReport
  <2>1. /\ pc \in Reporting /\ pc' \in Reporting /\ cases' = cases
        /\ UNCHANGED suiteVars
    BY <1>5 DEF WriteReport, EditReport, Reporting
  <2>2. Kept
    BY <2>1 DEF Passed, Reporting, suiteVars
  <2> QED BY <1>1, <2>2
<1>6. CASE \E n \in DOMAIN Contents : WriteFile(n)
  <2>1. Kept
    BY <1>6, FileWritten DEF Passed
  <2> QED BY <1>1, <2>1
<1>7. CASE CloseCase
  <2>1. Kept
    BY <1>7, CaseClosed, ClosedPassed DEF StageInv
  <2> QED BY <1>1, <2>1
<1>8. CASE ReadScenario
  <2>1. pc # "manifest" /\ manifest' = manifest
    BY <1>8, ReadFields DEF StageInv, ReadScenario
  <2> QED BY <1>8, <2>1, TornRead
<1>9. CASE HashScenario
  <2>1. pc' = pc /\ manifest' = manifest
    BY <1>9 DEF HashScenario
  <2> QED BY <1>9, <2>1, TornHash
<1>10. CASE Recheck
  <2>1. manifest' = manifest
    BY <1>10 DEF Recheck
  <2> QED BY <1>10, <2>1, TornRecheck
<1>11. CASE Freeze
  <2>1. /\ pc = "manifest" /\ pc' = "load" /\ manifest' = building
        /\ building' = <<>> /\ disk' = disk /\ writes' = writes /\ cases' = cases
    BY <1>11 DEF Freeze
  <2>2. manifest'[i].sha # Unread
    BY <2>1, <1>11, FreezeKeepsStages DEF StageInv, Prepared
  <2>3. Since(Suite[i], building[i].sha, 1)
    BY <2>1, <2>2 DEF ListingInv
  <2>4. Passed' = 0
    <3>1. Len(cases["fragile"]) = 0 /\ Len(cases["resilient"]) = 0
      BY <2>1 DEF StageInv, Counting
    <3>2. Passed' = (0 + 0) - 0 + 0
      BY <2>1, <3>1 DEF Passed, Reporting
    <3> QED BY <3>2
  <2>5. i \notin DOMAIN building' /\ 2 * 0 + 1 = 1
    BY <2>1, EmptySeq
  <2>6. Since(Suite[i], manifest[i].sha, 1)'
    BY <2>1, <2>3 DEF Since
  <2> QED BY <2>4, <2>5, <2>6 DEF TornAt
<1> QED BY <1>2, <1>3, <1>4, <1>5, <1>6, <1>7, <1>8, <1>9, <1>10, <1>11
        DEF Next, Evaluate, RunStep

-----------------------------------------------------------------------------
(* The report *)

\* A case ran a loaded scenario, and used no approval that it does not supply.
RunFields ==
  {"status", "at", "step", "attempt", "context", "code", "approved", "effects",
   "before"}

CasesInv ==
  /\ DOMAIN run = RunFields
  /\ \A m \in Modes : \A i \in DOMAIN cases[m] :
       /\ cases[m][i].ran = loaded[i]
       /\ cases[m][i].claims.approved => loaded[i].supplied
  /\ pc = "drive" /\ Allowed(run) => Scenario.supplied

\* Only the report of an untouched suite is edited.
ReportInv ==
  /\ pc \in {"gate", "done"} /\ ~Edited => report = Report(manifest, cases)
  /\ Edited => writes = 0 /\ pc \in {"gate", "done"}

\* A step of a run approves nothing, unless it is Approve.
LEMMA AllowedStep ==
  ASSUME RunStep, DOMAIN run = RunFields, Allowed(run) => Scenario.supplied
  PROVE  /\ DOMAIN run' = RunFields
         /\ Allowed(run)' => Scenario'.supplied
<1>1. Scenario' = Scenario
  BY RunStepKeeps DEF Scenario, Mode
<1>2. "approved" \in DOMAIN run
  BY DEF RunFields
<1>3. CASE Approve
  BY <1>1, <1>3 DEF Approve, Approvable
<1>4. CASE Enter \/ Exhaust \/ Propose \/ Finish \/ GiveUp \/ Refuse
  <2>1. run'.approved = run.approved /\ DOMAIN run' = DOMAIN run
    BY <1>2, <1>4 DEF Enter, Exhaust, Propose, Finish, GiveUp, Refuse
  <2> QED BY <1>1, <2>1 DEF Allowed
<1>5. CASE Wait \/ StartCall \/ Succeed \/ Checkpoint \/ Fail
  <2>1. run'.approved = run.approved /\ DOMAIN run' = DOMAIN run
    BY <1>2, <1>5 DEF Wait, StartCall, Succeed, Checkpoint, Fail
  <2> QED BY <1>1, <2>1 DEF Allowed
<1>6. CASE Attempted
  <2>1. run'.approved = run.approved /\ DOMAIN run' = DOMAIN run
    BY <1>2, <1>6 DEF Attempted
  <2> QED BY <1>1, <2>1 DEF Allowed
<1> QED BY <1>3, <1>4, <1>5, <1>6 DEF RunStep

\* While cases are run, the scenarios stay what they are.
LEMMA LoadedKept ==
  ASSUME StageInv, [Next]_vars, NEW m \in Modes, NEW i \in DOMAIN cases[m]
  PROVE  loaded' = loaded
<1>1. pc # "load"
  BY CaseLengths DEF StageInv, Counting, Modes
<1> QED BY <1>1, DirectoryStep DEF LoadScenario

LEMMA CasesStep ==
  ASSUME StageInv, CasesInv, [Next]_vars
  PROVE  CasesInv'
<1>1. ASSUME NEW m \in Modes, NEW i \in DOMAIN cases'[m]
      PROVE  /\ cases'[m][i].ran = loaded'[i]
             /\ cases'[m][i].claims.approved => loaded'[i].supplied
  <2>1. CASE cases' = cases
    BY <1>1, <2>1, LoadedKept DEF CasesInv
  <2>2. CASE CloseCase /\ cases' # cases
    <3>1. /\ pc = "drive" /\ loaded' = loaded
          /\ \A q \in Modes \ {Mode} : cases'[q] = cases[q]
          /\ LET k == Len(cases[Mode])
             IN  /\ k \in Nat /\ DOMAIN cases[Mode] = 1..k
                 /\ DOMAIN cases'[Mode] = 1..(k + 1)
                 /\ \A j \in 1..k : cases'[Mode][j] = cases[Mode][j]
                 /\ cases'[Mode][k + 1] = Case
      BY <2>2, CaseClosed DEF StageInv
    <3>2. CASE m # Mode
      BY <1>1, <3>1, <3>2 DEF CasesInv
    <3>3. CASE m = Mode
      <4>1. PICK k : k = Len(cases[Mode])
        OBVIOUS
      <4>2. i \in 1..k \/ i = k + 1
        BY <3>1, <3>3, <4>1
      <4>3. CASE i \in 1..k
        BY <1>1, <3>1, <3>3, <4>1, <4>3 DEF CasesInv
      <4>4. CASE i = k + 1
        <5>1. /\ Case.ran = loaded[k + 1]
              /\ Case.claims.approved => loaded[k + 1].supplied
          <6>1. Scenario = loaded[k + 1]
            BY <4>1 DEF Scenario
          <6>2. Case.claims.approved = Allowed(run)
            BY CaseFields, ClaimsFields
          <6> QED BY <3>1, <6>1, <6>2, CaseFields DEF CasesInv
        <5> QED BY <3>1, <3>3, <4>1, <4>4, <5>1
      <4> QED BY <4>2, <4>3, <4>4
    <3> QED BY <3>2, <3>3
  <2> QED BY <2>1, <2>2, DirectoryStep
<1>2. /\ DOMAIN run' = RunFields
      /\ pc' = "drive" /\ Allowed(run)' => Scenario'.supplied
  <2>1. CASE RunStep
    BY <2>1, AllowedStep, RunStepKeeps DEF CasesInv
  <2>2. CASE OpenCase
    BY <2>2 DEF OpenCase, NoRun, NoStep, Allowed, RunFields
  <2>3. CASE UNCHANGED vars
    BY <2>3 DEF vars, caseVars, suiteVars, Allowed, Scenario, Mode, CasesInv
  <2>4. CASE \E n \in DOMAIN Contents : WriteFile(n)
    <3>1. pc' = pc /\ loaded' = loaded /\ cases' = cases /\ run' = run
      BY <2>4, FileWritten
    <3> QED BY <3>1 DEF Allowed, Scenario, Mode, CasesInv
  <2>5. CASE CloseCase
    <3>1. run' = run /\ pc' # "drive"
      BY <2>5, CaseClosed DEF StageInv
    <3> QED BY <3>1 DEF CasesInv
  <2>6. CASE ReadScenario \/ HashScenario \/ Freeze \/ LoadScenario \/ Loaded
             \/ Recheck
    <3>1. run' = run
      BY <2>6 DEF ReadScenario, HashScenario, Freeze, LoadScenario, Loaded, Recheck,
                  caseVars
    <3>2. pc' # "drive"
      <4>1. CASE HashScenario
        BY <4>1, HashFields DEF HashScenario, StageInv, Prepared, Running
      <4> QED BY <2>6, <4>1, ReadFields DEF ReadScenario, Freeze, LoadScenario,
                 Loaded, Recheck, StageInv
    <3> QED BY <3>1, <3>2 DEF CasesInv
  <2>7. CASE WriteReport \/ EnforceGate \/ EditReport
    <3>1. run' = run /\ pc' # "drive"
      BY <2>7 DEF WriteReport, EnforceGate, EditReport, caseVars
    <3> QED BY <3>1 DEF CasesInv
  <2> QED BY <2>1, <2>2, <2>3, <2>4, <2>5, <2>6, <2>7 DEF Next, Evaluate, RunStep
<1> QED BY <1>1, <1>2 DEF CasesInv

LEMMA ReportStep ==
  ASSUME StageInv, ReportInv, [Next]_vars
  PROVE  ReportInv'
<1> DEFINE Kept == /\ report' = report /\ edits' = edits
                   /\ manifest' = manifest /\ cases' = cases
<1>1. ASSUME Kept, pc \in {"gate", "done"} <=> pc' \in {"gate", "done"},
             writes' = writes
      PROVE  ReportInv'
  BY <1>1 DEF ReportInv, Edited
<1>2. ASSUME edits' = edits, pc \notin {"gate", "done"}, pc' \notin {"gate", "done"}
      PROVE  ReportInv'
  BY <1>2 DEF ReportInv, Edited
<1>3. CASE RunStep
  BY <1>1, <1>3, RunStepKeeps
<1>4. CASE UNCHANGED vars
  BY <1>1, <1>4 DEF vars, suiteVars, reportVars
<1>5. CASE \E n \in DOMAIN Contents : WriteFile(n)
  BY <1>2, <1>5, FileWritten DEF Reporting
<1>6. CASE CloseCase
  BY <1>2, <1>6, CaseClosed DEF StageInv
<1>7. CASE LoadScenario \/ Loaded \/ OpenCase \/ Freeze \/ Recheck
  BY <1>2, <1>7 DEF LoadScenario, Loaded, OpenCase, Freeze, Recheck, reportVars
<1>8. CASE ReadScenario
  BY <1>2, <1>8, ReadFields DEF StageInv, ReadScenario, reportVars
<1>9. CASE HashScenario
  <2>1. pc' = pc /\ pc \notin {"gate", "done"} /\ edits' = edits
    BY <1>9 DEF HashScenario, Unhashed, StageInv, Prepared, Reporting, reportVars
  <2> QED BY <1>2, <2>1
<1>10. CASE EnforceGate
  BY <1>1, <1>10 DEF EnforceGate, reportVars, suiteVars
<1>11. CASE WriteReport
  <2>1. /\ report' = Report(manifest, cases) /\ pc = "report" /\ pc' = "gate"
        /\ cases' = cases /\ edits' = edits /\ UNCHANGED suiteVars
    BY <1>11 DEF WriteReport
  <2>2. manifest' = manifest
    BY <2>1 DEF suiteVars
  <2>3. report' = Report(manifest', cases')
    BY <2>1, <2>2
  <2> QED BY <2>1, <2>3 DEF ReportInv, Edited
<1>12. CASE EditReport
  <2>1. /\ pc = "gate" /\ pc' = pc /\ writes = 0 /\ writes' = writes
        /\ edits' = edits + 1
    BY <1>12 DEF EditReport
  <2>2. edits \in Nat
    BY DEF StageInv, SuiteType
  <2>3. edits' > 0
    BY <2>1, <2>2
  <2> QED BY <2>1, <2>3 DEF ReportInv, Edited
<1> QED BY <1>3, <1>4, <1>5, <1>6, <1>7, <1>8, <1>9, <1>10, <1>11, <1>12
        DEF Next, Evaluate, RunStep

-----------------------------------------------------------------------------

EvaluationInv ==
  StageInv /\ ReadsInv /\ ListingInv /\ TornInv /\ CasesInv /\ ReportInv

LEMMA EvaluationStart == Init => EvaluationInv
<1> SUFFICES ASSUME Init PROVE EvaluationInv
  OBVIOUS
<1>1. DOMAIN <<>> = {}
  BY EmptySeq
<1>2. /\ building = <<>> /\ manifest = <<>> /\ loaded = <<>>
      /\ pc = "manifest" /\ edits = 0 /\ run = NoRun
      /\ \A m \in Modes : cases[m] = <<>>
  BY DEF Init
<1>3. ReadsInv /\ ListingInv /\ TornInv
  BY <1>1, <1>2 DEF ReadsInv, ListingInv, TornInv
<1>4. DOMAIN run = RunFields
  BY <1>2 DEF NoRun, RunFields
<1>5. CasesInv /\ ReportInv
  BY <1>1, <1>2, <1>4 DEF CasesInv, ReportInv, Edited
<1> QED BY <1>3, <1>5, StageStart DEF EvaluationInv

LEMMA EvaluationStep == EvaluationInv /\ [Next]_vars => EvaluationInv'
BY StageStep, ReadsStep, ListingStep, TornStep, CasesStep, ReportStep
   DEF EvaluationInv

LEMMA Evaluates == Spec => []EvaluationInv
BY EvaluationStart, EvaluationStep, PTL DEF Spec

\* What the gate accepts has intact cases, of the entries of the manifest.
LEMMA AcceptedCases ==
  ASSUME StageInv, ReportInv, Accepted, ~Edited,
         NEW m \in Modes, NEW i \in DOMAIN Suite
  PROVE  CaseIntact(cases[m][i], manifest[i].content)
<1>1. pc = "done" /\ Intact(report)
  BY DEF Accepted, verdict, Verdict
<1>2. report = Report(manifest, cases)
  BY <1>1 DEF ReportInv
<1>3. report.manifest = manifest /\ report.modes[m].cases = cases[m]
  BY <1>2 DEF Report, Modes
<1>4. i \in DOMAIN cases[m]
  <2>1. Len(cases[m]) = Len(Suite)
    BY <1>1 DEF StageInv, Counting, Modes, Reporting
  <2> QED BY <2>1, CaseLengths, SuiteFiles DEF StageInv
<1> QED BY <1>1, <1>3, <1>4 DEF Intact

\* Scenarios that agree in their actions and in the faults they declare have
\* the same faults.
LEMMA SameDeclared ==
  ASSUME NEW a \in ScenarioFiles, NEW b \in ScenarioFiles,
         Declared(a) = Declared(b)
  PROVE  a.faults = b.faults
<1>1. ASSUME NEW x \in ScenarioFiles, NEW y \in ScenarioFiles,
             Declared(x) = Declared(y), NEW f \in x.faults
      PROVE  f \in y.faults
  <2> DEFINE d(s, g) == [step |-> Min(Targets(s, g)) - 1, tool |-> g.tool,
                         attempt |-> g.attempt, type |-> g.type]
  <2>1. d(x, f) \in Declared(y)
    BY <1>1 DEF Declared
  <2>2. PICK g \in y.faults : d(x, f) = d(y, g)
    BY <2>1 DEF Declared
  <2>3. f.tool = g.tool /\ f.attempt = g.attempt /\ f.type = g.type
    BY <2>2
  <2>4. f \in [tool : STRING, attempt : Nat \ {0}, type : DOMAIN FaultFailure]
        /\ g \in [tool : STRING, attempt : Nat \ {0}, type : DOMAIN FaultFailure]
    <3>1. x.faults \in SUBSET [tool : STRING, attempt : Nat \ {0},
                               type : DOMAIN FaultFailure]
          /\ y.faults \in SUBSET [tool : STRING, attempt : Nat \ {0},
                               type : DOMAIN FaultFailure]
      BY DEF ScenarioFiles
    <3> QED BY <1>1, <3>1
  <2>5. f = g
    BY <2>3, <2>4
  <2> QED BY <2>5
<1> QED BY <1>1, ZenonT(30)

LEMMA SameFile ==
  ASSUME NEW a \in ScenarioFiles, NEW b \in ScenarioFiles,
         a.actions = b.actions, a.faults = b.faults,
         a.expected = b.expected, a.sequence = b.sequence
  PROVE  a = [b EXCEPT !.supplied = a.supplied]
BY DEF ScenarioFiles

LEMMA RanItsSuite == EvaluationInv => ReportRanItsSuite
<1> SUFFICES ASSUME EvaluationInv, Accepted, NEW i \in DOMAIN Suite
             PROVE  LET listed == manifest[i].content
                    IN  /\ manifest[i].sha # listed => writes > 2 * Rechecks
                        /\ loaded[i] = [listed EXCEPT !.supplied = loaded[i].supplied]
                        /\ \A m \in Modes :
                             cases[m][i].claims.approved =>
                               loaded[i].supplied = listed.supplied
  BY DEF ReportRanItsSuite
<1> DEFINE listed == manifest[i].content
<1> USE DEF EvaluationInv
<1>1. pc = "done"
  BY DEF Accepted, verdict
<1>2. i \in DOMAIN manifest /\ i \in DOMAIN loaded
  BY <1>1, SuiteFiles, LenProperties DEF StageInv, SuiteType, Prepared
<1>3. listed \in ScenarioFiles /\ loaded[i] \in ScenarioFiles
  <2>1. manifest[i] \in Entries /\ loaded[i] \in ScenarioFiles
    BY <1>2, ElementOfSeq, LenProperties DEF StageInv, SuiteType
  <2> QED BY <2>1 DEF Entries
<1>4. manifest[i].sha # listed => writes > 2 * Rechecks
  <2> SUFFICES ASSUME manifest[i].sha # listed PROVE writes > 2 * Rechecks
    OBVIOUS
  <2>1. PICK n : n = Len(Suite) /\ n \in Nat
    BY SuiteFiles
  <2>2. Passed = (n + n) - 0 + 1
    BY <1>1, <2>1 DEF StageInv, Counting, Passed, Reporting
  <2>3. i \notin DOMAIN building
    BY <1>1, EmptySeq DEF StageInv, Prepared, Reporting
  <2>4. TornAt(i, Passed)
    BY <1>1, <1>2 DEF TornInv
  <2>5. writes >= 2 * Passed + 1
    BY <2>3, <2>4 DEF TornAt, Since
  <2>6. writes \in Nat
    BY DEF StageInv, SuiteType
  <2> QED BY <2>1, <2>2, <2>5, <2>6 DEF Rechecks
<1>5. CASE Edited
  <2>1. writes = 0
    BY <1>5 DEF ReportInv
  <2>2. loaded[i] = listed
    BY <1>2, <2>1 DEF ReadsInv, Since
  <2>3. loaded[i] = [listed EXCEPT !.supplied = loaded[i].supplied]
    BY <1>3, <2>2, SameFile
  <2> QED BY <1>4, <2>2, <2>3
<1>6. CASE ~Edited
  <2>1. ASSUME NEW m \in Modes
        PROVE  /\ loaded[i].actions = listed.actions
               /\ loaded[i].expected = listed.expected
               /\ loaded[i].sequence = listed.sequence
               /\ Declared(loaded[i]) = Declared(listed)
               /\ cases[m][i].claims.approved => loaded[i].supplied /\ listed.supplied
    <3>1. CaseIntact(cases[m][i], listed)
      BY <1>6, <2>1, AcceptedCases
    <3>2. i \in DOMAIN cases[m]
      BY <1>1, <2>1, SuiteFiles, CaseLengths
         DEF StageInv, Counting, Modes, Reporting
    <3>3. /\ cases[m][i].ran = loaded[i]
          /\ cases[m][i].claims.approved => loaded[i].supplied
      BY <2>1, <3>2 DEF CasesInv
    <3> QED BY <3>1, <3>3 DEF CaseIntact
  <2>2. "fragile" \in Modes
    BY DEF Modes
  <2>3. loaded[i].faults = listed.faults
    BY <1>3, <2>1, <2>2, SameDeclared
  <2>4. loaded[i] = [listed EXCEPT !.supplied = loaded[i].supplied]
    BY <1>3, <2>1, <2>2, <2>3, SameFile
  <2>5. loaded[i].supplied \in BOOLEAN /\ listed.supplied \in BOOLEAN
    BY <1>3 DEF ScenarioFiles
  <2> QED BY <1>4, <2>1, <2>4, <2>5
<1> QED BY <1>5, <1>6

\* A report the gate takes ran what its manifest lists (ReportRanItsSuite), for
\* every suite, whatever its files may hold and however often they are written:
\* the gate compares each case with its entry, and a file whose bytes are not
\* those that were parsed for its entry has to be written twice more in every
\* recheck for the evaluation to end.
THEOREM ReportsRanTheirSuite == Spec => []ReportRanItsSuite
BY Evaluates, RanItsSuite, PTL

-----------------------------------------------------------------------------
(* The two modes *)

\* The steps of a run as functions of its scenario, its mode and its state.
NextRun(c, m, r) ==
  LET a == ActionAt(c.actions, r.step)
      failure == FaultFailure[FaultAt(c, r)]
      dispatched ==
        IF a.type = "finish"
        THEN [r EXCEPT !.status = "succeeded", !.code = a.result, !.at = "stopped"]
        ELSE IF a.type = "fail"
        THEN [r EXCEPT !.at = "fail", !.code = a.result]
        ELSE IF ~a.valid
        THEN [r EXCEPT !.at = "fail", !.code = "invalid_input"]
        ELSE IF RequiresApproval(a) /\ r.approved # r.step
        THEN [r EXCEPT !.status = "waiting_approval", !.at = "stopped"]
        ELSE [r EXCEPT !.at = "attempt", !.attempt = 1]
      attempted ==
        IF FaultAt(c, r) = "none"
        THEN [r EXCEPT !.at = "checkpoint",
                       !.effects = IF IsWrite(a) THEN @ + 1 ELSE @]
        ELSE IF failure.transient /\ r.attempt < AttemptLimit(m)
        THEN [r EXCEPT !.attempt = @ + 1]
        ELSE [r EXCEPT !.at = "fail", !.code = failure.code]
  IN  CASE r.at = "enter" -> [r EXCEPT !.status = "running", !.at = "propose"]
        [] r.at = "propose" ->
             IF a = NoAction THEN [r EXCEPT !.at = "fail", !.code = "policy_error"]
             ELSE [r EXCEPT !.at = "dispatch"]
        [] r.at = "dispatch" -> dispatched
        [] r.at = "attempt" -> attempted
        [] r.at = "checkpoint" ->
             [r EXCEPT !.at = "propose", !.step = @ + 1, !.attempt = 0,
                       !.context = Append(@, [step |-> r.step, tool |-> a.tool,
                                              output |-> Output(a)])]
        [] r.at = "fail" -> [r EXCEPT !.status = "failed", !.at = "stopped"]
        [] r.at = "stopped" -> [r EXCEPT !.at = "enter", !.approved = r.step,
                                         !.before = r.effects]

NextTrace(c, r, t) ==
  LET a == ActionAt(c.actions, r.step)
      here(type, data) == <<Event(type, r.step, a.tool, 0, 0, data)>>
      during(type, data) == Event(type, r.step, a.tool, r.attempt, 0, data)
      ended(type, data) == <<Event(type, -1, "none", 0, 0, data)>>
      context == Append(r.context, [step |-> r.step, tool |-> a.tool,
                                    output |-> Output(a)])
      fault == FaultAt(c, r)
      dispatched ==
        IF a.type = "finish" THEN t \o ended("run.succeeded", a.result)
        ELSE IF a.type = "fail" THEN t
        ELSE IF ~a.valid THEN t \o here("tool.preflight.failed", "invalid_input")
        ELSE IF RequiresApproval(a) /\ r.approved # r.step
        THEN t \o here("run.waiting_approval", a)
        ELSE t
      attempted ==
        IF fault = "none"
        THEN t \o <<during("tool.attempt.started", "none"),
                    during("tool.attempt.succeeded", Output(a))>>
        ELSE t \o (<<during("tool.attempt.started", "none"),
                     during("fault.injected", fault)>>
                   \o (IF fault = "malformed_output"
                       THEN <<during("tool.output.validation_failed", "none")>>
                       ELSE <<>>)
                   \o <<during("tool.attempt.failed", FaultFailure[fault])>>)
  IN  CASE r.at = "enter" -> t \o ended("run.running", r.status)
        [] r.at = "propose" -> IF a = NoAction THEN t ELSE t \o here("policy.action", a)
        [] r.at = "dispatch" -> dispatched
        [] r.at = "attempt" -> attempted
        [] r.at = "checkpoint" ->
             t \o <<during("run.checkpointed",
                           [output |-> Output(a), context |-> context])>>
        [] r.at = "fail" -> t \o ended("run.failed", r.code)
        [] r.at = "stopped" ->
             t \o here("approval.recorded",
                       [action |-> a, actor |-> Reviewer, allow |-> TRUE])

LEMMA RunFollows ==
  ASSUME RunStep
  PROVE  /\ run' = NextRun(Scenario, Mode, run)
         /\ trace' = NextTrace(Scenario, run, trace)
<1>1. CASE Enter
  BY <1>1 DEF Enter, Drive, Logged, NextRun, NextTrace
<1>2. CASE Exhaust
  BY <1>2 DEF Exhaust, Drive, Action, NextRun, NextTrace
<1>3. CASE Propose
  BY <1>3 DEF Propose, Drive, Logged, Here, Action, NextRun, NextTrace
<1>4. CASE Finish
  BY <1>4 DEF Finish, Drive, Logged, Action, NextRun, NextTrace
<1>5. CASE GiveUp
  BY <1>5 DEF GiveUp, Drive, Action, NextRun, NextTrace
<1>6. CASE Refuse
  BY <1>6 DEF Refuse, Drive, Logged, Here, Action, NextRun, NextTrace
<1>7. CASE Wait
  BY <1>7 DEF Wait, MustWait, Drive, Logged, Here, Action, NextRun, NextTrace
<1>8. CASE StartCall
  BY <1>8 DEF StartCall, MustWait, Drive, Action, NextRun, NextTrace
<1>9. CASE Attempted
  BY <1>9 DEF Attempted, FaultNow, FailingAttempt, InAttemptEvent, Drive, Logged,
              Action, NextRun, NextTrace
<1>10. CASE Succeed
  BY <1>10 DEF Succeed, FaultNow, InAttemptEvent, Drive, Logged, Action, NextRun,
               NextTrace
<1>11. CASE Checkpoint
  BY <1>11 DEF Checkpoint, InAttemptEvent, Drive, Logged, Action, NextRun, NextTrace
<1>12. CASE Fail
  BY <1>12 DEF Fail, Drive, Logged, NextRun, NextTrace
<1>13. CASE Approve
  BY <1>13 DEF Approve, Approvable, Waiting, Drive, Logged, Here, Action, NextRun,
               NextTrace
<1> QED BY <1>1, <1>2, <1>3, <1>4, <1>5, <1>6, <1>7, <1>8, <1>9, <1>10, <1>11,
           <1>12, <1>13 DEF RunStep

\* The state of the run of a case, and the state after its next step.
Now == [run |-> run, trace |-> trace]

Begin == [run |-> NoRun, trace |-> <<>>]

Follow(c, m, s) ==
  [run |-> NextRun(c, m, s.run), trace |-> NextTrace(c, s.run, s.trace)]

\* No step is left: the run stopped and nothing approves it.
Ended(c, s) ==
  /\ s.run.at = "stopped"
  /\ ~(s.run.status = "waiting_approval" /\ c.supplied /\ ~Allowed(s.run))

\* h is the run of scenario c in fragile mode, as far as state n.
Path(h, n, c) ==
  /\ n \in Nat \ {0} /\ h[1] = Begin
  /\ \A k \in 1..(n - 1) : ~Ended(c, h[k]) /\ h[k + 1] = Follow(c, "fragile", h[k])

LEMMA StepFollows ==
  ASSUME RunStep
  PROVE  /\ Now' = Follow(Scenario, Mode, Now)
         /\ ~Ended(Scenario, Now)
<1>1. Now' = Follow(Scenario, Mode, Now)
  BY RunFollows DEF Now, Follow
<1>2. ~Ended(Scenario, Now)
  <2>1. CASE Approve
    BY <2>1 DEF Approve, Approvable, Waiting, Drive, Ended, Now
  <2>2. CASE RunStep /\ ~Approve
    <3>1. run.at # "stopped"
      BY <2>2 DEF RunStep, Enter, Exhaust, Propose, Finish, GiveUp, Refuse, Wait,
                  StartCall, Attempted, Succeed, Checkpoint, Fail, Drive
    <3> QED BY <3>1 DEF Ended, Now
  <2> QED BY <2>1, <2>2
<1> QED BY <1>1, <1>2

LEMMA PathStarts ==
  ASSUME NEW c
  PROVE  \E h, n : Path(h, n, c) /\ h[n] = Begin
<1> DEFINE h == [x \in {1} |-> Begin]
<1>1. h[1] = Begin /\ 1..(1 - 1) = {}
  OBVIOUS
<1> HIDE DEF h
<1>2. Path(h, 1, c)
  BY <1>1 DEF Path
<1> QED BY <1>1, <1>2

LEMMA PathGrows ==
  ASSUME NEW c, NEW h, NEW n, Path(h, n, c), ~Ended(c, h[n])
  PROVE  \E g, k : Path(g, k, c) /\ g[k] = Follow(c, "fragile", h[n])
<1> DEFINE next == Follow(c, "fragile", h[n])
           g == [x \in 1..(n + 1) |-> IF x = n + 1 THEN next ELSE h[x]]
<1>1. n \in Nat \ {0}
  BY DEF Path
<1>2. g[n + 1] = next /\ \A k \in 1..n : g[k] = h[k]
  BY <1>1
<1> HIDE DEF g
<1>3. ASSUME NEW k \in 1..n
      PROVE  ~Ended(c, g[k]) /\ g[k + 1] = Follow(c, "fragile", g[k])
  <2>1. \/ k = n
        \/ k \in 1..(n - 1) /\ k + 1 \in 1..n
    BY <1>1
  <2>2. CASE k = n
    BY <1>2, <2>2
  <2>3. CASE k \in 1..(n - 1) /\ k + 1 \in 1..n
    BY <1>2, <2>3 DEF Path
  <2> QED BY <2>1, <2>2, <2>3
<1>4. n + 1 \in Nat \ {0} /\ (n + 1) - 1 = n /\ 1 \in 1..n
  BY <1>1
<1>5. g[1] = Begin
  BY <1>2, <1>4 DEF Path
<1>6. Path(g, n + 1, c)
  BY <1>3, <1>4, <1>5 DEF Path
<1> QED BY <1>2, <1>6

\* The one difference: a transient failure that resilient mode tries again.
Parting(c, r) ==
  /\ r.at = "attempt" /\ FaultAt(c, r) # "none"
  /\ FaultFailure[FaultAt(c, r)].transient /\ ~(r.attempt < 1)

LEMMA ModesAgree ==
  ASSUME NEW c, NEW s, s.run.attempt \in Nat, ~Parting(c, s.run)
  PROVE  Follow(c, "resilient", s) = Follow(c, "fragile", s)
<1>1. /\ AttemptLimit("fragile") = 1 /\ AttemptLimit("resilient") = 2
      /\ s.run.attempt < 1 => s.run.attempt < 2
  BY DEF AttemptLimit
<1>2. NextRun(c, "resilient", s.run) = NextRun(c, "fragile", s.run)
  <2>1. CASE s.run.at = "attempt" /\ FaultAt(c, s.run) # "none"
    BY <1>1, <2>1 DEF Parting, NextRun
  <2>2. CASE s.run.at = "attempt" /\ FaultAt(c, s.run) = "none"
    BY <2>2 DEF NextRun
  <2>3. CASE s.run.at # "attempt"
    BY <2>3 DEF NextRun
  <2> QED BY <2>1, <2>2, <2>3
<1> QED BY <1>2 DEF Follow

\* Where the modes part, fragile mode fails.
LEMMA FragileFails ==
  ASSUME NEW c, NEW h, NEW n, Path(h, n, c), Ended(c, h[n]),
         NEW k \in 1..n, DOMAIN h[k].run = RunFields, Parting(c, h[k].run)
  PROVE  h[n].run.status = "failed"
<1>1. n \in Nat
  BY DEF Path
<1>2. ~Ended(c, h[k])
  BY DEF Parting, Ended
<1>3. k \in 1..(n - 1)
  BY <1>1, <1>2
<1>4. h[k + 1] = Follow(c, "fragile", h[k])
  BY <1>3 DEF Path
<1>5. /\ DOMAIN h[k + 1].run = RunFields /\ h[k + 1].run.at = "fail"
  <2>1. h[k + 1].run = [h[k].run EXCEPT
                          !.at = "fail",
                          !.code = FaultFailure[FaultAt(c, h[k].run)].code]
    BY <1>4 DEF Follow, NextRun, Parting, AttemptLimit
  <2> QED BY <2>1 DEF RunFields
<1>6. ~Ended(c, h[k + 1])
  BY <1>5 DEF Ended
<1>7. k + 1 \in 1..(n - 1)
  <2>1. k + 1 # n
    BY <1>6
  <2> QED BY <1>1, <1>3, <2>1
<1>8. h[k + 1 + 1] = Follow(c, "fragile", h[k + 1])
  BY <1>7 DEF Path
<1>9. h[k + 1 + 1].run.status = "failed" /\ h[k + 1 + 1].run.at = "stopped"
  <2>1. h[k + 1 + 1].run = [h[k + 1].run EXCEPT !.status = "failed", !.at = "stopped"]
    BY <1>5, <1>8 DEF Follow, NextRun
  <2> QED BY <1>5, <2>1 DEF RunFields
<1>10. Ended(c, h[k + 1 + 1])
  BY <1>9 DEF Ended
<1>11. k + 1 + 1 \notin 1..(n - 1)
  BY <1>10 DEF Path
<1>12. k + 1 + 1 = n
  BY <1>1, <1>3, <1>7, <1>11
<1> QED BY <1>9, <1>12

\* What parts them is a transient fault of the scenario.
LEMMA PartingFault ==
  ASSUME NEW c \in ScenarioFiles, NEW r, Parting(c, r),
         NEW observed, SameFaults(Declared(c), observed)
  PROVE  \E j \in DOMAIN observed : observed[j].type \in Transient
<1> DEFINE M == {f \in c.faults : /\ f.tool = ActionAt(c.actions, r.step).tool
                                  /\ f.attempt = r.attempt}
<1>1. M # {} /\ FaultAt(c, r) = (CHOOSE f \in M : TRUE).type
  BY DEF Parting, FaultAt
<1>2. PICK f \in c.faults : FaultAt(c, r) = f.type
  <2>1. (CHOOSE f \in M : TRUE) \in M
    BY <1>1
  <2> QED BY <1>1, <2>1
<1>3. f.type \in DOMAIN FaultFailure
  <2>1. c.faults \in SUBSET [tool : STRING, attempt : Nat \ {0},
                             type : DOMAIN FaultFailure]
    BY DEF ScenarioFiles
  <2>2. f \in [tool : STRING, attempt : Nat \ {0}, type : DOMAIN FaultFailure]
    BY <2>1
  <2> QED BY <2>2
<1>4. f.type \in Transient
  <2>1. FaultFailure[f.type].transient
    BY <1>2 DEF Parting
  <2>2. \A t \in DOMAIN FaultFailure : FaultFailure[t].transient => t \in Transient
    BY DEF FaultFailure, Transient
  <2> QED BY <1>3, <2>1, <2>2
<1>5. PICK d \in Declared(c) : d.type = f.type
  <2> DEFINE e == [step |-> Min(Targets(c, f)) - 1, tool |-> f.tool,
                   attempt |-> f.attempt, type |-> f.type]
  <2>1. e \in Declared(c)
    BY DEF Declared
  <2>2. e.type = f.type
    OBVIOUS
  <2> HIDE DEF e
  <2> QED BY <2>1, <2>2
<1>6. \E j \in DOMAIN observed : observed[j] = d
  BY <1>5 DEF SameFaults, ToSet
<1> QED BY <1>4, <1>5, <1>6

\* The fragile case i is the run whose states are h, n of them.
FragileRan(i, h, n) ==
  /\ Path(h, n, loaded[i]) /\ Ended(loaded[i], h[n])
  /\ cases["fragile"][i].claims = Claims(h[n].run, h[n].trace)

\* Fragile mode lost case i, in which a transient fault was injected.
Lost(i) ==
  LET claims == cases["fragile"][i].claims
  IN  /\ claims.status = "failed"
      /\ \E j \in DOMAIN claims.faults : claims.faults[j].type \in Transient

FragileInv ==
  /\ run.attempt \in Nat
  /\ \A i \in DOMAIN cases["fragile"] :
       /\ SameFaults(Declared(loaded[i]), cases["fragile"][i].claims.faults)
       /\ \E h, n : FragileRan(i, h, n)
  /\ pc = "drive" /\ Mode = "fragile" =>
       \E h, n : Path(h, n, Scenario) /\ h[n] = Now

\* Resilient mode goes through the states of the fragile run, unless it left
\* them at a failure that fragile mode did not survive.
ResilientInv ==
  /\ \A i \in DOMAIN cases["resilient"] :
       \/ cases["resilient"][i].claims = cases["fragile"][i].claims
       \/ Lost(i)
  /\ pc = "drive" /\ Mode = "resilient" =>
       \A i : i = Len(cases["resilient"]) + 1 =>
         \/ Lost(i)
         \/ \E h, n : FragileRan(i, h, n) /\ \E k \in 1..n : h[k] = Now

LEMMA DriveNext ==
  ASSUME StageInv, [Next]_vars, pc' = "drive"
  PROVE  /\ cases' = cases /\ loaded' = loaded
         /\ Mode' = Mode /\ Scenario' = Scenario
         /\ \/ RunStep
            \/ pc = "case" /\ Now' = Begin
            \/ pc = "drive" /\ Now' = Now
<1>1. /\ cases' = cases /\ loaded' = loaded
      /\ \/ RunStep
         \/ pc = "case" /\ Now' = Begin
         \/ pc = "drive" /\ Now' = Now
  <2>1. CASE RunStep
    BY <2>1, RunStepKeeps
  <2>2. CASE OpenCase
    BY <2>2 DEF OpenCase, suiteVars, Now, Begin
  <2>3. CASE UNCHANGED vars
    BY <2>3 DEF vars, suiteVars, caseVars, Now
  <2>4. CASE \E n \in DOMAIN Contents : WriteFile(n)
    BY <2>4, FileWritten DEF Now
  <2>5. CASE CloseCase
    BY <2>5, CaseClosed DEF StageInv
  <2>6. CASE ReadScenario \/ HashScenario \/ Freeze \/ LoadScenario \/ Loaded
             \/ Recheck
    <3>1. CASE HashScenario
      BY <3>1, HashFields DEF HashScenario, StageInv, Prepared, Running
    <3> QED BY <2>6, <3>1, ReadFields DEF ReadScenario, Freeze, LoadScenario,
               Loaded, Recheck, StageInv
  <2>7. CASE WriteReport \/ EnforceGate \/ EditReport
    BY <2>7 DEF WriteReport, EnforceGate, EditReport
  <2> QED BY <2>1, <2>2, <2>3, <2>4, <2>5, <2>6, <2>7 DEF Next, Evaluate, RunStep
<1> QED BY <1>1 DEF Mode, Scenario

LEMMA AttemptStep ==
  ASSUME StageInv, DOMAIN run = RunFields, run.attempt \in Nat, [Next]_vars
  PROVE  run'.attempt \in Nat
<1>1. CASE Enter \/ Exhaust \/ Propose \/ Finish \/ GiveUp \/ Refuse \/ Wait
  BY <1>1 DEF RunFields, Enter, Exhaust, Propose, Finish, GiveUp, Refuse, Wait
<1>2. CASE Succeed \/ Fail \/ Approve
  BY <1>2 DEF RunFields, Succeed, Fail, Approve
<1>6. CASE StartCall \/ Checkpoint
  <2>1. run'.attempt \in {0, 1}
    BY <1>6 DEF RunFields, StartCall, Checkpoint
  <2> QED BY <2>1
<1>3. CASE Attempted
  BY <1>3 DEF RunFields, Attempted
<1>4. CASE OpenCase
  BY <1>4 DEF OpenCase, NoRun
<1>5. CASE ~RunStep /\ ~OpenCase
  <2>1. run' = run
    <3>1. CASE UNCHANGED vars
      BY <3>1 DEF vars, caseVars
    <3>2. CASE \E n \in DOMAIN Contents : WriteFile(n)
      BY <3>2, FileWritten
    <3>3. CASE CloseCase
      BY <3>3, CaseClosed DEF StageInv
    <3>4. CASE ReadScenario \/ HashScenario \/ Freeze \/ LoadScenario \/ Loaded
               \/ Recheck
      BY <3>4 DEF ReadScenario, HashScenario, Freeze, LoadScenario, Loaded, Recheck,
                  caseVars
    <3>5. CASE WriteReport \/ EnforceGate \/ EditReport
      BY <3>5 DEF WriteReport, EnforceGate, EditReport, caseVars
    <3> QED BY <1>5, <3>1, <3>2, <3>3, <3>4, <3>5 DEF Next, Evaluate, RunStep
  <2> QED BY <2>1
<1> QED BY <1>1, <1>2, <1>3, <1>4, <1>5, <1>6 DEF RunStep

\* The case that is closed is that of a run that ended.
LEMMA ClosedRun ==
  ASSUME StageInv, CloseCase, cases' # cases
  PROVE  /\ Ended(Scenario, Now) /\ Gradable
         /\ LET k == Len(cases[Mode])
            IN  /\ cases'[Mode][k + 1].claims = Claims(run, trace)
                /\ \A i \in DOMAIN cases'[Mode] : i \in DOMAIN cases[Mode] \/ i = k + 1
                /\ Scenario = loaded[k + 1]
         /\ \A m \in Modes : \A i \in DOMAIN cases[m] : cases'[m][i] = cases[m][i]
<1>1. /\ pc = "drive" /\ run.at = "stopped" /\ ~Approvable /\ Gradable
      /\ \A m \in Modes \ {Mode} : cases'[m] = cases[m]
      /\ LET k == Len(cases[Mode])
         IN  /\ k \in Nat /\ DOMAIN cases[Mode] = 1..k
             /\ DOMAIN cases'[Mode] = 1..(k + 1)
             /\ \A i \in 1..k : cases'[Mode][i] = cases[Mode][i]
             /\ cases'[Mode][k + 1] = Case
  BY CaseClosed DEF StageInv
<1>2. Ended(Scenario, Now)
  BY <1>1 DEF Ended, Now, Approvable, Waiting, Drive
<1>3. PICK k : k = Len(cases[Mode])
  OBVIOUS
<1>4. \A i \in DOMAIN cases'[Mode] : i \in DOMAIN cases[Mode] \/ i = k + 1
  BY <1>1, <1>3
<1>5. cases'[Mode][k + 1].claims = Claims(run, trace)
  BY <1>1, <1>3, CaseFields
<1>6. Scenario = loaded[k + 1]
  BY <1>3 DEF Scenario
<1>7. \A m \in Modes : \A i \in DOMAIN cases[m] : cases'[m][i] = cases[m][i]
  BY <1>1
<1> QED BY <1>1, <1>2, <1>3, <1>4, <1>5, <1>6, <1>7

LEMMA FragileStep ==
  ASSUME StageInv, CasesInv, FragileInv, [Next]_vars
  PROVE  FragileInv'
<1>1. ASSUME NEW i \in DOMAIN cases'["fragile"]
      PROVE  /\ SameFaults(Declared(loaded'[i]), cases'["fragile"][i].claims.faults)
             /\ \E h, n : FragileRan(i, h, n)'
  <2> DEFINE Told == /\ i \in DOMAIN cases["fragile"] /\ loaded' = loaded
                     /\ cases'["fragile"][i] = cases["fragile"][i]
  <2>1. CASE Told
    <3>1. PICK h, n : FragileRan(i, h, n)
      BY <2>1 DEF FragileInv
    <3>2. FragileRan(i, h, n)'
      BY <2>1, <3>1 DEF FragileRan
    <3>3. SameFaults(Declared(loaded'[i]), cases'["fragile"][i].claims.faults)
      BY <2>1 DEF FragileInv
    <3> QED BY <3>2, <3>3
  <2>2. CASE cases' = cases
    <3>1. loaded' = loaded
      BY <1>1, <2>2, LoadedKept DEF Modes
    <3> QED BY <1>1, <2>1, <2>2, <3>1
  <2>3. CASE CloseCase /\ cases' # cases
    <3>1. loaded' = loaded /\ pc = "drive"
      BY <2>3, CaseClosed DEF StageInv
    <3>2. CASE i \in DOMAIN cases["fragile"]
      BY <2>1, <2>3, <3>1, <3>2, ClosedRun DEF Modes
    <3>3. CASE i \notin DOMAIN cases["fragile"]
      <4>1. Mode = "fragile"
        BY <1>1, <2>3, <3>3, CaseClosed DEF StageInv, Modes
      <4>2. /\ Ended(Scenario, Now) /\ Scenario = loaded[i]
            /\ cases'["fragile"][i].claims = Claims(run, trace)
        BY <1>1, <2>3, <3>3, <4>1, ClosedRun
      <4>3. SameFaults(Declared(Scenario), Claims(run, trace).faults)
        BY <2>3, ClosedRun DEF Gradable
      <4>4. PICK h, n : Path(h, n, Scenario) /\ h[n] = Now
        BY <3>1, <4>1 DEF FragileInv
      <4>5. h[n].run = run /\ h[n].trace = trace
        BY <4>4 DEF Now
      <4>6. FragileRan(i, h, n)'
        BY <3>1, <4>2, <4>4, <4>5 DEF FragileRan
      <4> QED BY <3>1, <4>2, <4>3, <4>6
    <3> QED BY <3>2, <3>3
  <2> QED BY <2>2, <2>3, DirectoryStep
<1>2. ASSUME pc' = "drive", Mode' = "fragile"
      PROVE  \E h, n : Path(h, n, Scenario') /\ h[n] = Now'
  <2>1. Scenario' = Scenario /\ Mode = "fragile"
    BY <1>2, DriveNext
  <2>2. CASE RunStep
    <3>1. pc = "drive"
      BY <2>2, RunStepKeeps
    <3>2. PICK h, n : Path(h, n, Scenario) /\ h[n] = Now
      BY <2>1, <3>1 DEF FragileInv
    <3>3. /\ ~Ended(Scenario, h[n])
          /\ Now' = Follow(Scenario, "fragile", h[n])
      BY <2>1, <2>2, <3>2, StepFollows
    <3> QED BY <2>1, <3>2, <3>3, PathGrows
  <2>3. CASE Now' = Begin
    BY <2>3, PathStarts
  <2>4. CASE pc = "drive" /\ Now' = Now
    BY <2>1, <2>4 DEF FragileInv
  <2> QED BY <1>2, <2>2, <2>3, <2>4, DriveNext
<1>3. run'.attempt \in Nat
  BY AttemptStep DEF CasesInv, FragileInv
<1> QED BY <1>1, <1>2, <1>3 DEF FragileInv

\* The case that resilient mode is about to run, or runs.
LEMMA ResilientCase ==
  ASSUME StageInv, pc \in Running, Mode = "resilient"
  PROVE  LET i == Len(cases["resilient"]) + 1
         IN  /\ i \in DOMAIN cases["fragile"] /\ i \in DOMAIN loaded
             /\ Scenario = loaded[i] /\ loaded[i] \in ScenarioFiles
<1>1. PICK f, r, n : /\ f = Len(cases["fragile"]) /\ r = Len(cases["resilient"])
                     /\ n = Len(Suite)
  OBVIOUS
<1>2. f \in Nat /\ r \in Nat /\ n \in Nat
  BY <1>1, CaseLengths, SuiteFiles DEF StageInv
<1>3. ~(f < n) /\ f <= n /\ (f < n \/ r < n)
  BY <1>1 DEF StageInv, Counting, Mode
<1>4. r + 1 \in 1..n /\ f = n
  BY <1>2, <1>3
<1>5. DOMAIN cases["fragile"] = 1..n
  BY <1>1, <1>4, CaseLengths DEF StageInv, Modes
<1>6. loaded \in Seq(ScenarioFiles) /\ DOMAIN loaded = 1..n /\ Len(loaded) = n
  BY <1>1, LenProperties DEF StageInv, SuiteType, Prepared, Running
<1>7. loaded[r + 1] \in ScenarioFiles
  <2>1. PICK j \in 1..n : j = r + 1
    BY <1>4
  <2>2. loaded[j] \in ScenarioFiles
    BY <1>6, ElementOfSeq
  <2> QED BY <2>1, <2>2
<1> QED BY <1>1, <1>4, <1>5, <1>6, <1>7 DEF Scenario

\* A step of resilient mode from a state of the fragile run.
LEMMA ResilientFollows ==
  ASSUME StageInv, CasesInv, FragileInv, RunStep, Mode = "resilient",
         NEW i, i = Len(cases["resilient"]) + 1,
         NEW h, NEW n, FragileRan(i, h, n), NEW k \in 1..n, h[k] = Now
  PROVE  \/ Lost(i)
         \/ \E j \in 1..n : h[j] = Now'
<1>1. /\ i \in DOMAIN cases["fragile"]
      /\ Scenario = loaded[i] /\ loaded[i] \in ScenarioFiles
  BY ResilientCase, RunStepKeeps DEF Running
<1>2. PICK c \in ScenarioFiles : c = loaded[i]
  BY <1>1
<1>3. /\ Path(h, n, c) /\ Ended(c, h[n]) /\ n \in Nat
      /\ cases["fragile"][i].claims = Claims(h[n].run, h[n].trace)
  BY <1>2 DEF FragileRan, Path
<1>4. Now' = Follow(c, "resilient", h[k]) /\ ~Ended(c, h[k])
  BY <1>1, <1>2, StepFollows
<1>5. k \in 1..(n - 1) /\ k + 1 \in 1..n
  BY <1>3, <1>4
<1>6. h[k + 1] = Follow(c, "fragile", h[k])
  BY <1>3, <1>5 DEF Path
<1>7. h[k].run = run
  BY DEF Now
<1>8. CASE ~Parting(c, run)
  <2>1. h[k].run.attempt \in Nat
    BY <1>7 DEF FragileInv
  <2>2. Now' = h[k + 1]
    BY <1>4, <1>6, <1>7, <1>8, <2>1, ModesAgree
  <2> QED BY <1>5, <2>2
<1>9. CASE Parting(c, run)
  <2>1. h[n].run.status = "failed"
    BY <1>3, <1>7, <1>9, FragileFails DEF CasesInv
  <2>2. cases["fragile"][i].claims.status = "failed"
    BY <1>3, <2>1, ClaimsFields
  <2>3. SameFaults(Declared(c), cases["fragile"][i].claims.faults)
    BY <1>1, <1>2 DEF FragileInv
  <2>4. \E j \in DOMAIN cases["fragile"][i].claims.faults :
          cases["fragile"][i].claims.faults[j].type \in Transient
    BY <1>9, <2>3, PartingFault
  <2> QED BY <2>2, <2>4 DEF Lost
<1> QED BY <1>8, <1>9

LEMMA ResilientStep ==
  ASSUME StageInv, CasesInv, FragileInv, ResilientInv, [Next]_vars
  PROVE  ResilientInv'
<1>1. ASSUME NEW i \in DOMAIN cases'["resilient"]
      PROVE  \/ cases'["resilient"][i].claims = cases'["fragile"][i].claims
             \/ Lost(i)'
  <2>1. CASE cases' = cases
    BY <1>1, <2>1 DEF ResilientInv, Lost
  <2>2. CASE CloseCase /\ cases' # cases
    <3>1. i \in DOMAIN cases["resilient"] \/ Mode = "resilient"
      BY <1>1, <2>2, CaseClosed DEF StageInv, Modes
    <3>2. pc = "drive"
      BY <2>2, CaseClosed DEF StageInv
    <3>3. i \in DOMAIN cases["fragile"]
      <4>1. CASE i \in DOMAIN cases["resilient"]
        <5>1. PICK f, r, n : /\ f = Len(cases["fragile"]) /\ f \in Nat
                             /\ r = Len(cases["resilient"]) /\ r \in Nat
                             /\ n = Len(Suite)
          BY CaseLengths DEF StageInv
        <5>2. DOMAIN cases["fragile"] = 1..f /\ DOMAIN cases["resilient"] = 1..r
          BY <5>1, CaseLengths DEF StageInv, Modes
        <5>3. r <= n /\ (r > 0 => f = n)
          BY <5>1 DEF StageInv, Counting
        <5>4. i \in 1..r
          BY <4>1, <5>2
        <5>5. r \in Nat /\ f \in Nat
          BY <5>1
        <5>6. i \in 1..f
          BY <5>3, <5>4, <5>5
        <5> QED BY <5>2, <5>6
      <4>2. CASE i \notin DOMAIN cases["resilient"]
        <5>1. Mode = "resilient" /\ i = Len(cases["resilient"]) + 1
          BY <1>1, <2>2, <3>1, <4>2, ClosedRun
        <5> QED BY <3>2, <5>1, ResilientCase DEF Running
      <4> QED BY <4>1, <4>2
    <3>4. cases'["fragile"][i] = cases["fragile"][i]
      BY <2>2, <3>3, ClosedRun DEF Modes
    <3>5. Lost(i) => Lost(i)'
      BY <3>4 DEF Lost
    <3>6. CASE i \in DOMAIN cases["resilient"]
      <4>1. cases'["resilient"][i] = cases["resilient"][i]
        BY <2>2, <3>6, ClosedRun DEF Modes
      <4> QED BY <3>4, <3>5, <3>6, <4>1 DEF ResilientInv
    <3>7. CASE i \notin DOMAIN cases["resilient"]
      <4>1. Mode = "resilient" /\ i = Len(cases["resilient"]) + 1
        BY <1>1, <2>2, <3>1, <3>7, ClosedRun
      <4>2. /\ Ended(Scenario, Now) /\ Scenario = loaded[i]
            /\ cases'["resilient"][i].claims = Claims(run, trace)
        BY <2>2, <4>1, ClosedRun
      <4>3. CASE Lost(i)
        BY <3>5, <4>3
      <4>4. CASE ~Lost(i)
        <5>1. PICK h, n : FragileRan(i, h, n) /\ \E k \in 1..n : h[k] = Now
          BY <3>2, <4>1, <4>4 DEF ResilientInv
        <5>2. PICK k \in 1..n : h[k] = Now
          BY <5>1
        <5>3. n \in Nat /\ k \notin 1..(n - 1)
          BY <4>2, <5>1, <5>2 DEF FragileRan, Path
        <5>4. k = n
          BY <5>3
        <5>5. cases["fragile"][i].claims = Claims(run, trace)
          BY <5>1, <5>2, <5>4 DEF FragileRan, Now
        <5> QED BY <3>4, <4>2, <5>5
      <4> QED BY <4>3, <4>4
    <3> QED BY <3>6, <3>7
  <2> QED BY <2>1, <2>2, DirectoryStep
<1>2. ASSUME pc' = "drive", Mode' = "resilient",
             NEW i, i = Len(cases'["resilient"]) + 1
      PROVE  \/ Lost(i)'
             \/ \E h, n : FragileRan(i, h, n)' /\ \E k \in 1..n : h[k] = Now'
  <2>2. cases' = cases /\ loaded' = loaded /\ Mode = "resilient"
    BY <1>2, DriveNext
  <2>1. i = Len(cases["resilient"]) + 1
    BY <1>2, <2>2
  <2>3. Lost(i) => Lost(i)'
    BY <2>2 DEF Lost
  <2>4. \A h, n : FragileRan(i, h, n) => FragileRan(i, h, n)'
    BY <2>2 DEF FragileRan
  <2>5. \/ Lost(i)
        \/ \E h, n : FragileRan(i, h, n) /\ \E k \in 1..n : h[k] = Now'
    <3>1. CASE RunStep
      <4>1. pc = "drive"
        BY <3>1, RunStepKeeps
      <4>2. CASE Lost(i)
        BY <4>2
      <4>3. CASE ~Lost(i)
        <5>1. PICK h, n : FragileRan(i, h, n) /\ \E k \in 1..n : h[k] = Now
          BY <2>1, <2>2, <4>1, <4>3 DEF ResilientInv
        <5>2. PICK k \in 1..n : h[k] = Now
          BY <5>1
        <5> QED BY <2>1, <2>2, <3>1, <4>3, <5>1, <5>2, ResilientFollows
      <4> QED BY <4>2, <4>3
    <3>2. CASE pc = "case" /\ Now' = Begin
      <4>1. i \in DOMAIN cases["fragile"]
        BY <2>1, <2>2, <3>2, ResilientCase DEF Running
      <4>2. PICK h, n : FragileRan(i, h, n)
        BY <4>1 DEF FragileInv
      <4>3. h[1] = Now' /\ 1 \in 1..n
        BY <3>2, <4>2 DEF FragileRan, Path
      <4> QED BY <4>2, <4>3
    <3>3. CASE pc = "drive" /\ Now' = Now
      BY <2>1, <2>2, <3>3 DEF ResilientInv
    <3> QED BY <1>2, <3>1, <3>2, <3>3, DriveNext
  <2> QED BY <2>1, <2>2, <2>3, <2>4, <2>5
<1> QED BY <1>1, <1>2 DEF ResilientInv

-----------------------------------------------------------------------------

ModesInv == EvaluationInv /\ FragileInv /\ ResilientInv

LEMMA ModesStart == Init => ModesInv
<1> SUFFICES ASSUME Init PROVE ModesInv
  OBVIOUS
<1>1. /\ pc = "manifest" /\ run = NoRun /\ DOMAIN <<>> = {}
      /\ cases["fragile"] = <<>> /\ cases["resilient"] = <<>>
  BY EmptySeq DEF Init, Modes
<1>2. run.attempt \in Nat
  BY <1>1 DEF NoRun
<1>3. FragileInv /\ ResilientInv
  BY <1>1, <1>2 DEF FragileInv, ResilientInv
<1> QED BY <1>3, EvaluationStart DEF ModesInv

\* Only retries tell the modes apart (ModesDifferByRetriesOnly), for every suite
\* whose evaluation gets so far: both modes go through the same states until
\* resilient mode tries again where fragile mode gives up, after a transient
\* fault; and there fragile mode fails.
THEOREM OnlyRetriesDiffer == Spec => []ModesDifferByRetriesOnly
<1>1. ModesInv /\ [Next]_vars => ModesInv'
  BY EvaluationStep, FragileStep, ResilientStep DEF ModesInv, EvaluationInv
<1>2. ModesInv => ModesDifferByRetriesOnly
  BY DEF ModesInv, ResilientInv, Lost, ModesDifferByRetriesOnly
<1> QED BY <1>1, <1>2, ModesStart, PTL DEF Spec

=============================================================================
