----------------------------- MODULE ApiServices -----------------------------
(***************************************************************************)
(* The commands of the HTTP service (api/services.py), each on a worker    *)
(* thread: a run is started, or approved or resumed under the lock of      *)
(* RunLocks, and the answer is then read from the store in two queries; an *)
(* evaluation holds the one slot of a semaphore or is refused.             *)
(*                                                                         *)
(* What RunService does is reduced to what an answer shows: while a thread *)
(* owns the run it records attempts and saves the row.  An exception may   *)
(* end any of it.                                                          *)
(***************************************************************************)
EXTENDS RunLocks

CONSTANTS
  MaxRequests, \* bound on the requests of all threads
  MaxSaves     \* bound on the saves, and on the attempts, of a run

ASSUME ServicesAssumption == MaxRequests \in Nat /\ MaxSaves \in Nat \ {0}

VARIABLES
  asked,    \* how many requests came
  kind,     \* what each thread's request asks for
  worker,   \* who holds the execution lease of each run
  attempts, \* tool.attempt.started events of each run
  row,      \* its row: how often it was saved, and with how many attempts
  own,      \* the row a thread's own command returned
  read,     \* the row and the number of attempts its answer shows
  permits   \* the permits left in the evaluation semaphore

runVars == <<worker, attempts, row>>

serviceVars == <<lockVars, asked, kind, runVars, own, read, permits>>

NewRow == [saves |-> 0, attempts |-> 0]

NoAnswer == [row |-> NewRow, attempts |-> 0]

ServiceInit ==
  /\ LocksInit
  /\ asked = 0
  /\ kind = [t \in Threads |-> "none"]
  /\ worker = [r \in Runs |-> Nobody]
  /\ attempts = [r \in Runs |-> 0]
  /\ row = [r \in Runs |-> NewRow]
  /\ own = [t \in Threads |-> NewRow]
  /\ read = [t \in Threads |-> NoAnswer]
  /\ permits = 1

Asked(t, k) ==
  /\ asked < MaxRequests
  /\ asked' = asked + 1
  /\ kind' = [kind EXCEPT ![t] = k]
  /\ own' = [own EXCEPT ![t] = NewRow]
  /\ read' = [read EXCEPT ![t] = NoAnswer]
  /\ UNCHANGED permits

\* approve and resume
Command(t, r) == Hold(t, r) /\ Asked(t, "command") /\ UNCHANGED runVars

\* start: the row of a new id is inserted.  From here others see the run.
Start(t, r) ==
  /\ pc[t] = "idle" /\ row[r].saves = 0
  /\ run' = [run EXCEPT ![t] = r]
  /\ Goto(t, "start")
  /\ Asked(t, "start")
  /\ row' = [row EXCEPT ![r].saves = 1]
  /\ UNCHANGED <<tableVars, worker, attempts>>

Evaluate(t) ==
  /\ pc[t] = "idle"
  /\ Goto(t, "slot")
  /\ Asked(t, "evaluate")
  /\ UNCHANGED <<tableVars, run, runVars>>

-----------------------------------------------------------------------------

Locking(t) ==
  /\ TakeGuard(t) \/ Register(t) \/ Enter(t) \/ CountOut(t) \/ Drop(t)
  /\ UNCHANGED <<asked, kind, runVars, own, read, permits>>

Working(t) == pc[t] \in {"inside", "start"} /\ worker[run[t]] = t

Claim(t) ==
  /\ pc[t] \in {"inside", "start"} /\ kind[t] \in {"command", "start"}
  /\ row[run[t]].saves > 0 /\ worker[run[t]] = Nobody /\ own[t] = NewRow
  /\ worker' = [worker EXCEPT ![run[t]] = t]
  /\ UNCHANGED <<lockVars, asked, kind, attempts, row, own, read, permits>>

\* A resume owns the run first: start does not catch the conflict.
LoseClaim(t) ==
  /\ pc[t] = "start" /\ worker[run[t]] \notin {t, Nobody}
  /\ kind' = [kind EXCEPT ![t] = "error"]
  /\ Goto(t, "left")
  /\ UNCHANGED <<tableVars, run, asked, runVars, own, read, permits>>

RecordAttempt(t) ==
  /\ Working(t) /\ attempts[run[t]] < MaxSaves
  /\ attempts' = [attempts EXCEPT ![run[t]] = @ + 1]
  /\ UNCHANGED <<lockVars, asked, kind, worker, row, own, read, permits>>

SaveRow(t) ==
  /\ Working(t) /\ row[run[t]].saves < MaxSaves
  /\ row' = [row EXCEPT ![run[t]] =
               [saves |-> @.saves + 1, attempts |-> attempts[run[t]]]]
  /\ UNCHANGED <<lockVars, asked, kind, worker, attempts, own, read, permits>>

\* The service returns the run, or raises an exception that becomes an error.
Outcome(t) ==
  \/ /\ row[run[t]].saves > 0
     /\ own' = [own EXCEPT ![t] = row[run[t]]]
     /\ kind' = [kind EXCEPT ![t] = "answer"]
  \/ /\ kind' = [kind EXCEPT ![t] = "error"]
     /\ UNCHANGED own

Done(t) ==
  /\ Working(t)
  /\ Outcome(t)
  /\ worker' = [worker EXCEPT ![run[t]] = Nobody]
  /\ IF pc[t] = "inside" THEN Release(t)
     ELSE Goto(t, "left") /\ UNCHANGED <<tableVars, run>>
  /\ UNCHANGED <<asked, attempts, row, read, permits>>

\* Mutation: the lock of the run is not given back when the command raises.
KeepLock(t) ==
  /\ pc[t] = "inside" /\ worker[run[t]] # t
  /\ Outcome(t)
  /\ Goto(t, "leave")
  /\ UNCHANGED <<locks, users, held, guard, run, entry>>
  /\ UNCHANGED <<asked, runVars, read, permits>>

\* The command never owns the run: there is none (404), it has ended or was
\* decided otherwise (409), or another worker has it (409, or what it made of it).
Conflict(t) ==
  /\ pc[t] = "inside" /\ worker[run[t]] # t
  /\ Outcome(t)
  /\ Release(t)
  /\ UNCHANGED <<asked, runVars, read, permits>>

Fail(t) ==
  /\ pc[t] = "left" /\ kind[t] = "error"
  /\ Goto(t, "idle")
  /\ UNCHANGED <<tableVars, run, asked, kind, runVars, own, read, permits>>

\* Mutation: the attempts are counted before the row is read.
CountFirst(t) ==
  \/ /\ pc[t] = "left" /\ kind[t] = "answer"
     /\ read' = [read EXCEPT ![t].attempts = attempts[run[t]]]
     /\ Goto(t, "count")
     /\ UNCHANGED <<tableVars, run, asked, kind, runVars, own, permits>>
  \/ /\ pc[t] = "count"
     /\ read' = [read EXCEPT ![t].row = row[run[t]]]
     /\ Goto(t, "idle")
     /\ UNCHANGED <<tableVars, run, asked, kind, runVars, own, permits>>

\* RunQueryService.get, after the lock: the row, then the attempts.
Answer(t) ==
  \/ /\ pc[t] = "left" /\ kind[t] = "answer"
     /\ read' = [read EXCEPT ![t].row = row[run[t]]]
     /\ Goto(t, "count")
     /\ UNCHANGED <<tableVars, run, asked, kind, runVars, own, permits>>
  \/ /\ pc[t] = "count"
     /\ read' = [read EXCEPT ![t].attempts = attempts[run[t]]]
     /\ Goto(t, "idle")
     /\ UNCHANGED <<tableVars, run, asked, kind, runVars, own, permits>>

-----------------------------------------------------------------------------

\* Mutation: the slot is asked for inside the try statement.
AcquireInTry(t) ==
  /\ pc[t] = "slot"
  /\ IF permits > 0 THEN permits' = permits - 1 /\ Goto(t, "evaluating")
     ELSE UNCHANGED permits /\ Goto(t, "return")
  /\ UNCHANGED <<tableVars, run, asked, kind, runVars, own, read>>

\* acquire(blocking=False): 409 when another evaluation is running.
Acquire(t) ==
  /\ pc[t] = "slot"
  /\ IF permits > 0 THEN permits' = permits - 1 /\ Goto(t, "evaluating")
     ELSE UNCHANGED permits /\ Goto(t, "idle")
  /\ UNCHANGED <<tableVars, run, asked, kind, runVars, own, read>>

\* The evaluation ended and its report was saved, or either failed.
Evaluated(t) ==
  /\ pc[t] = "evaluating"
  /\ Goto(t, "return")
  /\ UNCHANGED <<tableVars, run, asked, kind, runVars, own, read, permits>>

\* release: a BoundedSemaphore refuses more permits than it began with.
ReturnSlot(t) ==
  /\ pc[t] = "return"
  /\ permits' = IF permits < 1 THEN permits + 1 ELSE permits
  /\ Goto(t, "idle")
  /\ UNCHANGED <<tableVars, run, asked, kind, runVars, own, read>>

Serve(t) ==
  \/ Locking(t) \/ Claim(t) \/ LoseClaim(t) \/ RecordAttempt(t) \/ SaveRow(t)
  \/ Done(t) \/ Conflict(t) \/ Fail(t) \/ Answer(t)
  \/ Acquire(t) \/ Evaluated(t) \/ ReturnSlot(t)

ServiceNext ==
  \E t \in Threads :
    \/ \E r \in Runs : Command(t, r) \/ Start(t, r)
    \/ Evaluate(t)
    \/ Serve(t)

ServiceSpec == ServiceInit /\ [][ServiceNext]_serviceVars

\* A worker thread that serves a request goes on with it.
ServiceFairness == \A t \in Threads : WF_serviceVars(Serve(t))

-----------------------------------------------------------------------------
(* Properties *)

\* One evaluation at a time, and the slot is free exactly when none has it: a
\* refused request neither takes it nor gives it back.
OneEvaluation ==
  Cardinality({t \in Threads : pc[t] \in {"evaluating", "return"}}) + permits = 1

\* An answer is read after the lock was left, in two queries, while others go
\* on with the run: it is never older than what the command itself did, and it
\* counts every attempt the row it shows had seen.
AnswersCoverTheirRow ==
  \A t \in Threads :
    pc[t] = "idle" /\ kind[t] = "answer" =>
      /\ read[t].row.saves >= own[t].saves
      /\ read[t].attempts >= read[t].row.attempts

\* Every request is answered: no lock, guard or slot is kept.
RequestsEnd == \A t \in Threads : pc[t] # "idle" ~> pc[t] = "idle"

=============================================================================
