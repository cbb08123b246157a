------------------------------ MODULE RunLocks ------------------------------
(***************************************************************************)
(* _RunLocks of api/services.py: the locks that serialize the requests of  *)
(* one process for the same run.  hold(run_id) registers its user with the *)
(* run's entry, which it creates when there is none, waits for the entry's *)
(* lock, and when it leaves deletes the entry if it was the last user.     *)
(* The table and the user counts are changed under one guard lock.         *)
(*                                                                         *)
(* A thread's place in hold is pc: "enter" and "leave" wait for the guard, *)
(* "look", "uncount" and "drop" have it, "wait" waits for the entry's      *)
(* lock and "inside" is the body of the with statement; a thread that has  *)
(* "left" holds nothing.  An entry nothing refers to may be created again. *)
(*                                                                         *)
(* An operator introduced by "Mutation:" is used by no action; it is the   *)
(* definition that follows it with a mistake in it.                        *)
(***************************************************************************)
EXTENDS Integers, FiniteSets

CONSTANTS
  Threads,  \* the worker threads that execute requests
  Nobody,   \* holder of a free lock
  Runs,     \* the run ids requests may name
  Entries,  \* the _RunLockEntry objects there is memory for
  NoEntry   \* no entry

ASSUME LocksAssumption ==
  /\ IsFiniteSet(Threads) /\ Nobody \notin Threads /\ NoEntry \notin Entries

VARIABLES
  locks,    \* _locks: the entry of each run
  users,    \* the users count of each entry
  held,     \* who holds the lock of each entry
  guard,    \* who holds _guard
  pc,       \* where each thread is
  run,      \* the run its request is about
  entry     \* its local variable entry

tableVars == <<locks, users, held, guard, entry>>

lockVars == <<tableVars, pc, run>>

\* Places between registering with an entry and giving it up.
Registered == {"wait", "inside", "leave", "uncount", "drop"}

LocksInit ==
  /\ locks = [r \in Runs |-> NoEntry]
  /\ users = [e \in Entries |-> 0]
  /\ held = [e \in Entries |-> Nobody]
  /\ guard = Nobody
  /\ pc = [t \in Threads |-> "idle"]
  /\ run \in [Threads -> Runs]
  /\ entry = [t \in Threads |-> NoEntry]

Goto(t, place) == pc' = [pc EXCEPT ![t] = place]

Hold(t, r) ==
  /\ pc[t] = "idle"
  /\ run' = [run EXCEPT ![t] = r]
  /\ Goto(t, "enter")
  /\ UNCHANGED tableVars

TakeGuard(t) ==
  /\ pc[t] \in {"enter", "leave"} /\ guard = Nobody
  /\ guard' = t
  /\ Goto(t, IF pc[t] = "enter" THEN "look" ELSE "uncount")
  /\ UNCHANGED <<locks, users, held, run, entry>>

Unreferenced(e) ==
  /\ \A r \in Runs : locks[r] # e
  /\ \A t \in Threads : entry[t] # e

\* setdefault, then the count of users; the guard is given back.
Register(t) ==
  /\ pc[t] = "look"
  /\ \E e \in Entries :
       /\ IF locks[run[t]] # NoEntry
          THEN e = locks[run[t]] /\ users' = [users EXCEPT ![e] = @ + 1]
          ELSE Unreferenced(e) /\ users' = [users EXCEPT ![e] = 1]
       /\ locks' = [locks EXCEPT ![run[t]] = e]
       /\ entry' = [entry EXCEPT ![t] = e]
  /\ guard' = Nobody
  /\ Goto(t, "wait")
  /\ UNCHANGED <<held, run>>

Enter(t) ==
  /\ pc[t] = "wait" /\ held[entry[t]] = Nobody
  /\ held' = [held EXCEPT ![entry[t]] = t]
  /\ Goto(t, "inside")
  /\ UNCHANGED <<locks, users, guard, run, entry>>

\* The body is over, however it ended.
Release(t) ==
  /\ pc[t] = "inside"
  /\ held' = [held EXCEPT ![entry[t]] = Nobody]
  /\ Goto(t, "leave")
  /\ UNCHANGED <<locks, users, guard, run, entry>>

CountOut(t) ==
  /\ pc[t] = "uncount"
  /\ users' = [users EXCEPT ![entry[t]] = @ - 1]
  /\ Goto(t, "drop")
  /\ UNCHANGED <<locks, held, guard, run, entry>>

\* Mutation: the entry is deleted though others still use it.
DropAlways(t) ==
  /\ pc[t] = "drop"
  /\ locks' = IF locks[run[t]] = entry[t]
              THEN [locks EXCEPT ![run[t]] = NoEntry] ELSE locks
  /\ entry' = [entry EXCEPT ![t] = NoEntry]
  /\ guard' = Nobody
  /\ Goto(t, "left")
  /\ UNCHANGED <<users, held, run>>

Drop(t) ==
  /\ pc[t] = "drop"
  /\ locks' = IF users[entry[t]] = 0 /\ locks[run[t]] = entry[t]
              THEN [locks EXCEPT ![run[t]] = NoEntry] ELSE locks
  /\ entry' = [entry EXCEPT ![t] = NoEntry]
  /\ guard' = Nobody
  /\ Goto(t, "left")
  /\ UNCHANGED <<users, held, run>>

-----------------------------------------------------------------------------

\* No two requests of the process are in the body of hold for the same run,
\* though entries are deleted and created while others wait for them.
OneRequestPerRun ==
  \A t, u \in Threads :
    pc[t] = "inside" /\ pc[u] = "inside" /\ run[t] = run[u] => t = u

\* The table holds an entry exactly for the runs that somebody is registered
\* for: it neither leaks nor is an entry deleted under a waiting request.
EntriesAreInUse ==
  \A r \in Runs :
    locks[r] # NoEntry <=>
      \E t \in Threads : run[t] = r /\ pc[t] \in Registered

=============================================================================
