---------------------------- MODULE PortableShell ----------------------------
(***************************************************************************)
(* The Android shell around the offline engine: activities attach to the   *)
(* one PortableRuntime session of the process, obtain it on a worker       *)
(* thread and let go of it when they are destroyed; portable_host runs a   *)
(* server for the session and bounds its connections.                      *)
(*                                                                         *)
(* obtain and the clean-up hold the class lock of PortableRuntime from     *)
(* beginning to end, so each is one step.  Servers are numbered in the     *)
(* order they are started; the number stands for origin and cookie.  The   *)
(* death of the process, which ends all of this, is left out, and so are   *)
(* the page and the files that an activity handles.                        *)
(*                                                                         *)
(* An operator introduced by "Mutation:" is used by no action; it is the   *)
(* definition that follows it with a mistake in it.                        *)
(***************************************************************************)
EXTENDS Integers, FiniteSets

CONSTANTS
  Activities,  \* activities the system ever creates
  Connections, \* handler threads
  MaxSlots,    \* connections a server takes at once (12 in the code)
  MaxServers   \* bound: servers ever started

ASSUME ShellAssumption ==
  /\ IsFiniteSet(Activities) /\ IsFiniteSet(Connections)
  /\ MaxSlots \in Nat /\ MaxServers \in Nat

VARIABLES
  life,      \* "none", "alive" or "destroyed", of each activity
  task,      \* its start task: "idle", "queued", "obtain" or "posted"
  ready,     \* the server of the session its task has obtained, 0 for none
  shown,     \* the server of the activity's session, 0 for none
  attached,  \* attachedActivities
  cleanups,  \* tasks in the clean-up executor
  session,   \* PortableRuntime.session, 0 for null
  started,   \* servers started so far
  server,    \* portable_host._server, 0 for None
  handles,   \* the server whose connection each handler thread has, or 0
  slots      \* free slots of each server

activityVars == <<life, task, ready, shown>>

runtimeVars == <<attached, cleanups, session, started, server>>

hostVars == <<handles, slots>>

shellVars == <<activityVars, runtimeVars, hostVars>>

Servers == 1..MaxServers

ShellInit ==
  /\ life = [a \in Activities |-> "none"]
  /\ task = [a \in Activities |-> "idle"]
  /\ ready = [a \in Activities |-> 0]
  /\ shown = [a \in Activities |-> 0]
  /\ attached = 0 /\ cleanups = 0
  /\ session = 0 /\ started = 0 /\ server = 0
  /\ handles = [h \in Connections |-> 0]
  /\ slots = [s \in Servers |-> MaxSlots]

-----------------------------------------------------------------------------
(* An activity, on the main thread *)

\* onCreate: attach, then start.
Create(a) ==
  /\ life[a] = "none"
  /\ life' = [life EXCEPT ![a] = "alive"]
  /\ task' = [task EXCEPT ![a] = "queued"]
  /\ attached' = attached + 1
  /\ UNCHANGED <<ready, shown, cleanups, session, started, server,
                 hostVars>>

\* "Try again", after the start or the page failed.
Retry(a) ==
  /\ life[a] = "alive" /\ task[a] = "idle"
  /\ task' = [task EXCEPT ![a] = "queued"]
  /\ UNCHANGED <<life, ready, shown, runtimeVars, hostVars>>

\* What obtain posted to the main thread.
Show(a) ==
  /\ task[a] = "posted"
  /\ task' = [task EXCEPT ![a] = "idle"]
  /\ shown' = IF life[a] = "alive" THEN [shown EXCEPT ![a] = ready[a]] ELSE shown
  /\ ready' = [ready EXCEPT ![a] = 0]
  /\ UNCHANGED <<life, runtimeVars, hostVars>>

\* onDestroy: shutdownNow drops a task that has not begun; then detach.
Destroy(a, finishing) ==
  /\ life[a] = "alive"
  /\ life' = [life EXCEPT ![a] = "destroyed"]
  /\ task' = [task EXCEPT ![a] = IF @ = "queued" THEN "idle" ELSE @]
  /\ attached' = attached - 1
  /\ cleanups' = IF finishing THEN cleanups + 1 ELSE cleanups
  /\ UNCHANGED <<ready, shown, session, started, server, hostVars>>

-----------------------------------------------------------------------------
(* PortableRuntime, on the workers of the activities and its own *)

Begin(a) ==
  /\ task[a] = "queued"
  /\ task' = [task EXCEPT ![a] = "obtain"]
  /\ UNCHANGED <<life, ready, shown, runtimeVars, hostVars>>

\* portable_host.start: the server that runs, or a new one.
StartHost ==
  IF server # 0 THEN UNCHANGED <<server, started>>
  ELSE /\ started < MaxServers
       /\ started' = started + 1
       /\ server' = started + 1

Obtain(a) ==
  /\ task[a] = "obtain"
  /\ IF session # 0 THEN UNCHANGED <<session, server, started>>
     ELSE StartHost /\ session' = server'
  /\ task' = [task EXCEPT ![a] = "posted"]
  /\ ready' = [ready EXCEPT ![a] = session']
  /\ UNCHANGED <<life, shown, attached, cleanups, hostVars>>

\* The resources, the catalog or the socket are not to be had.
ObtainFails(a) ==
  /\ task[a] = "obtain" /\ session = 0
  /\ task' = [task EXCEPT ![a] = "idle"]
  /\ UNCHANGED <<life, ready, shown, runtimeVars, hostVars>>

\* Mutation: whoever finishes takes the server along.
StopAnyway ==
  /\ cleanups > 0
  /\ cleanups' = cleanups - 1
  /\ session' = 0 /\ server' = 0
  /\ UNCHANGED <<activityVars, attached, started, hostVars>>

\* The task of detach.  stop does not wait for handler threads.
CleanUp ==
  /\ cleanups > 0
  /\ cleanups' = cleanups - 1
  /\ IF attached = 0 /\ session # 0 THEN session' = 0 /\ server' = 0
                                    ELSE UNCHANGED <<session, server>>
  /\ UNCHANGED <<activityVars, attached, started, hostVars>>

-----------------------------------------------------------------------------
(* LocalServer *)

\* process_request; without a free slot the connection is closed at once.
Accept(h) ==
  /\ server # 0 /\ handles[h] = 0 /\ slots[server] > 0
  /\ handles' = [handles EXCEPT ![h] = server]
  /\ slots' = [slots EXCEPT ![server] = @ - 1]
  /\ UNCHANGED <<activityVars, runtimeVars>>

\* process_request_thread ends, also after its server was stopped.
Close(h) ==
  /\ handles[h] # 0
  /\ slots' = [slots EXCEPT ![handles[h]] = @ + 1]
  /\ handles' = [handles EXCEPT ![h] = 0]
  /\ UNCHANGED <<activityVars, runtimeVars>>

ShellNext ==
  \/ \E a \in Activities :
       \/ Create(a) \/ Retry(a) \/ Show(a)
       \/ \E finishing \in BOOLEAN : Destroy(a, finishing)
       \/ Begin(a) \/ Obtain(a) \/ ObtainFails(a)
  \/ CleanUp
  \/ \E h \in Connections : Accept(h) \/ Close(h)

ShellSpec == ShellInit /\ [][ShellNext]_shellVars

-----------------------------------------------------------------------------
(* Properties *)

InUse(s) == {h \in Connections : handles[h] = s}

\* What an activity shows is served: however activities overlap, finish and
\* start again, the server of a live activity's session is the one that runs,
\* and each of its slots is free or has a connection that will end.
ShownServerRuns ==
  \A a \in Activities :
    life[a] = "alive" /\ shown[a] # 0 =>
      /\ server = shown[a]
      /\ slots[server] + Cardinality(InUse(server)) = MaxSlots

=============================================================================
