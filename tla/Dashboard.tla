------------------------------ MODULE Dashboard ------------------------------
(***************************************************************************)
(* The page of the web dashboard (App.tsx, hooks/useRunDetail.ts): the run *)
(* the user selected, what the hook has loaded of it, and the commands     *)
(* that are on their way while the selection changes.                      *)
(*                                                                         *)
(* React runs the effects of a click with it and those of an answer some   *)
(* time later; an answer may come at any time or be an error.  Whether a   *)
(* command was given under the present selection (selectionGeneration) and *)
(* a load is the latest (activeGeneration, the abort of the older ones) is *)
(* a flag that the next selection, or the next load, takes away.           *)
(*                                                                         *)
(* An operator introduced by "Mutation:" is used by no action; it is the   *)
(* definition that follows it with a mistake in it.                        *)
(***************************************************************************)
EXTENDS Integers, FiniteSets

CONSTANTS
  RunIds,     \* runs there may be
  Listed,     \* those in the overview at the beginning
  NoRun,
  MaxInFlight \* bound on the commands on their way

ASSUME DashboardAssumption ==
  Listed \subseteq RunIds /\ NoRun \notin RunIds /\ MaxInFlight \in Nat

VARIABLES
  known,    \* the runs listed or started
  selected, \* selectedRunId and its ref
  mutation, \* mutationState
  commands, \* commands on their way
  due,      \* an effect of the hook is to be run
  active,   \* activeRunId.current
  detail,   \* the run the hook's state is about
  events,   \* the run its events are of
  state,    \* its load state
  loads     \* loads of a run with its trace on their way

hookVars == <<due, active, detail, events, state, loads>>

pageVars == <<known, selected, mutation, commands, hookVars>>

Kinds == {"start", "approve", "resume"}

\* "sent", then "reload" while the trace is fetched again.
Commands ==
  [kind : Kinds, run : RunIds \cup {NoRun}, phase : {"sent", "reload"},
   current : BOOLEAN]

Loads == [run : RunIds, current : BOOLEAN]

PageInit ==
  /\ known = Listed /\ selected = NoRun /\ mutation = "idle" /\ commands = {}
  /\ due = FALSE /\ active = NoRun /\ detail = NoRun /\ events = NoRun
  /\ state = "ready" /\ loads = {}

Outdated(S) == {[x EXCEPT !.current = FALSE] : x \in S}

\* The effects of useRunDetail: an older load is aborted, a new one begins.
Effects(r) ==
  /\ due' = FALSE /\ active' = r
  /\ loads' = Outdated(loads) \cup
       (IF r = NoRun THEN {} ELSE {[run |-> r, current |-> TRUE]})

\* selectRun by a click: the ref, the generation and the state.  The effects
\* depend on the run, so that they do not run again for the same one.
SelectRun(r) ==
  /\ selected' = r
  /\ IF r = selected THEN UNCHANGED <<due, active, loads>> ELSE Effects(r)
  /\ commands' = Outdated(commands)
  /\ UNCHANGED <<known, detail, events, state>>

Effect ==
  /\ due
  /\ Effects(selected)
  /\ UNCHANGED <<known, selected, mutation, commands, detail, events, state>>

\* Mutation: any answer is taken.
AnyLoad(l) ==
  /\ l \in loads
  /\ loads' = loads \ {l}
  /\ \/ state' = "ready" /\ detail' = l.run /\ events' = l.run
     \/ state' = "error" /\ UNCHANGED <<detail, events>>
  /\ UNCHANGED <<known, selected, mutation, commands, due, active>>

Loaded(l) ==
  /\ l \in loads
  /\ loads' = loads \ {l}
  /\ \/ l.current /\ state' = "ready" /\ detail' = l.run /\ events' = l.run
     \/ l.current /\ state' = "error" /\ UNCHANGED <<detail, events>>
     \/ ~l.current /\ UNCHANGED <<detail, events, state>>
  /\ UNCHANGED <<known, selected, mutation, commands, due, active>>

-----------------------------------------------------------------------------
(* What the user sees and does *)

Ready == selected # NoRun /\ detail = selected

\* The state the hook returns.
DetailState ==
  IF selected = NoRun THEN "ready" ELSE IF detail = selected THEN state ELSE "loading"

Screen ==
  IF Ready THEN "detail"
  ELSE IF selected # NoRun /\ DetailState = "error" THEN "unavailable"
  ELSE IF selected # NoRun THEN "loading" ELSE "overview"

\* A run of the list, which is also there while another one is loaded.
Choose(r) ==
  /\ Screen \in {"overview", "loading"} /\ r \in known
  /\ SelectRun(r)
  /\ UNCHANGED mutation

\* Mutation: what was pending stays so.
LeaveOnly ==
  /\ selected # NoRun
  /\ SelectRun(NoRun)
  /\ UNCHANGED mutation

\* Back to runs, or the navigation.
Leave ==
  /\ selected # NoRun
  /\ SelectRun(NoRun)
  /\ mutation' = "idle"

Give(k, r) ==
  /\ mutation # "pending" /\ Cardinality(commands) < MaxInFlight
  /\ mutation' = "pending"
  /\ commands' = commands \cup
       {[kind |-> k, run |-> r, phase |-> "sent", current |-> TRUE]}
  /\ UNCHANGED <<known, selected, hookVars>>

\* From the launcher, or "run again".
StartRun ==
  /\ Screen = "detail" => DetailState # "loading"
  /\ Give("start", NoRun)

\* A run is resumed once at a time; an approval given under an earlier
\* selection does not count.
Decide ==
  /\ Screen = "detail" /\ DetailState # "loading"
  /\ \/ Give("approve", selected)
     \/ /\ ~ \E c \in commands : c.kind = "resume" /\ c.run = selected
        /\ Give("resume", selected)

-----------------------------------------------------------------------------
(* Answers *)

IsCurrent(c) == c.current /\ selected = c.run

Removed(c) == commands' = commands \ {c}

Notice(c, outcome) ==
  /\ Removed(c)
  /\ mutation' = IF IsCurrent(c) THEN outcome ELSE mutation

Started(c) ==
  /\ c \in commands /\ c.kind = "start"
  /\ \/ \E r \in RunIds \ known :
          /\ known' = known \cup {r}
          /\ selected' = r /\ due' = TRUE
          /\ mutation' = "success"
          /\ commands' = Outdated(commands \ {c})
     \/ mutation' = "error" /\ Removed(c) /\ UNCHANGED <<known, selected, due>>
  /\ UNCHANGED <<active, detail, events, state, loads>>

\* The run is replaced and its trace fetched again, unless the hook has moved.
Accepted(c) ==
  /\ c \in commands /\ c.kind # "start" /\ c.phase = "sent"
  /\ IF ~IsCurrent(c) THEN Removed(c) /\ UNCHANGED <<mutation, detail>>
     ELSE IF active = c.run
     THEN /\ detail' = c.run
          /\ commands' = (commands \ {c}) \cup {[c EXCEPT !.phase = "reload"]}
          /\ UNCHANGED mutation
     ELSE Notice(c, "success") /\ UNCHANGED detail
  /\ UNCHANGED <<known, selected, due, active, events, state, loads>>

\* reloadTrace looks at the run alone.
Reloaded(c) ==
  /\ c \in commands /\ c.phase = "reload"
  /\ events' = IF active = c.run THEN c.run ELSE events
  /\ Notice(c, "success")
  /\ UNCHANGED <<known, selected, due, active, detail, state, loads>>

\* The command or the trace failed.
Failed(c) ==
  /\ c \in commands /\ c.kind # "start"
  /\ Notice(c, "error")
  /\ UNCHANGED <<known, selected, hookVars>>

\* 409: the detail is refreshed.
Conflicted(c) ==
  /\ c \in commands /\ c.kind = "approve" /\ c.phase = "sent"
  /\ Notice(c, "error")
  /\ IF IsCurrent(c) /\ active = c.run
     THEN state' = "loading" /\ due' = TRUE ELSE UNCHANGED <<state, due>>
  /\ UNCHANGED <<known, selected, active, detail, events, loads>>

Respond(c) ==
  Started(c) \/ Accepted(c) \/ Reloaded(c) \/ Failed(c) \/ Conflicted(c)

PageNext ==
  \/ Effect
  \/ \E l \in loads : Loaded(l)
  \/ \E r \in known : Choose(r)
  \/ Leave \/ StartRun \/ Decide
  \/ \E c \in commands : Respond(c)

PageSpec == PageInit /\ [][PageNext]_pageVars

\* Every command is answered or fails.
PageFairness == \A c \in Commands : WF_pageVars(Respond(c))

-----------------------------------------------------------------------------
(* Properties *)

\* Once the last load is in and succeeded, the page shows the selected run with
\* its own trace, in whatever order answers came.
SettledPageIsWhole ==
  /\ ~due /\ selected # NoRun /\ state = "ready"
  /\ ~ \E l \in loads : l.current
  => detail = selected /\ events = selected

\* The buttons do not stay disabled: a pending command is settled or given up,
\* though the answer of a command may be dropped.
PendingEnds == mutation = "pending" ~> mutation # "pending"

\* A run is shown with its own trace, never with that of another: late answers
\* of an earlier selection are ignored.
TraceIsOfTheRun == Screen = "detail" => events = detail

=============================================================================
