------------------------------ MODULE TraceLog ------------------------------
(***************************************************************************)
(* One trace: who writes its events and who reads them page by page.       *)
(*                                                                         *)
(* A writer numbers its events and stores them in one transaction, alone   *)
(* (append_event) or with the run row (save_run_owned_with_events); from   *)
(* its first number on it has SQLite's write lock, and when it fails or    *)
(* dies everything is undone.  A reader is getTrace of the dashboard: it   *)
(* follows the cursor of the pages and refuses a page that leaves a gap.   *)
(* The pages are those of the service or of the portable app, which find   *)
(* out differently whether there are more.                                 *)
(*                                                                         *)
(* An event is its number.  An operator introduced by "Mutation:" is used  *)
(* by no action; it is the definition that follows it with a mistake.      *)
(***************************************************************************)
EXTENDS Integers, FiniteSets

CONSTANTS
  Writers, Readers,
  NoWriter,
  PageSize,  \* TRACE_PAGE_SIZE, the limit of a page
  MaxPages,  \* MAX_TRACE_PAGES
  MaxEvents, \* bound on the events of the trace
  MaxBatch   \* bound on the events of a transaction

ASSUME TraceAssumption ==
  /\ NoWriter \notin Writers
  /\ PageSize \in Nat \ {0} /\ MaxPages \in Nat \ {0}
  /\ MaxEvents \in Nat /\ MaxBatch \in Nat

VARIABLES
  counter, \* next_sequence of the trace: the last number given out
  log,     \* the events stored
  lock,    \* who has the write lock
  batch,   \* the events of the open transaction
  reader   \* what each reader has loaded

writerVars == <<counter, log, lock, batch>>

traceVars == <<writerVars, reader>>

NewReader(phase, stored) ==
  [phase |-> phase, loaded |-> {}, after |-> 0, pages |-> 0, stored |-> stored]

TraceInit ==
  /\ counter = 0 /\ log = {} /\ lock = NoWriter /\ batch = {}
  /\ reader = [r \in Readers |-> NewReader("idle", 0)]

-----------------------------------------------------------------------------
(* Writers *)

\* The upsert of the counter; the first one takes the lock.
Allocate(w) ==
  /\ lock \in {NoWriter, w}
  /\ Cardinality(batch) < MaxBatch /\ counter + Cardinality(batch) < MaxEvents
  /\ lock' = w
  /\ batch' = batch \cup {counter + Cardinality(batch) + 1}
  /\ UNCHANGED <<counter, log, reader>>

Commit(w) ==
  /\ lock = w
  /\ counter' = counter + Cardinality(batch)
  /\ log' = log \cup batch
  /\ batch' = {} /\ lock' = NoWriter
  /\ UNCHANGED reader

\* Mutation: the counter is advanced in a transaction of its own.
KeepNumbers(w) ==
  /\ lock = w
  /\ counter' = counter + Cardinality(batch)
  /\ batch' = {} /\ lock' = NoWriter
  /\ UNCHANGED <<log, reader>>

\* An error, or the death of the process, before the commit.
Rollback(w) ==
  /\ lock = w
  /\ batch' = {} /\ lock' = NoWriter
  /\ UNCHANGED <<counter, log, reader>>

-----------------------------------------------------------------------------
(* Pages *)

Newer(a) == {s \in log : s > a}

Page(a) == {s \in Newer(a) : Cardinality({q \in Newer(a) : q <= s}) <= PageSize}

\* next_after_sequence: the last event of the page, or the cursor it was given.
Cursor(a) ==
  CHOOSE c \in Page(a) \cup {a} : \A s \in Page(a) \cup {a} : s <= c

\* The service asks the database for one event more than the page has.
More(a) == Cardinality(Newer(a)) > PageSize

\* The portable app compares with the number of events.
PortableMore(a) == Page(a) # {} /\ Cursor(a) < Cardinality(log)

\* validateTracePage
Valid(a, more) ==
  /\ Page(a) = (a + 1)..(a + Cardinality(Page(a)))
  /\ Cursor(a) = a + Cardinality(Page(a))
  /\ more => Page(a) # {}

Open(r) ==
  /\ reader[r].phase # "asking"
  /\ reader' = [reader EXCEPT ![r] = NewReader("asking", counter)]
  /\ UNCHANGED writerVars

Ends(r, phase) == reader' = [reader EXCEPT ![r].phase = phase]

TooLarge(r) ==
  /\ reader[r].phase = "asking" /\ reader[r].pages >= MaxPages
  /\ Ends(r, "too_large")
  /\ UNCHANGED writerVars

Fetch(r) ==
  LET q == reader[r]
      a == q.after
  IN
  /\ q.phase = "asking" /\ q.pages < MaxPages
  /\ \E more \in {More(a), PortableMore(a)} :
       IF Valid(a, more)
       THEN reader' = [reader EXCEPT ![r] =
              [phase |-> IF more THEN "asking" ELSE "done",
               loaded |-> q.loaded \cup Page(a), after |-> Cursor(a),
               pages |-> q.pages + 1, stored |-> q.stored]]
       ELSE Ends(r, "refused")
  /\ UNCHANGED writerVars

TraceNext ==
  \/ \E w \in Writers : Allocate(w) \/ Commit(w) \/ Rollback(w)
  \/ \E r \in Readers : Open(r) \/ TooLarge(r) \/ Fetch(r)

TraceSpec == TraceInit /\ [][TraceNext]_traceVars

-----------------------------------------------------------------------------
(* Properties *)

\* Whoever writes, fails or dies meanwhile, no page is refused, and a reader
\* that is done has every event from the first on without a gap, those stored
\* when it began and perhaps later ones; it gives up only on a trace with more
\* events than it may show.
TracesAreWhole ==
  \A r \in Readers :
    LET q == reader[r] IN
    /\ q.phase # "refused"
    /\ q.phase = "done" => q.loaded = 1..q.after /\ q.after >= q.stored
    /\ q.phase = "too_large" => counter > MaxPages * PageSize

=============================================================================
