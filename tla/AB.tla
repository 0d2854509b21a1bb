--------------------------------- MODULE AB ---------------------------------
(***************************************************************************)
(* The A/B experiment (eval_harness/evalcli/ab.go): each run is one pass   *)
(* over the tasks without a provider, then, after a reset, a sequence of   *)
(* passes with it, of which the last one counts.  Meanwhile cmd/memory,    *)
(* another process, may write notes to the same memory.                    *)
(*                                                                         *)
(* Of a pass (runPass, RunSuite; see Suite) what matters here is the order *)
(* of its calls to the provider and the verdict on each task: "wrong" (its *)
(* data are not correct), "weak" (they are, the reasoning is below the     *)
(* minimum) or "fine".                                                     *)
(***************************************************************************)
EXTENDS Reflexion

CONSTANTS
  TaskList,    \* the tasks of a pass, in order
  Runs,        \* runs
  Attempts,    \* attempts
  Stores,      \* memories an experiment may begin with
  Notes        \* notes cmd/memory may write while it runs

ASSUME ListAssumption == TaskList \in Seq(Tasks) /\ TaskList # <<>>
ASSUME CountAssumption == Runs \in Nat \ {0} /\ Attempts \in Nat \ {0}
ASSUME StoresAssumption ==
  \A S \in Stores : IsFiniteSet(S) /\ \A x, y \in S : Source(x) = Source(y) => x = y

VARIABLES
  mode,        \* "transient" (no memory), "read" or "write" (PersistObservations)
  run, attempt, pos,  \* the pass: run, attempt (0: baseline), task
  phase,       \* "seed", "own", "again", "cross", "agent" or "over"
  start,       \* the memory when the first snapshot was taken
  ingested,    \* notes written meanwhile
  drift,       \* history: was a context recalled from another memory than `start'
  last,        \* history: verdict of the task's last attempt in this sequence
  ended        \* how the experiment ended, and what the report says of the memory

loop == <<run, attempt, pos>>
vars == <<reflexionVars, mode, loop, phase, start, ingested, drift, last, ended>>

Verdicts == {"wrong", "weak", "fine"}

NoVerdicts == [t \in Tasks |-> "none"]

(* memory_snapshot_stable and the caveat of a report.                      *)
Running == [how |-> "no", stable |-> FALSE, caveat |-> FALSE]

Init ==
  /\ mode \in {"transient", "read", "write"}
  /\ items \in Stores /\ start = items
  /\ ColdShort /\ queryFacets = {} /\ shown = Nothing /\ recalled = {}
  /\ run = 1 /\ attempt = 0 /\ pos = 1 /\ phase = "seed"
  /\ ingested = {} /\ wrote = FALSE /\ drift = FALSE
  /\ last = NoVerdicts /\ ended = Running

-----------------------------------------------------------------------------
Task       == TaskList[pos]
InPass     == pos \in DOMAIN TaskList
WithMemory == attempt > 0 /\ mode # "transient"

(* Mutant: the baseline is run with the provider.                          *)
MutProvided == TRUE

(* Baseline passes get no provider.                                        *)
Provided == attempt > 0

(* The facets of the task are set, its database is seeded, and the part of *)
(* the context that is in memory is built.                                 *)
Seed ==
  /\ phase = "seed" /\ InPass
  /\ queryFacets' = IF WithMemory THEN TaskFacets[Task] ELSE queryFacets
  /\ shown' = IF Provided THEN ShortContext(Task) ELSE Nothing
  /\ recalled' = {}
  /\ phase' = IF WithMemory THEN "own" ELSE "agent"
  /\ UNCHANGED <<short, memory, mode, loop, start, ingested, drift, last, ended>>

(* A task database that cannot be seeded ends the experiment.              *)
SeedFails ==
  /\ phase = "seed" /\ InPass
  /\ phase' = "over" /\ ended' = [Running EXCEPT !.how = "error"]
  /\ UNCHANGED <<reflexionVars, mode, loop, start, ingested, drift, last>>

Searching(next) ==
  /\ phase' = IF Cardinality(recalled') < Limit THEN next ELSE "agent"
  /\ drift' = (drift \/ items # start)
  /\ UNCHANGED <<short, queryFacets, memory, shown, mode, loop, start, ingested, last, ended>>

FirstSearch  == phase = "own" /\ RecallOwn(Task) /\ Searching("again")
SecondSearch == phase = "again" /\ RecallOwn(Task) /\ Searching("cross")
ThirdSearch  == phase = "cross" /\ RecallCross /\ Searching("agent")

(* What was found before a search failed is shown all the same.            *)
SearchFails ==
  /\ phase \in {"own", "again", "cross"}
  /\ phase' = "agent"
  /\ UNCHANGED <<reflexionVars, mode, loop, start, ingested, drift, last, ended>>

(* The agent answers, the answer is judged, and the provider, if there is  *)
(* one, observes.                                                          *)
Attempt(verdict, tags) ==
  /\ phase = "agent"
  /\ IF Provided
     THEN /\ Observe(Task, verdict, [run |-> run, attempt |-> attempt], tags, mode = "write")
          /\ last' = [last EXCEPT ![Task] = verdict]
     ELSE UNCHANGED <<short, memory, last>>
  /\ pos' = pos + 1
  /\ phase' = "seed"
  /\ UNCHANGED <<queryFacets, shown, recalled, mode, run, attempt, start, ingested, drift, ended>>

-----------------------------------------------------------------------------
PassEnds == phase = "seed" /\ ~InPass

EndBaseline ==
  /\ PassEnds /\ attempt = 0
  /\ Reset
  /\ attempt' = 1 /\ pos' = 1 /\ last' = NoVerdicts
  /\ UNCHANGED <<queryFacets, memory, shown, recalled, mode, run, phase, start, ingested, drift, ended>>

NextAttempt ==
  /\ PassEnds /\ attempt \in 1..(Attempts - 1)
  /\ attempt' = attempt + 1 /\ pos' = 1
  /\ UNCHANGED <<reflexionVars, mode, run, phase, start, ingested, drift, last, ended>>

MoreRuns == run < Runs

NextRun ==
  /\ PassEnds /\ attempt = Attempts /\ MoreRuns
  /\ run' = run + 1 /\ attempt' = 0 /\ pos' = 1
  /\ UNCHANGED <<reflexionVars, mode, phase, start, ingested, drift, last, ended>>

(* Mutant: only what the experiment itself wrote is noticed.               *)
MutSnapshotStable == ~wrote

(* memorySnapshotID before and after: any write changes the files; without *)
(* -memory-db both are empty, and the report calls no memory stable.       *)
SnapshotStable == ~wrote /\ ingested = {}

Report ==
  /\ PassEnds /\ attempt = Attempts /\ run = Runs
  /\ phase' = "over"
  /\ ended' = [how |-> "report",
                stable |-> mode # "transient" /\ SnapshotStable,
                caveat |-> mode = "read" /\ ~SnapshotStable]
  /\ UNCHANGED <<reflexionVars, mode, loop, start, ingested, drift, last>>

(* cmd/memory -manual, at any moment.                                      *)
Ingest(note) ==
  /\ phase # "over" /\ mode # "transient" /\ note \notin ingested
  /\ items' = Upsert(items, note)
  /\ ingested' = ingested \cup {note}
  /\ UNCHANGED <<short, queryFacets, wrote, shown, recalled, mode, loop, phase, start, drift, last, ended>>

Done == phase = "over" /\ UNCHANGED vars

Next ==
  \/ Seed
  \/ SeedFails
  \/ FirstSearch
  \/ SecondSearch
  \/ ThirdSearch
  \/ SearchFails
  \/ \E verdict \in Verdicts, tags \in CallFacets : Attempt(verdict, tags)
  \/ EndBaseline
  \/ NextAttempt
  \/ NextRun
  \/ Report
  \/ \E note \in Notes : Ingest(note)
  \/ Done

Spec == Init /\ [][Next]_vars

-----------------------------------------------------------------------------
(* Properties                                                              *)

(* Samples are independent (reflexion.go:6): the baseline is told nothing, *)
(* and an attempt is told lessons and hints of its own task from earlier   *)
(* attempts of its own run, a hint or lessons but not both.                *)
Earlier(stamp) == stamp.run = run /\ stamp.attempt \in 1..(attempt - 1)

ColdStart ==
  phase = "agent" =>
    /\ attempt = 0 => shown = Nothing /\ recalled = {}
    /\ shown.hint # NoHint => Earlier(shown.hint) /\ shown.lessons = <<>>
    /\ \A i \in DOMAIN shown.lessons : Earlier(shown.lessons[i])
    /\ \A i, j \in DOMAIN shown.lessons :
         i < j => shown.lessons[i].attempt < shown.lessons[j].attempt

(* What the memory holds on the task and the context does not tell.        *)
LeftOut ==
  {x \in Matching(items, NoTask) : x.task = Task /\ \A y \in recalled : Source(y) # Source(x)}

(* memoryRetrievalPolicy "same_task_then_similar_question": no memory is   *)
(* shown twice, and none of another task while one of the task itself is   *)
(* left out that was there as the experiment began or that it has written. *)
(* Only items of no task, which the first two searches find and drop, can  *)
(* crowd an item of the task out.                                          *)
RecallSound ==
  phase = "agent" =>
    /\ \A x, y \in recalled : Source(x) = Source(y) => x = y
    /\ \/ \A x \in recalled : x.task = Task
       \/ LeftOut \subseteq ingested
       \/ \E x \in Matching(start \cup ingested, NoTask) : x.task = NoTask

(* A report that calls its memory stable, in any mode, and a report of a   *)
(* memory only read that has no caveat, measured one fixed memory: every   *)
(* context of the experiment was recalled from the memory it began with.   *)
(* With -memory-write no report has the caveat (ab.go:235): there only     *)
(* memory_snapshot_stable tells that the memory moved.                     *)
FixedSnapshot ==
  /\ ended.stable => ~drift
  /\ ended.how = "report" /\ mode = "read" /\ ~ended.caveat => ~drift

(* reflexion.go:22 says that a hint is given when the last query was right *)
(* and only its interpretation weak.                                       *)
HintTruthful ==
  phase = "agent" /\ shown.hint # NoHint => last[Task] \in {"weak", "fine"}

=============================================================================
