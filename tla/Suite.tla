-------------------------------- MODULE Suite -------------------------------
(***************************************************************************)
(* One pass of the evaluation harness: evalcli.runPass takes the tasks one *)
(* by one, runners.RunSuite lets the agent answer, asks the selected       *)
(* evaluators in EvalOrder for their scores, stores a verdict row for each *)
(* and shows all of them to the reflection observer; mergeInto collects    *)
(* the report of each task and Finish turns the merged report into the     *)
(* exit code that gates a build.                                           *)
(*                                                                         *)
(* What an agent answers and how an answer is scored is free; a task is    *)
(* what the harness sees of it, its id and the evaluators it selects.      *)
(***************************************************************************)
EXTENDS Integers, Sequences

CONSTANTS
  TaskLists,     \* task lists a pass may be given: sequences of [id, spec]
  EvalOrder,     \* evaluator names in the order of the report
  Registered,    \* names the registry knows
  GateNames,     \* names that mergeInto counts as deterministic
  Judges,        \* names served by judgeEvaluator, which calls an LLM
  JudgeAttempts  \* judgeMaxAttempts

VARIABLES
  tasks,      \* the task list of this pass
  pc,         \* "next", "agent", "eval", "merge" or "exited"
  i,          \* the task at hand
  j,          \* the place of the evaluator at hand in EvalOrder
  tries,      \* failed judge calls of the evaluation at hand
  traj,       \* per task its trajectory: "none", "open" or "final"
  scores,     \* the report of the task at hand: name -> score or "none"
  verdicts,   \* the rows of eval_results
  judged,     \* per task: the judge calls made, as <<name, attempt>>
  stored,     \* per task: those whose step the trajectory accepted
  observed,   \* what the reflection observer was shown
  report,     \* the merged report: id -> name -> score or "none"
  exit,       \* -1, or the exit code
  evaluated   \* history: every score given, with its task

current == <<j, tries, scores>>
db      == <<traj, verdicts, stored>>
vars == <<tasks, pc, i, current, db, judged, observed, report, exit, evaluated>>

-----------------------------------------------------------------------------
Names == {EvalOrder[n] : n \in DOMAIN EvalOrder}
Ids   == UNION {{list[n].id : n \in DOMAIN list} : list \in TaskLists}

ASSUME SuiteAssumption ==
  /\ TaskLists \subseteq Seq([id : STRING, spec : SUBSET STRING])
  /\ EvalOrder \in Seq(STRING)
  /\ \A m, n \in DOMAIN EvalOrder : EvalOrder[m] = EvalOrder[n] => m = n
  /\ "data_correctness" \in Names /\ GateNames \subseteq Names
  /\ JudgeAttempts \in Nat

(* "ERR": Evaluate returned an error; "errored": the judge did not answer. *)
GateScores  == {"pass", "fail", "ERR"}
JudgeScores == {"scored", "below", "errored", "ERR"}
Scores      == GateScores \cup JudgeScores

NoScores == [name \in Names |-> "none"]
ScoreMap == [Names -> Scores \cup {"none"}]
Verdict  == [task : Nat, name : Names, score : Scores]

TypeOK ==
  /\ tasks \in TaskLists
  /\ pc \in {"next", "agent", "eval", "merge", "exited"}
  /\ i \in 1..(Len(tasks) + 1) /\ j \in 1..(Len(EvalOrder) + 1)
  /\ tries \in 0..JudgeAttempts
  /\ traj \in [DOMAIN tasks -> {"none", "open", "final"}]
  /\ judged \in [DOMAIN tasks -> SUBSET (Judges \X (0..JudgeAttempts))]
  /\ stored \in [DOMAIN tasks -> SUBSET (Judges \X (0..JudgeAttempts))]
  /\ scores \in ScoreMap /\ report \in [Ids -> ScoreMap]
  /\ verdicts \subseteq Verdict /\ evaluated \subseteq Verdict
  /\ observed \subseteq [task : DOMAIN tasks, scores : ScoreMap]
  /\ exit \in -1..2

Init ==
  /\ tasks \in TaskLists
  /\ pc = "next" /\ i = 1 /\ j = 1 /\ tries = 0
  /\ traj = [t \in DOMAIN tasks |-> "none"]
  /\ judged = [t \in DOMAIN tasks |-> {}] /\ stored = [t \in DOMAIN tasks |-> {}]
  /\ scores = NoScores /\ report = [id \in Ids |-> NoScores]
  /\ verdicts = {} /\ evaluated = {} /\ observed = {}
  /\ exit = -1

Exit(code) == pc' = "exited" /\ exit' = code

-----------------------------------------------------------------------------
(* runPass, up to the agent's answer *)

SeedFails ==
  /\ pc = "next" /\ i <= Len(tasks)
  /\ Exit(2)
  /\ UNCHANGED <<tasks, i, current, db, judged, observed, report, evaluated>>

(* A trajectory that cannot be opened leaves the run in memory only.       *)
StartTask(opened) ==
  /\ pc = "next" /\ i <= Len(tasks)
  /\ traj' = [traj EXCEPT ![i] = IF opened THEN "open" ELSE "none"]
  /\ j' = 1 /\ tries' = 0 /\ scores' = NoScores
  /\ pc' = "agent"
  /\ UNCHANGED <<tasks, i, verdicts, stored, judged, observed, report, exit, evaluated>>

(* Runner.Run returns, with an answer or an error, and has finalized.      *)
AgentRuns ==
  /\ pc = "agent"
  /\ traj' = [traj EXCEPT ![i] = IF @ = "open" THEN "final" ELSE @]
  /\ pc' = "eval"
  /\ UNCHANGED <<tasks, i, current, verdicts, stored, judged, observed, report, exit, evaluated>>

-----------------------------------------------------------------------------
(* The evaluators of one task *)

Evaluating == pc = "eval" /\ j <= Len(EvalOrder)
Name       == EvalOrder[j]
Selected   == Name \in tasks[i].spec

SkipUnselected ==
  /\ Evaluating /\ ~Selected
  /\ j' = j + 1
  /\ UNCHANGED <<tasks, pc, i, tries, scores, db, judged, observed, report, exit, evaluated>>

Unregistered ==
  /\ Evaluating /\ Selected /\ Name \notin Registered
  /\ Exit(2)
  /\ UNCHANGED <<tasks, i, current, db, judged, observed, report, evaluated>>

Scoring == Evaluating /\ Selected /\ Name \in Registered

(* rep.Add                                                                 *)
Added(s) == [scores EXCEPT ![Name] = s]

(* Mutant: the verdict is that of the task list's first task.              *)
MutRow(s) == [task |-> 1, name |-> Name, score |-> s]

(* persistVerdict; an INSERT that fails is ignored.                        *)
Row(s) == [task |-> i, name |-> Name, score |-> s]

Persisted(s) == IF traj[i] = "none" THEN {verdicts} ELSE {verdicts, verdicts \cup {Row(s)}}

Give(s) ==
  /\ scores' = Added(s)
  /\ evaluated' = evaluated \cup {[task |-> i, name |-> Name, score |-> s]}
  /\ verdicts' \in Persisted(s)
  /\ j' = j + 1 /\ tries' = 0
  /\ UNCHANGED <<tasks, pc, i, traj, observed, report, exit>>

GateGives(s) ==
  /\ Scoring /\ Name \notin Judges
  /\ Give(s)
  /\ UNCHANGED <<judged, stored>>

(* recordingClient.Call: the call is recorded in the task's trajectory,    *)
(* which refuses steps once it is finalized.                               *)
JudgeCall ==
  /\ judged' = [judged EXCEPT ![i] = @ \cup {<<Name, tries>>}]
  /\ stored' = [stored EXCEPT ![i] = IF traj[i] = "open" THEN @ \cup {<<Name, tries>>} ELSE @]

Judging == Scoring /\ Name \in Judges

MayRetry == tries < JudgeAttempts

(* Mutant: the count of attempts starts again.                             *)
MutTriesAfter == (tries + 1) % JudgeAttempts

TriesAfter == tries + 1

JudgeFails ==
  /\ Judging /\ MayRetry
  /\ JudgeCall
  /\ tries' = TriesAfter
  /\ UNCHANGED <<tasks, pc, i, j, scores, traj, verdicts, observed, report, exit, evaluated>>

JudgeReplies(s) ==
  /\ Judging /\ MayRetry
  /\ JudgeCall
  /\ Give(s)

JudgeGivesUp ==
  /\ Judging /\ ~MayRetry
  /\ Give("errored")
  /\ UNCHANGED <<judged, stored>>

(* The judge's spec does not decode: an error before any call.             *)
JudgeSpecFails ==
  /\ Judging /\ tries = 0
  /\ Give("ERR")
  /\ UNCHANGED <<judged, stored>>

-----------------------------------------------------------------------------
(* The end of a task and of the pass *)

(* Mutant: a task is shown even if data_correctness did not run.           *)
MutShown == TRUE

Shown == scores["data_correctness"] # "none"

Observe ==
  /\ pc = "eval" /\ j > Len(EvalOrder)
  /\ observed' = observed \cup (IF Shown THEN {[task |-> i, scores |-> scores]} ELSE {})
  /\ pc' = "merge"
  /\ UNCHANGED <<tasks, i, current, db, judged, report, exit, evaluated>>

Merge ==
  /\ pc = "merge"
  /\ report' = [report EXCEPT ![tasks[i].id] =
                  [name \in Names |-> IF scores[name] = "none" THEN @[name] ELSE scores[name]]]
  /\ i' = i + 1
  /\ pc' = "next"
  /\ UNCHANGED <<tasks, current, db, judged, observed, exit, evaluated>>

(* Mutant: only an explicit failure fails the gate, an error does not.     *)
MutGateFailed == \E id \in Ids, name \in GateNames : report[id][name] = "fail"

GateFailed ==
  \E id \in Ids, name \in GateNames : report[id][name] \notin {"none", "pass"}

Finish ==
  /\ pc = "next" /\ i > Len(tasks)
  /\ Exit(IF GateFailed THEN 1 ELSE 0)
  /\ UNCHANGED <<tasks, i, current, db, judged, observed, report, evaluated>>

Done == pc = "exited" /\ UNCHANGED vars

Evaluation ==
  \/ SkipUnselected
  \/ Unregistered
  \/ \E s \in GateScores : GateGives(s)
  \/ JudgeFails
  \/ \E s \in {"scored", "below"} : JudgeReplies(s)
  \/ JudgeGivesUp
  \/ JudgeSpecFails
  \/ Observe
  \/ Merge

Next ==
  \/ SeedFails
  \/ \E opened \in BOOLEAN : StartTask(opened)
  \/ AgentRuns
  \/ Evaluation
  \/ Finish
  \/ Done

Spec == Init /\ [][Next]_vars

-----------------------------------------------------------------------------
(* Properties                                                              *)

InOrder(t) == {name \in tasks[t].spec : name \in Names}
Evaluated(t) == {e.name : e \in {v \in evaluated : v.task = t}}

(* The exit code is the gate (cmd/eval: 0 passed, 1 failed, 2 no verdict): *)
(* 0 only if no gate evaluator failed or broke on any task, 1 only if one  *)
(* did, and either only after every task was scored by exactly those of    *)
(* its evaluators that EvalOrder names: a selected name it lacks is passed *)
(* over, see SelectedScored.  Of tasks that share an id, which the loader  *)
(* admits (loader.go:52), the last that selects an evaluator counts for it.*)
Stands(e) ==
  \A t \in DOMAIN tasks :
    t > e.task /\ tasks[t].id = tasks[e.task].id => e.name \notin tasks[t].spec
ExitTellsGate ==
  LET bad == {e \in evaluated : e.name \in GateNames /\ e.score # "pass" /\ Stands(e)}
  IN  /\ exit = 0 => bad = {}
      /\ exit = 1 => bad # {}
      /\ exit \in {0, 1} => \A t \in DOMAIN tasks : Evaluated(t) = InOrder(t)

(* suite.go:136: a task that selects an evaluator nobody registered fails  *)
(* loudly and is not left out in silence; so a pass that ends in a verdict *)
(* has the scores of all the evaluators its tasks select.                  *)
SelectedScored ==
  exit \in {0, 1} => \A t \in DOMAIN tasks : Evaluated(t) = tasks[t].spec

(* eval_results: at most one verdict of an evaluator for a task, the one   *)
(* it gave, and only of a task whose trajectory is finalized.              *)
VerdictsAreScores ==
  /\ \A v, w \in verdicts : v.task = w.task /\ v.name = w.name => v = w
  /\ \A v \in verdicts : v \in evaluated /\ traj[v.task] = "final"

(* The reflection observer is shown a task at most once, after the last of *)
(* its evaluators, with all their scores, and only if data_correctness ran.*)
ObservedWhole ==
  \A o \in observed :
    /\ \A p \in observed : p.task = o.task => p = o
    /\ o.scores["data_correctness"] # "none"
    /\ \A name \in InOrder(o.task) :
         [task |-> o.task, name |-> name, score |-> o.scores[name]] \in evaluated

(* A pass ends: no judge and no task can hold it up for ever.              *)
Terminates == <>(pc = "exited")

(* suite.go:123: every judge call goes to the trajectory, into the         *)
(* database if there is one.                                               *)
JudgeCallsStored ==
  \A t \in DOMAIN tasks : traj[t] # "none" => stored[t] = judged[t]

=============================================================================
