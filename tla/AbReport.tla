------------------------------ MODULE AbReport ------------------------------
(***************************************************************************)
(* What an A/B experiment reports (eval_harness/abreport.go).  Run by run, *)
(* runABWithClients collects the merged report of the baseline pass and of *)
(* the last attempt with reflection (AB has the passes themselves); a pass *)
(* that fails ends the experiment without a report.  BuildABReport turns   *)
(* the samples into means per task and over all tasks, the range of the    *)
(* suites, and a caveat.                                                   *)
(*                                                                         *)
(* A score is [pass, value, errored]; values are whole numbers of fifths,  *)
(* as a judge gives them, and means are exact fractions <<n, d>>, where    *)
(* the program rounds to doubles.  Of the judges only reasoning_quality is *)
(* here: attribution_grounding gets means and counts of errors in the same *)
(* way, and no threshold.                                                  *)
(***************************************************************************)
EXTENDS Fraction, Sequences, FiniteSetsExt, Functions

CONSTANTS
  TaskList,    \* the tasks of a pass, in order; an id at most once
  Scores,      \* task -> evaluator it selects -> the scores it may get
  Runs

Tasks == {TaskList[t] : t \in DOMAIN TaskList}

ASSUME AbReportAssumption ==
  /\ Runs \in Nat \ {0}
  /\ TaskList \in Seq(Tasks) /\ TaskList # <<>>
  /\ \A t \in Tasks : /\ DOMAIN Scores[t] # {}
                      /\ \A e \in DOMAIN Scores[t] :
                           Scores[t][e] \subseteq [pass : BOOLEAN, value : Nat, errored : BOOLEAN]

VARIABLES
  aReports, bReports,  \* the samples: sequences of task -> evaluator -> score
  pc                   \* "A" or "B": the pass to come; "report" or "failed"

vars == <<aReports, bReports, pc>>

-----------------------------------------------------------------------------
SumOf(h) == FoldFunction(Plus, <<0, 1>>, h)
MeanOf(h) == LET sum == SumOf(h) IN <<sum[1], sum[2] * Cardinality(DOMAIN h)>>

(* The scores an evaluator gave a task: Report.Scores, where there is one. *)
Gave(rep, t, name) == name \in DOMAIN rep[t]
Passes(rep, t) == Gave(rep, t, "data_correctness") /\ rep[t]["data_correctness"].pass

PassRateAcross(reps, t) ==
  <<Cardinality({n \in DOMAIN reps : Passes(reps[n], t)}), Len(reps)>>

Errored(reps, t, name) == {n \in DOMAIN reps : Gave(reps[n], t, name) /\ reps[n][t][name].errored}

(* Mutant: an errored judge counts with its value, which is zero.          *)
MutScored(reps, t, name) == {n \in DOMAIN reps : Gave(reps[n], t, name)}

Scored(reps, t, name) == {n \in DOMAIN reps : Gave(reps[n], t, name) /\ ~reps[n][t][name].errored}

(* An evaluator that scored no sample has the mean 0.                      *)
JudgeMeanAcross(reps, t, name) ==
  IF Scored(reps, t, name) = {} THEN <<0, 1>>
  ELSE MeanOf([n \in Scored(reps, t, name) |-> <<reps[n][t][name].value, 5>>])

(* The tasks passed in each sample, over the same number of tasks.         *)
SuitePasses(reps) == {Cardinality({t \in Tasks : Passes(reps[n], t)}) : n \in DOMAIN reps}

(* Mutant: the best of B against the best of A.                            *)
MutOverlap(a, b) == Max(SuitePasses(b)) <= Max(SuitePasses(a))

(* MinSuiteB <= MaxSuiteA.                                                 *)
Overlap(a, b) == Min(SuitePasses(b)) <= Max(SuitePasses(a))

AtLeast20(x, y) == Leq(<<1, 5>>, Minus(y, x))

BuildABReport(a, b) ==
  LET PassRate(reps) == MeanOf([t \in Tasks |-> PassRateAcross(reps, t)])
      Judge(reps) == MeanOf([t \in Tasks |-> JudgeMeanAcross(reps, t, "reasoning_quality")])
      Errors(reps) == SumFunction([t \in Tasks |-> Cardinality(Errored(reps, t, "reasoning_quality"))])
      passA == PassRate(a)  judgeA == Judge(a)
      passB == PassRate(b)  judgeB == Judge(b)
  IN [meanDelta |-> Minus(passB, passA), meets |-> AtLeast20(passA, passB),
      judgeA |-> judgeA, judgeB |-> judgeB, meetsJudge |-> AtLeast20(judgeA, judgeB),
      errorsA |-> Errors(a), errorsB |-> Errors(b), caveat |-> Overlap(a, b)]

-----------------------------------------------------------------------------
Init == aReports = <<>> /\ bReports = <<>> /\ pc = "A"

(* A task gets a score from each evaluator it selects.                     *)
TaskScores(t) ==
  LET selected == DOMAIN Scores[t]
  IN {f \in [selected -> UNION {Scores[t][e] : e \in selected}] :
        \A e \in selected : f[e] \in Scores[t][e]}
Reports == {rep \in [Tasks -> UNION {TaskScores(t) : t \in Tasks}] :
              \A t \in Tasks : rep[t] \in TaskScores(t)}

PassA(rep) ==
  /\ pc = "A"
  /\ aReports' = Append(aReports, rep)
  /\ pc' = "B"
  /\ UNCHANGED bReports

PassB(rep) ==
  /\ pc = "B"
  /\ bReports' = Append(bReports, rep)
  /\ pc' = IF Len(aReports) = Runs THEN "report" ELSE "A"
  /\ UNCHANGED aReports

PassFails ==
  /\ pc \in {"A", "B"}
  /\ pc' = "failed"
  /\ UNCHANGED <<aReports, bReports>>

Done == pc \in {"report", "failed"} /\ UNCHANGED vars

Next ==
  \/ \E rep \in Reports : PassA(rep) \/ PassB(rep)
  \/ PassFails
  \/ Done

Spec == Init /\ [][Next]_vars

-----------------------------------------------------------------------------
(* Properties                                                              *)

Report == BuildABReport(aReports, bReports)

Samples == (1..Runs) \X Tasks
Passed(reps, n) == {t \in Tasks : Passes(reps[n], t)}
Cells(reps) == {c \in Samples : Passes(reps[c[1]], c[2])}

(* A report without the caveat (abreport.go:135) is one about samples that *)
(* do not overlap: with reflection every run passed more tasks than any    *)
(* run without, and the mean gain is positive.  And the gain over the      *)
(* tasks is the gain over all runs of all tasks, none counted more.        *)
GainIsReal ==
  pc = "report" =>
    LET gain == Cardinality(Cells(bReports)) - Cardinality(Cells(aReports))
        d == Report.meanDelta
    IN  /\ ~Report.caveat <=>
             \A m, n \in 1..Runs :
               Cardinality(Passed(aReports, m)) < Cardinality(Passed(bReports, n))
        /\ d[1] * Runs * Cardinality(Tasks) = gain * d[2]
        /\ Report.meets => gain > 0

Score(reps, c) == reps[c[1]][c[2]]["reasoning_quality"]
Judged(reps) == {c \in Samples : Gave(reps[c[1]], c[2], "reasoning_quality")}
Valued(reps) == {c \in Judged(reps) : ~Score(reps, c).errored}
Total(reps) == SumFunction([c \in Valued(reps) |-> Score(reps, c).value])

Sound(reps, mean, errors) ==
  /\ errors = Cardinality(Judged(reps) \ Valued(reps))
  /\ (\A t \in Tasks : \E c \in Valued(reps) : c[2] = t) =>
       /\ \E c \in Valued(reps) : Leq(<<Score(reps, c).value, 5>>, mean)
       /\ \E c \in Valued(reps) : Leq(mean, <<Score(reps, c).value, 5>>)
  /\ Valued(reps) = Samples =>
       mean[1] * 5 * Cardinality(Samples) = Total(reps) * mean[2]

(* A judge that failed is told and counts for nothing (abreport.go:152):   *)
(* where every task has a judge's score from some run, the mean lies       *)
(* between the lowest and the highest score given, and it is that of all   *)
(* scores where no judge failed.                                           *)
JudgedByScores ==
  pc = "report" =>
    /\ Sound(aReports, Report.judgeA, Report.errorsA)
    /\ Sound(bReports, Report.judgeB, Report.errorsB)

=============================================================================
