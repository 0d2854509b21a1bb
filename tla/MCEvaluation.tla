---------------------------- MODULE MCEvaluation ----------------------------
(* The graders of answers, as MCGrading has them, and the report over the  *)
(* scores of an experiment: two tasks and two runs, with a judge of the    *)
(* first task that fails or gives a low or a high score.  The two share    *)
(* nothing, so that one moves only while the other is where it begins.     *)
EXTENDS MCGrading, AbReport

GivenScore(pass, value, errored) == [pass |-> pass, value |-> value, errored |-> errored]
Graded == {GivenScore(TRUE, 5, FALSE), GivenScore(FALSE, 0, FALSE)}
JudgeFailed == GivenScore(FALSE, 0, TRUE)

MCTaskList == <<"a", "b">>
MCScores   ==
  [a |-> [data_correctness |-> Graded,
          reasoning_quality |-> {JudgeFailed, GivenScore(FALSE, 2, FALSE), GivenScore(TRUE, 5, FALSE)}],
   b |-> [data_correctness |-> Graded,
          reasoning_quality |-> {GivenScore(TRUE, 4, FALSE)}]]

FirstTask == CHOOSE t \in TaskFiles : TRUE

GraderMoves == Init /\ AuditNext /\ UNCHANGED vars
ReportMoves == task = FirstTask /\ AuditInit /\ Next /\ UNCHANGED auditVars

EvaluationInit == AuditInit /\ Init
EvaluationNext == GraderMoves \/ ReportMoves
EvaluationSpec == EvaluationInit /\ [][EvaluationNext]_<<auditVars, vars>>
=============================================================================
