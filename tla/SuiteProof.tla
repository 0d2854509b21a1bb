----------------------------- MODULE SuiteProof -----------------------------
(***************************************************************************)
(* Proofs about Suite, for any task lists, evaluators and judges, and      *)
(* about Ingest, for any files of notes and number of commands: the pass   *)
(* there is that of Suite, so what is found of its steps holds there too.  *)
(***************************************************************************)
EXTENDS Ingest, TLAPS

Given(t, name, s) == [task |-> t, name |-> name, score |-> s]

(* Where the pass is.                                                      *)
PlaceInv ==
  /\ pc \in {"agent", "eval", "merge"} => i <= Len(tasks)
  /\ pc = "agent" => j = 1 /\ scores = NoScores
  /\ pc = "merge" => j = Len(EvalOrder) + 1
  /\ pc \in {"eval", "merge"} => traj[i] \in {"none", "final"}
  /\ pc # "exited" => exit = -1

(* The scores given so far are those of the tasks behind and, of the task  *)
(* at hand, of the evaluators behind; each is given once.                  *)
ScoreInv ==
  /\ \A e \in evaluated :
       /\ e.task \in DOMAIN tasks /\ e.name \in tasks[e.task].spec
       /\ e.task <= i
       /\ e.task = i => pc \in {"eval", "merge", "exited"} /\ \E k \in 1..(j - 1) : EvalOrder[k] = e.name
  /\ \A e, f \in evaluated : e.task = f.task /\ e.name = f.name => e = f

(* The report of the task at hand: what the evaluators behind gave.        *)
CurrentInv ==
  pc \in {"eval", "merge"} =>
    \A n \in DOMAIN EvalOrder :
      IF n < j /\ EvalOrder[n] \in tasks[i].spec
      THEN Given(i, EvalOrder[n], scores[EvalOrder[n]]) \in evaluated
      ELSE scores[EvalOrder[n]] = "none"

(* No task is left behind without the scores of what it selects.           *)
BehindInv ==
  \A t \in 1..(i - 1), name \in Names :
    name \in tasks[t].spec => \E s \in Scores : Given(t, name, s) \in evaluated

(* The merged report has, for an id and an evaluator, the score of the     *)
(* last task behind of that id that selects it.                            *)
Last(id, name, t) ==
  /\ tasks[t].id = id /\ name \in tasks[t].spec
  /\ \A u \in (t + 1)..(i - 1) : tasks[u].id = id => name \notin tasks[u].spec

ReportInv ==
  \A id \in Ids, name \in Names :
    IF report[id][name] = "none"
    THEN \A t \in 1..(i - 1) : tasks[t].id = id => name \notin tasks[t].spec
    ELSE \E t \in 1..(i - 1) : Last(id, name, t) /\ Given(t, name, report[id][name]) \in evaluated

TypeInv == TypeOK /\ PlaceInv

IndInv == TypeInv /\ ScoreInv /\ CurrentInv /\ BehindInv /\ ReportInv

-----------------------------------------------------------------------------
LEMMA OrderFacts ==
  /\ Len(EvalOrder) \in Nat /\ DOMAIN EvalOrder = 1..Len(EvalOrder)
  /\ \A n \in DOMAIN EvalOrder : EvalOrder[n] \in Names
  /\ \A name \in Names : \E n \in DOMAIN EvalOrder : EvalOrder[n] = name
BY SuiteAssumption DEF Names

LEMMA TaskFacts ==
  ASSUME tasks \in TaskLists
  PROVE  /\ Len(tasks) \in Nat /\ DOMAIN tasks = 1..Len(tasks)
         /\ \A t \in DOMAIN tasks : tasks[t].id \in Ids
<1>1. tasks \in Seq([id : STRING, spec : SUBSET STRING])  BY SuiteAssumption
<1>2. Len(tasks) \in Nat /\ DOMAIN tasks = 1..Len(tasks)  BY <1>1
<1>3. ASSUME NEW t \in DOMAIN tasks PROVE tasks[t].id \in Ids  BY <1>3 DEF Ids
<1> QED  BY <1>2, <1>3

LEMMA TypeInit == Init => TypeInv
BY SuiteAssumption, TaskFacts, OrderFacts
DEF Init, TypeInv, TypeOK, PlaceInv, ScoreMap, NoScores

USE DEF TypeInv
LEMMA TypeGive ==
  ASSUME TypeInv, NEW s \in Scores, Scoring, Give(s)
  PROVE  /\ scores' \in ScoreMap /\ evaluated' \subseteq Verdict /\ verdicts' \subseteq Verdict
         /\ j' = j + 1 /\ j' \in 1..(Len(EvalOrder) + 1) /\ tries' = 0
         /\ Name \in Names
<1>1. j \in DOMAIN EvalOrder /\ Name \in Names
  BY OrderFacts DEF TypeOK, Scoring, Evaluating, Name
<1>2. i \in Nat  BY TaskFacts DEF TypeOK
<1>3. scores' \in ScoreMap  BY <1>1 DEF TypeOK, Give, Added, ScoreMap
<1>4. Row(s) \in Verdict  BY <1>1, <1>2 DEF Row, Verdict
<1>5. evaluated' \subseteq Verdict /\ verdicts' \subseteq Verdict
  BY <1>4 DEF TypeOK, Give, Persisted, Row
<1> QED  BY <1>1, <1>3, <1>5, OrderFacts DEF Give

(* Whatever an evaluator gives, and the steps that only count judge calls. *)
Giving == \E s \in Scores : Scoring /\ Give(s)
Waiting == UNCHANGED <<tasks, pc, i, j, scores, traj, verdicts, observed, report, exit, evaluated>>

LEMMA StepCases ==
  ASSUME [Next]_vars
  PROVE  \/ SeedFails \/ (\E opened \in BOOLEAN : StartTask(opened)) \/ AgentRuns
         \/ SkipUnselected \/ Unregistered \/ Giving \/ Waiting
         \/ Observe \/ Merge \/ Finish
<1>1. CASE \E s \in GateScores : GateGives(s)
  BY <1>1 DEF GateGives, Giving, Scores
<1>2. CASE JudgeFails
  BY <1>2 DEF JudgeFails, Waiting
<1>3. CASE \E s \in {"scored", "below"} : JudgeReplies(s)
  BY <1>3 DEF JudgeReplies, Judging, Giving, Scores, JudgeScores
<1>4. CASE JudgeGivesUp
  BY <1>4 DEF JudgeGivesUp, Judging, Giving, Scores, JudgeScores
<1>5. CASE JudgeSpecFails
  BY <1>5 DEF JudgeSpecFails, Judging, Giving, Scores, JudgeScores
<1>6. CASE UNCHANGED vars
  BY <1>6 DEF vars, current, db, Waiting
<1>7. CASE Done
  BY <1>7, <1>6 DEF Done
<1> QED  BY <1>1, <1>2, <1>3, <1>4, <1>5, <1>6, <1>7 DEF Next, Evaluation

(* The calls of a judge, which only the type invariant and the finding of  *)
(* JudgeCallsStored are about.                                             *)
LEMMA TypeCall ==
  ASSUME TypeInv, Judging, MayRetry, JudgeCall
  PROVE  /\ judged' \in [DOMAIN tasks -> SUBSET (Judges \X (0..JudgeAttempts))]
         /\ stored' \in [DOMAIN tasks -> SUBSET (Judges \X (0..JudgeAttempts))]
<1>1. <<Name, tries>> \in Judges \X (0..JudgeAttempts)
  BY DEF TypeOK, Judging, MayRetry
<1> QED  BY <1>1 DEF TypeOK, JudgeCall

LEMMA TypeStep == ASSUME TypeInv, [Next]_vars PROVE TypeInv'
<1> USE DEF TypeOK, PlaceInv
<1>0. /\ Len(tasks) \in Nat /\ DOMAIN tasks = 1..Len(tasks)
      /\ \A t \in DOMAIN tasks : tasks[t].id \in Ids
  BY TaskFacts
<1>1. CASE SeedFails
  BY <1>1 DEF SeedFails, Exit, current, db
<1>2. ASSUME NEW opened \in BOOLEAN, StartTask(opened) PROVE TypeInv'
  BY <1>0, <1>2, OrderFacts, SuiteAssumption DEF StartTask, NoScores, ScoreMap
<1>3. CASE AgentRuns
  BY <1>0, <1>3 DEF AgentRuns, current
<1>4. CASE SkipUnselected
  BY <1>4, OrderFacts DEF SkipUnselected, Evaluating, db
<1>5. CASE Unregistered
  BY <1>5 DEF Unregistered, Exit, current, db
<1>6. ASSUME NEW s \in Scores, Scoring, Give(s),
             judged' \in [DOMAIN tasks -> SUBSET (Judges \X (0..JudgeAttempts))],
             stored' \in [DOMAIN tasks -> SUBSET (Judges \X (0..JudgeAttempts))]
      PROVE  TypeInv'
  <2>1. /\ scores' \in ScoreMap /\ evaluated' \subseteq Verdict /\ verdicts' \subseteq Verdict
        /\ j' = j + 1 /\ j' \in 1..(Len(EvalOrder) + 1) /\ tries' = 0
    BY <1>6, TypeGive
  <2>2. UNCHANGED <<tasks, pc, i, traj, observed, report, exit>> /\ pc = "eval"
    BY <1>6 DEF Give, Scoring, Evaluating
  <2>3. tries' \in 0..JudgeAttempts  BY <2>1, SuiteAssumption
  <2> QED  BY <1>6, <2>1, <2>2, <2>3
<1>7. ASSUME NEW s \in GateScores, GateGives(s) PROVE TypeInv'
  BY <1>6, <1>7 DEF GateGives, Scores
<1>8. CASE JudgeFails
  <2>1. tries' \in 0..JudgeAttempts
    BY <1>8, SuiteAssumption DEF JudgeFails, MayRetry, TriesAfter
  <2> QED  BY <1>8, <2>1, TypeCall DEF JudgeFails
<1>9. ASSUME NEW s \in {"scored", "below"}, JudgeReplies(s) PROVE TypeInv'
  <2>1. s \in Scores  BY DEF Scores, JudgeScores
  <2> QED  BY <1>6, <1>9, <2>1, TypeCall DEF JudgeReplies, Judging
<1>10. CASE JudgeGivesUp
  BY <1>6, <1>10 DEF JudgeGivesUp, Judging, Scores, JudgeScores
<1>11. CASE JudgeSpecFails
  BY <1>6, <1>11 DEF JudgeSpecFails, Judging, Scores, JudgeScores
<1>12. CASE Observe
  BY <1>0, <1>12, OrderFacts DEF Observe, current, db
<1>13. CASE Merge
  <2>1. report' \in [Ids -> ScoreMap]
    BY <1>0, <1>13 DEF Merge, ScoreMap
  <2> QED  BY <1>0, <1>13, <2>1 DEF Merge, current, db
<1>14. CASE Finish
  BY <1>14 DEF Finish, Exit, current, db
<1>15. CASE UNCHANGED vars
  BY <1>15 DEF vars, current, db
<1>16. CASE Done
  BY <1>15, <1>16 DEF Done
<1> QED  BY <1>1, <1>2, <1>3, <1>4, <1>5, <1>7, <1>8, <1>9, <1>10, <1>11, <1>12, <1>13, <1>14, <1>15, <1>16
         DEF Next, Evaluation

(* The states of a pass are those of its variables' types.                 *)
THEOREM TypeCorrect == Spec => []TypeOK
<1>1. Init => TypeInv  BY TypeInit
<1>2. TypeInv /\ [Next]_vars => TypeInv'  BY TypeStep
<1>3. TypeInv => TypeOK  OBVIOUS
<1> QED  BY <1>1, <1>2, <1>3, PTL DEF Spec

-----------------------------------------------------------------------------
(* The scores                                                              *)

LEMMA GiveFacts ==
  ASSUME TypeInv, Giving
  PROVE  \E s \in Scores :
           /\ pc = "eval" /\ i \in 1..Len(tasks)
           /\ j \in DOMAIN EvalOrder /\ Name = EvalOrder[j] /\ Name \in tasks[i].spec
           /\ scores' = [scores EXCEPT ![Name] = s]
           /\ evaluated' = evaluated \cup {Given(i, Name, s)}
           /\ verdicts' \in {verdicts, IF traj[i] = "none" THEN verdicts ELSE verdicts \cup {Given(i, Name, s)}}
           /\ j' = j + 1
           /\ UNCHANGED <<tasks, pc, i, traj, observed, report, exit>>
<1>1. PICK s \in Scores : Scoring /\ Give(s)  BY DEF Giving
<1>2. pc = "eval" /\ i \in 1..Len(tasks) /\ j \in DOMAIN EvalOrder
  BY <1>1, TaskFacts, OrderFacts DEF Scoring, Evaluating, TypeOK, PlaceInv
<1>3. verdicts' \in {verdicts, IF traj[i] = "none" THEN verdicts ELSE verdicts \cup {Given(i, Name, s)}}
  BY <1>1 DEF Give, Persisted, Row, Given
<1>4. evaluated' = evaluated \cup {Given(i, Name, s)}
  BY <1>1 DEF Give, Given
<1> QED  BY <1>1, <1>2, <1>3, <1>4 DEF Give, Added, Scoring, Name, Selected

LEMMA ScoreStep == ASSUME IndInv, [Next]_vars PROVE ScoreInv'
<1> USE DEF IndInv, ScoreInv
<1>0. i \in Nat /\ j \in Nat  BY DEF TypeOK
<1>1. CASE SeedFails
  BY <1>1 DEF SeedFails, Exit, current
<1>2. ASSUME NEW opened \in BOOLEAN, StartTask(opened) PROVE ScoreInv'
  BY <1>2 DEF StartTask
<1>3. CASE AgentRuns
  BY <1>3 DEF AgentRuns, current
<1>4. CASE SkipUnselected
  BY <1>0, <1>4 DEF SkipUnselected
<1>5. CASE Unregistered
  BY <1>5 DEF Unregistered, Exit, current, Scoring, Evaluating
<1>6. CASE Giving
  <2>1. PICK s \in Scores :
           /\ pc = "eval" /\ i \in 1..Len(tasks)
           /\ j \in DOMAIN EvalOrder /\ Name = EvalOrder[j] /\ Name \in tasks[i].spec
           /\ evaluated' = evaluated \cup {Given(i, Name, s)}
           /\ j' = j + 1
           /\ UNCHANGED <<tasks, pc, i>>
    BY <1>6, GiveFacts
  <2>2. i \in DOMAIN tasks  BY <2>1, TaskFacts DEF TypeOK
  <2>3. j \in 1..(j' - 1)  BY <2>1, <1>0, OrderFacts
  <2>4. ASSUME NEW e \in evaluated'
        PROVE  /\ e.task \in DOMAIN tasks' /\ e.name \in tasks'[e.task].spec /\ e.task <= i'
               /\ e.task = i' => pc' \in {"eval", "merge", "exited"} /\ \E k \in 1..(j' - 1) : EvalOrder[k] = e.name
    <3>1. CASE e \in evaluated  BY <1>0, <2>1, <3>1
    <3>2. CASE e = Given(i, Name, s)
      <4>1. e.task = i /\ e.name = Name  BY <3>2 DEF Given
      <4> QED  BY <4>1, <1>0, <2>1, <2>2, <2>3
    <3> QED  BY <2>1, <3>1, <3>2
  <2>5. ASSUME NEW e \in evaluated PROVE ~(e.task = i /\ e.name = Name)
    <3>1. SUFFICES ASSUME e.task = i, e.name = Name PROVE FALSE  OBVIOUS
    <3>2. PICK k \in 1..(j - 1) : EvalOrder[k] = EvalOrder[j]  BY <2>1, <3>1
    <3>3. k \in DOMAIN EvalOrder /\ k # j  BY <2>1, <3>2, <1>0, OrderFacts
    <3> QED  BY <2>1, <3>2, <3>3, SuiteAssumption
  <2>6. ASSUME NEW e \in evaluated', NEW f \in evaluated', e.task = f.task, e.name = f.name PROVE e = f
    BY <2>1, <2>5, <2>6 DEF Given
  <2> QED  BY <2>4, <2>6
<1>7. CASE Waiting
  BY <1>7 DEF Waiting
<1>8. CASE Observe
  BY <1>8 DEF Observe, current
<1>9. CASE Merge
  <2>1. \A e \in evaluated : e.task \in Nat  BY DEF TypeOK, Verdict
  <2> QED  BY <1>0, <1>9, <2>1 DEF Merge
<1>10. CASE Finish
  BY <1>10 DEF Finish, Exit, current
<1> QED  BY <1>1, <1>2, <1>3, <1>4, <1>5, <1>6, <1>7, <1>8, <1>9, <1>10, StepCases

LEMMA CurrentStep == ASSUME IndInv, [Next]_vars PROVE CurrentInv'
<1> USE DEF IndInv, CurrentInv
<1>0. i \in Nat /\ j \in Nat  BY DEF TypeOK
<1>1. CASE SeedFails
  BY <1>1 DEF SeedFails, Exit
<1>2. ASSUME NEW opened \in BOOLEAN, StartTask(opened) PROVE CurrentInv'
  BY <1>2 DEF StartTask
<1>3. CASE AgentRuns
  <2>1. j' = 1 /\ scores' = NoScores /\ UNCHANGED <<tasks, i, evaluated>>
    BY <1>3 DEF AgentRuns, current, PlaceInv
  <2>2. \A n \in DOMAIN EvalOrder : ~(n < 1) /\ NoScores[EvalOrder[n]] = "none"
    BY OrderFacts DEF NoScores
  <2> QED  BY <2>1, <2>2
<1>4. CASE SkipUnselected
  <2>1. pc = "eval" /\ j' = j + 1 /\ EvalOrder[j] \notin tasks[i].spec
        /\ UNCHANGED <<tasks, pc, i, scores, evaluated>>
    BY <1>4 DEF SkipUnselected, Evaluating, Selected, Name
  <2>2. \A n \in DOMAIN EvalOrder : n < j + 1 => n < j \/ n = j
    BY <1>0, OrderFacts
  <2> QED  BY <2>1, <2>2, <1>0, OrderFacts
<1>5. CASE Unregistered
  BY <1>5 DEF Unregistered, Exit
<1>6. CASE Giving
  <2>1. PICK s \in Scores :
           /\ pc = "eval"
           /\ j \in DOMAIN EvalOrder /\ Name = EvalOrder[j] /\ Name \in tasks[i].spec
           /\ scores' = [scores EXCEPT ![Name] = s]
           /\ evaluated' = evaluated \cup {Given(i, Name, s)}
           /\ j' = j + 1
           /\ UNCHANGED <<tasks, pc, i>>
    BY <1>6, GiveFacts
  <2>2. ASSUME NEW n \in DOMAIN EvalOrder
        PROVE  IF n < j' /\ EvalOrder[n] \in tasks'[i'].spec
               THEN Given(i', EvalOrder[n], scores'[EvalOrder[n]]) \in evaluated'
               ELSE scores'[EvalOrder[n]] = "none"
    <3>1. CASE n = j
      <4>1. scores'[EvalOrder[n]] = s
        BY <2>1, <3>1, OrderFacts DEF TypeOK, ScoreMap
      <4> QED  BY <4>1, <2>1, <3>1, <1>0
    <3>2. CASE n # j
      <4>1. EvalOrder[n] # Name  BY <2>1, <3>2, SuiteAssumption
      <4>2. scores'[EvalOrder[n]] = scores[EvalOrder[n]]
        BY <4>1, <2>1, OrderFacts DEF TypeOK, ScoreMap
      <4>3. n < j' <=> n < j  BY <2>1, <3>2, <1>0, OrderFacts
      <4> QED  BY <4>2, <4>3, <2>1
    <3> QED  BY <3>1, <3>2
  <2> QED  BY <2>2
<1>7. CASE Waiting
  BY <1>7 DEF Waiting
<1>8. CASE Observe
  BY <1>8 DEF Observe, current
<1>9. CASE Merge
  BY <1>9 DEF Merge
<1>10. CASE Finish
  BY <1>10 DEF Finish, Exit
<1> QED  BY <1>1, <1>2, <1>3, <1>4, <1>5, <1>6, <1>7, <1>8, <1>9, <1>10, StepCases

LEMMA BehindStep == ASSUME IndInv, [Next]_vars PROVE BehindInv'
<1> USE DEF IndInv, BehindInv
<1>1. CASE UNCHANGED <<tasks, i, evaluated>>
  BY <1>1
<1>2. CASE Giving
  BY <1>2, GiveFacts
<1>3. CASE Merge
  <2>1. pc = "merge" /\ j = Len(EvalOrder) + 1 /\ i' = i + 1 /\ i \in Nat
        /\ UNCHANGED <<tasks, evaluated>>
    BY <1>3 DEF Merge, TypeOK, PlaceInv
  <2>2. ASSUME NEW name \in Names, name \in tasks[i].spec
        PROVE  \E s \in Scores : Given(i, name, s) \in evaluated
    <3>1. PICK n \in DOMAIN EvalOrder : EvalOrder[n] = name  BY OrderFacts
    <3>2. Given(i, name, scores[name]) \in evaluated
      BY <2>1, <2>2, <3>1, OrderFacts DEF CurrentInv
    <3>3. scores[name] \in Scores  BY <3>2 DEF TypeOK, Verdict, Given
    <3> QED  BY <3>2, <3>3
  <2>3. \A t \in 1..(i' - 1) : t \in 1..(i - 1) \/ t = i  BY <2>1
  <2> QED  BY <2>1, <2>2, <2>3
<1> QED  BY <1>1, <1>2, <1>3, StepCases
         DEF SeedFails, StartTask, AgentRuns, SkipUnselected, Unregistered, Waiting, Observe, Finish

LEMMA ReportStep == ASSUME IndInv, [Next]_vars PROVE ReportInv'
<1> USE DEF IndInv, ReportInv
<1>1. CASE UNCHANGED <<tasks, i, report, evaluated>>
  BY <1>1 DEF Last
<1>2. CASE Giving
  <2>1. UNCHANGED <<tasks, i, report>> /\ evaluated \subseteq evaluated'
    BY <1>2, GiveFacts
  <2> QED  BY <2>1 DEF Last
<1>3. CASE Merge
  <2>1. /\ pc = "merge" /\ j = Len(EvalOrder) + 1 /\ i' = i + 1 /\ i \in Nat \ {0}
        /\ UNCHANGED <<tasks, evaluated>>
        /\ tasks[i].id \in Ids
    BY <1>3, TaskFacts DEF Merge, TypeOK, PlaceInv
  <2>2. \A t \in 1..(i' - 1) : t \in 1..(i - 1) \/ t = i  BY <2>1
  <2> SUFFICES ASSUME NEW id \in Ids, NEW name \in Names
      PROVE IF report'[id][name] = "none"
            THEN \A t \in 1..(i' - 1) : tasks[t].id = id => name \notin tasks[t].spec
            ELSE \E t \in 1..(i' - 1) : Last(id, name, t)' /\ Given(t, name, report'[id][name]) \in evaluated
    BY <2>1
  <2>3. ASSUME NEW t \in 1..(i - 1), Last(id, name, t),
               id = tasks[i].id => name \notin tasks[i].spec
        PROVE  Last(id, name, t)'
    BY <2>1, <2>2, <2>3 DEF Last
  <2>4. CASE id # tasks[i].id
    <3>1. report'[id] = report[id]  BY <1>3, <2>4 DEF Merge, TypeOK
    <3> QED  BY <2>1, <2>2, <2>3, <2>4, <3>1
  <2>5. CASE id = tasks[i].id
    <3>1. report'[id][name] = IF scores[name] = "none" THEN report[id][name] ELSE scores[name]
      BY <1>3, <2>1, <2>5 DEF Merge, TypeOK
    <3>2. PICK n \in DOMAIN EvalOrder : EvalOrder[n] = name  BY OrderFacts
    <3>3. IF name \in tasks[i].spec THEN Given(i, name, scores[name]) \in evaluated ELSE scores[name] = "none"
      BY <2>1, <3>2, OrderFacts DEF CurrentInv
    <3>4. name \in tasks[i].spec => scores[name] # "none"
      BY <3>3 DEF TypeOK, Verdict, Given, Scores, GateScores, JudgeScores
    <3>5. CASE name \notin tasks[i].spec
      BY <2>1, <2>2, <2>3, <3>1, <3>3, <3>5
    <3>6. CASE name \in tasks[i].spec
      <4>1. PICK t \in 1..(i' - 1) : t = i  BY <2>1
      <4>2. Last(id, name, t)'
        BY <2>1, <2>5, <3>6, <4>1 DEF Last
      <4> QED  BY <2>1, <3>1, <3>3, <3>4, <3>6, <4>1, <4>2
    <3> QED  BY <3>5, <3>6
  <2> QED  BY <2>4, <2>5
<1> QED  BY <1>1, <1>2, <1>3, StepCases
         DEF SeedFails, StartTask, AgentRuns, SkipUnselected, Unregistered, Waiting, Observe, Finish

LEMMA IndInit == Init => IndInv
<1>1. Init => TypeInv  BY TypeInit
<1>2. Init => ScoreInv /\ CurrentInv  BY DEF Init, ScoreInv, CurrentInv
<1>3. Init => BehindInv  BY DEF Init, BehindInv
<1>4. Init => ReportInv  BY DEF Init, ReportInv, NoScores
<1> QED  BY <1>1, <1>2, <1>3, <1>4 DEF IndInv

LEMMA IndStep == IndInv /\ [Next]_vars => IndInv'
BY TypeStep, ScoreStep, CurrentStep, BehindStep, ReportStep DEF IndInv

LEMMA Inductive == Spec => []IndInv
BY IndInit, IndStep, PTL DEF Spec

-----------------------------------------------------------------------------
(* The theorems                                                            *)

LEMMA RowsStep == ASSUME IndInv, VerdictsAreScores, [Next]_vars PROVE VerdictsAreScores'
<1> USE DEF IndInv, VerdictsAreScores
<1>1. CASE UNCHANGED <<verdicts, evaluated, traj>>
  BY <1>1
<1>2. ASSUME NEW t \in {"none", "open", "final"}, traj' = [traj EXCEPT ![i] = t],
             pc \in {"next", "agent"}, UNCHANGED <<verdicts, evaluated>>
      PROVE  VerdictsAreScores'
  <2>1. \A v \in verdicts : v.task # i  BY <1>2 DEF ScoreInv
  <2>2. \A v \in verdicts : traj'[v.task] = traj[v.task]
    BY <1>2, <2>1 DEF ScoreInv, TypeOK
  <2> QED  BY <1>2, <2>2
<1>3. CASE Giving
  <2>1. PICK s \in Scores :
           /\ pc = "eval"
           /\ evaluated' = evaluated \cup {Given(i, Name, s)}
           /\ verdicts' \in {verdicts, IF traj[i] = "none" THEN verdicts ELSE verdicts \cup {Given(i, Name, s)}}
           /\ UNCHANGED traj
    BY <1>3, GiveFacts
  <2>2. \A v \in verdicts' : v \in evaluated'  BY <2>1
  <2>3. \A v, w \in evaluated' : v.task = w.task /\ v.name = w.name => v = w
    BY ScoreStep DEF ScoreInv
  <2>4. ASSUME NEW v \in verdicts' PROVE traj'[v.task] = "final"
    <3>1. CASE v \in verdicts  BY <2>1, <3>1
    <3>2. CASE v = Given(i, Name, s) /\ traj[i] # "none"
      BY <2>1, <3>2 DEF PlaceInv, Given
    <3> QED  BY <2>1, <3>1, <3>2
  <2> QED  BY <2>2, <2>3, <2>4
<1>4. ASSUME NEW opened \in BOOLEAN, StartTask(opened) PROVE VerdictsAreScores'
  BY <1>2, <1>4 DEF StartTask
<1>5. CASE AgentRuns
  <2>1. CASE traj[i] = "open"  BY <1>2, <1>5, <2>1 DEF AgentRuns
  <2>2. CASE traj[i] # "open"
    <3>1. traj' = traj  BY <1>5, <2>2 DEF AgentRuns, TypeOK
    <3> QED  BY <1>1, <1>5, <3>1 DEF AgentRuns
  <2> QED  BY <2>1, <2>2
<1> QED  BY <1>1, <1>3, <1>4, <1>5, StepCases
         DEF SeedFails, SkipUnselected, Unregistered, Waiting, Observe, Merge, Finish, db

(* The rows of eval_results are scores that were given, one for a task and *)
(* an evaluator, and only of finalized trajectories (suite.go:150).        *)
THEOREM RowsCorrect == Spec => []VerdictsAreScores
<1>1. Init => VerdictsAreScores  BY DEF Init, VerdictsAreScores
<1>2. IndInv /\ VerdictsAreScores /\ [Next]_vars => VerdictsAreScores'  BY RowsStep
<1> QED  BY <1>1, <1>2, Inductive, PTL DEF Spec

(* The observer is shown whole tasks, each at most once (suite.go:154).    *)
ShownInv == ObservedWhole /\ \A o \in observed : o.task < i \/ (o.task = i /\ pc = "merge")

THEOREM ObservedCorrect == Spec => []ObservedWhole
<1>1. Init => ShownInv  BY DEF Init, ShownInv, ObservedWhole
<1>2. IndInv /\ ShownInv /\ [Next]_vars => ShownInv'
  <2> SUFFICES ASSUME IndInv, ShownInv, [Next]_vars PROVE ShownInv'  OBVIOUS
  <2> USE DEF IndInv, ShownInv
  <2>0. i \in Nat /\ \A o \in observed : o.task \in Nat  BY TaskFacts DEF TypeOK
  <2>1. ASSUME UNCHANGED <<tasks, observed>>, evaluated \subseteq evaluated',
               (i' = i /\ (pc' = pc \/ pc # "merge")) \/ i' = i + 1
        PROVE  ShownInv'
    <3>1. ObservedWhole'  BY <2>1 DEF ObservedWhole, InOrder
    <3> QED  BY <2>0, <2>1, <3>1
  <2>2. CASE Giving
    BY <2>1, <2>2, GiveFacts
  <2>3. CASE Observe
    <3>1. /\ pc = "eval" /\ pc' = "merge" /\ j = Len(EvalOrder) + 1
          /\ UNCHANGED <<tasks, i, evaluated>>
          /\ \A o \in observed' \ observed :
               /\ o = [task |-> i, scores |-> scores]
               /\ scores["data_correctness"] # "none"
          /\ observed \subseteq observed'
      BY <2>3, OrderFacts DEF Observe, Shown, TypeOK
    <3>2. \A o \in observed : o.task < i  BY <3>1
    <3>3. ASSUME NEW name \in InOrder(i)
          PROVE  Given(i, name, scores[name]) \in evaluated
      <4>1. PICK n \in DOMAIN EvalOrder : EvalOrder[n] = name
        BY <3>3, OrderFacts DEF InOrder
      <4>2. n < j /\ name \in tasks[i].spec  BY <3>1, <3>3, <4>1, OrderFacts DEF InOrder
      <4> QED  BY <3>1, <4>1, <4>2 DEF CurrentInv
    <3>4. ASSUME NEW o \in observed', NEW p \in observed', p.task = o.task PROVE p = o
      <4>1. CASE o \in observed /\ p \in observed  BY <3>4, <4>1 DEF ObservedWhole
      <4>2. CASE o \notin observed /\ p \notin observed  BY <3>1, <4>2
      <4> QED  BY <2>0, <3>1, <3>2, <3>4, <4>1, <4>2
    <3>5. ASSUME NEW o \in observed'
          PROVE  /\ o.scores["data_correctness"] # "none"
                 /\ \A name \in InOrder(o.task) : Given(o.task, name, o.scores[name]) \in evaluated'
      <4>1. CASE o \in observed  BY <3>1, <4>1 DEF ObservedWhole, Given
      <4>2. CASE o \notin observed  BY <3>1, <3>3, <4>2
      <4> QED  BY <4>1, <4>2
    <3>6. ObservedWhole'  BY <3>1, <3>4, <3>5 DEF ObservedWhole, InOrder, Given
    <3>7. \A o \in observed' : o.task < i \/ o.task = i  BY <3>1, <3>2
    <3> QED  BY <3>1, <3>6, <3>7
  <2>4. CASE SkipUnselected \/ Waiting
    <3>1. UNCHANGED <<tasks, i, pc, observed, evaluated>>
      BY <2>4 DEF SkipUnselected, Waiting
    <3> QED  BY <3>1 DEF ObservedWhole, InOrder
  <2>5. CASE Merge
    BY <2>1, <2>5 DEF Merge
  <2>6. CASE SeedFails \/ AgentRuns \/ Unregistered \/ Finish
    BY <2>1, <2>6 DEF SeedFails, AgentRuns, Unregistered, Evaluating, Finish
  <2>7. ASSUME NEW opened \in BOOLEAN, StartTask(opened) PROVE ShownInv'
    BY <2>1, <2>7 DEF StartTask
  <2> QED  BY <2>2, <2>3, <2>4, <2>5, <2>6, <2>7, StepCases
<1>3. ShownInv => ObservedWhole  BY DEF ShownInv
<1> QED  BY <1>1, <1>2, <1>3, Inductive, PTL DEF Spec

(* The exit code is the gate, whatever is selected, shared or broken.      *)
LEMMA GateFacts ==
  ASSUME IndInv, i = Len(tasks) + 1
  PROVE  GateFailed <=> \E e \in evaluated : e.name \in GateNames /\ e.score # "pass" /\ Stands(e)
<1> USE DEF IndInv
<1>0. /\ Len(tasks) \in Nat /\ DOMAIN tasks = 1..(i - 1)
      /\ \A t \in DOMAIN tasks : tasks[t].id \in Ids
  BY TaskFacts DEF TypeOK
<1>1. ASSUME NEW id \in Ids, NEW name \in GateNames, report[id][name] \notin {"none", "pass"}
      PROVE  \E e \in evaluated : e.name \in GateNames /\ e.score # "pass" /\ Stands(e)
  <2>1. PICK t \in 1..(i - 1) : Last(id, name, t) /\ Given(t, name, report[id][name]) \in evaluated
    BY <1>1, SuiteAssumption DEF ReportInv
  <2>2. Stands(Given(t, name, report[id][name]))
    BY <1>0, <2>1 DEF Stands, Last, Given
  <2> QED  BY <1>1, <2>1, <2>2 DEF Given
<1>2. ASSUME NEW e \in evaluated, e.name \in GateNames, e.score # "pass", Stands(e)
      PROVE  GateFailed
  <2>1. e.task \in 1..(i - 1) /\ e.name \in tasks[e.task].spec /\ e.name \in Names
    BY <1>0, <1>2, SuiteAssumption DEF ScoreInv
  <2>2. PICK id \in Ids : id = tasks[e.task].id  BY <1>0, <2>1
  <2>3. report[id][e.name] # "none"  BY <2>1, <2>2 DEF ReportInv
  <2>4. PICK t \in 1..(i - 1) : Last(id, e.name, t) /\ Given(t, e.name, report[id][e.name]) \in evaluated
    BY <2>1, <2>3 DEF ReportInv
  <2>5. t = e.task
    BY <1>0, <1>2, <2>1, <2>2, <2>4 DEF Last, Stands
  <2>6. e = Given(t, e.name, report[id][e.name])
    BY <1>2, <2>4, <2>5 DEF ScoreInv, Given
  <2>7. e.score = report[id][e.name]  BY <2>6 DEF Given
  <2> QED  BY <1>2, <2>3, <2>7 DEF GateFailed
<1> QED  BY <1>1, <1>2 DEF GateFailed

(* The exit code tells what the gate evaluators found (evalcli.go:249).    *)
THEOREM ExitCorrect == Spec => []ExitTellsGate
<1>1. Init => ExitTellsGate  BY DEF Init, ExitTellsGate
<1>2. IndInv /\ ExitTellsGate /\ [Next]_vars => ExitTellsGate'
  <2> SUFFICES ASSUME IndInv, ExitTellsGate, [Next]_vars PROVE ExitTellsGate'  OBVIOUS
  <2> USE DEF IndInv
  <2>1. CASE exit' \notin {0, 1}
    BY <2>1 DEF ExitTellsGate
  <2>2. CASE UNCHANGED <<tasks, evaluated, exit>>
    BY <2>2 DEF ExitTellsGate, Stands, Evaluated, InOrder
  <2>3. CASE Finish
    <3>1. i = Len(tasks) + 1 /\ exit' = (IF GateFailed THEN 1 ELSE 0) /\ UNCHANGED <<tasks, evaluated>>
      BY <2>3, TaskFacts DEF Finish, Exit, TypeOK
    <3>2. DOMAIN tasks = 1..(i - 1)  BY <3>1, TaskFacts DEF TypeOK
    <3>3. ASSUME NEW t \in DOMAIN tasks PROVE Evaluated(t) = InOrder(t)
      <4>1. InOrder(t) \subseteq Evaluated(t)
        <5> SUFFICES ASSUME NEW name \in InOrder(t) PROVE name \in Evaluated(t)  OBVIOUS
        <5>1. name \in Names /\ name \in tasks[t].spec  BY DEF InOrder
        <5>2. PICK s \in Scores : Given(t, name, s) \in evaluated
          BY <3>2, <5>1 DEF BehindInv
        <5>3. Given(t, name, s).task = t /\ Given(t, name, s).name = name  BY DEF Given
        <5> QED  BY <5>2, <5>3 DEF Evaluated
      <4>2. Evaluated(t) \subseteq InOrder(t)
        BY DEF InOrder, Evaluated, ScoreInv, TypeOK, Verdict
      <4> QED  BY <4>1, <4>2
    <3> QED  BY <3>1, <3>3, GateFacts DEF ExitTellsGate, Stands, Evaluated, InOrder
  <2>4. CASE Giving
    BY <2>1, <2>4, GiveFacts DEF PlaceInv
  <2> QED  BY <2>1, <2>2, <2>3, <2>4, StepCases
           DEF SeedFails, StartTask, AgentRuns, SkipUnselected, Unregistered, Waiting, Observe, Merge, Exit
<1> QED  BY <1>1, <1>2, Inductive, PTL DEF Spec

-----------------------------------------------------------------------------
(* The memory that learns from a pass                                      *)

Sources == EvalSources \cup NoteSources

Tasks == Ids \cup {"none"}

MemoryType ==
  /\ outcomes \in [DOMAIN tasks -> {"none", "in_progress", "success", "error"}]
  /\ memory \in [Sources -> [id : Nat, task : Tasks]]
  /\ ids \in Nat
  /\ rows \in Seq([source : Sources, task : Tasks, taken : BOOLEAN])

(* The ids of the items are different, and none is still to be given.      *)
ItemInv ==
  /\ \A s \in Sources : memory[s] # NoItem => memory[s].id \in 1..ids
  /\ \A s, r \in Sources : memory[s] # NoItem /\ r # s => memory[r].id # memory[s].id

(* What was learnt, and what is about to be, was earned.                   *)
EarnedInv ==
  \A t \in DOMAIN tasks :
    /\ memory[EvalSource(t)] # NoItem =>
         Earned(t) /\ memory[EvalSource(t)].task = tasks[t].id
    /\ \A n \in DOMAIN rows :
         rows[n].taken /\ rows[n].source = EvalSource(t) =>
           Earned(t) /\ rows[n].task = tasks[t].id

(* A command that saw the end of the pass has taken what it saw, or will.  *)
WholeInv ==
  /\ whole \/ learnt => pc = "exited"
  /\ \A t \in DOMAIN tasks : outcomes[t] = "success" /\ Passed(t) =>
       /\ learnt => memory[EvalSource(t)] # NoItem
       /\ whole => \/ memory[EvalSource(t)] # NoItem
                   \/ \E n \in DOMAIN rows : rows[n].taken /\ rows[n].source = EvalSource(t)

MemoryInv ==
  IndInv /\ VerdictsAreScores /\ MemoryType /\ ItemInv /\ EarnedInv /\ WholeInv

-----------------------------------------------------------------------------
LEMMA SourceFacts ==
  /\ \A list \in TaskLists : \A t \in DOMAIN list : EvalSource(t) \in EvalSources
  /\ \A file \in Notes : \A n \in DOMAIN file : NoteSource(file[n].source) \in NoteSources
  /\ \A t, u : EvalSource(t) = EvalSource(u) => t = u
  /\ \A t, n : EvalSource(t) # NoteSource(n)
BY DEF EvalSources, NoteSources, EvalSource, NoteSource

(* A step of the pass is one of Suite.                                     *)
LEMMA PassFacts ==
  ASSUME PassStep
  PROVE  [Next]_vars /\ UNCHANGED <<memory, running, rows, ids, whole, learnt, ingests>>
BY DEF PassStep, Opened, Finalized, Next

LEMMA CommandFacts == ASSUME CommandStep PROVE UNCHANGED <<vars, outcomes>>
BY DEF CommandStep, IngestTrajectoryDB, IngestManualNotes, Begin, Skip, Upsert, Abandon, Finished

LEMMA MemoryInit == IngestInit => MemoryInv
<1> SUFFICES ASSUME IngestInit PROVE MemoryInv  OBVIOUS
<1>1. IndInv /\ VerdictsAreScores
  BY IndInit DEF IngestInit, Init, VerdictsAreScores
<1>2. MemoryType
  <2>1. NoItem \in [id : Nat, task : Tasks]  BY DEF NoItem, Tasks
  <2>2. rows = <<>> /\ memory = [s \in Sources |-> NoItem] /\ ids = 0
        /\ outcomes = [t \in DOMAIN tasks |-> "none"]
    BY DEF IngestInit, Sources
  <2>3. memory \in [Sources -> [id : Nat, task : Tasks]]  BY <2>1, <2>2
  <2> QED  BY <2>2, <2>3 DEF MemoryType
<1>3. ItemInv  BY DEF IngestInit, ItemInv, Sources
<1>4. EarnedInv
  <2>1. tasks \in TaskLists  BY DEF IngestInit, Init
  <2> QED  BY <2>1, SourceFacts DEF IngestInit, EarnedInv
<1>5. WholeInv  BY DEF IngestInit, WholeInv, Init
<1> QED  BY <1>1, <1>2, <1>3, <1>4, <1>5 DEF MemoryInv

(* Nothing that was earned is lost: only the task at hand changes, and it  *)
(* has no score before its trajectory is final.                            *)
LEMMA EarnedStays ==
  ASSUME MemoryInv, PassStep, NEW t \in DOMAIN tasks, Earned(t)
  PROVE  Earned(t)'
<1> USE DEF MemoryInv, IndInv
<1>1. UNCHANGED tasks /\ evaluated \subseteq evaluated'
  <2>1. [Next]_vars  BY PassFacts
  <2>2. Giving => UNCHANGED tasks /\ evaluated \subseteq evaluated'  BY GiveFacts
  <2> QED  BY <2>1, <2>2, StepCases
           DEF SeedFails, StartTask, AgentRuns, SkipUnselected, Unregistered, Waiting, Observe, Merge, Finish
<1>2. CASE UNCHANGED outcomes
  BY <1>1, <1>2 DEF Earned
<1>3. CASE pc \in {"next", "agent"} /\ \E o : outcomes' = [outcomes EXCEPT ![i] = o]
  <2>1. t # i  BY <1>3 DEF Earned, ScoreInv
  <2>2. outcomes'[t] = outcomes[t]  BY <1>3, <2>1 DEF MemoryType
  <2> QED  BY <1>1, <2>2 DEF Earned
<1>4. ASSUME NEW opened \in BOOLEAN, Opened(opened) PROVE Earned(t)'
  BY <1>3, <1>4 DEF Opened, StartTask
<1>5. CASE Finalized
  <2>1. pc \in {"next", "agent"}  BY <1>5 DEF Finalized, AgentRuns
  <2>2. \E o : outcomes' = [outcomes EXCEPT ![i] = o]  BY <1>5 DEF Finalized
  <2> QED  BY <1>3, <2>1, <2>2
<1> QED  BY <1>2, <1>4, <1>5 DEF PassStep

LEMMA PassKeeps ==
  ASSUME MemoryInv, PassStep
  PROVE  MemoryInv'
<1> USE DEF MemoryInv
<1>1. [Next]_vars /\ UNCHANGED <<memory, running, rows, ids, whole, learnt>>  BY PassFacts
<1>2. IndInv' /\ VerdictsAreScores'  BY <1>1, IndStep, RowsStep
<1>3. UNCHANGED tasks
  <2>1. Giving => UNCHANGED tasks  BY GiveFacts DEF IndInv
  <2> QED  BY <1>1, <2>1, StepCases
           DEF SeedFails, StartTask, AgentRuns, SkipUnselected, Unregistered, Waiting, Observe, Merge, Finish
<1>4. MemoryType'
  <2>1. outcomes' \in [DOMAIN tasks -> {"none", "in_progress", "success", "error"}]
    BY DEF PassStep, Opened, Finalized, MemoryType
  <2> QED  BY <1>1, <1>3, <2>1 DEF MemoryType
<1>5. ItemInv'  BY <1>1 DEF ItemInv
<1>6. EarnedInv'
  BY <1>1, <1>3, EarnedStays DEF EarnedInv
<1>7. pc # "exited"
  BY DEF PassStep, Opened, Finalized, SeedFails, StartTask, AgentRuns, Evaluation, SkipUnselected, Unregistered,
     GateGives, JudgeFails, JudgeReplies, JudgeGivesUp, JudgeSpecFails, Judging, Scoring, Evaluating,
     Observe, Merge, Finish
<1>8. WholeInv'  BY <1>1, <1>7 DEF WholeInv
<1> QED  BY <1>2, <1>4, <1>5, <1>6, <1>8

-----------------------------------------------------------------------------
(* What a command sets out to take.                                        *)
LEMMA TakenEarned ==
  ASSUME MemoryInv, NEW t \in DOMAIN tasks, outcomes[t] = "success", Passed(t)
  PROVE  Earned(t)
<1>1. PICK v \in verdicts : v.task = t /\ v.name = "data_correctness" /\ v.score = "pass"
  BY DEF Passed, Verdicts
<1> QED  BY <1>1 DEF Earned, MemoryInv, VerdictsAreScores, IndInv, TypeInv, TypeOK, Verdict

LEMMA TrajectoryRows ==
  ASSUME MemoryInv
  PROVE  /\ Trajectories \in Seq([source : Sources, task : Tasks, taken : BOOLEAN])
         /\ DOMAIN Trajectories = DOMAIN tasks
<1>1. tasks \in TaskLists /\ tasks \in Seq([id : STRING, spec : SUBSET STRING])
  BY SuiteAssumption DEF MemoryInv, IndInv, TypeInv, TypeOK
<1>2. Len(tasks) \in Nat /\ DOMAIN tasks = 1..Len(tasks)  BY <1>1
<1>3. ASSUME NEW t \in DOMAIN tasks
      PROVE  Trajectories[t] \in [source : Sources, task : Tasks, taken : BOOLEAN]
  <2>1. EvalSource(t) \in Sources  BY <1>1, SourceFacts DEF Sources
  <2>2. tasks[t].id \in Tasks  BY <1>1, TaskFacts DEF Tasks
  <2> QED  BY <2>1, <2>2 DEF Trajectories
<1> QED  BY <1>2, <1>3 DEF Trajectories

LEMMA ElementOfSeq ==
  ASSUME NEW S, NEW s \in Seq(S), NEW n \in 1..Len(s) PROVE s[n] \in S
OBVIOUS

LEMMA NoteRowsType ==
  ASSUME NEW file \in Notes
  PROVE  /\ NoteRows(file) \in Seq([source : Sources, task : Tasks, taken : BOOLEAN])
         /\ DOMAIN NoteRows(file) = DOMAIN file
         /\ \A n \in DOMAIN file : NoteRows(file)[n].source = NoteSource(file[n].source)
<1>1. file \in Seq([source : STRING, complete : BOOLEAN])  BY IngestAssumption
<1>2. Len(file) \in Nat /\ DOMAIN file = 1..Len(file)  BY <1>1
<1>3. ASSUME NEW n \in DOMAIN file
      PROVE  NoteRows(file)[n] \in [source : Sources, task : Tasks, taken : BOOLEAN]
  <2>1. NoteSource(file[n].source) \in Sources  BY SourceFacts DEF Sources
  <2>2. file[n] \in [source : STRING, complete : BOOLEAN]
    <3>1. n \in 1..Len(file)  BY <1>2
    <3> QED  BY <1>1, <3>1, ElementOfSeq
  <2> QED  BY <2>1, <2>2 DEF NoteRows, Tasks
<1> QED  BY <1>2, <1>3 DEF NoteRows

(* What a command leaves alone of the invariant.                           *)
LEMMA PassUntouched ==
  ASSUME MemoryInv, UNCHANGED <<vars, outcomes>>
  PROVE  /\ IndInv' /\ VerdictsAreScores'
         /\ UNCHANGED <<tasks, pc, verdicts>>
         /\ \A t : Earned(t)' <=> Earned(t)
         /\ \A t : Passed(t)' <=> Passed(t)
<1>1. UNCHANGED <<tasks, pc, verdicts, evaluated, observed>>  BY DEF vars, current, db
<1>2. IndInv' /\ VerdictsAreScores'  BY IndStep, RowsStep DEF MemoryInv
<1> QED  BY <1>1, <1>2 DEF Earned, Passed, Verdicts

LEMMA BeginKeeps ==
  ASSUME MemoryInv, IngestTrajectoryDB \/ IngestManualNotes
  PROVE  MemoryInv'
<1> USE DEF MemoryInv
<1>0. UNCHANGED <<vars, outcomes, memory, ids, learnt>>
  BY DEF IngestTrajectoryDB, IngestManualNotes, Begin
<1>1. /\ IndInv' /\ VerdictsAreScores' /\ UNCHANGED <<tasks, pc, verdicts>>
      /\ \A t : Earned(t)' <=> Earned(t)
      /\ \A t : Passed(t)' <=> Passed(t)
  BY <1>0, PassUntouched
<1>2. ItemInv'  BY <1>0 DEF ItemInv
<1>3. CASE IngestTrajectoryDB
  <2>1. rows' = Trajectories /\ whole' = (pc = "exited")  BY <1>3 DEF IngestTrajectoryDB, Begin
  <2>2. MemoryType'  BY <1>0, <1>1, <2>1, TrajectoryRows DEF MemoryType
  <2>3. \A n \in DOMAIN tasks :
          /\ rows'[n].source = EvalSource(n) /\ rows'[n].task = tasks[n].id
          /\ rows'[n].taken <=> outcomes[n] = "success" /\ Passed(n)
    BY <2>1 DEF Trajectories
  <2>4. DOMAIN rows' = DOMAIN tasks  BY <2>1, TrajectoryRows
  <2>5. EarnedInv'
    <3>1. ASSUME NEW t \in DOMAIN tasks, NEW n \in DOMAIN tasks,
                 rows'[n].taken, rows'[n].source = EvalSource(t)
          PROVE  Earned(t) /\ rows'[n].task = tasks[t].id
      <4>1. n = t  BY <2>3, <3>1, SourceFacts
      <4> QED  BY <2>3, <3>1, <4>1, TakenEarned
    <3> QED  BY <1>0, <1>1, <2>4, <3>1 DEF EarnedInv
  <2>6. WholeInv'  BY <1>0, <1>1, <2>1, <2>3, <2>4 DEF WholeInv
  <2> QED  BY <1>1, <1>2, <2>2, <2>5, <2>6
<1>4. CASE IngestManualNotes
  <2>1. PICK file \in Notes : rows' = NoteRows(file) /\ whole' = FALSE
    BY <1>4 DEF IngestManualNotes, Begin
  <2>2. MemoryType'  BY <1>0, <1>1, <2>1, NoteRowsType DEF MemoryType
  <2>3. \A n \in DOMAIN rows' : \A t : rows'[n].source # EvalSource(t)
    BY <2>1, NoteRowsType, SourceFacts
  <2>4. EarnedInv'  BY <1>0, <1>1, <2>3 DEF EarnedInv
  <2>5. WholeInv'  BY <1>0, <1>1, <2>1 DEF WholeInv
  <2> QED  BY <1>1, <1>2, <2>2, <2>4, <2>5
<1> QED  BY <1>3, <1>4

(* Taking the head away leaves the rows behind it, one place nearer.       *)
LEMMA TailRows ==
  ASSUME NEW S, NEW r \in Seq(S), r # <<>>
  PROVE  /\ Head(r) = r[1] /\ 1 \in DOMAIN r /\ Tail(r) \in Seq(S) /\ r[1] \in S
         /\ \A n \in DOMAIN Tail(r) : n + 1 \in DOMAIN r /\ Tail(r)[n] = r[n + 1]
         /\ \A n \in DOMAIN r \ {1} : n - 1 \in DOMAIN Tail(r) /\ Tail(r)[n - 1] = r[n]
OBVIOUS

LEMMA HeadAndTail ==
  ASSUME MemoryInv, rows # <<>>
  PROVE  /\ Head(rows) = rows[1] /\ 1 \in DOMAIN rows
         /\ rows[1] \in [source : Sources, task : Tasks, taken : BOOLEAN]
         /\ Tail(rows) \in Seq([source : Sources, task : Tasks, taken : BOOLEAN])
         /\ \A n \in DOMAIN Tail(rows) : n + 1 \in DOMAIN rows /\ Tail(rows)[n] = rows[n + 1]
         /\ \A n \in DOMAIN rows \ {1} : n - 1 \in DOMAIN Tail(rows) /\ Tail(rows)[n - 1] = rows[n]
<1>1. rows \in Seq([source : Sources, task : Tasks, taken : BOOLEAN])  BY DEF MemoryInv, MemoryType
<1> QED  BY <1>1, TailRows

LEMMA SkipKeeps == ASSUME MemoryInv, Skip PROVE MemoryInv'
<1> USE DEF MemoryInv
<1>0. /\ UNCHANGED <<vars, outcomes, memory, ids, whole, learnt>> /\ rows' = Tail(rows)
      /\ rows # <<>> /\ ~Head(rows).taken
  BY DEF Skip, Taking
<1>1. /\ IndInv' /\ VerdictsAreScores' /\ UNCHANGED <<tasks, pc, verdicts>>
      /\ \A t : Earned(t)' <=> Earned(t)
      /\ \A t : Passed(t)' <=> Passed(t)
  BY <1>0, PassUntouched
<1>2. ItemInv'  BY <1>0 DEF ItemInv
<1>3. /\ Head(rows) = rows[1]
      /\ Tail(rows) \in Seq([source : Sources, task : Tasks, taken : BOOLEAN])
      /\ \A n \in DOMAIN Tail(rows) : n + 1 \in DOMAIN rows /\ Tail(rows)[n] = rows[n + 1]
      /\ \A n \in DOMAIN rows \ {1} : n - 1 \in DOMAIN Tail(rows) /\ Tail(rows)[n - 1] = rows[n]
  BY <1>0, HeadAndTail
<1>4. MemoryType'  BY <1>0, <1>1, <1>3 DEF MemoryType
<1>5. EarnedInv'  BY <1>0, <1>1, <1>3 DEF EarnedInv
<1>6. WholeInv'
  <2>1. ASSUME NEW t, NEW n \in DOMAIN rows, rows[n].taken, rows[n].source = EvalSource(t)
        PROVE  \E m \in DOMAIN rows' : rows'[m].taken /\ rows'[m].source = EvalSource(t)
    <3>1. n \in DOMAIN rows \ {1}  BY <1>0, <1>3, <2>1
    <3>2. n - 1 \in DOMAIN rows' /\ rows'[n - 1] = rows[n]  BY <1>0, <1>3, <3>1
    <3> QED  BY <2>1, <3>2
  <2> QED  BY <1>0, <1>1, <2>1 DEF WholeInv
<1> QED  BY <1>1, <1>2, <1>4, <1>5, <1>6

LEMMA UpsertKeeps == ASSUME MemoryInv, Upsert PROVE MemoryInv'
<1> USE DEF MemoryInv
<1> DEFINE row == Head(rows)
           new == ItemID(row.source)
<1>0. /\ UNCHANGED <<vars, outcomes, whole, learnt>> /\ rows' = Tail(rows)
      /\ rows # <<>> /\ row.taken
      /\ memory' = [memory EXCEPT ![row.source] = [id |-> new, task |-> row.task]]
      /\ ids' = IF new > ids THEN new ELSE ids
  BY DEF Upsert, Taking
<1>1. /\ IndInv' /\ VerdictsAreScores' /\ UNCHANGED <<tasks, pc, verdicts>>
      /\ \A t : Earned(t)' <=> Earned(t)
      /\ \A t : Passed(t)' <=> Passed(t)
  BY <1>0, PassUntouched
<1>2. /\ row = rows[1] /\ 1 \in DOMAIN rows
      /\ row \in [source : Sources, task : Tasks, taken : BOOLEAN]
      /\ Tail(rows) \in Seq([source : Sources, task : Tasks, taken : BOOLEAN])
      /\ \A n \in DOMAIN Tail(rows) : n + 1 \in DOMAIN rows /\ Tail(rows)[n] = rows[n + 1]
      /\ \A n \in DOMAIN rows \ {1} : n - 1 \in DOMAIN Tail(rows) /\ Tail(rows)[n - 1] = rows[n]
  BY <1>0, HeadAndTail
<1>3. /\ new \in 1..ids' /\ ids \in Nat /\ ids' \in Nat /\ ids <= ids'
      /\ memory[row.source] = NoItem => new = ids + 1
      /\ memory[row.source] # NoItem => new = memory[row.source].id
  BY <1>0, <1>2 DEF ItemID, MemoryType, ItemInv
<1>4. /\ memory'[row.source] = [id |-> new, task |-> row.task]
      /\ \A s \in Sources \ {row.source} : memory'[s] = memory[s]
      /\ memory'[row.source] # NoItem
  <2>1. [id |-> new, task |-> row.task] # NoItem  BY <1>3 DEF NoItem
  <2> QED  BY <1>0, <1>2, <2>1 DEF MemoryType
<1>5. MemoryType'
  <2>1. memory' \in [Sources -> [id : Nat, task : Tasks]]
    BY <1>0, <1>2, <1>3 DEF MemoryType
  <2> QED  BY <1>0, <1>1, <1>2, <1>3, <2>1 DEF MemoryType
<1>6. ItemInv'
  <2>1. ASSUME NEW s \in Sources, memory'[s] # NoItem PROVE memory'[s].id \in 1..ids'
    BY <1>3, <1>4, <2>1 DEF ItemInv, MemoryType
  <2>2. ASSUME NEW s \in Sources \ {row.source}, memory[s] # NoItem PROVE memory[s].id # new
    BY <1>2, <1>3, <2>2 DEF ItemInv, MemoryType
  <2>3. ASSUME NEW s \in Sources, NEW r \in Sources, memory'[s] # NoItem, r # s
        PROVE  memory'[r].id # memory'[s].id
    <3>1. CASE s = row.source
      <4>1. memory[r] = NoItem => memory[r].id = 0  BY DEF NoItem
      <4> QED  BY <1>3, <1>4, <2>2, <2>3, <3>1, <4>1
    <3>2. CASE r = row.source
      BY <1>4, <2>2, <2>3, <3>2
    <3> QED  BY <1>4, <2>3, <3>1, <3>2 DEF ItemInv
  <2> QED  BY <2>1, <2>3 DEF ItemInv
<1>7. EarnedInv'
  <2>1. ASSUME NEW t \in DOMAIN tasks, memory'[EvalSource(t)] # NoItem
        PROVE  Earned(t) /\ memory'[EvalSource(t)].task = tasks[t].id
    <3>1. EvalSource(t) \in Sources
      BY SourceFacts DEF Sources, IndInv, TypeInv, TypeOK
    <3>2. CASE EvalSource(t) = row.source
      BY <1>0, <1>2, <1>4, <3>2 DEF EarnedInv
    <3> QED  BY <1>4, <2>1, <3>1, <3>2 DEF EarnedInv
  <2> QED  BY <1>0, <1>1, <1>2, <2>1 DEF EarnedInv
<1>8. WholeInv'
  <2>1. ASSUME NEW t \in DOMAIN tasks, memory[EvalSource(t)] # NoItem
        PROVE  memory'[EvalSource(t)] # NoItem
    BY <1>4, <2>1, SourceFacts DEF Sources, IndInv, TypeInv, TypeOK
  <2>2. ASSUME NEW t \in DOMAIN tasks, NEW n \in DOMAIN rows, rows[n].taken, rows[n].source = EvalSource(t)
        PROVE  \/ memory'[EvalSource(t)] # NoItem
               \/ \E m \in DOMAIN rows' : rows'[m].taken /\ rows'[m].source = EvalSource(t)
    <3>1. CASE n = 1
      BY <1>2, <1>4, <2>2, <3>1
    <3>2. CASE n # 1
      <4>1. n - 1 \in DOMAIN rows' /\ rows'[n - 1] = rows[n]  BY <1>0, <1>2, <3>2
      <4> QED  BY <2>2, <4>1
    <3> QED  BY <3>1, <3>2
  <2> QED  BY <1>0, <1>1, <2>1, <2>2 DEF WholeInv
<1> QED  BY <1>1, <1>5, <1>6, <1>7, <1>8

LEMMA EndKeeps == ASSUME MemoryInv, Abandon \/ Finished PROVE MemoryInv'
<1> USE DEF MemoryInv
<1>0. UNCHANGED <<vars, outcomes, memory, ids>> /\ rows' = <<>> /\ whole' = FALSE
  BY DEF Abandon, Finished
<1>1. /\ IndInv' /\ VerdictsAreScores' /\ UNCHANGED <<tasks, pc, verdicts>>
      /\ \A t : Earned(t)' <=> Earned(t)
      /\ \A t : Passed(t)' <=> Passed(t)
  BY <1>0, PassUntouched
<1>2. ItemInv'  BY <1>0 DEF ItemInv
<1>3. MemoryType'  BY <1>0, <1>1 DEF MemoryType
<1>4. EarnedInv'  BY <1>0, <1>1 DEF EarnedInv
<1>5. WholeInv'
  <2>1. learnt' => learnt \/ (whole /\ rows = <<>>)  BY DEF Abandon, Finished
  <2> QED  BY <1>0, <1>1, <2>1 DEF WholeInv
<1> QED  BY <1>1, <1>2, <1>3, <1>4, <1>5

LEMMA MemoryStep == ASSUME MemoryInv, [IngestNext]_allVars PROVE MemoryInv'
<1>1. CASE PassStep  BY <1>1, PassKeeps
<1>2. CASE CommandStep
  BY <1>2, BeginKeeps, SkipKeeps, UpsertKeeps, EndKeeps DEF CommandStep
<1>3. CASE UNCHANGED allVars
  <2>1. UNCHANGED <<vars, outcomes, memory, ids, rows, whole, learnt>>
    BY <1>3 DEF allVars, ingestVars
  <2>2. /\ IndInv' /\ VerdictsAreScores' /\ UNCHANGED <<tasks, pc, verdicts>>
        /\ \A t : Earned(t)' <=> Earned(t)
        /\ \A t : Passed(t)' <=> Passed(t)
    BY <2>1, PassUntouched
  <2> QED  BY <2>1, <2>2 DEF MemoryInv, MemoryType, ItemInv, EarnedInv, WholeInv
<1>4. CASE Done /\ UNCHANGED ingestVars
  BY <1>3, <1>4 DEF Done, allVars
<1> QED  BY <1>1, <1>2, <1>3, <1>4 DEF IngestNext

LEMMA MemoryAlways == IngestSpec => []MemoryInv
BY MemoryInit, MemoryStep, PTL DEF IngestSpec

(* Commands on its database disturb no pass: with them it is still one of  *)
(* Suite, so that what is proved of a pass alone holds beside them.        *)
THEOREM IngestKeepsPass == IngestSpec => Spec
<1>1. IngestInit => Init  BY DEF IngestInit
<1>2. [IngestNext]_allVars => [Next]_vars
  <2>1. PassStep => [Next]_vars  BY PassFacts
  <2>2. CommandStep => UNCHANGED vars  BY CommandFacts
  <2>3. Done /\ UNCHANGED ingestVars => [Next]_vars  BY DEF Next
  <2>4. UNCHANGED allVars => UNCHANGED vars  BY DEF allVars
  <2> QED  BY <2>1, <2>2, <2>3, <2>4 DEF IngestNext
<1> QED  BY <1>1, <1>2, PTL DEF IngestSpec, Spec

-----------------------------------------------------------------------------
(* Whatever the memory learnt from a trajectory was earned, also if the    *)
(* command read a pass half done, and a command that saw the whole pass    *)
(* leaves nothing out (IngestTrajectoryDB).                                *)
THEOREM LearntCorrect == IngestSpec => []LearnsWhatWasEarned
<1>1. MemoryInv => LearnsWhatWasEarned
  BY DEF MemoryInv, EarnedInv, WholeInv, LearnsWhatWasEarned
<1> QED  BY <1>1, MemoryAlways, PTL

(* However often a source is ingested, its item keeps its id, and no two   *)
(* items share one (upsertBySource).                                       *)
THEOREM ItemsCorrect == IngestSpec => ItemsStay
<1> DEFINE Stay == \A s \in DOMAIN memory :
       /\ memory[s] # NoItem => memory'[s].id = memory[s].id
       /\ \A r \in DOMAIN memory \ {s} : memory'[s] # NoItem => memory'[r].id # memory'[s].id
<1>1. ASSUME MemoryInv, MemoryInv', [IngestNext]_allVars PROVE [Stay]_memory
  <2>1. CASE Upsert
    <3>1. memory' = [memory EXCEPT ![Head(rows).source] =
                       [id |-> ItemID(Head(rows).source), task |-> Head(rows).task]]
      BY <2>1 DEF Upsert
    <3>2. \A s \in DOMAIN memory : memory[s] # NoItem => memory'[s].id = memory[s].id
      BY <1>1, <3>1 DEF ItemID, MemoryInv, MemoryType
    <3> QED  BY <1>1, <3>2 DEF MemoryInv, MemoryType, ItemInv
  <2>2. CASE ~Upsert
    BY <1>1, <2>2 DEF IngestNext, PassStep, CommandStep, IngestTrajectoryDB, IngestManualNotes, Begin,
       Skip, Abandon, Finished, allVars, ingestVars
  <2> QED  BY <2>1, <2>2
<1> QED  BY <1>1, MemoryAlways, PTL DEF IngestSpec, ItemsStay

=============================================================================
