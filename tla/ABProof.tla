------------------------------- MODULE ABProof ------------------------------
(***************************************************************************)
(* Proofs about AB, for any tasks, memories, notes, runs and attempts.     *)
(***************************************************************************)
EXTENDS AB, FiniteSetTheorems, TLAPS

(* No task is twice in the list; the loader does not see to it.            *)
DistinctTasks == \A m, n \in DOMAIN TaskList : TaskList[m] = TaskList[n] => m = n

Stamps  == [run : Nat, attempt : Nat]
Working == {"own", "again", "cross", "agent"}

TypeInv ==
  /\ run \in Nat /\ attempt \in Nat /\ pos \in Nat \ {0}
  /\ lessons \in [Tasks -> Seq(Stamps)] /\ refine \in [Tasks -> Stamps]
  /\ phase \in Working \cup {"seed", "over"}
  /\ phase \in Working => InPass
  /\ attempt = 0 => phase \in {"seed", "agent", "over"}

(* A stamp from this run, at the latest from this attempt if its task has  *)
(* had its turn.                                                           *)
Told(t, stamp) ==
  /\ stamp.run = run /\ stamp.attempt \in 1..attempt
  /\ stamp.attempt = attempt => \E n \in DOMAIN TaskList : n < pos /\ TaskList[n] = t

Growing(stamps) == \A i, j \in DOMAIN stamps : i < j => stamps[i].attempt < stamps[j].attempt

(* With a provider, what it remembers is of this run.                      *)
ShortInv ==
  attempt > 0 =>
    \A t \in Tasks :
      /\ refine[t] # NoHint => Told(t, refine[t])
      /\ \A i \in DOMAIN lessons[t] : Told(t, lessons[t][i])
      /\ Growing(lessons[t])

(* What the attempt under way was told is older than the attempt.          *)
ShownInv ==
  phase \in Working =>
    /\ attempt = 0 => shown = Nothing /\ recalled = {}
    /\ shown.hint # NoHint => Earlier(shown.hint) /\ shown.lessons = <<>>
    /\ \A i \in DOMAIN shown.lessons : Earlier(shown.lessons[i])
    /\ Growing(shown.lessons)

(* The memory is another one only if something was written to it.          *)
SnapshotInv ==
  /\ items # start \/ drift => ~SnapshotStable
  /\ ended = Running \/ phase = "over"
  /\ ended.stable => SnapshotStable
  /\ ended.how = "report" /\ mode = "read" /\ ~ended.caveat => SnapshotStable

(* A memory holds one item per source.                                     *)
Distinct(S) == \A x, y \in S : Source(x) = Source(y) => x = y

(* What was not written by the experiment itself is of one of its tasks.   *)
MemoryInv ==
  /\ IsFiniteSet(items) /\ Distinct(items)
  /\ \A x \in items : x \in start \cup ingested \/ x.task \in Tasks

(* Between the searches: what was found is of the task itself, and what    *)
(* was not found either came later or was crowded out.                     *)
OwnOnly == \A x \in recalled : x.task = Task
Settled ==
  \/ LeftOut \subseteq ingested
  \/ \E x \in Matching(start \cup ingested, NoTask) : x.task = NoTask

RecallInv ==
  phase \in Working =>
    /\ Distinct(recalled)
    /\ phase = "own" => recalled = {}
    /\ phase \in {"again", "cross"} => OwnOnly /\ Settled
    /\ phase = "agent" => OwnOnly \/ Settled

-----------------------------------------------------------------------------
LEMMA TaskFacts ==
  /\ Len(TaskList) \in Nat /\ DOMAIN TaskList = 1..Len(TaskList)
  /\ \A n \in DOMAIN TaskList : TaskList[n] \in Tasks
BY ListAssumption

(* The steps that recall from the memory.                                  *)
Search == FirstSearch \/ SecondSearch \/ ThirdSearch \/ SearchFails

LEMMA SearchFrame ==
  ASSUME Search
  PROVE  /\ UNCHANGED <<short, shown, loop, start, items, wrote, ingested, ended>>
         /\ phase \in {"own", "again", "cross"} /\ phase' \in Working
         /\ drift' \in {drift, (drift \/ items # start)}
BY DEF Search, FirstSearch, SecondSearch, ThirdSearch, SearchFails, Searching, RecallOwn, RecallCross,
       reflexionVars, memory, Working

(* The stamp of an observation.                                            *)
Now == [run |-> run, attempt |-> attempt]

(* What an observation may do to the lessons and the hint.                 *)
LEMMA ObserveFrame ==
  ASSUME NEW t, NEW verdict, NEW stamp, NEW tags, NEW persist,
         Observe(t, verdict, stamp, tags, persist)
  PROVE  /\ \/ lessons' = [lessons EXCEPT ![t] = Append(@, stamp)] /\ refine' = refine
            \/ lessons' = lessons /\ refine' = [refine EXCEPT ![t] = stamp]
            \/ UNCHANGED short
         /\ wrote' = TRUE \/ UNCHANGED memory
BY DEF Observe, ObserveWeak, ObserveWrong, Store, short, memory

LEMMA StepCases ==
  ASSUME [Next]_vars
  PROVE  \/ UNCHANGED vars \/ Seed \/ SeedFails \/ Search \/ EndBaseline \/ NextAttempt \/ NextRun
         \/ Report
         \/ \E verdict \in Verdicts, tags \in CallFacets : Attempt(verdict, tags)
         \/ \E note \in Notes : Ingest(note)
BY DEF Next, Done, Search

LEMMA AttemptFrame ==
  ASSUME NEW verdict, NEW tags, Attempt(verdict, tags)
  PROVE  /\ phase = "agent" /\ phase' = "seed" /\ pos' = pos + 1
         /\ UNCHANGED <<shown, recalled, run, attempt, start, ingested, drift, ended>>
         /\ attempt = 0 => UNCHANGED <<short, memory>>
         /\ \/ lessons' = [lessons EXCEPT ![Task] = Append(@, Now)] /\ refine' = refine
            \/ lessons' = lessons /\ refine' = [refine EXCEPT ![Task] = Now]
            \/ UNCHANGED short
         /\ wrote' = TRUE \/ UNCHANGED memory
<1>1. /\ phase = "agent" /\ phase' = "seed" /\ pos' = pos + 1
      /\ UNCHANGED <<shown, recalled, run, attempt, start, ingested, drift, ended>>
  BY DEF Attempt
<1>2. CASE Provided
  <2>1. Observe(Task, verdict, Now, tags, mode = "write")  BY <1>2 DEF Attempt, Now
  <2>2. attempt # 0  BY <1>2 DEF Provided
  <2>3. /\ \/ lessons' = [lessons EXCEPT ![Task] = Append(@, Now)] /\ refine' = refine
           \/ lessons' = lessons /\ refine' = [refine EXCEPT ![Task] = Now]
           \/ UNCHANGED short
        /\ wrote' = TRUE \/ UNCHANGED memory
    <3> DEFINE t == Task  persist == (mode = "write")  stamp == Now
    <3>1. Observe(t, verdict, stamp, tags, persist)  BY <2>1
    <3> HIDE DEF t, persist, stamp
    <3>2. /\ \/ lessons' = [lessons EXCEPT ![t] = Append(@, stamp)] /\ refine' = refine
             \/ lessons' = lessons /\ refine' = [refine EXCEPT ![t] = stamp]
             \/ UNCHANGED short
          /\ wrote' = TRUE \/ UNCHANGED memory
      BY <3>1, ObserveFrame
    <3> QED  BY <3>2 DEF t, stamp
  <2> QED  BY <1>1, <2>2, <2>3
<1>3. CASE ~Provided
  BY <1>1, <1>3 DEF Attempt, Provided, short, memory
<1> QED  BY <1>2, <1>3

LEMMA TypeStep == TypeInv /\ [Next]_vars => TypeInv'
<1> SUFFICES ASSUME TypeInv, [Next]_vars PROVE TypeInv'  OBVIOUS
<1> USE TaskFacts DEF TypeInv, Working, InPass, short, loop
<1>1. CASE UNCHANGED vars  BY <1>1 DEF vars, reflexionVars
<1>2. CASE Seed  BY <1>2 DEF Seed, WithMemory
<1>3. CASE SeedFails  BY <1>3 DEF SeedFails, reflexionVars
<1>4. CASE Search  BY <1>4, SearchFrame
<1>5. CASE EndBaseline
  <2>1. lessons' \in [Tasks -> Seq(Stamps)] /\ refine' \in [Tasks -> Stamps]
    BY <1>5 DEF EndBaseline, Reset, NoHint, Stamps
  <2> QED  BY <1>5, <2>1 DEF EndBaseline, PassEnds
<1>6. CASE NextAttempt \/ NextRun
  BY <1>6 DEF NextAttempt, NextRun, PassEnds, reflexionVars
<1>7. CASE Report  BY <1>7 DEF Report, reflexionVars
<1>8. ASSUME NEW verdict \in Verdicts, NEW tags \in CallFacets, Attempt(verdict, tags)
      PROVE  TypeInv'
  <2>1. Now \in Stamps  BY DEF Stamps, Now
  <2>2. lessons' \in [Tasks -> Seq(Stamps)] /\ refine' \in [Tasks -> Stamps]
    <3>1. lessons[Task] \in Seq(Stamps) \/ Task \notin Tasks  OBVIOUS
    <3>2. Append(lessons[Task], Now) \in Seq(Stamps) \/ Task \notin Tasks  BY <2>1, <3>1
    <3>3. CASE UNCHANGED short  BY <3>3
    <3>4. CASE lessons' = [lessons EXCEPT ![Task] = Append(@, Now)] /\ refine' = refine
      BY <3>2, <3>4
    <3>5. CASE refine' = [refine EXCEPT ![Task] = Now] /\ lessons' = lessons
      BY <2>1, <3>5
    <3> QED  BY <1>8, <3>3, <3>4, <3>5, AttemptFrame
  <2>3. phase' = "seed" /\ pos' = pos + 1 /\ run' = run /\ attempt' = attempt
    BY <1>8, AttemptFrame
  <2>4. pos' \in Nat \ {0}  BY <2>3
  <2> QED  BY <2>2, <2>3, <2>4
<1>9. ASSUME NEW note \in Notes, Ingest(note) PROVE TypeInv'  BY <1>9 DEF Ingest
<1> QED  BY <1>1, <1>2, <1>3, <1>4, <1>5, <1>6, <1>7, <1>8, <1>9, StepCases

(* Told of a task before its turn means told in an earlier attempt.        *)
LEMMA ToldEarlier ==
  ASSUME DistinctTasks, TypeInv, InPass, NEW stamp \in Stamps, Told(Task, stamp)
  PROVE  Earlier(stamp)
<1>1. stamp.attempt # attempt
  <2> SUFFICES ASSUME stamp.attempt = attempt PROVE FALSE  OBVIOUS
  <2>1. PICK n \in DOMAIN TaskList : n < pos /\ TaskList[n] = TaskList[pos]  BY DEF Told, Task
  <2>2. n = pos  BY <2>1 DEF DistinctTasks, InPass
  <2> QED  BY <2>1, <2>2 DEF TypeInv
<1> QED  BY <1>1 DEF Told, Earlier, TypeInv, Stamps

LEMMA ShownStep == DistinctTasks /\ TypeInv /\ ShortInv /\ ShownInv /\ [Next]_vars => ShownInv'
<1> SUFFICES ASSUME DistinctTasks, TypeInv, ShortInv, ShownInv, [Next]_vars PROVE ShownInv'  OBVIOUS
<1> USE DEF ShownInv, Earlier, loop, Working
<1>1. CASE UNCHANGED vars  BY <1>1 DEF vars, reflexionVars, Growing
<1>2. CASE Seed
  <2>1. /\ InPass /\ UNCHANGED <<run, attempt, pos>> /\ recalled' = {} /\ Task \in Tasks
        /\ shown' = IF attempt > 0 THEN ShortContext(Task) ELSE Nothing
    BY <1>2, TaskFacts DEF Seed, Provided, InPass, Task
  <2>2. CASE attempt = 0
    <3>1. shown' = Nothing /\ Nothing.hint = NoHint /\ Nothing.lessons = <<>>
      BY <2>1, <2>2 DEF Nothing
    <3> QED  BY <2>1, <2>2, <3>1 DEF Growing
  <2>3. CASE attempt > 0
    <3>1. refine[Task] \in Stamps /\ lessons[Task] \in Seq(Stamps)  BY <2>1 DEF TypeInv
    <3>2. refine[Task] # NoHint => Earlier(refine[Task])
      BY <2>1, <2>3, <3>1, ToldEarlier DEF ShortInv
    <3>3. \A i \in DOMAIN lessons[Task] : Earlier(lessons[Task][i])
      BY <2>1, <2>3, <3>1, ToldEarlier DEF ShortInv
    <3>4. Growing(lessons[Task])  BY <2>1, <2>3 DEF ShortInv
    <3>5. CASE refine[Task] # NoHint
      <4>1. shown'.hint = refine[Task] /\ shown'.lessons = <<>>
        BY <2>1, <2>3, <3>5 DEF ShortContext
      <4> QED  BY <2>1, <2>3, <3>2, <4>1 DEF Growing
    <3>6. CASE refine[Task] = NoHint
      <4>1. shown'.hint = NoHint /\ shown'.lessons = lessons[Task]
        BY <2>1, <2>3, <3>6 DEF ShortContext
      <4> QED  BY <2>1, <2>3, <3>3, <3>4, <4>1 DEF Growing
    <3> QED  BY <3>5, <3>6
  <2> QED  BY <2>2, <2>3 DEF TypeInv
<1>3. CASE SeedFails \/ EndBaseline \/ NextAttempt \/ NextRun \/ Report
  BY <1>3 DEF SeedFails, EndBaseline, NextAttempt, NextRun, Report, PassEnds
<1>4. CASE Search
  <2>1. UNCHANGED <<shown, run, attempt>> /\ phase \in Working /\ attempt # 0
    BY <1>4, SearchFrame DEF TypeInv
  <2> QED  BY <2>1 DEF Growing
<1>5. ASSUME NEW verdict \in Verdicts, NEW tags \in CallFacets, Attempt(verdict, tags)
      PROVE  ShownInv'
  BY <1>5, AttemptFrame
<1>6. ASSUME NEW note \in Notes, Ingest(note) PROVE ShownInv'  BY <1>6 DEF Ingest, Growing
<1> QED  BY <1>1, <1>2, <1>3, <1>4, <1>5, <1>6, StepCases

(* A task whose turn is over may have been told of this attempt.           *)
LEMMA ToldLater ==
  ASSUME TypeInv, NEW t, NEW stamp, Told(t, stamp), run' = run,
         \/ attempt' = attempt /\ pos' \in {pos, pos + 1}
         \/ attempt' = attempt + 1
  PROVE  Told(t, stamp)'
BY TaskFacts DEF Told, TypeInv

LEMMA ShortStep == DistinctTasks /\ TypeInv /\ TypeInv' /\ ShortInv /\ [Next]_vars => ShortInv'
<1> SUFFICES ASSUME DistinctTasks, TypeInv, TypeInv', ShortInv, [Next]_vars, attempt' > 0
             PROVE  \A t \in Tasks :
                      /\ refine'[t] # NoHint => Told(t, refine[t])'
                      /\ \A i \in DOMAIN lessons'[t] : Told(t, lessons[t][i])'
                      /\ Growing(lessons'[t])
  BY DEF ShortInv
<1>1. CASE UNCHANGED <<short, loop>>  BY <1>1 DEF ShortInv, short, loop, Told
<1>2. CASE Seed \/ SeedFails \/ Search \/ Report
  BY <1>1, <1>2, SearchFrame DEF Seed, SeedFails, Report, reflexionVars
<1>3. CASE EndBaseline
  <2>1. \A t \in Tasks : refine'[t] = NoHint /\ lessons'[t] = <<>>
    BY <1>3 DEF EndBaseline, Reset
  <2> QED  BY <2>1 DEF Growing
<1>4. CASE NextAttempt
  <2>1. UNCHANGED short /\ run' = run /\ attempt' = attempt + 1 /\ attempt > 0
    BY <1>4 DEF NextAttempt, reflexionVars, TypeInv
  <2> QED  BY <2>1, ToldLater DEF ShortInv, short
<1>5. CASE NextRun  BY <1>5 DEF NextRun
<1>6. ASSUME NEW verdict \in Verdicts, NEW tags \in CallFacets, Attempt(verdict, tags),
             NEW t \in Tasks
      PROVE  /\ refine'[t] # NoHint => Told(t, refine[t])'
             /\ \A i \in DOMAIN lessons'[t] : Told(t, lessons[t][i])'
             /\ Growing(lessons'[t])
  <2>1. run' = run /\ attempt' = attempt /\ pos' = pos + 1 /\ phase = "agent" /\ attempt > 0
    BY <1>6, AttemptFrame
  <2>2. InPass /\ TaskList[pos] = Task  BY <2>1 DEF TypeInv, Working, Task
  <2>3. \A stamp : Told(t, stamp) => Told(t, stamp)'  BY <2>1, ToldLater
  <2>4. ASSUME NEW stamp, stamp = Now, t = Task PROVE Told(t, stamp)'
    <3>1. stamp.run = run' /\ stamp.attempt = attempt' /\ attempt' \in 1..attempt'
      BY <2>1, <2>4 DEF Now, TypeInv
    <3>2. pos \in DOMAIN TaskList /\ pos < pos' /\ TaskList[pos] = t
      BY <2>1, <2>2, <2>4 DEF InPass, TypeInv
    <3> QED  BY <3>1, <3>2 DEF Told
  <2>5. /\ refine[t] # NoHint => Told(t, refine[t])
        /\ \A i \in DOMAIN lessons[t] : Told(t, lessons[t][i])
        /\ Growing(lessons[t]) /\ lessons[t] \in Seq(Stamps)
    BY <2>1 DEF ShortInv, TypeInv
  <2>6. CASE UNCHANGED short  BY <2>3, <2>5, <2>6 DEF short
  <2>7. CASE lessons' = lessons /\ refine' = [refine EXCEPT ![Task] = Now]
    <3>1. refine'[t] = IF t = Task THEN Now ELSE refine[t]  BY <2>7 DEF TypeInv
    <3> QED  BY <2>3, <2>4, <2>5, <2>7, <3>1
  <2>8. CASE lessons' = [lessons EXCEPT ![Task] = Append(@, Now)] /\ refine' = refine
    <3>1. CASE t # Task
      <4>1. lessons'[t] = lessons[t]  BY <2>8, <3>1 DEF TypeInv
      <4> QED  BY <2>3, <2>5, <2>8, <4>1
    <3>2. CASE t = Task
      <4>1. lessons'[t] = Append(lessons[t], Now)  BY <2>8, <3>2 DEF TypeInv
      <4>2. Now \in Stamps  BY DEF Now, Stamps, TypeInv
      <4>3. /\ DOMAIN lessons'[t] = 1..(Len(lessons[t]) + 1) /\ Len(lessons[t]) \in Nat
            /\ DOMAIN lessons[t] = 1..Len(lessons[t])
            /\ lessons'[t][Len(lessons[t]) + 1] = Now
            /\ \A i \in DOMAIN lessons[t] : lessons'[t][i] = lessons[t][i]
        BY <2>5, <4>1, <4>2
      <4>4. \A i \in DOMAIN lessons[t] : Earlier(lessons[t][i])
        BY <2>2, <2>5, <3>2, ToldEarlier
      <4>5. \A i \in DOMAIN lessons'[t] : Told(t, lessons[t][i])'
        <5> SUFFICES ASSUME NEW i \in DOMAIN lessons'[t] PROVE Told(t, lessons[t][i])'  OBVIOUS
        <5>1. CASE i = Len(lessons[t]) + 1  BY <2>4, <3>2, <4>3, <5>1
        <5>2. CASE i \in DOMAIN lessons[t]  BY <2>3, <2>5, <4>3, <5>2
        <5> QED  BY <4>3, <5>1, <5>2
      <4>6. Growing(lessons'[t])
        <5>1. \A i \in DOMAIN lessons[t] : lessons[t][i].attempt < Now.attempt
          BY <4>4 DEF Earlier, Now, TypeInv
        <5> SUFFICES ASSUME NEW i \in DOMAIN lessons'[t], NEW j \in DOMAIN lessons'[t], i < j
                     PROVE  lessons'[t][i].attempt < lessons'[t][j].attempt
          BY DEF Growing
        <5>2. i \in DOMAIN lessons[t] /\ (j = Len(lessons[t]) + 1 \/ j \in DOMAIN lessons[t])
          BY <4>3
        <5>3. CASE j = Len(lessons[t]) + 1  BY <4>3, <5>1, <5>2, <5>3
        <5>4. CASE j \in DOMAIN lessons[t]  BY <2>5, <4>3, <5>2, <5>4 DEF Growing
        <5> QED  BY <5>2, <5>3, <5>4
      <4> QED  BY <2>3, <2>5, <2>8, <4>5, <4>6
    <3> QED  BY <3>1, <3>2
  <2> QED  BY <1>6, <2>6, <2>7, <2>8, AttemptFrame
<1>7. ASSUME NEW note \in Notes, Ingest(note) PROVE UNCHANGED <<short, loop>>
  BY <1>7 DEF Ingest
<1> QED  BY <1>1, <1>2, <1>3, <1>4, <1>5, <1>6, <1>7, StepCases DEF vars, reflexionVars

LEMMA SnapshotStep == SnapshotInv /\ [Next]_vars => SnapshotInv'
<1> SUFFICES ASSUME SnapshotInv, [Next]_vars PROVE SnapshotInv'  OBVIOUS
<1> USE DEF SnapshotInv, SnapshotStable, memory, Running
<1>1. CASE UNCHANGED vars  BY <1>1 DEF vars, reflexionVars
<1>2. CASE Seed  BY <1>2 DEF Seed
<1>3. CASE SeedFails  BY <1>3 DEF SeedFails, reflexionVars
<1>4. CASE Search
  <2>1. /\ UNCHANGED <<start, items, wrote, ingested, ended>> /\ phase # "over"
        /\ drift' \in {drift, (drift \/ items # start)}
    BY <1>4, SearchFrame
  <2>2. ended' = Running /\ ~ended'.stable /\ ended'.how # "report"  BY <2>1
  <2>3. ~SnapshotStable' \/ (items' = start' /\ ~drift')  BY <2>1
  <2> QED  BY <2>2, <2>3
<1>5. CASE EndBaseline  BY <1>5 DEF EndBaseline, PassEnds
<1>6. CASE NextAttempt \/ NextRun  BY <1>6 DEF NextAttempt, NextRun, PassEnds, reflexionVars
<1>7. CASE Report  BY <1>7 DEF Report, reflexionVars
<1>8. ASSUME NEW verdict \in Verdicts, NEW tags \in CallFacets, Attempt(verdict, tags)
      PROVE  SnapshotInv'
  <2>1. /\ phase = "agent" /\ UNCHANGED <<start, ingested, drift, ended>>
        /\ wrote' = TRUE \/ UNCHANGED <<items, wrote>>
    BY <1>8, AttemptFrame
  <2> QED  BY <2>1
<1>9. ASSUME NEW note \in Notes, Ingest(note) PROVE SnapshotInv'
  <2>1. ingested' # {} /\ phase # "over" /\ ended' = ended  BY <1>9 DEF Ingest
  <2> QED  BY <2>1
<1> QED  BY <1>1, <1>2, <1>3, <1>4, <1>5, <1>6, <1>7, <1>8, <1>9, StepCases

-----------------------------------------------------------------------------
(* Recall                                                                  *)
LEMMA UpsertFacts ==
  ASSUME NEW S, NEW item, IsFiniteSet(S), Distinct(S)
  PROVE  IsFiniteSet(Upsert(S, item)) /\ Distinct(Upsert(S, item))
<1> DEFINE kept == {x \in S : Source(x) # Source(item)}
<1>1. IsFiniteSet(kept)
  <2>1. kept \in SUBSET S  OBVIOUS
  <2> QED  BY <2>1, FS_Subset
<1>2. IsFiniteSet(kept \cup {item})  BY <1>1, FS_AddElement
<1>3. Distinct(kept \cup {item})  BY DEF Distinct
<1> QED  BY <1>2, <1>3 DEF Upsert

LEMMA ObserveItems ==
  ASSUME NEW t, NEW verdict, NEW stamp, NEW tags, NEW persist,
         Observe(t, verdict, stamp, tags, persist)
  PROVE  items' = items \/ \E item : items' = Upsert(items, item) /\ item.task = t
<1>1. \A kind, text : MemoryItem(t, kind, text, tags).task = t  BY DEF MemoryItem
<1>2. CASE items' = items  BY <1>2
<1>3. CASE \E kind, text : Store(persist, MemoryItem(t, kind, text, tags))
  BY <1>1, <1>3 DEF Store, memory
<1> QED  BY <1>2, <1>3 DEF Observe, ObserveWeak, ObserveWrong, memory

LEMMA MemoryStep == TypeInv /\ MemoryInv /\ [Next]_vars => MemoryInv'
<1> SUFFICES ASSUME TypeInv, MemoryInv, [Next]_vars PROVE MemoryInv'  OBVIOUS
<1>1. CASE UNCHANGED <<items, start, ingested>>  BY <1>1 DEF MemoryInv
<1>2. ASSUME NEW verdict \in Verdicts, NEW tags \in CallFacets, Attempt(verdict, tags)
      PROVE  MemoryInv'
  <2>1. UNCHANGED <<start, ingested>> /\ Task \in Tasks
    BY <1>2, AttemptFrame, TaskFacts DEF TypeInv, Working, InPass, Task
  <2>2. items' = items \/ \E item : items' = Upsert(items, item) /\ item.task = Task
    BY <1>2, ObserveItems DEF Attempt, memory
  <2>3. ASSUME NEW item, items' = Upsert(items, item), item.task = Task
        PROVE  MemoryInv'
    <3>1. IsFiniteSet(items') /\ Distinct(items')  BY <2>3, UpsertFacts DEF MemoryInv
    <3>2. \A x \in items' : x \in items \/ x = item  BY <2>3 DEF Upsert
    <3> QED  BY <2>1, <2>3, <3>1, <3>2 DEF MemoryInv
  <2> QED  BY <1>1, <2>1, <2>2, <2>3
<1>3. ASSUME NEW note \in Notes, Ingest(note) PROVE MemoryInv'
  <2>1. items' = Upsert(items, note) /\ start' = start /\ ingested' = ingested \cup {note}
    BY <1>3 DEF Ingest
  <2>2. IsFiniteSet(items') /\ Distinct(items')  BY <2>1, UpsertFacts DEF MemoryInv
  <2>3. \A x \in items' : x \in items \/ x = note  BY <2>1 DEF Upsert
  <2> QED  BY <2>1, <2>2, <2>3 DEF MemoryInv
<1>4. CASE Seed \/ SeedFails \/ EndBaseline \/ NextAttempt \/ NextRun \/ Report \/ UNCHANGED vars
  BY <1>1, <1>4 DEF Seed, SeedFails, EndBaseline, NextAttempt, NextRun, Report, vars,
                    reflexionVars, memory
<1>5. CASE Search  BY <1>1, <1>5, SearchFrame
<1> QED  BY <1>2, <1>3, <1>4, <1>5, StepCases

(* Where no item is of no task, a search for a task finds what is of it:   *)
(* all of it, or as much as there is room for.                             *)
LEMMA OwnSearch ==
  ASSUME NoTask \notin Tasks, TypeInv, MemoryInv, InPass, recalled = {}, RecallOwn(Task),
         ~ \E x \in Matching(start \cup ingested, NoTask) : x.task = NoTask
  PROVE  /\ \A x \in recalled' : x.task = Task
         /\ \/ Cardinality(recalled') = Limit
            \/ \A x \in Matching(items, NoTask) : x.task = Task => x \in recalled'
<1> DEFINE found == Matching(items, Task)
<1>1. Task \in Tasks /\ Task # NoTask  BY TaskFacts DEF InPass, Task
<1>2. \A x \in found : x.task = Task  BY <1>1 DEF MemoryInv, Matching
<1>3. PICK hits \in SearchResults(items, Task, Limit) :
        LET new == Fresh(Own(hits, Task))
            n   == IF Room < Cardinality(new) THEN Room ELSE Cardinality(new)
        IN  \E S \in SUBSET new : Cardinality(S) = n /\ recalled' = recalled \cup S
  BY DEF RecallOwn
<1>4. /\ hits \subseteq found
      /\ Cardinality(hits) = IF Limit < Cardinality(found) THEN Limit ELSE Cardinality(found)
  BY <1>3 DEF SearchResults
<1>5. Fresh(Own(hits, Task)) = hits  BY <1>2, <1>4 DEF Fresh, Own
<1>6. Room = Limit
  <2>1. Cardinality(recalled) = 0  BY FS_EmptySet
  <2> QED  BY <2>1, LimitAssumption DEF Room
<1>7. PICK S \in SUBSET hits :
        /\ Cardinality(S) = IF Limit < Cardinality(hits) THEN Limit ELSE Cardinality(hits)
        /\ recalled' = S
  BY <1>3, <1>5, <1>6
<1>8. IsFiniteSet(found) /\ Cardinality(found) \in Nat
  <2>1. found \in SUBSET items  BY DEF Matching
  <2>2. IsFiniteSet(found)  BY <2>1, FS_Subset DEF MemoryInv
  <2> QED  BY <2>2, FS_CardinalityType
<1>9. IsFiniteSet(hits) /\ Cardinality(hits) \in Nat
  <2>1. hits \in SUBSET found  BY <1>4
  <2>2. IsFiniteSet(hits)  BY <1>8, <2>1, FS_Subset
  <2> QED  BY <2>2, FS_CardinalityType
<1>10. S = hits
  <2>1. Cardinality(hits) = Cardinality(S)  BY <1>4, <1>7, <1>8, <1>9, LimitAssumption
  <2> QED  BY <1>9, <2>1, FS_Subset
<1>11. CASE Limit < Cardinality(found)
  BY <1>2, <1>4, <1>7, <1>10, <1>11
<1>12. CASE ~(Limit < Cardinality(found))
  <2>1. Cardinality(found) = Cardinality(hits) /\ hits \in SUBSET found  BY <1>4, <1>12
  <2>2. recalled' = found  BY <1>7, <1>8, <1>10, <2>1, FS_Subset
  <2>3. \A x \in Matching(items, NoTask) : x.task = Task => x \in found  BY DEF Matching
  <2> QED  BY <1>2, <2>2, <2>3
<1> QED  BY <1>11, <1>12

(* A search adds items of the memory that have other sources.              *)
LEMMA FoundFresh ==
  ASSUME MemoryInv, Distinct(recalled),
         NEW hits, hits \subseteq items, NEW S, S \subseteq Fresh(hits), recalled' = recalled \cup S
  PROVE  Distinct(recalled')
BY DEF MemoryInv, Distinct, Fresh

LEMMA OwnFrame ==
  ASSUME MemoryInv, Distinct(recalled), RecallOwn(Task)
  PROVE  /\ Distinct(recalled') /\ recalled \subseteq recalled'
         /\ \A x \in recalled' : x \in recalled \/ x.task = Task
<1>1. PICK hits \in SearchResults(items, Task, Limit) :
        \E S \in SUBSET Fresh(Own(hits, Task)) : recalled' = recalled \cup S
  BY DEF RecallOwn
<1>2. PICK S \in SUBSET Fresh(Own(hits, Task)) : recalled' = recalled \cup S  BY <1>1
<1>3. Own(hits, Task) \subseteq items  BY <1>1 DEF SearchResults, Matching, Own
<1>4. Distinct(recalled')  BY <1>2, <1>3, FoundFresh
<1>5. \A x \in S : x.task = Task  BY <1>2 DEF Fresh, Own
<1> QED  BY <1>2, <1>4, <1>5

LEMMA CrossFrame ==
  ASSUME MemoryInv, Distinct(recalled), RecallCross
  PROVE  Distinct(recalled') /\ recalled \subseteq recalled'
<1>1. PICK hits \in SearchResults(items, NoTask, Breadth) :
        \E S \in Reranked(Fresh(hits), queryFacets, Room) : recalled' = recalled \cup S
  BY DEF RecallCross
<1>2. PICK S \in Reranked(Fresh(hits), queryFacets, Room) : recalled' = recalled \cup S  BY <1>1
<1>3. S \subseteq Fresh(hits)  BY <1>2 DEF Reranked
<1>4. hits \subseteq items  BY <1>1 DEF SearchResults, Matching
<1> QED  BY <1>2, <1>3, <1>4, FoundFresh

LEMMA RecallStep ==
  NoTask \notin Tasks /\ TypeInv /\ MemoryInv /\ RecallInv /\ [Next]_vars => RecallInv'
<1> SUFFICES ASSUME NoTask \notin Tasks, TypeInv, MemoryInv, RecallInv, [Next]_vars, phase' \in Working
             PROVE  RecallInv'
  BY DEF RecallInv
<1>1. CASE UNCHANGED <<phase, recalled, items, start, ingested, pos>>
  BY <1>1 DEF RecallInv, Distinct, OwnOnly, Settled, LeftOut, Task
<1>2. CASE UNCHANGED vars  BY <1>1, <1>2 DEF vars, reflexionVars, memory, loop
<1>3. CASE Seed
  BY <1>3 DEF Seed, RecallInv, Distinct, OwnOnly, Working
<1>4. CASE SeedFails \/ EndBaseline \/ NextAttempt \/ NextRun \/ Report
  BY <1>4 DEF SeedFails, EndBaseline, NextAttempt, NextRun, Report, PassEnds, Working
<1>5. ASSUME NEW verdict \in Verdicts, NEW tags \in CallFacets, Attempt(verdict, tags)
      PROVE  FALSE
  BY <1>5, AttemptFrame DEF Working
<1>6. CASE Search
  <2>1. /\ UNCHANGED <<items, start, ingested, pos>> /\ Task' = Task /\ InPass
        /\ phase \in {"own", "again", "cross"} /\ phase \in Working
    BY <1>6, SearchFrame DEF loop, Task, TypeInv, Working
  <2>2. Distinct(recalled)  BY <2>1 DEF RecallInv
  <2>3. ASSUME Settled, recalled \subseteq recalled' PROVE Settled'
    BY <2>1, <2>3 DEF Settled, LeftOut
  <2>4. CASE FirstSearch
    <3>1. /\ recalled = {} /\ RecallOwn(Task)
          /\ phase' = IF Cardinality(recalled') < Limit THEN "again" ELSE "agent"
      BY <2>4 DEF FirstSearch, Searching, RecallInv, Working
    <3>2. Distinct(recalled') /\ OwnOnly'
      BY <2>1, <2>2, <3>1, OwnFrame DEF OwnOnly
    <3>3. Settled' \/ phase' = "agent"
      <4>1. CASE \E x \in Matching(start \cup ingested, NoTask) : x.task = NoTask
        BY <2>1, <4>1 DEF Settled
      <4>2. CASE Cardinality(recalled') = Limit
        <5>1. ~(Cardinality(recalled') < Limit)  BY <4>2, LimitAssumption
        <5> QED  BY <3>1, <5>1
      <4>3. CASE \A x \in Matching(items, NoTask) : x.task = Task => x \in recalled'
        <5>1. LeftOut' = {}  BY <2>1, <4>3 DEF LeftOut
        <5> QED  BY <5>1 DEF Settled
      <4> QED  BY <2>1, <3>1, <4>1, <4>2, <4>3, OwnSearch
    <3> QED  BY <3>1, <3>2, <3>3 DEF RecallInv
  <2>5. CASE SecondSearch
    <3>1. OwnOnly /\ Settled /\ RecallOwn(Task) /\ phase' \in {"cross", "agent"}
      BY <2>5 DEF SecondSearch, Searching, RecallInv, Working
    <3>2. Distinct(recalled') /\ recalled \subseteq recalled' /\ OwnOnly'
      BY <2>1, <2>2, <3>1, OwnFrame DEF OwnOnly
    <3> QED  BY <2>3, <3>1, <3>2 DEF RecallInv
  <2>6. CASE ThirdSearch
    <3>1. Settled /\ RecallCross /\ phase' = "agent"
      BY <2>6 DEF ThirdSearch, Searching, RecallInv, Working
    <3>2. Distinct(recalled') /\ recalled \subseteq recalled'  BY <2>2, <3>1, CrossFrame
    <3> QED  BY <2>3, <3>1, <3>2 DEF RecallInv
  <2>7. CASE SearchFails
    <3>1. recalled' = recalled /\ phase' = "agent" /\ OwnOnly
      BY <2>7 DEF SearchFails, reflexionVars, RecallInv, OwnOnly, Working
    <3>2. OwnOnly'  BY <2>1, <3>1 DEF OwnOnly
    <3> QED  BY <2>2, <3>1, <3>2 DEF RecallInv, Distinct
  <2> QED  BY <1>6, <2>4, <2>5, <2>6, <2>7 DEF Search
<1>7. ASSUME NEW note \in Notes, Ingest(note) PROVE RecallInv'
  <2>1. /\ items' = Upsert(items, note) /\ ingested' = ingested \cup {note}
        /\ UNCHANGED <<phase, recalled, start, pos>> /\ Task' = Task
    BY <1>7 DEF Ingest, loop, Task
  <2>2. Settled => Settled'
    <3>1. CASE LeftOut \subseteq ingested
      <4>1. LeftOut' \subseteq LeftOut \cup {note}  BY <2>1 DEF LeftOut, Matching, Upsert
      <4> QED  BY <2>1, <3>1, <4>1 DEF Settled
    <3>2. ASSUME NEW x \in Matching(start \cup ingested, NoTask), x.task = NoTask PROVE Settled'
      <4>1. x \in Matching(start' \cup ingested', NoTask)  BY <2>1 DEF Matching
      <4> QED  BY <3>2, <4>1 DEF Settled
    <3> QED  BY <3>1, <3>2 DEF Settled
  <2>3. OwnOnly => OwnOnly'  BY <2>1 DEF OwnOnly
  <2> QED  BY <2>1, <2>2, <2>3 DEF RecallInv, Distinct
<1> QED  BY <1>2, <1>3, <1>4, <1>5, <1>6, <1>7, StepCases

-----------------------------------------------------------------------------
LEMMA InitInv == Init => TypeInv /\ ShortInv /\ ShownInv /\ SnapshotInv
<1> SUFFICES ASSUME Init PROVE TypeInv /\ ShortInv /\ ShownInv /\ SnapshotInv  OBVIOUS
<1>1. TypeInv
  <2>1. lessons \in [Tasks -> Seq(Stamps)] /\ refine \in [Tasks -> Stamps]
    BY DEF Init, ColdShort, NoHint, Stamps
  <2> QED  BY <2>1 DEF Init, TypeInv, Working
<1> QED  BY <1>1 DEF Init, ShortInv, ShownInv, SnapshotInv, SnapshotStable, Working

LEMMA TypeCorrect == Spec => []TypeInv
BY InitInv, TypeStep, PTL DEF Spec

(* No task twice in the list: then an attempt is told only what earlier    *)
(* attempts at its task in its own run left, in their order, and the       *)
(* baseline is told nothing.                                               *)
THEOREM ColdStartCorrect ==
  ASSUME DistinctTasks
  PROVE  Spec => []ColdStart
<1>1. TypeInv /\ ShortInv /\ ShownInv /\ TypeInv' /\ [Next]_vars => ShortInv' /\ ShownInv'
  BY DistinctTasks, ShortStep, ShownStep
<1>2. ShownInv => ColdStart  BY DEF ShownInv, ColdStart, Working, Growing
<1> QED  BY InitInv, TypeCorrect, <1>1, <1>2, PTL DEF Spec

(* A report that calls its memory stable, and one of a memory only read    *)
(* that has no caveat, was made on the memory the experiment began with,   *)
(* whoever else was writing to it.                                         *)
THEOREM SnapshotCorrect == Spec => []FixedSnapshot
<1>1. SnapshotInv => FixedSnapshot  BY DEF SnapshotInv, FixedSnapshot
<1> QED  BY InitInv, SnapshotStep, <1>1, PTL DEF Spec

(* However cmd/memory writes between the searches: no memory is shown      *)
(* twice, and one of another task never takes the place of one of the task *)
(* itself, unless items of no task are about.                              *)
THEOREM RecallCorrect ==
  ASSUME NoTask \notin Tasks
  PROVE  Spec => []RecallSound
<1>1. Init => MemoryInv /\ RecallInv
  BY StoresAssumption DEF Init, MemoryInv, RecallInv, Distinct, Working
<1>2. TypeInv /\ MemoryInv /\ RecallInv /\ [Next]_vars => MemoryInv' /\ RecallInv'
  BY MemoryStep, RecallStep
<1>3. RecallInv => RecallSound
  BY DEF RecallInv, RecallSound, Distinct, OwnOnly, Settled, Working
<1> QED  BY TypeCorrect, <1>1, <1>2, <1>3, PTL DEF Spec

=============================================================================
