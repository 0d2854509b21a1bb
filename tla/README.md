# Verification of schema-driven-insight-agent

TLA+ models of the parts of this repository in which order, failure and
concurrency decide whether the program is right, the TLC runs that check them,
and TLAPS proofs of the most important results for every size. Paths are
relative to the repository root.

## 1. Inventory

The program answers questions about a game's or a bank's data. A refresh (`etl`)
copies tables from a source into a local SQLite database; an agent
(`eino_agent`) lets a language model query that database through tools
(`tools`, `schema_protocol`) and records what happened (`trajectory`,
`trajcapture`); an evaluation harness (`eval_harness`) runs the agent over
tasks, scores the answers, and compares the agent with and without reflection
and memory (`eval_harness/reflexion`, `memory`).

| Component | State it keeps | Operations | Interacts with | What is hard | What makes it correct |
|---|---|---|---|---|---|
| trajectory recorder (`trajectory/recorder.go`) | row of `trajectories`, rows of `trajectory_steps`, channel, mutex, counters | `New`, four `Record*`, `writeLoop`, `Finalize` | agent loop, judges, SQLite | several goroutines, a bounded channel, close versus send, failing inserts, death at any point | order of the rows, no step lost unaccounted, a truthful summary, no panic, no blocking |
| agent loop (`eino_agent/runner.go`) | conversation, `seen`, `okSeq`, tokens spent, capture | `Run` | model, tools, user, recorder, capture | long mixes of failures, repeats and clarifications; five exits; panics | every call answered, ids of results conserved, no query repeated that succeeded, finalized once, ends |
| capture (`trajcapture`) | tool calls and steps in memory | `Capture`, `Tee`, `AnalystResults` | agent loop, evaluators, advisor | numbering on two sides | the same numbers on both sides |
| evaluation suite (`eval_harness/runners`, `evalcli`) | task list, scores, verdict rows, report | `RunSuite`, `runPass`, `Finish` | agent loop, evaluators, recorder, reflection | errors in the middle, retries, rows that refer to trajectories | the exit code is the gate, verdicts are the scores, the observer sees whole tasks |
| refresh (`etl`, `etl_health`, `cmd/agent` start-up) | tables, `_meta`, health file, dated copies | `RunAll`, `csvload.Run`, `seedgen.Run`, `RotateBackup`, `Health.Ready` | source database, agent | multi-transaction refresh, death between commits, schema edits, midnight | what the gate admits, failures are told, copies are whole |
| reflexion and A/B (`eval_harness/reflexion`, `evalcli/ab.go`) | hints, lessons, hit counts | `ContextFor`, `Observe`, `Reset`, `runABWithClients` | suite, memory store | state carried between attempts and runs | cold start, truthful hints, read-only memory stays fixed |
| memory store (`memory`) | `memory_items` and its index | `Upsert`, `Search`, `MarkUsed`, ingest of trajectories and notes | reflexion, suite (through its database), `cmd/memory` | a pass read half done, partial failure, repetition | only what was earned is learnt, one item per source and its id stays |
| trajectory schema (`trajectory/migrate.go`) | schema version, columns | `Open`, `Migrate` | every program | two processes, death between steps | ends in the newest schema, never in between for good |
| clarifier (`eino_agent/clarifier.go`) | a scanner shared with the REPL | `Ask` | agent loop, terminal | a goroutine left behind by a cancelled question, which no caller can cancel | a line goes to the question it answers |
| deterministic evaluators (`attribution.go`, `attribution_grounding.go`, `data_correctness.go`, `contract/claimed_number.go`) | none | `ResolveAnchor`, `EvalAnchor`, `ResolveColumn`, `Evaluate` | suite, capture | five notations for a cell, numbering of successes, units, tolerances, greedy matching | agreement with definitions that search nothing |
| advisor and its grounding (`advisor`, `advisor_grounding.go`) | none | `Advise`, `Evaluate` | suite, capture, model | sources numbered on two sides | advice rests on results of the run |
| other evaluators (judges) | none | judge parsing, text | suite | text | wording |
| A/B and trend reports (`abreport.go`, `trend.go`) | none | `BuildABReport`, trend | A/B experiment | samples that scatter, errored judges | a gain that is announced is one |
| audit of trajectories (`cmd/attr-audit`, `trajectory/redact.go`) | none, reads `trajectory_steps` | `loadToolCalls`, `-resolve` | recorder, evaluators | shortened lists, lost steps | it does not contradict the verdict of the run |
| `query_distribution` (`tools/query_distribution.go`, `schema_protocol/profile_builder.go`, `sql_builder.go`) | none, reads the tables | `Run`: profile, top values, rows, groups | agent loop, refresh | several statements without a transaction, tails by subtraction, rounding, missing values | every row accounted for, quantiles are quantiles |
| `analyze` (`tools/analyze.go`, `args.go`, `argcheck.go`, `schema_protocol/analysis_builder.go`) | none, reads the tables | argument conversion, `BuildAnalysis`, `Run` | agent loop, refresh | many argument shapes, names that mean two things in SQL, ties at a limit | the answer is what the arguments declare, where they can be understood |
| schema protocol (`schema_protocol/parser.go`, `digest.go`) | none | YAML parsing, linting | everything | text | wording |
| LLM clients, prompts, commands | configuration | HTTP calls, text, wiring | everything | external services | not a subject of these models |

`PROJECT.json` lists every component with its status and every hazard with the
line where it bites and the properties that watch it.

## 2. Modules

### Recorder (`Recorder.tla`, `TrajectoryLog.tla`, `MCRecorder`, `RecorderProof.tla`)

One action per section of `trajectory/recorder.go` that no other goroutine can
see half done: a caller takes the mutex, is refused or takes a step index
(`EnqueueClosed`, `EnqueueOpen`), sends or drops (`SendOrDrop`); the writer
receives, persists and counts, and returns when the closed channel is empty;
`Finalize` is its `closeOnce` body in three steps, the wait for `done`, the load
of the counters and the update of the row. `Crash` may come at any point. The
mutex is a set of at most one caller, the step under way to the channel and the
one in the writer's hand are sequences of length at most one. The content of a
step is its type, role and tokens, which is what the counters tell apart.

`TrajectoryLog` says what the recorder promises without goroutines: accepted
steps are pending, stored oldest first or lost, sealing ends acceptance, and a
summary is written only when nothing is pending. `Recorder!ImplementsLog` states
the refinement; it is checked and proved.

### Runner (`Runner.tla`, `MCRunner`, `RunnerProof.tla`)

`eino_agent.Run` for one task: `Open`, the model's reply (an answer, or a batch
of tool calls with its tokens), each call answered by the user (`AskUser`), by
an earlier result (`Repeat`), by a failure (`DispatchFails`) or by a result
(`Dispatch`), then the next turn, the turn limit, the budget, or a panic that
reaches the deferred recover. `asked` and `told` are the conversation, `tools` is
`Capture.toolCalls`, `seen` and `okSeq` are the loop's own. `Rank` counts the
successes the way `contract.OKCalls` and `AnalystResults` do, so that
`QIndexConserved` compares two independent counts.

### Suite and Ingest (`Suite.tla`, `Ingest.tla`, `MCSuite`, `SuiteProof.tla`)

One pass: `runPass` over the tasks (a task database that cannot be seeded stops
it), a trajectory that opens or not, the agent's answer, the evaluators in
`EvalOrder` (skipped, unregistered, a gate evaluator, a judge with its retries),
`persistVerdict`, the reflection observer, `mergeInto`, and `Finish` with the
exit code. A task is its id and the evaluators it selects. Judge calls are
recorded on the task's trajectory, which the agent's run has finalized. Task
lists may repeat an id, as the loader allows.

`Ingest` composes the pass with a second program on its database: `cmd/memory`
reads the trajectories and verdicts in one query, at any moment of the pass
(`IngestTrajectoryDB`), or a file of notes (`IngestManualNotes`), and upserts what it
takes one item at a time (`Skip`, `Upsert`); it may fail or be killed in between
(`Abandon`) and be run again. It adds the outcome of each trajectory, which
`Suite` leaves open; everything else of the pass is `Suite`'s own actions. `whole`,
`learnt` and `evaluated` are history. The pass is held up while a command runs, which is no
restriction: the query reads a snapshot, and neither reads what the other writes later.

### Etl (`Etl.tla`, `MCEtl`, `EtlProof.tla`)

One installation in one of the lanes `pg` (`etl.RunAll`), `csv`
(`csvload.Run`) and `seed` (`seedgen.Run`): state tables extracted and replaced
one after the other, the stamp of `data_as_of`, the derived table and the
schema version in one transaction, the health file (truncated, then written),
the dated copy and the rotation; every call may fail, the process may be
killed, the schema file may be edited and days pass at any moment. `cmd/agent`
is a second process: it reads the health file, parses the schema, checks the
version. The content of a table is the run that wrote it and the schema version
of its columns; the two autocommitted statements of `WriteDataAsOf` are one
step, because the first only creates an empty `_meta`, which the gate cannot
tell from none. `Stamped` are the schema versions that have a `last_seen` column: under the others lane
`pg` writes no `data_as_of` and leaves that of an earlier run (`etl/run.go:184`).

### Facets, MemoryStore, Reflexion and AB (`MCAB`, `ABProof.tla`)

`AB` is the experiment of `evalcli/ab.go`: per run a baseline pass, a reset, and a sequence of passes with the
provider. It extends `Reflexion`, the provider: `lessons` and `refine` are its short memory, `ShortContext`
and the three searches (`FirstSearch`, `SecondSearch`, `ThirdSearch`) its `ContextFor`, `ObserveWeak` and
`ObserveWrong` its `Observe`. `MemoryStore` has `Upsert` by source and what `Search` may return; the text rank
is an arbitrary order, which `Facets` (the tags of a query and the reranking by them) overrides. A lesson or a
hint is the run and the attempt it was learned in: that is what the properties are about. Another process,
`cmd/memory -manual`, adds notes at any moment (`Ingest`), also between two searches. The report (`ended`) has
`memory_snapshot_stable`, and the caveat, which the code gives only where the memory was not to be written
(`ab.go:235`). `last`, `drift` and `start` are history.

### Migrate (`Migrate.tla`, `MCMigrate`, `MigrateProof.tla`)

`trajectory.Migrate` by several programs on one file: the statements of
`schema.sql`, the read of the version, the insert into a new database, and the
two upgrade transactions, each a probe, the moment it becomes the writer, and
its commit. The first upgrade probes on another connection, so its transaction
reads nothing before it writes; the second reads in its transaction, so that a
commit of another program in between makes it fail (SQLite's stale snapshot).
`Exit` at any point is an end or a kill. Failing reads of the file are left out.
A run begins with any of `Databases`: none, one of each version, or what an older program leaves that is
killed before it writes its version (`HalfMade`). The columns that such tables lack are never added
(`lost`, history), and `VersionTruthful` excepts exactly these.

### Results, Captured, Attribution, DataCorrectness, Grading and Audit (`MCGrading`, `MCEvaluation`, `EvaluationProof.tla`)

The deterministic evaluators as operators, and a machine that feeds them: tools answer (`ToolCall`), both
evaluators grade the same calls (`Evaluate`), the next task begins (`NextTask`). `Results` has the results as
JSON trees and which of the calls an answer can cite (`OKCalls`), `Fraction` the arithmetic. A result is a
JSON tree of nodes (`object`, `list`, `number`, `text`, `null`) out of a set `Nodes` that has the parts of its
members too; a path is a sequence of segments with their selectors, a claimed number an integer with the marks
found beside it (units, percent, scaling word), of which `ClaimedNumber` takes off each unit at most once, in
the order of the code's list (`DecorativeSuffixes`); a cell, an expected value and every value computed is a
fraction. An anchor, which the code parses out of nested parentheses, is a function from the places in it
(`<<>>` the whole, `<<2, 1>>` the first operand of its second operand) to an operator or a cell. `Attribution`
is `Resolve`, `ResolveColumn`, the operators and `EvalAnchor`; `DataCorrectness` is every assertion of a task
file. The code's recursion is written as recursive functions: `Through` over the segments of a path,
`Resolved` over the places of an anchor, `RedactValue` over the nodes. The references in `Grading` are built
the other way round: `CitedCells` and `CitedColumns` list every number and column of a result with all its
addresses, `Denotes` is the set of values an anchor has, `TrueClaim` compares with the claim without the
evaluator's order of checks, and `HasMatching` asks for any assignment of expected values to cells.

`Captured` is the part of this machine that the proofs are about: the capture of one task after the other
(`RecordToolCall`, `NewCapture`), which every step of `Grading` and `Audit` that changes it takes. `Advise`
and `AdvisorGrounding` use the same numbers: the draft of the model is any sequence of references, and those
the run has no result for are dropped.

`Audit` extends `Grading` with what becomes of a run later: each call is stored shortened
by `Redact`, or lost (`Record`), and `cmd/attr-audit -resolve` evaluates the claims of the
stored answer over the stored calls with the same `EvalAnchor`.

### Distribution and Analysis (`MCTools`, `ToolsProof.tla`)

One call of `query_distribution` as its statements, `pc` being the next one: the
profile, the top values and the rows, or the groups, their totals and the three
statements of each group. `Refresh` replaces the table between any two, since no
transaction encloses them; a statement may fail. A table is a function from finitely
many row numbers to the rows that pass the filter (a group keeps the numbers of its rows,
so that no statement depends on an order SQL does not promise), and what SQL computes of it is `Profile`, `TopN` and
`Distribution`, missing values included, which SQL counts, sorts first, and leaves to the
last bucket. `part` is what has been read so far.

`Analysis` adds the other tool on the same table: `AnalyzeInput` is the lossy
conversion of the arguments (the properties compare with the arguments themselves: `Declared` is the query
they name, `Understood` whether they name one), `Valid` the checks of `BuildAnalysis` in any order (only
the text of the hint tells which failed), and `Answers` the set of answers SQLite may
give to the statement: the groups of `GROUP BY`, aggregates without Nulls, `HAVING` with
its rule that a name is a column of the table before it is an alias (`BareRows` says
of which row), `ORDER BY` with the keys the builder appends, and the limit.

### AbReport (`MCEvaluation`, `EvaluationProof.tla`)

The samples of an experiment, pass by pass, every score an evaluator can give, and
`BuildABReport` over them in exact fractions. `AB` has the passes themselves; here they
are only their reports, which lets two runs of two tasks with all verdicts be exhausted.

`MCEvaluation` checks this module and the graders in one run. They share no state: each
moves only while the other is where it begins, so that the run adds their states up
instead of multiplying them.

## 3. Runs

| Run | Instance | Shows |
|---|---|---|
| `recorder` | two callers, a channel of one slot, three records, two finalizes | with a full channel, late steps, failing inserts and death at any point: rows in order, nothing lost unaccounted, no send on a closed channel, a truthful summary, refinement of the log; a record returns even if the writer hangs, a finalize returns if it does not |
| `runner` | two queries and a clarification, up to two calls per reply, three turns, a budget two replies reach | ids conserved, every call answered, no query dispatched again that succeeded, finalized as returned, termination |
| `suite` | two gate evaluators, a judge, an unregistered name, a misspelt one, up to two tasks, also of one id; two commands that ingest, two files of notes | the exit code is the gate over the names of `EvalOrder`, verdict rows are scores of finalized trajectories, the observer sees whole tasks, termination; what the memory learns was earned, items keep their ids |
| `suite_tokens` | the same | no judge step reaches the database (finding) |
| `suite_selected` | the same | an evaluator selected under a misspelt name is passed over, and the exit code is 0 (finding) |
| `etl` | two state tables (one for `csv`), three runs, two schema versions, three days, retention and staleness of one day | what the gate admits, failures close it, the tables are never behind what tells of them, copies are of one run, recent copies are kept, runs end |
| `ab` | no memory, a memory only read, or written; two tasks, two runs of two attempts, room for two memories, one or two old items, one note | independent samples, sound recall; a report that calls its memory stable, or has no caveat although the memory was only read, measured one fixed memory |
| `ab_hint` | one run of three attempts | a hint outlives a later wrong query (finding) |
| `evaluation` | graders: up to two calls out of results with a profile, groups and tables with short rows, awkward column names, fractions and nulls; claims with units in either order; all answers, drafts and task files of a small set; one step lost, lists cut at two; report: two runs of two tasks, a judge that fails or gives a low or a high score | cells are found where they are in every notation, failed calls shift nothing, an answer passes if and only if its claims are true, greedy matching finds a matching, the audit of the stored run does not contradict it; an announced gain is one in every pair of runs, means of judges come from scores |
| `tools` | eleven tables of up to ten rows, calls of every kind of both tools, one refresh | every row told once unless a refresh comes between, nearest-rank quantiles, `analyze` answers what arguments declare that can be understood |
| `analyze_having` | the same | an alias named like a column makes `HAVING` look at a row instead of the aggregate (finding) |
| `migrate` | two programs, four starts, no database, one of any version, or tables that an older program left without one | the version tells the columns but for those such tables lacked, a lone program always succeeds, nothing is taken back |

Bounds. In `recorder` one slot is enough to make the channel full, two callers to make any pair of calls
overlap, and three records to have one stored, one in flight and one dropped at once. In `runner` two keys and
two calls per reply give repeats within a reply and across turns, failures between successes, and a repeat of
each; three turns reach the limit after a turn that only repeats. In `suite` two tasks suffice for a verdict
or a score to go to the wrong task, three attempts are the code's own `judgeMaxAttempts`. In `etl` three runs
allow a good one, a failed one and a good one, and three days let a copy expire and one at the limit survive.
In `ab` two runs let a reset be seen and two attempts let something be learned, two tasks let it go to the
wrong one; three attempts, which the finding needs, add states and no behaviour for the other properties. In
`migrate` two programs with two starts each let both be killed and return while the other is anywhere. In
`evaluation` two calls are enough for a success to come before, after or instead of a failure and for an
operator to span two results; `MaxAnchorDepth` stands for the code's 20 nested operators, `Precision` for its
tolerance of 1/10000: it is 2, a tolerance of a half, so that fractional cells (21/2, 31/3) fall on either
side of it without large numbers; two units make both orders of the list. In `tools` the minimum sample is 3
for 100, the lists hold two values and two groups for 10 and 20 and rows are attached to up to 4 or, per
group, 2 values for 1000 and 50, so that small tables fall on either side of each limit; one refresh can come
anywhere; the limit of `analyze` is 2 for 1000, so that ties are cut. In `suite` two commands let the second
take again what the first took, or finish what it left, and one command read the pass half done and the other
whole. In `evaluation` two runs a side let the ranges touch without being equal, and a failure of the judge
beside a low or a high score tells what a mean has counted. The counters of the bounds are guards of the
actions that begin a call (`recorded`, `finalized`, `run`, `clock`, `schema`).

Fairness. `Recorder!CallerFairness`: a caller inside a method is scheduled, and
`sync.Mutex` does not starve a waiter (its starvation mode), hence strong
fairness of the step that takes the mutex again; nothing makes a caller begin a
call. `WriterFairness` (a database call returns) is an assumption of the
half of `CallsReturn` about `Finalize` only; a record returns without it. `Runner` and `Suite` are
one goroutine each and take a step whenever one is possible: weak fairness of
`Next`, which assumes that the model, the tools, the judge and the user answer.
`Ingest` makes the pass or the command under way take a step when one can (one process each; a
command ends because its rows do).
`Etl` assumes that a run that has begun takes its steps (`WF_vars(EtlStep)`);
starts, kills, edits, days and agents are not fair.

`CHECK_DEADLOCK FALSE` is set only for `etl` and `migrate`, whose bounds on runs,
days and starts make them stop. The other models say where they may stop (`Quiescent`, `Done`).

## 4. Proofs

The proofs hold for every value of the constants that satisfies the named assumptions of the module (a
positive capacity, natural numbers of tokens, `in_progress` not an outcome of `Finalize`; keys apart from the
clarification, nonempty batches, `OK` not a failure; natural bounds, "no one" not a program; an `EvalOrder`
without repetition that has `data_correctness`; no state table twice in a lane, since they are the keys of a
map, and natural row counts; at least one run and one task, each task with an evaluator, and scores with
natural values; finite tables of natural numbers or Nulls, positive minima and list lengths, buckets with
integer bounds, and a list in the arguments of `analyze` being a list unless it is misshapen; JSON values that
are well formed, have their parts among them and a finite height; decimal numerals that differ from each other
and from `*`; units that are not `percent` or another mark; anchors whose operators have all their operands;
expected values and the columns they may be in lists).

`RecorderProof`: types, `StepsInOrder`, `NothingLost`, `NoSendOnClosed`,
`SummaryMatchesSteps`, `StoreDiscipline` and the refinement of `TrajectoryLog`.
None of these is inductive. The invariant adds who holds the mutex (`LockInv`: a
caller between the check of `closed` and the send, and the channel is then
open), what `closeOnce` has let happen (`OnceInv`), the order of all indices in
the pipeline below the next one (`OrderInv`: with one writer and a FIFO channel
order of index is order of insertion), and what the counters count
(`CountInv`: a `Finalize` past its wait reads counters that no longer move).
The refinement maps the pending set to the elements of the three stations of
the pipeline.

`RunnerProof`: types, `EveryCallAnswered`, `NoSuccessRepeated`,
`FinalizedAsReturned` and `QIndexConserved`. `Kinds` reduces a step to four
effects on the conversation (none, a reply, a message that captures nothing, a
captured result); each invariant is then shown per effect. `SeenInv` ties the
map of earlier results to the capture (the same queries with the same results),
which is why a query that is not in the map is new to the capture; `RankNext`
says that capturing a call leaves the numbers of the earlier calls alone.

`MigrateProof`: types, `VersionTruthful`, `AloneSucceeds` and `OnlyForward`, for any number of programs that
migrate at once a database of any origin in `Databases`, of which only the columns `lost` stay out. `PlaceInv`
says what a program may rely on at each place of Migrate although others commit in between: the tables it has
created, that the version is not behind its next commit, and a column it has seen. `Forward` is what every
step keeps of the database; from it `OthersKeep` shows once that a program that does not move keeps its place,
and `StepArrives` shows, per action, that the one that moves gets one. `AllAlone` adds that a program nobody
has run beside may rely on everything it has read, in particular on the snapshot of its second transaction,
which is why it cannot fail nor set the version back.

`SuiteProof`: types, `VerdictsAreScores`, `ObservedWhole` and `ExitTellsGate`, for any task
lists, evaluators and judges. `StepCases` reduces the six ways an evaluator ends to one
(`Giving`); `ScoreInv` says where in the loop the scores given so far can be from, `CurrentInv`
that the report of the task at hand is exactly what the evaluators behind `j` gave,
`BehindInv` that no task was left without its scores, and `ReportInv` which score the merged
report keeps for an id: that of the last task of the id that selects the evaluator. The
exit code is then the gate over `ReportInv`. All of this is about names in `EvalOrder`, the only ones the loop
looks at; the others are what `suite_selected` shows.

It goes on with `Ingest`: `LearnsWhatWasEarned` and `ItemsStay`. A step of the pass is a step of `Suite`
(`PassFacts`) and a command is none, so that `Ingest` implements `Suite` (`IngestKeepsPass`) and the theorems
above hold of the composition, on which the run checks them. `EarnedInv` says of the rows a command still has
to take what the property says of the items, and survives the pass because what was earned stays so
(`EarnedStays`: the outcome that changes is that of the task at hand, which has no score yet); `WholeInv` says
that what a command saw at the end is in the memory or still to be taken; `ItemInv` that ids are different and
none is still to be given.

`EtlProof`: types and every safety property of the run `etl`, for any tables, row counts, limits
and bounds. `RunInv` says, besides `NeverAheadOfTables`, which parts of the database already are of
the run under way (the tables behind `k`, `data_as_of` in lane `pg`, the currencies before the health
file is told): a copy is made only where all of them are. `VersionInv` orders the versions: the currencies are
stamped with `plan`, which is never newer than the columns of any table extracted after it. `GateInv` carries
what the health file told, and what an agent has read in it, forward to the currencies of that run or a
later one. The steps that neither begin a run nor write the database go in three frames (`AsideFrame`,
`OnlyPlaceFrame`, `EndsFrame`).

`ABProof`: `ColdStart` and `FixedSnapshot` (a report says stable, or withholds its caveat on a memory only
read, only if every search of the experiment met the memory of its start). `ShortInv` says what the provider
remembers between the turns of a task: only stamps of this run, of this attempt only if the task has had its
turn (`Told`), in growing order. `ToldEarlier` turns that into "an earlier attempt" when the turn comes; it
needs that no task is twice in the list, which `ColdStartCorrect` states as its hypothesis, because the loader
does not check ids (`eval_harness/tasks/loader.go:52`): with a repeated id, the second turn is told of the
first.

`RecallCorrect` is `RecallSound`, about the three searches of the persistent provider. `RecallInv` says that
what they have found so far has no source twice and is of the task itself until the last search, and that what
of the task is then left out was ingested since the experiment began or crowded out by items of no task
(`Settled`). That comes from cardinalities: a search that returns fewer than it may has returned everything
that matches. It assumes that the id of "no task", under which notes are kept, is not the id of a task (the
code writes it as NULL).

`ToolsProof`: `EveryRowToldOnce`, `QuantilesNearestRank` and `AnsweredAsDeclared`, for any tables, calls,
buckets and limits. It has three layers. The first is about the operators, and stands for the induction over
data that the prover does not have: a sum over a finite set is the size of a union of disjoint classes
(`SumOfClasses`, by the well-foundedness of strict inclusion, since the least set on which a fold and a
cardinality differ cannot exist), and `InOrder` lists a set as its order has it, because the number of
elements before one is a bijection (`InOrderFacts`). From these follow `TopNFacts`, `TailFacts`,
`DistributionFacts` (the counts of the buckets and those of all above) and `QuantileFacts` (the element of the
rounded rank is the least that enough do not exceed). The second is the invariant: `ControlInv` says at which
statement a call of which shape can be, and that without a refresh the table is the one it began with;
`PartInv` that each part read so far is a function of that table; `ReplyInv` that the reply is. The third
reads the properties off the reply. For `analyze` the invariant only says that an OK answers a valid query,
the converted one (`AnswerInv`), which is the one declared where the arguments can be understood; the rest is
about `Answers`: every output cell is an integer or Null (`OutputFacts`), the row `HAVING` looks at makes no
difference without a shadowing alias (`HavingFacts`), and the keys appended by `buildOrderBy` make the order
of the groups a strict total one (`BeforeFacts`), so that a sequence SQLite may answer is the only one
(`OrderedFacts`).

`EvaluationProof`: `GainIsReal` and `JudgedByScores`, for any tasks, scores and number of runs. The state is
little (`Collected`: at the report both sides have `Runs` samples); the work is in sums of fractions, whose
value as a pair depends on the order of addition, so that no closed form can be guessed. `SumUnfolds` shows
that the fold is the last of a function of partial sums (functions right for all subsets of up to k elements
exist for every k, else there were a least k), and `SubsetInduction` makes an induction over finite sets of a
set of subsets, where a predicate would be a parameter. From these: a mean lies between the bounds of its
terms (`MeanBetween`), and where R times each term is the size of a class, R times the mean is the size of all
classes over the number of terms (`WeighedMean`). The classes are the samples a task passed for the gain, and
for the judge as many units per sample as its score, first over the runs of a task, then over the tasks. The
range of the suites comes from `Extremes`.

It goes on with what the evaluators do with a capture: `FailuresShiftNothing` and `ValuesFound`, as invariants
of `CaptureSpec`. Recursive functions over the positions of a sequence carry the weight: `Iteration` gives the
function that starts and goes on as told, from which each recursive definition gets its two equations, and
`StepByStep` the induction over its steps. `FilteredInserted` says that a list filtered by positions does not
see an element that is put in and left out. For the greedy matching, `ClaimsUnfold` says what the loop over
the expected values has done after each; `GreedySound` reads a matching off it. `GreedyComplete` is the other
direction: if a value finds no free cell, every cell near it was taken for a value near it, which by `Apart`
is the same value, so that there are more values than cells in any matching (the pigeonhole principle). Cells
and expected values are fractions; that values near one cell are one number (`NearOne`), and that it does not
matter how it is written (`NearSame`), is arithmetic of cross products.

Then come the anchors: `AddressesFound` and `GradesAreRight`, as invariants of `AuditSpec`, which refines
`GradingSpec` (`AuditsGraded`). The state adds little (what is captured are JSON values; the scores were
computed from the calls that are still there); the work is to show that looking up and enumerating agree.
`BelowIsChild` shows that the reference's step down (fields, elements by number, the first element with a key)
is the evaluator's, and by induction on the length of an address it leads to a node in the enumeration exactly
if walking it arrives there; the first table on the way is the only one, since neither walk goes on below it.
At the table, `ColumnPosition` and `TableCellAt` settle which names and numbers mean a column (the first of
its name, and no name that is a number), and a starred path is the vector of its cells (`StarredCell`) or
nothing. For anchors, `ResolvedUnfolds` and `DenotedUnfolds` unfold both evaluations from `MaxAnchorDepth`
upwards, and `ResolvedExact` shows at each place that the outcome is the one sequence of numbers the place
denotes, or a failure where it denotes none (`CombineExact`, `CombineNothing` for an operator over its
operands). `MarksRead`, `CloseWithin` and `ClaimGraded` carry that over to a claim: its marks are read alike,
and the tolerance of one per cent is the interval of the definition, for negative claims and zero as well.

`AuditAgrees` is `ShortenedNeverContradicts`, for any results, cuts and losses. Two invariants carry the
state: the stored steps are the redacted calls up to the first lost one (`Stored`, from which `CountAlike` and
`NumberedBacked` get that the results before it have the same numbers on both sides), and the verdicts are
those of the stored claims on the stored steps (`Found`). The rest is about the walk over what redaction left
of a tree. `Follows` relates a node of the shortened tree to the node the fresh walk has reached: it is what
redaction keeps of it, or gone. `KeptDown` carries that over a segment, because a cut keeps the first
elements, so that the first one with a key, if it is kept at all, is still the first (`KeptHaving`); here it
matters that no name on the path is private or the placeholder, since texts that redaction makes equal would
move the first. `KeptNavigate` gives that a cell has its number or none, the latter only if some list was cut;
`CombineFades` and `AnchorFades` carry it through the operators, and `ClaimFades` to the verdict.

Only model-checked: the liveness properties (fairness and ENABLED are beyond the prover).

## 5. Findings

Each is a run whose property quotes the repository and fails.

* `suite_tokens`: judge calls are recorded after the trajectory is finalized, so
  their tokens never reach the database (`eval_harness/runners/suite.go:123`).
* `suite_selected`: an evaluator name that a task selects and `EvalOrder` lacks (a typo) is never looked
  at: no column, no message, and the gate can pass (`eval_harness/runners/suite.go:129`); the loud
  failure of line 136 is for names in the order.
* `ab_hint`: the hint "your last query was right" stays after a later attempt whose
  query was wrong, and hides its lesson (`eval_harness/reflexion/reflexion.go:62`).
* `analyze_having`: nothing keeps an alias of `analyze` from being the name of a column, and
  SQLite's `HAVING` then compares the column (`schema_protocol/analysis_builder.go:197`), not the
  output that the comment at line 180 names.

Seen while modelling, without a run of its own:

* `seen` remembers results of any status (`eino_agent/runner.go:140`), although the comment at line 134 calls
  it the cache of successes: a query that failed for a passing reason is answered with its failure when the
  model repeats it. `NoSuccessRepeated` is about queries that succeeded.
* A filter of `analyze` that is not an object, or filters that are not a list, are dropped without a word
  (`tools/args.go:51`), and the query runs without them; the comment at line 42 leaves the checks to
  `BuildAnalysis`, which cannot see what was dropped. The run has such calls; `AnsweredAsDeclared` promises
  nothing of them (`Understood`).
* Tables without a version row are taken for new ones (`trajectory/migrate.go:44`), although `Migrate` says that
  it upgrades what is there (line 35): where a program of an older version was killed between the two, the
  newest version is written and the later columns are never added, which is the exception in `VersionTruthful`.
* Two programs that upgrade a version 1 database at once may set the version from 3
  back to 2 for as long as the slower one takes to commit its second upgrade
  (`OnlyForward` says exactly when); a kill in between leaves version 2 with all
  columns, which the next start repairs.
* An operator that is not registered is tolerated (`derived_unsupported`) when it is
  the first thing wrong in an anchor; `GradedAsDefined` is about answers without such.
  A block that cannot be parsed passes a task that asks for no claims. A group or
  bucket key with a dot, and the `row_count` of a table, cannot be cited.
* `expect_values` is greedy: it finds a matching whenever there is one only if
  different values are further apart than twice the tolerance (`Apart`).
* A refresh between the statements of `query_distribution` can make `tail_count` zero
  or negative, which `contract/response.go:55` reads as "no tail". Two `group_by` columns are
  answered ungrouped if there are too many values to attach rows, and an unknown
  `bucket_key` is noticed only if rows are attached. Rows without a value count in
  the quantiles and fall into the last bucket; a row without a group fails the call, or
  drops out of the tail when every real group is listed. The code assumes integer
  groups (`tools/query_distribution.go:392`), and so does the model.
* The judge score of a task all of whose judge calls failed enters the A/B mean as 0
  (`eval_harness/abreport.go:162`), although the report says such errors are kept out of it (line
  219); `JudgedByScores` is about tasks with a score. And 0.6 - 0.4 is less than 0.20 in
  doubles: a gain of exactly twenty points can be told as not reached (line 112).
* A CSV refresh that fails after it has replaced the state table leaves the health file of the run
  before (`etl/csvload/run.go:141`), where `etl.RunAll`, which it says it mirrors (line 26), writes FAILED.
* Two task files with one id overwrite each other's scores, so that a later pass can hide a failure of the gate
  (`eval_harness/tasks/loader.go:52` checks only for empty ids); `ExitTellsGate` says whose score stands.
* `advisor_grounding` cannot find an ungrounded item in a run of the suite: `Advise` has dropped them
  (`advisor/advisor.go:74`). What is left for it to fail is a missing draft or too few items.
* A field of the wrong type inside an item of the arguments of `analyze` is left zero as well (`tools/args.go:99`):
  an order whose `desc` is a text sorts ascending. The models have items with or without their parts.
* A schema that drops its last `last_seen` column leaves the `data_as_of` of an earlier run in the database, beside
  the currencies of the new one (`etl/run.go:184`).
* The audit cannot see a lost step: the numbers after it shift, and it can contradict the verdict of
  the run. Where lists were cut at ten it finds fewer cells (`trajectory/redact.go:62`). Both are what
  `ShortenedNeverContradicts` leaves out.
* One trajectory without a question stops every ingest at it (`memory/ingest.go:125`), and what
  comes after it is never learnt.

## 6. Not modelled

* Text: prompts, rendering of memories and reports, the patterns of redaction and of the tool-call
  detectors (`eino_agent/toolcall_parse.go`), hints, the digest of a schema, and the parsing of YAML, paths,
  numbers and judge replies. They are functions from strings to strings or trees; the models
  take their results as data, the awkward ones included.
* `Clarifier.Ask`: the only concurrent thing in it, the goroutine that keeps reading when the
  context ends, needs a context that ends, and `cmd/agent` has none.
* HTTP clients of the models, their configuration and the counting of costs: external services, seen
  by the models as calls that answer or fail.
* The REPL and the flags of the commands: wiring of what is modelled.
* `history.go`, `abhistory.go` and `trend.go`: append a line to a file, read lines, render a table.
* `MarkUsed` and the upsert by id of `memory/store.go`: they have no caller. The text index of the memory is kept by
  triggers in the transaction of the item, so that no state exists in which they differ.

## 7. Plan

What is left to do, in this order.

1. A composition of `Suite` with the recorder's promise (`TrajectoryLog`) in place
   of its per-task trajectory variable.
2. For `Facets`, how many other tags it takes to outweigh a shape.
