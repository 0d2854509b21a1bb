------------------------------- MODULE Ingest -------------------------------
(***************************************************************************)
(* The memory learns from a pass of the evaluation harness: cmd/memory     *)
(* reads the trajectories and verdicts that Suite leaves in the database,  *)
(* at any time, also in the middle of the pass, and notes written by hand, *)
(* and upserts an item for each it takes (memory/ingest.go, store.go).     *)
(*                                                                         *)
(* A query reads one snapshot of the database, but every upsert commits by *)
(* itself, and the first that fails ends the command.  Neither the command *)
(* nor the pass sees what the other does meanwhile, so the pass is made to *)
(* wait.  The text index of the memory is kept by triggers, in the         *)
(* transaction of the item.                                                *)
(***************************************************************************)
EXTENDS Suite

CONSTANTS
  Notes,          \* files of notes: sequences of [source, complete]
  MaxIngests      \* bound: commands run

ASSUME IngestAssumption ==
  /\ MaxIngests \in Nat
  /\ Notes \subseteq Seq([source : STRING, complete : BOOLEAN])

VARIABLES
  outcomes,   \* trajectories.outcome per task
  memory,     \* source -> [id, task], or NoItem
  running,    \* whether a command is under way
  rows,       \* what it has still to take
  ids,        \* item ids made so far
  whole,      \* history: the command under way saw the pass at its end
  learnt,     \* history: a command that saw it so has succeeded
  ingests     \* commands started

ingestVars == <<outcomes, memory, running, rows, ids, whole, learnt, ingests>>
allVars == <<vars, ingestVars>>

NoItem == [id |-> 0, task |-> "none"]

(* What tells an item from another (adapter, source_type, source_id).      *)
EvalSource(t) == <<"eval", t>>
NoteSource(n) == <<"manual", n>>
EvalSources == {EvalSource(t) : t \in UNION {DOMAIN list : list \in TaskLists}}
NoteSources == UNION {{NoteSource(file[n].source) : n \in DOMAIN file} : file \in Notes}

IngestInit ==
  /\ Init
  /\ outcomes = [t \in DOMAIN tasks |-> "none"]
  /\ memory = [s \in EvalSources \cup NoteSources |-> NoItem]
  /\ running = FALSE /\ rows = <<>> /\ ids = 0 /\ whole = FALSE /\ learnt = FALSE /\ ingests = 0

-----------------------------------------------------------------------------
(* The pass: what Suite leaves open of an outcome                          *)
Opened(opened) ==
  /\ StartTask(opened)
  /\ outcomes' = [outcomes EXCEPT ![i] = IF opened THEN "in_progress" ELSE "none"]

(* Finalize writes how the run ended, or fails and leaves it in progress.  *)
Finalized ==
  /\ AgentRuns
  /\ \E outcome \in {"success", "error", "in_progress"} :
       outcomes' = [outcomes EXCEPT ![i] = IF traj[i] = "open" THEN outcome ELSE @]

PassStep ==
  /\ ~running
  /\ \/ (\E opened \in BOOLEAN : Opened(opened)) \/ Finalized
     \/ (SeedFails \/ Evaluation \/ Finish) /\ UNCHANGED outcomes
  /\ UNCHANGED <<memory, running, rows, ids, whole, learnt, ingests>>

-----------------------------------------------------------------------------
(* The command                                                             *)

(* Mutant: the verdict of any evaluator counts.                            *)
MutVerdicts(t) == {v \in verdicts : v.task = t}

(* best_eval: a verdict that passed before one that did not.               *)
Verdicts(t) == {v \in verdicts : v.task = t /\ v.name = "data_correctness"}

Passed(t) == \E v \in Verdicts(t) : v.score = "pass"

(* The rows of the query, in the order of creation (at equal seconds the   *)
(* order is SQLite's; nothing below depends on it).  A task without a      *)
(* trajectory, which has no row, stands here as one that is not taken.     *)
Trajectories ==
  [t \in DOMAIN tasks |->
     [source |-> EvalSource(t), task |-> tasks[t].id,
      taken  |-> outcomes[t] = "success" /\ Passed(t)]]

(* A note without an id, a question or a summary is skipped.               *)
NoteRows(file) ==
  [n \in DOMAIN file |-> [source |-> NoteSource(file[n].source), task |-> "none", taken |-> file[n].complete]]

Begin(toTake, sawEnd) ==
  /\ ~running /\ ingests < MaxIngests
  /\ running' = TRUE /\ rows' = toTake /\ whole' = sawEnd /\ ingests' = ingests + 1
  /\ UNCHANGED <<vars, outcomes, memory, ids, learnt>>

IngestTrajectoryDB == Begin(Trajectories, pc = "exited")
IngestManualNotes == \E file \in Notes : Begin(NoteRows(file), FALSE)

Taking == running /\ rows # <<>>

Skip ==
  /\ Taking /\ ~Head(rows).taken
  /\ rows' = Tail(rows)
  /\ UNCHANGED <<vars, outcomes, memory, running, ids, whole, learnt, ingests>>

(* Mutant: an item that is there is written anew, with an id of its own.   *)
MutItemID(source) == ids + 1

(* upsertBySource: ON CONFLICT the row stays, and its id with it.          *)
ItemID(source) == IF memory[source] = NoItem THEN ids + 1 ELSE memory[source].id

Upsert ==
  /\ Taking /\ Head(rows).taken
  /\ LET row == Head(rows) IN
     /\ memory' = [memory EXCEPT ![row.source] = [id |-> ItemID(row.source), task |-> row.task]]
     /\ ids' = IF ItemID(row.source) > ids THEN ItemID(row.source) ELSE ids
  /\ rows' = Tail(rows)
  /\ UNCHANGED <<vars, outcomes, running, whole, learnt, ingests>>

(* An item without a question is refused, a statement may fail, or the     *)
(* command is killed: what was upserted stays.                             *)
Abandon ==
  /\ Taking
  /\ running' = FALSE /\ rows' = <<>> /\ whole' = FALSE
  /\ UNCHANGED <<vars, outcomes, memory, ids, learnt, ingests>>

Finished ==
  /\ running /\ rows = <<>>
  /\ running' = FALSE /\ whole' = FALSE /\ learnt' = (learnt \/ whole)
  /\ UNCHANGED <<vars, outcomes, memory, rows, ids, ingests>>

CommandStep == IngestTrajectoryDB \/ IngestManualNotes \/ Skip \/ Upsert \/ Abandon \/ Finished

IngestNext ==
  \/ PassStep
  \/ CommandStep
  \/ Done /\ UNCHANGED ingestVars

(* The pass is one goroutine, and every call it makes returns; no command  *)
(* holds it up, here or there.                                             *)
IngestSpec == IngestInit /\ [][IngestNext]_allVars /\ WF_allVars(PassStep \/ CommandStep)

-----------------------------------------------------------------------------
(* Properties                                                              *)

(* Whatever the memory learnt from a trajectory was earned: the run ended  *)
(* with success and data_correctness passed it, as seen by the gate, even  *)
(* if the command read a pass half done (ingest.go:113); and once a        *)
(* command that saw the whole pass has ended well, every stored success    *)
(* with a stored verdict is there.                                         *)
Earned(t) ==
  /\ outcomes[t] = "success"
  /\ [task |-> t, name |-> "data_correctness", score |-> "pass"] \in evaluated
LearnsWhatWasEarned ==
  \A t \in DOMAIN tasks :
    LET item == memory[EvalSource(t)] IN
    /\ item # NoItem => Earned(t) /\ item.task = tasks[t].id
    /\ learnt /\ outcomes[t] = "success" /\ Passed(t) => item # NoItem

(* An item keeps its id and no two items share one, however often a source *)
(* is ingested, after whatever partial failure (store.go:73).              *)
ItemsStay ==
  [][\A s \in DOMAIN memory :
       /\ memory[s] # NoItem => memory'[s].id = memory[s].id
       /\ \A r \in DOMAIN memory \ {s} : memory'[s] # NoItem => memory'[r].id # memory'[s].id]_memory

=============================================================================
