--------------------------------- MODULE Etl --------------------------------
(***************************************************************************)
(* How the analysis database is refreshed and who may read it.  A run of   *)
(* cmd/etl (lane "pg"), cmd/csv ("csv") or cmd/seed ("seed") replaces the  *)
(* state tables one by one, stamps data_as_of, replaces the derived        *)
(* currency table together with the schema version, and only then tells    *)
(* the health file; lane "pg" also keeps dated copies of the database.     *)
(* cmd/agent starts only if the health file is ready and the database has  *)
(* the version of the schema it parsed.                                    *)
(*                                                                         *)
(* A run may fail at every call, or be killed; the schema file may be      *)
(* edited at any time.  The content of a table is the run that wrote it    *)
(* and the schema version of its columns.                                  *)
(***************************************************************************)
EXTENDS Integers, Sequences

CONSTANTS
  Lanes,          \* the lanes to consider
  Loads,          \* lane -> the sequence of state tables it replaces
  Stamped,        \* versions of the schema with a last_seen column
  RowCounts,      \* row counts an extraction may return
  MinRows,        \* etl_policy.min_rows
  ReadyRows,      \* etl_policy.health_min_rows
  MaxStaleness,   \* in days
  RetentionDays,
  MaxRun, MaxVersion, MaxDay  \* bounds: runs, schema edits, the clock

(* State tables are the keys of a map, in sorted order.                    *)
ASSUME LoadsAssumption ==
  \A l \in Lanes :
    /\ Loads[l] \in Seq(STRING)
    /\ \A m, n \in DOMAIN Loads[l] : Loads[l][m] = Loads[l][n] => m = n

ASSUME BoundsAssumption ==
  /\ MaxRun \in Nat /\ MaxVersion \in Nat \ {0} /\ MaxDay \in Nat
  /\ RowCounts \subseteq Nat /\ Stamped \subseteq 1..MaxVersion
  /\ MinRows \in Int /\ ReadyRows \in Int /\ MaxStaleness \in Int /\ RetentionDays \in Nat

VARIABLES
  lane,      \* the lane of this installation
  clock,     \* the day
  schema,    \* the version in the schema file
  pc, k,     \* the run: where it is, and the table at hand
  run,       \* how many runs have started
  plan,      \* version in the plan of the run, from its first parse
  cols,      \* version of the columns extracted for table k
  rows,      \* rows extracted for the currency table
  outcome,   \* the status the run is about to tell
  day,       \* the day a copy is named after
  cutoff,    \* the oldest day RotateBackup keeps
  tables,    \* state table -> [run, ver]
  currency,  \* the derived table: [run, ver, rows]
  asOf,      \* the run that last stamped data_as_of
  health,    \* the health file
  backups,   \* day -> "none", "partial", "whole" or "mixed"
  agent,     \* cmd/agent: [pc, ver, run]
  last       \* history: how the last run ended

job == <<k, run, plan, cols, rows, outcome, day, cutoff>>
db  == <<tables, currency, asOf>>
vars == <<lane, clock, schema, pc, job, db, health, backups, agent, last>>

-----------------------------------------------------------------------------
Tables   == {Loads[lane][n] : n \in DOMAIN Loads[lane]}
Versions == 1..MaxVersion
Days     == 0..MaxDay
Runs     == 0..MaxRun

Absent == [run |-> 0, ver |-> 0]
NoFile == [status |-> "none", run |-> 0, rows |-> 0, at |-> 0]
Off    == [pc |-> "off", ver |-> 0, run |-> 0]

TypeOK ==
  /\ lane \in Lanes /\ clock \in Days /\ schema \in Versions
  /\ pc \in {"idle", "extract", "load", "stamp", "pivot", "loadcur",
             "tell", "telling", "copy", "opening", "copying", "rotate"}
  /\ k \in 1..(Len(Loads[lane]) + 1)
  /\ run \in Runs /\ plan \in 0..MaxVersion /\ cols \in 0..MaxVersion
  /\ rows \in RowCounts \cup {0}
  /\ outcome \in {"none", "OK", "FAILED"} /\ day \in Days /\ cutoff \in Int
  /\ tables \in [Tables -> [run : Runs, ver : 0..MaxVersion]]
  /\ currency \in [run : Runs, ver : 0..MaxVersion, rows : RowCounts \cup {0}]
  /\ asOf \in Runs
  /\ health \in [status : {"none", "torn", "OK", "FAILED"}, run : Runs,
                 rows : RowCounts \cup {0}, at : Days]
  /\ backups \in [Days -> {"none", "partial", "whole", "mixed"}]
  /\ agent \in [pc : {"off", "ready", "parsed", "admitted"}, ver : 0..MaxVersion, run : Runs]
  /\ last \in {"none", "ok", "early", "pivot", "untold", "killed"}

Init ==
  /\ lane \in Lanes /\ clock = 0 /\ schema = 1
  /\ pc = "idle" /\ k = 1 /\ run = 0 /\ plan = 0 /\ cols = 0 /\ rows = 0
  /\ outcome = "none" /\ day = 0 /\ cutoff = 0
  /\ tables = [t \in Tables |-> Absent]
  /\ currency = [run |-> 0, ver |-> 0, rows |-> 0] /\ asOf = 0
  /\ health = NoFile
  /\ backups = [d \in Days |-> "none"]
  /\ agent = Off
  /\ last = "none"

-----------------------------------------------------------------------------
(* The world: time passes, the schema file is edited *)

Midnight ==
  /\ clock < MaxDay /\ clock' = clock + 1
  /\ UNCHANGED <<lane, schema, pc, job, db, health, backups, agent, last>>

EditSchema ==
  /\ schema < MaxVersion /\ schema' = schema + 1
  /\ UNCHANGED <<lane, clock, pc, job, db, health, backups, agent, last>>

-----------------------------------------------------------------------------
(* A run, up to the derived table *)

(* The run parses the schema and makes its plan; what is wrong with the    *)
(* plan ends it before anything is written, and is no step here.           *)
Start ==
  /\ pc = "idle" /\ run < MaxRun
  /\ run' = run + 1
  /\ plan' = schema
  /\ k' = 1 /\ pc' = "extract"
  /\ cols' = 0 /\ rows' = 0 /\ outcome' = "none" /\ last' = "none"
  /\ UNCHANGED <<lane, clock, schema, day, cutoff, db, health, backups, agent>>

EndEarly == pc' = "idle" /\ last' = "early"

(* PullBasics reads the schema file anew for the columns of each table;    *)
(* the other lanes go by what they parsed at the start.                    *)
ColumnsOf == IF lane = "pg" THEN schema ELSE plan

(* Too few rows, where there is a gate, are one way to fail.               *)
ExtractFails ==
  /\ pc = "extract" /\ k <= Len(Loads[lane])
  /\ EndEarly
  /\ UNCHANGED <<lane, clock, schema, job, db, health, backups, agent>>

Extract ==
  /\ pc = "extract" /\ k <= Len(Loads[lane])
  /\ cols' = ColumnsOf
  /\ pc' = "load"
  /\ UNCHANGED <<lane, clock, schema, k, run, plan, rows, outcome, day, cutoff, db, health,
                 backups, agent, last>>

LoadFails ==
  /\ pc = "load"
  /\ EndEarly
  /\ UNCHANGED <<lane, clock, schema, job, db, health, backups, agent>>

(* Mutants: the loop forgets to go on, or goes on by two.                  *)
MutNextTable == k
MutSkipTable == k + 2

NextTable == k + 1

(* LoadBasics replaces the table in one transaction.                       *)
Load ==
  /\ pc = "load"
  /\ tables' = [tables EXCEPT ![Loads[lane][k]] = [run |-> run, ver |-> cols]]
  /\ k' = NextTable
  /\ pc' = "extract"
  /\ UNCHANGED <<lane, clock, schema, run, plan, cols, rows, outcome, day, cutoff, currency, asOf,
                 health, backups, agent, last>>

TablesDone ==
  /\ pc = "extract" /\ k > Len(Loads[lane])
  /\ pc' = "stamp"
  /\ UNCHANGED <<lane, clock, schema, job, db, health, backups, agent, last>>

StampFails ==
  /\ pc = "stamp"
  /\ EndEarly
  /\ UNCHANGED <<lane, clock, schema, job, db, health, backups, agent>>

(* data_as_of: lane "pg" writes it if the schema of the plan has a         *)
(* last_seen column, and leaves what is there otherwise (run.go:184);      *)
(* lanes "csv" and "seed" write only a positive one.                       *)
Stamp(written) ==
  /\ pc = "stamp"
  /\ lane = "pg" => (written <=> plan \in Stamped)
  /\ asOf' = IF written THEN run ELSE asOf
  /\ pc' = "pivot"
  /\ UNCHANGED <<lane, clock, schema, job, tables, currency, health, backups, agent, last>>

-----------------------------------------------------------------------------
(* The derived table *)

(* Mutant: the health file is left as it was.                              *)
MutTellsFailure == FALSE

(* Only lane "pg" tells the health file of a failed derived table.         *)
TellsFailure == lane = "pg"

PivotStageFails ==
  /\ \/ TellsFailure  /\ pc' = "tell" /\ outcome' = "FAILED" /\ last' = last
     \/ ~TellsFailure /\ pc' = "idle" /\ outcome' = outcome /\ last' = "pivot"
  /\ UNCHANGED <<lane, clock, schema, k, run, plan, cols, rows, day, cutoff, db, health, backups, agent>>

PivotFails == pc = "pivot" /\ PivotStageFails

(* ValidateRowCount; lane "csv" has counted its records, "seed" has no gate.*)
Enough(n) == lane = "pg" => n >= MinRows

Pivot(n) ==
  /\ pc = "pivot" /\ Enough(n)
  /\ rows' = n
  /\ pc' = "loadcur"
  /\ UNCHANGED <<lane, clock, schema, k, run, plan, cols, outcome, day, cutoff, db, health, backups,
                 agent, last>>

LoadCurrenciesFails == pc = "loadcur" /\ PivotStageFails

(* Mutant: the schema file is read again for the version to stamp.         *)
MutStampedVersion == schema

StampedVersion == plan

(* LoadCurrencies replaces the table and _meta.schema_version in one       *)
(* transaction.                                                            *)
LoadCurrencies ==
  /\ pc = "loadcur"
  /\ currency' = [run |-> run, ver |-> StampedVersion, rows |-> rows]
  /\ outcome' = "OK"
  /\ pc' = "tell"
  /\ UNCHANGED <<lane, clock, schema, k, run, plan, cols, rows, day, cutoff, tables, asOf, health,
                 backups, agent, last>>

-----------------------------------------------------------------------------
(* The health file: os.WriteFile truncates it, then writes it *)

(* It cannot be opened, and stays what it was.                             *)
TellNothing ==
  /\ pc = "tell"
  /\ pc' = "idle" /\ last' = "untold"
  /\ UNCHANGED <<lane, clock, schema, job, db, health, backups, agent>>

Truncate ==
  /\ pc = "tell"
  /\ health' = [NoFile EXCEPT !.status = "torn"]
  /\ pc' = "telling"
  /\ UNCHANGED <<lane, clock, schema, job, db, backups, agent, last>>

TellPart ==
  /\ pc = "telling"
  /\ pc' = "idle" /\ last' = "untold"
  /\ UNCHANGED <<lane, clock, schema, job, db, health, backups, agent>>

(* Mutant: a run that failed makes a copy as well.                         *)
MutMakesCopy == lane = "pg"

MakesCopy == lane = "pg" /\ outcome = "OK"

Ended == IF outcome = "OK" THEN "ok" ELSE "pivot"

(* Only a success tells its rows.                                          *)
Tell ==
  /\ pc = "telling"
  /\ health' = [status |-> outcome, run |-> run,
                rows |-> IF outcome = "OK" THEN rows ELSE 0, at |-> clock]
  /\ pc' = IF MakesCopy THEN "copy" ELSE "idle"
  /\ last' = Ended
  /\ UNCHANGED <<lane, clock, schema, job, db, backups, agent>>

-----------------------------------------------------------------------------
(* RotateBackup; its failure is logged and ends the run all the same *)

Together ==
  /\ plan \in Stamped => asOf = run
  /\ currency.run = run /\ \A t \in Tables : tables[t].run = run

CopyFails ==
  /\ pc \in {"opening", "copying"}
  /\ pc' = "idle"
  /\ UNCHANGED <<lane, clock, schema, job, db, health, backups, agent, last>>

(* The copy is named after the day; midnight may pass before it is opened. *)
NameCopy ==
  /\ pc = "copy"
  /\ day' = clock
  /\ pc' = "opening"
  /\ UNCHANGED <<lane, clock, schema, k, run, plan, cols, rows, outcome, cutoff, db, health,
                 backups, agent, last>>

(* A copy of that name is truncated before it is written again.            *)
CopyBegins ==
  /\ pc = "opening"
  /\ backups' = [backups EXCEPT ![day] = "partial"]
  /\ pc' = "copying"
  /\ UNCHANGED <<lane, clock, schema, job, db, health, agent, last>>

(* Mutant: the day of the limit counts as too old.                         *)
MutOldest == clock - RetentionDays + 1

(* The oldest day that is kept; the clock is read again after the copy.    *)
Oldest == clock - RetentionDays

CopyDone ==
  /\ pc = "copying"
  /\ backups' = [backups EXCEPT ![day] = IF Together THEN "whole" ELSE "mixed"]
  /\ cutoff' = Oldest
  /\ pc' = "rotate"
  /\ UNCHANGED <<lane, clock, schema, k, run, plan, cols, rows, outcome, day, db, health, agent, last>>

Expired == {d \in Days : backups[d] # "none" /\ d < cutoff /\ d # day}

Remove(d) ==
  /\ pc = "rotate" /\ d \in Expired
  /\ backups' = [backups EXCEPT ![d] = "none"]
  /\ UNCHANGED <<lane, clock, schema, pc, job, db, health, agent, last>>

(* No file is left to remove, or one cannot be removed.                    *)
RotateEnds ==
  /\ pc = "rotate"
  /\ pc' = "idle"
  /\ UNCHANGED <<lane, clock, schema, job, db, health, backups, agent, last>>

(* The process is killed: a transaction under way is rolled back, a file   *)
(* under way stays as it is.                                               *)
Killed ==
  /\ pc # "idle"
  /\ pc' = "idle"
  /\ last' = IF pc \in {"copy", "opening", "copying", "rotate"} THEN last ELSE "killed"
  /\ UNCHANGED <<lane, clock, schema, job, db, health, backups, agent>>

-----------------------------------------------------------------------------
(* cmd/agent starts *)

(* Mutant: the status alone decides.                                       *)
MutReady == health.status = "OK"

(* Health.Ready.                                                           *)
Ready ==
  /\ health.status = "OK"
  /\ health.rows >= ReadyRows
  /\ clock - health.at <= MaxStaleness

ReadHealth ==
  /\ agent.pc = "off" /\ Ready
  /\ agent' = [pc |-> "ready", ver |-> 0, run |-> health.run]
  /\ UNCHANGED <<lane, clock, schema, pc, job, db, health, backups, last>>

ParseSchema ==
  /\ agent.pc = "ready"
  /\ agent' = [agent EXCEPT !.pc = "parsed", !.ver = schema]
  /\ UNCHANGED <<lane, clock, schema, pc, job, db, health, backups, last>>

(* checkBizSchemaVersion; 0 stands for a missing row or table.             *)
VersionFits == currency.ver = agent.ver

Admit ==
  /\ agent.pc = "parsed" /\ VersionFits
  /\ agent' = [agent EXCEPT !.pc = "admitted"]
  /\ UNCHANGED <<lane, clock, schema, pc, job, db, health, backups, last>>

Refuse ==
  /\ agent.pc = "parsed" /\ ~VersionFits
  /\ agent' = Off
  /\ UNCHANGED <<lane, clock, schema, pc, job, db, health, backups, last>>

Leave ==
  /\ agent.pc = "admitted"
  /\ agent' = Off
  /\ UNCHANGED <<lane, clock, schema, pc, job, db, health, backups, last>>

-----------------------------------------------------------------------------
EtlStep ==
  \/ ExtractFails \/ Extract \/ LoadFails \/ Load \/ TablesDone
  \/ StampFails
  \/ \E written \in BOOLEAN : Stamp(written)
  \/ PivotFails
  \/ \E n \in RowCounts : Pivot(n)
  \/ LoadCurrenciesFails \/ LoadCurrencies
  \/ TellNothing \/ Truncate \/ TellPart \/ Tell
  \/ NameCopy \/ CopyFails \/ CopyBegins \/ CopyDone
  \/ \E d \in Days : Remove(d)
  \/ RotateEnds

AgentStep == ReadHealth \/ ParseSchema \/ Admit \/ Refuse \/ Leave

Next == Midnight \/ EditSchema \/ Start \/ EtlStep \/ Killed \/ AgentStep

Spec == Init /\ [][Next]_vars

(* A run is one goroutine and each of its calls returns, with a result or  *)
(* an error; nothing makes runs start, agents start or time pass.          *)
FairSpec == Spec /\ WF_vars(EtlStep)

-----------------------------------------------------------------------------
(* Properties                                                              *)

Admission == agent.pc = "parsed" /\ agent'.pc = "admitted"

(* What the gate of cmd/agent lets in: the currency table is the one the   *)
(* ready health file told about, with its rows, or that of a later run,    *)
(* which (lane "pg") passed the row gate as well.                          *)
GateTruth ==
  [][Admission =>
       /\ currency.run >= agent.run
       /\ currency.run = agent.run => currency.rows >= ReadyRows
       /\ lane = "pg" => currency.rows >= MinRows]_vars

(* An agent is never let into state tables older than the schema it works  *)
(* by, whenever the schema file was edited and wherever runs ended.        *)
NeverBehindSchema ==
  [][Admission => \A t \in Tables : tables[t].ver >= agent.ver]_vars

(* Once a run has failed in the stage of the derived table, and its health *)
(* could be written, the gate is closed (lane "pg", pull.go:86-110).       *)
FailureTold == lane = "pg" /\ pc = "idle" /\ last = "pivot" => ~Ready

(* A finished copy is never a mix: its state tables, its currencies and,   *)
(* where the schema has a last_seen column, its data_as_of are of one run. *)
BackupsWhole == \A d \in Days : backups[d] # "mixed"

(* RotateBackup never removes a copy that is at most RetentionDays old     *)
(* (backup.go: exactly seven days ago is kept), and a run that dies over   *)
(* its copy (backup.go:69) costs no whole copy but one of the same name.   *)
RecentBackupsKept ==
  [][\A d \in Days :
       /\ backups[d] # "none" /\ backups'[d] = "none" => clock - d > RetentionDays
       /\ backups[d] = "whole" /\ backups'[d] = "partial" => d = day]_vars

(* However runs end (run.go:170), a database is a mix in one direction     *)
(* only: no state table is older than a later one of the list, than        *)
(* data_as_of says, or than the currencies, nor data_as_of older than they *)
(* if they were written by a schema with a last_seen column.               *)
NeverAheadOfTables ==
  /\ \A m, n \in DOMAIN Loads[lane] :
       m < n => tables[Loads[lane][m]].run >= tables[Loads[lane][n]].run
  /\ \A t \in Tables : tables[t].run >= asOf /\ tables[t].run >= currency.run
  /\ lane = "pg" /\ currency.ver \in Stamped => asOf >= currency.run

(* A run ends.                                                             *)
RunEnds == pc # "idle" ~> pc = "idle"

=============================================================================
