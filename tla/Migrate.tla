------------------------------- MODULE Migrate ------------------------------
(***************************************************************************)
(* The schema of the trajectory database (trajectory/migrate.go): several  *)
(* programs may open the same file and call Migrate at once, and each may  *)
(* be killed at any point.                                                 *)
(*                                                                         *)
(* SQLite, as migrate.go uses it: a statement outside a transaction is a   *)
(* commit of its own; a transaction shows nothing before it commits; one   *)
(* connection writes at a time, and who waits too long for it fails; a     *)
(* transaction that has read cannot write any more once another connection *)
(* has committed.  Failing reads of the file are not modelled.             *)
(***************************************************************************)
EXTENDS Integers, Sequences, FiniteSets

CONSTANTS
  Programs,
  NoOne,
  MaxStarts,   \* starts in a behaviour
  MaxWrites    \* commits of programs past their Migrate

ASSUME NoOneAssumption == NoOne \notin Programs
ASSUME BoundAssumption == MaxStarts \in Nat /\ MaxWrites \in Nat

VARIABLES
  db,          \* what is committed: tables, added columns, schema_version
  commits,     \* number of commits
  writer,      \* the program inside a write transaction
  pc,          \* program -> where it is in Migrate
  next,        \* program -> the tables of schema.sql still to create
  probe,       \* program -> what its transaction has read: column, snapshot
  disturbed,   \* history: has another program run during its Migrate
  lost,        \* history: columns that its creator left out for good
  starts, writes

vars == <<db, commits, writer, pc, next, probe, disturbed, lost, starts, writes>>

-----------------------------------------------------------------------------
(* The tables of schema.sql, in order, and the columns that later versions *)
(* added to a table of the first one.                                      *)
Schema  == <<"trajectories", "trajectory_steps", "eval_results", "_meta">>
Column(table) ==
  CASE table = "trajectories"     -> {"task_class"}
    [] table = "trajectory_steps" -> {"role"}
    [] OTHER                      -> {}

Database == [tables : SUBSET {Schema[i] : i \in DOMAIN Schema},
             columns : SUBSET {"task_class", "role"},
             version : {"none", "1", "2", "3"}]

(* A version bump: the version it is for, the column it adds, the next.    *)
Bump(v) ==
  IF v = "1" THEN [column |-> "task_class", to |-> "2"]
             ELSE [column |-> "role", to |-> "3"]

(* What older and current programs have left: no database, one of each     *)
(* version, a version 1 whose column was added before the bump, and what a *)
(* program of version 1 or 2 has made that was killed before it wrote its  *)
(* version: some of its tables, without the later columns.                 *)
Old(tables, columns, version) ==
  [tables |-> tables, columns |-> columns, version |-> version]
Everything == {Schema[i] : i \in DOMAIN Schema}
OldSchema(v) == IF v = "1" THEN <<"trajectories", "trajectory_steps", "_meta">> ELSE Schema
HalfMade ==
  UNION {{Old({OldSchema(v)[i] : i \in 1..n}, IF v = "1" THEN {} ELSE {"task_class"}, "none") :
            n \in DOMAIN OldSchema(v)} : v \in {"1", "2"}}
Databases ==
  HalfMade \cup
  {Old({}, {}, "none"),
   Old(Everything \ {"eval_results"}, {}, "1"),
   Old(Everything, {"task_class"}, "1"),
   Old(Everything, {"task_class"}, "2"),
   Old(Everything, {"task_class", "role"}, "3")}

(* The columns that tables without a version lack.                         *)
Lacking(old) ==
  {c \in {"task_class", "role"} \ old.columns :
     old.version = "none" /\ \E t \in old.tables : c \in Column(t)}

Phases == {"off", "create", "read", "insert", "probe1", "lock1", "commit1",
           "probe2", "lock2", "commit2", "ok", "failed"}

TypeOK ==
  /\ db \in Database /\ commits \in Nat
  /\ writer \in Programs \cup {NoOne}
  /\ pc \in [Programs -> Phases]
  /\ \A p \in Programs : writer = p <=> pc[p] \in {"commit1", "commit2"}
  /\ next \in [Programs -> 1..(Len(Schema) + 1)]
  /\ probe \in [Programs -> [has : BOOLEAN, at : Nat]]
  /\ disturbed \in [Programs -> BOOLEAN] /\ lost \subseteq {"task_class", "role"}
  /\ starts \in 0..MaxStarts /\ writes \in 0..MaxWrites

Init ==
  /\ db \in Databases /\ lost = Lacking(db) /\ commits = 0 /\ writer = NoOne
  /\ pc = [p \in Programs |-> "off"]
  /\ next = [p \in Programs |-> 1]
  /\ probe = [p \in Programs |-> [has |-> FALSE, at |-> 0]]
  /\ disturbed = [p \in Programs |-> FALSE]
  /\ starts = 0 /\ writes = 0

-----------------------------------------------------------------------------
Running(p) == pc[p] # "off"
Goto(p, where) == pc' = [pc EXCEPT ![p] = where]
Commit(new) == db' = new /\ commits' = commits + 1
Free == writer = NoOne

Start(p) ==
  /\ ~Running(p) /\ starts < MaxStarts
  /\ Goto(p, "create")
  /\ next' = [next EXCEPT ![p] = 1]
  /\ disturbed' = [q \in Programs |->
       IF q = p THEN \E o \in Programs \ {p} : Running(o) ELSE disturbed[q] \/ Running(q)]
  /\ starts' = starts + 1
  /\ UNCHANGED <<db, commits, writer, probe, writes>>

(* Mutant: the lock outlives its program.                                  *)
MutRolledBack(p) == writer

RolledBack(p) == IF writer = p THEN NoOne ELSE writer

(* A program ends, by itself or killed; its transaction is rolled back.    *)
Exit(p) ==
  /\ Running(p)
  /\ Goto(p, "off")
  /\ writer' = RolledBack(p)
  /\ UNCHANGED <<db, commits, next, probe, disturbed, starts, writes>>

(* CREATE TABLE IF NOT EXISTS, one statement of schema.sql; a table of an  *)
(* older version is left as it is.                                         *)
CreateTable(p) ==
  LET table == Schema[next[p]] IN
  /\ pc[p] = "create" /\ next[p] <= Len(Schema)
  /\ next' = [next EXCEPT ![p] = @ + 1]
  /\ \/ table \in db.tables /\ UNCHANGED <<db, commits>>
     \/ /\ table \notin db.tables /\ Free
        /\ Commit([db EXCEPT !.tables = @ \cup {table}, !.columns = @ \cup Column(table)])
  /\ UNCHANGED <<writer, pc, probe, disturbed, starts, writes>>

Created(p) ==
  /\ pc[p] = "create" /\ next[p] > Len(Schema)
  /\ Goto(p, "read")
  /\ UNCHANGED <<db, commits, writer, next, probe, disturbed, starts, writes>>

(* Mutant: the current version is taken for the first.                     *)
MutRoute(version) == IF version = "none" THEN "insert" ELSE "probe1"

Route(version) ==
  CASE version = "none" -> "insert"
    [] version = "1"    -> "probe1"
    [] version = "2"    -> "probe2"
    [] version = "3"    -> "ok"

ReadVersion(p) ==
  /\ pc[p] = "read"
  /\ Goto(p, Route(db.version))
  /\ UNCHANGED <<db, commits, writer, next, probe, disturbed, starts, writes>>

(* The key is unique: another program may have inserted it by now.         *)
InsertVersion(p) ==
  /\ pc[p] = "insert" /\ Free
  /\ \/ /\ db.version = "none"
        /\ Commit([db EXCEPT !.version = "3"])
        /\ Goto(p, "ok")
     \/ /\ db.version # "none"
        /\ Goto(p, "failed")
        /\ UNCHANGED <<db, commits>>
  /\ UNCHANGED <<writer, next, probe, disturbed, starts, writes>>

Probe(p, v) ==
  probe' = [probe EXCEPT ![p] = [has |-> Bump(v).column \in db.columns, at |-> commits]]

(* hasColumn: on another connection than the transaction, which has thus   *)
(* read nothing yet.                                                       *)
ProbeV1(p) ==
  /\ pc[p] = "probe1"
  /\ Probe(p, "1") /\ Goto(p, "lock1")
  /\ UNCHANGED <<db, commits, writer, next, disturbed, starts, writes>>

(* Mutant: a column that is already there is not noticed.                  *)
MutAdds(p) == TRUE

(* ALTER TABLE, unless the column was there.                               *)
Adds(p) == ~probe[p].has

LockV1(p) ==
  /\ pc[p] = "lock1" /\ Free
  /\ \/ /\ ~(Adds(p) /\ "task_class" \in db.columns)
        /\ writer' = p /\ Goto(p, "commit1")
     \/ /\ Adds(p) /\ "task_class" \in db.columns
        /\ Goto(p, "failed") /\ UNCHANGED writer
  /\ UNCHANGED <<db, commits, next, probe, disturbed, starts, writes>>

(* Mutant: the first bump writes the newest version.                       *)
MutBumped(p, v) ==
  [db EXCEPT !.columns = @ \cup {c \in {Bump(v).column} : Adds(p)}, !.version = "3"]

(* The ALTER and the bump, committed together.                             *)
Bumped(p, v) ==
  [db EXCEPT !.columns = @ \cup {c \in {Bump(v).column} : Adds(p)}, !.version = Bump(v).to]

CommitV1(p) ==
  /\ pc[p] = "commit1"
  /\ Commit(Bumped(p, "1"))
  /\ writer' = NoOne /\ Goto(p, "probe2")
  /\ UNCHANGED <<next, probe, disturbed, starts, writes>>

(* txHasColumn: the transaction has read.                                  *)
ProbeV2(p) ==
  /\ pc[p] = "probe2"
  /\ Probe(p, "2") /\ Goto(p, "lock2")
  /\ UNCHANGED <<db, commits, writer, next, disturbed, starts, writes>>

LockV2(p) ==
  /\ pc[p] = "lock2" /\ Free
  /\ \/ /\ probe[p].at = commits
        /\ writer' = p /\ Goto(p, "commit2")
     \/ /\ probe[p].at # commits
        /\ Goto(p, "failed") /\ UNCHANGED writer
  /\ UNCHANGED <<db, commits, next, probe, disturbed, starts, writes>>

CommitV2(p) ==
  /\ pc[p] = "commit2"
  /\ Commit(Bumped(p, "2"))
  /\ writer' = NoOne /\ Goto(p, "ok")
  /\ UNCHANGED <<next, probe, disturbed, starts, writes>>

(* Another connection kept the write lock for too long.                    *)
Busy(p) ==
  /\ ~Free /\ writer # p
  /\ \/ pc[p] = "create" /\ next[p] <= Len(Schema) /\ Schema[next[p]] \notin db.tables
     \/ pc[p] \in {"insert", "lock1", "lock2"}
  /\ Goto(p, "failed")
  /\ UNCHANGED <<db, commits, writer, next, probe, disturbed, starts, writes>>

(* A program past its Migrate writes trajectories.                         *)
WriteRows(p) ==
  /\ pc[p] = "ok" /\ Free /\ writes < MaxWrites
  /\ Commit(db)
  /\ writes' = writes + 1
  /\ UNCHANGED <<writer, pc, next, probe, disturbed, starts>>

Next ==
  UNCHANGED lost /\ \E p \in Programs :
    \/ Start(p) \/ Exit(p)
    \/ CreateTable(p) \/ Created(p) \/ ReadVersion(p) \/ InsertVersion(p)
    \/ ProbeV1(p) \/ LockV1(p) \/ CommitV1(p)
    \/ ProbeV2(p) \/ LockV2(p) \/ CommitV2(p)
    \/ Busy(p) \/ WriteRows(p)

Spec == Init /\ [][Next]_vars

-----------------------------------------------------------------------------
(* Properties                                                              *)

(* The version tells the columns ("ALTER + bump" in one transaction,       *)
(* migrate.go:63): whatever programs meet and wherever they are killed,    *)
(* version 2 has task_class, version 3 both, and the database of a program *)
(* whose Migrate succeeded has every column and keeps it.  The exception   *)
(* is exact: Migrate takes tables without a version for new (migrate.go:44 *)
(* writes the newest version), so that what they lack is never added.      *)
VersionTruthful ==
  LET complete == {"task_class", "role"} \ lost IN
  /\ db.version \in {"1", "2"} => lost = {}
  /\ db.version = "2" => "task_class" \in db.columns
  /\ db.version = "3" => db.columns = complete /\ db.tables = Everything
  /\ \A p \in Programs :
       pc[p] = "ok" => db.columns = complete /\ db.version \in {"2", "3"}

(* A program that is alone migrates any database a kill may have left: an  *)
(* error is always the trace of another program.                           *)
AloneSucceeds == \A p \in Programs : pc[p] = "failed" => disturbed[p]

(* No commit takes a table or a column back, and none the version, except  *)
(* that of a program which had read version 1 before another one migrated. *)
Rank(version) == CASE version = "none" -> 0 [] version = "1" -> 1 [] version = "2" -> 2 [] OTHER -> 3
OnlyForward ==
  [][/\ db.columns \subseteq db'.columns /\ db.tables \subseteq db'.tables
     /\ Rank(db'.version) < Rank(db.version) =>
          \E p \in Programs : pc[p] = "commit1" /\ disturbed[p]]_vars

=============================================================================
