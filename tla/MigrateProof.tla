---------------------------- MODULE MigrateProof ----------------------------
(***************************************************************************)
(* Proofs about Migrate, for any number of programs, starts and writes.    *)
(*                                                                         *)
(* What a program may rely on between its steps is little, because others  *)
(* may migrate under its eyes: tables and columns only grow, and a version *)
(* it has seen never goes back behind the one its next commit is for.      *)
(* PlaceInv says this per place in Migrate.  A program that has not        *)
(* been disturbed may rely on everything it has read (AloneInv).           *)
(***************************************************************************)
EXTENDS Migrate, TLAPS

(* The columns that a database without lost ones ends with.                *)
Complete == {"task_class", "role"} \ lost

(* What the version and the tables say of the columns.                     *)
VersionInv ==
  /\ db.version = "none" => \A t \in db.tables : Column(t) \subseteq db.columns \cup lost
  /\ \A c \in lost : c \notin db.columns /\ \E t \in db.tables : c \in Column(t)
  /\ db.version \in {"1", "2"} => lost = {}
  /\ db.version = "2" => "task_class" \in db.columns
  /\ db.version = "3" => db.columns = Complete /\ db.tables = Everything

(* Where a program is says which tables there are, and what the version    *)
(* and the columns have reached at least.                                  *)
PlaceInv(p) ==
  /\ pc[p] = "create" => \A i \in 1..(next[p] - 1) : Schema[i] \in db.tables
  /\ pc[p] \notin {"off", "create", "failed"} => db.tables = Everything
  /\ pc[p] \in {"probe1", "lock1", "commit1"} => db.version # "none"
  /\ pc[p] \in {"probe1", "lock1", "commit1", "probe2", "lock2", "commit2"} => lost = {}
  /\ pc[p] \in {"lock1", "commit1"} /\ probe[p].has => "task_class" \in db.columns
  /\ pc[p] \in {"probe2", "lock2", "commit2"} => db.version \in {"2", "3"}
  /\ pc[p] \in {"lock2", "commit2"} /\ probe[p].has => "role" \in db.columns
  /\ pc[p] = "ok" => db.version \in {"2", "3"} /\ db.columns = Complete

IndInv == TypeOK /\ VersionInv /\ \A p \in Programs : PlaceInv(p)

-----------------------------------------------------------------------------
(* The four tables of schema.sql, and the columns they have gained.        *)
LEMMA SchemaFacts ==
  /\ Len(Schema) = 4 /\ DOMAIN Schema = 1..4
  /\ \A i \in 1..4 : Schema[i] \in Everything
  /\ Everything = {"trajectories", "trajectory_steps", "eval_results", "_meta"}
  /\ Everything = {Schema[1], Schema[2], Schema[3], Schema[4]}
  /\ \A t \in Everything : Column(t) \subseteq {"task_class", "role"}
  /\ Column("trajectories") = {"task_class"} /\ Column("trajectory_steps") = {"role"}
<1>1. Len(Schema) = 4 /\ DOMAIN Schema = 1..4  BY DEF Schema
<1>2. /\ Schema[1] = "trajectories" /\ Schema[2] = "trajectory_steps"
      /\ Schema[3] = "eval_results" /\ Schema[4] = "_meta"
  BY DEF Schema
<1>3. Everything = {Schema[1], Schema[2], Schema[3], Schema[4]}
  BY <1>1 DEF Everything
<1>4. Column("trajectories") = {"task_class"} /\ Column("trajectory_steps") = {"role"}
      /\ Column("eval_results") = {} /\ Column("_meta") = {}
  BY DEF Column
<1> QED  BY <1>1, <1>2, <1>3, <1>4

(* The version a bump leads to and the column it adds.                     *)
LEMMA BumpFacts ==
  /\ Bump("1").column = "task_class" /\ Bump("1").to = "2"
  /\ Bump("2").column = "role" /\ Bump("2").to = "3"
BY DEF Bump

(* What a commit of an upgrade leaves.                                     *)
LEMMA BumpedFacts ==
  ASSUME db \in Database, NEW p \in Programs, NEW v \in {"1", "2"}
  PROVE  /\ Bumped(p, v) \in Database
         /\ Bumped(p, v).tables = db.tables
         /\ Bumped(p, v).version = Bump(v).to
         /\ db.columns \subseteq Bumped(p, v).columns
         /\ Bumped(p, v).columns \subseteq db.columns \cup {Bump(v).column}
         /\ Adds(p) => Bump(v).column \in Bumped(p, v).columns
<1>1. Bump(v).column \in {"task_class", "role"} /\ Bump(v).to \in {"1", "2", "3"}  BY BumpFacts
<1> QED  BY <1>1 DEF Bumped, Database

(* What older programs have left is well typed, and whole where it has a   *)
(* version.                                                                *)
LEMMA DatabasesFacts ==
  \A x \in Databases :
    /\ x \in Database
    /\ x.version \in {"2", "3"} => "task_class" \in x.columns
    /\ x.version = "3" => x.columns = {"task_class", "role"} /\ x.tables = Everything
<1>1. ASSUME NEW x \in HalfMade PROVE x \in Database /\ x.version = "none"
  <2>1. PICK v \in {"1", "2"} : \E n \in DOMAIN OldSchema(v) :
          x = Old({OldSchema(v)[i] : i \in 1..n}, IF v = "1" THEN {} ELSE {"task_class"}, "none")
    BY <1>1 DEF HalfMade
  <2>2. PICK n \in DOMAIN OldSchema(v) :
          x = Old({OldSchema(v)[i] : i \in 1..n}, IF v = "1" THEN {} ELSE {"task_class"}, "none")
    BY <2>1
  <2>3. /\ DOMAIN OldSchema(v) \subseteq 1..4
        /\ \A i \in DOMAIN OldSchema(v) : OldSchema(v)[i] \in Everything
        /\ \E m \in Nat : DOMAIN OldSchema(v) = 1..m
    <3>1. OldSchema("1") = <<"trajectories", "trajectory_steps", "_meta">>
      BY DEF OldSchema
    <3>2. OldSchema("2") = Schema  BY DEF OldSchema
    <3>3. CASE v = "1"
      <4> DEFINE tables == OldSchema(v)
      <4>1. tables = <<"trajectories", "trajectory_steps", "_meta">>  BY <3>1, <3>3
      <4>2. /\ DOMAIN tables = 1..3 /\ tables[1] = "trajectories"
            /\ tables[2] = "trajectory_steps" /\ tables[3] = "_meta"
        BY <4>1
      <4>3. \A i \in 1..3 : i = 1 \/ i = 2 \/ i = 3  OBVIOUS
      <4>4. {"trajectories", "trajectory_steps", "_meta"} \subseteq Everything  BY SchemaFacts
      <4> HIDE DEF tables
      <4>5. \A i \in 1..3 : tables[i] \in Everything  BY <4>2, <4>3, <4>4
      <4>6. 3 \in Nat /\ 1..3 \subseteq 1..4  OBVIOUS
      <4> QED  BY <4>2, <4>5, <4>6 DEF tables
    <3>4. CASE v = "2"
      <4>1. OldSchema(v) = Schema /\ 4 \in Nat  BY <3>2, <3>4
      <4> QED  BY <4>1, SchemaFacts
    <3> QED  BY <3>3, <3>4
  <2>4. n \in Nat /\ 1..n \subseteq DOMAIN OldSchema(v)  BY <2>3
  <2>5. {OldSchema(v)[i] : i \in 1..n} \subseteq Everything  BY <2>3, <2>4
  <2> QED  BY <2>2, <2>5 DEF Old, Database, Everything
<1>2. ASSUME NEW x \in Databases \ HalfMade
      PROVE  /\ x \in Database
             /\ x.version \in {"2", "3"} => "task_class" \in x.columns
             /\ x.version = "3" => x.columns = {"task_class", "role"} /\ x.tables = Everything
  BY <1>2, SchemaFacts DEF Databases, Old, Database, Everything
<1> QED  BY <1>1, <1>2

(* The invariant holds of what older programs have left.                   *)
LEMMA InitInv == Init => IndInv
<1> SUFFICES ASSUME Init PROVE IndInv  OBVIOUS
<1>1. db \in Database
  <2> QED  BY DatabasesFacts DEF Init
<1>2. lost = Lacking(db) /\ db \in Databases  BY DEF Init
<1>3. lost \subseteq {"task_class", "role"}  BY <1>2 DEF Lacking
<1>4. TypeOK
  BY <1>1, <1>3, NoOneAssumption, BoundAssumption, SchemaFacts DEF Init, TypeOK, Phases
<1>5. VersionInv
  <2>1. db.version # "none" => lost = {}  BY <1>2 DEF Lacking
  <2>2. db.version \in {"2", "3"} => "task_class" \in db.columns  BY <1>2, DatabasesFacts
  <2>3. db.version = "3" => db.columns = {"task_class", "role"} /\ db.tables = Everything
    BY <1>2, DatabasesFacts
  <2>4. db.version = "none" => \A t \in db.tables : Column(t) \subseteq db.columns \cup lost
    <3> SUFFICES ASSUME db.version = "none", NEW t \in db.tables, NEW c \in Column(t)
                 PROVE  c \in db.columns \cup lost
      OBVIOUS
    <3>1. c \in {"task_class", "role"}  BY <1>1, SchemaFacts DEF Database, Everything
    <3> QED  BY <1>2, <3>1 DEF Lacking
  <2>5. ASSUME NEW c \in lost PROVE c \notin db.columns /\ \E t \in db.tables : c \in Column(t)
    BY <1>2 DEF Lacking
  <2>6. db.version \in {"1", "2"} => lost = {}  BY <2>1
  <2>7. db.version = "2" => "task_class" \in db.columns  BY <2>2
  <2>8. db.version = "3" => db.columns = Complete  BY <2>1, <2>3 DEF Complete
  <2> QED  BY <2>3, <2>4, <2>5, <2>6, <2>7, <2>8 DEF VersionInv
<1>6. \A p \in Programs : PlaceInv(p)  BY DEF Init, PlaceInv
<1> QED  BY <1>4, <1>5, <1>6 DEF IndInv

-----------------------------------------------------------------------------
(* What every step keeps of the database.                                  *)
Forward ==
  /\ db' \in Database /\ lost' = lost
  /\ db.tables \subseteq db'.tables /\ db.columns \subseteq db'.columns
  /\ db.version # "none" => db'.version # "none"
  /\ db.version \in {"2", "3"} => db'.version \in {"2", "3"}

(* A program that does not move keeps what it relies on.                   *)
LEMMA OthersKeep ==
  ASSUME TypeOK, Forward, VersionInv', NEW q \in Programs, PlaceInv(q),
         pc'[q] = pc[q], next'[q] = next[q], probe'[q] = probe[q]
  PROVE  PlaceInv(q)'
<1>1. db.tables = Everything => db'.tables = Everything
  BY SchemaFacts DEF Forward, Database, Everything
<1>2. db.columns = Complete => db'.columns = Complete'
  BY DEF Forward, Database, VersionInv, Complete
<1> QED  BY <1>1, <1>2 DEF PlaceInv, Forward

(* A step that leaves the database alone.                                  *)
LEMMA SameDatabase ==
  ASSUME TypeOK, VersionInv, UNCHANGED <<db, lost>>
  PROVE  Forward /\ VersionInv'
BY DEF TypeOK, Forward, VersionInv, Complete

(* The four kinds of commits.                                              *)
LEMMA TableCreated ==
  ASSUME TypeOK, VersionInv, NEW p \in Programs, CreateTable(p), lost' = lost
  PROVE  Forward /\ VersionInv' /\ Schema[next[p]] \in db'.tables
<1> DEFINE t == Schema[next[p]]
<1>1. t \in Everything /\ Column(t) \subseteq {"task_class", "role"}
  BY SchemaFacts DEF CreateTable, TypeOK
<1>2. CASE UNCHANGED <<db, commits>> /\ t \in db.tables  BY <1>2, SameDatabase
<1>3. CASE /\ t \notin db.tables
           /\ db' = [db EXCEPT !.tables = @ \cup {t}, !.columns = @ \cup Column(t)]
  <2>1. /\ db'.tables = db.tables \cup {t} /\ db'.columns = db.columns \cup Column(t)
        /\ db'.version = db.version /\ db' \in Database
    BY <1>1, <1>3 DEF TypeOK, Database, Everything
  <2>2. db.version # "3"  BY <1>1, <1>3 DEF VersionInv
  <2>3. ASSUME NEW c \in lost PROVE c \notin Column(t)
    <3>1. PICK u \in db.tables : c \in Column(u)  BY DEF VersionInv
    <3>2. u \in Everything /\ u # t  BY <1>3 DEF TypeOK, Database, Everything
    <3> QED  BY <1>1, <3>1, <3>2 DEF Column
  <2> QED  BY <2>1, <2>2, <2>3 DEF Forward, VersionInv
<1> QED  BY <1>2, <1>3 DEF CreateTable, Commit

LEMMA VersionInserted ==
  ASSUME TypeOK, VersionInv, NEW p \in Programs, PlaceInv(p), InsertVersion(p),
         db.version = "none", lost' = lost
  PROVE  /\ Forward /\ VersionInv' /\ db'.version = "3"
         /\ db'.columns = Complete' /\ db'.tables = Everything
<1>1. db.tables = Everything  BY DEF InsertVersion, PlaceInv
<1>2. db' = [db EXCEPT !.version = "3"]  BY DEF InsertVersion, Commit
<1>3. /\ db'.tables = db.tables /\ db'.columns = db.columns /\ db'.version = "3"
      /\ db' \in Database
  BY <1>2 DEF TypeOK, Database
<1>4. db.columns = Complete
  <2>1. db.columns \subseteq {"task_class", "role"}  BY DEF TypeOK, Database
  <2>2. "trajectories" \in Everything /\ "trajectory_steps" \in Everything  BY SchemaFacts
  <2> QED  BY <1>1, <2>1, <2>2, SchemaFacts DEF VersionInv, Complete
<1> QED  BY <1>1, <1>3, <1>4 DEF Forward, VersionInv, Complete

LEMMA CommittedV1 ==
  ASSUME TypeOK, VersionInv, NEW p \in Programs, PlaceInv(p), CommitV1(p), lost' = lost
  PROVE  Forward /\ VersionInv' /\ db'.version = "2" /\ db'.tables = Everything
<1>1. db' = Bumped(p, "1") /\ db \in Database  BY DEF CommitV1, Commit, TypeOK
<1>2. /\ db' \in Database /\ db'.tables = db.tables /\ db'.version = "2"
      /\ db.columns \subseteq db'.columns /\ (Adds(p) => "task_class" \in db'.columns)
  BY <1>1, BumpedFacts, BumpFacts
<1>3. db.tables = Everything /\ (~Adds(p) => "task_class" \in db.columns)
  BY DEF CommitV1, PlaceInv, Adds
<1>4. lost = {}  BY DEF CommitV1, PlaceInv
<1> QED  BY <1>2, <1>3, <1>4 DEF Forward, VersionInv

LEMMA CommittedV2 ==
  ASSUME TypeOK, VersionInv, NEW p \in Programs, PlaceInv(p), CommitV2(p), lost' = lost
  PROVE  /\ Forward /\ VersionInv' /\ db'.version = "3"
         /\ db'.columns = Complete' /\ db'.tables = Everything
<1>1. db' = Bumped(p, "2") /\ db \in Database  BY DEF CommitV2, Commit, TypeOK
<1>2. /\ db' \in Database /\ db'.tables = db.tables /\ db'.version = "3"
      /\ db.columns \subseteq db'.columns /\ (Adds(p) => "role" \in db'.columns)
  BY <1>1, BumpedFacts, BumpFacts
<1>3. /\ db.tables = Everything /\ (~Adds(p) => "role" \in db.columns)
      /\ "task_class" \in db.columns /\ lost = {}
  BY DEF CommitV2, PlaceInv, Adds, VersionInv, Complete
<1>4. db'.columns = {"task_class", "role"}  BY <1>2, <1>3 DEF Database
<1> QED  BY <1>2, <1>3, <1>4 DEF Forward, VersionInv, Complete

-----------------------------------------------------------------------------
(* The steps of a program.                                                 *)
Step(p) ==
  \/ Start(p) \/ Exit(p)
  \/ CreateTable(p) \/ Created(p) \/ ReadVersion(p) \/ InsertVersion(p)
  \/ ProbeV1(p) \/ LockV1(p) \/ CommitV1(p)
  \/ ProbeV2(p) \/ LockV2(p) \/ CommitV2(p)
  \/ Busy(p) \/ WriteRows(p)

(* Every step goes forward, and keeps the version truthful.                *)
LEMMA StepForward ==
  ASSUME IndInv, NEW p \in Programs, Step(p), UNCHANGED lost
  PROVE  Forward /\ VersionInv'
<1>0. TypeOK /\ VersionInv /\ PlaceInv(p)  BY DEF IndInv
<1>1. CASE UNCHANGED db  BY <1>0, <1>1, SameDatabase
<1>2. CASE CreateTable(p)  BY <1>0, <1>2, TableCreated
<1>3. CASE InsertVersion(p)
  <2>1. CASE db.version = "none"  BY <1>0, <1>3, <2>1, VersionInserted
  <2>2. CASE db.version # "none"
    <3>1. UNCHANGED db  BY <1>3, <2>2 DEF InsertVersion
    <3> QED  BY <1>1, <3>1
  <2> QED  BY <2>1, <2>2
<1>4. CASE CommitV1(p)  BY <1>0, <1>4, CommittedV1
<1>5. CASE CommitV2(p)  BY <1>0, <1>5, CommittedV2
<1>6. CASE Start(p) \/ Exit(p) \/ Created(p) \/ ReadVersion(p) \/ Busy(p)
  BY <1>1, <1>6 DEF Start, Exit, Created, ReadVersion, Busy
<1>7. CASE ProbeV1(p) \/ LockV1(p) \/ ProbeV2(p) \/ LockV2(p)
  BY <1>1, <1>7 DEF ProbeV1, LockV1, ProbeV2, LockV2
<1>8. CASE WriteRows(p)  BY <1>1, <1>8 DEF WriteRows, Commit
<1> QED  BY <1>2, <1>3, <1>4, <1>5, <1>6, <1>7, <1>8 DEF Step

(* The version decides where Migrate goes on.                              *)
LEMMA RouteFacts ==
  ASSUME db \in Database
  PROVE  /\ Route(db.version) \in {"insert", "probe1", "probe2", "ok"}
         /\ Route(db.version) = "insert" <=> db.version = "none"
         /\ Route(db.version) = "probe1" <=> db.version = "1"
         /\ Route(db.version) = "probe2" <=> db.version = "2"
         /\ Route(db.version) = "ok" <=> db.version = "3"
<1>1. db.version \in {"none", "1", "2", "3"}  BY DEF Database
<1>2. /\ Route("none") = "insert" /\ Route("1") = "probe1"
      /\ Route("2") = "probe2" /\ Route("3") = "ok"
  BY DEF Route
<1> QED  BY <1>1, <1>2

(* A program that moves without the lock leaves the lock where it was.     *)
LEMMA MovesUnlocked ==
  ASSUME TypeOK, NEW p \in Programs, NEW to \in Phases \ {"commit1", "commit2"},
         pc[p] \notin {"commit1", "commit2"}, Goto(p, to), writer' = writer
  PROVE  /\ pc' \in [Programs -> Phases] /\ writer' \in Programs \cup {NoOne}
         /\ \A q \in Programs : writer' = q <=> pc'[q] \in {"commit1", "commit2"}
<1>1. pc' \in [Programs -> Phases]  BY DEF TypeOK, Goto
<1>2. \A q \in Programs : pc'[q] = IF q = p THEN to ELSE pc[q]  BY DEF TypeOK, Goto
<1> QED  BY <1>1, <1>2 DEF TypeOK

(* A step moves its program only, and stays in the types.                  *)
LEMMA StepTypes ==
  ASSUME IndInv, NEW p \in Programs, Step(p), UNCHANGED lost
  PROVE  TypeOK'
<1>0. TypeOK /\ db' \in Database  BY StepForward DEF IndInv, Forward
<1>1. Len(Schema) = 4  BY SchemaFacts
<1> USE <1>0, NoOneAssumption, BoundAssumption
<1>2. CASE Start(p)
  <2>1. \A q \in Programs :
          (IF q = p THEN \E o \in Programs \ {p} : Running(o)
                    ELSE disturbed[q] \/ Running(q)) \in BOOLEAN
    BY DEF TypeOK
  <2>2. disturbed' \in [Programs -> BOOLEAN]  BY <1>2, <2>1 DEF Start
  <2>3. /\ pc[p] = "off" /\ pc' = [pc EXCEPT ![p] = "create"]
        /\ next' = [next EXCEPT ![p] = 1] /\ starts < MaxStarts /\ starts' = starts + 1
        /\ UNCHANGED <<db, commits, writer, probe, writes>>
    BY <1>2 DEF Start, Running, Goto
  <2>4. /\ pc' \in [Programs -> Phases] /\ writer' \in Programs \cup {NoOne}
        /\ \A q \in Programs : writer' = q <=> pc'[q] \in {"commit1", "commit2"}
    BY <2>3, MovesUnlocked DEF Goto, Phases
  <2>5. next' \in [Programs -> 1..(Len(Schema) + 1)] /\ starts' \in 0..MaxStarts
    BY <1>1, <2>3 DEF TypeOK
  <2> QED  BY <2>2, <2>3, <2>4, <2>5 DEF TypeOK
<1>3. CASE Exit(p)  BY <1>1, <1>3 DEF TypeOK, Exit, Running, Goto, RolledBack, Phases
<1>4. CASE CreateTable(p)  BY <1>1, <1>4 DEF TypeOK, CreateTable, Commit
<1>5. CASE Created(p)
  <2>1. /\ UNCHANGED <<db, commits, writer, next, probe, writes, starts, disturbed>>
        /\ Goto(p, "read") /\ pc[p] = "create" /\ "read" \in Phases
    BY <1>5 DEF Created, Phases
  <2>2. /\ pc' \in [Programs -> Phases] /\ writer' \in Programs \cup {NoOne}
        /\ \A q \in Programs : writer' = q <=> pc'[q] \in {"commit1", "commit2"}
    BY <2>1, MovesUnlocked
  <2> QED  BY <2>1, <2>2 DEF TypeOK
<1>6. CASE ReadVersion(p)
  BY <1>1, <1>6, RouteFacts DEF TypeOK, ReadVersion, Goto, Phases
<1>7. CASE InsertVersion(p)  BY <1>1, <1>7 DEF TypeOK, InsertVersion, Commit, Goto, Phases
<1>8. CASE ProbeV1(p)
  <2>1. /\ UNCHANGED <<db, commits, writer, next, writes, starts, disturbed>>
        /\ Goto(p, "lock1") /\ pc[p] = "probe1" /\ "lock1" \in Phases
    BY <1>8 DEF ProbeV1, Phases
  <2>2. /\ pc' \in [Programs -> Phases] /\ writer' \in Programs \cup {NoOne}
        /\ \A q \in Programs : writer' = q <=> pc'[q] \in {"commit1", "commit2"}
    BY <2>1, MovesUnlocked
  <2>3. probe' \in [Programs -> [has : BOOLEAN, at : Nat]]  BY <1>8 DEF TypeOK, ProbeV1, Probe
  <2> QED  BY <2>1, <2>2, <2>3 DEF TypeOK
<1>9. CASE LockV1(p)  BY <1>1, <1>9 DEF TypeOK, LockV1, Free, Goto, Phases
<1>10. CASE CommitV1(p)  BY <1>1, <1>10 DEF TypeOK, CommitV1, Commit, Goto, Phases
<1>11. CASE ProbeV2(p)
  <2>1. /\ UNCHANGED <<db, commits, writer, next, writes, starts, disturbed>>
        /\ Goto(p, "lock2") /\ pc[p] = "probe2" /\ "lock2" \in Phases
    BY <1>11 DEF ProbeV2, Phases
  <2>2. /\ pc' \in [Programs -> Phases] /\ writer' \in Programs \cup {NoOne}
        /\ \A q \in Programs : writer' = q <=> pc'[q] \in {"commit1", "commit2"}
    BY <2>1, MovesUnlocked
  <2>3. probe' \in [Programs -> [has : BOOLEAN, at : Nat]]  BY <1>11 DEF TypeOK, ProbeV2, Probe
  <2> QED  BY <2>1, <2>2, <2>3 DEF TypeOK
<1>12. CASE LockV2(p)  BY <1>1, <1>12 DEF TypeOK, LockV2, Free, Goto, Phases
<1>13. CASE CommitV2(p)  BY <1>1, <1>13 DEF TypeOK, CommitV2, Commit, Goto, Phases
<1>14. CASE Busy(p)  BY <1>1, <1>14 DEF TypeOK, Busy, Goto, Phases
<1>15. CASE WriteRows(p)  BY <1>1, <1>15 DEF TypeOK, WriteRows, Commit
<1> QED  BY <1>2, <1>3, <1>4, <1>5, <1>6, <1>7, <1>8, <1>9, <1>10, <1>11, <1>12,
            <1>13, <1>14, <1>15 DEF Step

(* A step leaves its program where it may be: what it relies on there it   *)
(* has just read, or committed.                                            *)
LEMMA StepArrives ==
  ASSUME IndInv, NEW p \in Programs, Step(p), UNCHANGED lost
  PROVE  PlaceInv(p)'
<1>0. TypeOK /\ VersionInv /\ PlaceInv(p)  BY DEF IndInv
<1>a. /\ db \in Database /\ pc \in [Programs -> Phases]
      /\ next[p] \in 1..5 /\ probe \in [Programs -> [has : BOOLEAN, at : Nat]]
      /\ next \in [Programs -> 1..5]
  BY <1>0, SchemaFacts DEF TypeOK
<1> USE <1>a
<1>2. CASE Start(p)  BY <1>2 DEF PlaceInv, Start, Goto
<1>3. CASE Exit(p)  BY <1>3 DEF PlaceInv, Exit, Goto
<1>4. CASE CreateTable(p)
  <2>1. /\ next[p] <= 4 /\ next'[p] = next[p] + 1 /\ pc'[p] = "create"
        /\ \A i \in 1..(next[p] - 1) : Schema[i] \in db.tables
    BY <1>0, <1>4, SchemaFacts DEF CreateTable, PlaceInv
  <2>2. db.tables \subseteq db'.tables /\ Schema[next[p]] \in db'.tables
    BY <1>0, <1>4, TableCreated DEF Forward
  <2>3. \A i \in 1..(next'[p] - 1) : i \in 1..(next[p] - 1) \/ i = next[p]  BY <2>1
  <2> QED  BY <2>1, <2>2, <2>3 DEF PlaceInv
<1>5. CASE Created(p)
  <2>1. /\ next[p] = 5 /\ pc'[p] = "read" /\ UNCHANGED <<db, next, probe>>
        /\ \A i \in 1..4 : Schema[i] \in db.tables
    BY <1>0, <1>5, SchemaFacts DEF Created, Goto, PlaceInv
  <2>2. db.tables = Everything  BY <2>1, SchemaFacts DEF Database, Everything
  <2> QED  BY <2>1, <2>2 DEF PlaceInv
<1>6. CASE ReadVersion(p)
  <2>1. /\ pc[p] = "read" /\ pc'[p] = Route(db.version) /\ UNCHANGED <<db, probe>>
    BY <1>6 DEF ReadVersion, Goto
  <2> QED  BY <1>0, <2>1, RouteFacts DEF PlaceInv, VersionInv, Complete
<1>7. CASE InsertVersion(p)
  <2>1. CASE db.version = "none"
    <3>1. pc'[p] = "ok"  BY <1>7, <2>1 DEF InsertVersion, Goto
    <3> QED  BY <1>0, <1>7, <2>1, <3>1, VersionInserted DEF PlaceInv
  <2>2. CASE db.version # "none"  BY <1>7, <2>2 DEF InsertVersion, Goto, PlaceInv
  <2> QED  BY <2>1, <2>2
<1>8. CASE ProbeV1(p)
  <2>1. probe'[p].has = ("task_class" \in db.columns)  BY <1>8, BumpFacts DEF ProbeV1, Probe
  <2> QED  BY <1>0, <1>8, <2>1 DEF PlaceInv, ProbeV1, Goto
<1>9. CASE LockV1(p)  BY <1>0, <1>9 DEF PlaceInv, LockV1, Goto
<1>10. CASE CommitV1(p)
  <2>1. pc'[p] = "probe2"  BY <1>10 DEF CommitV1, Goto
  <2> QED  BY <1>0, <1>10, <2>1, CommittedV1 DEF PlaceInv, VersionInv
<1>11. CASE ProbeV2(p)
  <2>1. probe'[p].has = ("role" \in db.columns)  BY <1>11, BumpFacts DEF ProbeV2, Probe
  <2> QED  BY <1>0, <1>11, <2>1 DEF PlaceInv, ProbeV2, Goto
<1>12. CASE LockV2(p)  BY <1>0, <1>12 DEF PlaceInv, LockV2, Goto
<1>13. CASE CommitV2(p)
  <2>1. pc'[p] = "ok"  BY <1>13 DEF CommitV2, Goto
  <2> QED  BY <1>0, <1>13, <2>1, CommittedV2 DEF PlaceInv
<1>14. CASE Busy(p)  BY <1>14 DEF PlaceInv, Busy, Goto
<1>15. CASE WriteRows(p)  BY <1>0, <1>15 DEF PlaceInv, WriteRows, Commit, Complete
<1> QED  BY <1>2, <1>3, <1>4, <1>5, <1>6, <1>7, <1>8, <1>9, <1>10, <1>11, <1>12,
            <1>13, <1>14, <1>15 DEF Step

(* ... and moves no other program.                                         *)
LEMMA StepMovesOne ==
  ASSUME TypeOK, NEW p \in Programs, NEW q \in Programs \ {p}, Step(p)
  PROVE  pc'[q] = pc[q] /\ next'[q] = next[q] /\ probe'[q] = probe[q]
<1>1. CASE Start(p) \/ Exit(p)  BY <1>1 DEF Start, Exit, Goto, TypeOK
<1>2. CASE CreateTable(p) \/ Created(p) \/ ReadVersion(p) \/ InsertVersion(p)
  BY <1>2 DEF CreateTable, Created, ReadVersion, InsertVersion, Goto, TypeOK
<1>3. CASE ProbeV1(p) \/ LockV1(p) \/ CommitV1(p)
  BY <1>3 DEF ProbeV1, LockV1, CommitV1, Probe, Goto, TypeOK
<1>4. CASE ProbeV2(p) \/ LockV2(p) \/ CommitV2(p)
  BY <1>4 DEF ProbeV2, LockV2, CommitV2, Probe, Goto, TypeOK
<1>5. CASE Busy(p) \/ WriteRows(p)  BY <1>5 DEF Busy, WriteRows, Goto, TypeOK
<1> QED  BY <1>1, <1>2, <1>3, <1>4, <1>5 DEF Step

(* The invariant is inductive.                                             *)
LEMMA NextInv == IndInv /\ [Next]_vars => IndInv'
<1> SUFFICES ASSUME IndInv, [Next]_vars PROVE IndInv'  OBVIOUS
<1>1. CASE UNCHANGED vars  BY <1>1 DEF vars, IndInv, TypeOK, VersionInv, PlaceInv, Complete
<1>2. ASSUME NEW p \in Programs, Step(p), UNCHANGED lost PROVE IndInv'
  <2>1. TypeOK' /\ VersionInv' /\ PlaceInv(p)' /\ Forward
    BY <1>2, StepForward, StepTypes, StepArrives
  <2>2. ASSUME NEW q \in Programs \ {p} PROVE PlaceInv(q)'
    <3>1. TypeOK /\ PlaceInv(q)  BY DEF IndInv
    <3> QED  BY <1>2, <2>1, <3>1, StepMovesOne, OthersKeep
  <2> QED  BY <2>1, <2>2 DEF IndInv
<1> QED  BY <1>1, <1>2 DEF Next, Step

LEMMA SpecInv == Spec => []IndInv
BY InitInv, NextInv, PTL DEF Spec

(* Every reachable state is well typed; only the program that is inside a  *)
(* write transaction holds the write lock (TypeOK).                        *)
THEOREM TypeCorrect == Spec => []TypeOK
BY SpecInv, PTL DEF IndInv

(* However programs migrate at once and wherever they are killed, the      *)
(* version of the database tells its columns, and a program that has       *)
(* migrated finds all of them that were not lost before (VersionTruthful). *)
THEOREM VersionTold == Spec => []VersionTruthful
<1>1. IndInv => VersionTruthful  BY DEF IndInv, VersionInv, PlaceInv, VersionTruthful, Complete
<1> QED  BY SpecInv, <1>1, PTL

-----------------------------------------------------------------------------
(* A program nobody has run beside: it is the only one that runs, so all   *)
(* it has read is still so.                                                *)
AloneInv(p) ==
  Running(p) /\ ~disturbed[p] =>
    /\ \A q \in Programs \ {p} : ~Running(q)
    /\ pc[p] # "failed"
    /\ pc[p] = "insert" => db.version = "none"
    /\ pc[p] \in {"probe1", "lock1", "commit1"} => db.version = "1"
    /\ pc[p] = "lock1" => probe[p].has = ("task_class" \in db.columns)
    /\ pc[p] = "lock2" => probe[p].at = commits

AllAlone == \A p \in Programs : AloneInv(p)

(* A step of one disturbs every other that runs.                           *)
LEMMA OthersAlone ==
  ASSUME TypeOK, AllAlone, NEW p \in Programs, NEW q \in Programs \ {p}, Step(p)
  PROVE  AloneInv(q)'
<1>1. pc'[q] = pc[q]  BY StepMovesOne
<1>2. CASE Start(p)
  <2>1. disturbed'[q] = (disturbed[q] \/ Running(q))  BY <1>2 DEF Start
  <2> QED  BY <1>1, <2>1 DEF AloneInv, Running
<1>3. CASE ~Start(p)
  <2>1. UNCHANGED disturbed
    BY <1>3 DEF Step, Exit, CreateTable, Created, ReadVersion, InsertVersion, ProbeV1,
                LockV1, CommitV1, ProbeV2, LockV2, CommitV2, Busy, WriteRows
  <2>2. Running(p)
    BY <1>3 DEF Step, Exit, CreateTable, Created, ReadVersion, InsertVersion, ProbeV1,
                LockV1, CommitV1, ProbeV2, LockV2, CommitV2, Busy, WriteRows, Running
  <2>3. Running(q) => disturbed[q]  BY <2>2 DEF AllAlone, AloneInv
  <2> QED  BY <1>1, <2>1, <2>3 DEF AloneInv, Running
<1> QED  BY <1>2, <1>3

(* ... and what the program itself has just read is so.                    *)
LEMMA StepAlone ==
  ASSUME IndInv, AllAlone, NEW p \in Programs, Step(p)
  PROVE  AloneInv(p)'
<1>0. /\ TypeOK /\ PlaceInv(p) /\ AloneInv(p)
      /\ db \in Database /\ pc \in [Programs -> Phases]
      /\ probe \in [Programs -> [has : BOOLEAN, at : Nat]]
      /\ \A q \in Programs : writer = q => pc[q] \in {"commit1", "commit2"}
      /\ writer \in Programs \cup {NoOne}
  BY DEF IndInv, AllAlone, TypeOK
<1>1. \A q \in Programs \ {p} : pc'[q] = pc[q]  BY <1>0, StepMovesOne
<1>2. CASE Start(p)
  <2>1. disturbed'[p] = (\E o \in Programs \ {p} : Running(o)) /\ pc'[p] = "create"
    BY <1>0, <1>2 DEF Start, Goto, TypeOK
  <2> QED  BY <1>1, <2>1 DEF AloneInv, Running
<1>3. CASE Exit(p)  BY <1>0, <1>3 DEF AloneInv, Running, Exit, Goto
<1>4. ASSUME ~Start(p), ~Exit(p), ~disturbed'[p]
      PROVE  /\ \A q \in Programs \ {p} : pc'[q] = "off"
             /\ writer \in {p, NoOne} /\ ~disturbed[p] /\ Running(p)
  <2>1. UNCHANGED disturbed /\ Running(p)
    BY <1>4 DEF Step, CreateTable, Created, ReadVersion, InsertVersion, ProbeV1,
                LockV1, CommitV1, ProbeV2, LockV2, CommitV2, Busy, WriteRows, Running
  <2> QED  BY <1>0, <1>1, <1>4, <2>1 DEF AloneInv, Running
<1>5. SUFFICES ASSUME ~Start(p), ~Exit(p), ~disturbed'[p]
               PROVE  /\ pc'[p] # "failed"
                      /\ pc'[p] = "insert" => db'.version = "none"
                      /\ pc'[p] \in {"probe1", "lock1", "commit1"} => db'.version = "1"
                      /\ pc'[p] = "lock1" => probe'[p].has = ("task_class" \in db'.columns)
                      /\ pc'[p] = "lock2" => probe'[p].at = commits'
  BY <1>2, <1>3, <1>4 DEF AloneInv, Running
<1>6. writer \in {p, NoOne} /\ ~disturbed[p] /\ Running(p)  BY <1>4, <1>5
<1>7. /\ pc[p] = "insert" => db.version = "none"
      /\ pc[p] \in {"probe1", "lock1", "commit1"} => db.version = "1"
      /\ pc[p] = "lock1" => probe[p].has = ("task_class" \in db.columns)
      /\ pc[p] = "lock2" => probe[p].at = commits
      /\ pc[p] # "failed"
  BY <1>0, <1>6 DEF AloneInv
<1>8. CASE CreateTable(p)  BY <1>7, <1>8 DEF CreateTable
<1>9. CASE Created(p)  BY <1>0, <1>9 DEF Created, Goto
<1>10. CASE ReadVersion(p)
  <2>1. pc'[p] = Route(db.version) /\ UNCHANGED db  BY <1>0, <1>10 DEF ReadVersion, Goto
  <2> QED  BY <1>0, <2>1, RouteFacts
<1>11. CASE InsertVersion(p)  BY <1>0, <1>7, <1>11 DEF InsertVersion, Goto
<1>12. CASE ProbeV1(p)
  <2>1. probe'[p].has = ("task_class" \in db.columns)
    BY <1>0, <1>12, BumpFacts DEF ProbeV1, Probe
  <2> QED  BY <1>0, <1>7, <1>12, <2>1 DEF ProbeV1, Goto
<1>13. CASE LockV1(p)  BY <1>0, <1>7, <1>13 DEF LockV1, Goto, Adds
<1>14. CASE CommitV1(p)  BY <1>0, <1>14 DEF CommitV1, Goto
<1>15. CASE ProbeV2(p)  BY <1>0, <1>15 DEF ProbeV2, Probe, Goto
<1>16. CASE LockV2(p)  BY <1>0, <1>7, <1>16 DEF LockV2, Goto
<1>17. CASE CommitV2(p)  BY <1>0, <1>17 DEF CommitV2, Goto
<1>18. CASE Busy(p)  BY <1>6, <1>18 DEF Busy, Free
<1>19. CASE WriteRows(p)  BY <1>19 DEF WriteRows
<1> QED  BY <1>5, <1>8, <1>9, <1>10, <1>11, <1>12, <1>13, <1>14, <1>15, <1>16, <1>17,
            <1>18, <1>19 DEF Step

LEMMA SpecAlone == Spec => []AllAlone
<1>1. Init => AllAlone  BY DEF Init, AllAlone, AloneInv, Running
<1>2. AllAlone /\ UNCHANGED vars => AllAlone'  BY DEF vars, AllAlone, AloneInv, Running
<1>3. IndInv /\ AllAlone /\ [Next]_vars => AllAlone'
  <2> SUFFICES ASSUME IndInv, AllAlone, NEW p \in Programs, Step(p) PROVE AllAlone'
    BY <1>2 DEF Next, Step
  <2> QED  BY StepAlone, OthersAlone DEF AllAlone, IndInv
<1> QED  BY SpecInv, <1>1, <1>3, PTL DEF Spec

(* A program that was alone during its whole Migrate has not failed,       *)
(* whatever a kill had left in the file (AloneSucceeds).                   *)
THEOREM AloneMigrates == Spec => []AloneSucceeds
<1>1. AllAlone => AloneSucceeds  BY DEF AllAlone, AloneInv, AloneSucceeds, Running
<1> QED  BY SpecAlone, <1>1, PTL

(* Tables and columns are never lost, and the version only by the commit   *)
(* of a program that another one has overtaken (OnlyForward).              *)
THEOREM NeverBack == Spec => OnlyForward
<1> DEFINE Good ==
      /\ db.columns \subseteq db'.columns /\ db.tables \subseteq db'.tables
      /\ Rank(db'.version) < Rank(db.version) =>
           \E p \in Programs : pc[p] = "commit1" /\ disturbed[p]
<1>1. /\ Rank("none") = 0 /\ Rank("1") = 1 /\ Rank("2") = 2 /\ Rank("3") = 3
  BY DEF Rank
<1>2. ASSUME IndInv, AllAlone, NEW p \in Programs, Step(p), UNCHANGED lost PROVE Good
  <2>1. /\ db.columns \subseteq db'.columns /\ db.tables \subseteq db'.tables
        /\ db.version \in {"none", "1", "2", "3"} /\ db'.version \in {"none", "1", "2", "3"}
        /\ TypeOK /\ VersionInv /\ PlaceInv(p) /\ AloneInv(p)
    BY <1>2, StepForward DEF Forward, IndInv, TypeOK, Database, AllAlone
  <2>2. CASE CommitV1(p)
    <3>1. pc[p] = "commit1" /\ db'.version = "2"  BY <1>2, <2>1, <2>2, CommittedV1 DEF CommitV1
    <3>2. ~disturbed[p] => db.version = "1"  BY <2>1, <3>1 DEF AloneInv, Running
    <3> QED  BY <1>1, <2>1, <3>1, <3>2
  <2>3. CASE CommitV2(p)
    <3>1. db'.version = "3"  BY <1>2, <2>1, <2>3, CommittedV2
    <3> QED  BY <1>1, <2>1, <3>1
  <2>4. CASE InsertVersion(p)
    <3>1. db.version = "none" \/ UNCHANGED db  BY <2>4 DEF InsertVersion
    <3> QED  BY <1>1, <2>1, <3>1
  <2>5. CASE CreateTable(p)
    <3>1. db'.version = db.version
      BY <2>1, <2>5 DEF CreateTable, Commit, TypeOK, Database
    <3> QED  BY <1>1, <2>1, <3>1
  <2>6. CASE UNCHANGED db  BY <1>1, <2>1, <2>6
  <2>7. CASE Start(p) \/ Exit(p) \/ Created(p) \/ ReadVersion(p) \/ Busy(p) \/ WriteRows(p)
    BY <2>6, <2>7 DEF Start, Exit, Created, ReadVersion, Busy, WriteRows, Commit
  <2>8. CASE ProbeV1(p) \/ LockV1(p) \/ ProbeV2(p) \/ LockV2(p)
    BY <2>6, <2>8 DEF ProbeV1, LockV1, ProbeV2, LockV2
  <2> QED  BY <1>2, <2>2, <2>3, <2>4, <2>5, <2>7, <2>8 DEF Step
<1>3. IndInv /\ AllAlone /\ [Next]_vars => [Good]_vars  BY <1>2 DEF Next, Step
<1> QED  BY SpecInv, SpecAlone, <1>3, PTL DEF Spec, OnlyForward

=============================================================================
