------------------------------ MODULE EtlProof ------------------------------
(***************************************************************************)
(* Proofs about Etl, for any lists of tables, row counts, limits and       *)
(* bounds.                                                                 *)
(***************************************************************************)
EXTENDS Etl, TLAPS

Copying   == {"copy", "opening", "copying", "rotate"}
Unstamped == {"extract", "load", "stamp"}
Pivoting  == {"pivot", "loadcur"}
Telling   == {"tell", "telling"}

(* Where the run is, and what it is about to tell.                         *)
PlaceInv ==
  /\ pc = "load" => k <= Len(Loads[lane])
  /\ pc \notin {"idle", "extract", "load"} => k = Len(Loads[lane]) + 1
  /\ pc \in Telling => outcome # "none"
  /\ pc \in Copying => lane = "pg" /\ outcome = "OK"
  /\ pc # "idle" => last = IF pc \in Copying THEN "ok" ELSE "none"
  /\ pc = "idle" /\ lane = "pg" /\ last = "pivot" => health.status = "FAILED"

(* No part of the database is of a later run than the one before it, and   *)
(* what the run has replaced so far is its own.                            *)
RunInv ==
  /\ NeverAheadOfTables
  /\ \A t \in Tables : tables[t].run <= run
  /\ asOf <= run /\ currency.run <= run
  /\ pc # "idle" => \A n \in DOMAIN Loads[lane] : n < k => tables[Loads[lane][n]].run = run
  /\ lane = "pg" /\ plan \in Stamped /\ pc \in Pivoting \cup Telling \cup Copying => asOf = run
  /\ pc \in Unstamped \cup Pivoting => currency.run < run
  /\ pc \in Telling /\ outcome = "OK" => currency.run = run /\ currency.rows = rows
  /\ pc \in Copying => currency.run = run

(* The schema file only gets newer, and the state tables with it.          *)
VersionInv ==
  /\ plan <= schema /\ currency.ver <= plan
  /\ \A t \in Tables : tables[t].ver >= currency.ver
  /\ pc # "idle" => \A n \in DOMAIN Loads[lane] : n < k => tables[Loads[lane][n]].ver >= plan
  /\ pc = "load" => cols >= plan

(* The currencies are of run r, with n rows, or of a later run.            *)
OfRunOrLater(r, enough) == currency.run >= r /\ (currency.run = r => enough)

GateInv ==
  /\ lane = "pg" /\ currency.ver # 0 => currency.rows >= MinRows
  /\ lane = "pg" /\ pc = "loadcur" => rows >= MinRows
  /\ health.status = "OK" => OfRunOrLater(health.run, currency.rows = health.rows)
  /\ agent.pc # "off" => OfRunOrLater(agent.run, currency.rows >= ReadyRows)
  /\ agent.pc \in {"parsed", "admitted"} => agent.ver # 0

BackupInv ==
  /\ BackupsWhole
  /\ pc = "rotate" => cutoff + RetentionDays <= clock

IndInv == TypeOK /\ PlaceInv /\ RunInv /\ VersionInv /\ GateInv /\ BackupInv

-----------------------------------------------------------------------------
LEMMA LoadFacts ==
  ASSUME lane \in Lanes
  PROVE  /\ Len(Loads[lane]) \in Nat /\ DOMAIN Loads[lane] = 1..Len(Loads[lane])
         /\ \A n \in DOMAIN Loads[lane] : Loads[lane][n] \in Tables
         /\ \A t \in Tables : \E n \in DOMAIN Loads[lane] : t = Loads[lane][n]
         /\ \A m, n \in DOMAIN Loads[lane] : Loads[lane][m] = Loads[lane][n] => m = n
<1>1. Loads[lane] \in Seq(STRING)  BY LoadsAssumption
<1>2. Len(Loads[lane]) \in Nat /\ DOMAIN Loads[lane] = 1..Len(Loads[lane])
  BY <1>1
<1> QED  BY <1>2, LoadsAssumption DEF Tables

LEMMA InitInv == Init => IndInv
<1> SUFFICES ASSUME Init PROVE IndInv  OBVIOUS
<1> USE BoundsAssumption DEF Init, Absent, NoFile, Off
<1>0. Len(Loads[lane]) \in Nat /\ DOMAIN Loads[lane] = 1..Len(Loads[lane])
      /\ \A n \in DOMAIN Loads[lane] : Loads[lane][n] \in Tables
  BY LoadFacts
<1>1. TypeOK
  <2>1. tables \in [Tables -> [run : Runs, ver : 0..MaxVersion]]  BY DEF Runs
  <2>2. backups \in [Days -> {"none", "partial", "whole", "mixed"}]  OBVIOUS
  <2>3. lane \in Lanes /\ clock \in Days /\ schema \in Versions /\ k \in 1..(Len(Loads[lane]) + 1)
        /\ run \in Runs /\ asOf \in Runs
    BY <1>0 DEF Days, Versions, Runs
  <2>4. /\ currency \in [run : Runs, ver : 0..MaxVersion, rows : RowCounts \cup {0}]
        /\ health \in [status : {"none", "torn", "OK", "FAILED"}, run : Runs,
                       rows : RowCounts \cup {0}, at : Days]
        /\ agent \in [pc : {"off", "ready", "parsed", "admitted"}, ver : 0..MaxVersion, run : Runs]
    BY DEF Days, Runs
  <2> QED  BY <2>1, <2>2, <2>3, <2>4 DEF TypeOK, Days
<1>2. PlaceInv  BY DEF PlaceInv, Telling, Copying
<1>3. RunInv
  BY <1>0 DEF RunInv, NeverAheadOfTables, Unstamped, Pivoting, Telling, Copying
<1>4. VersionInv  BY DEF VersionInv
<1>5. GateInv  BY DEF GateInv
<1>6. BackupInv  BY DEF BackupInv, BackupsWhole
<1> QED  BY <1>1, <1>2, <1>3, <1>4, <1>5, <1>6 DEF IndInv

-----------------------------------------------------------------------------
(* The steps that write nothing but their place in the run, and those of   *)
(* the world and of the agent.                                             *)
Ends == ExtractFails \/ LoadFails \/ StampFails \/ TellNothing \/ TellPart \/ CopyFails
        \/ RotateEnds \/ Killed

LEMMA TypeStep == TypeOK /\ PlaceInv /\ [Next]_vars => TypeOK'
<1> SUFFICES ASSUME TypeOK, PlaceInv, [Next]_vars PROVE TypeOK'  OBVIOUS
<1> USE BoundsAssumption DEF TypeOK, Runs, Versions, Days, job, db
<1>0. Len(Loads[lane]) \in Nat /\ DOMAIN Loads[lane] = 1..Len(Loads[lane])
      /\ \A n \in DOMAIN Loads[lane] : Loads[lane][n] \in Tables
  BY LoadFacts
<1>1. ASSUME lane' = lane PROVE Tables' = Tables  BY <1>1 DEF Tables
<1>2. CASE UNCHANGED vars  BY <1>1, <1>2 DEF vars
<1>3. CASE Midnight \/ EditSchema
  <2>1. clock' \in Days
    <3>1. clock \in 0..MaxDay /\ MaxDay \in Int  OBVIOUS
    <3>2. clock' = clock \/ (clock' = clock + 1 /\ clock < MaxDay)
      BY <1>3 DEF Midnight, EditSchema
    <3> QED  BY ONLY <3>1, <3>2 DEF Days
  <2>3. schema' \in Versions
    <3>1. schema \in 1..MaxVersion /\ MaxVersion \in Int  OBVIOUS
    <3>2. schema' = schema \/ (schema' = schema + 1 /\ schema < MaxVersion)
      BY <1>3 DEF Midnight, EditSchema
    <3> QED  BY ONLY <3>1, <3>2 DEF Versions
  <2>2. UNCHANGED <<lane, pc, job, db, health, backups, agent, last>>
    BY <1>3 DEF Midnight, EditSchema
  <2> QED  BY <1>1, <2>1, <2>2, <2>3
<1>4. CASE Start  BY <1>0, <1>1, <1>4 DEF Start
<1>5. CASE Ends
  <2>1. /\ UNCHANGED <<lane, clock, schema, job, db, health, backups, agent>>
        /\ pc' = "idle" /\ last' \in {last, "early", "untold", "killed"}
    BY <1>5 DEF Ends, ExtractFails, LoadFails, StampFails, TellNothing, TellPart, CopyFails,
                RotateEnds, Killed, EndEarly
  <2> QED  BY <1>1, <2>1
<1>6. CASE Extract  BY <1>1, <1>6 DEF Extract, ColumnsOf
<1>7. CASE Load
  <2>1. k \in DOMAIN Loads[lane] /\ Loads[lane][k] \in Tables
    <3>1. k <= Len(Loads[lane])  BY <1>7 DEF Load, PlaceInv
    <3>2. k \in 1..(Len(Loads[lane]) + 1)  OBVIOUS
    <3> QED  BY ONLY <1>0, <3>1, <3>2
  <2>2. tables' \in [Tables -> [run : Runs, ver : 0..MaxVersion]]
    <3> DEFINE Writings == [run : Runs, ver : 0..MaxVersion]  new == [run |-> run, ver |-> cols]
    <3>1. tables \in [Tables -> Writings] /\ new \in Writings  OBVIOUS
    <3>2. tables' = [tables EXCEPT ![Loads[lane][k]] = new]  BY <1>7 DEF Load
    <3> HIDE DEF Writings, new
    <3>3. tables' \in [Tables -> Writings]  BY ONLY <2>1, <3>1, <3>2
    <3> QED  BY <3>3 DEF Writings
  <2>3. k' \in 1..(Len(Loads[lane]) + 1)
    <3>1. k \in 1..Len(Loads[lane])  BY <1>0, <2>1
    <3>2. k' = k + 1  BY <1>7 DEF Load, NextTable
    <3>3. Len(Loads[lane]) \in Nat  BY <1>0
    <3> QED  BY ONLY <3>1, <3>2, <3>3
  <2>4. /\ UNCHANGED <<lane, clock, schema, run, plan, cols, rows, outcome, day, cutoff, currency,
                        asOf, health, backups, agent, last>>
        /\ pc' = "extract"
    BY <1>7 DEF Load
  <2> QED  BY <1>1, <2>2, <2>3, <2>4
<1>8. CASE TablesDone  BY <1>1, <1>8 DEF TablesDone
<1>9. ASSUME NEW written \in BOOLEAN, Stamp(written) PROVE TypeOK'  BY <1>1, <1>9 DEF Stamp
<1>10. CASE PivotFails \/ LoadCurrenciesFails
  BY <1>1, <1>10 DEF PivotFails, LoadCurrenciesFails, PivotStageFails
<1>11. ASSUME NEW n \in RowCounts, Pivot(n) PROVE TypeOK'  BY <1>1, <1>11 DEF Pivot
<1>12. CASE LoadCurrencies  BY <1>1, <1>12 DEF LoadCurrencies, StampedVersion
<1>13. CASE Truncate
  <2>1. health' \in [status : {"none", "torn", "OK", "FAILED"}, run : Runs,
                     rows : RowCounts \cup {0}, at : Days]
    <3>1. 0 \in Days /\ 0 \in Runs  OBVIOUS
    <3>2. health' = [status |-> "torn", run |-> 0, rows |-> 0, at |-> 0]
      BY <1>13 DEF Truncate, NoFile
    <3> QED  BY ONLY <3>1, <3>2
  <2> QED  BY <1>1, <1>13, <2>1 DEF Truncate
<1>14. CASE Tell  BY <1>1, <1>14 DEF Tell, Ended, PlaceInv, Telling
<1>15. CASE NameCopy  BY <1>1, <1>15 DEF NameCopy
<1>16. CASE CopyBegins  BY <1>1, <1>16 DEF CopyBegins
<1>17. CASE CopyDone  BY <1>1, <1>17 DEF CopyDone, Oldest
<1>18. ASSUME NEW d \in Days, Remove(d) PROVE TypeOK'  BY <1>1, <1>18 DEF Remove
<1>19. CASE ReadHealth  BY <1>1, <1>19 DEF ReadHealth
<1>20. CASE ParseSchema \/ Admit \/ Refuse \/ Leave
  <2>1. agent' \in [pc : {"off", "ready", "parsed", "admitted"}, ver : 0..MaxVersion, run : Runs]
    <3> DEFINE Vs == 0..MaxVersion
    <3> DEFINE Agents(R) == [pc : {"off", "ready", "parsed", "admitted"}, ver : Vs, run : R]
    <3>1. agent \in Agents(Runs) /\ schema \in Vs /\ 0 \in Vs /\ 0 \in Runs  OBVIOUS
    <3> HIDE DEF Runs, Vs
    <3>2. ASSUME ParseSchema PROVE agent' \in Agents(Runs)  BY ONLY <3>1, <3>2 DEF ParseSchema
    <3>3. ASSUME Admit PROVE agent' \in Agents(Runs)  BY ONLY <3>1, <3>3 DEF Admit
    <3>4. ASSUME Refuse \/ Leave PROVE agent' \in Agents(Runs)
      BY ONLY <3>1, <3>4 DEF Refuse, Leave, Off
    <3>5. agent' \in Agents(Runs)  BY ONLY <1>20, <3>2, <3>3, <3>4
    <3> QED  BY <3>5 DEF Vs
  <2>2. UNCHANGED <<lane, clock, schema, pc, job, db, health, backups, last>>
    BY <1>20 DEF ParseSchema, Admit, Refuse, Leave
  <2> QED  BY <1>1, <2>1, <2>2
<1> QED
  BY <1>2, <1>3, <1>4, <1>5, <1>6, <1>7, <1>8, <1>9, <1>10, <1>11, <1>12, <1>13, <1>14, <1>15,
     <1>16, <1>17, <1>18, <1>19, <1>20 DEF Next, EtlStep, AgentStep, Ends

LEMMA PlaceStep == TypeOK /\ PlaceInv /\ [Next]_vars => PlaceInv'
<1> SUFFICES ASSUME TypeOK, PlaceInv, [Next]_vars PROVE PlaceInv'  OBVIOUS
<1> USE DEF PlaceInv, job, Telling, Copying
<1>0. Len(Loads[lane]) \in Nat /\ k \in 1..(Len(Loads[lane]) + 1)  BY LoadFacts DEF TypeOK
<1>1. CASE UNCHANGED vars  BY <1>1 DEF vars
<1>2. CASE Midnight \/ EditSchema  BY <1>2 DEF Midnight, EditSchema
<1>3. CASE AgentStep  BY <1>3 DEF AgentStep, ReadHealth, ParseSchema, Admit, Refuse, Leave
<1>4. CASE Start  BY <1>4 DEF Start
<1>5. CASE Ends
  BY <1>5 DEF Ends, ExtractFails, LoadFails, StampFails, TellNothing, TellPart, CopyFails,
              RotateEnds, Killed, EndEarly
<1>6. CASE Extract  BY <1>0, <1>6 DEF Extract
<1>7. CASE Load  BY <1>7 DEF Load
<1>8. CASE TablesDone  BY <1>0, <1>8 DEF TablesDone
<1>9. ASSUME NEW written \in BOOLEAN, Stamp(written) PROVE PlaceInv'  BY <1>9 DEF Stamp
<1>10. CASE PivotFails \/ LoadCurrenciesFails
  BY <1>10 DEF PivotFails, LoadCurrenciesFails, PivotStageFails, TellsFailure
<1>11. ASSUME NEW n \in RowCounts, Pivot(n) PROVE PlaceInv'  BY <1>11 DEF Pivot
<1>12. CASE LoadCurrencies  BY <1>12 DEF LoadCurrencies
<1>13. CASE Truncate  BY <1>13 DEF Truncate
<1>14. CASE Tell
  <2>1. outcome \in {"OK", "FAILED"} /\ health'.status = outcome  BY <1>14 DEF Tell, TypeOK
  <2> QED  BY <1>14, <2>1 DEF Tell, Ended, MakesCopy
<1>15. CASE NameCopy  BY <1>15 DEF NameCopy
<1>16. CASE CopyBegins  BY <1>16 DEF CopyBegins
<1>17. CASE CopyDone  BY <1>17 DEF CopyDone
<1>18. ASSUME NEW d \in Days, Remove(d) PROVE PlaceInv'  BY <1>18 DEF Remove
<1> QED
  BY <1>1, <1>2, <1>3, <1>4, <1>5, <1>6, <1>7, <1>8, <1>9, <1>10, <1>11, <1>12, <1>13, <1>14, <1>15,
     <1>16, <1>17, <1>18 DEF Next, EtlStep, Ends

-----------------------------------------------------------------------------
(* The steps that neither begin a run nor write the database.              *)
Aside == UNCHANGED vars \/ Midnight \/ EditSchema \/ AgentStep

OnlyPlace ==
  \/ TablesDone \/ PivotFails \/ LoadCurrenciesFails \/ Truncate \/ Tell
  \/ NameCopy \/ CopyBegins \/ CopyDone \/ \E d \in Days : Remove(d)

LEMMA StepCases ==
  ASSUME [Next]_vars
  PROVE  \/ Aside \/ OnlyPlace \/ Ends \/ Start \/ Extract \/ Load \/ LoadCurrencies
         \/ \E written \in BOOLEAN : Stamp(written)
         \/ \E n \in RowCounts : Pivot(n)
BY DEF Next, EtlStep, Aside, OnlyPlace, Ends

LEMMA AsideFrame ==
  ASSUME Aside
  PROVE  /\ UNCHANGED <<lane, pc, job, db, health, backups, last>>
         /\ Tables' = Tables
BY DEF Aside, vars, Midnight, EditSchema, AgentStep, ReadHealth, ParseSchema, Admit, Refuse, Leave, Tables

LEMMA OnlyPlaceFrame ==
  ASSUME OnlyPlace
  PROVE  /\ UNCHANGED <<lane, schema, k, run, plan, cols, rows, db, agent>>
         /\ Tables' = Tables /\ pc # "idle"
         /\ \/ pc = "extract" /\ pc' = "stamp"
            \/ pc \in Pivoting /\ pc' \in {"idle", "tell"} /\ outcome' # "OK"
            \/ pc \in Pivoting /\ pc' = "idle" /\ outcome' = outcome
            \/ pc = "tell" /\ pc' = "telling" /\ outcome' = outcome
            \/ pc = "telling" /\ pc' \in {"idle", "copy"} /\ (pc' = "copy" => outcome = "OK")
            \/ pc \in Copying /\ pc' \in Copying
BY DEF OnlyPlace, TablesDone, PivotFails, LoadCurrenciesFails, PivotStageFails, Truncate, Tell, MakesCopy,
       NameCopy, CopyBegins, CopyDone, Remove, job, db, Tables, Pivoting, Copying

LEMMA EndsFrame ==
  ASSUME Ends
  PROVE  /\ UNCHANGED <<lane, clock, schema, job, db, health, backups, agent>>
         /\ Tables' = Tables /\ pc # "idle" /\ pc' = "idle"
BY DEF Ends, ExtractFails, LoadFails, StampFails, TellNothing, TellPart, CopyFails, RotateEnds, Killed,
       EndEarly, Tables

(* What the types say of the numbers.                                      *)
LEMMA TypeFacts ==
  ASSUME TypeOK
  PROVE  /\ run \in Nat /\ asOf \in Nat /\ currency.run \in Nat /\ k \in Nat
         /\ currency.ver \in Nat /\ plan \in Nat /\ schema \in Nat \ {0} /\ cols \in Nat
         /\ \A t \in Tables : tables[t].run \in Nat /\ tables[t].ver \in Nat
         /\ health.run \in Nat /\ agent.run \in Nat /\ agent.ver \in Nat
         /\ rows \in Nat /\ currency.rows \in Nat /\ clock \in Nat /\ cutoff \in Int
<1> USE BoundsAssumption
<1>1. /\ \A r \in Runs : r \in Nat
      /\ \A v \in 0..MaxVersion : v \in Nat
      /\ \A n \in RowCounts \cup {0} : n \in Nat
  BY DEF Runs
<1>2. /\ run \in Nat /\ asOf \in Nat /\ plan \in Nat /\ schema \in Nat \ {0} /\ cols \in Nat
      /\ rows \in Nat /\ clock \in Nat /\ cutoff \in Int
  BY <1>1 DEF TypeOK, Versions, Days
<1>3. k \in Nat  BY LoadFacts DEF TypeOK
<1>4. /\ currency.run \in Nat /\ currency.ver \in Nat /\ currency.rows \in Nat
      /\ health.run \in Nat /\ agent.run \in Nat /\ agent.ver \in Nat
  BY <1>1 DEF TypeOK
<1>5. \A t \in Tables : tables[t].run \in Nat /\ tables[t].ver \in Nat
  <2> SUFFICES ASSUME NEW t \in Tables PROVE tables[t].run \in Nat /\ tables[t].ver \in Nat
    OBVIOUS
  <2>1. tables[t] \in [run : Runs, ver : 0..MaxVersion]  BY DEF TypeOK
  <2> QED  BY <1>1, <2>1
<1> QED  BY <1>2, <1>3, <1>4, <1>5

LEMMA RunStep == TypeOK /\ TypeOK' /\ PlaceInv /\ RunInv /\ [Next]_vars => RunInv'
<1> SUFFICES ASSUME TypeOK, TypeOK', PlaceInv, RunInv, [Next]_vars PROVE RunInv'  OBVIOUS
<1> USE DEF RunInv, NeverAheadOfTables, job, db, Unstamped, Pivoting, Telling, Copying
<1>0. /\ Len(Loads[lane]) \in Nat /\ DOMAIN Loads[lane] = 1..Len(Loads[lane])
      /\ \A n \in DOMAIN Loads[lane] : Loads[lane][n] \in Tables
      /\ \A t \in Tables : \E n \in DOMAIN Loads[lane] : t = Loads[lane][n]
      /\ \A m, n \in DOMAIN Loads[lane] : Loads[lane][m] = Loads[lane][n] => m = n
  BY LoadFacts DEF TypeOK
<1>1. CASE Aside  BY <1>1, AsideFrame
<1>2. CASE OnlyPlace  BY <1>2, OnlyPlaceFrame
<1>3. CASE Ends  BY <1>3, EndsFrame
<1>4. CASE Start
  <2>1. /\ UNCHANGED <<lane, tables, currency, asOf>> /\ Tables' = Tables
        /\ pc = "idle" /\ pc' = "extract" /\ k' = 1 /\ run' = run + 1
    BY <1>4 DEF Start, Tables
  <2>2. \A t \in Tables : tables[t].run <= run'  BY <2>1, TypeFacts
  <2>3. asOf <= run' /\ currency.run < run' /\ currency.run <= run'  BY <2>1, TypeFacts
  <2>4. \A n \in DOMAIN Loads[lane] : ~(n < 1)  BY <1>0
  <2> QED  BY <2>1, <2>2, <2>3, <2>4
<1>5. CASE Extract  BY <1>5 DEF Extract, Tables
<1>6. CASE Load
  <2>1. k \in DOMAIN Loads[lane]  BY <1>0, <1>6, TypeFacts DEF Load, PlaceInv, TypeOK
  <2>2. /\ UNCHANGED <<lane, run, currency, asOf>> /\ Tables' = Tables
        /\ pc = "load" /\ pc' = "extract" /\ k' = k + 1
    BY <1>6 DEF Load, NextTable, Tables
  <2>3. \A t \in Tables :
          tables'[t].run = IF t = Loads[lane][k] THEN run ELSE tables[t].run
    BY <1>6 DEF Load, TypeOK
  <2>4. \A n \in DOMAIN Loads[lane] :
          /\ n <= k => tables'[Loads[lane][n]].run = run
          /\ n > k => tables'[Loads[lane][n]].run = tables[Loads[lane][n]].run
          /\ tables[Loads[lane][n]].run <= run /\ tables[Loads[lane][n]].run \in Nat
    <3> SUFFICES ASSUME NEW n \in DOMAIN Loads[lane]
                 PROVE  /\ n <= k => tables'[Loads[lane][n]].run = run
                        /\ n > k => tables'[Loads[lane][n]].run = tables[Loads[lane][n]].run
                        /\ tables[Loads[lane][n]].run <= run /\ tables[Loads[lane][n]].run \in Nat
      OBVIOUS
    <3>1. n \in Nat /\ k \in Nat /\ Loads[lane][n] \in Tables  BY <1>0, <2>1
    <3>2. n < k => tables[Loads[lane][n]].run = run  BY <2>2
    <3>3. n # k => Loads[lane][n] # Loads[lane][k]  BY <1>0, <2>1
    <3>4. tables[Loads[lane][n]].run <= run /\ tables[Loads[lane][n]].run \in Nat  BY <3>1, TypeFacts
    <3> QED  BY <2>3, <3>1, <3>2, <3>3, <3>4
  <2>5. \A t \in Tables : tables'[t].run \in {run, tables[t].run}  BY <2>3
  <2>6. \A m, n \in DOMAIN Loads[lane] :
          m < n => tables'[Loads[lane][m]].run >= tables'[Loads[lane][n]].run
    <3> SUFFICES ASSUME NEW m \in DOMAIN Loads[lane], NEW n \in DOMAIN Loads[lane], m < n
                 PROVE  tables'[Loads[lane][m]].run >= tables'[Loads[lane][n]].run
      OBVIOUS
    <3>1. m \in Nat /\ n \in Nat /\ k \in Nat /\ run \in Nat  BY <1>0, <2>1, TypeFacts
    <3>2. tables[Loads[lane][m]].run >= tables[Loads[lane][n]].run  OBVIOUS
    <3>3. CASE m <= k  BY <2>4, <3>1, <3>3
    <3>4. CASE m > k  BY <2>4, <3>1, <3>2, <3>4
    <3> QED  BY <3>1, <3>3, <3>4
  <2>7. \A t \in Tables :
          tables'[t].run <= run /\ tables'[t].run >= asOf /\ tables'[t].run >= currency.run
    BY <2>5, TypeFacts
  <2>8. \A n \in DOMAIN Loads[lane] : n < k + 1 => tables'[Loads[lane][n]].run = run
    BY <1>0, <2>1, <2>4
  <2> QED  BY <2>2, <2>6, <2>7, <2>8
<1>7. ASSUME NEW written \in BOOLEAN, Stamp(written) PROVE RunInv'
  <2>1. \A t \in Tables : tables[t].run = run
    BY <1>0, <1>7 DEF Stamp, PlaceInv
  <2>2. /\ UNCHANGED <<lane, tables, currency, run, k, plan>> /\ Tables' = Tables
        /\ asOf' \in {asOf, run} /\ (lane = "pg" /\ plan \in Stamped => asOf' = run)
        /\ pc = "stamp" /\ pc' = "pivot"
    BY <1>7 DEF Stamp, Tables
  <2>3. asOf' <= run /\ \A t \in Tables : tables[t].run >= asOf'  BY <2>1, <2>2, TypeFacts
  <2>4. lane = "pg" /\ currency.ver \in Stamped => asOf' >= currency.run  BY <2>2, TypeFacts
  <2> QED  BY <2>2, <2>3, <2>4
<1>8. ASSUME NEW n \in RowCounts, Pivot(n) PROVE RunInv'  BY <1>8 DEF Pivot, Tables
<1>9. CASE LoadCurrencies
  <2>1. \A t \in Tables : tables[t].run = run
    BY <1>0, <1>9 DEF LoadCurrencies, PlaceInv
  <2>2. /\ UNCHANGED <<lane, tables, asOf, run, k, rows, plan>> /\ Tables' = Tables
        /\ currency'.run = run /\ currency'.rows = rows /\ currency'.ver = plan
        /\ pc = "loadcur" /\ pc' = "tell"
    BY <1>9 DEF LoadCurrencies, StampedVersion, Tables
  <2>3. \A t \in Tables : tables[t].run >= currency'.run  BY <2>1, <2>2, TypeFacts
  <2>4. currency'.run <= run /\ (lane = "pg" /\ currency'.ver \in Stamped => asOf >= currency'.run)
    BY <2>2, TypeFacts
  <2> QED  BY <2>2, <2>3, <2>4
<1> QED  BY <1>1, <1>2, <1>3, <1>4, <1>5, <1>6, <1>7, <1>8, <1>9, StepCases

LEMMA AsideSchema == ASSUME TypeOK, Aside PROVE schema' >= schema
<1>1. schema \in Nat  BY TypeFacts
<1> QED
  BY <1>1 DEF Aside, vars, Midnight, EditSchema, AgentStep, ReadHealth, ParseSchema, Admit, Refuse, Leave

LEMMA VersionStep == TypeOK /\ TypeOK' /\ PlaceInv /\ VersionInv /\ [Next]_vars => VersionInv'
<1> SUFFICES ASSUME TypeOK, TypeOK', PlaceInv, VersionInv, [Next]_vars PROVE VersionInv'  OBVIOUS
<1> USE DEF VersionInv, job, db
<1>0. /\ Len(Loads[lane]) \in Nat /\ DOMAIN Loads[lane] = 1..Len(Loads[lane])
      /\ \A n \in DOMAIN Loads[lane] : Loads[lane][n] \in Tables
      /\ \A t \in Tables : \E n \in DOMAIN Loads[lane] : t = Loads[lane][n]
  BY LoadFacts DEF TypeOK
<1>1. CASE Aside
  <2>1. schema' \in Nat  BY BoundsAssumption DEF TypeOK, Versions
  <2> QED  BY <1>1, <2>1, AsideFrame, AsideSchema, TypeFacts
<1>2. CASE OnlyPlace  BY <1>2, OnlyPlaceFrame DEF Pivoting, Copying
<1>3. CASE Ends  BY <1>3, EndsFrame
<1>4. CASE Start
  <2>1. /\ UNCHANGED <<lane, schema, tables, currency>> /\ Tables' = Tables
        /\ pc' = "extract" /\ k' = 1 /\ plan' = schema
    BY <1>4 DEF Start, Tables
  <2>2. currency.ver <= plan' /\ plan' <= schema  BY <2>1, TypeFacts
  <2>3. \A n \in DOMAIN Loads[lane] : ~(n < 1)  BY <1>0
  <2> QED  BY <2>1, <2>2, <2>3
<1>5. CASE Extract
  <2>1. cols' >= plan  BY <1>5, TypeFacts DEF Extract, ColumnsOf
  <2> QED  BY <1>5, <2>1 DEF Extract, Tables
<1>6. CASE Load
  <2>1. k \in DOMAIN Loads[lane]  BY <1>0, <1>6, TypeFacts DEF Load, PlaceInv, TypeOK
  <2>2. /\ UNCHANGED <<lane, schema, plan, currency>> /\ Tables' = Tables
        /\ pc = "load" /\ pc' = "extract" /\ k' = k + 1
    BY <1>6 DEF Load, NextTable, Tables
  <2>3. \A t \in Tables :
          tables'[t].ver = IF t = Loads[lane][k] THEN cols ELSE tables[t].ver
    BY <1>6 DEF Load, TypeOK
  <2>4. cols >= plan /\ cols >= currency.ver  BY <2>2, TypeFacts
  <2>5. \A t \in Tables : tables'[t].ver >= currency.ver  BY <2>3, <2>4
  <2>6. ASSUME NEW n \in DOMAIN Loads[lane], n < k + 1 PROVE tables'[Loads[lane][n]].ver >= plan
    <3>1. n < k \/ n = k  BY <1>0, <2>1, <2>6
    <3>2. Loads[lane][n] \in Tables  BY <1>0
    <3> QED  BY <2>2, <2>3, <2>4, <3>1, <3>2
  <2> QED  BY <2>2, <2>5, <2>6
<1>7. ASSUME NEW written \in BOOLEAN, Stamp(written) PROVE VersionInv'  BY <1>7 DEF Stamp, Tables
<1>8. ASSUME NEW n \in RowCounts, Pivot(n) PROVE VersionInv'  BY <1>8 DEF Pivot, Tables
<1>9. CASE LoadCurrencies
  <2>1. \A t \in Tables : tables[t].ver >= plan  BY <1>0, <1>9 DEF LoadCurrencies, PlaceInv
  <2>2. /\ UNCHANGED <<lane, schema, plan, tables, k>> /\ Tables' = Tables
        /\ currency'.ver = plan /\ pc = "loadcur" /\ pc' = "tell"
    BY <1>9 DEF LoadCurrencies, StampedVersion, Tables
  <2>3. plan <= plan  BY TypeFacts
  <2> QED  BY <2>1, <2>2, <2>3
<1> QED  BY <1>1, <1>2, <1>3, <1>4, <1>5, <1>6, <1>7, <1>8, <1>9, StepCases

-----------------------------------------------------------------------------
LEMMA GateStep == TypeOK /\ RunInv /\ PlaceInv /\ GateInv /\ [Next]_vars => GateInv'
<1> SUFFICES ASSUME TypeOK, RunInv, PlaceInv, GateInv, [Next]_vars PROVE GateInv'  OBVIOUS
<1> USE DEF GateInv, OfRunOrLater, job, db
<1>1. CASE UNCHANGED vars  BY <1>1 DEF vars
<1>2. CASE Midnight \/ EditSchema  BY <1>2 DEF Midnight, EditSchema
<1>3. CASE ReadHealth  BY <1>3 DEF ReadHealth, Ready
<1>4. CASE ParseSchema
  <2>1. agent'.ver = schema /\ agent'.run = agent.run /\ schema # 0
    BY <1>4, TypeFacts DEF ParseSchema, TypeOK
  <2> QED  BY <1>4, <2>1 DEF ParseSchema
<1>5. CASE Admit \/ Refuse \/ Leave
  <2>1. (agent'.run = agent.run /\ agent'.ver = agent.ver) \/ agent'.pc = "off"
    BY <1>5 DEF Admit, Refuse, Leave, Off, TypeOK
  <2> QED  BY <1>5, <2>1 DEF Admit, Refuse, Leave
<1>6. CASE Start \/ Ends \/ Extract \/ Load
  BY <1>6, EndsFrame DEF Start, Extract, Load
<1>7. ASSUME NEW written \in BOOLEAN, Stamp(written) PROVE GateInv'  BY <1>7 DEF Stamp
<1>8. ASSUME NEW n \in RowCounts, Pivot(n) PROVE GateInv'  BY <1>8 DEF Pivot, Enough
<1>9. CASE LoadCurrencies
  <2>1. /\ UNCHANGED <<lane, health, agent>> /\ pc = "loadcur" /\ pc' = "tell"
        /\ currency'.run = run /\ currency'.rows = rows
    BY <1>9 DEF LoadCurrencies
  <2>2. currency.run < run  BY <2>1 DEF RunInv, Unstamped, Pivoting
  <2>3. health.status = "OK" => run > health.run  BY <2>2, TypeFacts
  <2>4. agent.pc # "off" => run > agent.run  BY <2>2, TypeFacts
  <2> QED  BY <2>1, <2>3, <2>4, TypeFacts
<1>10. CASE Truncate  BY <1>10 DEF Truncate, NoFile
<1>11. CASE Tell
  <2>1. /\ UNCHANGED <<lane, currency, agent>> /\ pc = "telling" /\ pc' # "loadcur"
        /\ health'.status = outcome /\ health'.run = run
        /\ (outcome = "OK" => health'.rows = rows)
    BY <1>11 DEF Tell, MakesCopy
  <2>2. outcome = "OK" => currency.run = run /\ currency.rows = rows  BY <2>1 DEF RunInv, Telling
  <2> QED  BY <2>1, <2>2, TypeFacts
<1>12. CASE TablesDone \/ PivotFails \/ LoadCurrenciesFails \/ NameCopy \/ CopyBegins \/ CopyDone
  BY <1>12 DEF TablesDone, PivotFails, LoadCurrenciesFails, PivotStageFails, NameCopy, CopyBegins, CopyDone
<1>13. ASSUME NEW d \in Days, Remove(d) PROVE GateInv'  BY <1>13 DEF Remove
<1> QED
  BY <1>1, <1>2, <1>3, <1>4, <1>5, <1>6, <1>7, <1>8, <1>9, <1>10, <1>11, <1>12, <1>13
     DEF Next, EtlStep, AgentStep, Ends

LEMMA BackupStep == TypeOK /\ PlaceInv /\ RunInv /\ BackupInv /\ [Next]_vars => BackupInv'
<1> SUFFICES ASSUME TypeOK, PlaceInv, RunInv, BackupInv, [Next]_vars PROVE BackupInv'  OBVIOUS
<1> USE DEF BackupInv, BackupsWhole, job
<1>1. CASE Aside
  <2>1. clock' >= clock /\ clock' \in Nat /\ clock \in Nat /\ cutoff \in Int
    <3>1. clock \in Nat /\ cutoff \in Int  BY TypeFacts
    <3> QED
      BY <1>1, <3>1 DEF Aside, vars, Midnight, EditSchema, AgentStep, ReadHealth, ParseSchema, Admit, Refuse, Leave
  <2>2. UNCHANGED <<backups, pc, cutoff>>  BY <1>1, AsideFrame
  <2>3. RetentionDays \in Nat  BY BoundsAssumption
  <2>4. pc = "rotate" => cutoff + RetentionDays <= clock'  BY <2>1, <2>3
  <2> QED  BY <2>2, <2>4
<1>2. CASE Ends  BY <1>2, EndsFrame
<1>3. CASE CopyBegins  BY <1>3 DEF CopyBegins, TypeOK
<1>4. CASE CopyDone
  <2>1. /\ Len(Loads[lane]) \in Nat /\ DOMAIN Loads[lane] = 1..Len(Loads[lane])
        /\ \A t \in Tables : \E n \in DOMAIN Loads[lane] : t = Loads[lane][n]
    BY LoadFacts DEF TypeOK
  <2>2. pc = "copying" /\ pc \in Copying  BY <1>4 DEF CopyDone, Copying
  <2>3. \A t \in Tables : tables[t].run = run  BY <2>1, <2>2 DEF PlaceInv, RunInv
  <2>4. Together  BY <2>2, <2>3 DEF Together, PlaceInv, RunInv
  <2>5. cutoff' = clock - RetentionDays /\ clock' = clock  BY <1>4 DEF CopyDone, Oldest
  <2>6. cutoff' + RetentionDays <= clock  BY <2>5, TypeFacts, BoundsAssumption
  <2> QED  BY <1>4, <2>4, <2>5, <2>6 DEF CopyDone, TypeOK
<1>5. ASSUME NEW d \in Days, Remove(d) PROVE BackupInv'  BY <1>5 DEF Remove, TypeOK
<1>6. CASE \/ Start \/ Extract \/ Load \/ TablesDone \/ PivotFails \/ LoadCurrenciesFails
           \/ LoadCurrencies \/ Truncate \/ Tell \/ NameCopy
           \/ \E written \in BOOLEAN : Stamp(written)
           \/ \E n \in RowCounts : Pivot(n)
  BY <1>6 DEF Start, Extract, Load, TablesDone, PivotFails, LoadCurrenciesFails, PivotStageFails,
              LoadCurrencies, Truncate, Tell, MakesCopy, NameCopy, Stamp, Pivot
<1> QED  BY <1>1, <1>2, <1>3, <1>4, <1>5, <1>6, StepCases DEF OnlyPlace

-----------------------------------------------------------------------------
(* What is true of the step that admits an agent.                          *)
LEMMA AdmissionFits == ASSUME [Next]_vars, Admission PROVE currency.ver = agent.ver
<1>1. Admit
  BY AsideFrame, EndsFrame, StepCases, OnlyPlaceFrame
     DEF Admission, Aside, vars, Midnight, EditSchema, AgentStep, ReadHealth, ParseSchema, Refuse, Leave, Off,
         Start, Extract, Load, LoadCurrencies, Stamp, Pivot
<1> QED  BY <1>1 DEF Admit, VersionFits

LEMMA Invariance == Spec => []IndInv
<1>1. IndInv /\ [Next]_vars => IndInv'
  BY TypeStep, PlaceStep, RunStep, VersionStep, GateStep, BackupStep DEF IndInv
<1> QED  BY InitInv, <1>1, PTL DEF Spec

(* Every reachable state of the refresh and of the gate is well typed.     *)
THEOREM TypeCorrect == Spec => []TypeOK
BY Invariance, PTL DEF IndInv

(* However runs fail or are killed, the database is a mix in one direction *)
(* only: no part of it is of a later run than the one written before it.   *)
THEOREM MixedOneWay == Spec => []NeverAheadOfTables
BY Invariance, PTL DEF IndInv, RunInv

(* A finished copy of the database is of one run.                          *)
THEOREM BackupsCorrect == Spec => []BackupsWhole
BY Invariance, PTL DEF IndInv, BackupInv

(* A failure in the derived table that could be told keeps agents out.     *)
THEOREM FailureCorrect == Spec => []FailureTold
<1>1. IndInv => FailureTold  BY DEF IndInv, PlaceInv, FailureTold, Ready
<1> QED  BY Invariance, <1>1, PTL

(* An agent is let in on the currencies that the health file it read told  *)
(* of, or on later ones that passed the row gate.                          *)
THEOREM GateCorrect == Spec => GateTruth
<1>1. IndInv /\ [Next]_vars =>
        [Admission =>
           /\ currency.run >= agent.run
           /\ currency.run = agent.run => currency.rows >= ReadyRows
           /\ lane = "pg" => currency.rows >= MinRows]_vars
  <2> SUFFICES ASSUME IndInv, Admission, [Next]_vars, ~UNCHANGED vars
               PROVE  /\ currency.run >= agent.run
                      /\ currency.run = agent.run => currency.rows >= ReadyRows
                      /\ lane = "pg" => currency.rows >= MinRows
    OBVIOUS
  <2>1. agent.pc = "parsed" /\ agent.ver # 0 /\ OfRunOrLater(agent.run, currency.rows >= ReadyRows)
    BY DEF Admission, IndInv, GateInv
  <2>2. currency.ver = agent.ver  BY AdmissionFits
  <2> QED  BY <2>1, <2>2 DEF IndInv, GateInv, OfRunOrLater
<1> QED  BY Invariance, <1>1, PTL DEF Spec, GateTruth

(* An agent is never let into state tables older than its schema.          *)
THEOREM SchemaCorrect == Spec => NeverBehindSchema
<1>1. IndInv /\ [Next]_vars =>
        [Admission => \A t \in Tables : tables[t].ver >= agent.ver]_vars
  <2> SUFFICES ASSUME IndInv, Admission, [Next]_vars, ~UNCHANGED vars
               PROVE  \A t \in Tables : tables[t].ver >= agent.ver
    OBVIOUS
  <2>1. currency.ver = agent.ver  BY AdmissionFits
  <2> QED  BY <2>1 DEF IndInv, VersionInv
<1> QED  BY Invariance, <1>1, PTL DEF Spec, NeverBehindSchema

(* No copy of the last RetentionDays days is removed, and a run that dies  *)
(* over its copy costs none of another name.                               *)
THEOREM RetentionCorrect == Spec => RecentBackupsKept
<1>1. IndInv /\ [Next]_vars =>
        [\A d \in Days :
           /\ backups[d] # "none" /\ backups'[d] = "none" => clock - d > RetentionDays
           /\ backups[d] = "whole" /\ backups'[d] = "partial" => d = day]_vars
  <2> SUFFICES ASSUME IndInv, [Next]_vars, NEW d \in Days
               PROVE  /\ backups[d] # "none" /\ backups'[d] = "none" => clock - d > RetentionDays
                      /\ backups[d] = "whole" /\ backups'[d] = "partial" => d = day
    OBVIOUS
  <2>1. backups \in [Days -> {"none", "partial", "whole", "mixed"}]  BY DEF IndInv, TypeOK
  <2>2. CASE CopyBegins  BY <2>1, <2>2 DEF CopyBegins
  <2>3. CASE CopyDone  BY <2>1, <2>3 DEF CopyDone
  <2>4. ASSUME NEW e \in Days, Remove(e)
        PROVE  /\ backups[d] # "none" /\ backups'[d] = "none" => clock - d > RetentionDays
               /\ backups[d] = "whole" /\ backups'[d] = "partial" => d = day
    <3>1. e < cutoff /\ cutoff + RetentionDays <= clock
      BY <2>4 DEF Remove, Expired, IndInv, BackupInv
    <3>2. e \in Int /\ clock \in Int /\ cutoff \in Int /\ RetentionDays \in Int
      BY TypeFacts, BoundsAssumption DEF IndInv, Days
    <3>3. clock - e > RetentionDays  BY <3>1, <3>2
    <3>4. backups'[d] = IF d = e THEN "none" ELSE backups[d]  BY <2>1, <2>4 DEF Remove
    <3> QED  BY <3>3, <3>4
  <2>5. CASE UNCHANGED backups  BY <2>5
  <2>6. UNCHANGED backups \/ CopyBegins \/ CopyDone \/ \E e \in Days : Remove(e)
    BY AsideFrame, EndsFrame, StepCases
       DEF OnlyPlace, Start, Extract, Load, TablesDone, PivotFails, LoadCurrenciesFails, PivotStageFails,
           LoadCurrencies, Truncate, Tell, NameCopy, Stamp, Pivot
  <2> QED  BY <2>2, <2>3, <2>4, <2>5, <2>6
<1> QED  BY Invariance, <1>1, PTL DEF Spec, RecentBackupsKept

=============================================================================
