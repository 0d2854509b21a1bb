--------------------------- MODULE DataCorrectness --------------------------
(***************************************************************************)
(* Whether the results of the tools hold the numbers a task expects:       *)
(* eval_harness/evaluators/data_correctness.go.  Results are the trees of  *)
(* Results, expected numbers are fractions like those in them.             *)
(***************************************************************************)
EXTENDS Results

CONSTANT Precision    \* 1 / floatTol, 10000 in the code

ASSUME PrecisionAssumption == Precision \in Nat \ {0}

FloatEq(a, b) == LET off == Minus(a, b) IN Abs(off[1]) * Precision <= off[2]

Equals(node, want) == node.is = "number" /\ FloatEq(node.v, want)

CellReads(node, text) ==
  \/ node = Text(text)
  \/ node = Null /\ text = ""
  \/ IsNumeral(text) /\ node.is = "number" /\ node.v[1] = Atoi(text) * node.v[2]

-----------------------------------------------------------------------------
(* Fields of a fixed shape: a number that JSON leaves out is zero.         *)
Known(node, names, name, want) ==
  /\ name \in names
  /\ Equals(IF Field(node, name) = Nowhere THEN Number(0) ELSE Field(node, name), want)

CheckProfile(profile, expect) ==
  /\ profile # Nowhere
  /\ \A k \in DOMAIN expect :
       Known(profile, {"count", "distinct", "min", "max", "mean", "median"}, k, expect[k])

(* The first row whose bucket and group are the wanted ones.               *)
CheckRows(rows, want) ==
  LET Matches(row) ==
        /\ DOMAIN want.match # {} /\ DOMAIN want.match \subseteq {"bucket", "group"}
        /\ \A k \in DOMAIN want.match :
             want.match[k] = IF Field(row, k) = Nowhere THEN "" ELSE Field(row, k).v
      found == {i \in DOMAIN rows : Matches(rows[i])}
  IN /\ found # {}
     /\ \A k \in DOMAIN want.expect :
          Known(rows[Min(found)], {"player_count", "pct_players", "cum_pct_players", "total_value"},
                k, want.expect[k])

CheckGroup(groups, want) ==
  LET found == {i \in DOMAIN groups : Field(groups[i], "group") = Text(want.group)} IN
  /\ found # {}
  /\ \A i \in DOMAIN want.rows : CheckRows(Items(Field(groups[Min(found)], "data")), want.rows[i])
  /\ DOMAIN want.profile # {} => CheckProfile(Field(groups[Min(found)], "profile"), want.profile)

-----------------------------------------------------------------------------
(* The cell of a row under a column name; 0: there is none.  Of columns of *)
(* one name the last counts, and a row may be shorter than the columns.    *)
Position(columns, row, name) ==
  LET at == {c \in DOMAIN columns : columns[c] = name} IN
  IF at = {} \/ Max(at) > Len(row) THEN 0 ELSE Max(at)

(* The first of the candidate names that the row has; 0: it has none.      *)
FirstPresent(columns, row, candidates) ==
  LET present == {c \in DOMAIN candidates : Position(columns, row, candidates[c]) # 0} IN
  IF present = {} THEN 0 ELSE Position(columns, row, candidates[Min(present)])

ExpectAny(columns, row, want) ==
  \E c \in DOMAIN want.candidates :
    /\ Position(columns, row, want.candidates[c]) # 0
    /\ Equals(row[Position(columns, row, want.candidates[c])], want.value)

(* Mutant: a cell may stand for two values.                                *)
MutUnclaimed(row, claimed, value) == {i \in DOMAIN row : Equals(row[i], value)}

Unclaimed(row, claimed, value) == {i \in DOMAIN row \ claimed : Equals(row[i], value)}

(* Values under a known name are checked there and take their cells; then  *)
(* each of the others takes the first cell left that holds it, 0 when      *)
(* there is none.                                                          *)
CheckExpectValues(columns, row, binds) ==
  LET At1(b)  == FirstPresent(columns, row, binds[b].candidates)
      Free(claimed, b) == Unclaimed(row, claimed, binds[b].value)
      named   == {b \in DOMAIN binds : At1(b) # 0}
      claimed[n \in 0..Len(binds)] ==
        IF n = 0 THEN {At1(b) : b \in named}
        ELSE claimed[n - 1] \cup
             (IF n \in named THEN {}
              ELSE IF Free(claimed[n - 1], n) = {} THEN {0} ELSE {Min(Free(claimed[n - 1], n))})
  IN /\ \A b \in named : Equals(row[At1(b)], binds[b].value)
     /\ 0 \notin claimed[Len(binds)]

CheckTableExpect(columns, row, want) ==
  /\ \A name \in DOMAIN want.expect :
       Position(columns, row, name) # 0 /\ Equals(row[Position(columns, row, name)], want.expect[name])
  /\ \A c \in DOMAIN want.expectPos :
       c \in 0..(Len(row) - 1) /\ Equals(row[c + 1], want.expectPos[c])
  /\ \A i \in DOMAIN want.expectAny : ExpectAny(columns, row, want.expectAny[i])
  /\ CheckExpectValues(columns, row, want.expectValues)

Columns(table) ==
  LET columns == Items(Field(table, "columns")) IN
  [c \in DOMAIN columns |-> Field(columns[c], "name").v]

CheckTable(table, want) ==
  LET columns == Columns(table)
      rows    == [i \in DOMAIN Items(Field(table, "rows")) |-> Items(Items(Field(table, "rows"))[i])]
      Matches(row) == \A name \in DOMAIN want.match :
        /\ Position(columns, row, name) # 0
        /\ CellReads(row[Position(columns, row, name)], want.match[name])
      found == {i \in DOMAIN rows : Matches(rows[i])}
  IN /\ table # Nowhere
     /\ \/ want.singleRow /\ Len(rows) = 1 /\ CheckTableExpect(columns, rows[1], want)
        \/ /\ ~want.singleRow /\ DOMAIN want.match # {} /\ found # {}
           /\ CheckTableExpect(columns, rows[Min(found)], want)

-----------------------------------------------------------------------------
(* A block of assertions, all of which a result must meet.                 *)
CheckBlock(json, block) ==
  /\ DOMAIN block.profile # {} => CheckProfile(Field(json, "profile"), block.profile)
  /\ \A i \in DOMAIN block.rows : CheckRows(Items(Field(json, "data")), block.rows[i])
  /\ \A i \in DOMAIN block.groups : CheckGroup(Items(Field(json, "groups")), block.groups[i])
  /\ \A i \in DOMAIN block.table : CheckTable(Field(json, "table"), block.table[i])

(* The top block holds; with any_of one of its blocks too.                 *)
CheckResponse(call, spec) ==
  /\ spec.status \in {"", call.status}
  /\ CheckBlock(call.json, spec.top)
  /\ spec.anyOf # <<>> => \E i \in DOMAIN spec.anyOf : CheckBlock(call.json, spec.anyOf[i])

(* What contradicts itself or asserts nothing is an error of the task.     *)
ValidateSpec(spec) ==
  LET Asserts(block) == block.table \o block.rows \o block.groups # <<>>
      TableRows == FlattenSeq([i \in DOMAIN spec.anyOf |-> spec.anyOf[i].table]) \o spec.top.table
  IN /\ spec.anyOf # <<>> => ~Asserts(spec.top)
     /\ \A i \in DOMAIN spec.anyOf :
          Asserts(spec.anyOf[i]) \/ DOMAIN spec.anyOf[i].profile # {}
     /\ \A i \in DOMAIN TableRows :
          /\ ~(TableRows[i].singleRow /\ DOMAIN TableRows[i].match # {})
          /\ \A b \in DOMAIN TableRows[i].expectValues :
               TableRows[i].expectValues[b].candidates # <<>>

(* Some call of the tool, of any status, that ran without an error.        *)
DataCorrectness(calls, spec) ==
  ValidateSpec(spec) /\ \E i \in DOMAIN calls :
    calls[i].name = spec.tool /\ ~calls[i].err /\ CheckResponse(calls[i], spec)

=============================================================================
