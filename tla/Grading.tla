------------------------------- MODULE Grading ------------------------------
(***************************************************************************)
(* One task after the other: the tools answer, then both deterministic     *)
(* evaluators grade the same calls, the one what the answer claims and the *)
(* other what the task expects (RunSuite, eval_harness/runners/suite.go).  *)
(***************************************************************************)
EXTENDS Attribution, Captured

CONSTANT Answers

ASSUME AnswersAssumption ==
  \A a \in Answers : \A claim \in ToSet(a.claims) :
    /\ IsAnchor(claim.anchor) /\ claim.number \in Int
    /\ claim.marks \in Seq(ToSet(DecorativeSuffixes) \cup {"percent", "scale", "undecodable"})

VARIABLES
  answer,      \* the graded answer, or NoAnswer
  scores       \* pass or fail of the two evaluators

gradingVars == <<captureVars, answer, scores>>

NoAnswer == [block |-> "unwritten", claims |-> <<>>]
NoScores == [grounding |-> FALSE, data |-> FALSE]

GradingInit == CaptureInit /\ answer = NoAnswer /\ scores = NoScores

ToolCall(call) ==
  /\ answer = NoAnswer
  /\ RecordToolCall(call)
  /\ UNCHANGED <<answer, scores>>

Evaluate(a) ==
  /\ answer = NoAnswer
  /\ answer' = a
  /\ scores' = [grounding |-> AttributionGrounding(calls, a, task.minClaims),
                data      |-> DataCorrectness(calls, task.spec)]
  /\ UNCHANGED captureVars

NextTask(t) ==
  /\ answer # NoAnswer
  /\ NewCapture(t) /\ answer' = NoAnswer /\ scores' = NoScores

GradingNext ==
  \/ \E call \in Calls : ToolCall(call)
  \/ \E a \in Answers : Evaluate(a)
  \/ \E t \in TaskFiles : NextTask(t)

GradingSpec == GradingInit /\ [][GradingNext]_gradingVars

-----------------------------------------------------------------------------
(* Reference definitions: what can be cited is made from the top down,     *)
(* with all the addresses the notation has for it; nothing is looked up.   *)

(* The keys of elements, and which of them are the first with their key.   *)
Keys(items, field) == [i \in DOMAIN items |-> Field(items[i], field)]
Firsts(key) == {i \in DOMAIN key : key[i].is = "text" /\ \A k \in 1..(i - 1) : key[k] # key[i]}

(* What stands below a node, under each of its names: a field, an element  *)
(* of a list by its number, a group or a bucket by its key if it is the    *)
(* first with that key.                                                    *)
Counted(node, name) ==
  LET items == Items(Field(node, name)) IN
  {<<Seg(name, <<Numerals[i]>>), items[i]>> : i \in DOMAIN items \cap DOMAIN Numerals}

Keyed(node, name) ==
  LET items == Items(Field(node, KeyedArray[name].list))
      key   == Keys(items, KeyedArray[name].field)
  IN {<<Seg(name, <<key[i].v>>), items[i]>> : i \in Firsts(key)}

Called(node, name) ==
  (IF Field(node, name) = Nowhere THEN {} ELSE {<<Plain(name), Field(node, name)>>})
  \cup (IF name \in DOMAIN KeyedArray THEN Keyed(node, name) ELSE Counted(node, name))

Below(node) ==
  IF node.is # "object" THEN {}
  ELSE UNION {Called(node, name) : name \in DOMAIN node.v \cup DOMAIN KeyedArray}

(* The nodes of a result with their addresses, n long and not into tables. *)
Places(json, n) ==
  LET at[k \in 0..n] ==
        IF k = 0 THEN {<< <<>>, json >>}
        ELSE UNION {{<<Append(place[1], x[1]), x[2]>> : x \in Below(place[2])} :
                      place \in {place \in at[k - 1] : ~IsTable(place[2])}}
  IN at[n]

(* The numbers of a row of a table, under the number of the column and     *)
(* under its name, if it is the first of that name and that is no number.  *)
RowNumbers(table, r) ==
  LET row     == Items(Items(Field(table, "rows"))[r])
      name    == Keys(Items(Field(table, "columns")), "name")
      numbers == {c \in DOMAIN row : row[c].is = "number"}
  IN {<<Numerals[c], row[c].v>> : c \in numbers \cap DOMAIN Numerals}
     \cup {<<name[c].v, row[c].v>> : c \in {c \in numbers \cap Firsts(name) : ~IsNumeral(name[c].v)}}

(* rows[key].column, and rows[key][column] for the number of a column.     *)
InTable(key, column) ==
  UNION {{<<Seg(rows, <<key>>), Plain(column)>>}
         \cup (IF IsNumeral(column) THEN {<<Seg(rows, <<key, column>>)>>} ELSE {}) :
           rows \in {"row", "rows"}}

TableCells(table) ==
  UNION {UNION {{<<path, x[2]>> : path \in InTable(Numerals[r], x[1])} : x \in RowNumbers(table, r)} :
           r \in DOMAIN Items(Field(table, "rows")) \cap DOMAIN Numerals}

(* The columns in which every row has a number, if there is a row.         *)
TableColumns(table) ==
  LET rows    == DOMAIN Items(Field(table, "rows"))
      columns == IF rows = {} THEN {} ELSE RowNumbers(table, 1)
      Full(name) == {values \in [rows -> UNION {{x[2] : x \in RowNumbers(table, r)} : r \in rows}] :
                       \A r \in rows : <<name, values[r]>> \in RowNumbers(table, r)}
  IN UNION {{<<path, values>> : path \in InTable("*", x[1]), values \in Full(x[1])} : x \in columns}

(* All numbers and columns with their addresses, down to a depth.          *)
TablesAbove(json, depth) ==
  {place \in UNION {Places(json, n) : n \in 0..(depth - 1)} : IsTable(place[2])}

CitedCells(json, depth) ==
  {<<place[1], place[2].v>> : place \in {place \in Places(json, depth) : place[2].is = "number"}}
  \cup UNION {{<<place[1] \o x[1], x[2]>> : x \in TableCells(place[2])} : place \in TablesAbove(json, depth)}

CitedColumns(json, depth) ==
  UNION {{<<place[1] \o x[1], x[2]>> : x \in TableColumns(place[2])} :
           place \in {place \in TablesAbove(json, depth) : \A i \in DOMAIN place[1] : place[1][i].keys = <<>>}}

CitedAs(path, cited) == {x[2] : x \in {x \in cited : x[1] = path}}

(* What an anchor denotes: no or one sequence of numbers.                  *)
Fits(op, values) ==
  IF op = "sum" THEN FlattenSeq(values) # <<>>
  ELSE Len(FlattenSeq(values)) = 2 /\ \A i \in DOMAIN values : Len(values[i]) = 1

Applied(op, operands) ==
  LET choices  == {values \in [DOMAIN operands -> UNION {operands[i] : i \in DOMAIN operands}] :
                     \A i \in DOMAIN operands : values[i] \in operands[i]}
      outcomes == {Apply(op, FlattenSeq(values)) : values \in {values \in choices : Fits(op, values)}}
  IN {outcome.values : outcome \in {outcome \in outcomes : outcome.why = ""}}

Cited(results, cell) ==
  IF cell.q \notin DOMAIN results \/ cell.path = <<>> THEN {}
  ELSE LET json  == results[cell.q].json
           depth == Len(cell.path)
       IN IF WholeColumn(cell) THEN CitedAs(cell.path, CitedColumns(json, depth))
          ELSE {<<v>> : v \in CitedAs(cell.path, CitedCells(json, depth))}

Denotes(results, anchor) ==
  LET at[p \in DOMAIN anchor] ==
        IF anchor[p].op = "" THEN Cited(results, anchor[p])
        ELSE IF Len(p) >= MaxAnchorDepth THEN {}
        ELSE Applied(anchor[p].op, [i \in 1..anchor[p].args |-> at[Append(p, i)]])
  IN at[<<>>]

Registered(anchor) == \A p \in DOMAIN anchor : anchor[p].op \in DOMAIN DerivOps \cup {""}

(* Between 99 and 101 per cent of the claim.                               *)
Within(got, claimed) ==
  LET g == 100 * got[1] * claimed[2]
      c == claimed[1] * got[2]
  IN Min({99 * c, 101 * c}) <= g /\ g <= Max({99 * c, 101 * c})

(* Units that stand in the list in the reverse of their order after the    *)
(* number, and at most one percent sign, at the end.                       *)
Decorated(marks) ==
  LET units == 1..(IF InPercent(marks) THEN Len(marks) - 1 ELSE Len(marks)) IN
  \E at \in [units -> DOMAIN DecorativeSuffixes] : \A i \in units :
    /\ marks[i] = DecorativeSuffixes[at[i]]
    /\ \A j \in 1..(i - 1) : at[j] > at[i]

(* A number so decorated that is within one per cent of the cell or the    *)
(* operator cited.                                                         *)
TrueClaim(claim) ==
  /\ Decorated(claim.marks)
  /\ claim.anchor[<<>>].op = "" => ~WholeColumn(claim.anchor[<<>>])
  /\ \E vs \in Denotes(OKCalls(calls), claim.anchor) :
       /\ Len(vs) = 1
       /\ Within(vs[1], <<claim.number, IF InPercent(claim.marks) THEN 100 ELSE 1>>)

-----------------------------------------------------------------------------
(* Properties                                                              *)

CONSTANT Paths    \* the paths to try

ASSUME PathsAssumption == Paths \subseteq Seq(Segments)

(* Every number of a place that the notation has an address for (named     *)
(* fields, counted elements, the first element with its key, the cells of  *)
(* tables) can be cited, in each of the forms that Resolve accepts         *)
(* (attribution.go:165), to that number and no other, and no path that     *)
(* denotes no number is accepted.  A starred path denotes a whole column   *)
(* ("any row that is no array, any cell that is no number: an error",      *)
(* attribution.go:283): its numbers row by row, or nothing.                *)
AddressesDenoteCells ==
  answer = NoAnswer =>
    \A q \in DOMAIN OKCalls(calls), depth \in {Len(path) : path \in Paths} \ {0} :
      LET json    == OKCalls(calls)[q].json
          cells   == CitedCells(json, depth)
          columns == CitedColumns(json, depth)
      IN \A path \in {path \in Paths : Len(path) = depth} :
           LET cell == Cite(q, path) IN
           /\ {Resolve(calls, cell).values} \ {<<>>} = {<<v>> : v \in CitedAs(path, cells)}
           /\ {ResolveColumn(calls, cell).values} \ {<<>>} = CitedAs(path, columns)

(* The gate passes an answer, all of whose anchors use known operators, if *)
(* and only if it has enough claims and all of them are true: each can be  *)
(* read and is within one per cent of what its anchor denotes.             *)
GradedAsDefined ==
  answer # NoAnswer /\ (\A c \in ToSet(answer.claims) : Registered(c.anchor)) =>
    LET claims == IF answer.block = "claims" THEN answer.claims ELSE <<>> IN
    scores.grounding <=> Len(claims) >= task.minClaims /\ \A c \in ToSet(claims) : TrueClaim(c)

=============================================================================
