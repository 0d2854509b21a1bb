------------------------------ MODULE Analysis ------------------------------
(***************************************************************************)
(* The tool analyze (tools/analyze.go), beside query_distribution on the   *)
(* same table: the conversion of a call's arguments (tools/argcheck.go,    *)
(* args.go), the checks and the one SQL statement of BuildAnalysis         *)
(* (schema_protocol/analysis_builder.go), and what SQLite answers.         *)
(*                                                                         *)
(* A column is "value" or "group"; every other name is unknown or private, *)
(* and both are refused.  Cells are integers or Null.  The function avg,   *)
(* hints and column types are left out.                                    *)
(***************************************************************************)
EXTENDS Distribution

CONSTANTS
  Calls,               \* the arguments of the calls of analyze, before conversion
  Misshapen,           \* stands for every value of a type the conversion does not take
  MaxAnalysisLimit     \* 1000 in the code

WellShaped(x) == x # Misshapen
Lists == {"filters", "group_by", "aggregates", "having", "order_by"}

ASSUME AnalysisAssumption ==
  /\ MaxAnalysisLimit \in Nat \ {0}
  /\ \A args \in Calls, list \in Lists :
       WellShaped(args[list]) => args[list] \in Seq(Range(args[list]))

Columns == {"value", "group"}
Functions == {"count", "count_distinct", "sum", "min", "max"}
Comparisons == {"=", "!=", "<", "<=", ">", ">="}

(* The items of a sequence at some of its positions.                       *)
ItemsAt(s, positions) ==
  LET at == Ascending(positions) IN [i \in DOMAIN at |-> s[at[i]]]

-----------------------------------------------------------------------------
(* ArgsToAnalyzeInput: what has the wrong type is left out without a word. *)
AsSlice(x) ==
  IF WellShaped(x) THEN ItemsAt(x, {i \in DOMAIN x : WellShaped(x[i])}) ELSE <<>>

(* The query that is answered, with the call as it was made.               *)
AnalyzeInput(args) ==
  [tool       |-> "analyze",
   args       |-> args,
   table      |-> args.table,
   filters    |-> AsSlice(args.filters),
   group_by   |-> AsSlice(args.group_by),
   aggregates |-> AsSlice(args.aggregates),
   having     |-> AsSlice(args.having),
   order_by   |-> AsSlice(args.order_by),
   limit      |-> IF WellShaped(args.limit) THEN args.limit ELSE 0]

-----------------------------------------------------------------------------
(* BuildAnalysis: its checks                                               *)
Aliases(q) == [i \in DOMAIN q.aggregates |-> q.aggregates[i].as]
OutNames(q) == q.group_by \o Aliases(q)

CountsRows(a) == a.fn = "count" /\ a.column \in {"", "*"}

(* The alias "" stands for every alias that is no identifier.              *)
AggregatesValid(q) ==
  /\ \A a \in ToSet(q.aggregates) :
       a.fn \in Functions /\ a.as # "" /\ (CountsRows(a) \/ a.column \in Columns)
  /\ IsInjective(Aliases(q)) /\ ToSet(Aliases(q)) \cap ToSet(q.group_by) = {}

FilterValid(f) ==
  /\ f.field \in Columns
  /\ \/ f.op \in Comparisons /\ f.value # Null
     \/ f.op = "IN" /\ f.values # <<>> /\ Null \notin ToSet(f.values)
     \/ f.op = "BETWEEN" /\ Len(f.values) = 2 /\ Null \notin ToSet(f.values)
     \/ f.op \in {"IS NULL", "IS NOT NULL"}

HavingValid(q) ==
  \A h \in ToSet(q.having) : h.alias \in ToSet(OutNames(q)) /\ h.op \in Comparisons /\ h.value # Null

OrderValid(q) == \A o \in ToSet(q.order_by) : o.key \in ToSet(OutNames(q))

Valid(q) ==
  /\ q.table = "known"
  /\ q.group_by # <<>> \/ q.aggregates # <<>>
  /\ ToSet(q.group_by) \subseteq Columns
  /\ AggregatesValid(q)
  /\ \A f \in ToSet(q.filters) : FilterValid(f)
  /\ HavingValid(q)
  /\ OrderValid(q)

(* Mutant: only the order asked for.                                       *)
MutOrderKeys(q) == q.order_by

(* buildOrderBy: the order asked for, then the columns of group_by that it *)
(* does not name.                                                          *)
OrderKeys(q) ==
  LET asked == {q.order_by[i].key : i \in DOMAIN q.order_by}
      rest  == ItemsAt(q.group_by, {i \in DOMAIN q.group_by : q.group_by[i] \notin asked})
  IN q.order_by \o [i \in DOMAIN rest |-> [key |-> rest[i], desc |-> FALSE]]

Limit(q) == IF q.limit \in 1..MaxAnalysisLimit THEN q.limit ELSE MaxAnalysisLimit

-----------------------------------------------------------------------------
(* What SQLite answers                                                     *)

(* No comparison with Null holds.                                          *)
Compare(op, a, b) ==
  /\ a # Null
  /\ CASE op = "="  -> a = b
       [] op = "!=" -> a # b
       [] op = "<"  -> a < b
       [] op = "<=" -> a <= b
       [] op = ">"  -> a > b
       [] op = ">=" -> a >= b

Holds(f, row) ==
  LET cell == row[f.field] IN
  CASE f.op = "IN"          -> cell \in ToSet(f.values)
    [] f.op = "BETWEEN"     -> Compare(">=", cell, f.values[1]) /\ cell <= f.values[2]
    [] f.op = "IS NULL"     -> cell = Null
    [] f.op = "IS NOT NULL" -> cell # Null
    [] OTHER                -> Compare(f.op, cell, f.value)

Where(q, rows) == RestrictValues(rows, LAMBDA row : \A f \in ToSet(q.filters) : Holds(f, row))

KeyOf(q, row) == [i \in DOMAIN q.group_by |-> row[q.group_by[i]]]

(* Aggregates alone have one group, whether there are rows or not.         *)
Keys(q, rows) ==
  IF q.group_by = <<>> THEN {<<>>} ELSE {KeyOf(q, row) : row \in Range(Where(q, rows))}

RowsOf(q, rows, key) == RestrictValues(Where(q, rows), LAMBDA row : KeyOf(q, row) = key)

OfCells(fn, cells) ==
  CASE fn = "sum" -> SumFunction(cells)
    [] fn = "min" -> Min(Range(cells))
    [] fn = "max" -> Max(Range(cells))

(* Null is no value to an aggregate, and without values all but the counts *)
(* are Null.                                                               *)
Aggregate(a, rows) ==
  IF CountsRows(a) THEN Count(rows)
  ELSE LET column == [i \in DOMAIN rows |-> rows[i][a.column]]
           cells  == RestrictValues(column, LAMBDA v : v # Null)
       IN CASE a.fn = "count"          -> Count(cells)
            [] a.fn = "count_distinct" -> Cardinality(Range(cells))
            [] OTHER -> IF DOMAIN cells = {} THEN Null ELSE OfCells(a.fn, cells)

Output(q, rows, key) ==
  key \o [i \in DOMAIN q.aggregates |-> Aggregate(q.aggregates[i], RowsOf(q, rows, key))]

Cell(q, output, name) ==
  output[CHOOSE i \in DOMAIN OutNames(q) : OutNames(q)[i] = name]

(* A column that is neither grouped nor aggregated is that of some row of  *)
(* the group: of one that attains it if min or max is computed and alone.  *)
BareRows(q, rows, key) ==
  LET group    == RowsOf(q, rows, key)
      extremal == {i \in DOMAIN q.aggregates : q.aggregates[i].fn \in {"min", "max"}}
      attained == {row \in Range(group) :
                     \E i \in extremal : row[q.aggregates[i].column] = Aggregate(q.aggregates[i], group)}
  IN IF DOMAIN group = {} THEN {[c \in Columns |-> Null]}
     ELSE IF Cardinality(extremal) = 1 THEN attained ELSE Range(group)

(* A name in HAVING is a column of the table before it is an alias.        *)
HavingHolds(q, output, bare) ==
  \A h \in ToSet(q.having) :
    Compare(h.op, IF h.alias \in Columns THEN bare[h.alias] ELSE Cell(q, output, h.alias), h.value)

(* The groups that HAVING may keep.                                        *)
Kept(q, rows) ==
  LET may  == {key \in Keys(q, rows) :
                 \E bare \in BareRows(q, rows, key) : HavingHolds(q, Output(q, rows, key), bare)}
      must == {key \in may :
                 \A bare \in BareRows(q, rows, key) : HavingHolds(q, Output(q, rows, key), bare)}
  IN {keys \in SUBSET may : must \subseteq keys}

(* A name in ORDER BY is an output before it is a column.                  *)
Before(q, a, b) ==
  LET order == OrderKeys(q)
      A(i) == Cell(q, a, order[i].key)
      B(i) == Cell(q, b, order[i].key)
  IN \E i \in DOMAIN order :
       /\ IF order[i].desc THEN A(i) > B(i) ELSE A(i) < B(i)
       /\ \A k \in 1..(i - 1) : A(k) = B(k)

(* The first n outputs in any sequence that the order allows.              *)
Ordered(q, outputs, n) ==
  LET Below(o) == Cardinality({p \in outputs : Before(q, p, o)})
      Above(o) == Cardinality({p \in outputs : Before(q, o, p)})
      may == [i \in 1..n |-> {o \in outputs : Below(o) < i /\ i <= Cardinality(outputs) - Above(o)}]
  IN {s \in [1..n -> UNION Range(may)] : IsInjective(s) /\ \A i \in 1..n : s[i] \in may[i]}

Answers(q, rows) ==
  UNION {LET outputs == {Output(q, rows, key) : key \in keys}
         IN Ordered(q, outputs, Min({Limit(q), Cardinality(outputs)})) : keys \in Kept(q, rows)}

-----------------------------------------------------------------------------
(* A key that is no argument of analyze is told before anything is read.   *)
BeginAnalysis(args) ==
  IF args.unknownKey
  THEN /\ pc = "idle"
       /\ query' = AnalyzeInput(args) /\ pc' = "told" /\ reply' = Answer("SCHEMA_ERROR")
       /\ seen' = table
       /\ UNCHANGED <<table, part, fresh, refreshes>>
  ELSE Call(AnalyzeInput(args), "analyze")

ReadAnalysis ==
  /\ Reading("analyze")
  /\ IF Valid(query)
     THEN \E rows \in Answers(query, table) : Reply([status |-> "OK", rows |-> rows])
     ELSE Reply(Answer("SCHEMA_ERROR"))

AnalysisNext ==
  \/ Next
  \/ \E args \in Calls : BeginAnalysis(args)
  \/ ReadAnalysis

AnalysisSpec == Init /\ [][AnalysisNext]_vars

-----------------------------------------------------------------------------
(* Properties                                                              *)

Analyzed == query.tool = "analyze" /\ reply.status = "OK" /\ fresh

(* What a group answers for itself, and whether the conditions on the      *)
(* outputs let it in.                                                      *)
Qualifies(q, output) == \A h \in ToSet(q.having) : Compare(h.op, Cell(q, output, h.alias), h.value)

Qualifying(q, rows) ==
  {output \in {Output(q, rows, key) : key \in Keys(q, rows)} : Qualifies(q, output)}

Shadowed(q) == ToSet(Aliases(q)) \cap Columns # {}

(* The arguments of a call that name a query, each list and each item of   *)
(* the type that args.go takes, and the query they name.                   *)
ListsUnderstood(args) ==
  \A list \in Lists : WellShaped(args[list]) /\ \A i \in DOMAIN args[list] : WellShaped(args[list][i])

Understood(args) == ListsUnderstood(args) /\ WellShaped(args.limit)

Declared(args) ==
  [tool |-> "analyze", args |-> args, table |-> args.table, filters |-> args.filters,
   group_by |-> args.group_by, aggregates |-> args.aggregates, having |-> args.having,
   order_by |-> args.order_by, limit |-> args.limit]

(* The answer is the one the call declares, if it can be understood at     *)
(* all, however SQLite picks among equals: the first groups, up to the     *)
(* limit, of all that meet the conditions on the outputs, each with as     *)
(* many before it as the order puts there, and none missing                *)
(* (analysis_builder.go:203 promises a fixed order, which a cut at the     *)
(* limit makes one about content). Of a call of which args.go:51 drops a   *)
(* part nothing is promised: it is answered without that part, although    *)
(* args.go:42 leaves to BuildAnalysis to refuse it.                        *)
AnsweredAsDeclared ==
  Analyzed /\ Understood(query.args) =>
    LET asked == Declared(query.args)
        all   == Qualifying(asked, seen)
    IN ~Shadowed(asked) =>
         /\ Len(reply.rows) = Min({Limit(asked), Cardinality(all)})
         /\ \A i \in DOMAIN reply.rows :
              /\ reply.rows[i] \in all
              /\ Cardinality({output \in all : Before(asked, output, reply.rows[i])}) = i - 1

(* HAVING is about the outputs (analysis_builder.go:180): no row of an     *)
(* answer fails a condition on its own cells.                              *)
HavingOverOutputs ==
  Analyzed => \A i \in DOMAIN reply.rows : Qualifies(query, reply.rows[i])

=============================================================================
