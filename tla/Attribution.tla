----------------------------- MODULE Attribution ----------------------------
(***************************************************************************)
(* How the claims of an answer are checked against the results of the      *)
(* tools: eval_harness/evaluators/attribution.go and                       *)
(* attribution_grounding.go, contract/claimed_number.go, and the block of  *)
(* claims that runners/suite.go takes out of the answer.                   *)
(*                                                                         *)
(* A path is a sequence of segments, a segment a name with the keys in its *)
(* brackets: rows[1][0] is <<"1", "0">> under "rows".                      *)
(***************************************************************************)
EXTENDS Results

CONSTANTS
  MaxAnchorDepth,       \* maxAnchorDepth, 20 in the code
  DecorativeSuffixes    \* the units in the order in which they are taken off, 11 in the code

ASSUME DepthAssumption == MaxAnchorDepth \in Nat
ASSUME SuffixAssumption ==
  /\ DecorativeSuffixes \in Seq(Texts)
  /\ ToSet(DecorativeSuffixes) \cap {"percent", "scale", "undecodable"} = {}

(* Position of a column, by number or by name; -1: there is none.          *)
Column(table, name) ==
  LET columns == Items(Field(table, "columns"))
      named   == {c \in DOMAIN columns : Field(columns[c], "name") = Text(name)}
  IN CASE IsNumeral(name)                   -> Atoi(name)
       [] ~IsNumeral(name) /\ named # {}    -> Min(named) - 1
       [] ~IsNumeral(name) /\ named = {}    -> -1

(* The outcome of resolving something: values, or why not.                 *)
Values(vs)  == [why |-> "", values |-> vs]
Failed(why) == [why |-> why, values |-> <<>>]
Unresolvable == Failed("unresolvable")

Leaf(node) == IF node.is = "number" THEN Values(<<node.v>>) ELSE Unresolvable

Cell(row, c) ==
  IF row.is = "list" /\ c \in 0..(Len(row.v) - 1) THEN Leaf(row.v[c + 1]) ELSE Unresolvable

At(list, i) == IF i \in 0..(Len(Items(list)) - 1) THEN Items(list)[i + 1] ELSE Nowhere

-----------------------------------------------------------------------------
(* Paths to one cell                                                       *)
Segments == [name : Texts, keys : Seq(Texts)]
Seg(name, keys) == [name |-> name, keys |-> keys]
Plain(name)     == Seg(name, <<>>)

(* Mutant: rows are counted from one.                                      *)
MutRowAt(table, key) == At(Field(table, "rows"), Atoi(key) - 1)

RowAt(table, key) == At(Field(table, "rows"), Atoi(key))

(* rows[i][j], rows[i].j and rows[i].name; row for rows.                   *)
TableCell(table, path) ==
  LET first == path[1]
      ByRow == first.name \in {"row", "rows"} /\ first.keys # <<>> /\ IsNumeral(first.keys[1])
  IN CASE Len(path) = 1 /\ ByRow /\ Len(first.keys) = 2 /\ IsNumeral(first.keys[2]) ->
            Cell(RowAt(table, first.keys[1]), Atoi(first.keys[2]))
       [] Len(path) = 2 /\ ByRow /\ Len(first.keys) = 1 /\ path[2].keys = <<>> ->
            Cell(RowAt(table, first.keys[1]), Column(table, path[2].name))
       [] OTHER -> Unresolvable

(* group[K] and bucket[K] look for the element with that key ...           *)
KeyedArray == [group  |-> [list |-> "groups", field |-> "group"],
               bucket |-> [list |-> "data",   field |-> "bucket"]]

ASSUME NameAssumption == DOMAIN KeyedArray \subseteq Texts

(* ... any other name[i] counts in the list of that name.                  *)
Selected(node, name, key) ==
  IF name \in DOMAIN KeyedArray
  THEN LET in    == KeyedArray[name]
           items == Items(Field(node, in.list))
           fit   == {i \in DOMAIN items : Field(items[i], in.field) = Text(key)}
       IN IF fit = {} THEN Nowhere ELSE items[Min(fit)]
  ELSE IF IsNumeral(key) THEN At(Field(node, name), Atoi(key)) ELSE Nowhere

(* The nodes that a path leads through, one after the other.  A key in     *)
(* brackets selects an element, where selectors are read at all.           *)
Child(node, seg, selecting) ==
  CASE Len(seg.keys) = 0               -> Field(node, seg.name)
    [] Len(seg.keys) = 1 /\ selecting -> Selected(node, seg.name, seg.keys[1])
    [] OTHER                           -> Nowhere

Through(node, path, selecting) ==
  LET at[n \in 0..Len(path)] ==
        IF n = 0 THEN node ELSE Child(at[n - 1], path[n], selecting)
  IN at

(* Where on the way a table takes what is left of the path.                *)
Tables(nodes, path) == {n \in 0..(Len(path) - 1) : IsTable(nodes[n])}
Rest(path, n) == SubSeq(path, n + 1, Len(path))

Navigate(node, path) ==
  LET nodes  == Through(node, path, TRUE)
      tables == Tables(nodes, path)
  IN IF tables = {} THEN Leaf(nodes[Len(path)])
     ELSE TableCell(nodes[Min(tables)], Rest(path, Min(tables)))

(* Mutant: cells that are no numbers are left out.                         *)
MutTableColumn(table, name) ==
  LET rows == SelectSeq(Items(Field(table, "rows")),
                        LAMBDA row : Cell(row, Column(table, name)).why = "")
  IN IF rows = <<>> THEN Unresolvable
     ELSE Values([i \in DOMAIN rows |-> Cell(rows[i], Column(table, name)).values[1]])

(* A whole column of a table, rows[*].c or rows[*][c]: all of it or none.  *)
TableColumn(table, name) ==
  LET rows == Items(Field(table, "rows"))
      cell == [i \in DOMAIN rows |-> Cell(rows[i], Column(table, name))]
  IN IF rows = <<>> \/ (\E i \in DOMAIN rows : cell[i].why # "") THEN Unresolvable
     ELSE Values([i \in DOMAIN rows |-> cell[i].values[1]])

IsStar(seg) == seg.name \in {"row", "rows"} /\ seg.keys # <<>> /\ seg.keys[1] = "*"

WholeColumn(cell) == \E i \in DOMAIN cell.path : IsStar(cell.path[i])

TableVector(table, path) ==
  CASE Len(path) = 2 /\ IsStar(path[1]) /\ Len(path[1].keys) = 1 /\ path[2].keys = <<>> ->
         TableColumn(table, path[2].name)
    [] Len(path) = 1 /\ IsStar(path[1]) /\ Len(path[1].keys) = 2 /\ IsNumeral(path[1].keys[2]) ->
         TableColumn(table, path[1].keys[2])
    [] OTHER -> Unresolvable

NavColumn(node, path) ==
  LET nodes  == Through(node, path, FALSE)
      tables == Tables(nodes, path)
  IN IF tables = {} THEN Unresolvable
     ELSE TableVector(nodes[Min(tables)], Rest(path, Min(tables)))

Root(calls, q) == IF q \in DOMAIN OKCalls(calls) THEN OKCalls(calls)[q].json ELSE Nowhere

Resolve(calls, cell) ==
  IF cell.path = <<>> THEN Unresolvable ELSE Navigate(Root(calls, cell.q), cell.path)

ResolveColumn(calls, cell) ==
  IF cell.path = <<>> THEN Unresolvable ELSE NavColumn(Root(calls, cell.q), cell.path)

-----------------------------------------------------------------------------
(* Anchors: an operator on operators and cells, or a cell.  An anchor is a *)
(* function from the places in it, <<>> for all of it and Append(p, i) for *)
(* the i-th operand of what is at p.                                       *)
Cite(q, path)    == [op |-> "", q |-> q, path |-> path, args |-> 0]
Operator(op, n)  == [op |-> op, q |-> 0, path |-> <<>>, args |-> n]
NoCell           == Cite(0, <<>>)

IsAnchor(anchor) ==
  /\ <<>> \in DOMAIN anchor /\ DOMAIN anchor \subseteq Seq(Nat)
  /\ \A p \in DOMAIN anchor :
       /\ anchor[p] \in [op : Texts, q : Int, args : Nat, path : Seq(Segments)]
       /\ \A i \in 1..anchor[p].args : Append(p, i) \in DOMAIN anchor

(* The registered operators with the number of their operands; -1: any.    *)
DerivOps == [ratio |-> 2, pct |-> 2, diff |-> 2, pct_points |-> 2, spread |-> 2,
             pct_change |-> 2, sum |-> -1]

Divide(a, b) ==
  CASE b[1] = 0 -> Unresolvable
    [] b[1] > 0 -> Values(<< <<a[1] * b[2], a[2] * b[1]>> >>)
    [] b[1] < 0 -> Values(<< <<-a[1] * b[2], -a[2] * b[1]>> >>)

Apply(op, vs) ==
  CASE op \in {"ratio", "pct"}                -> Divide(vs[1], vs[2])
    [] op \in {"diff", "pct_points", "spread"} -> Values(<<Minus(vs[1], vs[2])>>)
    [] op = "pct_change"                      -> Divide(Minus(vs[1], vs[2]), vs[2])
    [] op = "sum"                             -> Values(<<FoldSeq(Plus, <<0, 1>>, vs)>>)

(* The first operand that cannot be used decides; that an operator is not  *)
(* registered is found before its operands are looked at.                  *)
Combine(op, operands) ==
  LET arity    == DerivOps[op]
      unusable == {i \in DOMAIN operands : operands[i].why # "" \/ (arity >= 0 /\ Len(operands[i].values) # 1)}
      values   == FlattenSeq([i \in DOMAIN operands |-> operands[i].values])
  IN IF op \notin DOMAIN DerivOps THEN Failed("unsupported")
     ELSE IF unusable # {}
     THEN LET first == operands[Min(unusable)] IN
          IF first.why # "" THEN first ELSE Unresolvable
     ELSE IF values = <<>> \/ (arity >= 0 /\ Len(values) # arity) THEN Unresolvable
     ELSE Apply(op, values)

(* Only as an operand can a cell be a whole column.                        *)
ResolveOperand(calls, cell) ==
  IF WholeColumn(cell) THEN ResolveColumn(calls, cell) ELSE Resolve(calls, cell)

Resolved(calls, anchor) ==
  LET at[p \in DOMAIN anchor] ==
        IF Len(p) > MaxAnchorDepth THEN Unresolvable
        ELSE IF anchor[p].op # ""
        THEN Combine(anchor[p].op, [i \in 1..anchor[p].args |-> at[Append(p, i)]])
        ELSE IF p = <<>> THEN Resolve(calls, anchor[p]) ELSE ResolveOperand(calls, anchor[p])
  IN at

ResolveAnchor(calls, anchor) == Resolved(calls, anchor)[<<>>]

-----------------------------------------------------------------------------
(* Claims: an anchor, the number as the answer writes it, and its marks,   *)
(* what stands after it from left to right: units, "percent", "scale" for  *)
(* a word like 10000, "undecodable" for anything else.                     *)
Claim(anchor, number, marks) == [anchor |-> anchor, number |-> number, marks |-> marks]
NaN == <<0, 0>>

(* Mutant: a word that scales is taken for a unit.                         *)
MutClaimedNumber(number, marks) ==
  IF marks # <<>> /\ marks[Len(marks)] = "percent" THEN <<number, 100>> ELSE <<number, 1>>

InPercent(marks) == marks # <<>> /\ marks[Len(marks)] = "percent"

(* One percent sign at the very end divides by 100.  Then each unit in the *)
(* list is taken off the end once, in the order of the list: left[n] marks *)
(* are left after the first n.                                             *)
ClaimedNumber(number, marks) ==
  LET left[n \in 0..Len(DecorativeSuffixes)] ==
        IF n = 0 THEN IF InPercent(marks) THEN Len(marks) - 1 ELSE Len(marks)
        ELSE IF left[n - 1] # 0 /\ marks[left[n - 1]] = DecorativeSuffixes[n]
             THEN left[n - 1] - 1 ELSE left[n - 1]
  IN IF left[Len(DecorativeSuffixes)] # 0 THEN NaN
     ELSE <<number, IF InPercent(marks) THEN 100 ELSE 1>>

(* Within one per cent of the claimed value.                               *)
RelClose(got, claimed) ==
  LET off == Minus(got, claimed) IN
  IF claimed[1] = 0 THEN got[1] = 0
  ELSE Abs(off[1]) * claimed[2] * 100 <= Abs(claimed[1]) * off[2]

EvalAnchor(calls, claim) ==
  LET claimed == ClaimedNumber(claim.number, claim.marks)
      result  == ResolveAnchor(calls, claim.anchor)
  IN CASE claim.anchor[<<>>] = NoCell \/ claimed = NaN -> "unresolvable"
       [] OTHER -> IF result.why = "unsupported" THEN "derived_unsupported"
                   ELSE IF result.why # "" THEN "unresolvable"
                   ELSE IF RelClose(result.values[1], claimed) THEN "resolved" ELSE "mismatch"

(* The answer holds no block of claims, one that cannot be decoded, or one *)
(* of claims each of which may be undecodable by itself.                   *)
Broken == Claim([p \in {<<>>} |-> NoCell], 0, <<"undecodable">>)
ParseAttributionOutput(answer) == IF answer.block = "claims" THEN answer.claims ELSE <<>>

AttributionGrounding(calls, answer, minClaims) ==
  LET claims == ParseAttributionOutput(answer)
      bad    == {i \in DOMAIN claims : EvalAnchor(calls, claims[i]) \in {"mismatch", "unresolvable"}}
  IN Len(claims) >= minClaims /\ bad = {}

=============================================================================
