------------------------------ MODULE MCGrading -----------------------------
(* Two calls of three tools: tables of one row that hold some of the       *)
(* wanted values, or fractions near them (the tolerance is a half), a      *)
(* ragged table of two rows with a column named by a number, an empty one, *)
(* a distribution by group, and two calls that fail.  Lists of three       *)
(* elements are cut, and both groups look like players.                    *)
EXTENDS Audit

MCTable(names, rows) ==
  Object([table |-> Object([columns |-> List([c \in DOMAIN names |-> Object([name |-> Text(names[c])])]),
                            rows |-> List([r \in DOMAIN rows |-> List(rows[r])])])])
Call(name, status, err, json) == [name |-> name, status |-> status, err |-> err, json |-> json]
Analyze(names, rows) == Call("analyze", "OK", FALSE, MCTable(names, rows))
N(n) == Number(n)
Frac(n, d) == [is |-> "number", v |-> <<n, d>>]

OneRow == {Analyze(<<"a", "b", "c">>, <<row>>) : row \in
  {<<N(10), N(13), N(10)>>, <<N(11), N(10), Null>>, <<N(13), Frac(21, 2), N(11)>>, <<Null, Frac(31, 3), N(13)>>}}
Ragged == Analyze(<<"1", "a">>, <<<<N(2), N(3)>>, <<Null, N(10)>>, <<N(7)>>>>)
Regular == Analyze(<<"1", "a">>, <<<<N(2), N(3)>>, <<N(200), N(13)>>>>)
Bucket(name, n) == Object([bucket |-> Text(name), player_count |-> N(n)])
Group(name, n) == Object([group |-> Text(name), profile |-> Object([count |-> N(n)]),
                          data |-> List(<<Bucket("low", n), Bucket("high", 2)>>)])
Groups == Call("distribution", "OK", FALSE, Object([groups |-> List(<<Group("EU", 10), Group("US", 7)>>)]))
Plain1 == Call("distribution", "OK", FALSE,
  Object([data |-> List(<<Bucket("low", 10), Bucket("high", 3)>>), profile |-> Object([count |-> N(13)])]))

MCCalls == OneRow \cup {Ragged, Regular, Groups, Plain1, Analyze(<<"a">>, <<>>),
  Call("analyze", "SCHEMA_ERROR", FALSE, Object([hint |-> Null])), Call("analyze", "", TRUE, Object([hint |-> Null]))}

MCTexts == STRING
RECURSIVE PartsOf(_), HeightOf(_)
Children(node) == IF node.is \in {"list", "object"} THEN {node.v[part] : part \in DOMAIN node.v} ELSE {}
PartsOf(node) == {node} \cup UNION {PartsOf(part) : part \in Children(node)}
HeightOf(node) == 1 + Max({0} \cup {HeightOf(part) : part \in Children(node)})
MCNodes == UNION {PartsOf(call.json) : call \in MCCalls}
MCHeight == [node \in MCNodes |-> HeightOf(node)]
MCNumerals == <<"0", "1", "2">>
MCSuffixes == <<"ren", "ci">>

(* Paths of up to four segments, most of which lead nowhere.               *)
Steps ==
  {Plain("table"), Plain("groups"), Plain("profile"), Plain("count"), Plain("player_count"), Plain("a"),
   Plain("0"), Plain("1"), Seg("groups", <<"1">>), Seg("group", <<"US">>), Seg("group", <<"0">>),
   Seg("data", <<"0">>), Seg("bucket", <<"high">>), Seg("rows", <<"1">>), Seg("row", <<"0">>),
   Seg("rows", <<"1", "1">>), Seg("rows", <<"2">>), Seg("rows", <<"*">>), Seg("row", <<"*", "0">>)}
InGroup == {Plain("profile"), Plain("count"), Plain("player_count"), Plain("group"),
            Seg("data", <<"0">>), Seg("bucket", <<"high">>)}
MCPaths ==
  SeqOf(Steps, 2) \cup {<<Plain("table")>> \o p : p \in SeqOf(Steps, 2)}
  \cup {<<s>> \o p : s \in {Seg("groups", <<"1">>), Seg("group", <<"US">>)}, p \in SeqOf(InGroup, 2)}

CellAnchor(q, path) == [p \in {<<>>} |-> Cite(q, path)]
OpAnchor(op, args) ==
  [p \in {<<>>} \cup UNION {{<<i>> \o r : r \in DOMAIN args[i]} : i \in DOMAIN args} |->
     IF p = <<>> THEN Operator(op, Len(args)) ELSE args[p[1]][Tail(p)]]

A(q, name) == CellAnchor(q, <<Plain("table"), Seg("rows", <<"0">>), Plain(name)>>)
Column0 == CellAnchor(1, <<Plain("table"), Seg("rows", <<"*">>), Plain("0")>>)
Sum == OpAnchor("sum", <<Column0>>)
Says(anchor, n) == Claim(anchor, n, <<>>)
MCClaims ==
  {Says(A(1, "a"), 10), Claim(A(1, "a"), 10, <<"scale">>), Claim(A(2, "a"), 10, <<"ren">>),
   Claim(A(1, "a"), 10, <<"ci", "ren">>), Claim(A(2, "a"), 10, <<"ren", "ci">>),
   Claim(A(1, "a"), 1000, <<"ci", "ci", "percent">>), Claim(A(1, "a"), 1000, <<"ci", "percent">>),
   Says(A(2, "c"), 13), Says(A(1, "c"), 10),
   Says(CellAnchor(1, <<Seg("group", <<"US">>), Plain("profile"), Plain("count")>>), 7),
   Says(CellAnchor(1, <<Seg("group", <<"EU">>), Seg("bucket", <<"low">>), Plain("player_count")>>), 10),
   Claim(OpAnchor("pct", <<A(1, "0"), A(1, "1")>>), 67, <<"percent">>),
   Says(OpAnchor("pct_change", <<A(2, "1"), A(1, "1")>>), 0),
   Says(Sum, 202), Says(Sum, 204), Says(Sum, 205), Says(Column0, 10),
   Says(OpAnchor("diff", <<Sum, A(1, "0")>>), 200),
   Says(OpAnchor("sum", <<OpAnchor("diff", <<Sum, A(1, "0")>>)>>), 200),
   Says(OpAnchor("median", <<A(1, "0")>>), 5),
   Says(OpAnchor("sum", <<A(1, "a"), OpAnchor("median", <<A(1, "0")>>)>>), 5), Broken}

MCAnswers ==
  {[block |-> "none", claims |-> <<>>], [block |-> "broken", claims |-> <<>>]}
  \cup {[block |-> "claims", claims |-> <<c>>] : c \in MCClaims}
  \cup {[block |-> "claims", claims |-> <<Says(A(1, "a"), 10), c>>] :
         c \in {Says(A(1, "a"), 10), Claim(A(1, "b"), 13, <<"ren">>), Broken}}

(* References to no result, to one or both of the results, and beyond.     *)
MCDrafts == {NoDraft, <<2, 1>>, <<1, 3>>} \cup SeqOf(0..3, 1)

Bind(candidates, value) == [candidates |-> candidates, value |-> value]
W(n) == <<n, 1>>
X10 == Bind(<<"x">>, W(10))
X13 == Bind(<<"x">>, W(13))
A10 == Bind(<<"a">>, W(10))
Binds == <<<<X10, Bind(<<"x">>, <<20, 2>>), X13>>, <<X13, X10, A10>>, <<Bind(<<"x", "c">>, W(10)), X10>>,
           <<Bind(<<"x">>, <<21, 2>>), X10>>, <<Bind(<<"x">>, <<41, 4>>), X13>>>>
Row(match, expect, pos, any, binds) ==
  [match |-> match, singleRow |-> DOMAIN match = {}, expect |-> expect, expectPos |-> pos,
   expectAny |-> any, expectValues |-> binds]
Block(table, rows, groups, profile) == [table |-> table, rows |-> rows, groups |-> groups, profile |-> profile]
Nothing == Block(<<>>, <<>>, <<>>, <<>>)
ValuesIn(i) == Block(<<Row(<<>>, <<>>, <<>>, <<>>, Binds[i])>>, <<>>, <<>>, <<>>)
Task(min, tool, status, top, any) ==
  [minClaims |-> min, spec |-> [tool |-> tool, status |-> status, top |-> top, anyOf |-> any]]
High == [match |-> [bucket |-> "high"], expect |-> [player_count |-> W(2)]]

MCTasks ==
  {Task(0, "analyze", "OK", ValuesIn(1), <<>>),
   Task(0, "analyze", "OK", Nothing, [i \in 1..4 |-> ValuesIn(i + 1)])}
  \cup {Task(1, "analyze", "", Nothing,
           <<Block(<<Row([n \in {"1"} |-> "2"], [a |-> W(3)], [p \in {0} |-> W(2)], <<Bind(<<"b", "a">>, W(3))>>, <<>>)>>, <<>>, <<>>, <<>>),
             Block(<<Row(<<>>, <<>>, <<>>, <<Bind(<<"x", "b">>, W(13))>>, <<>>)>>, <<>>, <<>>, <<>>)>>),
        Task(2, "distribution", "OK",
          Block(<<>>, <<>>, <<[group |-> "US", rows |-> <<High>>, profile |-> [count |-> W(7)]]>>, <<>>), <<>>),
        Task(0, "distribution", "OK", Block(<<>>, <<High>>, <<>>, [count |-> W(13)]), <<>>)}
=============================================================================
