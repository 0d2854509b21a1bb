------------------------------ MODULE MCTools ------------------------------
(* Tables of up to ten rows in up to four groups; some have rows without   *)
(* a value, one a row without a group, one is too small.  The calls of     *)
(* analyze cross what is grouped, computed, filtered, ordered and cut, and *)
(* add one of each kind of argument that is refused or not understood.     *)
EXTENDS Analysis

Row(v, g) == [value |-> v, group |-> g]
Cycle(n, values, groups) ==
  [i \in 1..n |-> Row(values[1 + (i % Len(values))], groups[1 + (i % Len(groups))])]

MCContents ==
  {Cycle(n, <<0, 5, 2, 7, 9>>, <<1, 2, 1>>) : n \in {2, 5, 8}}
  \cup {Cycle(10, <<0, 5, 2, 5, 9>>, <<1, 2, 1>>)}
  \cup {Cycle(n, <<1, 4, 1>>, <<3, 1, 2, 1, 4>>) : n \in {4, 7}}
  \cup {Cycle(8, <<2, 5, 9>>, <<1>>), Cycle(10, <<3, 6, 3, 6, Null>>, <<2, 2, 1>>),
        Cycle(7, <<4, 4, Null, 8>>, <<1>>), Cycle(9, <<6, Null, 6>>, <<2, 2, 1>>),
        Cycle(9, <<3>>, <<1, 2, 1, 2, Null, 1, 2>>)}

Query(column, filter, groups, bucket) ==
  [tool |-> "query_distribution", column |-> column, filter |-> filter, groups |-> groups, bucket |-> bucket]

MCQueries ==
  {Query("known", "known", g, b) : g \in 0..2, b \in {"", "wealth"}}
  \cup {Query("known", "known", 0, "weath")}
  \cup {Query(c, f, g, "") : c \in {"known", "private"}, f \in {"known", "private"}, g \in 0..1}

MCBuckets == [wealth |-> <<1, 4>>]

Agg(fn, column, as) == [fn |-> fn, column |-> column, as |-> as]
Condition(field, op, value, values) == [field |-> field, op |-> op, value |-> value, values |-> values]
On(alias, op, value) == [alias |-> alias, op |-> op, value |-> value]
Key(key, desc) == [key |-> key, desc |-> desc]

Base ==
  [unknownKey |-> FALSE, table |-> "known", filters |-> <<>>, group_by |-> <<"group">>,
   aggregates |-> <<Agg("count", "", "n")>>, having |-> <<>>, order_by |-> <<>>, limit |-> 0]

Crossed ==
  {[Base EXCEPT !.group_by = g, !.aggregates = a, !.filters = f, !.having = h, !.order_by = o, !.limit = l] :
     g \in {<<"group">>, <<"value", "group">>, <<>>},
     a \in {<<Agg("count", "*", "n")>>, <<Agg("sum", "value", "n")>>,
            <<Agg("max", "value", "n"), Agg("count_distinct", "value", "group_size")>>},
     f \in {<<>>, <<Condition("value", ">=", 3, <<>>)>>, <<Condition("group", "!=", 1, <<>>)>>},
     h \in {<<>>, <<On("n", ">", 2)>>},
     o \in {<<>>, <<Key("n", TRUE)>>},
     l \in {0, 1, 2}}

Others ==
  {[Base EXCEPT !.aggregates = <<Agg(fn, "value", "value")>>, !.having = h, !.order_by = <<Key("value", FALSE)>>] :
     fn \in {"count", "sum", "min"}, h \in {<<>>, <<On("value", ">", 4)>>}}
  \cup {[Base EXCEPT !.filters = <<f>>] : f \in
          {Condition("value", "IN", Null, <<5, 6>>), Condition("value", "IN", Null, <<>>),
           Condition("value", "BETWEEN", Null, <<2, 6>>), Condition("value", "BETWEEN", Null, <<2>>),
           Condition("value", "IS NULL", Null, <<>>), Condition("group", "IS NOT NULL", Null, <<>>),
           Condition("value", "<", Null, <<>>), Condition("value", "<", 5, <<>>),
           Condition("value", "<=", 5, <<>>), Condition("value", "=", 3, <<>>),
           Condition("private", "=", 1, <<>>), Condition("value", "LIKE", 1, <<>>)}}
  \cup {[Base EXCEPT !.filters = <<Condition("value", ">=", 2, <<>>), Condition("value", "<", 6, <<>>)>>]}
  \cup {[Base EXCEPT !.having = <<h>>] : h \in {On("m", ">", 1), On("n", "IN", 1), On("n", ">", Null), On("group", "<=", 2)}}
  \cup {[Base EXCEPT !.order_by = o] : o \in {<<Key("m", FALSE)>>, <<Key("group", TRUE)>>, <<Key("n", FALSE), Key("group", TRUE)>>}}
  \cup {[Base EXCEPT !.aggregates = a] : a \in
          {<<Agg("count", "", "")>>, <<Agg("median", "value", "n")>>, <<Agg("sum", "private", "n")>>,
           <<Agg("min", "value", "group")>>, <<Agg("min", "value", "n"), Agg("max", "value", "n")>>,
           <<Agg("count", "value", "n")>>, <<Agg("min", "value", "a"), Agg("max", "value", "b")>>}}
  \cup {[Base EXCEPT !.aggregates = <<>>, !.group_by = g] : g \in {<<>>, <<"value">>, <<"group", "group">>, <<"private">>}}
  \cup {[Base EXCEPT !.unknownKey = TRUE], [Base EXCEPT !.table = "unknown"]}
  \cup {[Base EXCEPT !.limit = Misshapen], [Base EXCEPT !.limit = 9], [Base EXCEPT !.limit = -1],
        [Base EXCEPT !.filters = Misshapen], [Base EXCEPT !.filters = <<Misshapen>>],
        [Base EXCEPT !.group_by = Misshapen], [Base EXCEPT !.group_by = <<Misshapen, "group">>],
        [Base EXCEPT !.having = Misshapen], [Base EXCEPT !.order_by = <<Misshapen>>],
        [Base EXCEPT !.aggregates = <<Misshapen, Agg("count", "", "n")>>]}

MCCalls == Crossed \cup Others
=============================================================================
