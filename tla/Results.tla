------------------------------- MODULE Results ------------------------------
(***************************************************************************)
(* Results of tool calls as JSON trees, and which of them an answer can    *)
(* cite: those of status OK, counted from one (contract/advisor.go).       *)
(* Numbers are fractions.                                                  *)
(***************************************************************************)
EXTENDS Fraction, Sequences, FiniteSetsExt, SequencesExt

CONSTANTS
  Texts,       \* the texts there are: names, keys and values
  Numerals,    \* the texts that are numbers, from "0" on
  Nodes        \* the JSON values there are: results with all their parts

ASSUME NumeralAssumption ==
  /\ Numerals \in Seq(Texts) /\ "*" \notin ToSet(Numerals)
  /\ \A m, n \in DOMAIN Numerals : Numerals[m] = Numerals[n] => m = n

IsNumeral(text) == \E i \in DOMAIN Numerals : Numerals[i] = text
Atoi(text) == (CHOOSE i \in DOMAIN Numerals : Numerals[i] = text) - 1

Number(n)      == [is |-> "number", v |-> <<n, 1>>]
Text(s)        == [is |-> "text", v |-> s]
List(items)    == [is |-> "list", v |-> items]
Object(fields) == [is |-> "object", v |-> fields]
Null           == [is |-> "null"]
Nowhere        == [is |-> "nowhere"]

Field(node, name) ==
  IF node.is = "object" /\ name \in DOMAIN node.v THEN node.v[name] ELSE Nowhere
Items(node) == IF node.is = "list" THEN node.v ELSE <<>>
IsTable(node) == Field(node, "columns") # Nowhere /\ Field(node, "rows") # Nowhere

IsNode(node) ==
  \/ node = Null
  \/ node.is = "number" /\ node.v \in Fractions
  \/ node.is = "text" /\ node = Text(node.v) /\ node.v \in Texts
  \/ node.is = "list" /\ node.v \in Seq(Nodes)
  \/ node.is = "object" /\ DOMAIN node.v \subseteq Texts /\ \A name \in DOMAIN node.v : node.v[name] \in Nodes

ASSUME NodesAssumption == \A node \in Nodes : IsNode(node)

-----------------------------------------------------------------------------
(* The elements of s at the positions in keep, one after the other.        *)
Filtered(s, keep) ==
  LET out[n \in 0..Len(s)] ==
        IF n = 0 THEN <<>>
        ELSE IF n \in keep THEN Append(out[n - 1], s[n]) ELSE out[n - 1]
  IN out[Len(s)]

(* Mutant: what only ran without an error counts too.                      *)
MutOKCalls(calls) == Filtered(calls, {n \in DOMAIN calls : ~calls[n].err})

(* q{N}: the results of status OK, counted from one.                       *)
OKCalls(calls) == Filtered(calls, {n \in DOMAIN calls : calls[n].status = "OK"})

=============================================================================
