------------------------------- MODULE Facets -------------------------------
(***************************************************************************)
(* The tags that say what kind of query a task asks or a memory is about   *)
(* (schema_protocol/facets.go), and the reranking of recalled memories by  *)
(* them (eval_harness/reflexion/rerank.go).                                *)
(*                                                                         *)
(* A tag is <<category, value>>.  A query is what its tags depend on: the  *)
(* set of its aggregate functions, the number of its GROUP BY columns,     *)
(* whether a filter tests for NULL, whether a filter or a HAVING compares  *)
(* with a threshold, and whether it has a HAVING at all.                   *)
(***************************************************************************)
EXTENDS Integers, FiniteSets

Shape(q) ==
  IF q.nullFilter THEN "sentinel"
  ELSE IF q.threshold \/ q.having THEN "threshold"
  ELSE IF q.dim >= 2 \/ Cardinality(q.aggs) > 1 THEN "composite"
  ELSE "mean"

DeriveFacets(q) ==
  {<<"agg", fn>> : fn \in q.aggs}
    \cup {<<"dim", q.dim>>, <<"shape", Shape(q)>>}
    \cup {t \in {<<"filter", "null">>} : q.nullFilter}
    \cup {t \in {<<"cmp", "threshold">>} : q.threshold}

-----------------------------------------------------------------------------
OnShape(tags, facets) == \E t \in tags \cap facets : t[1] = "shape"

(* facetOverlap: a shape weighs three, another known tag one.              *)
Overlap(tags, facets) ==
  LET common == tags \cap facets
  IN  3 * Cardinality({t \in common : t[1] = "shape"})
        + Cardinality({t \in common : t[1] \in {"agg", "dim", "filter", "cmp"}})

(* Rerank, then the first k.  A unit of overlap outweighs the whole        *)
(* normalised text rank, which is any order here and only breaks ties.     *)
Reranked(cands, facets, k) ==
  LET n == IF k < Cardinality(cands) THEN k ELSE Cardinality(cands)
  IN  {S \in SUBSET cands :
         /\ Cardinality(S) = n
         /\ \A x \in S, y \in cands \ S : Overlap(x.tags, facets) >= Overlap(y.tags, facets)}

=============================================================================
