---------------------------- MODULE MemoryStore -----------------------------
(***************************************************************************)
(* The long-term memory (memory/store.go) as its callers see it: a set of  *)
(* items, at most one per source, and searches that return as many as      *)
(* asked of those that match, in an order that depends on their texts and  *)
(* is arbitrary here.  The triggers of schema.sql keep the text index in   *)
(* the same transaction as the table, so the two are one set.              *)
(***************************************************************************)
EXTENDS Integers, FiniteSets

CONSTANTS
  NoTask,      \* task of an item about no task in particular (task_id NULL)
  MinScore     \* a search leaves out items of a lower score

(* What upsertBySource finds an item by: an item of a source that is       *)
(* already there replaces it.                                              *)
Source(item) == item.source

(* Mutant: a plain INSERT.                                                 *)
MutUpsert(items, item) == items \cup {item}

Upsert(items, item) == {x \in items : Source(x) # Source(item)} \cup {item}

(* The structured filters of Search, for items with the tag "reflection":  *)
(* with a task the items of that task and those of none, without one all.  *)
Matching(items, task) ==
  {x \in items : /\ x.reflection
                 /\ x.score >= MinScore
                 /\ task # NoTask => x.task \in {task, NoTask}}

(* What Search may return.  Every item tagged "reflection" contains that   *)
(* word, which is part of every query of the provider: the text filter     *)
(* leaves none out.                                                        *)
SearchResults(items, task, limit) ==
  LET found == Matching(items, task)
      n     == IF limit < Cardinality(found) THEN limit ELSE Cardinality(found)
  IN  {S \in SUBSET found : Cardinality(S) = n}

=============================================================================
