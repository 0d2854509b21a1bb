------------------------------- MODULE MCSuite ------------------------------
(* Two gate evaluators, one judge and one name nobody registered; up to    *)
(* two tasks, which select different evaluators, also two of one id and    *)
(* one with a misspelt name; a file of two notes, of which the first is    *)
(* incomplete.                                                             *)
EXTENDS Ingest

Task(id, spec) == [id |-> id, spec |-> spec]

MCTaskLists ==
  {<<Task("a", {"data_correctness", "attribution_grounding", "reasoning_quality"})>>,
   <<Task("a", {"data_correctness", "attribution_grounding"}), Task("a", {"data_correctness"})>>,
   <<Task("a", {"data_correctness"}), Task("b", {"reasoning_quality"})>>,
   <<Task("a", {"data_correctness", "atribution_grounding"})>>,
   <<Task("a", {"reasoning_quality", "custom"})>>}

Note(source, complete) == [source |-> source, complete |-> complete]
MCNotes == {<<Note("m", FALSE), Note("n", TRUE)>>}

MCEvalOrder  == <<"data_correctness", "attribution_grounding", "reasoning_quality", "custom">>
MCRegistered == {"data_correctness", "attribution_grounding", "reasoning_quality"}
MCGateNames  == {"data_correctness", "attribution_grounding"}
MCJudges     == {"reasoning_quality"}
=============================================================================
