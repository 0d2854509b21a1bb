------------------------------ MODULE MCRunner ------------------------------
(* Two queries and a clarification, up to two calls in a reply and three   *)
(* turns: repeats within a reply and across turns, successes between       *)
(* failures, the budget and the turn limit are all reached.                *)
EXTENDS Runner

CONSTANTS k1, k2, clarify

MCKeys       == {k1, k2}
MCBatches    == {<<k1>>, <<k2, clarify>>, <<k1, k1>>, <<k1, k2>>, <<clarify, k1>>}
MCFailures   == {"INSUFFICIENT_DATA"}
MCCallTokens == {0, 2}
=============================================================================
