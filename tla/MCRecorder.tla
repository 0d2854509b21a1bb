----------------------------- MODULE MCRecorder -----------------------------
(* Two callers, a channel of one slot, three records and two finalizes:    *)
(* a full channel, a late step, a blocked and a repeated Finalize all      *)
(* happen.                                                                 *)
EXTENDS Recorder

CONSTANTS c1, c2

MCCallers  == {c1, c2}
MCRoles    == {"judge"}
MCTokens   == {1}
MCOutcomes == {"success", "abort"}
=============================================================================
