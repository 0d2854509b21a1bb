-------------------------------- MODULE MCEtl -------------------------------
(* Two state tables (one for lane "csv", which takes no more), a schema    *)
(* whose edit drops the last_seen column, runs that yield too few rows,    *)
(* enough to load, or enough to be ready.                                  *)
EXTENDS Etl

MCLoads == [pg |-> <<"alliances", "players">>, csv |-> <<"players">>,
            seed |-> <<"alliances", "players">>]
=============================================================================
