------------------------------ MODULE MCMigrate -----------------------------
(* Two programs, four starts: both may be killed and come back while the   *)
(* other is anywhere in its Migrate.                                       *)
EXTENDS Migrate

CONSTANTS p1, p2, nobody

MCPrograms == {p1, p2}
=============================================================================
