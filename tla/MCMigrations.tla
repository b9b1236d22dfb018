---------------------------- MODULE MCMigrations ----------------------------
(* Migrations for TLC: processes of the current build, of the release      *)
(* before, and of a build edited after its first migration.                *)
EXTENDS Migrations

CONSTANTS p1, p2, p3

Current == [i \in 1..3 |-> <<"released", i>>]
Edited  == [i \in 1..3 |-> IF i > 1 THEN <<"edited", i>> ELSE <<"released", i>>]
AllChecksums == {"released", "edited"} \X (1..3)

EditedLatest == [p \in {p1, p2, p3} |-> IF p = p2 THEN 2 ELSE 3]
EditedShips  == [p \in {p1, p2, p3} |-> IF p = p3 THEN Edited ELSE Current]
=============================================================================
