---------------------------- MODULE MCMigrations ----------------------------
(* Migrations for TLC. *)
EXTENDS Migrations

CONSTANTS p1, p2

AllStages == {"up1", "force", "steps", "up2", "serving"}
=============================================================================
