---------------------------- MODULE MCMigrations ----------------------------
(***************************************************************************)
(* A small instance of Migrations for TLC: a server of an older release    *)
(* and two of a newer one, which has a file that sorts before the older    *)
(* one.  That file cannot run twice, the other one can.                    *)
(***************************************************************************)
EXTENDS Migrations, TLC

CONSTANTS older, newer, restarted

MCDir == older :> {2} @@ newer :> {1, 2} @@ restarted :> {1, 2}
=============================================================================
