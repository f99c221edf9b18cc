----------------------------- MODULE MCMigrations -----------------------------
(* The instance of Migrations for TLC.                                      *)
EXTENDS Migrations

CONSTANTS u1, u2, s1, s2
=============================================================================
