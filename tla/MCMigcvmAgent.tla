----------------------------- MODULE MCMigcvmAgent -----------------------------
(* Two migrations and two commands of each kind for each: enough for a retry   *)
(* of the first migration to meet the server of the second.                    *)
EXTENDS MigcvmAgent
=============================================================================
