---------------------------- MODULE MCHostMigAgent ----------------------------
(* Three VMs: the name of the first is the beginning of the second's, the third *)
(* is unrelated.  Four migrations let a session overlap later connections.      *)
EXTENDS HostMigAgent

CONSTANTS v1, v2, v3
MCNameOf == [v \in {v1, v2, v3} |-> IF v = v1 THEN <<1>> ELSE IF v = v2 THEN <<1, 2>> ELSE <<3>>]
=============================================================================
