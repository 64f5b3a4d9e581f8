----------------------------- MODULE MCVmService -----------------------------
(***************************************************************************)
(* Small instances of the manager.                                         *)
(***************************************************************************)
EXTENDS VmService

CONSTANTS n1, n2

\* Two nodes, only the first one with interfaces.
TwoNodes == {n1, n2}

\* One node with interfaces for two VMs.
OneNode == {n1}

OneNodeRows == [node : {n1}, vlan : {100}, num : {1, 2}]
=============================================================================
