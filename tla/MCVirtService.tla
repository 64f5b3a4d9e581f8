---------------------------- MODULE MCVirtService ----------------------------
(***************************************************************************)
(* Small instances of a compute node.  The VMs are interchangeable.        *)
(***************************************************************************)
EXTENDS VirtService, TLC

Symmetry == Permutations(VMs)

\* Bound: a state in which more than three things went wrong for some VM (an overlap
\* of requests, a failed undeployment, a failed or missed removal) is checked, and
\* not continued.
FewFaults ==
  Cardinality(contested) + Cardinality(refused) + Cardinality(unfreed) + Cardinality(strays) <= 3
=============================================================================
