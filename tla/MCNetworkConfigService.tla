------------------------ MODULE MCNetworkConfigService ------------------------
(***************************************************************************)
(* Two nodes: four VLANs of one to three interfaces on the first, two of   *)
(* one interface on the second.  The second upload has only the first      *)
(* node.                                                                   *)
(***************************************************************************)
EXTENDS NetworkConfigService

CONSTANTS n1, n2

MCNodes == {n1, n2}

RowsN1 == [node : {n1}, vlan : {100}, num : {1}]
          \cup [node : {n1}, vlan : {200, 300}, num : {1, 2}]
          \cup [node : {n1}, vlan : {400}, num : {1, 2, 3}]

RowsN2 == [node : {n2}, vlan : {100, 200}, num : {1}]

MCRows == RowsN1 \cup RowsN2

MCUploads == {MCRows, RowsN1}
=============================================================================
