------------------------- MODULE NetworkConfigService -------------------------
(***************************************************************************)
(* NetworkConfigService on its own: the interface table under uploads of a *)
(* new network configuration, allocations for a deployment and releases,   *)
(* with a crash of the manager between the two commits of an upload.       *)
(*                                                                         *)
(* Every operation holds the service's lock, so allocations and releases   *)
(* are single steps.  An upload clears the table and stores the new rows   *)
(* in two transactions; uploading is the row set still to be stored.       *)
(***************************************************************************)
EXTENDS NetworkConfig

CONSTANT Uploads     \* the row sets an uploaded file may describe

ASSUME UploadsAssumption == Uploads \subseteq (SUBSET Rows)

VARIABLES table,     \* the table network_config
          uploading, \* TRUE between the two transactions of an upload
          incoming   \* the rows the current upload will store

vars == <<table, uploading, incoming>>

Init == /\ table \in {[r \in R |-> Unused] : R \in Uploads}
        /\ uploading = FALSE
        /\ incoming = {}

-----------------------------------------------------------------------------
(***************************************************************************)
(* validate_and_store_yaml.  A file that does not parse, or any used row,  *)
(* makes it return before the table is touched.  The batch insert fails as *)
(* a whole when a node lists a MAC address twice (uq_node_mac), which the  *)
(* parser does not look for; the table then stays empty.                   *)
(***************************************************************************)
\* Faulty variant: the check for used rows is missing.
UploadClearUnchecked(R) ==
  /\ ~uploading
  /\ R # {}
  /\ table' = <<>>
  /\ uploading' = TRUE
  /\ incoming' = R

UploadClear(R) ==
  /\ ~uploading
  /\ R # {}
  /\ ~HasUsed(table)
  /\ table' = <<>>
  /\ uploading' = TRUE
  /\ incoming' = R

UploadStore ==
  /\ uploading
  /\ table' = [r \in incoming |-> Unused]
  /\ uploading' = FALSE
  /\ incoming' = {}

UploadRejected ==
  /\ uploading
  /\ uploading' = FALSE
  /\ incoming' = {}
  /\ UNCHANGED table

AllocateIps(n, vms) ==
  /\ ~uploading
  /\ CanAllocate(table, n, vms)
  /\ table' = Allocate(table, n, vms)
  /\ UNCHANGED <<uploading, incoming>>

ReleaseIps(vms) ==
  /\ ~uploading
  /\ table' = Release(table, vms)
  /\ UNCHANGED <<uploading, incoming>>

\* A crash of the manager loses the upload in progress.
Crash ==
  /\ uploading
  /\ uploading' = FALSE
  /\ incoming' = {}
  /\ UNCHANGED table

Next ==
  \/ \E R \in Uploads : UploadClear(R)
  \/ UploadStore
  \/ UploadRejected
  \/ \E n \in Nodes : \E vms \in SUBSET {v \in VMs : v.node = n} :
        vms # {} /\ AllocateIps(n, vms)
  \/ \E vms \in SUBSET VMs : vms # {} /\ ReleaseIps(vms)
  \/ Crash

Spec == Init /\ [][Next]_vars

-----------------------------------------------------------------------------
\* The table maps known rows to VMs or Unused.
TypeOK == /\ IsTable(table)
          /\ uploading \in BOOLEAN
          /\ incoming \in SUBSET Rows

(***************************************************************************)
(* What an allocation promises, stated without the algorithm: Gained(v)    *)
(* are the rows v receives in a step.                                      *)
(***************************************************************************)
Gained(v) == {r \in DOMAIN table \cap DOMAIN table' :
                table[r] # v /\ table'[r] = v}

VlansGained(v) == {r.vlan : r \in Gained(v)}

\* allocate_ips_for_deployment gives every VM of the request PfNum rows of
\* PfNum different VLANs of its own node, all VMs the same VLANs, and takes no
\* row that another VM uses.
AllocationShape ==
  [][LET winners == {v \in VMs : Gained(v) # {}} IN
     /\ \A v \in winners :
          /\ Cardinality(Gained(v)) = PfNum
          /\ Cardinality(VlansGained(v)) = PfNum
          /\ \A r \in Gained(v) : r.node = v.node /\ table[r] = Unused
     /\ \A v, w \in winners : VlansGained(v) = VlansGained(w)]_vars

\* validate_and_store_yaml never takes a row away from a VM that uses it: only
\* a release of that VM does, whatever uploads and crashes happen.
UsedRowsStay ==
  [][\A r \in DOMAIN table :
       table[r] # Unused => r \in DOMAIN table' /\ table'[r] \in {table[r], Unused}]_vars
=============================================================================
