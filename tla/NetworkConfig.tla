---------------------------- MODULE NetworkConfig ----------------------------
(***************************************************************************)
(* The interface table of the virtcca_deploy manager (SQL table            *)
(* network_config) and the operations of NetworkConfigService on it.       *)
(*                                                                         *)
(* A row is one SR-IOV interface of a compute node: its node, its VLAN id  *)
(* and its place in the order of the primary key (num).  The MAC, the IP   *)
(* address, the mask and the gateway are payload and left out.  A table is *)
(* a function from the rows it holds to the VM a row is used by, or Unused *)
(* (the columns status and vm_id always change together).                  *)
(*                                                                         *)
(* A VM id is "<nodename>-<number>": a record of its node and its number.  *)
(***************************************************************************)
EXTENDS Integers, FiniteSets

CONSTANTS Nodes,      \* registered compute nodes
          MaxVmNum,   \* max_vm_num of the deployment specification
          Rows,       \* every interface row a table may hold
          PfNum,      \* net_pf_num: interfaces each VM needs
          Unused      \* what an unused row maps to

VMs == [node : Nodes, num : 1 .. MaxVmNum]

\* Rows are told apart by their node, their VLAN and their place.
ASSUME NetworkConfigAssumption ==
  /\ IsFiniteSet(Nodes) /\ IsFiniteSet(Rows)
  /\ \A q, r \in Rows : q.node = r.node /\ q.vlan = r.vlan /\ q.num = r.num => q = r
  /\ MaxVmNum \in Nat \ {0}
  /\ PfNum \in Nat \ {0}
  /\ \A r \in Rows : r.node \in Nodes /\ r.vlan \in Nat /\ r.num \in Nat
  /\ Unused \notin VMs

\* tab is a table: some of the rows, each used by one VM or unused.
IsTable(tab) == /\ DOMAIN tab \subseteq Rows
                /\ tab \in [DOMAIN tab -> VMs \cup {Unused}]

(***************************************************************************)
(* get_unused_by_node, get_by_vm_id, count_by_status.                      *)
(***************************************************************************)
UnusedRows(tab, n) == {r \in DOMAIN tab : r.node = n /\ tab[r] = Unused}

RowsOf(tab, v) == {r \in DOMAIN tab : tab[r] = v}

HasUsed(tab) == \E r \in DOMAIN tab : tab[r] # Unused

-----------------------------------------------------------------------------
(***************************************************************************)
(* The VLAN-aware allocation.  free is the set of unused rows of the node. *)
(* SelectedVlans are the PfNum smallest VLAN ids that have a free row.     *)
(***************************************************************************)
VlanIds(free) == {r.vlan : r \in free}

VlanGroup(free, vl) == {r \in free : r.vlan = vl}

\* Faulty variant: one VLAN too many.
SelectedVlansOffByOne(free) ==
  {vl \in VlanIds(free) : Cardinality({w \in VlanIds(free) : w < vl}) <= PfNum}

SelectedVlans(free) ==
  {vl \in VlanIds(free) : Cardinality({w \in VlanIds(free) : w < vl}) < PfNum}

\* The index of a row in its VLAN group, and of a VM in the request.
RowIndex(free, r) ==
  Cardinality({q \in VlanGroup(free, r.vlan) : q.num < r.num})

VmIndex(vms, v) == Cardinality({w \in vms : w.num < v.num})

\* The checks that precede an allocation for the VMs vms of node n.
CanAllocate(tab, n, vms) ==
  LET free == UnusedRows(tab, n) IN
  /\ free # {}
  /\ Cardinality(free) >= Cardinality(vms) * PfNum
  /\ Cardinality(VlanIds(free)) >= PfNum
  /\ \A vl \in SelectedVlans(free) :
       Cardinality(VlanGroup(free, vl)) >= Cardinality(vms)

\* The i-th VM takes the i-th free row of every selected VLAN.
Takes(free, vms, r, v) ==
  /\ r \in free
  /\ r.vlan \in SelectedVlans(free)
  /\ v \in vms
  /\ RowIndex(free, r) = VmIndex(vms, v)

Allocate(tab, n, vms) ==
  LET free == UnusedRows(tab, n) IN
  [r \in DOMAIN tab |->
     IF \E v \in vms : Takes(free, vms, r, v)
     THEN CHOOSE v \in vms : Takes(free, vms, r, v)
     ELSE tab[r]]

(***************************************************************************)
(* release_ips_for_vms: every row of every VM of the list becomes unused.  *)
(***************************************************************************)
Release(tab, vms) ==
  [r \in DOMAIN tab |-> IF tab[r] \in vms THEN Unused ELSE tab[r]]
=============================================================================
