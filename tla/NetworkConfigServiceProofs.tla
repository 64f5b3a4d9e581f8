---------------------- MODULE NetworkConfigServiceProofs ----------------------
(***************************************************************************)
(* The interface table keeps its type, an interface in use stays with its  *)
(* VM until it is released, and an allocation gives every VM one interface *)
(* of each of PfNum VLANs, for any nodes, interfaces and uploads.          *)
(***************************************************************************)
EXTENDS NetworkConfigService, NetworkConfigProofs

\* Between the two transactions of an upload the table is empty.
EmptyWhileUploading == uploading => DOMAIN table = {}

UInv == TypeOK /\ EmptyWhileUploading

\* A used row stays, or is released: the step of UsedRowsStay.
RowsStay ==
  \A r \in DOMAIN table :
    table[r] # Unused => r \in DOMAIN table' /\ table'[r] \in {table[r], Unused}

\* Every step of the service keeps the invariant and the rows in use.
LEMMA ServiceStep == UInv /\ Next => UInv' /\ RowsStay
<1> SUFFICES ASSUME UInv, Next PROVE UInv' /\ RowsStay
  OBVIOUS
<1> USE DEF UInv, TypeOK, EmptyWhileUploading
<1>1. ASSUME NEW R \in Uploads, UploadClear(R) PROVE UInv' /\ RowsStay
  <2>1. DOMAIN table' = {}
    BY <1>1 DEF UploadClear
  <2>2. IsTable(table')
    BY <1>1, <2>1 DEF UploadClear, IsTable
  <2>3. RowsStay
    BY <1>1 DEF UploadClear, HasUsed, RowsStay
  <2>4. R \in SUBSET Rows
    BY UploadsAssumption
  <2>5. QED
    BY <1>1, <2>1, <2>2, <2>3, <2>4 DEF UploadClear, IsTable
<1>2. CASE UploadStore
  <2>1. DOMAIN table = {}
    BY <1>2 DEF UploadStore
  <2>2. IsTable(table')
    BY <1>2 DEF UploadStore, IsTable
  <2>3. QED
    BY <1>2, <2>1, <2>2 DEF UploadStore, RowsStay, IsTable
<1>3. CASE UploadRejected \/ Crash
  BY <1>3 DEF UploadRejected, Crash, RowsStay, IsTable
<1>4. ASSUME NEW n \in Nodes, NEW vms \in SUBSET {v \in VMs : v.node = n}, AllocateIps(n, vms)
      PROVE  UInv' /\ RowsStay
  <2>1. /\ ~uploading /\ table' = Allocate(table, n, vms)
        /\ UNCHANGED <<uploading, incoming>>
    BY <1>4 DEF AllocateIps
  <2>2. /\ DOMAIN table' = DOMAIN table
        /\ \A r \in DOMAIN table :
             table'[r] = table[r] \/ (table[r] = Unused /\ table'[r] \in vms)
    BY <2>1, AllocateRows
  <2>3. table' = [r \in DOMAIN table |-> table'[r]]
    BY <2>1, <2>2 DEF Allocate
  <2>4. \A r \in DOMAIN table : table'[r] \in VMs \cup {Unused}
    BY <2>2 DEF IsTable
  <2>5. IsTable(table')
    BY <2>2, <2>3, <2>4 DEF IsTable
  <2>6. RowsStay
    BY <2>2 DEF RowsStay
  <2>7. QED
    BY <2>1, <2>5, <2>6 DEF IsTable
<1>5. ASSUME NEW vms \in SUBSET VMs, ReleaseIps(vms) PROVE UInv' /\ RowsStay
  <2>1. /\ ~uploading /\ table' = Release(table, vms)
        /\ UNCHANGED <<uploading, incoming>>
    BY <1>5 DEF ReleaseIps
  <2>2. /\ DOMAIN table' = DOMAIN table
        /\ \A r \in DOMAIN table : table'[r] \in {table[r], Unused}
    BY <2>1, ReleaseRows
  <2>3. IsTable(table')
    BY <2>1, <2>2 DEF IsTable, Release
  <2>4. QED
    BY <2>1, <2>2, <2>3 DEF RowsStay, IsTable
<1>6. QED
  BY <1>1, <1>2, <1>3, <1>4, <1>5 DEF Next

\* The initial table holds the rows of one upload, all unused.
LEMMA ServiceInit == Init => UInv
<1> SUFFICES ASSUME Init PROVE UInv
  OBVIOUS
<1>1. PICK R \in Uploads : table = [r \in R |-> Unused]
  BY DEF Init
<1>2. R \subseteq Rows
  BY UploadsAssumption
<1>3. IsTable(table)
  BY <1>1, <1>2 DEF IsTable
<1>4. QED
  BY <1>3 DEF Init, UInv, TypeOK, EmptyWhileUploading

\* The table only ever holds known rows, each unused or used by one VM.
THEOREM TypeCorrect == Spec => []TypeOK
<1>1. UInv /\ UNCHANGED vars => UInv'
  BY DEF UInv, TypeOK, EmptyWhileUploading, vars, IsTable
<1>2. UInv => TypeOK
  BY DEF UInv
<1>3. QED
  BY <1>1, <1>2, ServiceInit, ServiceStep, PTL DEF Spec

\* No upload, allocation or crash takes an interface from the VM that uses it: it
\* stays in the table with that VM until it is released.
THEOREM UsedRowsStayHolds == Spec => UsedRowsStay
<1>1. UInv /\ UNCHANGED vars => UInv'
  BY DEF UInv, TypeOK, EmptyWhileUploading, vars, IsTable
<1>2. UInv /\ [Next]_vars =>
        [\A r \in DOMAIN table :
           table[r] # Unused => r \in DOMAIN table' /\ table'[r] \in {table[r], Unused}]_vars
  BY ServiceStep DEF RowsStay
<1>3. QED
  BY <1>1, <1>2, ServiceInit, ServiceStep, PTL DEF Spec, UsedRowsStay

-----------------------------------------------------------------------------
(***************************************************************************)
(* What a step gives to the VMs.                                           *)
(***************************************************************************)

\* The rows v gains are PfNum unused rows of its node.
FullSet(v) == /\ Cardinality(Gained(v)) = PfNum
              /\ Cardinality(VlansGained(v)) = PfNum
              /\ \A r \in Gained(v) : r.node = v.node /\ table[r] = Unused

\* The step of AllocationShape.
Shaped == LET winners == {v \in VMs : Gained(v) # {}} IN
          /\ \A v \in winners : FullSet(v)
          /\ \A v, w \in winners : VlansGained(v) = VlansGained(w)

\* Only an allocation gives rows to VMs.
LEMMA NothingGained ==
  ASSUME UInv, Next, \A r \in DOMAIN table \cap DOMAIN table' : table'[r] \in {table[r], Unused}
  PROVE  Shaped
<1>1. \A v \in VMs : Gained(v) = {}
  BY NetworkConfigAssumption DEF Gained
<1>2. QED
  BY <1>1 DEF Shaped

\* An allocation gives a full set of interfaces, of the same VLANs, to each VM.
LEMMA AllocationGains ==
  ASSUME UInv, NEW n \in Nodes, NEW vms \in SUBSET {v \in VMs : v.node = n}, AllocateIps(n, vms)
  PROVE  Shaped
<1>1. DOMAIN table \subseteq Rows /\ CanAllocate(table, n, vms) /\ table' = Allocate(table, n, vms)
  BY DEF AllocateIps, UInv, TypeOK, IsTable
<1>2. /\ DOMAIN table' = DOMAIN table
      /\ \A r \in DOMAIN table : table'[r] = table[r] \/ (table[r] = Unused /\ table'[r] \in vms)
  BY <1>1, AllocateRows
<1>3. \A v \in VMs \ vms : Gained(v) = {}
  BY <1>2 DEF Gained
<1>4. ASSUME NEW v \in vms
      PROVE  FullSet(v) /\ VlansGained(v) = SelectedVlans(UnusedRows(table, n))
  <2> DEFINE given == Given(table, n, vms, v)
  <2>1. /\ \A r \in DOMAIN table : table'[r] = v <=> table[r] = v \/ r \in given
        /\ \A r \in given : table[r] = Unused /\ r.node = n
    BY <1>1, GivenRows
  <2>2. v \in VMs /\ v.node = n /\ v # Unused
    BY NetworkConfigAssumption
  <2>3. given \subseteq DOMAIN table
    BY DEF Given
  <2>4. Gained(v) = given
    BY <1>2, <2>1, <2>2, <2>3 DEF Gained
  <2>5. /\ Cardinality(given) = PfNum
        /\ {r.vlan : r \in given} = SelectedVlans(UnusedRows(table, n))
        /\ Cardinality(SelectedVlans(UnusedRows(table, n))) = PfNum
    BY <1>1, GivenShape
  <2> HIDE DEF given
  <2>6. QED
    BY <2>1, <2>2, <2>4, <2>5 DEF FullSet, VlansGained
<1>5. QED
  BY <1>3, <1>4 DEF Shaped

\* Every step of the service gives full sets of interfaces or none.
LEMMA StepGains == UInv /\ Next => Shaped
<1> SUFFICES ASSUME UInv, Next PROVE Shaped
  OBVIOUS
<1>1. ASSUME NEW R \in Uploads, UploadClear(R) PROVE Shaped
  BY <1>1, NothingGained DEF UploadClear
<1>2. CASE UploadStore
  <2>1. \A r \in DOMAIN table' : table'[r] = Unused
    BY <1>2 DEF UploadStore
  <2>2. QED
    BY <2>1, NothingGained
<1>3. CASE UploadRejected \/ Crash
  BY <1>3, NothingGained DEF UploadRejected, Crash
<1>4. ASSUME NEW n \in Nodes, NEW vms \in SUBSET {v \in VMs : v.node = n}, AllocateIps(n, vms)
      PROVE  Shaped
  BY <1>4, AllocationGains
<1>5. ASSUME NEW vms \in SUBSET VMs, ReleaseIps(vms) PROVE Shaped
  <2>1. \A r \in DOMAIN table : table'[r] \in {table[r], Unused}
    BY <1>5, ReleaseRows DEF ReleaseIps
  <2>2. QED
    BY <2>1, NothingGained
<1>6. QED
  BY <1>1, <1>2, <1>3, <1>4, <1>5 DEF Next

\* allocate_ips_for_deployment, and nothing else, gives interfaces to VMs: PfNum
\* unused ones of PfNum VLANs of the VM's own node, to all VMs of the same VLANs.
THEOREM AllocationShapeHolds == Spec => AllocationShape
<1>1. UInv /\ UNCHANGED vars => UInv'
  BY DEF UInv, TypeOK, EmptyWhileUploading, vars, IsTable
<1>2. UInv /\ [Next]_vars =>
        [LET winners == {v \in VMs : Gained(v) # {}} IN
         /\ \A v \in winners :
              /\ Cardinality(Gained(v)) = PfNum
              /\ Cardinality(VlansGained(v)) = PfNum
              /\ \A r \in Gained(v) : r.node = v.node /\ table[r] = Unused
         /\ \A v, w \in winners : VlansGained(v) = VlansGained(w)]_vars
  BY StepGains DEF Shaped, FullSet
<1>3. QED
  BY <1>1, <1>2, ServiceInit, ServiceStep, PTL DEF Spec, AllocationShape
=============================================================================
