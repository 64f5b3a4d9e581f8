------------------------- MODULE NetworkConfigProofs -------------------------
(***************************************************************************)
(* What the operations on the interface table do, for any table: which     *)
(* rows an allocation and a release touch, and that an allocation whose    *)
(* checks pass gives every VM one row of each selected VLAN.               *)
(***************************************************************************)
EXTENDS NetworkConfig, FiniteSetTheorems, TLAPS

-----------------------------------------------------------------------------
(***************************************************************************)
(* Indices.  The algorithm sorts rows, VLANs and VMs and takes them by     *)
(* position; the model counts the smaller ones.                            *)
(***************************************************************************)
Below(S, key, x) == {w \in S : key[w] < key[x]}

\* The positions of the members of a finite set, ordered by distinct integer
\* keys, are 0, 1, ... up to the size of the set.
LEMMA Positions ==
  ASSUME NEW S, IsFiniteSet(S), NEW key \in [S -> Int],
         \A x, y \in S : key[x] = key[y] => x = y
  PROVE  /\ \A x \in S : Cardinality(Below(S, key, x)) \in 0 .. Cardinality(S) - 1
         /\ \A x, y \in S : Cardinality(Below(S, key, x)) = Cardinality(Below(S, key, y)) => x = y
         /\ \A i \in 0 .. Cardinality(S) - 1 : \E x \in S : Cardinality(Below(S, key, x)) = i
<1> DEFINE c(x) == Cardinality(Below(S, key, x))
           f == [x \in S |-> c(x)]
           T == 0 .. Cardinality(S) - 1
<1>1. Cardinality(S) \in Nat
  BY FS_CardinalityType
<1>2. ASSUME NEW x \in S PROVE c(x) \in T
  <2>1. Below(S, key, x) \in SUBSET S /\ x \notin Below(S, key, x)
    BY DEF Below
  <2>2. IsFiniteSet(Below(S, key, x)) /\ c(x) <= Cardinality(S) /\ c(x) # Cardinality(S)
    BY <2>1, FS_Subset
  <2>3. c(x) \in Nat
    BY <2>2, FS_CardinalityType
  <2>4. QED
    BY <1>1, <2>2, <2>3
<1>3. ASSUME NEW x \in S, NEW y \in S, key[x] < key[y] PROVE c(x) # c(y)
  <2>1. /\ Below(S, key, x) \in SUBSET Below(S, key, y)
        /\ x \in Below(S, key, y) /\ x \notin Below(S, key, x)
    BY <1>3 DEF Below
  <2>2. IsFiniteSet(Below(S, key, y))
    BY FS_Subset DEF Below
  <2>3. QED
    BY <2>1, <2>2, FS_Subset
<1>4. ASSUME NEW x \in S, NEW y \in S, c(x) = c(y) PROVE x = y
  <2>1. key[x] \in Int /\ key[y] \in Int
    OBVIOUS
  <2>2. ~(key[x] < key[y]) /\ ~(key[y] < key[x])
    BY <1>3, <1>4
  <2>3. key[x] = key[y]
    BY <2>1, <2>2
  <2>4. QED
    BY <2>3
<1> HIDE DEF c
<1>5. f \in Injection(S, T)
  BY <1>2, <1>4 DEF Injection, IsInjective
<1>6. IsFiniteSet(T) /\ Cardinality(T) = Cardinality(S)
  BY <1>1, FS_Interval
<1>7. f \in Surjection(S, T)
  BY <1>5, <1>6, FS_Injection
<1>8. \A i \in T : \E x \in S : c(x) = i
  BY <1>7 DEF Surjection
<1>9. QED
  BY <1>2, <1>4, <1>8 DEF c

\* Sets that a relation pairs off one to one are of the same size.
LEMMA SameSize ==
  ASSUME NEW S, NEW T, IsFiniteSet(T), NEW f \in [S -> T],
         \A x, y \in S : f[x] = f[y] => x = y,
         \A z \in T : \E x \in S : f[x] = z
  PROVE  Cardinality(S) = Cardinality(T)
<1>1. f \in Injection(S, T) /\ f \in Surjection(S, T)
  BY DEF Injection, Surjection, IsInjective
<1>2. QED
  BY <1>1, FS_Injection

-----------------------------------------------------------------------------
(***************************************************************************)
(* The rows that an allocation and a release touch.                        *)
(***************************************************************************)

\* An allocation gives unused rows of the node to VMs of the request and leaves
\* the others.
LEMMA AllocateRows ==
  ASSUME NEW tab, NEW n, NEW vms
  PROVE  /\ DOMAIN Allocate(tab, n, vms) = DOMAIN tab
         /\ \A r \in DOMAIN tab :
              \/ Allocate(tab, n, vms)[r] = tab[r]
              \/ tab[r] = Unused /\ r.node = n /\ Allocate(tab, n, vms)[r] \in vms
<1>1. DOMAIN Allocate(tab, n, vms) = DOMAIN tab
  BY DEF Allocate
<1>2. ASSUME NEW r \in DOMAIN tab
      PROVE  \/ Allocate(tab, n, vms)[r] = tab[r]
             \/ tab[r] = Unused /\ r.node = n /\ Allocate(tab, n, vms)[r] \in vms
  <2> DEFINE free == UnusedRows(tab, n)
  <2> DEFINE T(v) == Takes(free, vms, r, v)
  <2>1. CASE \E v \in vms : T(v)
    <3>1. PICK v \in vms : T(v)
      BY <2>1
    <3>2. r \in free
      BY <3>1 DEF Takes
    <3>3. tab[r] = Unused /\ r.node = n
      BY <3>2 DEF UnusedRows
    <3>4. (CHOOSE w \in vms : T(w)) \in vms
      <4> HIDE DEF T
      <4>1. QED
        BY <2>1
    <3>5. Allocate(tab, n, vms)[r] = CHOOSE w \in vms : T(w)
      BY <2>1 DEF Allocate
    <3>6. QED
      BY <3>3, <3>4, <3>5
  <2>2. CASE ~ \E v \in vms : T(v)
    BY <2>2 DEF Allocate
  <2>3. QED
    BY <2>1, <2>2
<1>3. QED
  BY <1>1, <1>2

\* A release gives back the rows of the VMs named and changes nothing else.
LEMMA ReleaseRows ==
  ASSUME NEW tab, NEW vms
  PROVE  /\ DOMAIN Release(tab, vms) = DOMAIN tab
         /\ \A r \in DOMAIN tab : Release(tab, vms)[r] = IF tab[r] \in vms THEN Unused ELSE tab[r]
BY DEF Release

\* The VMs of a request have different indices.
LEMMA VmPositions ==
  ASSUME NEW n, NEW vms \in SUBSET {v \in VMs : v.node = n}
  PROVE  /\ \A v \in vms : VmIndex(vms, v) \in 0 .. Cardinality(vms) - 1
         /\ \A v, w \in vms : VmIndex(vms, v) = VmIndex(vms, w) => v = w
         /\ IsFiniteSet(vms)
<1> DEFINE key == [v \in vms |-> v.num]
<1>1. \A v \in vms : v.num \in 1 .. MaxVmNum /\ v.node = n /\ v = [node |-> v.node, num |-> v.num]
  BY DEF VMs
<1>2. \A v, w \in vms : v.num = w.num => v = w
  BY <1>1
<1>3. key \in [vms -> 1 .. MaxVmNum]
  BY <1>1
<1>4. MaxVmNum \in Nat
  BY NetworkConfigAssumption
<1>5. IsFiniteSet(vms)
  <2>1. key \in Injection(vms, 1 .. MaxVmNum)
    BY <1>2, <1>3 DEF Injection, IsInjective
  <2>2. IsFiniteSet(1 .. MaxVmNum)
    BY <1>4, FS_Interval
  <2>3. QED
    BY <2>1, <2>2, FS_Injection
<1>6. key \in [vms -> Int] /\ \A v, w \in vms : key[v] = key[w] => v = w
  BY <1>2, <1>3, <1>4
<1>7. ASSUME NEW v \in vms PROVE VmIndex(vms, v) = Cardinality(Below(vms, key, v))
  BY DEF Below, VmIndex
<1> HIDE DEF key
<1>8. /\ \A v \in vms : Cardinality(Below(vms, key, v)) \in 0 .. Cardinality(vms) - 1
      /\ \A v, w \in vms : Cardinality(Below(vms, key, v)) = Cardinality(Below(vms, key, w)) => v = w
  BY <1>5, <1>6, Positions
<1>9. QED
  BY <1>5, <1>7, <1>8

\* Every index below the size of a VLAN's free rows is the index of one of them.
LEMMA RowPositions ==
  ASSUME NEW tab, DOMAIN tab \subseteq Rows, NEW n, NEW vl
  PROVE  LET free == UnusedRows(tab, n)
             group == VlanGroup(free, vl)
         IN  /\ \A q, r \in group : RowIndex(free, q) = RowIndex(free, r) => q = r
             /\ \A i \in 0 .. Cardinality(group) - 1 : \E r \in group : RowIndex(free, r) = i
<1> DEFINE free == UnusedRows(tab, n)
           group == VlanGroup(free, vl)
           key == [r \in group |-> r.num]
<1>1. group \subseteq Rows /\ \A r \in group : r.node = n /\ r.vlan = vl /\ r.num \in Nat
  BY NetworkConfigAssumption DEF UnusedRows, VlanGroup
<1>2. IsFiniteSet(group)
  BY <1>1, NetworkConfigAssumption, FS_Subset
<1>3. \A q, r \in group : q.num = r.num => q = r
  BY <1>1, NetworkConfigAssumption
<1>4. key \in [group -> Int] /\ \A q, r \in group : key[q] = key[r] => q = r
  BY <1>1, <1>3
<1>5. ASSUME NEW r \in group PROVE RowIndex(free, r) = Cardinality(Below(group, key, r))
  <2>1. VlanGroup(free, r.vlan) = group
    BY <1>1
  <2>2. Below(group, key, r) = {q \in group : q.num < r.num}
    BY DEF Below
  <2>3. QED
    BY <2>1, <2>2 DEF RowIndex
<1> HIDE DEF key, group, free
<1>6. /\ \A q, r \in group : RowIndex(free, q) = RowIndex(free, r) => q = r
      /\ \A i \in 0 .. Cardinality(group) - 1 : \E r \in group : RowIndex(free, r) = i
  BY <1>2, <1>4, <1>5, Positions
<1>7. QED
  BY <1>6 DEF group, free

\* Where there are enough VLANs, PfNum of them are selected.
LEMMA VlansSelected ==
  ASSUME NEW tab, DOMAIN tab \subseteq Rows, NEW n,
         Cardinality(VlanIds(UnusedRows(tab, n))) >= PfNum
  PROVE  LET sel == SelectedVlans(UnusedRows(tab, n))
         IN  IsFiniteSet(sel) /\ Cardinality(sel) = PfNum
<1> DEFINE free == UnusedRows(tab, n)
           ids == VlanIds(free)
           key == [vl \in ids |-> vl]
           sel == SelectedVlans(free)
           pos == [vl \in sel |-> Cardinality(Below(ids, key, vl))]
<1>1. IsFiniteSet(free) /\ ids \subseteq Nat
  BY NetworkConfigAssumption, FS_Subset DEF UnusedRows, VlanIds
<1>2. IsFiniteSet(ids)
  <2>1. [r \in free |-> r.vlan] \in Surjection(free, ids)
    BY DEF Surjection, VlanIds
  <2>2. QED
    BY <1>1, <2>1, FS_Surjection
<1>3. key \in [ids -> Int] /\ \A x, y \in ids : key[x] = key[y] => x = y
  BY <1>1
<1>4. ASSUME NEW vl \in ids PROVE Below(ids, key, vl) = {w \in ids : w < vl}
  BY DEF Below
<1>5. PfNum \in Nat
  BY NetworkConfigAssumption
<1>6. Cardinality(ids) \in Nat
  BY <1>2, FS_CardinalityType
<1>7. sel = {vl \in ids : Cardinality(Below(ids, key, vl)) < PfNum}
  BY <1>4 DEF SelectedVlans
<1>8. Cardinality(ids) >= PfNum
  OBVIOUS
<1> HIDE DEF key, ids, free, sel
<1>9. /\ \A x \in ids : Cardinality(Below(ids, key, x)) \in 0 .. Cardinality(ids) - 1
      /\ \A x, y \in ids : Cardinality(Below(ids, key, x)) = Cardinality(Below(ids, key, y)) => x = y
      /\ \A i \in 0 .. Cardinality(ids) - 1 : \E x \in ids : Cardinality(Below(ids, key, x)) = i
  BY <1>2, <1>3, Positions
<1>10. pos \in [sel -> 0 .. PfNum - 1]
  BY <1>5, <1>6, <1>7, <1>9
<1>11. \A x, y \in sel : pos[x] = pos[y] => x = y
  BY <1>7, <1>9
<1>12. \A i \in 0 .. PfNum - 1 : \E x \in sel : pos[x] = i
  <2> SUFFICES ASSUME NEW i \in 0 .. PfNum - 1 PROVE \E x \in sel : pos[x] = i
    OBVIOUS
  <2>1. i \in 0 .. Cardinality(ids) - 1 /\ i < PfNum
    BY <1>5, <1>6, <1>8
  <2>2. PICK x \in ids : Cardinality(Below(ids, key, x)) = i
    BY <1>9, <2>1
  <2>3. x \in sel
    BY <1>7, <2>1, <2>2
  <2>4. QED
    BY <2>2, <2>3
<1> HIDE DEF pos
<1>13. IsFiniteSet(0 .. PfNum - 1) /\ Cardinality(0 .. PfNum - 1) = PfNum
  BY <1>5, FS_Interval
<1>14. Cardinality(sel) = PfNum
  BY <1>10, <1>11, <1>12, <1>13, SameSize
<1>15. IsFiniteSet(sel)
  BY <1>2, <1>7, FS_Subset
<1>16. QED
  BY <1>14, <1>15 DEF sel, free

-----------------------------------------------------------------------------
(***************************************************************************)
(* What an allocation gives to one VM.                                     *)
(***************************************************************************)
Given(tab, n, vms, v) == {r \in DOMAIN tab : Takes(UnusedRows(tab, n), vms, r, v)}

\* After an allocation a VM of the request uses what it used before and the rows
\* given to it.
LEMMA GivenRows ==
  ASSUME NEW tab, NEW n, NEW vms \in SUBSET {v \in VMs : v.node = n}, NEW v \in vms
  PROVE  /\ \A r \in DOMAIN tab : Allocate(tab, n, vms)[r] = v <=> tab[r] = v \/ r \in Given(tab, n, vms, v)
         /\ \A r \in Given(tab, n, vms, v) : tab[r] = Unused /\ r.node = n
<1>1. ASSUME NEW r \in Given(tab, n, vms, v) PROVE tab[r] = Unused /\ r.node = n
  BY DEF Given, Takes, UnusedRows
<1>2. ASSUME NEW r \in DOMAIN tab
      PROVE  Allocate(tab, n, vms)[r] = v <=> tab[r] = v \/ r \in Given(tab, n, vms, v)
  <2> DEFINE free == UnusedRows(tab, n)
             T(w) == Takes(free, vms, r, w)
  <2>1. r \in Given(tab, n, vms, v) <=> T(v)
    BY DEF Given
  <2>2. CASE \E w \in vms : T(w)
    <3> DEFINE u == CHOOSE w \in vms : T(w)
    <3>1. u \in vms /\ T(u)
      <4> HIDE DEF T
      <4>1. QED
        BY <2>2
    <3>2. Allocate(tab, n, vms)[r] = u
      BY <2>2 DEF Allocate
    <3>3. tab[r] = Unused
      BY <3>1 DEF Takes, UnusedRows
    <3>4. tab[r] # v
      BY <3>3, NetworkConfigAssumption
    <3>5. ASSUME T(v) PROVE u = v
      <4>1. VmIndex(vms, u) = VmIndex(vms, v)
        BY <3>1, <3>5 DEF Takes
      <4> HIDE DEF u
      <4>2. QED
        BY <3>1, <4>1, VmPositions
    <3> HIDE DEF u
    <3>6. QED
      BY <2>1, <3>1, <3>2, <3>4, <3>5
  <2>3. CASE ~ \E w \in vms : T(w)
    <3>1. Allocate(tab, n, vms)[r] = tab[r]
      BY <2>3 DEF Allocate
    <3>2. QED
      BY <2>1, <2>3, <3>1
  <2>4. QED
    BY <2>2, <2>3
<1>3. QED
  BY <1>1, <1>2

\* When the checks pass, every VM of the request is given one row of each selected
\* VLAN: PfNum rows.
LEMMA GivenShape ==
  ASSUME NEW tab, DOMAIN tab \subseteq Rows, NEW n,
         NEW vms \in SUBSET {v \in VMs : v.node = n}, CanAllocate(tab, n, vms), NEW v \in vms
  PROVE  LET sel == SelectedVlans(UnusedRows(tab, n))
             given == Given(tab, n, vms, v)
         IN  /\ IsFiniteSet(given) /\ Cardinality(given) = PfNum
             /\ {r.vlan : r \in given} = sel
             /\ Cardinality(sel) = PfNum
<1> DEFINE free == UnusedRows(tab, n)
           sel == SelectedVlans(free)
           given == Given(tab, n, vms, v)
           vlan == [r \in given |-> r.vlan]
<1>1. /\ Cardinality(VlanIds(free)) >= PfNum
      /\ \A vl \in sel : Cardinality(VlanGroup(free, vl)) >= Cardinality(vms)
  BY DEF CanAllocate
<1>2. IsFiniteSet(sel) /\ Cardinality(sel) = PfNum
  BY <1>1, VlansSelected
<1>3. \A r : r \in given <=> r \in free /\ r.vlan \in sel /\ RowIndex(free, r) = VmIndex(vms, v)
  BY DEF Given, Takes, UnusedRows
<1>4. VmIndex(vms, v) \in 0 .. Cardinality(vms) - 1
  BY VmPositions
<1>5. \A vl \in sel : \E r \in given : r.vlan = vl
  <2> SUFFICES ASSUME NEW vl \in sel PROVE \E r \in given : r.vlan = vl
    OBVIOUS
  <2> DEFINE group == VlanGroup(free, vl)
  <2>1. IsFiniteSet(group) /\ IsFiniteSet(vms)
    BY VmPositions, NetworkConfigAssumption, FS_Subset DEF VlanGroup, UnusedRows
  <2>2. Cardinality(group) \in Nat /\ Cardinality(vms) \in Nat
    BY <2>1, FS_CardinalityType
  <2>3. VmIndex(vms, v) \in 0 .. Cardinality(group) - 1
    BY <1>1, <1>4, <2>2
  <2>4. \E r \in group : RowIndex(free, r) = VmIndex(vms, v)
    BY <2>3, RowPositions
  <2>5. \A r \in group : r \in free /\ r.vlan = vl
    BY DEF VlanGroup
  <2> HIDE DEF free, sel, given, group
  <2>6. QED
    BY <1>3, <2>4, <2>5
<1>6. \A q, r \in given : q.vlan = r.vlan => q = r
  <2> SUFFICES ASSUME NEW q \in given, NEW r \in given, q.vlan = r.vlan PROVE q = r
    OBVIOUS
  <2>1. q \in VlanGroup(free, r.vlan) /\ r \in VlanGroup(free, r.vlan)
    BY <1>3 DEF VlanGroup
  <2>2. RowIndex(free, q) = RowIndex(free, r)
    BY <1>3
  <2>3. QED
    BY <2>1, <2>2, RowPositions
<1>7. vlan \in [given -> sel]
  BY <1>3
<1>8. Cardinality(given) = Cardinality(sel)
  <2>1. \A q, r \in given : vlan[q] = vlan[r] => q = r
    BY <1>6
  <2>2. \A vl \in sel : \E r \in given : vlan[r] = vl
    BY <1>5
  <2> HIDE DEF vlan, given, sel
  <2>3. QED
    BY <1>2, <1>7, <2>1, <2>2, SameSize
<1>9. IsFiniteSet(given)
  BY <1>3, NetworkConfigAssumption, FS_Subset DEF UnusedRows
<1>10. {r.vlan : r \in given} = sel
  BY <1>3, <1>5
<1>11. QED
  BY <1>2, <1>8, <1>9, <1>10
=============================================================================
