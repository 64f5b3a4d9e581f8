----------------------------- MODULE VirtService -----------------------------
(***************************************************************************)
(* A compute node of virtcca_deploy: deploy_cvm with its four-phase        *)
(* pipeline, undeploy_cvm, stop_cvm and start_cvm, on the node's libvirt   *)
(* domains, PCI devices, DHCP host entries and disk files.                 *)
(*                                                                         *)
(* The node is one gevent worker (its ThreadPoolExecutor is patched too):  *)
(* a step ends where the code waits, for qemu-img, for the sleep before a  *)
(* domain is started, or for the futures of a deployment.  libvirt calls   *)
(* and database commits do not yield.                                      *)
(*                                                                         *)
(* Each worker draws a fresh MAC and IP address: a DHCP host entry is the  *)
(* pair of the request and the VM it was written for.  A lease carries the *)
(* same pair; the network grants it and lets it expire.                    *)
(***************************************************************************)
EXTENDS Integers, FiniteSets

CONSTANTS VMs,       \* names of the VMs of this node
          NoVm,      \* no VM
          MaxReqs,   \* bound: deploy requests
          PoolSize   \* IP addresses in the DHCP range

ASSUME VirtServiceAssumption ==
  /\ IsFiniteSet(VMs) /\ NoVm \notin VMs
  /\ MaxReqs \in Nat \ {0} /\ PoolSize \in Nat

Reqs == 1 .. MaxReqs

VARIABLES
  phase,     \* progress of each deploy request
  asked,     \* vm_id_list
  worker,    \* _deploy_single_vm of each request and VM
  collected, \* VMs whose future the request has seen
  listed,    \* successfully_deployed_vms
  ctx,       \* the VM of the local variable ctx of deploy_cvm
  dom,       \* state of each libvirt domain
  owner,     \* request that defined the domain, 0 if none
  dev,       \* VMs that hold PCI devices
  disk,      \* VMs with disk files
  entries,   \* DHCP host entries
  leases,    \* DHCP leases
  contested, \* history: VMs named by a request while being deployed by another
  refused,   \* history: VMs whose undeployment failed since they were deployed
  unfreed,   \* history: VMs whose disk or devices stayed at their last cleanup
  strays     \* history: host entries that a cleanup missed or could not remove

request  == <<phase, asked, collected, listed, ctx>>
domains  == <<dom, owner>>
resource == <<dev, disk, entries>>
history  == <<contested, refused>>
remains  == <<unfreed, strays>>
vars     == <<request, worker, domains, resource, leases, history, remains>>

Init ==
  /\ phase = [q \in Reqs |-> "none"]
  /\ asked = [q \in Reqs |-> {}]
  /\ worker = [q \in Reqs |-> [v \in VMs |-> "none"]]
  /\ collected = [q \in Reqs |-> {}]
  /\ listed = [q \in Reqs |-> {}]
  /\ ctx = [q \in Reqs |-> NoVm]
  /\ dom = [v \in VMs |-> "absent"]
  /\ owner = [v \in VMs |-> 0]
  /\ dev = {} /\ disk = {} /\ entries = {} /\ leases = {}
  /\ contested = {} /\ refused = {}
  /\ unfreed = {} /\ strays = {}

\* A request that has not been answered, and the VMs such requests deploy.
Live(q) == phase[q] \in {"collecting", "returning"}

Deploying == UNION {asked[q] : q \in {p \in Reqs : Live(p)}}

Done(q, v) == worker[q][v] \in {"up", "failed", "raised"}

-----------------------------------------------------------------------------
(***************************************************************************)
(* Reclaim.                                                                *)
(***************************************************************************)

\* _cleanup_vm_instance: what becomes of the domain of v.  A running one is
\* destroyed and undefined, either of which may fail.  Another one is undefined,
\* which may fail too, and is not tried if is_vm_exist misses the domain: it looks
\* at the first of the list only.
AfterCleanup(d, v) ==
  CASE d[v] = "running" -> {"absent", "shutoff", "running"}
    [] d[v] = "shutoff" -> {"absent", "shutoff"}
    [] d[v] = "absent"  -> {"absent"}

\* remove_dhcp_host_entry for each of the entries found; each may fail.  Those
\* missed are not even tried.
RemoveEntries(found, missed) ==
  \E gone \in SUBSET found :
    /\ entries' = entries \ gone
    /\ strays' = entries' \cap (strays \cup found \cup missed)

\* _cleanup_disk_files and _cleanup_device_allocation: either logs an exception
\* and goes on, whatever it has not removed or released stays.
FreeResources(v) ==
  /\ disk' \in {disk, disk \ {v}}
  /\ dev' \in {dev, dev \ {v}}
  /\ unfreed' = IF v \in disk' \cup dev' THEN unfreed \cup {v} ELSE unfreed \ {v}

\* cvm_resource_reclaim of v, when the domains are d: the host entries found,
\* the domain, the disks and the devices, each without regard to the others.
Reclaim(d, v, found, missed) ==
  /\ \E s \in AfterCleanup(d, v) : dom' = [d EXCEPT ![v] = s]
  /\ owner' = [owner EXCEPT ![v] = IF dom'[v] = "absent" THEN 0 ELSE owner[v]]
  /\ FreeResources(v)
  /\ RemoveEntries(found, missed)

-----------------------------------------------------------------------------
(***************************************************************************)
(* deploy_cvm.                                                             *)
(***************************************************************************)

\* Faulty variant: the names are not checked.
AcceptDeployUnchecked(q, vms) ==
  /\ phase[q] = "none"
  /\ \A p \in Reqs : p < q => phase[p] # "none"
  /\ phase' = [phase EXCEPT ![q] = "collecting"]
  /\ asked' = [asked EXCEPT ![q] = vms]
  /\ worker' = [worker EXCEPT ![q] = [v \in VMs |-> IF v \in vms THEN "submitted" ELSE "none"]]
  /\ contested' = (contested \ vms) \cup (vms \cap Deploying)
  /\ refused' = refused \ vms
  /\ unfreed' = unfreed \ vms
  /\ strays' = strays \cup {e \in entries : e[2] \in vms \cap contested}
  /\ UNCHANGED <<collected, listed, ctx, domains, resource, leases>>

\* _phase1_check_resources passed: no VM of the request has a domain.  Nothing
\* is reserved.  A request that does not pass changes nothing.  Host entries of
\* earlier overlapping requests are counted among the strays from now on.
AcceptDeploy(q, vms) ==
  /\ phase[q] = "none"
  /\ \A p \in Reqs : p < q => phase[p] # "none"
  /\ \A v \in vms : dom[v] = "absent"
  /\ phase' = [phase EXCEPT ![q] = "collecting"]
  /\ asked' = [asked EXCEPT ![q] = vms]
  /\ worker' = [worker EXCEPT ![q] = [v \in VMs |-> IF v \in vms THEN "submitted" ELSE "none"]]
  /\ contested' = (contested \ vms) \cup (vms \cap Deploying)
  /\ refused' = refused \ vms
  /\ unfreed' = unfreed \ vms
  /\ strays' = strays \cup {e \in entries : e[2] \in vms \cap contested}
  /\ UNCHANGED <<collected, listed, ctx, domains, resource, leases>>

\* query_virbr0_config: the addresses of host entries and of leases are taken.
TakenAddresses == entries \cup leases

\* generate_mac_ip_pair finds an address of the DHCP range.
AddressFree == Cardinality(TakenAddresses) < PoolSize

\* write_dhcp_host_entry for the pair that was drawn.
WithEntry(q, v) == entries \cup {<<q, v>>}

\* _phase2_allocate_resources up to the wait for qemu-img: devices, MAC and IP,
\* host entry and system disk, in this order.  Whatever was taken before a
\* failure stays.  A directory that cannot be made raises an exception that
\* does not carry the context.
AllocateResources(q, v) ==
  /\ worker[q][v] = "submitted"
  /\ \E got \in {"nothing", "devices", "entry", "disk"} : \E how \in {"failed", "raised"} :
       /\ got \in {"entry", "disk"} => AddressFree
       /\ how = "raised" => got = "entry"
       /\ worker' = [worker EXCEPT ![q][v] = IF got = "disk" THEN "waiting" ELSE how]
       /\ dev' = IF got = "nothing" THEN dev ELSE dev \cup {v}
       /\ entries' = IF got \in {"entry", "disk"} THEN WithEntry(q, v) ELSE entries
       /\ disk' = IF got = "disk" THEN disk \cup {v} ELSE disk
  /\ UNCHANGED <<request, domains, leases, history, remains>>

\* The data disk or the XML configuration fails.
ConfigureFails(q, v) ==
  /\ worker[q][v] = "waiting"
  /\ worker' = [worker EXCEPT ![q][v] = "failed"]
  /\ UNCHANGED <<request, domains, resource, leases, history, remains>>

\* _phase4_execute_deployment: the domain is defined, unless its name is taken
\* by now, and started.  A domain that cannot be started stays defined.
StartVmByXml(q, v) ==
  /\ worker[q][v] = "waiting"
  /\ \E s \in {"running", "shutoff", dom[v]} :
       /\ s # dom[v] => dom[v] = "absent"
       /\ s = "running" /\ dom[v] = "absent" => v \in disk
       /\ worker' = [worker EXCEPT ![q][v] =
                       IF s = "running" /\ dom[v] = "absent" THEN "up" ELSE "failed"]
       /\ dom' = [dom EXCEPT ![v] = s]
       /\ owner' = [owner EXCEPT ![v] = IF s = dom[v] THEN owner[v] ELSE q]
  /\ UNCHANGED <<request, resource, leases, history, remains>>

\* as_completed yields a future that succeeded.
CollectSuccess(q, v) ==
  /\ phase[q] = "collecting"
  /\ v \in asked[q] \ collected[q]
  /\ worker[q][v] = "up"
  /\ collected' = [collected EXCEPT ![q] = @ \cup {v}]
  /\ listed' = [listed EXCEPT ![q] = @ \cup {v}]
  /\ ctx' = [ctx EXCEPT ![q] = v]
  /\ UNCHANGED <<phase, asked, worker, domains, resource, leases, history, remains>>

\* Faulty variant: the failed VM is not cleaned up.
CollectFailureNoReclaim(q, v) ==
  /\ phase[q] = "collecting"
  /\ v \in asked[q] \ collected[q]
  /\ worker[q][v] \in {"failed", "raised"}
  /\ collected' = [collected EXCEPT ![q] = @ \cup {v}]
  /\ phase' = [phase EXCEPT ![q] = "returning"]
  /\ UNCHANGED <<asked, worker, listed, ctx, domains, resource, leases, history, remains>>

\* Faulty variant: the VM to clean up is taken from ctx.
CollectFailureOfCtx(q, v) ==
  /\ phase[q] = "collecting"
  /\ v \in asked[q] \ collected[q]
  /\ worker[q][v] \in {"failed", "raised"}
  /\ collected' = [collected EXCEPT ![q] = @ \cup {v}]
  /\ phase' = [phase EXCEPT ![q] = "returning"]
  /\ Reclaim(dom, IF ctx[q] = NoVm THEN v ELSE ctx[q], {<<q, v>>}, {})
  /\ UNCHANGED <<asked, worker, listed, ctx, leases, history>>

\* It yields one that failed: the VM is reclaimed and the loop is left.  An
\* exception without a context leaves ctx as the previous future set it, and
\* the host entry of that VM is the one that is removed.
CollectFailure(q, v) ==
  /\ phase[q] = "collecting"
  /\ v \in asked[q] \ collected[q]
  /\ worker[q][v] \in {"failed", "raised"}
  /\ collected' = [collected EXCEPT ![q] = @ \cup {v}]
  /\ phase' = [phase EXCEPT ![q] = "returning"]
  /\ Reclaim(dom, v, {<<q, IF worker[q][v] = "failed" THEN v ELSE ctx[q]>>}, {})
  /\ UNCHANGED <<asked, worker, listed, ctx, leases, history>>

\* Faulty variant: the executor is not waited for.
AnswerEarly(q) ==
  /\ \/ phase[q] = "collecting" /\ collected[q] = asked[q]
     \/ phase[q] = "returning"
  /\ phase' = [phase EXCEPT ![q] = "answered"]
  /\ UNCHANGED <<asked, collected, listed, ctx, worker, domains, resource, leases, history, remains>>

\* The executor is shut down, which waits for every worker, and the list is
\* returned.
Answer(q) ==
  /\ \/ phase[q] = "collecting" /\ collected[q] = asked[q]
     \/ phase[q] = "returning" /\ \A v \in asked[q] : Done(q, v)
  /\ phase' = [phase EXCEPT ![q] = "answered"]
  /\ UNCHANGED <<asked, collected, listed, ctx, worker, domains, resource, leases, history, remains>>

-----------------------------------------------------------------------------
(***************************************************************************)
(* undeploy_cvm, stop_cvm, start_cvm of one VM.                            *)
(***************************************************************************)

\* _find_dhcp_entries_by_hostname: the entries that hold a lease.  A host entry
\* without one is missed.
FoundEntries(v) == {e \in leases : e[2] = v}

MissedEntries(v) == {e \in entries : e[2] = v} \ leases

\* destroy_cvm_by_name succeeds on a running domain only.
UndeployCvm(v) ==
  /\ dom[v] = "running"
  /\ Reclaim([dom EXCEPT ![v] = "absent"], v, FoundEntries(v), MissedEntries(v))
  /\ contested' = contested \cup ({v} \cap Deploying)
  /\ UNCHANGED <<request, worker, leases, refused>>

\* It fails, before or after the domain was stopped.  The VM is reclaimed only
\* if some lease was found.
UndeployCvmFails(v) ==
  /\ \E d \in {dom, [dom EXCEPT ![v] = IF dom[v] = "running" THEN "shutoff" ELSE dom[v]]} :
       IF FoundEntries(v) # {}
       THEN Reclaim(d, v, FoundEntries(v), MissedEntries(v))
       ELSE dom' = d /\ UNCHANGED <<owner, resource, remains>>
  /\ contested' = contested \cup ({v} \cap Deploying)
  /\ refused' = IF dom[v] = "absent" THEN refused ELSE refused \cup {v}
  /\ UNCHANGED <<request, worker, leases>>

\* destroy_vm keeps the definition.
StopCvm(v) ==
  /\ dom[v] = "running"
  /\ dom' = [dom EXCEPT ![v] = "shutoff"]
  /\ contested' = contested \cup ({v} \cap Deploying)
  /\ UNCHANGED <<request, worker, owner, resource, leases, refused, remains>>

\* start_vm; a domain whose disk is gone cannot be started.
StartCvm(v) ==
  /\ dom[v] = "shutoff" /\ v \in disk
  /\ dom' = [dom EXCEPT ![v] = "running"]
  /\ contested' = contested \cup ({v} \cap Deploying)
  /\ UNCHANGED <<request, worker, owner, resource, leases, refused, remains>>

-----------------------------------------------------------------------------
(***************************************************************************)
(* The environment: dnsmasq, and a crash of the compute service, which     *)
(* loses the requests in progress and nothing else.                        *)
(***************************************************************************)

\* A running VM is leased the address of its host entry or, without one, any
\* free address of the range.
GrantLease(v) ==
  /\ dom[v] = "running"
  /\ <<owner[v], v>> \in TakenAddresses \/ AddressFree
  /\ leases' = leases \cup {<<owner[v], v>>}
  /\ UNCHANGED <<request, worker, domains, resource, history, remains>>

ExpireLease(e) ==
  /\ leases' = leases \ {e}
  /\ UNCHANGED <<request, worker, domains, resource, history, remains>>

Crash ==
  /\ \E q \in Reqs : Live(q)
  /\ phase' = [q \in Reqs |-> IF Live(q) THEN "lost" ELSE phase[q]]
  /\ worker' = [q \in Reqs |-> [v \in VMs |->
                  IF Live(q) /\ ~Done(q, v) THEN "none" ELSE worker[q][v]]]
  /\ UNCHANGED <<asked, collected, listed, ctx, domains, resource, leases, history, remains>>

Work(q, v) == AllocateResources(q, v) \/ ConfigureFails(q, v) \/ StartVmByXml(q, v)

Collect(q, v) == CollectSuccess(q, v) \/ CollectFailure(q, v)

Next ==
  \/ \E q \in Reqs : \E vms \in SUBSET VMs : vms # {} /\ AcceptDeploy(q, vms)
  \/ \E q \in Reqs, v \in VMs : Work(q, v) \/ Collect(q, v)
  \/ \E q \in Reqs : Answer(q)
  \/ \E v \in VMs : UndeployCvm(v) \/ UndeployCvmFails(v) \/ StopCvm(v) \/ StartCvm(v) \/ GrantLease(v)
  \/ \E e \in leases : ExpireLease(e)
  \/ Crash

Spec == Init /\ [][Next]_vars

-----------------------------------------------------------------------------
\* The type of the requests, the node and its resources.
TypeOK ==
  /\ phase \in [Reqs -> {"none", "collecting", "returning", "answered", "lost"}]
  /\ asked \in [Reqs -> SUBSET VMs]
  /\ worker \in [Reqs -> [VMs -> {"none", "submitted", "waiting", "up", "failed", "raised"}]]
  /\ collected \in [Reqs -> SUBSET VMs]
  /\ listed \in [Reqs -> SUBSET VMs]
  /\ ctx \in [Reqs -> VMs \cup {NoVm}]
  /\ dom \in [VMs -> {"absent", "shutoff", "running"}]
  /\ owner \in [VMs -> {0} \cup Reqs]
  /\ dev \in SUBSET VMs /\ disk \in SUBSET VMs
  /\ entries \in SUBSET (Reqs \X VMs) /\ leases \in SUBSET (Reqs \X VMs)
  /\ contested \in SUBSET VMs /\ refused \in SUBSET VMs /\ unfreed \in SUBSET VMs
  /\ strays \in SUBSET (Reqs \X VMs)

\* A running VM has its disk and its devices, so no other VM can be given them,
\* unless two requests for it overlapped, an undeployment of it failed, or its
\* deployment failed and the cleanup left the domain with its disk.  It has its
\* DHCP host entry too, unless a worker of the same request raised: the cleanup
\* after an exception takes the entry of the VM collected before.
RunningIntact ==
  \A v \in VMs \ (contested \cup refused \cup unfreed) :
    dom[v] = "running" =>
      /\ v \in dev /\ v \in disk
      /\ \/ <<owner[v], v>> \in entries
         \/ \E w \in VMs : worker[owner[v]][w] = "raised"

\* What the manager relies on in the answer of a deployment: the VMs listed were
\* started by this very request, all of them if none failed, and no worker of
\* the request is still going to change the node.
AnswerSound ==
  \A q \in Reqs :
    phase[q] = "answered" =>
      /\ \A v \in listed[q] : worker[q][v] = "up"
      /\ (\A v \in asked[q] : worker[q][v] = "up") => listed[q] = asked[q]
      /\ \A v \in asked[q] : Done(q, v)

Failed(q) == {v \in asked[q] : worker[q][v] \in {"failed", "raised"}}

\* v was asked of q and q never cleaned it up: the service died, or another VM
\* of q failed too and was collected first.
Abandoned(q, v) ==
  /\ v \in asked[q]
  /\ phase[q] = "lost" \/ (v \in Failed(q) /\ Cardinality(Failed(q)) >= 2)

\* What is left on the node has a reason.  Devices and disks of a VM that is not
\* there and is not being deployed were abandoned by a request, could not be
\* removed by the last cleanup of the VM, or are of overlapping requests.  A host
\* entry whose domain is gone was abandoned, belongs to a worker that raised
\* (its address is not in ctx), had no lease when its VM was undeployed or could
\* not be removed, or is of overlapping requests.
LeaksExplained ==
  /\ \A v \in (dev \cup disk) \ (contested \cup Deploying \cup unfreed) :
       dom[v] = "absent" => \E q \in Reqs : Abandoned(q, v)
  /\ \A q \in Reqs, v \in VMs \ contested :
       <<q, v>> \in entries \ strays /\ ~Live(q) /\ owner[v] # q =>
         Abandoned(q, v) \/ worker[q][v] = "raised"
=============================================================================
