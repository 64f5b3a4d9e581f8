------------------------------ MODULE VmService ------------------------------
(***************************************************************************)
(* The virtcca_deploy manager: HTTP handlers that deploy, undeploy, stop   *)
(* and start confidential VMs, the asynchronous job each handler spawns    *)
(* per compute node, the manager's database (tasks, VM instances, network  *)
(* interfaces, deployment specification), and the compute nodes as the     *)
(* manager sees them through its requests.                                 *)
(*                                                                         *)
(* The manager is one gevent worker: a handler, and a job between two      *)
(* waits for the network, run without interruption by other handlers and   *)
(* jobs.  A job therefore moves from its reply to its end while no other   *)
(* manager step happens (Idle), but it writes to the database in separate  *)
(* transactions, and the process may die between two of them (Crash).      *)
(* Jobs are lost in a crash; the database and the requests already sent    *)
(* are not.                                                                *)
(***************************************************************************)
EXTENDS NetworkConfig

CONSTANTS Specs,       \* uuids of deployment specifications
          NoSpec,      \* a VM without an instance record
          MaxTasks,    \* bound: tasks created per node
          MaxCrashes   \* bound: crashes of the manager

ASSUME VmServiceAssumption ==
  /\ Specs # {} /\ NoSpec \notin Specs
  /\ MaxTasks \in Nat \ {0} /\ MaxCrashes \in Nat

VARIABLES
  spec,      \* the one stored deployment specification
  task,      \* the task table
  inst,      \* the VM instance table: the specification a VM was deployed with
  table,     \* the network interface table
  job,       \* program counter of the job of each task
  won,       \* success_vms, a local variable of each job
  request,   \* tasks whose request the compute node has yet to take up
  accepted,  \* deploy requests the compute node is executing
  reply,     \* the reply of the compute node to each task
  host,      \* state of each VM's libvirt domain on its node
  crashes,   \* crashes so far
  abandoned  \* history: VMs whose interfaces an aborted deployment kept

db   == <<spec, task, inst, table>>
jobs == <<job, won>>
net  == <<request, accepted, reply, host>>
vars == <<db, jobs, net, crashes, abandoned>>

TaskIds == Nodes \X (1 .. MaxTasks)

Types == {"vm-create", "vm-delete", "vm-stop", "vm-start"}

Tasks == [type : Types, status : {"none", "created", "running", "success", "failed"},
          total : SUBSET VMs, success : SUBSET VMs, fail : SUBSET VMs, spec : Specs]

Replies == [code : {"none", "ok", "error"}, vms : SUBSET VMs]

\* The task t with another status and other result lists.
TaskWith(t, status, success, fail) ==
  [type |-> task[t].type, status |-> status, total |-> task[t].total,
   success |-> success, fail |-> fail, spec |-> task[t].spec]

NoReply == [code |-> "none", vms |-> {}]

Active(t) == task[t].status \in {"created", "running"}

Recorded == {v \in VMs : inst[v] # NoSpec}

\* No job is between its reply and its last database write.
Idle == \A t \in TaskIds : job[t] \in {"none", "spawned", "waiting"}

VmsOn(vms, n) == {v \in vms : v.node = n}

NodesOf(vms) == {v.node : v \in vms}

Init ==
  /\ spec \in Specs
  /\ task = [t \in TaskIds |->
               [type |-> "vm-create", status |-> "none", total |-> {},
                success |-> {}, fail |-> {}, spec |-> spec]]
  /\ inst = [v \in VMs |-> NoSpec]
  /\ table = [r \in Rows |-> Unused]
  /\ job = [t \in TaskIds |-> "none"]
  /\ won = [t \in TaskIds |-> {}]
  /\ request = {}
  /\ accepted = {}
  /\ reply = [t \in TaskIds |-> NoReply]
  /\ host = [v \in VMs |-> "absent"]
  /\ crashes = 0
  /\ abandoned = {}

-----------------------------------------------------------------------------
(***************************************************************************)
(* Handlers.  A request that fails a check returns an error and changes    *)
(* nothing, so it is not an action.                                        *)
(***************************************************************************)

\* TaskService.create_task: the next free task id of a node.
FreshId(t) == /\ task[t].status = "none"
              /\ \A i \in 1 .. MaxTasks : i < t[2] => task[<<t[1], i>>].status # "none"

\* One task per node of ids, for the VMs vms on it, and its job.
CreateTasks(type, vms, ids) ==
  /\ \A t \in ids : FreshId(t)
  /\ task' = [t \in TaskIds |->
                IF t \in ids
                THEN [type |-> type, status |-> "created", total |-> VmsOn(vms, t[1]),
                      success |-> {}, fail |-> {}, spec |-> spec]
                ELSE task[t]]
  /\ job' = [t \in TaskIds |-> IF t \in ids THEN "spawned" ELSE job[t]]

\* set_node_deploy_config: the stored specification is replaced.
SetDeployConfig(s) ==
  /\ Idle
  /\ spec' = s
  /\ UNCHANGED <<task, inst, table, jobs, net, crashes, abandoned>>

ActiveCreates == {t \in TaskIds : Active(t) /\ task[t].type = "vm-create"}

\* PreDeploymentChecker.check_nodes and check_nodes_with_vm_ids.
\* Faulty variants: ongoing deployments, or recorded VMs, are not looked at.
CheckVmIdsOnly(vms) == vms \cap Recorded = {}

CheckTasksOnly(vms) == \A t \in ActiveCreates : task[t].total \cap vms = {}

CheckNodes == Recorded = {} /\ ActiveCreates = {}

CheckNodesWithVmIds(vms) ==
  /\ vms \cap Recorded = {}
  /\ \A t \in ActiveCreates : task[t].total \cap vms = {}

\* check_config_conflict: no VM is recorded with another specification.
CheckConfigConflict == \A v \in Recorded : inst[v] = spec

\* Allocation on several nodes; the rows of different nodes are disjoint.
AllocateOn(tab, ns, vms) ==
  [r \in DOMAIN tab |-> IF r.node \in ns
                        THEN Allocate(tab, r.node, VmsOn(vms, r.node))[r]
                        ELSE tab[r]]

\* execute_deployment once the checks passed: interfaces are allocated node by
\* node, then a task is created per node.  Where that fails the interfaces of
\* the node are released again and the node is left out.
ExecuteDeployment(vms) ==
  \E made \in SUBSET NodesOf(vms) : \E ids \in SUBSET TaskIds :
    /\ \A n \in NodesOf(vms) : CanAllocate(table, n, VmsOn(vms, n))
    /\ \A n \in made : \E t \in ids : t[1] = n
    /\ \A t \in ids : t[1] \in made
    /\ CreateTasks("vm-create", vms, ids)
    /\ table' = Release(AllocateOn(table, NodesOf(vms), vms),
                        {v \in vms : v.node \notin made})
    /\ UNCHANGED <<spec, inst, won, net, crashes, abandoned>>

\* execute_deployment when a node has too few interfaces: it returns without
\* releasing what the nodes before it were given.
AbortDeployment(vms) ==
  \E kept \in SUBSET NodesOf(vms) :
    /\ \A n \in kept : CanAllocate(table, n, VmsOn(vms, n))
    /\ \E n \in NodesOf(vms) \ kept : ~CanAllocate(table, n, VmsOn(vms, n))
    /\ table' = AllocateOn(table, kept, vms)
    /\ abandoned' = abandoned \cup {v \in vms : v.node \in kept}
    /\ UNCHANGED <<spec, task, inst, jobs, net, crashes>>

DeployDefault ==
  /\ Idle
  /\ CheckConfigConflict
  /\ CheckNodes
  /\ ExecuteDeployment(VMs) \/ AbortDeployment(VMs)

DeploySpecified(vms) ==
  /\ Idle
  /\ CheckConfigConflict
  /\ CheckNodesWithVmIds(vms)
  /\ ExecuteDeployment(vms) \/ AbortDeployment(vms)

\* undeploy_cvm, stop_cvm, start_cvm: every VM must have a record.
CheckVmIdsExist(vms) == vms \subseteq Recorded

\* execute_undeployment, execute_stop, execute_start.  A task that cannot be
\* created leaves its node out.
Operate(type, vms) ==
  /\ Idle
  /\ CheckVmIdsExist(vms)
  /\ \E ids \in SUBSET TaskIds :
       /\ \A t \in ids : t[1] \in NodesOf(vms)
       /\ CreateTasks(type, vms, ids)
  /\ UNCHANGED <<spec, inst, table, won, net, crashes, abandoned>>

-----------------------------------------------------------------------------
(***************************************************************************)
(* The job of a task: deploy_node_async, undeploy_node_async,              *)
(* stop_node_async and start_node_async.                                   *)
(***************************************************************************)

\* Faulty variant: the task is never marked running.
StartJobSilently(t) ==
  /\ Idle
  /\ job[t] = "spawned"
  /\ job' = [job EXCEPT ![t] = "waiting"]
  /\ request' = request \cup {t}
  /\ UNCHANGED <<db, won, accepted, reply, host, crashes, abandoned>>

\* The task is marked running and the request is sent.
StartJob(t) ==
  /\ Idle
  /\ job[t] = "spawned"
  /\ job' = [job EXCEPT ![t] = "waiting"]
  /\ task' = [task EXCEPT ![t] = TaskWith(t, "running", task[t].success, task[t].fail)]
  /\ request' = request \cup {t}
  /\ UNCHANGED <<spec, inst, table, won, accepted, reply, host, crashes, abandoned>>

\* Faulty variant: an answered deployment counts as a success for every VM.
SuccessVmsAll(type, total, vms) ==
  IF type \in {"vm-create", "vm-delete"} THEN total ELSE total \ vms

\* What the job takes for success_vms.  A deployment reads the list of deployed
\* VMs.  A stop or a start subtracts the failed VMs.  An undeployment looks for
\* the key failed_undeploy_cvm in data, but the compute node answers with the
\* list itself: the key is never found and every VM counts as undeployed.
SuccessVms(type, total, vms) ==
  IF type = "vm-create" THEN vms
  ELSE IF type = "vm-delete" THEN total
  ELSE total \ vms

\* The order of the two task updates: an undeployment that was answered writes
\* the status first, every other job the parameters first.
FirstWrite(type, code) == IF type = "vm-delete" /\ code = "ok" THEN "status" ELSE "params"

SecondWrite(type, code) == IF type = "vm-delete" /\ code = "ok" THEN "params" ELSE "status"

\* The reply arrives.
Reply(t) ==
  /\ Idle
  /\ job[t] = "waiting"
  /\ reply[t].code # "none"
  /\ won' = [won EXCEPT ![t] = IF reply[t].code = "ok"
                               THEN SuccessVms(task[t].type, task[t].total, reply[t].vms)
                               ELSE {}]
  /\ job' = [job EXCEPT ![t] = FirstWrite(task[t].type, reply[t].code)]
  /\ UNCHANGED <<db, net, crashes, abandoned>>

\* The connection breaks: the job runs its except branch.  The compute node may
\* still execute the request, or have executed it.
ConnectionLost(t) ==
  /\ Idle
  /\ job[t] = "waiting"
  /\ won' = [won EXCEPT ![t] = {}]
  /\ job' = [job EXCEPT ![t] = "params"]
  /\ request' \in {request, request \ {t}}
  /\ reply' = [reply EXCEPT ![t] = [code |-> "error", vms |-> {}]]
  /\ UNCHANGED <<db, accepted, host, crashes, abandoned>>

\* Faulty variants: the failed VMs are not written; the status is skipped.
WriteParamsNoFail(t) ==
  /\ job[t] = "params"
  /\ task' = [task EXCEPT ![t] = TaskWith(t, task[t].status, won[t], task[t].fail)]
  /\ job' = [job EXCEPT ![t] = IF SecondWrite(task[t].type, reply[t].code) = "params"
                               THEN "instances" ELSE "status"]
  /\ UNCHANGED <<spec, inst, table, won, net, crashes, abandoned>>

WriteParamsNoStatus(t) ==
  /\ job[t] = "params"
  /\ task' = [task EXCEPT ![t] = TaskWith(t, task[t].status, won[t], task[t].total \ won[t])]
  /\ job' = [job EXCEPT ![t] = "instances"]
  /\ UNCHANGED <<spec, inst, table, won, net, crashes, abandoned>>

\* update_task_params
WriteParams(t) ==
  /\ job[t] = "params"
  /\ task' = [task EXCEPT ![t] = TaskWith(t, task[t].status, won[t], task[t].total \ won[t])]
  /\ job' = [job EXCEPT ![t] = IF SecondWrite(task[t].type, reply[t].code) = "params"
                               THEN "instances" ELSE "status"]
  /\ UNCHANGED <<spec, inst, table, won, net, crashes, abandoned>>

\* Faulty variant: a failure is written with a status nobody knows.
WriteStatusError(t) ==
  /\ job[t] = "status"
  /\ task' = [task EXCEPT ![t] =
                TaskWith(t, IF won[t] = task[t].total THEN "success" ELSE "error",
                         task[t].success, task[t].fail)]
  /\ job' = [job EXCEPT ![t] = "instances"]
  /\ UNCHANGED <<spec, inst, table, won, net, crashes, abandoned>>

\* update_task_status; a stop or a start ends here.
WriteStatus(t) ==
  /\ job[t] = "status"
  /\ task' = [task EXCEPT ![t] =
                TaskWith(t, IF won[t] = task[t].total THEN "success" ELSE "failed",
                         task[t].success, task[t].fail)]
  /\ job' = [job EXCEPT ![t] =
                IF task[t].type \in {"vm-stop", "vm-start"} THEN "none"
                ELSE IF SecondWrite(task[t].type, reply[t].code) = "status"
                     THEN "instances" ELSE "params"]
  /\ UNCHANGED <<spec, inst, table, won, net, crashes, abandoned>>

\* Faulty variant: new records are not written.
WithInstancesDeletedOnly(t, vms) ==
  [v \in VMs |-> IF v \in vms /\ task[t].type # "vm-create" THEN NoSpec ELSE inst[v]]

\* Instance records of the VMs vms are created, or deleted, one by one.
WithInstances(t, vms) ==
  [v \in VMs |-> IF v \notin vms THEN inst[v]
                 ELSE IF task[t].type = "vm-create" THEN task[t].spec ELSE NoSpec]

WriteInstances(t) ==
  /\ job[t] = "instances"
  /\ inst' = WithInstances(t, won[t])
  /\ job' = [job EXCEPT ![t] = "ips"]
  /\ UNCHANGED <<spec, task, table, won, net, crashes, abandoned>>

\* Faulty variants: a partly failed deployment releases the interfaces of all its
\* VMs; a failed deployment releases none.
ReleaseIpsOfAll(t) ==
  /\ job[t] = "ips"
  /\ table' = IF won[t] = task[t].total /\ task[t].type = "vm-create"
              THEN table ELSE Release(table, task[t].total)
  /\ job' = [job EXCEPT ![t] = "none"]
  /\ UNCHANGED <<spec, task, inst, won, net, crashes, abandoned>>

ReleaseIpsOfDeleted(t) ==
  /\ job[t] = "ips"
  /\ table' = IF task[t].type = "vm-create" THEN table ELSE Release(table, won[t])
  /\ job' = [job EXCEPT ![t] = "none"]
  /\ UNCHANGED <<spec, task, inst, won, net, crashes, abandoned>>

\* The interfaces of the VMs that failed to deploy, or that were undeployed, are
\* released and the job ends.
ReleaseIps(t) ==
  /\ job[t] = "ips"
  /\ table' = Release(table, IF task[t].type = "vm-create"
                             THEN task[t].total \ won[t] ELSE won[t])
  /\ job' = [job EXCEPT ![t] = "none"]
  /\ UNCHANGED <<spec, task, inst, won, net, crashes, abandoned>>

\* The manager dies and is restarted: its jobs are gone.  A job that was writing
\* instance records may have written some of them.
Crash ==
  /\ crashes < MaxCrashes
  /\ crashes' = crashes + 1
  /\ job' = [t \in TaskIds |-> "none"]
  /\ \/ inst' = inst
     \/ \E t \in TaskIds : \E some \in SUBSET won[t] :
          job[t] = "instances" /\ inst' = WithInstances(t, some)
  /\ UNCHANGED <<spec, task, table, won, net, abandoned>>

-----------------------------------------------------------------------------
(***************************************************************************)
(* The compute nodes, as far as the manager can tell.                      *)
(***************************************************************************)
Answer(t, code, vms) ==
  /\ request' = request \ {t}
  /\ accepted' = accepted \ {t}
  /\ reply' = IF reply[t].code = "none" /\ job[t] = "waiting"
              THEN [reply EXCEPT ![t] = [code |-> code, vms |-> vms]] ELSE reply
  /\ UNCHANGED <<db, jobs, crashes, abandoned>>

\* deploy_cvm_internal refuses the request: a name exists or the resources do not
\* suffice (an empty list), or the check itself fails (an error).
RefuseDeploy(t) ==
  /\ t \in request /\ task[t].type = "vm-create"
  /\ \E code \in {"ok", "error"} : Answer(t, code, {})
  /\ UNCHANGED host

\* It takes up the request: no VM of it has a domain.
AcceptDeploy(t) ==
  /\ t \in request /\ task[t].type = "vm-create"
  /\ \A v \in task[t].total : host[v] = "absent"
  /\ request' = request \ {t}
  /\ accepted' = accepted \cup {t}
  /\ UNCHANGED <<db, jobs, reply, host, crashes, abandoned>>

\* What a worker that fails may make of the domain of its VM.  One it could not
\* start stays defined.  The cleanup, done for one failed VM of the request,
\* removes whatever domain has that name, even one of another request.
AfterFailure(s, cleaned) ==
  IF s = "absent" THEN {"absent", "shutoff"}
  ELSE IF cleaned THEN {"absent", "shutoff", s}
  ELSE {s}

\* The workers of a deployment, and the answer.  The VMs up are started, as far
\* as their names are still free.  After the first failure the list is returned
\* as it is while the other workers finish: the VMs listed may be fewer than the
\* VMs started.
DeployVms(t) ==
  /\ t \in accepted
  /\ \E up \in SUBSET {v \in task[t].total : host[v] = "absent"} :
     \E listed \in SUBSET up : \E cleaned \in SUBSET (task[t].total \ up) :
     \E h \in [task[t].total \ up -> {"absent", "running", "shutoff"}] :
       /\ up = task[t].total => listed = up
       /\ \A v, w \in cleaned : v = w
       /\ \A v \in task[t].total \ up : h[v] \in AfterFailure(host[v], v \in cleaned)
       /\ host' = [v \in VMs |-> IF v \in up THEN "running"
                                 ELSE IF v \in task[t].total THEN h[v] ELSE host[v]]
       /\ Answer(t, "ok", listed)

\* undeploy_cvm_internal answers with the VMs it could not destroy.  A stopped
\* VM cannot be destroyed and counts as failed, and so does an absent one.  A VM
\* that failed may have been stopped all the same, and the cleanup that follows
\* may remove it.
ServeUndeploy(t) ==
  /\ t \in request /\ task[t].type = "vm-delete"
  /\ \E failed, gone, off \in SUBSET task[t].total :
       /\ {v \in task[t].total : host[v] # "running"} \subseteq failed
       /\ task[t].total \ failed \subseteq gone
       /\ off \subseteq {v \in failed \ gone : host[v] = "running"}
       /\ host' = [v \in VMs |-> IF v \in gone THEN "absent"
                                 ELSE IF v \in off THEN "shutoff" ELSE host[v]]
       /\ Answer(t, "ok", failed)

\* stop_cvm_internal and start_cvm_internal answer with the VMs that failed.
ServePower(t) ==
  LET goal == IF task[t].type = "vm-stop" THEN "shutoff" ELSE "running" IN
  /\ t \in request /\ task[t].type \in {"vm-stop", "vm-start"}
  /\ \E failed \in SUBSET {v \in task[t].total : host[v] # goal} :
       /\ {v \in task[t].total : host[v] = "absent"} \subseteq failed
       /\ host' = [v \in VMs |-> IF v \in task[t].total \ failed THEN goal ELSE host[v]]
       /\ Answer(t, "ok", failed)

-----------------------------------------------------------------------------
Handlers ==
  \/ \E s \in Specs : SetDeployConfig(s)
  \/ DeployDefault
  \/ \E vms \in SUBSET VMs : vms # {} /\ DeploySpecified(vms)
  \/ \E type \in Types \ {"vm-create"} : \E vms \in SUBSET VMs :
       vms # {} /\ Operate(type, vms)

Write(t) == WriteParams(t) \/ WriteStatus(t) \/ WriteInstances(t) \/ ReleaseIps(t)

Serve(t) == \/ RefuseDeploy(t) \/ AcceptDeploy(t) \/ DeployVms(t)
            \/ ServeUndeploy(t) \/ ServePower(t)

Next ==
  \/ Handlers
  \/ \E t \in TaskIds : StartJob(t) \/ Reply(t) \/ ConnectionLost(t) \/ Write(t) \/ Serve(t)
  \/ Crash

Spec == Init /\ [][Next]_vars

(***************************************************************************)
(* Fairness.  The gevent loop runs every job that is ready, a job that has *)
(* its reply runs to its end, and a compute node executes every request it *)
(* received.  Nothing is assumed of handlers, of crashes or of the network. *)
(***************************************************************************)
Fairness ==
  \A t \in TaskIds : /\ WF_vars(StartJob(t))
                     /\ WF_vars(Serve(t))
                     /\ WF_vars(Reply(t))
                     /\ WF_vars(Write(t))

FairSpec == Spec /\ Fairness

-----------------------------------------------------------------------------
Jobs == {"none", "spawned", "waiting", "params", "status", "instances", "ips"}

\* The type of the database, the jobs and the network.
TypeOK ==
  /\ spec \in Specs
  /\ task \in [TaskIds -> Tasks]
  /\ inst \in [VMs -> Specs \cup {NoSpec}]
  /\ table \in [Rows -> VMs \cup {Unused}]
  /\ job \in [TaskIds -> Jobs]
  /\ won \in [TaskIds -> SUBSET VMs]
  /\ request \in SUBSET TaskIds
  /\ accepted \in SUBSET TaskIds
  /\ reply \in [TaskIds -> Replies]
  /\ host \in [VMs -> {"absent", "running", "shutoff"}]
  /\ crashes \in 0 .. MaxCrashes
  /\ abandoned \in SUBSET VMs

\* Two deployments never create the same VM at the same time, whatever mix of
\* default and specified requests, crashes and late replies (PreDeploymentChecker).
NoOverlappingCreates ==
  \A t, u \in ActiveCreates : t # u => task[t].total \cap task[u].total = {}

\* A VM that has an instance record is not being created, so a deployment never
\* overwrites the record of a live VM.
CreatingNotRecorded == \A t \in ActiveCreates : task[t].total \cap Recorded = {}

Creating == UNION {task[t].total : t \in ActiveCreates}

\* Without a crash, an interface in use belongs to a VM that is recorded, is
\* being created, or was left behind by a deployment aborted for lack of
\* interfaces on another node: no other path of the service leaks interfaces.
InterfacesAccounted ==
  Idle /\ crashes = 0 =>
    \A r \in Rows : table[r] # Unused => table[r] \in Recorded \cup Creating \cup abandoned

Deletes(v) == {t \in TaskIds : /\ task[t].status # "none"
                               /\ task[t].type = "vm-delete"
                               /\ v \in task[t].total}

\* A recorded VM keeps its PfNum interfaces unless two undeployments named it:
\* an undeployment still in flight when the VM is deployed again takes them away.
RecordedHasInterfaces ==
  \A v \in Recorded :
    Cardinality(RowsOf(table, v)) >= PfNum \/ Cardinality(Deletes(v)) >= 2

\* A record whose VM is gone from its node is the work of an undeployment that
\* was sent, or of an earlier deployment whose connection was lost: its workers,
\* still busy when the VM was deployed again, clean up the new VM.
RecordBacked ==
  \A v \in Recorded :
    host[v] = "absent" =>
      \/ \E t \in Deletes(v) : task[t].status # "created"
      \/ \E t \in TaskIds : /\ task[t].type = "vm-create" /\ task[t].status = "failed"
                            /\ v \in task[t].total /\ reply[t].code = "error"

\* A VM the manager has lost track of was given up by a deployment that failed,
\* or forgotten by an undeployment, or dates from a crash.
UntrackedExplained ==
  Idle =>
    \A v \in VMs \ (Recorded \cup Creating) :
      host[v] # "absent" =>
        \/ crashes > 0
        \/ \E t \in Deletes(v) : task[t].status = "success"
        \/ \E t \in TaskIds : /\ task[t].type = "vm-create"
                              /\ task[t].status = "failed"
                              /\ v \in task[t].fail

\* The result lists of a task that ended partition its VMs and agree with its
\* status; an undeployment cut short by a crash may lack them.
OutcomeConsistent ==
  \A t \in TaskIds :
    /\ job[t] = "none" \/ task[t].type # "vm-delete"
    /\ task[t].status \in {"success", "failed"}
    /\ crashes = 0 \/ task[t].type # "vm-delete"
    => /\ task[t].success \cup task[t].fail = task[t].total
       /\ task[t].success \cap task[t].fail = {}
       /\ (task[t].status = "success") <=> (task[t].fail = {})

StatusOf == [t \in TaskIds |-> task[t].status]

\* TaskService's promise, implemented by the jobs.
Lifecycle == INSTANCE TaskLifecycle WITH Ids <- TaskIds, status <- StatusOf

\* Every task is created, run and ended at most once, in that order.
ImplementsLifecycle == Lifecycle!Spec

\* Unless the manager crashes, every job ends and so does its task.
EveryTaskEnds ==
  \A t \in TaskIds :
    job[t] = "spawned" ~> task[t].status \in {"success", "failed"} \/ crashes > 0
=============================================================================
