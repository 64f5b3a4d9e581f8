--------------------------- MODULE VmServiceProofs ---------------------------
(***************************************************************************)
(* Proofs about the manager, for any set of nodes, VMs, rows and tasks.    *)
(***************************************************************************)
EXTENDS VmService, NetworkConfigProofs

-----------------------------------------------------------------------------
(***************************************************************************)
(* Lemmas on the interface table: allocating and releasing rows keeps the  *)
(* table a function from rows to VMs or Unused.                            *)
(***************************************************************************)

\* Allocate marks rows only with VMs of the request.
LEMMA AllocateTyped ==
  ASSUME NEW tab \in [Rows -> VMs \cup {Unused}], NEW n, NEW vms \in SUBSET VMs
  PROVE  Allocate(tab, n, vms) \in [Rows -> VMs \cup {Unused}]
<1> DEFINE free == UnusedRows(tab, n)
           T(r, v) == Takes(free, vms, r, v)
<1>1. ASSUME NEW r \in Rows, \E v \in vms : T(r, v)
      PROVE  (CHOOSE v \in vms : T(r, v)) \in vms
  BY <1>1, Zenon
<1>2. DOMAIN tab = Rows
  OBVIOUS
<1> HIDE DEF T
<1>3. [r \in DOMAIN tab |-> IF \E v \in vms : T(r, v)
                            THEN CHOOSE v \in vms : T(r, v) ELSE tab[r]]
        \in [Rows -> VMs \cup {Unused}]
  BY <1>1, <1>2
<1> QED
  BY <1>3 DEF Allocate, T

\* AllocateOn combines allocations of different nodes.
LEMMA AllocateOnTyped ==
  ASSUME NEW tab \in [Rows -> VMs \cup {Unused}], NEW ns, NEW vms \in SUBSET VMs
  PROVE  AllocateOn(tab, ns, vms) \in [Rows -> VMs \cup {Unused}]
<1>1. ASSUME NEW r \in Rows
      PROVE  Allocate(tab, r.node, VmsOn(vms, r.node))[r] \in VMs \cup {Unused}
  <2>1. VmsOn(vms, r.node) \in SUBSET VMs
    BY DEF VmsOn
  <2> QED
    BY <2>1, AllocateTyped
<1> QED
  BY <1>1 DEF AllocateOn

\* Release empties rows.
LEMMA ReleaseTyped ==
  ASSUME NEW tab \in [Rows -> VMs \cup {Unused}], NEW vms
  PROVE  Release(tab, vms) \in [Rows -> VMs \cup {Unused}]
  BY DEF Release

-----------------------------------------------------------------------------
(***************************************************************************)
(* Type correctness.                                                       *)
(***************************************************************************)

\* Creating tasks keeps the types of the task table and of the jobs.
LEMMA CreateTasksTyped ==
  ASSUME TypeOK, NEW type \in Types, NEW vms \in SUBSET VMs,
         NEW ids \in SUBSET TaskIds, CreateTasks(type, vms, ids)
  PROVE  task' \in [TaskIds -> Tasks] /\ job' \in [TaskIds -> Jobs]
<1>1. \A t \in TaskIds : VmsOn(vms, t[1]) \in SUBSET VMs
  BY DEF VmsOn
<1>2. task' \in [TaskIds -> Tasks]
  BY <1>1 DEF TypeOK, CreateTasks, Tasks
<1>3. job' \in [TaskIds -> Jobs]
  BY DEF TypeOK, CreateTasks, Jobs
<1> QED
  BY <1>2, <1>3

\* The types of the records and of the table hold initially.
LEMMA InitTyped == Init => TypeOK
  BY VmServiceAssumption DEF Init, TypeOK, Tasks, Types, Jobs, Replies, NoReply

\* Every step keeps the types.
LEMMA NextTyped == TypeOK /\ [Next]_vars => TypeOK'
<1> SUFFICES ASSUME TypeOK, [Next]_vars PROVE TypeOK'
  OBVIOUS
<1> USE DEF db, jobs, net
<1>1. CASE UNCHANGED vars
  BY <1>1 DEF vars, TypeOK
<1>2. ASSUME NEW s \in Specs, SetDeployConfig(s) PROVE TypeOK'
  BY <1>2 DEF SetDeployConfig, TypeOK
<1>3. ASSUME NEW vms \in SUBSET VMs, ExecuteDeployment(vms) PROVE TypeOK'
  <2>1. PICK made \in SUBSET NodesOf(vms), ids \in SUBSET TaskIds :
          /\ CreateTasks("vm-create", vms, ids)
          /\ table' = Release(AllocateOn(table, NodesOf(vms), vms),
                              {v \in vms : v.node \notin made})
          /\ UNCHANGED <<spec, inst, won, net, crashes, abandoned>>
    BY <1>3 DEF ExecuteDeployment
  <2>2. task' \in [TaskIds -> Tasks] /\ job' \in [TaskIds -> Jobs]
    BY <2>1, CreateTasksTyped DEF Types
  <2>3. table' \in [Rows -> VMs \cup {Unused}]
    BY <2>1, AllocateOnTyped, ReleaseTyped DEF TypeOK
  <2> QED
    BY <2>1, <2>2, <2>3 DEF TypeOK
<1>4. ASSUME NEW vms \in SUBSET VMs, AbortDeployment(vms) PROVE TypeOK'
  <2>1. PICK kept \in SUBSET NodesOf(vms) :
          /\ table' = AllocateOn(table, kept, vms)
          /\ abandoned' = abandoned \cup {v \in vms : v.node \in kept}
          /\ UNCHANGED <<spec, task, inst, jobs, net, crashes>>
    BY <1>4 DEF AbortDeployment
  <2>2. table' \in [Rows -> VMs \cup {Unused}]
    BY <2>1, AllocateOnTyped DEF TypeOK
  <2> QED
    BY <2>1, <2>2 DEF TypeOK
<1>5. ASSUME NEW type \in Types, NEW vms \in SUBSET VMs, Operate(type, vms) PROVE TypeOK'
  <2>1. PICK ids \in SUBSET TaskIds : CreateTasks(type, vms, ids)
    BY <1>5 DEF Operate
  <2>2. task' \in [TaskIds -> Tasks] /\ job' \in [TaskIds -> Jobs]
    BY <2>1, CreateTasksTyped
  <2> QED
    BY <1>5, <2>2 DEF Operate, TypeOK
<1>6. ASSUME NEW t \in TaskIds, StartJob(t) PROVE TypeOK'
  BY <1>6 DEF StartJob, TaskWith, TypeOK, Tasks, Jobs
<1>7. ASSUME NEW t \in TaskIds, Reply(t) PROVE TypeOK'
  <2>1. SuccessVms(task[t].type, task[t].total, reply[t].vms) \in SUBSET VMs
    BY DEF SuccessVms, TypeOK, Tasks, Types, Replies
  <2> QED
    BY <1>7, <2>1 DEF Reply, FirstWrite, TypeOK, Jobs
<1>8. ASSUME NEW t \in TaskIds, ConnectionLost(t) PROVE TypeOK'
  BY <1>8 DEF ConnectionLost, TypeOK, Jobs, Replies
<1>9. ASSUME NEW t \in TaskIds, WriteParams(t) PROVE TypeOK'
  BY <1>9 DEF WriteParams, TaskWith, TypeOK, Tasks, Jobs
<1>10. ASSUME NEW t \in TaskIds, WriteStatus(t) PROVE TypeOK'
  BY <1>10 DEF WriteStatus, TaskWith, TypeOK, Tasks, Jobs
<1>11. ASSUME NEW t \in TaskIds, WriteInstances(t) PROVE TypeOK'
  BY <1>11 DEF WriteInstances, WithInstances, TypeOK, Tasks, Jobs
<1>12. ASSUME NEW t \in TaskIds, ReleaseIps(t) PROVE TypeOK'
  <2>1. table' \in [Rows -> VMs \cup {Unused}]
    BY <1>12, ReleaseTyped DEF ReleaseIps, TypeOK
  <2> QED
    BY <1>12, <2>1 DEF ReleaseIps, TypeOK, Jobs
<1>13. ASSUME NEW t \in TaskIds, NEW code \in {"ok", "error"}, NEW vms \in SUBSET VMs,
              Answer(t, code, vms), host' \in [VMs -> {"absent", "running", "shutoff"}]
       PROVE  TypeOK'
  BY <1>13 DEF Answer, TypeOK, Replies
<1>14. ASSUME NEW t \in TaskIds PROVE task[t].total \in SUBSET VMs
  BY DEF TypeOK, Tasks
<1>15. ASSUME NEW t \in TaskIds, RefuseDeploy(t) \/ AcceptDeploy(t) \/ DeployVms(t) PROVE TypeOK'
  <2>1. CASE RefuseDeploy(t)
    BY <2>1, <1>13 DEF RefuseDeploy, TypeOK
  <2>2. CASE AcceptDeploy(t)
    BY <2>2 DEF AcceptDeploy, TypeOK
  <2>3. ASSUME DeployVms(t) PROVE TypeOK'
    <3> DEFINE Outcome(up, listed, h) ==
          /\ host' = [v \in VMs |-> IF v \in up THEN "running"
                                    ELSE IF v \in task[t].total THEN h[v] ELSE host[v]]
          /\ Answer(t, "ok", listed)
    <3>1. PICK up \in SUBSET {v \in task[t].total : host[v] = "absent"} :
            \E listed \in SUBSET up : \E h \in [task[t].total \ up -> {"absent", "running", "shutoff"}] :
              Outcome(up, listed, h)
      BY <2>3 DEF DeployVms
    <3>2. PICK listed \in SUBSET up : \E h \in [task[t].total \ up -> {"absent", "running", "shutoff"}] :
                                        Outcome(up, listed, h)
      BY <3>1
    <3>3. PICK h \in [task[t].total \ up -> {"absent", "running", "shutoff"}] : Outcome(up, listed, h)
      BY <3>2
    <3>4. host' \in [VMs -> {"absent", "running", "shutoff"}]
      BY <3>3 DEF TypeOK
    <3>5. listed \in SUBSET VMs
      BY <1>14
    <3> QED
      BY <3>3, <3>4, <3>5, <1>13
  <2> QED
    BY <1>15, <2>1, <2>2, <2>3
<1>16. ASSUME NEW t \in TaskIds, ServeUndeploy(t) PROVE TypeOK'
  <2>1. PICK failed, gone, off \in SUBSET task[t].total :
          /\ host' = [v \in VMs |-> IF v \in gone THEN "absent"
                                    ELSE IF v \in off THEN "shutoff" ELSE host[v]]
          /\ Answer(t, "ok", failed)
    BY <1>16 DEF ServeUndeploy
  <2> QED
    BY <2>1, <1>13, <1>14 DEF TypeOK
<1>17. ASSUME NEW t \in TaskIds, ServePower(t) PROVE TypeOK'
  <2> DEFINE goal == IF task[t].type = "vm-stop" THEN "shutoff" ELSE "running"
  <2>1. PICK failed \in SUBSET {v \in task[t].total : host[v] # goal} :
          /\ host' = [v \in VMs |-> IF v \in task[t].total \ failed THEN goal ELSE host[v]]
          /\ Answer(t, "ok", failed)
    BY <1>17 DEF ServePower
  <2>2. failed \in SUBSET VMs
    BY <2>1, <1>14
  <2> QED
    BY <2>1, <2>2, <1>13 DEF TypeOK
<1>18. ASSUME Crash PROVE TypeOK'
  <2>1. job' \in [TaskIds -> Jobs]
    BY <1>18 DEF Crash, Jobs
  <2>2. inst' \in [VMs -> Specs \cup {NoSpec}]
    BY <1>18 DEF Crash, WithInstances, TypeOK, Tasks
  <2>3. crashes' \in 0 .. MaxCrashes
    BY <1>18, VmServiceAssumption DEF Crash, TypeOK
  <2> QED
    BY <1>18, <2>1, <2>2, <2>3 DEF Crash, TypeOK
<1>19. CASE Handlers
  <2>1. ASSUME DeployDefault PROVE TypeOK'
    BY <2>1, <1>3, <1>4 DEF DeployDefault
  <2>2. ASSUME NEW vms \in SUBSET VMs, DeploySpecified(vms) PROVE TypeOK'
    BY <2>2, <1>3, <1>4 DEF DeploySpecified
  <2> QED
    BY <1>19, <1>2, <2>1, <2>2, <1>5 DEF Handlers
<1> QED
  BY <1>1, <1>6, <1>7, <1>8, <1>9, <1>10, <1>11, <1>12, <1>15, <1>16, <1>17, <1>18, <1>19
     DEF Next, Write, Serve

\* The database, the jobs and the network keep their types in every behaviour of
\* the manager.
THEOREM TypeCorrect == Spec => []TypeOK
  BY InitTyped, NextTyped, PTL DEF Spec

-----------------------------------------------------------------------------
(***************************************************************************)
(* The inductive invariant behind NoOverlappingCreates and                 *)
(* CreatingNotRecorded.  A deployment leaves the set of active tasks when  *)
(* it writes its status, before it writes its records: Written says that   *)
(* in between no other deployment has been let in, and it needs to know    *)
(* that a job writes only VMs of its own task (ReplyInTotal, WonInTotal)   *)
(* and that its status is written while the task is running (JobStatus).   *)
(***************************************************************************)
Busy == {"params", "status", "instances", "ips"}

\* A task that does not exist has neither job nor request nor reply.
Unborn ==
  \A t \in TaskIds :
    task[t].status = "none" => job[t] = "none" /\ t \notin request /\ reply[t] = NoReply

\* The status of a task follows the program counter of its job.
JobStatus ==
  \A t \in TaskIds :
    /\ job[t] = "spawned" => task[t].status = "created"
    /\ job[t] \in {"waiting", "status"} => task[t].status = "running"
    /\ job[t] = "params" /\ FirstWrite(task[t].type, reply[t].code) = "params"
       => task[t].status = "running"

ReplyInTotal == \A t \in TaskIds : reply[t].vms \subseteq task[t].total

WonInTotal == \A t \in TaskIds : job[t] \in Busy => won[t] \subseteq task[t].total

Written ==
  \A t \in TaskIds : \A u \in ActiveCreates :
    job[t] \in {"instances", "ips"} /\ task[t].type = "vm-create"
    => won[t] \cap task[u].total = {}

IInv == /\ TypeOK
        /\ Unborn
        /\ JobStatus
        /\ ReplyInTotal
        /\ WonInTotal
        /\ Written
        /\ NoOverlappingCreates
        /\ CreatingNotRecorded

\* Initially no task, job, record or request exists.
LEMMA InitIInv == Init => IInv
  BY InitTyped DEF Init, IInv, Unborn, JobStatus, ReplyInTotal, WonInTotal, Written, Busy,
     NoOverlappingCreates, CreatingNotRecorded, ActiveCreates, Active, NoReply

\* create_task never hands out two new ids of one node in one request.
LEMMA FreshUnique ==
  ASSUME NEW t \in TaskIds, NEW u \in TaskIds, FreshId(t), FreshId(u), t[1] = u[1]
  PROVE  t = u
<1>1. t = <<t[1], t[2]>> /\ u = <<u[1], u[2]>> /\ t[2] \in 1 .. MaxTasks /\ u[2] \in 1 .. MaxTasks
  BY DEF TaskIds
<1>2. ~(t[2] < u[2])
  BY <1>1 DEF FreshId
<1>3. ~(u[2] < t[2])
  BY <1>1 DEF FreshId
<1>4. t[2] = u[2]
  <2>1. t[2] \in Int /\ u[2] \in Int
    BY <1>1
  <2> QED
    BY <1>2, <1>3, <2>1
<1> QED
  BY <1>1, <1>4

\* A handler that passed its checks creates tasks without breaking the invariant.
LEMMA CreateKeepsIInv ==
  ASSUME IInv, TypeOK', Idle, NEW type \in Types, NEW vms \in SUBSET VMs,
         NEW ids \in SUBSET TaskIds, CreateTasks(type, vms, ids),
         UNCHANGED <<inst, won, request, reply>>,
         type = "vm-create" => CheckNodesWithVmIds(vms)
  PROVE  IInv'
<1>1. \A t \in TaskIds :
        /\ t \in ids => /\ task[t].status = "none"
                        /\ task'[t].type = type
                        /\ task'[t].status = "created"
                        /\ task'[t].total = VmsOn(vms, t[1])
                        /\ job'[t] = "spawned"
        /\ t \notin ids => task'[t] = task[t] /\ job'[t] = job[t]
  BY DEF IInv, TypeOK, CreateTasks, FreshId
<1>2. Unborn'
  BY <1>1 DEF IInv, Unborn
<1>3. JobStatus'
  BY <1>1 DEF IInv, JobStatus
<1>4. ReplyInTotal'
  BY <1>1 DEF IInv, ReplyInTotal, Unborn, NoReply
<1>5. WonInTotal'
  BY <1>1 DEF IInv, WonInTotal, Busy
<1>6. \A t \in TaskIds : job'[t] \notin Busy
  BY <1>1 DEF Idle, Busy
<1>7. Written'
  BY <1>6 DEF Written, Busy
<1>8. \A t \in TaskIds : t \in ActiveCreates' =>
        \/ t \in ActiveCreates /\ task'[t].total = task[t].total /\ t \notin ids
        \/ t \in ids /\ type = "vm-create" /\ task'[t].total = VmsOn(vms, t[1])
  BY <1>1 DEF ActiveCreates, Active
<1>9. NoOverlappingCreates'
  <2> SUFFICES ASSUME NEW t \in ActiveCreates', NEW u \in ActiveCreates', t # u
               PROVE  task'[t].total \cap task'[u].total = {}
    BY DEF NoOverlappingCreates
  <2>0. t \in TaskIds /\ u \in TaskIds
    BY DEF ActiveCreates
  <2>1. CASE t \notin ids /\ u \notin ids
    BY <2>0, <2>1, <1>8 DEF IInv, NoOverlappingCreates
  <2>2. CASE t \in ids /\ u \notin ids
    BY <2>0, <2>2, <1>8 DEF CheckNodesWithVmIds, VmsOn
  <2>3. CASE t \notin ids /\ u \in ids
    BY <2>0, <2>3, <1>8 DEF CheckNodesWithVmIds, VmsOn
  <2>4. CASE t \in ids /\ u \in ids
    <3>1. t[1] # u[1]
      BY <2>0, <2>4, FreshUnique DEF CreateTasks
    <3> QED
      BY <2>0, <2>4, <3>1, <1>8 DEF VmsOn
  <2> QED
    BY <2>1, <2>2, <2>3, <2>4
<1>10. CreatingNotRecorded'
  <2>1. Recorded' = Recorded
    BY DEF Recorded
  <2> SUFFICES ASSUME NEW t \in ActiveCreates' PROVE task'[t].total \cap Recorded = {}
    BY <2>1 DEF CreatingNotRecorded
  <2>0. t \in TaskIds
    BY DEF ActiveCreates
  <2> QED
    BY <2>0, <1>8 DEF IInv, CreatingNotRecorded, CheckNodesWithVmIds, VmsOn
<1> QED
  BY <1>2, <1>3, <1>4, <1>5, <1>7, <1>9, <1>10 DEF IInv

\* Every step keeps the invariant: one case per action.
LEMMA NextIInv == IInv /\ [Next]_vars => IInv'
<1> SUFFICES ASSUME IInv, [Next]_vars PROVE IInv'
  OBVIOUS
<1> USE DEF db, jobs, net
<1>0. TypeOK /\ TypeOK'
  BY NextTyped DEF IInv
<1>1. ASSUME UNCHANGED <<task, job, won, request, reply, inst>> PROVE IInv'
  BY <1>0, <1>1 DEF IInv, Unborn, JobStatus, ReplyInTotal, WonInTotal, Written,
     NoOverlappingCreates, CreatingNotRecorded, ActiveCreates, Active, Recorded
<1>2. ASSUME NEW vms \in SUBSET VMs, Idle, CheckNodesWithVmIds(vms),
             ExecuteDeployment(vms) \/ AbortDeployment(vms)
      PROVE  IInv'
  <2>1. ASSUME ExecuteDeployment(vms) PROVE IInv'
    <3>1. PICK ids \in SUBSET TaskIds : /\ CreateTasks("vm-create", vms, ids)
                                        /\ UNCHANGED <<inst, won, net>>
      BY <2>1 DEF ExecuteDeployment
    <3> QED
      BY <1>0, <1>2, <3>1, CreateKeepsIInv DEF Types
  <2>2. ASSUME AbortDeployment(vms) PROVE IInv'
    BY <2>2, <1>1 DEF AbortDeployment
  <2> QED
    BY <1>2, <2>1, <2>2
<1>3. ASSUME DeployDefault PROVE IInv'
  <2>1. CheckNodesWithVmIds(VMs)
    BY <1>3 DEF DeployDefault, CheckNodes, CheckNodesWithVmIds
  <2> QED
    BY <1>3, <2>1, <1>2 DEF DeployDefault
<1>4. ASSUME NEW vms \in SUBSET VMs, DeploySpecified(vms) PROVE IInv'
  BY <1>4, <1>2 DEF DeploySpecified
<1>5. ASSUME NEW type \in Types \ {"vm-create"}, NEW vms \in SUBSET VMs, Operate(type, vms)
      PROVE  IInv'
  <2>1. PICK ids \in SUBSET TaskIds : CreateTasks(type, vms, ids)
    BY <1>5 DEF Operate
  <2> QED
    BY <1>0, <1>5, <2>1, CreateKeepsIInv DEF Operate
<1>6. ASSUME NEW s \in Specs, SetDeployConfig(s) PROVE IInv'
  BY <1>6, <1>1 DEF SetDeployConfig
<1>7. CASE Handlers
  BY <1>7, <1>3, <1>4, <1>5, <1>6 DEF Handlers
<1>8. CASE UNCHANGED vars
  BY <1>8, <1>1 DEF vars
\* The steps of one job t.
<1>9. ASSUME NEW t \in TaskIds, StartJob(t) PROVE IInv'
  <2>1. /\ \A u \in TaskIds : /\ task'[u].type = task[u].type
                              /\ task'[u].total = task[u].total
                              /\ u # t => task'[u].status = task[u].status /\ job'[u] = job[u]
        /\ task[t].status = "created" /\ task'[t].status = "running" /\ job'[t] = "waiting"
        /\ UNCHANGED <<inst, won, reply>> /\ request' = request \cup {t}
    BY <1>0, <1>9 DEF StartJob, TaskWith, TypeOK, IInv, JobStatus
  <2>2. ActiveCreates' = ActiveCreates /\ Recorded' = Recorded
    BY <2>1 DEF ActiveCreates, Active, Recorded
  <2>3. Unborn' /\ JobStatus'
    BY <2>1 DEF IInv, Unborn, JobStatus
  <2>4. ReplyInTotal' /\ WonInTotal' /\ Written'
    BY <2>1, <2>2 DEF IInv, ReplyInTotal, WonInTotal, Written, Busy, ActiveCreates
  <2>5. NoOverlappingCreates' /\ CreatingNotRecorded'
    BY <2>1, <2>2 DEF IInv, NoOverlappingCreates, CreatingNotRecorded, ActiveCreates
  <2> QED
    BY <1>0, <2>3, <2>4, <2>5 DEF IInv
<1>10. ASSUME NEW t \in TaskIds, Reply(t) PROVE IInv'
  <2>1. /\ UNCHANGED <<task, inst, request, reply>>
        /\ \A u \in TaskIds : u # t => job'[u] = job[u] /\ won'[u] = won[u]
        /\ job[t] = "waiting"
        /\ job'[t] = FirstWrite(task[t].type, reply[t].code)
        /\ job'[t] \in {"params", "status"}
        /\ won'[t] \subseteq task[t].total
    BY <1>0, <1>10 DEF Reply, TypeOK, FirstWrite, SuccessVms, IInv, ReplyInTotal
  <2>2. ActiveCreates' = ActiveCreates /\ Recorded' = Recorded
    BY <2>1 DEF ActiveCreates, Active, Recorded
  <2>3. Unborn' /\ JobStatus'
    BY <2>1 DEF IInv, Unborn, JobStatus, FirstWrite
  <2>4. ReplyInTotal' /\ WonInTotal' /\ Written'
    BY <2>1, <2>2 DEF IInv, ReplyInTotal, WonInTotal, Written
  <2>5. NoOverlappingCreates' /\ CreatingNotRecorded'
    BY <2>1, <2>2 DEF IInv, NoOverlappingCreates, CreatingNotRecorded
  <2> QED
    BY <1>0, <2>3, <2>4, <2>5 DEF IInv
<1>11. ASSUME NEW t \in TaskIds, ConnectionLost(t) PROVE IInv'
  <2>1. /\ UNCHANGED <<task, inst>>
        /\ \A u \in TaskIds : u # t => job'[u] = job[u] /\ won'[u] = won[u] /\ reply'[u] = reply[u]
        /\ job[t] = "waiting" /\ job'[t] = "params" /\ won'[t] = {} /\ reply'[t].vms = {}
        /\ request' \subseteq request
    BY <1>0, <1>11 DEF ConnectionLost, TypeOK
  <2>2. ActiveCreates' = ActiveCreates /\ Recorded' = Recorded
    BY <2>1 DEF ActiveCreates, Active, Recorded
  <2>3. Unborn' /\ JobStatus'
    BY <2>1 DEF IInv, Unborn, JobStatus
  <2>4. ReplyInTotal' /\ WonInTotal' /\ Written'
    BY <2>1, <2>2 DEF IInv, ReplyInTotal, WonInTotal, Written
  <2>5. NoOverlappingCreates' /\ CreatingNotRecorded'
    BY <2>1, <2>2 DEF IInv, NoOverlappingCreates, CreatingNotRecorded
  <2> QED
    BY <1>0, <2>3, <2>4, <2>5 DEF IInv
<1>12. ASSUME NEW t \in TaskIds, WriteParams(t) PROVE IInv'
  <2>1. /\ \A u \in TaskIds : /\ task'[u].type = task[u].type
                              /\ task'[u].total = task[u].total
                              /\ task'[u].status = task[u].status
                              /\ u # t => job'[u] = job[u]
        /\ job[t] = "params"
        /\ job'[t] = IF task[t].type = "vm-delete" /\ reply[t].code = "ok"
                     THEN "instances" ELSE "status"
        /\ UNCHANGED <<inst, won, request, reply>>
    BY <1>0, <1>12 DEF WriteParams, TaskWith, TypeOK, SecondWrite
  <2>2. ActiveCreates' = ActiveCreates /\ Recorded' = Recorded
    BY <2>1 DEF ActiveCreates, Active, Recorded
  <2>3. Unborn' /\ JobStatus'
    BY <2>1 DEF IInv, Unborn, JobStatus, FirstWrite
  <2>4. ReplyInTotal' /\ WonInTotal' /\ Written'
    BY <2>1, <2>2 DEF IInv, ReplyInTotal, WonInTotal, Written, Busy, ActiveCreates
  <2>5. NoOverlappingCreates' /\ CreatingNotRecorded'
    BY <2>1, <2>2 DEF IInv, NoOverlappingCreates, CreatingNotRecorded, ActiveCreates
  <2> QED
    BY <1>0, <2>3, <2>4, <2>5 DEF IInv
<1>13. ASSUME NEW t \in TaskIds, WriteStatus(t) PROVE IInv'
  <2>1. /\ \A u \in TaskIds : /\ task'[u].type = task[u].type
                              /\ task'[u].total = task[u].total
                              /\ u # t => task'[u].status = task[u].status /\ job'[u] = job[u]
        /\ job[t] = "status" /\ task[t].status = "running"
        /\ task'[t].status \in {"success", "failed"}
        /\ job'[t] \in {"none", "instances", "params"}
        /\ job'[t] = "params" => task[t].type = "vm-delete" /\ reply[t].code = "ok"
        /\ UNCHANGED <<inst, won, request, reply>>
    BY <1>0, <1>13 DEF WriteStatus, TaskWith, TypeOK, SecondWrite, IInv, JobStatus
  <2>2. ActiveCreates' = ActiveCreates \ {t} /\ Recorded' = Recorded
    BY <2>1 DEF ActiveCreates, Active, Recorded
  <2>3. Unborn' /\ JobStatus'
    BY <2>1 DEF IInv, Unborn, JobStatus, FirstWrite
  <2>4. ReplyInTotal' /\ WonInTotal'
    BY <2>1 DEF IInv, ReplyInTotal, WonInTotal, Busy
  <2>5. NoOverlappingCreates' /\ CreatingNotRecorded'
    BY <2>1, <2>2 DEF IInv, NoOverlappingCreates, CreatingNotRecorded, ActiveCreates
  <2>6. Written'
    <3> SUFFICES ASSUME NEW w \in TaskIds, NEW u \in ActiveCreates \ {t},
                        job'[w] \in {"instances", "ips"}, task[w].type = "vm-create"
                 PROVE  won[w] \cap task[u].total = {}
      BY <2>1, <2>2 DEF Written, ActiveCreates
    <3>1. CASE w # t
      BY <3>1, <2>1 DEF IInv, Written
    <3>2. CASE w = t
      <4>1. t \in ActiveCreates
        BY <2>1, <3>2 DEF ActiveCreates, Active
      <4>2. won[t] \subseteq task[t].total
        BY <2>1 DEF IInv, WonInTotal, Busy
      <4> QED
        BY <3>2, <4>1, <4>2 DEF IInv, NoOverlappingCreates
    <3> QED
      BY <3>1, <3>2
  <2> QED
    BY <1>0, <2>3, <2>4, <2>5, <2>6 DEF IInv
\* Writing records: only VMs no other deployment is creating are added.
<1>14. ASSUME NEW t \in TaskIds, NEW vms \in SUBSET won[t], job[t] = "instances",
              inst' = WithInstances(t, vms), UNCHANGED task
       PROVE  CreatingNotRecorded'
  <2>1. ActiveCreates' = ActiveCreates
    BY <1>14 DEF ActiveCreates, Active
  <2>2. CASE task[t].type = "vm-create"
    <3>1. Recorded' \subseteq Recorded \cup vms
      BY <1>0, <1>14 DEF Recorded, WithInstances, TypeOK
    <3> QED
      BY <1>14, <2>1, <2>2, <3>1 DEF IInv, CreatingNotRecorded, Written
  <2>3. CASE task[t].type # "vm-create"
    <3>1. Recorded' \subseteq Recorded
      BY <1>0, <1>14, <2>3 DEF Recorded, WithInstances, TypeOK
    <3> QED
      BY <1>14, <2>1, <3>1 DEF IInv, CreatingNotRecorded
  <2> QED
    BY <2>2, <2>3
<1>15. ASSUME NEW t \in TaskIds, WriteInstances(t) PROVE IInv'
  <2>1. /\ UNCHANGED <<task, won, request, reply>>
        /\ \A u \in TaskIds : u # t => job'[u] = job[u]
        /\ job[t] = "instances" /\ job'[t] = "ips"
    BY <1>0, <1>15 DEF WriteInstances, TypeOK
  <2>2. ActiveCreates' = ActiveCreates
    BY <2>1 DEF ActiveCreates, Active
  <2>3. Unborn' /\ JobStatus'
    BY <2>1 DEF IInv, Unborn, JobStatus
  <2>4. ReplyInTotal' /\ WonInTotal' /\ Written'
    BY <2>1, <2>2 DEF IInv, ReplyInTotal, WonInTotal, Written, Busy
  <2>5. NoOverlappingCreates'
    BY <2>1, <2>2 DEF IInv, NoOverlappingCreates
  <2>6. CreatingNotRecorded'
    BY <1>14, <1>15 DEF WriteInstances
  <2> QED
    BY <1>0, <2>3, <2>4, <2>5, <2>6 DEF IInv
<1>16. ASSUME NEW t \in TaskIds, ReleaseIps(t) PROVE IInv'
  <2>1. /\ UNCHANGED <<task, inst, won, request, reply>>
        /\ \A u \in TaskIds : u # t => job'[u] = job[u]
        /\ job'[t] = "none"
    BY <1>0, <1>16 DEF ReleaseIps, TypeOK
  <2>2. ActiveCreates' = ActiveCreates /\ Recorded' = Recorded
    BY <2>1 DEF ActiveCreates, Active, Recorded
  <2> QED
    BY <1>0, <2>1, <2>2 DEF IInv, Unborn, JobStatus, ReplyInTotal, WonInTotal, Written, Busy,
       NoOverlappingCreates, CreatingNotRecorded
<1>17. ASSUME NEW t \in TaskIds, NEW code, NEW vms \in SUBSET task[t].total,
              Answer(t, code, vms)
       PROVE  IInv'
  <2>1. /\ UNCHANGED <<task, inst, job, won>>
        /\ request' \subseteq request
        /\ \A u \in TaskIds : reply'[u] = reply[u] \/ (u = t /\ job[t] = "waiting" /\ reply'[t].vms = vms)
    BY <1>0, <1>17 DEF Answer, TypeOK
  <2>2. ActiveCreates' = ActiveCreates /\ Recorded' = Recorded
    BY <2>1 DEF ActiveCreates, Active, Recorded
  <2>3. Unborn' /\ JobStatus'
    BY <2>1 DEF IInv, Unborn, JobStatus
  <2>4. ReplyInTotal' /\ WonInTotal' /\ Written'
    BY <2>1, <2>2 DEF IInv, ReplyInTotal, WonInTotal, Written
  <2>5. NoOverlappingCreates' /\ CreatingNotRecorded'
    BY <2>1, <2>2 DEF IInv, NoOverlappingCreates, CreatingNotRecorded
  <2> QED
    BY <1>0, <2>3, <2>4, <2>5 DEF IInv
<1>18. ASSUME NEW t \in TaskIds, Serve(t) PROVE IInv'
  <2>1. ASSUME RefuseDeploy(t) \/ DeployVms(t) PROVE IInv'
    BY <2>1, <1>17 DEF RefuseDeploy, DeployVms
  <2>4. ASSUME AcceptDeploy(t) PROVE IInv'
    <3>1. UNCHANGED <<task, inst, job, won, reply>> /\ request' \subseteq request
      BY <2>4 DEF AcceptDeploy
    <3> QED
      BY <1>0, <3>1 DEF IInv, Unborn, JobStatus, ReplyInTotal, WonInTotal, Written,
         NoOverlappingCreates, CreatingNotRecorded, ActiveCreates, Active, Recorded
  <2>2. ASSUME ServeUndeploy(t) PROVE IInv'
    BY <2>2, <1>17 DEF ServeUndeploy
  <2>3. ASSUME ServePower(t) PROVE IInv'
    BY <2>3, <1>17 DEF ServePower
  <2> QED
    BY <1>18, <2>1, <2>2, <2>3, <2>4 DEF Serve
<1>19. ASSUME Crash PROVE IInv'
  <2>1. /\ UNCHANGED <<task, won, request, reply>>
        /\ \A u \in TaskIds : job'[u] = "none"
    BY <1>19 DEF Crash
  <2>2. ActiveCreates' = ActiveCreates
    BY <2>1 DEF ActiveCreates, Active
  <2>3. CreatingNotRecorded'
    <3>1. CASE inst' = inst
      BY <2>1, <2>2, <3>1 DEF IInv, CreatingNotRecorded, Recorded
    <3>2. CASE \E t \in TaskIds : \E some \in SUBSET won[t] :
                 job[t] = "instances" /\ inst' = WithInstances(t, some)
      BY <3>2, <2>1, <1>14
    <3> QED
      BY <1>19, <3>1, <3>2 DEF Crash
  <2> QED
    BY <1>0, <2>1, <2>2, <2>3 DEF IInv, Unborn, JobStatus, ReplyInTotal, WonInTotal, Written,
       Busy, NoOverlappingCreates
<1> QED
  BY <1>7, <1>8, <1>9, <1>10, <1>11, <1>12, <1>13, <1>15, <1>16, <1>18, <1>19 DEF Next, Write

\* PreDeploymentChecker does its work: two deployments never create the same VM
\* at the same time.
THEOREM NoOverlappingCreatesHolds == Spec => []NoOverlappingCreates
<1>1. IInv => NoOverlappingCreates
  BY DEF IInv
<1> QED
  BY <1>1, InitIInv, NextIInv, PTL DEF Spec

\* A deployment never writes over the record of a VM that is already there.
THEOREM CreatingNotRecordedHolds == Spec => []CreatingNotRecorded
<1>1. IInv => CreatingNotRecorded
  BY DEF IInv
<1> QED
  BY <1>1, InitIInv, NextIInv, PTL DEF Spec

-----------------------------------------------------------------------------
(***************************************************************************)
(* The manager implements TaskLifecycle.                                   *)
(***************************************************************************)

\* A step that leaves the status of every task alone is a stuttering step.
LEMMA SameStatus ==
  ASSUME \A t \in TaskIds : task'[t].status = task[t].status
  PROVE  StatusOf' = StatusOf
  BY DEF StatusOf

\* create_task maps to the creation of one task per node.
LEMMA CreateRefines ==
  ASSUME NEW type, NEW vms, NEW ids \in SUBSET TaskIds, CreateTasks(type, vms, ids)
  PROVE  Lifecycle!Next
<1>1. \A t \in ids : StatusOf[t] = "none"
  BY DEF CreateTasks, FreshId, StatusOf
<1>2. StatusOf' = [t \in TaskIds |-> IF t \in ids THEN "created" ELSE StatusOf[t]]
  BY DEF CreateTasks, StatusOf
<1>3. Lifecycle!Create(ids)
  BY <1>1, <1>2 DEF Lifecycle!Create
<1> QED
  BY <1>3 DEF Lifecycle!Next

\* Every step of the manager is a step of the life cycle or leaves it alone: the
\* status is written only while the task is in the state before (JobStatus).
LEMMA NextRefines == IInv /\ [Next]_vars => [Lifecycle!Next]_StatusOf
<1> SUFFICES ASSUME IInv, [Next]_vars PROVE Lifecycle!Next \/ StatusOf' = StatusOf
  OBVIOUS
<1> USE DEF db, jobs, net
<1>0. TypeOK
  BY DEF IInv
<1>1. ASSUME task' = task PROVE StatusOf' = StatusOf
  BY <1>1 DEF StatusOf
<1>2. ASSUME NEW vms \in SUBSET VMs, ExecuteDeployment(vms) \/ AbortDeployment(vms)
      PROVE  Lifecycle!Next \/ StatusOf' = StatusOf
  BY <1>1, <1>2, CreateRefines DEF ExecuteDeployment, AbortDeployment
<1>3. CASE Handlers
  BY <1>1, <1>2, <1>3, CreateRefines
     DEF Handlers, SetDeployConfig, DeployDefault, DeploySpecified, Operate
<1>4. ASSUME NEW t \in TaskIds, StartJob(t) PROVE Lifecycle!Next
  <2>1. StatusOf[t] = "created"
    BY <1>4 DEF StartJob, StatusOf, IInv, JobStatus
  <2>2. StatusOf' = [StatusOf EXCEPT ![t] = "running"]
    BY <1>0, <1>4 DEF StartJob, StatusOf, TaskWith, TypeOK
  <2> QED
    BY <2>1, <2>2 DEF Lifecycle!Next, Lifecycle!Run
<1>5. ASSUME NEW t \in TaskIds, WriteStatus(t) PROVE Lifecycle!Next
  <2>1. StatusOf[t] = "running"
    BY <1>5 DEF WriteStatus, StatusOf, IInv, JobStatus
  <2>2. StatusOf' = [StatusOf EXCEPT ![t] = IF won[t] = task[t].total THEN "success" ELSE "failed"]
    BY <1>0, <1>5 DEF WriteStatus, StatusOf, TaskWith, TypeOK
  <2> QED
    BY <2>1, <2>2 DEF Lifecycle!Next, Lifecycle!End
<1>6. ASSUME NEW t \in TaskIds, WriteParams(t) PROVE StatusOf' = StatusOf
  <2>1. \A u \in TaskIds : task'[u].status = task[u].status
    BY <1>0, <1>6 DEF WriteParams, TaskWith, TypeOK
  <2> QED
    BY <2>1, SameStatus
<1>7. ASSUME NEW t \in TaskIds,
             Reply(t) \/ ConnectionLost(t) \/ WriteInstances(t) \/ ReleaseIps(t) \/ Serve(t)
      PROVE  StatusOf' = StatusOf
  BY <1>1, <1>7 DEF Reply, ConnectionLost, WriteInstances, ReleaseIps, Serve, RefuseDeploy,
     AcceptDeploy, DeployVms, ServeUndeploy, ServePower, Answer
<1>8. CASE Crash
  BY <1>1, <1>8 DEF Crash
<1>9. CASE UNCHANGED vars
  BY <1>1, <1>9 DEF vars
<1> QED
  BY <1>3, <1>4, <1>5, <1>6, <1>7, <1>8, <1>9 DEF Next, Write

\* The jobs keep TaskService's promise: every task is created, run and ended at
\* most once and in that order, through lost replies and crashes.
THEOREM LifecycleImplemented == Spec => ImplementsLifecycle
<1>1. Init => Lifecycle!Init
  BY DEF Init, Lifecycle!Init, StatusOf
<1> QED
  BY <1>1, InitIInv, NextIInv, NextRefines, PTL DEF Spec, ImplementsLifecycle, Lifecycle!Spec

-----------------------------------------------------------------------------
(***************************************************************************)
(* What a job knows: its reply, its result lists and its status.           *)
(***************************************************************************)
Ended(t) == task[t].status \in {"success", "failed"}

\* An undeployment that was answered: it writes its status first.
AnsweredDelete(t) == task[t].type = "vm-delete" /\ reply[t].code = "ok"

\* The result lists partition the VMs of the task and agree with its status.
Outcome(t) ==
  /\ task[t].success \cup task[t].fail = task[t].total
  /\ task[t].success \cap task[t].fail = {}
  /\ (task[t].status = "success") <=> (task[t].fail = {})

\* The task has the result lists, or the status, that the job has yet to complete.
ListsWritten(t) == task[t].success = won[t] /\ task[t].fail = task[t].total \ won[t]

StatusWritten(t) == task[t].status = IF won[t] = task[t].total THEN "success" ELSE "failed"

ResultsOf(t) ==
  /\ job[t] = "status" /\ ~AnsweredDelete(t) => ListsWritten(t)
  /\ job[t] = "params" /\ AnsweredDelete(t) => StatusWritten(t)
  /\ Ended(t) /\ (task[t].type # "vm-delete" \/ (crashes = 0 /\ job[t] # "params")) => Outcome(t)

\* A request that is with its compute node was sent and not answered; only a lost
\* connection ends its job before the node does.
SentOf(t) ==
  /\ task[t].status \in {"none", "created"} => reply[t] = NoReply /\ t \notin request \cup accepted
  /\ t \in request \cup accepted => reply[t].code # "ok"
  /\ t \in accepted => task[t].type = "vm-create"
  /\ reply[t].code # "ok" => reply[t].vms = {}

\* What a job takes from its reply: nothing from an error, and every VM from the
\* answer to an undeployment.
TakenOf(t) ==
  job[t] \in Busy =>
    /\ reply[t].code # "none"
    /\ reply[t].code = "error" => won[t] = {}
    /\ AnsweredDelete(t) => won[t] = task[t].total
    /\ task[t].type = "vm-create" => won[t] \subseteq reply[t].vms
    /\ job[t] \in {"instances", "ips"} => task[t].type \in {"vm-create", "vm-delete"}

\* A deployment that ended without an answer has failed for all its VMs.
GivenUp(t) == \A v \in task[t].total : task[t].status = "failed" /\ v \in task[t].fail

ClosedOf(t) ==
  /\ Ended(t) => reply[t].code # "none"
  /\ Ended(t) /\ task[t].type = "vm-create" /\ reply[t].code = "error" => GivenUp(t)
  /\ AnsweredDelete(t) /\ job[t] \in {"params", "instances", "ips"} => task[t].status = "success"

JobOf(t) == ResultsOf(t) /\ SentOf(t) /\ TakenOf(t) /\ ClosedOf(t)

JInv == \A t \in TaskIds : JobOf(t)

\* What a step leaves alone of a task, and what no step of its job changes.
SameTask(u) == task'[u] = task[u] /\ job'[u] = job[u] /\ won'[u] = won[u]

SameOrder(u) == task'[u].type = task[u].type /\ task'[u].total = task[u].total

\* The tasks of a request are new, one per node.
LEMMA CreateEffect ==
  ASSUME TypeOK, NEW type, NEW vms, NEW ids \in SUBSET TaskIds, CreateTasks(type, vms, ids)
  PROVE  \A t \in TaskIds :
           /\ t \in ids => /\ task[t].status = "none" /\ task'[t].status = "created"
                           /\ task'[t].type = type /\ task'[t].total = VmsOn(vms, t[1])
                           /\ job'[t] = "spawned"
           /\ t \notin ids => task'[t] = task[t] /\ job'[t] = job[t]
BY DEF TypeOK, CreateTasks, FreshId

\* A job that starts marks its task as running and sends the request.
LEMMA StartJobEffect ==
  ASSUME TypeOK, NEW t \in TaskIds, StartJob(t)
  PROVE  /\ job[t] = "spawned" /\ job'[t] = "waiting" /\ task'[t].status = "running"
         /\ SameOrder(t) /\ \A u \in TaskIds : u # t => SameTask(u)
         /\ request' = request \cup {t}
         /\ UNCHANGED <<inst, table, won, accepted, reply, host, crashes, abandoned>>
BY DEF StartJob, TaskWith, TypeOK, SameTask, SameOrder

\* A reply decides which VMs count as successful and what is written first.
LEMMA ReplyEffect ==
  ASSUME TypeOK, NEW t \in TaskIds, Reply(t)
  PROVE  /\ job[t] = "waiting" /\ reply[t].code # "none"
         /\ job'[t] = FirstWrite(task[t].type, reply[t].code) /\ job'[t] \in {"params", "status"}
         /\ won'[t] = IF reply[t].code = "ok"
                      THEN SuccessVms(task[t].type, task[t].total, reply[t].vms) ELSE {}
         /\ \A u \in TaskIds : u # t => SameTask(u)
         /\ UNCHANGED <<task, inst, table, request, accepted, reply, host, crashes, abandoned>>
BY DEF Reply, TypeOK, SameTask, FirstWrite, db, net

\* A lost connection counts as a failure of every VM.
LEMMA LostEffect ==
  ASSUME TypeOK, NEW t \in TaskIds, ConnectionLost(t)
  PROVE  /\ job[t] = "waiting" /\ job'[t] = "params" /\ won'[t] = {}
         /\ reply'[t].code = "error" /\ reply'[t].vms = {}
         /\ \A u \in TaskIds : u # t => SameTask(u) /\ reply'[u] = reply[u]
         /\ request' \subseteq request
         /\ UNCHANGED <<task, inst, table, accepted, host, crashes, abandoned>>
BY DEF ConnectionLost, TypeOK, SameTask, db

\* The result lists are written.
LEMMA ParamsEffect ==
  ASSUME TypeOK, NEW t \in TaskIds, WriteParams(t)
  PROVE  /\ job[t] = "params" /\ job'[t] = (IF AnsweredDelete(t) THEN "instances" ELSE "status")
         /\ task'[t].status = task[t].status /\ task'[t].success = won[t]
         /\ task'[t].fail = task[t].total \ won[t]
         /\ SameOrder(t) /\ \A u \in TaskIds : u # t => SameTask(u)
         /\ UNCHANGED <<inst, table, won, request, accepted, reply, host, crashes, abandoned>>
BY DEF WriteParams, TaskWith, TypeOK, SameTask, SameOrder, SecondWrite, AnsweredDelete, net

\* The status is written; a stop or a start ends with it.
LEMMA StatusEffect ==
  ASSUME TypeOK, NEW t \in TaskIds, WriteStatus(t)
  PROVE  /\ job[t] = "status"
         /\ job'[t] = (IF task[t].type \in {"vm-stop", "vm-start"} THEN "none"
                       ELSE IF AnsweredDelete(t) THEN "params" ELSE "instances")
         /\ task'[t].status = (IF won[t] = task[t].total THEN "success" ELSE "failed")
         /\ task'[t].success = task[t].success /\ task'[t].fail = task[t].fail
         /\ SameOrder(t) /\ \A u \in TaskIds : u # t => SameTask(u)
         /\ UNCHANGED <<inst, table, won, request, accepted, reply, host, crashes, abandoned>>
BY DEF WriteStatus, TaskWith, TypeOK, SameTask, SameOrder, SecondWrite, AnsweredDelete, net

\* The records of the successful VMs are created or deleted.
LEMMA InstancesEffect ==
  ASSUME TypeOK, NEW t \in TaskIds, WriteInstances(t)
  PROVE  /\ job[t] = "instances" /\ job'[t] = "ips"
         /\ task[t].type = "vm-create" => Recorded' = Recorded \cup won[t]
         /\ task[t].type # "vm-create" => Recorded' = Recorded \ won[t]
         /\ \A u \in TaskIds : u # t => SameTask(u)
         /\ UNCHANGED <<task, table, won, request, accepted, reply, host, crashes, abandoned>>
<1>1. task[t].spec # NoSpec /\ won[t] \subseteq VMs
  BY VmServiceAssumption DEF TypeOK, Tasks
<1>2. \A v \in VMs : inst'[v] = IF v \notin won[t] THEN inst[v]
                                ELSE IF task[t].type = "vm-create" THEN task[t].spec ELSE NoSpec
  BY DEF WriteInstances, WithInstances
<1>3. /\ task[t].type = "vm-create" => Recorded' = Recorded \cup won[t]
      /\ task[t].type # "vm-create" => Recorded' = Recorded \ won[t]
  BY <1>1, <1>2 DEF Recorded
<1>4. QED
  BY <1>3 DEF WriteInstances, TypeOK, SameTask, net

\* The interfaces are released and the job ends.
LEMMA IpsEffect ==
  ASSUME TypeOK, NEW t \in TaskIds, ReleaseIps(t)
  PROVE  /\ job[t] = "ips" /\ job'[t] = "none"
         /\ table' = Release(table, IF task[t].type = "vm-create"
                                    THEN task[t].total \ won[t] ELSE won[t])
         /\ \A u \in TaskIds : u # t => SameTask(u)
         /\ UNCHANGED <<task, inst, won, request, accepted, reply, host, crashes, abandoned>>
BY DEF ReleaseIps, TypeOK, SameTask, net

\* A crash ends every job; some records may have been written.
LEMMA CrashEffect ==
  ASSUME TypeOK, Crash
  PROVE  /\ crashes' # 0 /\ \A t \in TaskIds : job'[t] = "none"
         /\ \/ inst' = inst
            \/ \E t \in TaskIds : \E some \in SUBSET won[t] :
                 job[t] = "instances" /\ inst' = WithInstances(t, some)
         /\ UNCHANGED <<task, table, won, request, accepted, reply, host, abandoned>>
<1>1. crashes \in Nat
  BY DEF TypeOK
<1>2. QED
  BY <1>1 DEF Crash, net

\* What an answer of a compute node does; it changes no job and no record.
LEMMA AnswerEffect ==
  ASSUME TypeOK, NEW t \in TaskIds, NEW code, NEW vms, Answer(t, code, vms)
  PROVE  /\ request' = request \ {t} /\ accepted' = accepted \ {t}
         /\ \A u \in TaskIds :
              \/ reply'[u] = reply[u]
              \/ /\ u = t /\ job[t] = "waiting" /\ reply[t].code = "none"
                 /\ reply'[t].code = code /\ reply'[t].vms = vms
         /\ UNCHANGED <<task, inst, table, job, won, crashes, abandoned>>
BY DEF Answer, TypeOK, db, jobs

\* A task that a step leaves alone keeps what is said of it.
LEMMA JobSame ==
  ASSUME NEW u \in TaskIds, JobOf(u), SameTask(u), reply'[u] = reply[u], crashes' = crashes,
         u \in request' => u \in request, u \in accepted' => u \in accepted
  PROVE  JobOf(u)'
BY DEF JobOf, ResultsOf, SentOf, TakenOf, ClosedOf, SameTask, Ended, AnsweredDelete, Outcome,
       ListsWritten, StatusWritten, GivenUp

\* An answer, an acceptance or a refusal of a compute node.
LEMMA JobServe ==
  ASSUME IInv, JInv, NEW t \in TaskIds, Serve(t)
  PROVE  JInv'
<1>0. TypeOK
  BY DEF IInv
<1>1. ASSUME NEW code, NEW vms, Answer(t, code, vms), code = "ok" \/ vms = {} PROVE JInv'
  <2>1. /\ request' = request \ {t} /\ accepted' = accepted \ {t}
        /\ \A u \in TaskIds :
             \/ reply'[u] = reply[u]
             \/ /\ u = t /\ job[t] = "waiting" /\ reply[t].code = "none"
                /\ reply'[t].code = "ok" \/ reply'[t].vms = {}
        /\ UNCHANGED <<task, job, won, crashes>>
    BY <1>0, <1>1, AnswerEffect
  <2> SUFFICES ASSUME NEW u \in TaskIds PROVE JobOf(u)'
    BY DEF JInv
  <2>2. JobOf(u) /\ SameTask(u)
    BY <2>1 DEF JInv, SameTask
  <2>3. CASE reply'[u] = reply[u]
    BY <2>1, <2>2, <2>3, JobSame
  <2>4. CASE u = t /\ job[t] = "waiting" /\ (reply'[t].code = "ok" \/ reply'[t].vms = {})
    <3>1. task[t].status = "running"
      BY <2>4 DEF IInv, JobStatus
    <3>2. QED
      BY <2>1, <2>4, <3>1 DEF JobOf, ResultsOf, SentOf, TakenOf, ClosedOf, Ended, Busy
  <2>5. QED
    BY <2>1, <2>3, <2>4
<1>2. CASE AcceptDeploy(t)
  <2>1. /\ t \in request /\ task[t].type = "vm-create"
        /\ request' = request \ {t} /\ accepted' = accepted \cup {t}
        /\ UNCHANGED <<task, job, won, reply, crashes>>
    BY <1>2 DEF AcceptDeploy, db, jobs
  <2> SUFFICES ASSUME NEW u \in TaskIds PROVE JobOf(u)'
    BY DEF JInv
  <2>2. JobOf(u)
    BY DEF JInv
  <2>3. CASE u # t
    BY <2>1, <2>2, <2>3, JobSame DEF SameTask
  <2>4. CASE u = t
    BY <2>1, <2>2, <2>4 DEF JobOf, ResultsOf, SentOf, TakenOf, ClosedOf, Ended, AnsweredDelete,
       Outcome, ListsWritten, StatusWritten, GivenUp
  <2>5. QED
    BY <2>3, <2>4
<1>3. QED
  BY <1>1, <1>2 DEF Serve, RefuseDeploy, DeployVms, ServeUndeploy, ServePower

\* Every step keeps it.
LEMMA NextJInv == IInv /\ JInv /\ [Next]_vars => JInv'
<1> SUFFICES ASSUME IInv, JInv, [Next]_vars PROVE JInv'
  OBVIOUS
<1>0. TypeOK /\ \A u \in TaskIds : JobOf(u)
  BY DEF IInv, JInv
<1>1. ASSUME UNCHANGED <<task, job, won, request, accepted, reply, crashes>> PROVE JInv'
  BY <1>0, <1>1, JobSame DEF JInv, SameTask
<1>2. ASSUME NEW type, NEW vms, NEW ids \in SUBSET TaskIds, CreateTasks(type, vms, ids),
             UNCHANGED <<won, request, accepted, reply, crashes>>
      PROVE  JInv'
  <2> SUFFICES ASSUME NEW u \in TaskIds PROVE JobOf(u)'
    BY DEF JInv
  <2>1. CASE u \notin ids
    BY <1>0, <1>2, <2>1, CreateEffect, JobSame DEF SameTask
  <2>2. CASE u \in ids
    <3>1. task[u].status = "none" /\ task'[u].status = "created" /\ job'[u] = "spawned"
      BY <1>0, <1>2, <2>2, CreateEffect
    <3>2. reply'[u] = NoReply /\ u \notin request' \cup accepted'
      BY <1>0, <1>2, <3>1 DEF JobOf, SentOf
    <3>3. QED
      BY <3>1, <3>2 DEF JobOf, ResultsOf, SentOf, TakenOf, ClosedOf, Ended, Busy, NoReply
  <2>3. QED
    BY <2>1, <2>2
<1>3. CASE Handlers
  <2>1. ASSUME NEW vms, ExecuteDeployment(vms) PROVE JInv'
    BY <1>2, <2>1 DEF ExecuteDeployment, net
  <2>2. ASSUME NEW vms, AbortDeployment(vms) PROVE JInv'
    BY <1>1, <2>2 DEF AbortDeployment, net, jobs
  <2>3. ASSUME NEW type, NEW vms, Operate(type, vms) PROVE JInv'
    BY <1>2, <2>3 DEF Operate, net
  <2>4. ASSUME NEW s, SetDeployConfig(s) PROVE JInv'
    BY <1>1, <2>4 DEF SetDeployConfig, net, jobs
  <2>5. QED
    BY <1>3, <2>1, <2>2, <2>3, <2>4 DEF Handlers, DeployDefault, DeploySpecified
<1>4. ASSUME NEW t \in TaskIds, UNCHANGED crashes, JobOf(t)',
             \A u \in TaskIds : u # t => /\ SameTask(u) /\ reply'[u] = reply[u]
                                         /\ (u \in request' => u \in request)
                                         /\ (u \in accepted' => u \in accepted)
      PROVE  JInv'
  BY <1>0, <1>4, JobSame DEF JInv
<1>5. ASSUME NEW t \in TaskIds, StartJob(t) PROVE JInv'
  <2>1. JobOf(t)'
    <3>1. task[t].status = "created"
      BY <1>5, StartJobEffect, <1>0 DEF IInv, JobStatus
    <3>2. reply[t] = NoReply /\ t \notin accepted
      BY <1>0, <3>1 DEF JobOf, SentOf
    <3>3. QED
      BY <1>0, <1>5, <3>2, StartJobEffect
         DEF JobOf, ResultsOf, SentOf, TakenOf, ClosedOf, Ended, Busy, NoReply
  <2>2. QED
    BY <1>0, <1>4, <1>5, <2>1, StartJobEffect
<1>6. ASSUME NEW t \in TaskIds, Reply(t) PROVE JInv'
  <2>1. JobOf(t)'
    <3>1. task[t].status = "running"
      BY <1>0, <1>6, ReplyEffect DEF IInv, JobStatus
    <3>2. ResultsOf(t)' /\ ClosedOf(t)'
      BY <1>0, <1>6, <3>1, ReplyEffect
         DEF ResultsOf, ClosedOf, Ended, AnsweredDelete, FirstWrite
    <3>3. SentOf(t)'
      BY <1>0, <1>6, ReplyEffect DEF JobOf, SentOf
    <3>4. TakenOf(t)'
      BY <1>0, <1>6, ReplyEffect DEF TakenOf, AnsweredDelete, SuccessVms
    <3>5. QED
      BY <3>2, <3>3, <3>4 DEF JobOf
  <2>2. QED
    BY <1>0, <1>4, <1>6, <2>1, ReplyEffect
<1>7. ASSUME NEW t \in TaskIds, ConnectionLost(t) PROVE JInv'
  <2>1. JobOf(t)'
    <3>1. task[t].status = "running"
      BY <1>0, <1>7, LostEffect DEF IInv, JobStatus
    <3>2. QED
      BY <1>0, <1>7, <3>1, LostEffect
         DEF JobOf, ResultsOf, SentOf, TakenOf, ClosedOf, Ended, AnsweredDelete
  <2>2. QED
    BY <1>0, <1>4, <1>7, <2>1, LostEffect
<1>8. ASSUME NEW t \in TaskIds, WriteParams(t) PROVE JInv'
  <2>0. won[t] \subseteq task[t].total
    BY <1>0, <1>8, ParamsEffect DEF IInv, WonInTotal, Busy
  <2>1. JobOf(t)'
    <3>1. ~AnsweredDelete(t) => task[t].status = "running"
      BY <1>0, <1>8, ParamsEffect DEF IInv, JobStatus, FirstWrite, AnsweredDelete
    <3>2. AnsweredDelete(t)' <=> AnsweredDelete(t)
      BY <1>0, <1>8, ParamsEffect DEF AnsweredDelete, SameOrder
    <3>3. ResultsOf(t)'
      <4>1. CASE AnsweredDelete(t)
        <5>1. StatusWritten(t)
          BY <1>0, <1>8, <4>1, ParamsEffect DEF JobOf, ResultsOf
        <5>2. Outcome(t)'
          BY <1>0, <1>8, <2>0, <5>1, ParamsEffect DEF Outcome, StatusWritten, SameOrder
        <5>3. QED
          BY <1>0, <1>8, <3>2, <4>1, <5>2, ParamsEffect DEF ResultsOf
      <4>2. CASE ~AnsweredDelete(t)
        BY <1>0, <1>8, <3>1, <3>2, <4>2, ParamsEffect DEF ResultsOf, ListsWritten, Ended, SameOrder
      <4>3. QED
        BY <4>1, <4>2
    <3>4. SentOf(t)' /\ TakenOf(t)'
      BY <1>0, <1>8, <3>2, ParamsEffect DEF JobOf, SentOf, TakenOf, SameOrder, Busy, AnsweredDelete
    <3>5. ClosedOf(t)'
      BY <1>0, <1>8, <3>1, <3>2, ParamsEffect
         DEF JobOf, ClosedOf, Ended, GivenUp, AnsweredDelete, SameOrder
    <3>6. QED
      BY <3>3, <3>4, <3>5 DEF JobOf
  <2>2. QED
    BY <1>0, <1>4, <1>8, <2>1, ParamsEffect
<1>9. ASSUME NEW t \in TaskIds, WriteStatus(t) PROVE JInv'
  <2>0. won[t] \subseteq task[t].total
    BY <1>0, <1>9, StatusEffect DEF IInv, WonInTotal, Busy
  <2>1. JobOf(t)'
    <3>1. AnsweredDelete(t)' <=> AnsweredDelete(t)
      BY <1>0, <1>9, StatusEffect DEF AnsweredDelete, SameOrder
    <3>2. ResultsOf(t)'
      <4>1. CASE AnsweredDelete(t)
        BY <1>0, <1>9, <3>1, <4>1, StatusEffect
           DEF ResultsOf, StatusWritten, AnsweredDelete, SameOrder
      <4>2. CASE ~AnsweredDelete(t)
        <5>1. ListsWritten(t)
          BY <1>0, <1>9, <4>2, StatusEffect DEF JobOf, ResultsOf
        <5>2. Outcome(t)'
          <6>1. /\ task'[t].success = won[t] /\ task'[t].fail = task[t].total \ won[t]
                /\ task'[t].total = task[t].total
                /\ task'[t].status = (IF won[t] = task[t].total THEN "success" ELSE "failed")
            BY <1>0, <1>9, <5>1, StatusEffect DEF ListsWritten, SameOrder
          <6>2. QED
            BY <2>0, <6>1 DEF Outcome
        <5>3. QED
          BY <1>0, <1>9, <3>1, <4>2, <5>2, StatusEffect DEF ResultsOf
      <4>3. QED
        BY <4>1, <4>2
    <3>3. SentOf(t)' /\ TakenOf(t)'
      <4>1. task[t].type \in {"vm-create", "vm-delete", "vm-stop", "vm-start"}
        BY <1>0 DEF TypeOK, Tasks, Types
      <4>2. QED
        BY <1>0, <1>9, <3>1, <4>1, StatusEffect DEF JobOf, SentOf, TakenOf, SameOrder, Busy
    <3>4. ClosedOf(t)'
      <4>1. /\ reply[t].code # "none" /\ (AnsweredDelete(t) => won[t] = task[t].total)
            /\ reply[t].code = "error" => won[t] = {}
        BY <1>0, <1>9, StatusEffect DEF JobOf, TakenOf, Busy
      <4>2. task[t].type = "vm-create" /\ reply[t].code = "error" => GivenUp(t)'
        <5>1. task[t].type = "vm-create" => ListsWritten(t)
          BY <1>0, <1>9, StatusEffect DEF JobOf, ResultsOf, AnsweredDelete
        <5>2. QED
          BY <1>0, <1>9, <4>1, <5>1, StatusEffect DEF GivenUp, ListsWritten, SameOrder
      <4>3. QED
        BY <1>0, <1>9, <3>1, <4>1, <4>2, StatusEffect DEF ClosedOf, SameOrder, AnsweredDelete
    <3>5. QED
      BY <3>2, <3>3, <3>4 DEF JobOf
  <2>2. QED
    BY <1>0, <1>4, <1>9, <2>1, StatusEffect
<1>10. ASSUME NEW t \in TaskIds, UNCHANGED <<task, won, request, accepted, reply, crashes>>,
              (job[t] = "instances" /\ job'[t] = "ips") \/ (job[t] = "ips" /\ job'[t] = "none"),
              \A u \in TaskIds : u # t => SameTask(u)
       PROVE  JInv'
  <2>1. JobOf(t)'
    BY <1>0, <1>10 DEF JobOf, ResultsOf, SentOf, TakenOf, ClosedOf, Ended, AnsweredDelete, Outcome,
       GivenUp, Busy
  <2>2. QED
    BY <1>4, <1>10, <2>1
<1>11. ASSUME NEW t \in TaskIds, WriteInstances(t) \/ ReleaseIps(t) PROVE JInv'
  <2>1. CASE WriteInstances(t)
    <3>1. /\ job[t] = "instances" /\ job'[t] = "ips" /\ \A u \in TaskIds : u # t => SameTask(u)
          /\ UNCHANGED <<task, won, request, accepted, reply, crashes>>
      BY <1>0, <2>1, InstancesEffect
    <3>2. QED
      BY <1>10, <3>1
  <2>2. CASE ReleaseIps(t)
    BY <1>0, <1>10, <2>2, IpsEffect
  <2>3. QED
    BY <1>11, <2>1, <2>2
<1>12. CASE Crash
  <2> SUFFICES ASSUME NEW u \in TaskIds PROVE JobOf(u)'
    BY DEF JInv
  <2>1. /\ crashes' # 0 /\ job'[u] = "none"
        /\ UNCHANGED <<task, won, request, accepted, reply>>
    BY <1>0, <1>12, CrashEffect
  <2>2. ResultsOf(u)'
    <3>1. Ended(u) /\ task[u].type # "vm-delete" => Outcome(u)
      BY <1>0 DEF JobOf, ResultsOf
    <3>2. QED
      BY <2>1, <3>1 DEF ResultsOf, Ended, Outcome
  <2>3. SentOf(u)' /\ TakenOf(u)' /\ ClosedOf(u)'
    BY <1>0, <2>1 DEF JobOf, SentOf, TakenOf, ClosedOf, Ended, AnsweredDelete, GivenUp, Busy
  <2>4. QED
    BY <2>2, <2>3 DEF JobOf
<1>13. CASE UNCHANGED vars
  BY <1>1, <1>13 DEF vars, db, jobs, net
<1> QED
  BY <1>3, <1>5, <1>6, <1>7, <1>8, <1>9, <1>11, <1>12, <1>13, JobServe DEF Next, Write

\* Initially there is nothing to say.
LEMMA InitJInv == Init => JInv
BY DEF Init, JInv, JobOf, ResultsOf, SentOf, TakenOf, ClosedOf, Ended, Busy, AnsweredDelete, NoReply

\* The result lists of every task that ended partition its VMs and agree with its
\* status, however its reply was lost, and through crashes unless it undeploys.
THEOREM OutcomeConsistentHolds == Spec => []OutcomeConsistent
<1>1. JInv => OutcomeConsistent
  BY DEF JInv, JobOf, ResultsOf, Ended, Outcome, OutcomeConsistent
<1> QED
  BY <1>1, InitIInv, NextIInv, InitJInv, NextJInv, PTL DEF Spec

\* What a step may change, said once for the invariants below.  A task keeps its
\* kind and its VMs; once ended it keeps its status and, if it deploys, its failed
\* VMs and the code of its reply.
TaskKept(t) ==
  /\ task[t].status # "none" => SameOrder(t) /\ task'[t].status # "none"
  /\ task[t].status \notin {"none", "created"} => task'[t].status # "created"
  /\ Ended(t) => /\ task'[t].status = task[t].status
                 /\ task[t].type = "vm-create" => /\ task'[t].fail = task[t].fail
                                                  /\ reply'[t].code = reply[t].code
  /\ Active(t) => Active(t)' \/ WriteStatus(t)

\* Records are written by one job, or by one that a crash interrupts.
RecordsKept ==
  /\ \A t \in TaskIds : job[t] = "instances" =>
       (job'[t] = "instances" /\ won'[t] = won[t]) \/ WriteInstances(t) \/ Crash
  /\ inst' = inst \/ (\E t \in TaskIds : WriteInstances(t)) \/ Crash
  /\ crashes' = crashes \/ Crash
  /\ host' = host \/ \E t \in TaskIds : Serve(t)

\* Every step is such a step.
LEMMA StepKeeps ==
  ASSUME IInv, [Next]_vars
  PROVE  RecordsKept /\ \A t \in TaskIds : TaskKept(t)
<1>0. TypeOK /\ JobStatus
  BY DEF IInv
<1>1. ASSUME UNCHANGED <<task, job, won, reply, inst, crashes, host>>
      PROVE  RecordsKept /\ \A t \in TaskIds : TaskKept(t)
  BY <1>1 DEF RecordsKept, TaskKept, SameOrder, Active
<1>2. ASSUME NEW type, NEW vms, NEW ids \in SUBSET TaskIds, CreateTasks(type, vms, ids),
             UNCHANGED <<won, reply, inst, crashes, host>>
      PROVE  RecordsKept /\ \A t \in TaskIds : TaskKept(t)
  <2>1. \A t \in TaskIds :
          /\ t \in ids => task[t].status = "none" /\ job[t] = "none"
          /\ t \notin ids => task'[t] = task[t] /\ job'[t] = job[t]
    BY <1>0, <1>2, CreateEffect DEF IInv, Unborn
  <2>2. \A t \in TaskIds : TaskKept(t)
    BY <1>2, <2>1 DEF TaskKept, SameOrder, Active, Ended
  <2>3. RecordsKept
    BY <1>2, <2>1 DEF RecordsKept
  <2>4. QED
    BY <2>2, <2>3
<1>3. CASE Handlers
  <2>1. ASSUME NEW vms, ExecuteDeployment(vms)
        PROVE  RecordsKept /\ \A t \in TaskIds : TaskKept(t)
    BY <1>2, <2>1 DEF ExecuteDeployment, net
  <2>2. ASSUME NEW vms, AbortDeployment(vms)
        PROVE  RecordsKept /\ \A t \in TaskIds : TaskKept(t)
    BY <1>1, <2>2 DEF AbortDeployment, net, jobs
  <2>3. ASSUME NEW type, NEW vms, Operate(type, vms)
        PROVE  RecordsKept /\ \A t \in TaskIds : TaskKept(t)
    BY <1>2, <2>3 DEF Operate, net
  <2>4. ASSUME NEW s, SetDeployConfig(s)
        PROVE  RecordsKept /\ \A t \in TaskIds : TaskKept(t)
    BY <1>1, <2>4 DEF SetDeployConfig, net, jobs
  <2>5. QED
    BY <1>3, <2>1, <2>2, <2>3, <2>4 DEF Handlers, DeployDefault, DeploySpecified
<1>4. ASSUME NEW t \in TaskIds, TaskKept(t),
             \A u \in TaskIds : u # t => SameTask(u) /\ reply'[u] = reply[u],
             (job[t] = "instances" => WriteInstances(t)),
             inst' = inst \/ WriteInstances(t), UNCHANGED <<crashes, host>>
      PROVE  RecordsKept /\ \A u \in TaskIds : TaskKept(u)
  BY <1>4 DEF RecordsKept, TaskKept, SameOrder, SameTask, Active
<1>5. ASSUME NEW t \in TaskIds, StartJob(t) PROVE RecordsKept /\ \A u \in TaskIds : TaskKept(u)
  <2>1. TaskKept(t)
    BY <1>0, <1>5, StartJobEffect DEF TaskKept, Ended, Active, JobStatus
  <2>2. QED
    BY <1>0, <1>4, <1>5, <2>1, StartJobEffect
<1>6. ASSUME NEW t \in TaskIds, Reply(t) PROVE RecordsKept /\ \A u \in TaskIds : TaskKept(u)
  <2>1. TaskKept(t)
    BY <1>0, <1>6, ReplyEffect DEF TaskKept, SameOrder, Active
  <2>2. QED
    BY <1>0, <1>4, <1>6, <2>1, ReplyEffect
<1>7. ASSUME NEW t \in TaskIds, ConnectionLost(t) PROVE RecordsKept /\ \A u \in TaskIds : TaskKept(u)
  <2>1. TaskKept(t)
    BY <1>0, <1>7, LostEffect DEF TaskKept, SameOrder, Active, Ended, JobStatus
  <2>2. QED
    BY <1>0, <1>4, <1>7, <2>1, LostEffect
<1>8. ASSUME NEW t \in TaskIds, WriteParams(t) PROVE RecordsKept /\ \A u \in TaskIds : TaskKept(u)
  <2>1. TaskKept(t)
    BY <1>0, <1>8, ParamsEffect DEF TaskKept, Active, Ended, JobStatus, FirstWrite
  <2>2. QED
    BY <1>0, <1>4, <1>8, <2>1, ParamsEffect
<1>9. ASSUME NEW t \in TaskIds, WriteStatus(t) PROVE RecordsKept /\ \A u \in TaskIds : TaskKept(u)
  <2>1. TaskKept(t)
    BY <1>0, <1>9, StatusEffect DEF TaskKept, Active, Ended, JobStatus
  <2>2. QED
    BY <1>0, <1>4, <1>9, <2>1, StatusEffect
<1>10. ASSUME NEW t \in TaskIds, WriteInstances(t) PROVE RecordsKept /\ \A u \in TaskIds : TaskKept(u)
  <2>1. TaskKept(t)
    BY <1>0, <1>10, InstancesEffect DEF TaskKept, SameOrder, Active
  <2>2. QED
    BY <1>0, <1>4, <1>10, <2>1, InstancesEffect
<1>11. ASSUME NEW t \in TaskIds, ReleaseIps(t) PROVE RecordsKept /\ \A u \in TaskIds : TaskKept(u)
  <2>1. TaskKept(t)
    BY <1>0, <1>11, IpsEffect DEF TaskKept, SameOrder, Active
  <2>2. QED
    BY <1>0, <1>4, <1>11, <2>1, IpsEffect
<1>12. ASSUME NEW t \in TaskIds, Serve(t) PROVE RecordsKept /\ \A u \in TaskIds : TaskKept(u)
  <2>1. ASSUME NEW code, NEW vms, Answer(t, code, vms) PROVE \A u \in TaskIds : TaskKept(u)
    BY <1>0, <2>1, AnswerEffect DEF TaskKept, SameOrder, Active, Ended, JobStatus
  <2>2. ASSUME AcceptDeploy(t) PROVE \A u \in TaskIds : TaskKept(u)
    BY <2>2 DEF AcceptDeploy, TaskKept, SameOrder, Active, db
  <2>3. \A u \in TaskIds : TaskKept(u)
    BY <1>12, <2>1, <2>2 DEF Serve, RefuseDeploy, DeployVms, ServeUndeploy, ServePower
  <2>4. UNCHANGED <<task, job, won, inst, crashes>>
    BY <1>12 DEF Serve, RefuseDeploy, AcceptDeploy, DeployVms, ServeUndeploy, ServePower, Answer,
       db, jobs
  <2>5. RecordsKept
    BY <1>12, <2>4 DEF RecordsKept
  <2>6. QED
    BY <2>3, <2>5
<1>13. CASE Crash
  <2>1. \A u \in TaskIds : TaskKept(u)
    BY <1>0, <1>13, CrashEffect DEF TaskKept, SameOrder, Active
  <2>2. host' = host
    BY <1>13 DEF Crash, net
  <2>3. QED
    BY <1>13, <2>1, <2>2 DEF RecordsKept
<1>14. CASE UNCHANGED vars
  BY <1>1, <1>14 DEF vars, db, jobs, net
<1> QED
  BY <1>3, <1>5, <1>6, <1>7, <1>8, <1>9, <1>10, <1>11, <1>12, <1>13, <1>14 DEF Next, Write

-----------------------------------------------------------------------------
(***************************************************************************)
(* The VMs of a compute node and what the manager knows of them.           *)
(***************************************************************************)

\* A deployment has ended and has yet to write the record of v.
Recording(v) == \E t \in TaskIds : /\ job[t] = "instances" /\ task[t].type = "vm-create"
                                   /\ v \in won[t]

Forgotten(v) == \E t \in Deletes(v) : task[t].status = "success"

Abandoned(v) == \E t \in TaskIds : /\ task[t].type = "vm-create" /\ task[t].status = "failed"
                                   /\ v \in task[t].fail

\* The manager knows of v, or gave it up.
Known(v) == v \in Recorded \/ v \in Creating \/ Recording(v) \/ Forgotten(v) \/ Abandoned(v)

Tracked == crashes = 0 => \A v \in VMs : host[v] # "absent" => Known(v)

\* The compute node has listed v among the VMs that the deployment t started.
Listed(t, v) == /\ task[t].type = "vm-create"
                /\ \/ job[t] = "waiting" /\ v \in reply[t].vms
                   \/ job[t] \in Busy /\ v \in won[t]

\* An undeployment of v was sent, or a deployment of v lost its connection.
Undone(v) ==
  \/ \E t \in Deletes(v) : task[t].status # "created"
  \/ \E t \in TaskIds : /\ task[t].type = "vm-create" /\ task[t].status = "failed"
                        /\ v \in task[t].total /\ reply[t].code = "error"

Backed ==
  \A v \in VMs :
    host[v] = "absent" /\ (v \in Recorded \/ \E t \in TaskIds : Listed(t, v)) => Undone(v)

\* What was given up or undone stays so.
LEMMA PastKept ==
  ASSUME \A t \in TaskIds : TaskKept(t), NEW v
  PROVE  /\ Deletes(v) \subseteq Deletes(v)'
         /\ Forgotten(v) => Forgotten(v)'
         /\ Abandoned(v) => Abandoned(v)'
         /\ Undone(v) => Undone(v)'
<1>1. \A t \in TaskIds : t \in Deletes(v) => t \in Deletes(v)'
  BY DEF Deletes, TaskKept, SameOrder
<1>2. Forgotten(v) => Forgotten(v)'
  BY <1>1 DEF Forgotten, TaskKept, Ended, Deletes
<1>3. Abandoned(v) => Abandoned(v)'
  BY DEF Abandoned, TaskKept, Ended, SameOrder
<1>4. Undone(v) => Undone(v)'
  <2>1. ASSUME NEW t \in Deletes(v), task[t].status # "created" PROVE Undone(v)'
    BY <1>1, <2>1 DEF Undone, TaskKept, Deletes
  <2>2. ASSUME NEW t \in TaskIds, task[t].type = "vm-create", task[t].status = "failed",
               v \in task[t].total, reply[t].code = "error"
        PROVE  Undone(v)'
    BY <2>2 DEF Undone, TaskKept, Ended, SameOrder
  <2>3. QED
    BY <2>1, <2>2 DEF Undone
<1>5. QED
  BY <1>1, <1>2, <1>3, <1>4 DEF Deletes

\* Without a crash, what the manager knows it goes on knowing, or gives up.
LEMMA KnownKept ==
  ASSUME IInv, JInv, [Next]_vars, ~Crash, NEW v \in VMs, Known(v)
  PROVE  Known(v)'
<1>0. TypeOK /\ RecordsKept /\ (\A t \in TaskIds : TaskKept(t)) /\ \A t \in TaskIds : JobOf(t)
  BY StepKeeps DEF IInv, JInv
<1>1. CASE Forgotten(v) \/ Abandoned(v)
  BY <1>0, <1>1, PastKept DEF Known
<1>2. CASE v \in Recorded
  <2>1. CASE inst' = inst
    BY <1>2, <2>1 DEF Known, Recorded
  <2>2. ASSUME NEW t \in TaskIds, WriteInstances(t) PROVE Known(v)'
    <3>1. CASE v \in Recorded'
      BY <3>1 DEF Known
    <3>2. CASE v \notin Recorded'
      <4>1. job[t] = "instances" /\ task[t].type # "vm-create" /\ v \in won[t]
        BY <1>0, <1>2, <2>2, <3>2, InstancesEffect
      <4>2. task[t].type = "vm-delete" /\ reply[t].code # "none" /\ reply[t].code # "error"
        BY <1>0, <4>1 DEF JobOf, TakenOf, Busy
      <4>3. AnsweredDelete(t)
        BY <1>0, <4>2 DEF AnsweredDelete, TypeOK, Replies
      <4>4. task[t].status = "success" /\ v \in task[t].total
        BY <1>0, <4>1, <4>3 DEF JobOf, ClosedOf, IInv, WonInTotal, Busy
      <4>5. Forgotten(v)
        BY <4>2, <4>4 DEF Forgotten, Deletes
      <4>6. QED
        BY <1>0, <4>5, PastKept DEF Known
    <3>3. QED
      BY <3>1, <3>2
  <2>3. QED
    BY <1>0, <2>1, <2>2 DEF RecordsKept
<1>3. CASE v \in Creating
  <2>1. PICK t \in TaskIds : Active(t) /\ task[t].type = "vm-create" /\ v \in task[t].total
    BY <1>3 DEF Creating, ActiveCreates
  <2>2. SameOrder(t)
    BY <1>0, <2>1 DEF TaskKept, Active
  <2>3. CASE Active(t)'
    <3>1. t \in ActiveCreates' /\ v \in task'[t].total
      BY <2>1, <2>2, <2>3 DEF ActiveCreates, SameOrder
    <3>2. QED
      BY <3>1 DEF Known, Creating
  <2>4. CASE WriteStatus(t)
    <3>1. /\ job[t] = "status" /\ job'[t] = "instances" /\ won'[t] = won[t]
          /\ task'[t].status = (IF won[t] = task[t].total THEN "success" ELSE "failed")
          /\ task'[t].fail = task[t].fail
      BY <1>0, <2>1, <2>4, StatusEffect DEF AnsweredDelete
    <3>2. task[t].fail = task[t].total \ won[t]
      BY <1>0, <2>1, <3>1 DEF JobOf, ResultsOf, ListsWritten, AnsweredDelete
    <3>3. CASE v \in won[t]
      BY <2>1, <2>2, <3>1, <3>3 DEF Known, Recording, SameOrder
    <3>4. CASE v \notin won[t]
      BY <2>1, <2>2, <3>1, <3>2, <3>4 DEF Known, Abandoned, SameOrder
    <3>5. QED
      BY <3>3, <3>4
  <2>5. QED
    BY <1>0, <2>1, <2>3, <2>4 DEF TaskKept
<1>4. CASE Recording(v)
  <2>1. PICK t \in TaskIds : job[t] = "instances" /\ task[t].type = "vm-create" /\ v \in won[t]
    BY <1>4 DEF Recording
  <2>2. CASE job'[t] = "instances" /\ won'[t] = won[t]
    <3>1. task[t].status # "none"
      BY <2>1 DEF IInv, Unborn
    <3>2. QED
      BY <1>0, <2>1, <2>2, <3>1 DEF Known, Recording, TaskKept, SameOrder
  <2>3. CASE WriteInstances(t)
    BY <1>0, <2>1, <2>3, InstancesEffect DEF Known
  <2>4. QED
    BY <1>0, <2>1, <2>2, <2>3 DEF RecordsKept
<1>5. QED
  BY <1>1, <1>2, <1>3, <1>4 DEF Known

\* What a step of a compute node does to a VM.  A domain appears only for a
\* deployment in progress; it goes away in one, or in an undeployment.
LEMMA HostStep ==
  ASSUME TypeOK, NEW t \in TaskIds, Serve(t), NEW v \in VMs
  PROVE  /\ host'[v] # "absent" => \/ host[v] # "absent"
                                   \/ t \in accepted /\ v \in task[t].total
         /\ host'[v] = "absent" => \/ host[v] = "absent"
                                   \/ t \in accepted /\ v \in task[t].total
                                   \/ t \in request /\ task[t].type = "vm-delete" /\ v \in task[t].total
<1>1. CASE RefuseDeploy(t) \/ AcceptDeploy(t)
  BY <1>1 DEF RefuseDeploy, AcceptDeploy
<1>2. CASE DeployVms(t)
  <2>1. PICK up \in SUBSET {w \in task[t].total : host[w] = "absent"} :
          \E h : host' = [w \in VMs |-> IF w \in up THEN "running"
                                        ELSE IF w \in task[t].total THEN h[w] ELSE host[w]]
    BY <1>2 DEF DeployVms
  <2>2. v \notin task[t].total => host'[v] = host[v]
    BY <2>1
  <2>3. QED
    BY <1>2, <2>2 DEF DeployVms
<1>3. CASE ServeUndeploy(t)
  <2>1. PICK failed, gone, off \in SUBSET task[t].total :
          /\ {w \in task[t].total : host[w] # "running"} \subseteq failed
          /\ task[t].total \ failed \subseteq gone
          /\ off \subseteq {w \in failed \ gone : host[w] = "running"}
          /\ host' = [w \in VMs |-> IF w \in gone THEN "absent"
                                    ELSE IF w \in off THEN "shutoff" ELSE host[w]]
          /\ Answer(t, "ok", failed)
    BY <1>3 DEF ServeUndeploy
  <2>2. QED
    BY <1>3, <2>1 DEF ServeUndeploy
<1>4. CASE ServePower(t)
  <2> DEFINE goal == IF task[t].type = "vm-stop" THEN "shutoff" ELSE "running"
  <2>1. PICK failed \in SUBSET {w \in task[t].total : host[w] # goal} :
          /\ {w \in task[t].total : host[w] = "absent"} \subseteq failed
          /\ host' = [w \in VMs |-> IF w \in task[t].total \ failed THEN goal ELSE host[w]]
    BY <1>4 DEF ServePower
  <2>2. goal # "absent"
    OBVIOUS
  <2> HIDE DEF goal
  <2>3. QED
    BY <2>1, <2>2
<1>5. QED
  BY <1>1, <1>2, <1>3, <1>4 DEF Serve

\* Every step keeps Tracked: a domain that appears belongs to a deployment that is
\* active, or that ended without an answer.
LEMMA NextTracked == IInv /\ JInv /\ Tracked /\ [Next]_vars => Tracked'
<1> SUFFICES ASSUME IInv, JInv, Tracked, [Next]_vars, crashes' = 0, NEW v \in VMs, host'[v] # "absent"
             PROVE  Known(v)'
  BY DEF Tracked
<1>0. TypeOK /\ RecordsKept /\ (\A t \in TaskIds : TaskKept(t)) /\ \A t \in TaskIds : JobOf(t)
  BY StepKeeps DEF IInv, JInv
<1>1. ~Crash /\ crashes = 0
  BY <1>0, CrashEffect DEF RecordsKept
<1>2. CASE host[v] # "absent"
  <2>1. Known(v)
    BY <1>1, <1>2 DEF Tracked
  <2>2. QED
    BY <1>1, <2>1, KnownKept
<1>3. CASE host[v] = "absent"
  <2>1. PICK t \in TaskIds : Serve(t)
    BY <1>0, <1>3 DEF RecordsKept
  <2>2. t \in accepted /\ v \in task[t].total
    BY <1>0, <1>3, <2>1, HostStep
  <2>3. task[t].type = "vm-create" /\ task[t].status # "none" /\ reply[t].code # "ok"
    BY <1>0, <2>2 DEF JobOf, SentOf
  <2>4. CASE Active(t)
    <3>1. v \in Creating
      BY <2>2, <2>3, <2>4 DEF Creating, ActiveCreates
    <3>2. QED
      BY <1>1, <3>1, KnownKept DEF Known
  <2>5. CASE ~Active(t)
    <3>1. Ended(t)
      BY <1>0, <2>3, <2>5 DEF Ended, Active, TypeOK, Tasks
    <3>2. reply[t].code = "error"
      BY <1>0, <2>3, <3>1 DEF JobOf, ClosedOf, TypeOK, Replies
    <3>3. task[t].status = "failed" /\ v \in task[t].fail
      BY <1>0, <2>2, <2>3, <3>1, <3>2 DEF JobOf, ClosedOf, GivenUp
    <3>4. Abandoned(v)
      BY <2>3, <3>3 DEF Abandoned
    <3>5. QED
      BY <1>1, <3>4, KnownKept DEF Known
  <2>6. QED
    BY <2>4, <2>5
<1>4. QED
  BY <1>2, <1>3

\* A VM that runs on a node and that the manager has lost track of was given up by
\* a deployment that failed, or forgotten by an undeployment, or dates from a crash.
THEOREM UntrackedExplainedHolds == Spec => []UntrackedExplained
<1>1. Init => Tracked
  BY DEF Init, Tracked
<1>2. TypeOK /\ Tracked => UntrackedExplained
  <2> SUFFICES ASSUME TypeOK, Tracked, Idle, NEW v \in VMs \ (Recorded \cup Creating),
                      host[v] # "absent", crashes = 0
               PROVE  Forgotten(v) \/ Abandoned(v)
    BY DEF UntrackedExplained, Forgotten, Abandoned, TypeOK
  <2>1. ~Recording(v)
    BY DEF Recording, Idle
  <2>2. QED
    BY <2>1 DEF Tracked, Known
<1>3. IInv => TypeOK
  BY DEF IInv
<1> QED
  BY <1>1, <1>2, <1>3, InitIInv, NextIInv, InitJInv, NextJInv, NextTracked, PTL DEF Spec

\* A VM is listed for a task only by the compute node that has started it.
LEMMA ListedBefore ==
  ASSUME IInv, JInv, [Next]_vars, NEW v \in VMs, NEW u \in TaskIds, Listed(u, v)'
  PROVE  Listed(u, v) \/ host'[v] = "running"
<1>0. TypeOK /\ JobOf(u)
  BY DEF IInv, JInv
<1>1. ASSUME SameTask(u), reply'[u] = reply[u] PROVE Listed(u, v)
  BY <1>1 DEF SameTask, Listed
<1>2. ASSUME NEW type, NEW vms, NEW ids \in SUBSET TaskIds, CreateTasks(type, vms, ids),
             UNCHANGED <<won, reply>>
      PROVE  Listed(u, v)
  <2>1. u \notin ids
    BY <1>0, <1>2, CreateEffect DEF Listed, Busy
  <2>2. QED
    BY <1>0, <1>1, <1>2, <2>1, CreateEffect DEF SameTask
<1>3. CASE Handlers
  <2>1. ASSUME NEW vms, ExecuteDeployment(vms) PROVE Listed(u, v)
    BY <1>2, <2>1 DEF ExecuteDeployment, net
  <2>2. ASSUME NEW vms, AbortDeployment(vms) PROVE Listed(u, v)
    BY <1>1, <2>2 DEF AbortDeployment, net, jobs, SameTask
  <2>3. ASSUME NEW type, NEW vms, Operate(type, vms) PROVE Listed(u, v)
    BY <1>2, <2>3 DEF Operate, net
  <2>4. ASSUME NEW s, SetDeployConfig(s) PROVE Listed(u, v)
    BY <1>1, <2>4 DEF SetDeployConfig, net, jobs, SameTask
  <2>5. QED
    BY <1>3, <2>1, <2>2, <2>3, <2>4 DEF Handlers, DeployDefault, DeploySpecified
<1>4. ASSUME NEW t \in TaskIds, StartJob(t) PROVE Listed(u, v)
  <2>1. u # t
    <3>1. ASSUME u = t PROVE reply[u].vms = {} /\ job'[u] = "waiting" /\ reply' = reply
      BY <1>0, <1>4, <3>1, StartJobEffect DEF JobOf, SentOf, IInv, JobStatus, NoReply
    <3>2. QED
      BY <3>1 DEF Listed, Busy
  <2>2. QED
    BY <1>0, <1>1, <1>4, <2>1, StartJobEffect
<1>5. ASSUME NEW t \in TaskIds, Reply(t) PROVE Listed(u, v)
  <2>1. CASE u # t
    BY <1>0, <1>1, <1>5, <2>1, ReplyEffect
  <2>2. CASE u = t
    BY <1>0, <1>5, <2>2, ReplyEffect DEF Listed, SuccessVms
  <2>3. QED
    BY <2>1, <2>2
<1>6. ASSUME NEW t \in TaskIds, ConnectionLost(t) PROVE Listed(u, v)
  <2>1. u # t
    BY <1>0, <1>6, LostEffect DEF Listed
  <2>2. QED
    BY <1>0, <1>1, <1>6, <2>1, LostEffect
<1>7. ASSUME NEW t \in TaskIds, Write(t) PROVE Listed(u, v)
  <2>1. /\ job[t] \in Busy /\ job'[t] # "waiting" /\ UNCHANGED <<won, reply>>
        /\ SameOrder(t) /\ \A w \in TaskIds : w # t => SameTask(w)
    <3>1. CASE WriteParams(t)
      BY <1>0, <3>1, ParamsEffect DEF Busy
    <3>2. CASE WriteStatus(t)
      BY <1>0, <3>2, StatusEffect DEF Busy
    <3>3. CASE WriteInstances(t)
      BY <1>0, <3>3, InstancesEffect DEF Busy, SameOrder
    <3>4. CASE ReleaseIps(t)
      BY <1>0, <3>4, IpsEffect DEF Busy, SameOrder
    <3>5. QED
      BY <1>7, <3>1, <3>2, <3>3, <3>4 DEF Write
  <2>2. QED
    BY <1>1, <2>1 DEF Listed, SameOrder
<1>8. ASSUME NEW t \in TaskIds, Serve(t) PROVE Listed(u, v) \/ host'[v] = "running"
  <2>1. ASSUME NEW code, NEW vms, Answer(t, code, vms), v \notin vms \/ task[t].type # "vm-create"
        PROVE  Listed(u, v)
    BY <1>0, <1>1, <2>1, AnswerEffect DEF SameTask, Listed, Busy
  <2>2. CASE DeployVms(t)
    <3> DEFINE Result(up, h) == [w \in VMs |-> IF w \in up THEN "running"
                                               ELSE IF w \in task[t].total THEN h[w] ELSE host[w]]
    <3>1. PICK up \in SUBSET task[t].total :
            \E listed \in SUBSET up : \E h : host' = Result(up, h) /\ Answer(t, "ok", listed)
      BY <2>2 DEF DeployVms
    <3>2. PICK listed \in SUBSET up : \E h : host' = Result(up, h) /\ Answer(t, "ok", listed)
      BY <3>1
    <3>3. v \in listed => host'[v] = "running"
      BY <3>2
    <3>4. QED
      BY <2>1, <3>2, <3>3
  <2>3. CASE AcceptDeploy(t)
    BY <1>1, <2>3 DEF AcceptDeploy, SameTask, db, jobs
  <2>4. CASE RefuseDeploy(t)
    BY <2>1, <2>4 DEF RefuseDeploy
  <2>5. CASE ServeUndeploy(t)
    BY <2>1, <2>5 DEF ServeUndeploy
  <2>6. CASE ServePower(t)
    BY <2>1, <2>6 DEF ServePower
  <2>7. QED
    BY <1>8, <2>2, <2>3, <2>4, <2>5, <2>6 DEF Serve
<1>9. CASE Crash
  BY <1>0, <1>9, CrashEffect DEF Listed, Busy
<1>10. CASE UNCHANGED vars
  BY <1>1, <1>10 DEF vars, db, jobs, net, SameTask
<1> QED
  BY <1>3, <1>4, <1>5, <1>6, <1>7, <1>8, <1>9, <1>10 DEF Next

\* A record is written only for a VM that is listed.
LEMMA RecordedBefore ==
  ASSUME IInv, JInv, [Next]_vars, NEW v \in VMs, v \in Recorded'
  PROVE  v \in Recorded \/ \E t \in TaskIds : Listed(t, v)
<1>0. TypeOK /\ RecordsKept
  BY StepKeeps DEF IInv
<1>1. CASE inst' = inst
  BY <1>1 DEF Recorded
<1>2. ASSUME NEW t \in TaskIds, NEW some \in SUBSET won[t], job[t] = "instances",
             inst' = WithInstances(t, some)
      PROVE  v \in Recorded \/ \E u \in TaskIds : Listed(u, v)
  BY <1>2 DEF WithInstances, Recorded, Listed, Busy
<1>3. ASSUME NEW t \in TaskIds, WriteInstances(t)
      PROVE  v \in Recorded \/ \E u \in TaskIds : Listed(u, v)
  BY <1>2, <1>3 DEF WriteInstances
<1>4. QED
  BY <1>0, <1>1, <1>2, <1>3, CrashEffect DEF RecordsKept

\* A VM that is recorded or listed is not being created by another deployment.
LEMMA NotCreatedTwice ==
  ASSUME IInv, JInv, NEW t \in TaskIds, t \in accepted, NEW v \in task[t].total,
         v \in Recorded \/ \E u \in TaskIds : Listed(u, v)
  PROVE  ~Active(t)
<1> SUFFICES ASSUME Active(t) PROVE FALSE
  OBVIOUS
<1>1. t \in ActiveCreates /\ reply[t].code # "ok" /\ reply[t].vms = {}
  BY DEF ActiveCreates, JInv, JobOf, SentOf
<1>2. v \notin Recorded
  BY <1>1 DEF IInv, CreatingNotRecorded
<1>3. PICK u \in TaskIds : Listed(u, v)
  BY <1>2
<1>4. JobOf(u) /\ TypeOK
  BY DEF JInv, IInv
<1>5. u # t
  BY <1>1, <1>3, <1>4 DEF Listed, JobOf, TakenOf
<1>6. v \in task[u].total
  BY <1>3 DEF Listed, IInv, ReplyInTotal, WonInTotal
<1>7. CASE job[u] \in {"waiting", "params", "status"}
  <2>1. u \in ActiveCreates
    BY <1>3, <1>7 DEF Listed, IInv, JobStatus, FirstWrite, ActiveCreates, Active
  <2>2. QED
    BY <1>1, <1>5, <1>6, <2>1 DEF IInv, NoOverlappingCreates
<1>8. CASE job[u] \in {"instances", "ips"}
  BY <1>1, <1>3, <1>8 DEF Listed, IInv, Written
<1>9. QED
  BY <1>3, <1>7, <1>8 DEF Listed, Busy

\* Every step keeps Backed.
LEMMA NextBacked == IInv /\ JInv /\ Backed /\ [Next]_vars => Backed'
<1> SUFFICES ASSUME IInv, JInv, Backed, [Next]_vars, NEW v \in VMs, host'[v] = "absent",
                    v \in Recorded' \/ \E t \in TaskIds : Listed(t, v)'
             PROVE  Undone(v)'
  BY DEF Backed
<1>0. TypeOK /\ RecordsKept /\ (\A t \in TaskIds : TaskKept(t)) /\ \A t \in TaskIds : JobOf(t)
  BY StepKeeps DEF IInv, JInv
<1>1. v \in Recorded \/ \E t \in TaskIds : Listed(t, v)
  BY RecordedBefore, ListedBefore
<1>2. CASE host[v] = "absent"
  BY <1>0, <1>1, <1>2, PastKept DEF Backed
<1>3. CASE host[v] # "absent"
  <2>1. PICK t \in TaskIds : Serve(t)
    BY <1>0, <1>3 DEF RecordsKept
  <2>2. CASE t \in request /\ task[t].type = "vm-delete" /\ v \in task[t].total
    <3>1. task[t].status \notin {"none", "created"}
      BY <1>0, <2>2 DEF JobOf, SentOf
    <3>2. Undone(v)
      BY <2>2, <3>1 DEF Undone, Deletes
    <3>3. QED
      BY <1>0, <3>2, PastKept
  <2>3. CASE t \in accepted /\ v \in task[t].total
    <3>1. ~Active(t)
      BY <1>1, <2>3, NotCreatedTwice
    <3>2. task[t].type = "vm-create" /\ task[t].status # "none" /\ reply[t].code # "ok"
      BY <1>0, <2>3 DEF JobOf, SentOf
    <3>3. Ended(t)
      BY <1>0, <3>1, <3>2 DEF Ended, Active, TypeOK, Tasks
    <3>4. reply[t].code = "error"
      BY <1>0, <3>2, <3>3 DEF JobOf, ClosedOf, TypeOK, Replies
    <3>5. task[t].status = "failed"
      BY <1>0, <2>3, <3>2, <3>3, <3>4 DEF JobOf, ClosedOf, GivenUp
    <3>6. Undone(v)
      BY <2>3, <3>2, <3>4, <3>5 DEF Undone
    <3>7. QED
      BY <1>0, <3>6, PastKept
  <2>4. QED
    BY <1>0, <1>3, <2>1, <2>2, <2>3, HostStep
<1>4. QED
  BY <1>2, <1>3

\* The record of a VM that is gone from its node is due to an undeployment that was
\* sent, or to an earlier deployment that lost its connection.
THEOREM RecordBackedHolds == Spec => []RecordBacked
<1>1. Init => Backed
  BY DEF Init, Backed, Recorded, Listed, Busy
<1>2. Backed => RecordBacked
  <2> SUFFICES ASSUME Backed, NEW v \in Recorded, host[v] = "absent" PROVE Undone(v)
    BY DEF RecordBacked, Undone
  <2>1. v \in VMs
    BY DEF Recorded
  <2>2. QED
    BY <2>1 DEF Backed
<1> QED
  BY <1>1, <1>2, InitIInv, NextIInv, InitJInv, NextJInv, NextBacked, PTL DEF Spec

-----------------------------------------------------------------------------
(***************************************************************************)
(* The interfaces of the VMs.                                              *)
(***************************************************************************)

\* One job at a time is between its reply and its end.
OneBusy == \A t, u \in TaskIds : job[t] \in Busy /\ job[u] \in Busy => t = u

\* A deployment has ended and has yet to release the interfaces of v, or to write
\* its record; an undeployment has deleted the record and has yet to release.
Releasing(v) ==
  \E t \in TaskIds :
    \/ /\ task[t].type = "vm-create" /\ v \in task[t].total
       /\ job[t] = "instances" \/ (job[t] = "ips" /\ v \notin won[t])
    \/ task[t].type = "vm-delete" /\ job[t] = "ips" /\ v \in won[t]

Accounted ==
  crashes = 0 =>
    \A r \in Rows : table[r] # Unused =>
      \/ table[r] \in Recorded \/ table[r] \in Creating
      \/ table[r] \in abandoned \/ Releasing(table[r])

Twice(v) == \E t, u \in Deletes(v) : t # u

\* The VMs that a deployment releases are neither recorded nor being created.
ReleasesFailed ==
  \A t \in TaskIds :
    task[t].type = "vm-create" /\ job[t] \in {"instances", "ips"} =>
      (task[t].total \ won[t]) \cap (Recorded \cup Creating) = {}

\* The VMs of an undeployment under way have their records until it deletes them,
\* or another one has deleted them.
DeletesOnce ==
  \A t \in TaskIds : \A v \in task[t].total :
    task[t].type = "vm-delete" =>
      /\ job[t] \in {"spawned", "waiting", "params", "status", "instances"} => v \in Recorded \/ Twice(v)
      /\ job[t] = "ips" /\ v \in won[t] => v \notin Recorded \cup Creating \/ Twice(v)

Equipped ==
  \A v \in VMs :
    v \in Recorded \/ v \in Creating \/ Recording(v) =>
      Cardinality(RowsOf(table, v)) >= PfNum \/ Twice(v)

HInv == OneBusy /\ ReleasesFailed /\ DeletesOnce /\ Equipped

\* A handler that deploys vms; a step that none of the tables of the manager sees.
Deploys(vms) == Idle /\ CheckNodesWithVmIds(vms) /\ (ExecuteDeployment(vms) \/ AbortDeployment(vms))

Apart == UNCHANGED <<task, inst, table, job, won, crashes, abandoned>>

\* The steps, as the interfaces see them.
LEMMA Kinds ==
  ASSUME [Next]_vars
  PROVE  \/ \E vms \in SUBSET VMs : Deploys(vms)
         \/ \E type \in Types \ {"vm-create"} : \E vms \in SUBSET VMs : Operate(type, vms)
         \/ \E t \in TaskIds : StartJob(t) \/ Reply(t) \/ ConnectionLost(t) \/ Write(t)
         \/ Crash
         \/ Apart
<1>1. ASSUME NEW t \in TaskIds, Serve(t) PROVE Apart
  <2>1. ASSUME NEW code, NEW vms, Answer(t, code, vms) PROVE Apart
    BY <2>1 DEF Answer, Apart, db, jobs
  <2>2. QED
    BY <1>1, <2>1 DEF Serve, RefuseDeploy, AcceptDeploy, DeployVms, ServeUndeploy, ServePower, Apart,
       db, jobs
<1>2. ASSUME DeployDefault PROVE Deploys(VMs)
  BY <1>2 DEF DeployDefault, Deploys, CheckNodes, CheckNodesWithVmIds
<1>3. ASSUME NEW vms, DeploySpecified(vms) PROVE Deploys(vms)
  BY <1>3 DEF DeploySpecified, Deploys
<1>4. ASSUME NEW s, SetDeployConfig(s) PROVE Apart
  BY <1>4 DEF SetDeployConfig, Apart, jobs
<1>5. UNCHANGED vars => Apart
  BY DEF vars, db, jobs, net, Apart
<1>6. QED
  BY <1>1, <1>2, <1>3, <1>4, <1>5 DEF Next, Handlers

\* A handler spawns jobs and touches no other.
LEMMA DeploysEffect ==
  ASSUME TypeOK, NEW vms, Deploys(vms)
  PROVE  /\ UNCHANGED <<inst, won, crashes>> /\ abandoned \subseteq abandoned'
         /\ \A t \in TaskIds : \/ task'[t] = task[t] /\ job'[t] = job[t]
                               \/ task'[t].type = "vm-create" /\ job'[t] = "spawned"
<1>1. ASSUME ExecuteDeployment(vms)
      PROVE  /\ UNCHANGED <<inst, won, crashes, abandoned>>
             /\ \E ids \in SUBSET TaskIds : CreateTasks("vm-create", vms, ids)
  BY <1>1 DEF ExecuteDeployment
<1>2. ASSUME AbortDeployment(vms)
      PROVE  UNCHANGED <<task, job, inst, won, crashes>> /\ abandoned \subseteq abandoned'
  BY <1>2 DEF AbortDeployment, jobs
<1>3. QED
  BY <1>1, <1>2, CreateEffect DEF Deploys

\* Every step leaves at most one job between its reply and its end.
LEMMA NextOneBusy == TypeOK /\ OneBusy /\ [Next]_vars => OneBusy'
<1> SUFFICES ASSUME TypeOK, OneBusy, [Next]_vars PROVE OneBusy'
  OBVIOUS
<1>1. ASSUME \A t \in TaskIds : job'[t] \in Busy => job[t] \in Busy PROVE OneBusy'
  BY <1>1 DEF OneBusy
<1>2. ASSUME NEW t \in TaskIds, \A u \in TaskIds : u # t => job'[u] = job[u], Idle PROVE OneBusy'
  BY <1>2 DEF OneBusy, Idle, Busy
<1>3. ASSUME NEW vms, Deploys(vms) PROVE OneBusy'
  <2>1. \A t \in TaskIds : job'[t] = job[t] \/ job'[t] = "spawned"
    BY <1>3, DeploysEffect
  <2>2. QED
    BY <1>1, <2>1 DEF Busy
<1>4. ASSUME NEW type, NEW vms, Operate(type, vms) PROVE OneBusy'
  <2>1. \A t \in TaskIds : job'[t] = job[t] \/ job'[t] = "spawned"
    BY <1>4, CreateEffect DEF Operate
  <2>2. QED
    BY <1>1, <2>1 DEF Busy
<1>5. ASSUME NEW t \in TaskIds, StartJob(t) \/ Reply(t) \/ ConnectionLost(t) PROVE OneBusy'
  <2>1. Idle
    BY <1>5 DEF StartJob, Reply, ConnectionLost
  <2>2. \A u \in TaskIds : u # t => job'[u] = job[u]
    BY <1>5, StartJobEffect, ReplyEffect, LostEffect DEF SameTask
  <2>3. QED
    BY <1>2, <2>1, <2>2
<1>6. ASSUME NEW t \in TaskIds, Write(t) PROVE OneBusy'
  <2>1. job[t] \in Busy /\ \A u \in TaskIds : u # t => job'[u] = job[u]
    BY <1>6, ParamsEffect, StatusEffect, InstancesEffect, IpsEffect DEF Write, SameTask, Busy
  <2>2. QED
    BY <1>1, <2>1
<1>7. CASE Crash
  BY <1>1, <1>7, CrashEffect DEF Busy
<1>8. CASE Apart
  BY <1>1, <1>8 DEF Apart
<1>9. QED
  BY <1>3, <1>4, <1>5, <1>6, <1>7, <1>8, Kinds

\* While a job writes records or releases interfaces nothing else happens in the
\* manager.
LEMMA WhileEnding ==
  ASSUME TypeOK, OneBusy, [Next]_vars, NEW t \in TaskIds,
         job[t] \in {"instances", "ips"}, job'[t] \in {"instances", "ips"}
  PROVE  /\ UNCHANGED <<task, won, abandoned, table>>
         /\ (job'[t] = job[t] /\ inst' = inst) \/ WriteInstances(t)
<1>1. job[t] \in Busy /\ ~Idle
  BY DEF Busy, Idle
<1>2. ASSUME NEW u \in TaskIds, Write(u)
      PROVE  /\ UNCHANGED <<task, won, abandoned, table>>
             /\ (job'[t] = job[t] /\ inst' = inst) \/ WriteInstances(t)
  <2>1. job[u] \in Busy
    BY <1>2 DEF Write, WriteParams, WriteStatus, WriteInstances, ReleaseIps, Busy
  <2>2. u = t
    BY <1>1, <2>1 DEF OneBusy
  <2>3. WriteInstances(t)
    <3>1. ~WriteParams(t) /\ ~WriteStatus(t)
      BY DEF WriteParams, WriteStatus
    <3>2. ~ReleaseIps(t)
      BY IpsEffect
    <3>3. QED
      BY <1>2, <2>2, <3>1, <3>2 DEF Write
  <2>4. QED
    BY <2>3 DEF WriteInstances
<1>3. ~Crash
  BY CrashEffect
<1>4. QED
  BY <1>1, <1>2, <1>3, Kinds DEF Deploys, Operate, StartJob, Reply, ConnectionLost, Apart

\* Allocating on several nodes takes unused rows for VMs of the request.
LEMMA AllocateOnRows ==
  ASSUME NEW tab \in [Rows -> VMs \cup {Unused}], NEW ns, NEW vms \in SUBSET VMs, NEW r \in Rows
  PROVE  \/ AllocateOn(tab, ns, vms)[r] = tab[r]
         \/ /\ tab[r] = Unused /\ r.node \in ns
            /\ AllocateOn(tab, ns, vms)[r] \in vms
            /\ AllocateOn(tab, ns, vms)[r].node = r.node
<1>1. DOMAIN tab = Rows
  OBVIOUS
<1>2. CASE r.node \notin ns
  BY <1>1, <1>2 DEF AllocateOn
<1>3. CASE r.node \in ns
  <2> DEFINE new == Allocate(tab, r.node, VmsOn(vms, r.node))[r]
  <2>1. AllocateOn(tab, ns, vms)[r] = new
    BY <1>1, <1>3 DEF AllocateOn
  <2>2. new = tab[r] \/ (tab[r] = Unused /\ new \in VmsOn(vms, r.node))
    BY <1>1, AllocateRows
  <2> HIDE DEF new
  <2>3. QED
    BY <1>3, <2>1, <2>2 DEF VmsOn
<1>4. QED
  BY <1>2, <1>3

\* A deployment that is carried out keeps the rows of the VMs it does not name, and
\* gives rows only to VMs that it creates; each of those has its PfNum rows.
LEMMA ExecuteTable ==
  ASSUME TypeOK, NEW vms \in SUBSET VMs, ExecuteDeployment(vms)
  PROVE  /\ \A r \in Rows : table'[r] \in {table[r], Unused} \/ table'[r] \in Creating'
         /\ \A v \in VMs \ vms : RowsOf(table, v) \subseteq RowsOf(table', v)
         /\ \A v \in Creating' : \/ v \in Creating
                                 \/ v \in vms /\ Cardinality(RowsOf(table', v)) >= PfNum
<1>1. PICK made \in SUBSET NodesOf(vms), ids \in SUBSET TaskIds :
        /\ \A n \in NodesOf(vms) : CanAllocate(table, n, VmsOn(vms, n))
        /\ \A n \in made : \E t \in ids : t[1] = n
        /\ \A t \in ids : t[1] \in made
        /\ CreateTasks("vm-create", vms, ids)
        /\ table' = Release(AllocateOn(table, NodesOf(vms), vms),
                            {v \in vms : v.node \notin made})
        /\ UNCHANGED <<spec, inst, won, net, crashes, abandoned>>
  BY DEF ExecuteDeployment
<1> DEFINE tab == AllocateOn(table, NodesOf(vms), vms)
           out == {v \in vms : v.node \notin made}
<1>2. tab \in [Rows -> VMs \cup {Unused}] /\ table \in [Rows -> VMs \cup {Unused}]
  BY AllocateOnTyped DEF TypeOK
<1>3. /\ DOMAIN table' = Rows /\ DOMAIN table = Rows
      /\ \A r \in Rows : table'[r] = IF tab[r] \in out THEN Unused ELSE tab[r]
  BY <1>1, <1>2, ReleaseRows
<1>4. \A r \in Rows :
        tab[r] = table[r] \/ (table[r] = Unused /\ tab[r] \in vms /\ tab[r].node = r.node)
  BY <1>2, AllocateOnRows
<1>5. \A t \in TaskIds :
        /\ t \in ids => /\ task'[t].status = "created" /\ task'[t].type = "vm-create"
                        /\ task'[t].total = VmsOn(vms, t[1])
        /\ t \notin ids => task'[t] = task[t]
  BY <1>1, CreateEffect
<1>6. Unused \notin VMs /\ \A n \in made : n \in NodesOf(vms)
  BY NetworkConfigAssumption
<1> HIDE DEF tab
<1>7. ASSUME NEW v \in vms, v.node \in made PROVE v \in Creating'
  <2>1. PICK t \in ids : t[1] = v.node
    BY <1>1, <1>7
  <2>2. t \in ActiveCreates' /\ v \in task'[t].total
    BY <1>5, <2>1 DEF ActiveCreates, Active, VmsOn
  <2>3. QED
    BY <2>2 DEF Creating
<1>8. \A r \in Rows : table'[r] \in {table[r], Unused} \/ table'[r] \in Creating'
  <2> SUFFICES ASSUME NEW r \in Rows PROVE table'[r] \in {table[r], Unused} \/ table'[r] \in Creating'
    OBVIOUS
  <2>1. CASE tab[r] = table[r]
    BY <1>3, <2>1
  <2>2. CASE tab[r] \in vms
    BY <1>3, <1>7, <2>2
  <2>3. QED
    BY <1>4, <2>1, <2>2
<1>9. ASSUME NEW v \in VMs \ vms PROVE RowsOf(table, v) \subseteq RowsOf(table', v)
  BY <1>3, <1>4, <1>6 DEF RowsOf
<1>10. ASSUME NEW v \in Creating', v \notin Creating
       PROVE  v \in vms /\ Cardinality(RowsOf(table', v)) >= PfNum
  <2>1. PICK t \in ids : v \in VmsOn(vms, t[1])
    <3>1. PICK t \in ActiveCreates' : v \in task'[t].total
      BY DEF Creating
    <3>2. t \in TaskIds
      BY <3>1 DEF ActiveCreates
    <3>3. t \in ids
      <4> SUFFICES ASSUME t \notin ids PROVE FALSE
        OBVIOUS
      <4>1. task'[t] = task[t]
        BY <1>5, <3>2
      <4>2. t \in ActiveCreates /\ v \in task[t].total
        BY <3>1, <4>1 DEF ActiveCreates, Active
      <4>3. QED
        BY <1>10, <4>2 DEF Creating
    <3>4. QED
      BY <1>5, <3>1, <3>2, <3>3
  <2> DEFINE n == t[1]
             given == Given(table, n, VmsOn(vms, n), v)
  <2>2. /\ v \in vms /\ v.node = n /\ n \in made /\ v \in VmsOn(vms, n)
        /\ VmsOn(vms, n) \in SUBSET {w \in VMs : w.node = n}
        /\ CanAllocate(table, n, VmsOn(vms, n))
    BY <1>1, <1>6, <2>1 DEF VmsOn
  <2> HIDE DEF n
  <2>3. IsFiniteSet(given) /\ Cardinality(given) = PfNum
    BY <1>3, <2>2, GivenShape
  <2>4. /\ \A r \in Rows : r \in given => Allocate(table, n, VmsOn(vms, n))[r] = v
        /\ \A r \in given : r.node = n /\ r \in Rows
    <3>1. given \subseteq Rows
      BY <1>3 DEF Given
    <3>2. /\ \A r \in DOMAIN table : Allocate(table, n, VmsOn(vms, n))[r] = v <=> table[r] = v \/ r \in given
          /\ \A r \in given : table[r] = Unused /\ r.node = n
      BY <2>2, GivenRows
    <3>3. QED
      BY <1>3, <3>1, <3>2
  <2>5. \A r \in given : tab[r] = v
    BY <1>3, <1>6, <2>2, <2>4 DEF tab, AllocateOn
  <2>6. given \subseteq RowsOf(table', v)
    BY <1>3, <2>2, <2>4, <2>5 DEF RowsOf
  <2>7. IsFiniteSet(RowsOf(table', v))
    BY <1>3, NetworkConfigAssumption, FS_Subset DEF RowsOf
  <2>8. Cardinality(given) <= Cardinality(RowsOf(table', v))
    BY <2>6, <2>7, FS_Subset
  <2>9. QED
    BY <2>2, <2>3, <2>7, <2>8, FS_CardinalityType, NetworkConfigAssumption
<1>11. QED
  BY <1>8, <1>9, <1>10

\* A deployment that is aborted only takes unused rows, for VMs it abandons.
LEMMA AbortTable ==
  ASSUME TypeOK, NEW vms \in SUBSET VMs, AbortDeployment(vms)
  PROVE  /\ \A r \in Rows : table'[r] = table[r] \/ (table[r] = Unused /\ table'[r] \in abandoned')
         /\ \A v \in VMs : RowsOf(table, v) \subseteq RowsOf(table', v)
         /\ UNCHANGED <<task, inst, job, won>>
<1>1. PICK kept \in SUBSET NodesOf(vms) :
        /\ table' = AllocateOn(table, kept, vms)
        /\ abandoned' = abandoned \cup {v \in vms : v.node \in kept}
        /\ UNCHANGED <<spec, task, inst, jobs, net, crashes>>
  BY DEF AbortDeployment
<1>2. table \in [Rows -> VMs \cup {Unused}] /\ table' \in [Rows -> VMs \cup {Unused}]
  BY <1>1, AllocateOnTyped DEF TypeOK
<1>3. \A r \in Rows :
        \/ table'[r] = table[r]
        \/ table[r] = Unused /\ r.node \in kept /\ table'[r] \in vms /\ table'[r].node = r.node
  BY <1>1, <1>2, AllocateOnRows
<1>4. Unused \notin VMs
  BY NetworkConfigAssumption
<1>5. \A r \in Rows : table'[r] = table[r] \/ (table[r] = Unused /\ table'[r] \in abandoned')
  BY <1>1, <1>3
<1>6. \A v \in VMs : RowsOf(table, v) \subseteq RowsOf(table', v)
  BY <1>2, <1>3, <1>4 DEF RowsOf
<1>7. QED
  BY <1>1, <1>5, <1>6 DEF jobs

\* Only a deployment that is carried out gives rise to VMs that are being created.
LEMMA CreatingBefore ==
  ASSUME IInv, [Next]_vars, NEW v, v \in Creating'
  PROVE  \/ v \in Creating
         \/ \E vms \in SUBSET VMs : Idle /\ CheckNodesWithVmIds(vms) /\ ExecuteDeployment(vms)
<1>0. TypeOK
  BY DEF IInv
<1>1. PICK t \in TaskIds : Active(t)' /\ task'[t].type = "vm-create" /\ v \in task'[t].total
  BY DEF Creating, ActiveCreates
<1>2. ASSUME task'[t].type = task[t].type, task'[t].total = task[t].total, Active(t) PROVE v \in Creating
  <2>1. t \in ActiveCreates /\ v \in task[t].total
    BY <1>1, <1>2 DEF ActiveCreates
  <2>2. QED
    BY <2>1 DEF Creating
<1>3. ASSUME task' = task PROVE v \in Creating
  BY <1>1, <1>2, <1>3 DEF Active
<1>4. ASSUME NEW type \in Types \ {"vm-create"}, NEW vms, Operate(type, vms) PROVE v \in Creating
  <2>1. task'[t] = task[t]
    BY <1>0, <1>1, <1>4, CreateEffect DEF Operate
  <2>2. QED
    BY <1>1, <1>2, <2>1 DEF Active
<1>5. ASSUME NEW u \in TaskIds, StartJob(u) \/ WriteParams(u) \/ WriteStatus(u) PROVE v \in Creating
  <2>1. CASE u # t
    <3>1. task'[t] = task[t]
      BY <1>0, <1>5, <2>1, StartJobEffect, ParamsEffect, StatusEffect DEF SameTask
    <3>2. QED
      BY <1>1, <1>2, <3>1 DEF Active
  <2>2. CASE u = t
    <3>1. SameOrder(t)
      BY <1>0, <1>5, <2>2, StartJobEffect, ParamsEffect, StatusEffect
    <3>2. Active(t)
      <4>1. CASE StartJob(t)
        BY <1>0, <4>1, StartJobEffect DEF IInv, JobStatus, Active
      <4>2. CASE WriteParams(t)
        BY <1>0, <1>1, <4>2, ParamsEffect DEF Active
      <4>3. CASE WriteStatus(t)
        BY <1>0, <4>3, StatusEffect DEF IInv, JobStatus, Active
      <4>4. QED
        BY <1>5, <2>2, <4>1, <4>2, <4>3
    <3>3. QED
      BY <1>2, <3>1, <3>2 DEF SameOrder
  <2>3. QED
    BY <2>1, <2>2
<1>6. ASSUME NEW vms \in SUBSET VMs, Deploys(vms)
      PROVE  v \in Creating \/ (Idle /\ CheckNodesWithVmIds(vms) /\ ExecuteDeployment(vms))
  BY <1>3, <1>6 DEF Deploys, AbortDeployment
<1>7. ASSUME Apart \/ Crash \/ \E u \in TaskIds : Reply(u) \/ ConnectionLost(u) \/ WriteInstances(u) \/ ReleaseIps(u)
      PROVE  v \in Creating
  BY <1>3, <1>7 DEF Apart, Crash, Reply, ConnectionLost, WriteInstances, ReleaseIps, db
<1>8. QED
  BY <1>4, <1>5, <1>6, <1>7, Kinds DEF Write

\* A record is written only by a deployment about to.
LEMMA RecordedFrom ==
  ASSUME IInv, JInv, [Next]_vars, NEW v \in VMs, v \in Recorded'
  PROVE  v \in Recorded \/ Recording(v)
<1>0. TypeOK /\ RecordsKept
  BY StepKeeps DEF IInv
<1>1. CASE inst' = inst
  BY <1>1 DEF Recorded
<1>2. ASSUME NEW t \in TaskIds, NEW some \in SUBSET won[t], job[t] = "instances",
             inst' = WithInstances(t, some)
      PROVE  v \in Recorded \/ Recording(v)
  BY <1>2 DEF WithInstances, Recorded, Recording
<1>3. ASSUME NEW t \in TaskIds, WriteInstances(t) PROVE v \in Recorded \/ Recording(v)
  BY <1>2, <1>3 DEF WriteInstances
<1>4. QED
  BY <1>0, <1>1, <1>2, <1>3, CrashEffect DEF RecordsKept

\* A job comes to its records by writing its status, or the lists of an
\* undeployment.
LEMMA Entering ==
  ASSUME IInv, JInv, [Next]_vars, NEW t \in TaskIds, job'[t] = "instances", job[t] # "instances"
  PROVE  /\ SameOrder(t) /\ inst' = inst /\ won' = won
         /\ task'[t].type = "vm-create" => WriteStatus(t)
         /\ job[t] \in {"params", "status"}
<1>0. TypeOK /\ JobOf(t)
  BY DEF IInv, JInv
<1>2. ASSUME NEW u \in TaskIds, StartJob(u) \/ Reply(u) \/ ConnectionLost(u) PROVE FALSE
  BY <1>0, <1>2, StartJobEffect, ReplyEffect, LostEffect DEF SameTask
<1>3. ASSUME NEW u \in TaskIds, Write(u) PROVE WriteParams(t) \/ WriteStatus(t)
  BY <1>0, <1>3, ParamsEffect, StatusEffect, InstancesEffect, IpsEffect DEF SameTask, Write
<1>4. WriteParams(t) \/ WriteStatus(t)
  <2>1. ASSUME NEW vms, Deploys(vms) PROVE FALSE
    BY <1>0, <2>1, DeploysEffect
  <2>2. ASSUME NEW type, NEW vms, Operate(type, vms) PROVE FALSE
    BY <1>0, <2>2, CreateEffect DEF Operate
  <2>3. ~Crash /\ ~Apart
    BY <1>0, CrashEffect DEF Apart
  <2>4. QED
    BY <1>2, <1>3, <2>1, <2>2, <2>3, Kinds
<1>5. CASE WriteStatus(t)
  BY <1>0, <1>5, StatusEffect
<1>6. CASE WriteParams(t)
  BY <1>0, <1>6, ParamsEffect DEF AnsweredDelete, SameOrder
<1>7. QED
  BY <1>4, <1>5, <1>6

\* What is twice undeployed stays so.
LEMMA TwiceKept ==
  ASSUME IInv, [Next]_vars, NEW v, Twice(v)
  PROVE  Twice(v)'
<1>1. \A t \in TaskIds : TaskKept(t)
  BY StepKeeps
<1>2. Deletes(v) \subseteq Deletes(v)'
  BY <1>1, PastKept
<1>3. QED
  BY <1>2 DEF Twice

\* The jobs that will delete records.
Deleting == {"spawned", "waiting", "params", "status", "instances"}

\* Only a job that wrote its records comes to release interfaces.
LEMMA IpsBefore ==
  ASSUME TypeOK, [Next]_vars, NEW t \in TaskIds, job'[t] = "ips"
  PROVE  job[t] \in {"instances", "ips"}
<1>1. ASSUME NEW u \in TaskIds, StartJob(u) \/ Reply(u) \/ ConnectionLost(u)
      PROVE  job[t] = "ips"
  BY <1>1, StartJobEffect, ReplyEffect, LostEffect DEF SameTask
<1>2. ASSUME NEW u \in TaskIds, Write(u) PROVE job[t] \in {"instances", "ips"}
  BY <1>2, ParamsEffect, StatusEffect, InstancesEffect, IpsEffect DEF SameTask, Write
<1>3. ASSUME NEW vms, Deploys(vms) PROVE job[t] = "ips"
  BY <1>3, DeploysEffect
<1>4. ASSUME NEW type, NEW vms, Operate(type, vms) PROVE job[t] = "ips"
  BY <1>4, CreateEffect DEF Operate
<1>5. ~Crash
  BY CrashEffect
<1>6. QED
  BY <1>1, <1>2, <1>3, <1>4, <1>5, Kinds DEF Apart

\* A job that has yet to delete records had to before, unless it is new.
LEMMA Born ==
  ASSUME IInv, [Next]_vars, NEW t \in TaskIds, job'[t] \in Deleting
  PROVE  \/ task[t].status = "none" /\ job'[t] = "spawned"
         \/ task[t].status # "none" /\ job[t] \in Deleting /\ SameOrder(t)
<1>0. TypeOK /\ \A u \in TaskIds : TaskKept(u)
  BY StepKeeps DEF IInv
<1>1. ASSUME NEW u \in TaskIds, StartJob(u) \/ Reply(u) \/ ConnectionLost(u) \/ Write(u)
      PROVE  job[t] \in Deleting
  <2>1. CASE StartJob(u) \/ Reply(u) \/ ConnectionLost(u)
    BY <1>0, <2>1, StartJobEffect, ReplyEffect, LostEffect DEF SameTask, Deleting
  <2>2. CASE Write(u)
    BY <1>0, <2>2, ParamsEffect, StatusEffect, InstancesEffect, IpsEffect DEF SameTask, Write, Deleting
  <2>3. QED
    BY <1>1, <2>1, <2>2
<1>2. ASSUME NEW type, NEW vms, NEW ids \in SUBSET TaskIds, CreateTasks(type, vms, ids)
      PROVE  job[t] \in Deleting \/ (task[t].status = "none" /\ job'[t] = "spawned")
  BY <1>0, <1>2, CreateEffect
<1>3. ASSUME NEW vms, Deploys(vms)
      PROVE  job[t] \in Deleting \/ (task[t].status = "none" /\ job'[t] = "spawned")
  BY <1>2, <1>3 DEF Deploys, ExecuteDeployment, AbortDeployment, jobs
<1>4. ASSUME NEW type, NEW vms, Operate(type, vms)
      PROVE  job[t] \in Deleting \/ (task[t].status = "none" /\ job'[t] = "spawned")
  BY <1>2, <1>4 DEF Operate
<1>5. ~Crash
  BY <1>0, CrashEffect DEF Deleting
<1>6. job[t] \in Deleting \/ (task[t].status = "none" /\ job'[t] = "spawned")
  BY <1>1, <1>3, <1>4, <1>5, Kinds DEF Apart
<1>7. job[t] \in Deleting => task[t].status # "none"
  BY DEF IInv, Unborn, Deleting
<1>8. QED
  BY <1>0, <1>6, <1>7 DEF TaskKept

\* Every step keeps ReleasesFailed.
LEMMA NextReleasesFailed == IInv /\ JInv /\ HInv /\ [Next]_vars => ReleasesFailed'
<1> SUFFICES ASSUME IInv, JInv, HInv, [Next]_vars, NEW t \in TaskIds, task'[t].type = "vm-create",
                    job'[t] \in {"instances", "ips"}, NEW v \in task'[t].total, v \notin won'[t]
             PROVE  v \notin Recorded' /\ v \notin Creating'
  BY DEF ReleasesFailed
<1>0. TypeOK /\ OneBusy
  BY DEF IInv, HInv
<1>1. CASE job[t] \in {"instances", "ips"}
  <2>1. /\ UNCHANGED <<task, won>>
        /\ (job'[t] = job[t] /\ inst' = inst) \/ WriteInstances(t)
    BY <1>0, <1>1, WhileEnding
  <2>2. v \notin Recorded /\ v \notin Creating
    BY <1>1, <2>1 DEF HInv, ReleasesFailed
  <2>3. Creating' = Creating
    BY <2>1 DEF Creating, ActiveCreates, Active
  <2>4. WriteInstances(t) => Recorded' = Recorded \cup won[t]
    BY <1>0, <2>1, InstancesEffect
  <2>5. inst' = inst => Recorded' = Recorded
    BY DEF Recorded
  <2>6. QED
    BY <2>1, <2>2, <2>3, <2>4, <2>5
<1>2. CASE job[t] \notin {"instances", "ips"}
  <2>1. job'[t] # "ips"
    BY <1>0, <1>2, IpsBefore
  <2>2. WriteStatus(t) /\ SameOrder(t) /\ inst' = inst
    BY <1>2, <2>1, Entering
  <2>3. t \in ActiveCreates /\ v \in task[t].total
    BY <1>0, <2>2, StatusEffect DEF ActiveCreates, Active, SameOrder, IInv, JobStatus
  <2>4. v \notin Recorded'
    BY <2>2, <2>3 DEF IInv, CreatingNotRecorded, Recorded
  <2>5. ASSUME NEW u \in ActiveCreates', v \in task'[u].total PROVE FALSE
    <3>1. u \in TaskIds
      BY DEF ActiveCreates
    <3>2. u # t
      BY <1>0, <2>2, <2>5, StatusEffect DEF ActiveCreates, Active
    <3>3. task'[u] = task[u]
      BY <1>0, <2>2, <3>1, <3>2, StatusEffect DEF SameTask
    <3>4. u \in ActiveCreates /\ v \in task[u].total
      BY <2>5, <3>3 DEF ActiveCreates, Active
    <3>5. QED
      BY <2>3, <3>2, <3>4 DEF IInv, NoOverlappingCreates
  <2>6. QED
    BY <2>4, <2>5 DEF Creating
<1>3. QED
  BY <1>1, <1>2

\* A record that goes away while an undeployment of its VM is under way was deleted
\* by another one.
LEMMA DeletedByAnother ==
  ASSUME IInv, JInv, [Next]_vars, ~Crash, NEW t \in TaskIds, NEW v \in VMs,
         t \in Deletes(v)', job'[t] # "ips", v \in Recorded, v \notin Recorded'
  PROVE  Twice(v)'
<1>0. TypeOK /\ RecordsKept /\ (\A u \in TaskIds : TaskKept(u)) /\ \A u \in TaskIds : JobOf(u)
  BY StepKeeps DEF IInv, JInv
<1>1. PICK u \in TaskIds : WriteInstances(u)
  BY <1>0 DEF RecordsKept, Recorded
<1>2. /\ job[u] = "instances" /\ job'[u] = "ips" /\ v \in won[u] /\ task[u].type # "vm-create"
  BY <1>0, <1>1, InstancesEffect
<1>3. task[u].type = "vm-delete" /\ v \in task[u].total /\ task[u].status # "none"
  BY <1>0, <1>2 DEF JobOf, TakenOf, Busy, IInv, WonInTotal, Unborn
<1>4. u \in Deletes(v)
  BY <1>3 DEF Deletes
<1>5. u \in Deletes(v)' /\ u # t
  BY <1>0, <1>2, <1>4, PastKept
<1>6. QED
  BY <1>5 DEF Twice

\* Every step keeps DeletesOnce.
LEMMA NextDeletesOnce == IInv /\ JInv /\ HInv /\ [Next]_vars => DeletesOnce'
<1> SUFFICES ASSUME IInv, JInv, HInv, [Next]_vars, NEW t \in TaskIds, NEW v \in task'[t].total,
                    task'[t].type = "vm-delete"
             PROVE  /\ job'[t] \in Deleting => v \in Recorded' \/ Twice(v)'
                    /\ job'[t] = "ips" /\ v \in won'[t] => v \notin Recorded' \cup Creating' \/ Twice(v)'
  BY DEF DeletesOnce, Deleting
<1>0. TypeOK /\ TypeOK' /\ OneBusy /\ IInv' /\ \A u \in TaskIds : JobOf(u)
  BY NextIInv DEF IInv, HInv, JInv
<1>1. v \in VMs
  BY <1>0 DEF TypeOK, Tasks
<1>2. ASSUME job'[t] \in Deleting PROVE v \in Recorded' \/ Twice(v)'
  <2>1. ~Crash
    BY <1>0, <1>2, CrashEffect DEF Deleting
  <2>2. t \in Deletes(v)' /\ job'[t] # "ips"
    BY <1>0, <1>2 DEF Deletes, Deleting, IInv, Unborn
  <2>3. v \in Recorded \/ Twice(v)
    <3>1. CASE job[t] \in Deleting /\ SameOrder(t)
      BY <3>1 DEF HInv, DeletesOnce, Deleting, SameOrder
    <3>2. CASE task[t].status = "none" /\ job'[t] = "spawned"
      <4>1. PICK type \in Types, vms \in SUBSET VMs : Operate(type, vms)
        <5>1. ASSUME NEW vms, Deploys(vms) PROVE FALSE
          <6>1. task'[t] = task[t] /\ job'[t] = job[t]
            BY <1>0, <5>1, DeploysEffect
          <6>2. QED
            BY <3>2, <6>1 DEF IInv, Unborn
        <5>2. ASSUME NEW u \in TaskIds, StartJob(u) \/ Reply(u) \/ ConnectionLost(u) \/ Write(u)
              PROVE  FALSE
          <6>1. job[t] = "none"
            BY <3>2 DEF IInv, Unborn
          <6>2. CASE StartJob(u) \/ Reply(u) \/ ConnectionLost(u)
            BY <1>0, <3>2, <6>1, <6>2, StartJobEffect, ReplyEffect, LostEffect DEF SameTask
          <6>3. CASE Write(u)
            BY <1>0, <3>2, <6>1, <6>3, ParamsEffect, StatusEffect, InstancesEffect, IpsEffect
               DEF SameTask, Write
          <6>4. QED
            BY <5>2, <6>2, <6>3
        <5>3. ~Apart
          BY <3>2 DEF Apart, IInv, Unborn
        <5>4. QED
          BY <2>1, <5>1, <5>2, <5>3, Kinds
      <4>2. vms \subseteq Recorded /\ \E ids \in SUBSET TaskIds : CreateTasks(type, vms, ids)
        BY <4>1 DEF Operate, CheckVmIdsExist
      <4>3. task'[t].total = VmsOn(vms, t[1])
        BY <1>0, <3>2, <4>2, CreateEffect DEF IInv, Unborn
      <4>4. QED
        BY <4>2, <4>3 DEF VmsOn
    <3>3. QED
      <4>1. CASE task[t].status = "none"
        BY <1>2, <3>2, <4>1, Born
      <4>2. CASE task[t].status # "none"
        BY <1>2, <3>1, <4>2, Born
      <4>3. QED
        BY <4>1, <4>2
  <2>4. CASE Twice(v)
    BY <2>4, TwiceKept
  <2>5. CASE v \in Recorded /\ v \notin Recorded'
    BY <1>1, <2>1, <2>2, <2>5, DeletedByAnother
  <2>6. QED
    BY <2>3, <2>4, <2>5
<1>3. ASSUME job'[t] = "ips", v \in won'[t] PROVE v \notin Recorded' \cup Creating' \/ Twice(v)'
  <2>1. job[t] \in {"instances", "ips"}
    BY <1>0, <1>3, IpsBefore
  <2>2. /\ UNCHANGED <<task, won>>
        /\ (job'[t] = job[t] /\ inst' = inst) \/ WriteInstances(t)
    BY <1>0, <1>3, <2>1, WhileEnding
  <2>3. Creating' = Creating
    BY <2>2 DEF Creating, ActiveCreates, Active
  <2>4. CASE WriteInstances(t)
    <3>1. Recorded' = Recorded \ won[t] /\ job[t] = "instances"
      BY <1>0, <2>2, <2>4, InstancesEffect
    <3>2. v \in Recorded \/ Twice(v)
      BY <2>2, <3>1 DEF HInv, DeletesOnce
    <3>3. CASE Twice(v)
      BY <3>3, TwiceKept
    <3>4. CASE v \in Recorded
      <4>1. v \notin Creating
        BY <3>4 DEF IInv, CreatingNotRecorded, Creating
      <4>2. QED
        BY <1>3, <2>2, <2>3, <3>1, <4>1
    <3>5. QED
      BY <3>2, <3>3, <3>4
  <2>5. CASE job'[t] = job[t] /\ inst' = inst
    <3>1. v \notin Recorded \cup Creating \/ Twice(v)
      BY <1>3, <2>2, <2>5 DEF HInv, DeletesOnce
    <3>2. Recorded' = Recorded
      BY <2>5 DEF Recorded
    <3>3. QED
      BY <2>3, <3>1, <3>2, TwiceKept
  <2>6. QED
    BY <2>2, <2>4, <2>5
<1>4. QED
  BY <1>2, <1>3

\* The VMs that need their interfaces.
Needs(v) == v \in Recorded \/ v \in Creating \/ Recording(v)

\* A VM comes to need interfaces only when a deployment is carried out.
LEMMA NeedsBefore ==
  ASSUME IInv, JInv, [Next]_vars, NEW v \in VMs, Needs(v)'
  PROVE  \/ Needs(v)
         \/ v \in Creating' /\ \E vms \in SUBSET VMs : Idle /\ CheckNodesWithVmIds(vms) /\ ExecuteDeployment(vms)
<1>0. TypeOK /\ \A t \in TaskIds : TaskKept(t)
  BY StepKeeps DEF IInv
<1>1. CASE v \in Recorded'
  BY <1>1, RecordedFrom DEF Needs
<1>2. CASE v \in Creating'
  BY <1>2, CreatingBefore DEF Needs
<1>3. CASE Recording(v)'
  <2>1. PICK t \in TaskIds : job'[t] = "instances" /\ task'[t].type = "vm-create" /\ v \in won'[t]
    BY <1>3 DEF Recording
  <2>2. CASE job[t] = "instances"
    <3>1. task[t].status # "none"
      BY <2>2 DEF IInv, Unborn
    <3>2. task[t].type = "vm-create"
      BY <1>0, <2>1, <3>1 DEF TaskKept, SameOrder
    <3>3. won'[t] = won[t]
      BY <1>0, <2>1, <2>2, StepKeeps, InstancesEffect, CrashEffect DEF RecordsKept
    <3>4. QED
      BY <2>1, <2>2, <3>2, <3>3 DEF Needs, Recording
  <2>3. CASE job[t] # "instances"
    <3>1. WriteStatus(t) /\ SameOrder(t) /\ won' = won
      BY <2>1, <2>3, Entering
    <3>2. job[t] = "status" /\ task[t].type = "vm-create" /\ v \in won[t]
      BY <1>0, <2>1, <3>1, StatusEffect DEF SameOrder
    <3>3. t \in ActiveCreates /\ v \in task[t].total
      BY <3>2 DEF IInv, JobStatus, WonInTotal, Busy, ActiveCreates, Active
    <3>4. QED
      BY <3>3 DEF Needs, Creating
  <2>4. QED
    BY <2>2, <2>3
<1>4. QED
  BY <1>1, <1>2, <1>3 DEF Needs

\* A VM that needs its interfaces keeps them, unless it is undeployed twice.
LEMMA NeedsKeepsRows ==
  ASSUME IInv, JInv, HInv, [Next]_vars, NEW v \in VMs, Needs(v)
  PROVE  RowsOf(table, v) \subseteq RowsOf(table', v) \/ Twice(v)
<1>0. TypeOK /\ TypeOK'
  BY NextIInv DEF IInv
<1>1. ASSUME table' = table PROVE RowsOf(table, v) \subseteq RowsOf(table', v)
  BY <1>1
<1>2. ASSUME NEW vms \in SUBSET VMs, Deploys(vms) PROVE RowsOf(table, v) \subseteq RowsOf(table', v)
  <2>1. ~Recording(v)
    BY <1>2 DEF Deploys, Idle, Recording
  <2>2. v \notin vms
    <3>1. \A t \in ActiveCreates : task[t].total \cap vms = {}
      BY <1>2 DEF Deploys, CheckNodesWithVmIds
    <3>2. v \in Creating => v \notin vms
      BY <3>1 DEF Creating
    <3>3. QED
      BY <1>2, <2>1, <3>2 DEF Needs, Deploys, CheckNodesWithVmIds
  <2>3. QED
    BY <1>0, <1>2, <2>2, ExecuteTable, AbortTable DEF Deploys
<1>3. ASSUME NEW t \in TaskIds, ReleaseIps(t)
      PROVE  RowsOf(table, v) \subseteq RowsOf(table', v) \/ Twice(v)
  <2> DEFINE gone == IF task[t].type = "vm-create" THEN task[t].total \ won[t] ELSE won[t]
  <2>1. job[t] = "ips" /\ table' = Release(table, gone)
    BY <1>0, <1>3, IpsEffect
  <2>2. ~Recording(v)
    BY <2>1 DEF HInv, OneBusy, Busy, Recording
  <2>3. CASE v \in gone
    <3>1. task[t].type = "vm-delete"
      <4>1. task[t].type # "vm-create"
        BY <2>1, <2>2, <2>3 DEF HInv, ReleasesFailed, Needs
      <4>2. QED
        BY <2>1, <4>1 DEF JInv, JobOf, TakenOf, Busy
    <3>2. v \in won[t] /\ v \in task[t].total
      BY <2>1, <2>3, <3>1 DEF IInv, WonInTotal, Busy
    <3>3. QED
      BY <2>1, <2>2, <3>1, <3>2 DEF HInv, DeletesOnce, Needs
  <2>4. CASE v \notin gone
    <3> HIDE DEF gone
    <3>1. QED
      BY <2>1, <2>4, ReleaseRows DEF RowsOf
  <2>5. QED
    BY <2>3, <2>4
<1>4. ASSUME NEW type, NEW vms, Operate(type, vms) PROVE table' = table
  BY <1>4 DEF Operate
<1>5. ASSUME NEW t \in TaskIds, StartJob(t) \/ Reply(t) \/ ConnectionLost(t) \/ Write(t)
      PROVE  table' = table \/ ReleaseIps(t)
  BY <1>5 DEF StartJob, Reply, ConnectionLost, Write, WriteParams, WriteStatus, WriteInstances, db
<1>6. Crash \/ Apart => table' = table
  BY DEF Crash, Apart
<1>7. QED
  BY <1>1, <1>2, <1>3, <1>4, <1>5, <1>6, Kinds

\* Every step keeps Equipped.
LEMMA NextEquipped == IInv /\ JInv /\ HInv /\ [Next]_vars => Equipped'
<1> SUFFICES ASSUME IInv, JInv, HInv, [Next]_vars, NEW v \in VMs, Needs(v)'
             PROVE  Cardinality(RowsOf(table', v)) >= PfNum \/ Twice(v)'
  BY DEF Equipped, Needs
<1>0. TypeOK /\ TypeOK' /\ PfNum \in Nat
  BY NextIInv, NetworkConfigAssumption DEF IInv
<1>1. CASE Needs(v)
  <2>1. Cardinality(RowsOf(table, v)) >= PfNum \/ Twice(v)
    BY <1>1 DEF HInv, Equipped, Needs
  <2>2. CASE Twice(v)
    BY <2>2, TwiceKept
  <2>3. CASE ~Twice(v)
    <3>1. RowsOf(table, v) \subseteq RowsOf(table', v)
      BY <1>1, <2>3, NeedsKeepsRows
    <3>2. DOMAIN table' = Rows
      BY <1>0 DEF TypeOK
    <3>3. IsFiniteSet(RowsOf(table', v))
      BY <3>2, NetworkConfigAssumption, FS_Subset DEF RowsOf
    <3>4. /\ IsFiniteSet(RowsOf(table, v))
          /\ Cardinality(RowsOf(table, v)) <= Cardinality(RowsOf(table', v))
      BY <3>1, <3>3, FS_Subset
    <3>5. Cardinality(RowsOf(table, v)) \in Nat /\ Cardinality(RowsOf(table', v)) \in Nat
      BY <3>3, <3>4, FS_CardinalityType
    <3>6. QED
      BY <1>0, <2>1, <2>3, <3>4, <3>5
  <2>4. QED
    BY <2>2, <2>3
<1>2. CASE ~Needs(v)
  <2>1. v \in Creating' /\ \E vms \in SUBSET VMs : ExecuteDeployment(vms)
    BY <1>2, NeedsBefore
  <2>2. v \notin Creating
    BY <1>2 DEF Needs
  <2>3. QED
    BY <1>0, <2>1, <2>2, ExecuteTable
<1>3. QED
  BY <1>1, <1>2

\* Two undeployments of a VM are at least two tasks that undeploy it.
LEMMA TwiceCounts ==
  ASSUME NEW v, Twice(v)
  PROVE  Cardinality(Deletes(v)) >= 2
<1>1. IsFiniteSet(TaskIds)
  <2>1. MaxTasks \in Nat
    BY VmServiceAssumption
  <2>2. IsFiniteSet(1 .. MaxTasks)
    BY <2>1, FS_Interval
  <2>3. IsFiniteSet(Nodes)
    BY NetworkConfigAssumption
  <2>4. QED
    BY <2>2, <2>3, FS_Product DEF TaskIds
<1>2. IsFiniteSet(Deletes(v))
  BY <1>1, FS_Subset DEF Deletes
<1>3. PICK t, u \in Deletes(v) : t # u
  BY DEF Twice
<1>4. IsFiniteSet({t, u}) /\ Cardinality({t, u}) = 2
  <2>1. IsFiniteSet({t}) /\ Cardinality({t}) = 1
    BY FS_Singleton
  <2>2. IsFiniteSet({t} \cup {u}) /\ Cardinality({t} \cup {u}) = 2
    BY <1>3, <2>1, FS_AddElement
  <2>3. {t} \cup {u} = {t, u}
    OBVIOUS
  <2>4. QED
    BY <2>2, <2>3
<1>5. Cardinality({t, u}) <= Cardinality(Deletes(v))
  BY <1>2, <1>3, FS_Subset
<1>6. QED
  BY <1>2, <1>4, <1>5, FS_CardinalityType

\* A recorded VM keeps its PfNum interfaces, whatever deployments, undeployments,
\* lost replies and crashes, unless two undeployments named it.
THEOREM RecordedHasInterfacesHolds == Spec => []RecordedHasInterfaces
<1>1. Init => HInv
  <2>1. ASSUME Init PROVE /\ OneBusy /\ ReleasesFailed /\ DeletesOnce
    BY <2>1 DEF Init, OneBusy, ReleasesFailed, DeletesOnce, Busy
  <2>2. ASSUME Init PROVE Equipped
    BY <2>2 DEF Init, Equipped, Recorded, Creating, Recording, ActiveCreates, Active
  <2>3. QED
    BY <2>1, <2>2 DEF HInv
<1>2. IInv /\ JInv /\ HInv /\ [Next]_vars => HInv'
  BY NextOneBusy, NextReleasesFailed, NextDeletesOnce, NextEquipped DEF HInv, IInv
<1>3. HInv => RecordedHasInterfaces
  <2> SUFFICES ASSUME HInv, NEW v \in Recorded
               PROVE  Cardinality(RowsOf(table, v)) >= PfNum \/ Cardinality(Deletes(v)) >= 2
    BY DEF RecordedHasInterfaces
  <2>1. Cardinality(RowsOf(table, v)) >= PfNum \/ Twice(v)
    BY DEF HInv, Equipped, Recorded
  <2>2. QED
    BY <2>1, TwiceCounts
<1> QED
  BY <1>1, <1>2, <1>3, InitIInv, NextIInv, InitJInv, NextJInv, PTL DEF Spec

\* What Accounted says of the VM of a row.
Held(v) == v \in Recorded \/ v \in Creating \/ v \in abandoned \/ Releasing(v)

\* A job that releases interfaces goes on to release them.
LEMMA IpsKept ==
  ASSUME IInv, OneBusy, [Next]_vars, ~Crash, NEW t \in TaskIds, job[t] = "ips"
  PROVE  (job'[t] = "ips" /\ UNCHANGED <<task, won>>) \/ ReleaseIps(t)
<1>0. TypeOK
  BY DEF IInv
<1>1. job[t] \in Busy /\ ~Idle
  BY DEF Busy, Idle
<1>2. ASSUME NEW u \in TaskIds, Write(u) PROVE ReleaseIps(t)
  <2>1. job[u] \in Busy
    BY <1>2 DEF Write, WriteParams, WriteStatus, WriteInstances, ReleaseIps, Busy
  <2>2. u = t
    BY <1>1, <2>1 DEF OneBusy
  <2>3. QED
    BY <1>2, <2>2 DEF Write, WriteParams, WriteStatus, WriteInstances
<1>3. QED
  BY <1>1, <1>2, Kinds DEF Deploys, Operate, StartJob, Reply, ConnectionLost, Apart

\* abandoned only grows.
LEMMA AbandonedKept ==
  ASSUME TypeOK, [Next]_vars
  PROVE  abandoned \subseteq abandoned'
<1>1. ASSUME NEW vms, Deploys(vms) PROVE abandoned \subseteq abandoned'
  BY <1>1, DeploysEffect
<1>2. ASSUME NEW type, NEW vms, Operate(type, vms) PROVE abandoned' = abandoned
  BY <1>2 DEF Operate
<1>3. ASSUME NEW t \in TaskIds, StartJob(t) \/ Reply(t) \/ ConnectionLost(t) \/ Write(t)
      PROVE  abandoned' = abandoned
  BY <1>3 DEF StartJob, Reply, ConnectionLost, Write, WriteParams, WriteStatus, WriteInstances, ReleaseIps
<1>4. Crash \/ Apart => abandoned' = abandoned
  BY DEF Crash, Apart
<1>5. QED
  BY <1>1, <1>2, <1>3, <1>4, Kinds

\* Without a crash the holder of a row is accounted for until its rows are released.
LEMMA HeldKept ==
  ASSUME IInv, JInv, OneBusy, [Next]_vars, ~Crash, NEW v \in VMs, Held(v)
  PROVE  Held(v)' \/ \A r \in Rows : table'[r] # v
<1>0. TypeOK /\ RecordsKept /\ (\A t \in TaskIds : TaskKept(t)) /\ \A t \in TaskIds : JobOf(t)
  BY StepKeeps DEF IInv, JInv
<1>1. CASE v \in abandoned
  BY <1>0, <1>1, AbandonedKept DEF Held
<1>2. CASE v \in Recorded
  <2>1. CASE v \in Recorded'
    BY <2>1 DEF Held
  <2>2. CASE v \notin Recorded'
    <3>1. PICK t \in TaskIds : WriteInstances(t)
      BY <1>0, <1>2, <2>2 DEF RecordsKept, Recorded
    <3>2. /\ job[t] = "instances" /\ job'[t] = "ips" /\ task[t].type # "vm-create" /\ v \in won[t]
          /\ UNCHANGED <<task, won>>
      BY <1>0, <1>2, <2>2, <3>1, InstancesEffect
    <3>3. task[t].type = "vm-delete"
      BY <1>0, <3>2 DEF JobOf, TakenOf, Busy
    <3>4. QED
      BY <3>2, <3>3 DEF Held, Releasing
  <2>3. QED
    BY <2>1, <2>2
<1>3. CASE v \in Creating
  <2>1. PICK t \in TaskIds : Active(t) /\ task[t].type = "vm-create" /\ v \in task[t].total
    BY <1>3 DEF Creating, ActiveCreates
  <2>2. SameOrder(t)
    BY <1>0, <2>1 DEF TaskKept, Active
  <2>3. CASE Active(t)'
    <3>1. t \in ActiveCreates' /\ v \in task'[t].total
      BY <2>1, <2>2, <2>3 DEF ActiveCreates, SameOrder
    <3>2. QED
      BY <3>1 DEF Held, Creating
  <2>4. CASE WriteStatus(t)
    <3>1. job'[t] = "instances"
      BY <1>0, <2>1, <2>4, StatusEffect DEF AnsweredDelete
    <3>2. QED
      BY <2>1, <2>2, <3>1 DEF Held, Releasing, SameOrder
  <2>5. QED
    BY <1>0, <2>1, <2>3, <2>4 DEF TaskKept
<1>4. CASE Releasing(v)
  <2>1. PICK t \in TaskIds :
          \/ /\ task[t].type = "vm-create" /\ v \in task[t].total
             /\ job[t] = "instances" \/ (job[t] = "ips" /\ v \notin won[t])
          \/ task[t].type = "vm-delete" /\ job[t] = "ips" /\ v \in won[t]
    BY <1>4 DEF Releasing
  <2>2. CASE job[t] = "instances"
    <3>1. task[t].type = "vm-create" /\ v \in task[t].total
      BY <2>1, <2>2
    <3>2. CASE job'[t] = "instances"
      <4>1. task[t].status # "none"
        BY <2>2 DEF IInv, Unborn
      <4>2. SameOrder(t)
        BY <1>0, <4>1 DEF TaskKept
      <4>3. QED
        BY <3>1, <3>2, <4>2 DEF Held, Releasing, SameOrder
    <3>3. CASE WriteInstances(t)
      <4>1. job'[t] = "ips" /\ Recorded' = Recorded \cup won[t] /\ UNCHANGED <<task, won>>
        BY <1>0, <3>1, <3>3, InstancesEffect
      <4>2. QED
        BY <3>1, <4>1 DEF Held, Releasing
    <3>4. QED
      BY <1>0, <2>2, <3>2, <3>3 DEF RecordsKept
  <2>3. CASE job[t] = "ips"
    <3> DEFINE gone == IF task[t].type = "vm-create" THEN task[t].total \ won[t] ELSE won[t]
    <3>1. v \in gone
      BY <2>1, <2>3
    <3>2. CASE job'[t] = "ips" /\ UNCHANGED <<task, won>>
      BY <2>1, <2>3, <3>2 DEF Held, Releasing
    <3>3. CASE ReleaseIps(t)
      <4>1. table' = Release(table, gone) /\ DOMAIN table = Rows
        BY <1>0, <3>3, IpsEffect DEF TypeOK
      <4>2. v # Unused
        BY NetworkConfigAssumption
      <4> HIDE DEF gone
      <4>3. QED
        BY <3>1, <4>1, <4>2, ReleaseRows
    <3>4. QED
      BY <2>3, <3>2, <3>3, IpsKept
  <2>4. QED
    BY <2>1, <2>2, <2>3
<1>5. QED
  BY <1>1, <1>2, <1>3, <1>4 DEF Held

\* A row that changes hands goes to a VM that is accounted for.
LEMMA NewHolder ==
  ASSUME IInv, [Next]_vars, NEW r \in Rows, table'[r] \notin {table[r], Unused}
  PROVE  Held(table[r])'
<1>0. TypeOK
  BY DEF IInv
<1>1. ASSUME NEW vms \in SUBSET VMs, Deploys(vms) PROVE Held(table[r])'
  <2>1. CASE ExecuteDeployment(vms)
    BY <1>0, <2>1, ExecuteTable DEF Held
  <2>2. CASE AbortDeployment(vms)
    BY <1>0, <2>2, AbortTable DEF Held
  <2>3. QED
    BY <1>1, <2>1, <2>2 DEF Deploys
<1>2. ASSUME NEW t \in TaskIds, ReleaseIps(t) PROVE FALSE
  <2>1. PICK gone : table' = Release(table, gone)
    BY <1>0, <1>2, IpsEffect
  <2>2. DOMAIN table = Rows
    BY <1>0 DEF TypeOK
  <2>3. QED
    BY <2>1, <2>2, ReleaseRows
<1>3. ASSUME NEW type, NEW vms, Operate(type, vms) PROVE table' = table
  BY <1>3 DEF Operate
<1>4. ASSUME NEW t \in TaskIds, StartJob(t) \/ Reply(t) \/ ConnectionLost(t) \/ Write(t)
      PROVE  table' = table \/ ReleaseIps(t)
  BY <1>4 DEF StartJob, Reply, ConnectionLost, Write, WriteParams, WriteStatus, WriteInstances, db
<1>5. Crash \/ Apart => table' = table
  BY DEF Crash, Apart
<1>6. QED
  BY <1>1, <1>2, <1>3, <1>4, <1>5, Kinds

\* Every step keeps Accounted.
LEMMA NextAccounted == IInv /\ JInv /\ OneBusy /\ Accounted /\ [Next]_vars => Accounted'
<1> SUFFICES ASSUME IInv, JInv, OneBusy, Accounted, [Next]_vars, crashes' = 0,
                    NEW r \in Rows, table'[r] # Unused
             PROVE  Held(table[r])'
  BY DEF Accounted, Held
<1>0. TypeOK /\ RecordsKept
  BY StepKeeps DEF IInv
<1>1. ~Crash /\ crashes = 0
  BY <1>0, CrashEffect DEF RecordsKept
<1>2. CASE table'[r] = table[r]
  <2>1. table[r] \in VMs /\ Held(table[r])
    BY <1>0, <1>1, <1>2 DEF Accounted, Held, TypeOK
  <2>2. \A v \in VMs : Held(v) => Held(v)' \/ \A q \in Rows : table'[q] # v
    BY <1>1, HeldKept
  <2>3. \A v \in VMs : Held(v) /\ table'[r] = v => Held(v)'
    BY <2>2
  <2>4. QED
    BY <1>2, <2>1, <2>3 DEF Held, Releasing
<1>3. CASE table'[r] # table[r]
  BY <1>3, NewHolder
<1>4. QED
  BY <1>2, <1>3

\* Without a crash, an interface in use belongs to a VM that is recorded, is being
\* created, or was left behind by a deployment aborted on another node.
THEOREM InterfacesAccountedHolds == Spec => []InterfacesAccounted
<1>1. Init => OneBusy /\ Accounted
  BY DEF Init, OneBusy, Accounted, Busy
<1>2. IInv /\ OneBusy /\ [Next]_vars => OneBusy'
  BY NextOneBusy DEF IInv
<1>3. Accounted => InterfacesAccounted
  <2> SUFFICES ASSUME Accounted, Idle, crashes = 0, NEW r \in Rows, table[r] # Unused
               PROVE  table[r] \in Recorded \cup Creating \cup abandoned
    BY DEF InterfacesAccounted
  <2>1. ~Releasing(table[r])
    BY DEF Idle, Releasing
  <2>2. QED
    BY <2>1 DEF Accounted
<1> QED
  BY <1>1, <1>2, <1>3, InitIInv, NextIInv, InitJInv, NextJInv, NextAccounted, PTL DEF Spec
=============================================================================
