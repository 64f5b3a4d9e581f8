-------------------------- MODULE VirtServiceProofs --------------------------
(***************************************************************************)
(* Type correctness of a compute node, the soundness of what deploy_cvm    *)
(* answers to the manager, what a running VM has and where remains come    *)
(* from, for any finite set of VMs, any number of requests and any address *)
(* pool.                                                                   *)
(***************************************************************************)
EXTENDS VirtService, FiniteSetTheorems, TLAPS

Phases == {"none", "collecting", "returning", "answered", "lost"}
Workers == {"none", "submitted", "waiting", "up", "failed", "raised"}
States == {"absent", "shutoff", "running"}

\* The part of the type invariant that a reclaim touches.
NodeType ==
  /\ dom \in [VMs -> States]
  /\ owner \in [VMs -> {0} \cup Reqs]
  /\ dev \in SUBSET VMs /\ disk \in SUBSET VMs
  /\ entries \in SUBSET (Reqs \X VMs)
  /\ unfreed \in SUBSET VMs /\ strays \in SUBSET (Reqs \X VMs)

\* The reclaim of a VM keeps the node's types, whichever steps of it fail.
LEMMA ReclaimType ==
  ASSUME NEW d \in [VMs -> States], NEW v \in VMs, NEW found, NEW missed, NodeType,
         Reclaim(d, v, found, missed)
  PROVE  NodeType'
<1>1. PICK s \in AfterCleanup(d, v) : dom' = [d EXCEPT ![v] = s]
  BY DEF Reclaim
<1>2. s \in States
  BY <1>1 DEF AfterCleanup, States
<1>3. dom' \in [VMs -> States]
  BY <1>1, <1>2
<1>4. owner' \in [VMs -> {0} \cup Reqs]
  BY DEF Reclaim, NodeType
<1>5. dev' \in SUBSET VMs /\ disk' \in SUBSET VMs /\ unfreed' \in SUBSET VMs
  BY DEF Reclaim, FreeResources, NodeType
<1>6. entries' \in SUBSET (Reqs \X VMs) /\ strays' \in SUBSET (Reqs \X VMs)
  BY DEF Reclaim, RemoveEntries, NodeType
<1>7. QED
  BY <1>3, <1>4, <1>5, <1>6 DEF NodeType

\* A domain was defined by some request.  TypeOK alone is not inductive: a lease
\* names the request of its VM's domain.
Owned == \A v \in VMs : dom[v] # "absent" => owner[v] \in Reqs

\* A reclaim keeps Owned: it forgets the request only with the domain.
LEMMA ReclaimOwned ==
  ASSUME NEW d \in [VMs -> States], NEW v \in VMs, NEW found, NEW missed,
         NodeType, Owned,
         \A w \in VMs : d[w] # "absent" => dom[w] # "absent",
         Reclaim(d, v, found, missed)
  PROVE  Owned'
<1>1. PICK s \in AfterCleanup(d, v) : dom' = [d EXCEPT ![v] = s]
  BY DEF Reclaim
<1>2. s # "absent" => d[v] # "absent"
  BY <1>1 DEF AfterCleanup, States
<1>3. owner' = [owner EXCEPT ![v] = IF dom'[v] = "absent" THEN 0 ELSE owner[v]]
  BY DEF Reclaim
<1>4. QED
  BY <1>1, <1>2, <1>3 DEF Owned, NodeType

\* Every step keeps Owned.
LEMMA OwnedStep == TypeOK /\ Owned /\ [Next]_vars => Owned'
<1> SUFFICES ASSUME TypeOK, Owned, [Next]_vars PROVE Owned'
  OBVIOUS
<1>0. NodeType
  BY DEF TypeOK, NodeType, States
<1>1. ASSUME NEW q \in Reqs, NEW v \in VMs, StartVmByXml(q, v) PROVE Owned'
  <2>1. PICK s \in {"running", "shutoff", dom[v]} :
          /\ dom' = [dom EXCEPT ![v] = s]
          /\ owner' = [owner EXCEPT ![v] = IF s = dom[v] THEN owner[v] ELSE q]
    BY <1>1 DEF StartVmByXml
  <2>2. QED
    BY <2>1 DEF Owned, TypeOK
<1>2. ASSUME NEW q \in Reqs, NEW v \in VMs, CollectFailure(q, v) PROVE Owned'
  BY <1>0, <1>2, ReclaimOwned DEF CollectFailure, NodeType
<1>3. ASSUME NEW v \in VMs, UndeployCvm(v) PROVE Owned'
  <2> DEFINE d == [dom EXCEPT ![v] = "absent"]
  <2>1. /\ d \in [VMs -> States]
        /\ \A w \in VMs : d[w] # "absent" => dom[w] # "absent"
    BY <1>0 DEF NodeType, States
  <2>2. Reclaim(d, v, FoundEntries(v), MissedEntries(v))
    BY <1>3 DEF UndeployCvm
  <2> HIDE DEF d
  <2>3. QED
    BY <1>0, <2>1, <2>2, ReclaimOwned
<1>4. ASSUME NEW v \in VMs, UndeployCvmFails(v) PROVE Owned'
  <2>1. PICK d \in {dom, [dom EXCEPT ![v] = IF dom[v] = "running" THEN "shutoff" ELSE dom[v]]} :
          IF FoundEntries(v) # {}
          THEN Reclaim(d, v, FoundEntries(v), MissedEntries(v))
          ELSE dom' = d /\ UNCHANGED <<owner, resource, remains>>
    BY <1>4 DEF UndeployCvmFails
  <2>2. /\ d \in [VMs -> States]
        /\ \A w \in VMs : d[w] # "absent" => dom[w] # "absent"
    BY <1>0, <2>1 DEF NodeType, States
  <2>3. CASE FoundEntries(v) # {}
    BY <1>0, <2>1, <2>2, <2>3, ReclaimOwned
  <2>4. CASE FoundEntries(v) = {}
    BY <2>1, <2>2, <2>4 DEF Owned
  <2>5. QED
    BY <2>3, <2>4
<1>5. ASSUME NEW v \in VMs, StopCvm(v) \/ StartCvm(v) PROVE Owned'
  BY <1>5 DEF StopCvm, StartCvm, Owned, TypeOK
<1>6. ASSUME UNCHANGED <<dom, owner>> PROVE Owned'
  BY <1>6 DEF Owned
<1>7. QED
  BY <1>1, <1>2, <1>3, <1>4, <1>5, <1>6
     DEF Next, Work, Collect, AcceptDeploy, AllocateResources, ConfigureFails, CollectSuccess,
         Answer, GrantLease, ExpireLease, Crash, vars, domains

\* Every step keeps the types: one case per action.
LEMMA TypeStep == TypeOK /\ Owned /\ [Next]_vars => TypeOK'
<1> SUFFICES ASSUME TypeOK, Owned, [Next]_vars PROVE TypeOK'
  OBVIOUS
<1>0. NodeType
  BY DEF TypeOK, NodeType, States
<1>1. ASSUME NEW q \in Reqs, NEW vms \in SUBSET VMs, AcceptDeploy(q, vms) PROVE TypeOK'
  BY <1>1 DEF AcceptDeploy, TypeOK, domains, resource
<1>2. ASSUME NEW q \in Reqs, NEW v \in VMs, AllocateResources(q, v) PROVE TypeOK'
  <2>1. PICK got \in {"nothing", "devices", "entry", "disk"}, how \in {"failed", "raised"} :
          /\ worker' = [worker EXCEPT ![q][v] = IF got = "disk" THEN "waiting" ELSE how]
          /\ dev' = IF got = "nothing" THEN dev ELSE dev \cup {v}
          /\ entries' = IF got \in {"entry", "disk"} THEN WithEntry(q, v) ELSE entries
          /\ disk' = IF got = "disk" THEN disk \cup {v} ELSE disk
    BY <1>2 DEF AllocateResources
  <2>2. worker' \in [Reqs -> [VMs -> Workers]]
    BY <2>1 DEF TypeOK, Workers
  <2>3. dev' \in SUBSET VMs /\ disk' \in SUBSET VMs /\ entries' \in SUBSET (Reqs \X VMs)
    BY <2>1 DEF TypeOK, WithEntry
  <2>4. QED
    BY <1>2, <2>2, <2>3 DEF AllocateResources, TypeOK, Workers, request, domains, history, remains
<1>3. ASSUME NEW q \in Reqs, NEW v \in VMs, ConfigureFails(q, v) PROVE TypeOK'
  BY <1>3 DEF ConfigureFails, TypeOK, request, domains, resource, history, remains
<1>4. ASSUME NEW q \in Reqs, NEW v \in VMs, StartVmByXml(q, v) PROVE TypeOK'
  <2>1. PICK s \in {"running", "shutoff", dom[v]} :
          /\ worker' = [worker EXCEPT ![q][v] =
                          IF s = "running" /\ dom[v] = "absent" THEN "up" ELSE "failed"]
          /\ dom' = [dom EXCEPT ![v] = s]
          /\ owner' = [owner EXCEPT ![v] = IF s = dom[v] THEN owner[v] ELSE q]
    BY <1>4 DEF StartVmByXml
  <2>2. worker' \in [Reqs -> [VMs -> Workers]]
    BY <2>1 DEF TypeOK, Workers
  <2>3. dom' \in [VMs -> States] /\ owner' \in [VMs -> {0} \cup Reqs]
    BY <2>1 DEF TypeOK, States
  <2>4. QED
    BY <1>4, <2>2, <2>3 DEF StartVmByXml, TypeOK, Workers, States, request, resource, history, remains
<1>5. ASSUME NEW q \in Reqs, NEW v \in VMs, CollectSuccess(q, v) PROVE TypeOK'
  BY <1>5 DEF CollectSuccess, TypeOK, domains, resource, history, remains
<1>6. ASSUME NEW q \in Reqs, NEW v \in VMs, CollectFailure(q, v) PROVE TypeOK'
  <2>1. dom \in [VMs -> States]
    BY <1>0 DEF NodeType
  <2>2. NodeType'
    BY <1>0, <1>6, <2>1, ReclaimType DEF CollectFailure
  <2>3. phase' \in [Reqs -> Phases] /\ collected' \in [Reqs -> SUBSET VMs]
    BY <1>6 DEF CollectFailure, TypeOK, Phases
  <2>4. QED
    BY <1>6, <2>2, <2>3 DEF CollectFailure, TypeOK, NodeType, Phases, States, history
<1>7. ASSUME NEW q \in Reqs, Answer(q) PROVE TypeOK'
  BY <1>7 DEF Answer, TypeOK, domains, resource, history, remains
<1>8. ASSUME NEW v \in VMs, UndeployCvm(v) PROVE TypeOK'
  <2>1. [dom EXCEPT ![v] = "absent"] \in [VMs -> States]
    BY DEF TypeOK, States
  <2>2. NodeType'
    BY <1>0, <1>8, <2>1, ReclaimType DEF UndeployCvm
  <2>3. QED
    BY <1>8, <2>2 DEF UndeployCvm, TypeOK, NodeType, States, request
<1>9. ASSUME NEW v \in VMs, UndeployCvmFails(v) PROVE TypeOK'
  <2>1. PICK d \in {dom, [dom EXCEPT ![v] = IF dom[v] = "running" THEN "shutoff" ELSE dom[v]]} :
          IF FoundEntries(v) # {}
          THEN Reclaim(d, v, FoundEntries(v), MissedEntries(v))
          ELSE dom' = d /\ UNCHANGED <<owner, resource, remains>>
    BY <1>9 DEF UndeployCvmFails
  <2>2. d \in [VMs -> States]
    BY <2>1 DEF TypeOK, States
  <2>3. NodeType'
    <3>1. CASE FoundEntries(v) # {}
      BY <1>0, <2>1, <2>2, <3>1, ReclaimType
    <3>2. CASE FoundEntries(v) = {}
      BY <1>0, <2>1, <2>2, <3>2 DEF NodeType, resource, remains
    <3>3. QED
      BY <3>1, <3>2
  <2>4. QED
    BY <1>9, <2>3 DEF UndeployCvmFails, TypeOK, NodeType, States, request
<1>10. ASSUME NEW v \in VMs, StopCvm(v) \/ StartCvm(v) \/ GrantLease(v) PROVE TypeOK'
  <2>1. CASE StopCvm(v) \/ StartCvm(v)
    <3>1. CASE StopCvm(v)
      BY <3>1 DEF StopCvm, TypeOK, request, resource, remains
    <3>2. CASE StartCvm(v)
      BY <3>2 DEF StartCvm, TypeOK, request, resource, remains
    <3> QED
      BY <2>1, <3>1, <3>2
  <2>2. CASE GrantLease(v)
    <3>1. dom[v] = "running" /\ leases' = leases \cup {<<owner[v], v>>}
      BY <2>2 DEF GrantLease
    <3>2. QED
      BY <2>2, <3>1 DEF Owned, GrantLease, TypeOK, request, domains, resource, history, remains
  <2>3. QED
    BY <1>10, <2>1, <2>2
<1>11. ASSUME NEW e \in leases, ExpireLease(e) PROVE TypeOK'
  BY <1>11 DEF ExpireLease, TypeOK, request, domains, resource, history, remains
<1>12. CASE Crash
  BY <1>12 DEF Crash, TypeOK, domains, resource, history, remains
<1>13. CASE UNCHANGED vars
  BY <1>13 DEF vars, TypeOK, request, domains, resource, history, remains
<1>14. QED
  BY <1>1, <1>2, <1>3, <1>4, <1>5, <1>6, <1>7, <1>8, <1>9, <1>10, <1>11, <1>12, <1>13
     DEF Next, Work, Collect

\* The requests, the domains, the resources and the leases of a compute node keep
\* their types whatever requests, failures and crashes happen.
THEOREM TypeCorrect == Spec => []TypeOK
<1>1. Init => TypeOK
  BY VirtServiceAssumption DEF Init, TypeOK, Reqs
<1>2. Init => Owned
  BY DEF Init, Owned
<1>3. QED
  BY <1>1, <1>2, TypeStep, OwnedStep, PTL DEF Spec

-----------------------------------------------------------------------------
(***************************************************************************)
(* The answer of a deployment.  AnswerSound speaks of answered requests    *)
(* only; what it needs of a request before that is the progress of its     *)
(* loop over the futures.                                                  *)
(***************************************************************************)

\* A request not yet received has no VMs.
Fresh == \A q \in Reqs :
           phase[q] = "none" => asked[q] = {} /\ collected[q] = {} /\ listed[q] = {}

\* The VMs listed were asked for and are up.
ListedUp == \A q \in Reqs :
              /\ collected[q] \subseteq asked[q]
              /\ listed[q] \subseteq collected[q]
              /\ \A v \in listed[q] : worker[q][v] = "up"

\* As long as no failure was seen, every VM seen is listed.
AllListed == \A q \in Reqs : phase[q] = "collecting" => listed[q] = collected[q]

\* The loop is left early only for a VM that failed.
LeftForFailure == \A q \in Reqs :
                    phase[q] = "returning" =>
                      \E v \in asked[q] : worker[q][v] \in {"failed", "raised"}

AInv == TypeOK /\ Fresh /\ ListedUp /\ AllListed /\ LeftForFailure /\ AnswerSound

\* A worker that is done stays as it is; nothing else of the requests changes.
WorkerStep ==
  /\ UNCHANGED request
  /\ \A q \in Reqs, v \in VMs : Done(q, v) => worker'[q][v] = worker[q][v]

\* The three steps of a worker are such steps.
LEMMA WorkIsWorkerStep ==
  ASSUME TypeOK, NEW q \in Reqs, NEW v \in VMs, Work(q, v)
  PROVE  WorkerStep
<1>1. worker[q][v] \in {"submitted", "waiting"}
  BY DEF Work, AllocateResources, ConfigureFails, StartVmByXml
<1>2. \E x : worker' = [worker EXCEPT ![q][v] = x]
  <2>1. CASE AllocateResources(q, v)
    BY <2>1 DEF AllocateResources
  <2>2. CASE ConfigureFails(q, v)
    BY <2>2 DEF ConfigureFails
  <2>3. CASE StartVmByXml(q, v)
    BY <2>3, Zenon DEF StartVmByXml
  <2>4. QED
    BY <2>1, <2>2, <2>3 DEF Work
<1>3. UNCHANGED request
  BY DEF Work, AllocateResources, ConfigureFails, StartVmByXml
<1>4. QED
  BY <1>1, <1>2, <1>3 DEF WorkerStep, Done, TypeOK

\* Answers stay sound while the workers that are done stay as they are.
LEMMA AnswersKept ==
  ASSUME TypeOK, ListedUp, AnswerSound, UNCHANGED <<asked, listed>>,
         \A q \in Reqs : phase'[q] = "answered" => phase[q] = "answered",
         \A q \in Reqs, v \in VMs : Done(q, v) => worker'[q][v] = worker[q][v]
  PROVE  AnswerSound'
<1> SUFFICES ASSUME NEW q \in Reqs, phase'[q] = "answered"
             PROVE  /\ \A v \in listed[q] : worker'[q][v] = "up"
                    /\ (\A v \in asked[q] : worker'[q][v] = "up") => listed[q] = asked[q]
                    /\ \A v \in asked[q] : worker'[q][v] \in {"up", "failed", "raised"}
  BY DEF AnswerSound, Done
<1>1. /\ \A v \in listed[q] : worker[q][v] = "up"
      /\ (\A v \in asked[q] : worker[q][v] = "up") => listed[q] = asked[q]
      /\ \A v \in asked[q] : Done(q, v)
  BY DEF AnswerSound
<1>2. listed[q] \subseteq asked[q] /\ asked[q] \subseteq VMs
  BY DEF ListedUp, TypeOK
<1>3. \A v \in asked[q] : worker'[q][v] = worker[q][v]
  BY <1>1, <1>2
<1>4. QED
  BY <1>1, <1>2, <1>3 DEF Done

\* Such steps keep the invariant.
LEMMA WorkerStepKeeps == ASSUME AInv, TypeOK', WorkerStep PROVE AInv'
<1> USE DEF AInv, WorkerStep, request
<1>1. Fresh'
  BY DEF Fresh
<1>2. ListedUp'
  BY DEF ListedUp, Done, TypeOK
<1>3. AllListed'
  BY DEF AllListed
<1>4. LeftForFailure'
  <2> SUFFICES ASSUME NEW q \in Reqs, phase'[q] = "returning"
               PROVE  \E v \in asked'[q] : worker'[q][v] \in {"failed", "raised"}
    BY DEF LeftForFailure
  <2>1. PICK v \in asked[q] : worker[q][v] \in {"failed", "raised"}
    BY DEF LeftForFailure
  <2>2. v \in VMs
    BY <2>1 DEF TypeOK
  <2>3. worker'[q][v] = worker[q][v]
    BY <2>1, <2>2 DEF Done
  <2>4. v \in asked'[q]
    BY <2>1
  <2>5. QED
    BY <2>1, <2>3, <2>4
<1>5. AnswerSound'
  <2>1. UNCHANGED <<asked, listed, phase>>
    OBVIOUS
  <2>2. \A q \in Reqs : phase'[q] = "answered" => phase[q] = "answered"
    BY <2>1
  <2>3. QED
    BY <2>1, <2>2, AnswersKept
<1>6. QED
  BY <1>1, <1>2, <1>3, <1>4, <1>5

\* Every step keeps the invariant.
LEMMA AnswerStep == AInv /\ TypeOK' /\ [Next]_vars => AInv'
<1> SUFFICES ASSUME AInv, TypeOK', [Next]_vars PROVE AInv'
  OBVIOUS
<1> USE DEF AInv
<1>1. ASSUME NEW q \in Reqs, NEW vms \in SUBSET VMs, AcceptDeploy(q, vms) PROVE AInv'
  <2> USE <1>1 DEF AcceptDeploy, TypeOK
  <2>0. listed[q] = {} /\ collected[q] = {}
    BY DEF Fresh
  <2>1. Fresh'
    BY DEF Fresh
  <2>2. ListedUp'
    BY <2>0 DEF ListedUp
  <2>3. AllListed'
    BY <2>0 DEF AllListed
  <2>4. LeftForFailure'
    BY DEF LeftForFailure
  <2>5. AnswerSound'
    BY DEF AnswerSound, Done
  <2>6. QED
    BY <2>1, <2>2, <2>3, <2>4, <2>5
<1>2. ASSUME NEW q \in Reqs, NEW v \in VMs, CollectSuccess(q, v) PROVE AInv'
  <2> USE <1>2 DEF CollectSuccess, TypeOK
  <2>1. Fresh'
    BY DEF Fresh
  <2>2. ListedUp'
    BY DEF ListedUp
  <2>3. AllListed'
    BY DEF AllListed
  <2>4. LeftForFailure'
    BY DEF LeftForFailure
  <2>5. AnswerSound'
    BY DEF AnswerSound, Done
  <2>6. QED
    BY <2>1, <2>2, <2>3, <2>4, <2>5
<1>3. ASSUME NEW q \in Reqs, NEW v \in VMs, CollectFailure(q, v) PROVE AInv'
  <2>0. /\ phase[q] = "collecting" /\ v \in asked[q]
        /\ worker[q][v] \in {"failed", "raised"}
        /\ collected' = [collected EXCEPT ![q] = @ \cup {v}]
        /\ phase' = [phase EXCEPT ![q] = "returning"]
        /\ UNCHANGED <<asked, worker, listed>>
    BY <1>3 DEF CollectFailure
  <2> USE <2>0 DEF TypeOK
  <2>1. Fresh'
    BY DEF Fresh
  <2>2. ListedUp'
    BY DEF ListedUp
  <2>3. AllListed'
    BY DEF AllListed
  <2>4. LeftForFailure'
    BY DEF LeftForFailure
  <2>5. AnswerSound'
    BY DEF AnswerSound, Done
  <2>6. QED
    BY <2>1, <2>2, <2>3, <2>4, <2>5
<1>4. ASSUME NEW q \in Reqs, Answer(q) PROVE AInv'
  <2> USE <1>4 DEF Answer, TypeOK
  <2>1. Fresh'
    BY DEF Fresh
  <2>2. ListedUp'
    BY DEF ListedUp
  <2>3. AllListed'
    BY DEF AllListed
  <2>4. LeftForFailure'
    BY DEF LeftForFailure
  <2>5. /\ \A v \in listed[q] : worker[q][v] = "up"
        /\ (\A v \in asked[q] : worker[q][v] = "up") => listed[q] = asked[q]
        /\ \A v \in asked[q] : Done(q, v)
    <3>1. CASE phase[q] = "collecting" /\ collected[q] = asked[q]
      BY <3>1 DEF AllListed, ListedUp, Done
    <3>2. CASE phase[q] = "returning" /\ \A v \in asked[q] : Done(q, v)
      BY <3>2 DEF LeftForFailure, ListedUp
    <3>3. QED
      BY <3>1, <3>2
  <2>6. AnswerSound'
    BY <2>5 DEF AnswerSound, Done
  <2>7. QED
    BY <2>1, <2>2, <2>3, <2>4, <2>6
<1>5. CASE Crash
  <2> USE <1>5 DEF Crash, TypeOK
  <2>0. \A q \in Reqs, v \in VMs :
          Done(q, v) \/ ~Live(q) => worker'[q][v] = worker[q][v]
    BY Zenon
  <2>1. Fresh'
    BY DEF Fresh, Live
  <2>2. ListedUp'
    BY <2>0 DEF ListedUp, Done
  <2>3. AllListed'
    BY DEF AllListed, Live
  <2>4. LeftForFailure'
    BY DEF LeftForFailure, Live
  <2>5. AnswerSound'
    <3>1. \A q \in Reqs : phase'[q] = "answered" => phase[q] = "answered"
      BY DEF Live
    <3>2. QED
      BY <2>0, <3>1, AnswersKept
  <2>6. QED
    BY <2>1, <2>2, <2>3, <2>4, <2>5
<1>6. ASSUME NEW q \in Reqs, NEW v \in VMs, Work(q, v) PROVE AInv'
  BY <1>6, WorkIsWorkerStep, WorkerStepKeeps
<1>7. ASSUME UNCHANGED <<request, worker>> PROVE AInv'
  <2>1. WorkerStep
    BY <1>7 DEF WorkerStep
  <2>2. QED
    BY <2>1, WorkerStepKeeps
<1>8. QED
  BY <1>1, <1>2, <1>3, <1>4, <1>5, <1>6, <1>7
     DEF Next, Collect, UndeployCvm, UndeployCvmFails, StopCvm, StartCvm, GrantLease,
         ExpireLease, vars

\* What the manager may rely on: in every answered deployment the VMs listed were
\* started by that request, all of them if none failed, and all its workers are
\* done, however requests, undeployments and crashes overlap.
THEOREM AnswerSoundHolds == Spec => []AnswerSound
<1>1. Init => AInv
  <2>1. Init => TypeOK
    BY VirtServiceAssumption DEF Init, TypeOK, Reqs
  <2>2. QED
    BY <2>1 DEF Init, AInv, Fresh, ListedUp, AllListed, LeftForFailure, AnswerSound
<1>2. AInv => AnswerSound
  BY DEF AInv
<1>3. QED
  BY <1>1, <1>2, TypeCorrect, AnswerStep, PTL DEF Spec

-----------------------------------------------------------------------------
(***************************************************************************)
(* What a running VM has, and who answers for what an absent one has left. *)
(* Both follow the VM through the request that deploys it: as long as the  *)
(* VM is not contested, that is one request only.                          *)
(***************************************************************************)

\* Workers run for live requests and for the VMs these ask for.
WorkersLive ==
  \A q \in Reqs, v \in VMs :
    /\ worker[q][v] \in {"submitted", "waiting"} => Live(q) /\ v \in asked[q]
    /\ phase[q] = "none" => worker[q][v] = "none"

\* A VM that is not contested is deployed by one request at a time ...
OneDeploys ==
  \A v \in VMs \ contested : \A p, q \in Reqs :
    (Live(p) /\ Live(q) /\ v \in asked[p] /\ v \in asked[q]) => p = q

\* ... and does not run before that request has started it.
NotYetUp ==
  \A v \in VMs \ contested, q \in Reqs :
    (Live(q) /\ v \in asked[q]) =>
      /\ worker[q][v] = "failed" => dom[v] # "running"
      /\ worker[q][v] \in {"submitted", "waiting", "raised"} => dom[v] = "absent"

\* The host entry written by q for v is there, or a worker of q has raised.
EntryKept(q, v) == <<q, v>> \in entries \/ \E w \in VMs : worker[q][w] = "raised"

\* A worker that waits has its VM's devices, disk and entry.
Prepared ==
  \A v \in VMs \ contested, q \in Reqs :
    worker[q][v] = "waiting" => v \in dev /\ v \in disk /\ EntryKept(q, v)

\* A VM that runs has a disk; one that is defined and has a disk could run.
Held ==
  \A v \in VMs \ (contested \cup refused \cup unfreed) :
    /\ dom[v] = "running" => v \in disk
    /\ (dom[v] # "absent" /\ v \in disk) => v \in dev /\ EntryKept(owner[v], v)

IntactInv == WorkersLive /\ OneDeploys /\ NotYetUp /\ Prepared /\ Held

\* The futures that were seen are done, and the loop is left for one of them.
SeenDone ==
  \A q \in Reqs :
    /\ \A v \in collected[q] : v \in asked[q] /\ Done(q, v)
    /\ phase[q] = "returning" => \E v \in collected[q] : worker[q][v] \in {"failed", "raised"}

\* A live request has yet to see the future of v.
Pending(v) ==
  \E q \in Reqs : /\ Live(q) /\ v \in asked[q] \ collected[q]
                  /\ worker[q][v] \in {"submitted", "waiting", "failed", "raised"}

\* q was lost in a crash, or v was not the only VM that failed in it.
ExplainedBy(q, v) ==
  /\ v \in asked[q]
  /\ \/ phase[q] = "lost"
     \/ v \in Failed(q) /\ \E u \in Failed(q) : u # v

Explained(v) == \E q \in Reqs : ExplainedBy(q, v)

\* What an absent VM has is pending or explained.
Remains ==
  \A v \in (dev \cup disk) \ (contested \cup unfreed) :
    dom[v] = "absent" => Pending(v) \/ Explained(v)

LeakInv == SeenDone /\ Remains

\* A reclaim of v takes what v has, or records that it could not, and leaves the
\* other VMs alone.
LEMMA ReclaimEffect ==
  ASSUME NEW d \in [VMs -> States], NEW v \in VMs, NEW found, NEW missed, NodeType,
         Reclaim(d, v, found, missed)
  PROVE  /\ \A w \in VMs : w # v => /\ dom'[w] = d[w] /\ owner'[w] = owner[w]
                                    /\ (w \in dev' <=> w \in dev) /\ (w \in disk' <=> w \in disk)
                                    /\ (w \in unfreed' <=> w \in unfreed)
         /\ dev' \subseteq dev /\ disk' \subseteq disk
         /\ v \in unfreed' \/ (v \notin dev' /\ v \notin disk')
         /\ d[v] = "absent" => dom'[v] = "absent"
         /\ d[v] # "running" => dom'[v] # "running"
         /\ owner'[v] = IF dom'[v] = "absent" THEN 0 ELSE owner[v]
         /\ \A e \in entries : e \notin found => e \in entries'
         /\ entries' \subseteq entries
         /\ \A e \in entries' \ strays' : e \notin strays /\ e \notin found /\ e \notin missed
<1>1. PICK s \in AfterCleanup(d, v) : dom' = [d EXCEPT ![v] = s]
  BY DEF Reclaim
<1>2. (d[v] = "absent" => s = "absent") /\ (d[v] # "running" => s # "running")
  BY <1>1 DEF AfterCleanup, States
<1>3. /\ dev' \subseteq dev /\ disk' \subseteq disk
      /\ v \in unfreed' \/ (v \notin dev' /\ v \notin disk')
      /\ \A w \in VMs : w # v => /\ (w \in dev' <=> w \in dev) /\ (w \in disk' <=> w \in disk)
                                 /\ (w \in unfreed' <=> w \in unfreed)
  BY DEF Reclaim, FreeResources
<1>4. /\ \A e \in entries : e \notin found => e \in entries'
      /\ entries' \subseteq entries
      /\ \A e \in entries' \ strays' : e \notin strays /\ e \notin found /\ e \notin missed
  BY DEF Reclaim, RemoveEntries
<1>5. /\ \A w \in VMs : w # v => dom'[w] = d[w] /\ owner'[w] = owner[w]
      /\ owner'[v] = IF dom'[v] = "absent" THEN 0 ELSE owner[v]
  BY <1>1 DEF Reclaim, NodeType
<1>6. QED
  BY <1>1, <1>2, <1>3, <1>4, <1>5

\* An entry is kept while neither it nor an exception of its request goes away.
LEMMA EntryStays ==
  ASSUME NEW q, NEW v, EntryKept(q, v), <<q, v>> \in entries => <<q, v>> \in entries',
         \A w \in VMs : worker[q][w] = "raised" => worker'[q][w] = "raised"
  PROVE  EntryKept(q, v)'
BY DEF EntryKept

\* A step that changes no request and no worker keeps what is said of them, where
\* a VM that it names is contested if it is being deployed.
LEMMA OutsideStep ==
  ASSUME TypeOK, NEW v \in VMs, IntactInv, UNCHANGED <<request, worker>>,
         contested' = contested \cup ({v} \cap Deploying),
         \A w \in VMs : w # v => /\ dom'[w] = dom[w] /\ (w \in dev => w \in dev')
                                 /\ (w \in disk => w \in disk'),
         \A q \in Reqs, w \in VMs : w # v => (<<q, w>> \in entries => <<q, w>> \in entries')
  PROVE  /\ WorkersLive' /\ OneDeploys' /\ NotYetUp' /\ Prepared'
         /\ \A q \in Reqs : v \in asked[q] /\ Live(q) => v \in contested'
<1>1. \A q \in Reqs : v \in asked[q] /\ Live(q) => v \in contested'
  BY DEF Deploying
<1>2. phase' = phase /\ asked' = asked /\ worker' = worker /\ contested \subseteq contested'
      /\ \A q \in Reqs : Live(q)' <=> Live(q)
  BY DEF request, Live
<1>3. WorkersLive'
  BY <1>2 DEF IntactInv, WorkersLive
<1>4. OneDeploys'
  BY <1>2 DEF IntactInv, OneDeploys
<1>5. NotYetUp'
  BY <1>1, <1>2 DEF IntactInv, NotYetUp
<1>6. Prepared'
  <2> SUFFICES ASSUME NEW w \in VMs \ contested', NEW q \in Reqs, worker'[q][w] = "waiting"
               PROVE  w \in dev' /\ w \in disk' /\ EntryKept(q, w)'
    BY DEF Prepared
  <2>1. w \in dev /\ w \in disk /\ EntryKept(q, w) /\ Live(q) /\ w \in asked[q]
    BY <1>2 DEF IntactInv, Prepared, WorkersLive
  <2>2. w # v
    BY <1>1, <2>1
  <2>3. EntryKept(q, w)'
    BY <1>2, <2>1, <2>2, EntryStays
  <2>4. QED
    BY <2>1, <2>2, <2>3
<1>7. QED
  BY <1>1, <1>3, <1>4, <1>5, <1>6

\* Held, where only v may lose something.
LEMMA OutsideHeld ==
  ASSUME Owned, NEW v \in VMs, Held, contested \subseteq contested', refused \subseteq refused',
         \A w \in VMs : w # v => /\ dom'[w] = dom[w] /\ owner'[w] = owner[w]
                                 /\ (w \in dev => w \in dev') /\ (w \in disk <=> w \in disk')
                                 /\ (w \in unfreed => w \in unfreed'),
         \A q \in Reqs, w \in VMs : w # v /\ EntryKept(q, w) => EntryKept(q, w)',
         \/ v \in contested' \/ v \in refused' \/ v \in unfreed' \/ dom'[v] = "absent"
         \/ v \notin disk' /\ dom'[v] # "running"
         \/ v \in dev' /\ v \in disk' /\ EntryKept(owner[v], v)'
  PROVE  Held'
<1> SUFFICES ASSUME NEW w \in VMs \ (contested' \cup refused' \cup unfreed')
             PROVE  /\ dom'[w] = "running" => w \in disk'
                    /\ (dom'[w] # "absent" /\ w \in disk') => w \in dev' /\ EntryKept(owner[w], w)'
  BY DEF Held
<1>1. CASE w # v
  <2>0. w \in VMs \ (contested \cup refused \cup unfreed)
    BY <1>1
  <2>1. dom'[w] = "running" => w \in disk'
    BY <1>1, <2>0 DEF Held
  <2>2. ASSUME dom'[w] # "absent", w \in disk' PROVE w \in dev' /\ EntryKept(owner[w], w)'
    <3>1. w \in dev /\ EntryKept(owner[w], w) /\ owner[w] \in Reqs
      BY <1>1, <2>0, <2>2 DEF Held, Owned
    <3>2. QED
      BY <1>1, <3>1 DEF EntryKept
  <2>3. QED
    BY <2>1, <2>2
<1>2. CASE w = v
  BY <1>2
<1>3. QED
  BY <1>1, <1>2

\* A step of the worker of q for v: it has what it takes to go on, and its VM is
\* in the state that NotYetUp asks for.
LEMMA WorkStep ==
  ASSUME TypeOK, IntactInv, NEW q \in Reqs, NEW v \in VMs,
         worker[q][v] \in {"submitted", "waiting"},
         NEW x \in {"waiting", "up", "failed", "raised"},
         worker' = [worker EXCEPT ![q][v] = x], UNCHANGED <<phase, asked, contested>>,
         dev \subseteq dev', disk \subseteq disk', entries \subseteq entries',
         \A w \in VMs : w # v => dom'[w] = dom[w],
         x = "waiting" => v \in dev' /\ v \in disk' /\ <<q, v>> \in entries',
         v \notin contested => /\ x = "failed" => dom'[v] # "running"
                               /\ x \in {"waiting", "raised"} => dom'[v] = "absent"
  PROVE  /\ WorkersLive' /\ OneDeploys' /\ NotYetUp' /\ Prepared'
         /\ \A p \in Reqs, w \in VMs : EntryKept(p, w) => EntryKept(p, w)'
<1>1. \A p \in Reqs, w \in VMs :
        worker'[p][w] = IF p = q /\ w = v THEN x ELSE worker[p][w]
  BY DEF TypeOK
<1>2. Live(q) /\ v \in asked[q] /\ (\A p \in Reqs : Live(p)' <=> Live(p)) /\ phase[q] # "none"
  BY DEF IntactInv, WorkersLive, Live
<1>3. WorkersLive'
  BY <1>1, <1>2 DEF IntactInv, WorkersLive
<1>4. OneDeploys'
  BY <1>2 DEF IntactInv, OneDeploys
<1>5. NotYetUp'
  <2> SUFFICES ASSUME NEW w \in VMs \ contested, NEW p \in Reqs, Live(p), w \in asked[p]
               PROVE  /\ worker'[p][w] = "failed" => dom'[w] # "running"
                      /\ worker'[p][w] \in {"submitted", "waiting", "raised"} => dom'[w] = "absent"
    BY <1>2 DEF NotYetUp
  <2>1. CASE w = v
    <3>1. p = q
      BY <1>2, <2>1 DEF IntactInv, OneDeploys
    <3>2. QED
      BY <1>1, <2>1, <3>1
  <2>2. CASE w # v
    BY <1>1, <2>2 DEF IntactInv, NotYetUp
  <2>3. QED
    BY <2>1, <2>2
<1>6. \A p \in Reqs, w \in VMs : EntryKept(p, w) => EntryKept(p, w)'
  <2> SUFFICES ASSUME NEW p \in Reqs, NEW w \in VMs, EntryKept(p, w) PROVE EntryKept(p, w)'
    OBVIOUS
  <2>1. \A u \in VMs : worker[p][u] = "raised" => worker'[p][u] = "raised"
    BY <1>1
  <2>2. QED
    BY <2>1, EntryStays
<1>7. Prepared'
  <2> SUFFICES ASSUME NEW w \in VMs \ contested, NEW p \in Reqs, worker'[p][w] = "waiting"
               PROVE  w \in dev' /\ w \in disk' /\ EntryKept(p, w)'
    BY DEF Prepared
  <2>1. CASE p = q /\ w = v
    BY <1>1, <2>1 DEF EntryKept
  <2>2. CASE ~(p = q /\ w = v)
    <3>1. worker[p][w] = "waiting"
      BY <1>1, <2>2
    <3>2. w \in dev /\ w \in disk /\ EntryKept(p, w)
      BY <3>1 DEF IntactInv, Prepared
    <3>3. QED
      BY <1>6, <3>2
  <2>3. QED
    BY <2>1, <2>2
<1>8. QED
  BY <1>3, <1>4, <1>5, <1>6, <1>7

\* A request that is accepted finds its VMs absent, and takes over the ones that
\* no live request deploys.
LEMMA IntactAccept ==
  ASSUME TypeOK, Owned, IntactInv, NEW q \in Reqs, NEW vms \in SUBSET VMs, AcceptDeploy(q, vms)
  PROVE  IntactInv'
<1>0. /\ phase[q] = "none" /\ \A v \in vms : dom[v] = "absent"
      /\ contested' = (contested \ vms) \cup (vms \cap Deploying) /\ refused' = refused \ vms
      /\ unfreed' = unfreed \ vms /\ UNCHANGED <<dom, owner, dev, disk, entries>>
  BY DEF AcceptDeploy, domains, resource
<1>1. /\ \A p \in Reqs : p # q => phase'[p] = phase[p] /\ asked'[p] = asked[p]
      /\ phase'[q] = "collecting" /\ asked'[q] = vms
  BY DEF AcceptDeploy, TypeOK
<1>2. \A p \in Reqs, w \in VMs :
        worker'[p][w] = IF p = q THEN (IF w \in vms THEN "submitted" ELSE "none") ELSE worker[p][w]
  BY DEF AcceptDeploy, TypeOK
<1>3. /\ \A p \in Reqs : p # q => (Live(p)' <=> Live(p))
      /\ ~Live(q) /\ Live(q)' /\ \A w \in VMs : worker[q][w] = "none"
  BY <1>0, <1>1 DEF Live, IntactInv, WorkersLive
<1>4. /\ \A w \in vms \ contested', p \in Reqs : ~(Live(p) /\ w \in asked[p])
      /\ \A w \in VMs : w \notin vms /\ w \notin contested' => w \notin contested
      /\ \A w \in VMs : w \notin vms /\ w \notin refused' => w \notin refused
      /\ \A w \in VMs : w \notin vms /\ w \notin unfreed' => w \notin unfreed
  BY <1>0 DEF Deploying
<1>5. WorkersLive'
  BY <1>1, <1>2, <1>3 DEF IntactInv, WorkersLive
<1>6. OneDeploys'
  <2> SUFFICES ASSUME NEW w \in VMs \ contested', NEW p \in Reqs, NEW r \in Reqs,
                      Live(p)', Live(r)', w \in asked'[p], w \in asked'[r]
               PROVE  p = r
    BY DEF OneDeploys
  <2>1. CASE w \in vms
    BY <1>1, <1>3, <1>4, <2>1
  <2>2. CASE w \notin vms
    BY <1>1, <1>3, <1>4, <2>2 DEF IntactInv, OneDeploys
  <2>3. QED
    BY <2>1, <2>2
<1>7. NotYetUp'
  <2> SUFFICES ASSUME NEW w \in VMs \ contested', NEW p \in Reqs, Live(p)', w \in asked'[p]
               PROVE  /\ worker'[p][w] = "failed" => dom'[w] # "running"
                      /\ worker'[p][w] \in {"submitted", "waiting", "raised"} => dom'[w] = "absent"
    BY DEF NotYetUp
  <2>1. CASE w \in vms
    BY <1>0, <2>1
  <2>2. CASE w \notin vms
    BY <1>0, <1>1, <1>2, <1>3, <1>4, <2>2 DEF IntactInv, NotYetUp
  <2>3. QED
    BY <2>1, <2>2
<1>8. \A p \in Reqs, w \in VMs : EntryKept(p, w) => EntryKept(p, w)'
  <2> SUFFICES ASSUME NEW p \in Reqs, NEW w \in VMs, EntryKept(p, w) PROVE EntryKept(p, w)'
    OBVIOUS
  <2>1. \A u \in VMs : worker[p][u] = "raised" => worker'[p][u] = "raised"
    BY <1>2, <1>3
  <2>2. QED
    BY <1>0, <2>1, EntryStays
<1>9. Prepared'
  <2> SUFFICES ASSUME NEW w \in VMs \ contested', NEW p \in Reqs, worker'[p][w] = "waiting"
               PROVE  w \in dev' /\ w \in disk' /\ EntryKept(p, w)'
    BY DEF Prepared
  <2>1. worker[p][w] = "waiting"
    BY <1>2
  <2>2. Live(p) /\ w \in asked[p]
    BY <2>1 DEF IntactInv, WorkersLive
  <2>3. w \notin contested
    BY <1>4, <2>2
  <2>4. w \in dev /\ w \in disk /\ EntryKept(p, w)
    BY <2>1, <2>3 DEF IntactInv, Prepared
  <2>5. QED
    BY <1>0, <1>8, <2>4
<1>10. Held'
  <2> SUFFICES ASSUME NEW w \in VMs \ (contested' \cup refused' \cup unfreed'), dom[w] # "absent"
               PROVE  /\ dom[w] = "running" => w \in disk
                      /\ w \in disk => w \in dev /\ EntryKept(owner[w], w)'
    BY <1>0 DEF Held
  <2>1. w \in VMs \ (contested \cup refused \cup unfreed)
    BY <1>0, <1>4
  <2>2. (dom[w] = "running" => w \in disk) /\ (w \in disk => w \in dev /\ EntryKept(owner[w], w))
    BY <2>1 DEF IntactInv, Held
  <2>3. owner[w] \in Reqs /\ owner'[w] = owner[w]
    BY <1>0 DEF Owned
  <2>4. EntryKept(owner[w], w) => EntryKept(owner[w], w)'
    BY <1>8, <2>3 DEF EntryKept
  <2>5. QED
    BY <2>2, <2>4
<1>11. QED
  BY <1>5, <1>6, <1>7, <1>9, <1>10 DEF IntactInv

\* What a worker does.
LEMMA IntactWork ==
  ASSUME TypeOK, Owned, IntactInv, NEW q \in Reqs, NEW v \in VMs, Work(q, v)
  PROVE  IntactInv'
<1>0. Held
  BY DEF IntactInv
<1>1. CASE AllocateResources(q, v)
  <2>1. PICK got \in {"nothing", "devices", "entry", "disk"}, how \in {"failed", "raised"} :
          /\ worker' = [worker EXCEPT ![q][v] = IF got = "disk" THEN "waiting" ELSE how]
          /\ dev' = IF got = "nothing" THEN dev ELSE dev \cup {v}
          /\ entries' = IF got \in {"entry", "disk"} THEN WithEntry(q, v) ELSE entries
          /\ disk' = IF got = "disk" THEN disk \cup {v} ELSE disk
    BY <1>1 DEF AllocateResources
  <2>2. /\ worker[q][v] = "submitted"
        /\ UNCHANGED <<phase, asked, dom, owner, contested, refused, unfreed>>
    BY <1>1 DEF AllocateResources, request, domains, history, remains
  <2>3. v \notin contested => dom[v] = "absent"
    BY <2>2 DEF IntactInv, WorkersLive, NotYetUp
  <2>4. /\ dev \subseteq dev' /\ disk \subseteq disk' /\ entries \subseteq entries'
        /\ got = "disk" => v \in dev' /\ v \in disk' /\ <<q, v>> \in entries'
        /\ \A w \in VMs : w # v => (w \in disk <=> w \in disk')
    BY <2>1 DEF WithEntry
  <2>5. PICK x : /\ x = (IF got = "disk" THEN "waiting" ELSE how)
                 /\ x \in {"waiting", "up", "failed", "raised"} /\ (x = "waiting" => got = "disk")
    BY <2>1
  <2>6. worker' = [worker EXCEPT ![q][v] = x]
    BY <2>1, <2>5
  <2>7. /\ WorkersLive' /\ OneDeploys' /\ NotYetUp' /\ Prepared'
        /\ \A p \in Reqs, w \in VMs : EntryKept(p, w) => EntryKept(p, w)'
    BY <2>2, <2>3, <2>4, <2>5, <2>6, WorkStep
  <2>8. Held'
    BY <1>0, <2>2, <2>3, <2>4, <2>7, OutsideHeld
  <2>9. QED
    BY <2>7, <2>8 DEF IntactInv
<1>2. CASE ConfigureFails(q, v)
  <2>1. /\ worker[q][v] = "waiting" /\ worker' = [worker EXCEPT ![q][v] = "failed"]
        /\ UNCHANGED <<phase, asked, dom, owner, contested, refused, unfreed, dev, disk, entries>>
    BY <1>2 DEF ConfigureFails, request, domains, resource, history, remains
  <2>2. v \notin contested => dom[v] = "absent"
    BY <2>1 DEF IntactInv, WorkersLive, NotYetUp
  <2>3. /\ WorkersLive' /\ OneDeploys' /\ NotYetUp' /\ Prepared'
        /\ \A p \in Reqs, w \in VMs : EntryKept(p, w) => EntryKept(p, w)'
    BY <2>1, <2>2, WorkStep
  <2>4. Held'
    BY <1>0, <2>1, <2>2, <2>3, OutsideHeld
  <2>5. QED
    BY <2>3, <2>4 DEF IntactInv
<1>3. CASE StartVmByXml(q, v)
  <2>1. PICK s \in {"running", "shutoff", dom[v]} :
          /\ worker' = [worker EXCEPT ![q][v] =
                          IF s = "running" /\ dom[v] = "absent" THEN "up" ELSE "failed"]
          /\ dom' = [dom EXCEPT ![v] = s]
          /\ owner' = [owner EXCEPT ![v] = IF s = dom[v] THEN owner[v] ELSE q]
    BY <1>3 DEF StartVmByXml
  <2>2. /\ worker[q][v] = "waiting"
        /\ UNCHANGED <<phase, asked, contested, refused, unfreed, dev, disk, entries>>
    BY <1>3 DEF StartVmByXml, request, resource, history, remains
  <2>3. v \notin contested => dom[v] = "absent" /\ v \in dev /\ v \in disk /\ EntryKept(q, v)
    BY <2>2 DEF IntactInv, WorkersLive, NotYetUp, Prepared
  <2>4. PICK x : /\ x = (IF s = "running" /\ dom[v] = "absent" THEN "up" ELSE "failed")
                 /\ x \in {"up", "failed"}
                 /\ (v \notin contested /\ x = "failed" => s # "running")
    BY <2>1, <2>3
  <2>5. worker' = [worker EXCEPT ![q][v] = x]
    BY <2>1, <2>4
  <2>6. dom'[v] = s /\ \A w \in VMs : w # v => dom'[w] = dom[w] /\ owner'[w] = owner[w]
    BY <2>1 DEF TypeOK
  <2>7. /\ WorkersLive' /\ OneDeploys' /\ NotYetUp' /\ Prepared'
        /\ \A p \in Reqs, w \in VMs : EntryKept(p, w) => EntryKept(p, w)'
    BY <2>2, <2>4, <2>5, <2>6, WorkStep
  <2>8. \/ v \in contested' \/ dom'[v] = "absent"
        \/ v \in dev' /\ v \in disk' /\ EntryKept(owner[v], v)'
    <3>1. ASSUME v \notin contested, s # "absent" PROVE owner'[v] = q
      BY <2>1, <2>3, <3>1 DEF TypeOK
    <3>2. ASSUME v \notin contested PROVE EntryKept(q, v)'
      BY <2>3, <2>7, <3>2
    <3>3. QED
      BY <2>2, <2>3, <2>6, <3>1, <3>2 DEF EntryKept
  <2>9. Held'
    BY <1>0, <2>2, <2>6, <2>7, <2>8, OutsideHeld
  <2>10. QED
    BY <2>7, <2>9 DEF IntactInv
<1>4. QED
  BY <1>1, <1>2, <1>3 DEF Work

\* The reclaim of a VM that failed: no other worker is at it, and an entry that
\* it takes from another VM is taken because of an exception.
LEMMA IntactFailure ==
  ASSUME TypeOK, Owned, IntactInv, NEW q \in Reqs, NEW v \in VMs, CollectFailure(q, v)
  PROVE  IntactInv'
<1> DEFINE found == {<<q, IF worker[q][v] = "failed" THEN v ELSE ctx[q]>>}
<1>0. /\ phase[q] = "collecting" /\ v \in asked[q]
      /\ worker[q][v] \in {"failed", "raised"}
      /\ phase' = [phase EXCEPT ![q] = "returning"]
      /\ Reclaim(dom, v, found, {})
      /\ UNCHANGED <<asked, worker, contested, refused>>
  BY DEF CollectFailure, history
<1>1. NodeType /\ dom \in [VMs -> States]
  BY DEF TypeOK, NodeType, States
<1>2. \A p \in Reqs, w \in VMs :
        /\ w # v /\ <<p, w>> \in found => p = q /\ worker[q][v] = "raised"
  BY <1>0
<1> HIDE DEF found
<1>3. /\ \A w \in VMs : w # v => /\ dom'[w] = dom[w] /\ owner'[w] = owner[w]
                                 /\ (w \in dev' <=> w \in dev) /\ (w \in disk' <=> w \in disk)
                                 /\ (w \in unfreed' <=> w \in unfreed)
      /\ v \in unfreed' \/ (v \notin dev' /\ v \notin disk')
      /\ dom[v] = "absent" => dom'[v] = "absent"
      /\ dom[v] # "running" => dom'[v] # "running"
      /\ \A e \in entries : e \notin found => e \in entries'
  BY <1>0, <1>1, ReclaimEffect
<1>4. Live(q) /\ \A p \in Reqs : (Live(p)' <=> Live(p)) /\ (phase'[p] = "none" <=> phase[p] = "none")
  BY <1>0 DEF Live, TypeOK
<1>5. v \notin contested => dom[v] # "running"
  BY <1>0, <1>4 DEF IntactInv, NotYetUp
<1>6. WorkersLive' /\ OneDeploys'
  BY <1>0, <1>4 DEF IntactInv, WorkersLive, OneDeploys
<1>7. NotYetUp'
  BY <1>0, <1>3, <1>4 DEF IntactInv, NotYetUp
<1>8. \A p \in Reqs, w \in VMs : w # v /\ EntryKept(p, w) => EntryKept(p, w)'
  BY <1>0, <1>2, <1>3 DEF EntryKept
<1>9. Prepared'
  <2> SUFFICES ASSUME NEW w \in VMs \ contested, NEW p \in Reqs, worker[p][w] = "waiting"
               PROVE  w \in dev' /\ w \in disk' /\ EntryKept(p, w)'
    BY <1>0 DEF Prepared
  <2>1. w \in dev /\ w \in disk /\ EntryKept(p, w) /\ Live(p) /\ w \in asked[p]
    BY DEF IntactInv, Prepared, WorkersLive
  <2>2. w # v
    BY <1>0, <1>4, <2>1 DEF IntactInv, OneDeploys
  <2>3. QED
    BY <1>3, <1>8, <2>1, <2>2
<1>10. Held'
  BY <1>0, <1>3, <1>5, <1>8, OutsideHeld DEF IntactInv
<1>11. QED
  BY <1>6, <1>7, <1>9, <1>10 DEF IntactInv

\* The requests of users for one VM.
LEMMA IntactOutside ==
  ASSUME TypeOK, Owned, IntactInv, NEW v \in VMs,
         UndeployCvm(v) \/ UndeployCvmFails(v) \/ StopCvm(v) \/ StartCvm(v)
  PROVE  IntactInv'
<1>0. Held /\ NodeType
  BY DEF IntactInv, TypeOK, NodeType, States
<1>1. ASSUME UNCHANGED <<request, worker>>, contested' = contested \cup ({v} \cap Deploying),
             refused \subseteq refused',
             \A w \in VMs : w # v => /\ dom'[w] = dom[w] /\ owner'[w] = owner[w]
                                     /\ (w \in dev => w \in dev') /\ (w \in disk <=> w \in disk')
                                     /\ (w \in unfreed => w \in unfreed'),
             \A q \in Reqs, w \in VMs : w # v => (<<q, w>> \in entries => <<q, w>> \in entries'),
             \/ v \in contested' \/ v \in refused' \/ v \in unfreed' \/ dom'[v] = "absent"
             \/ v \in dev' /\ v \in disk' /\ EntryKept(owner[v], v)'
      PROVE  IntactInv'
  <2>1. WorkersLive' /\ OneDeploys' /\ NotYetUp' /\ Prepared'
    BY <1>1, OutsideStep
  <2>2. \A q \in Reqs, w \in VMs : w # v /\ EntryKept(q, w) => EntryKept(q, w)'
    BY <1>1 DEF EntryKept
  <2>3. Held'
    BY <1>0, <1>1, <2>2, OutsideHeld
  <2>4. QED
    BY <2>1, <2>3 DEF IntactInv
<1>2. ASSUME NEW d \in [VMs -> States], Reclaim(d, v, FoundEntries(v), MissedEntries(v)),
             \A w \in VMs : w # v => d[w] = dom[w]
      PROVE  /\ \A w \in VMs : w # v => /\ dom'[w] = dom[w] /\ owner'[w] = owner[w]
                                        /\ (w \in dev => w \in dev') /\ (w \in disk <=> w \in disk')
                                        /\ (w \in unfreed => w \in unfreed')
             /\ \A q \in Reqs, w \in VMs : w # v => (<<q, w>> \in entries => <<q, w>> \in entries')
             /\ d[v] = "absent" => dom'[v] = "absent"
  <2>1. \A q \in Reqs, w \in VMs : w # v => <<q, w>> \notin FoundEntries(v)
    BY DEF FoundEntries
  <2>2. QED
    BY <1>0, <1>2, <2>1, ReclaimEffect
<1>3. CASE UndeployCvm(v)
  <2> DEFINE d == [dom EXCEPT ![v] = "absent"]
  <2>1. /\ d \in [VMs -> States] /\ d[v] = "absent" /\ \A w \in VMs : w # v => d[w] = dom[w]
    BY DEF TypeOK, States
  <2>2. /\ Reclaim(d, v, FoundEntries(v), MissedEntries(v)) /\ UNCHANGED <<request, worker, refused>>
        /\ contested' = contested \cup ({v} \cap Deploying)
    BY <1>3 DEF UndeployCvm
  <2> HIDE DEF d
  <2>3. QED
    BY <1>1, <1>2, <2>1, <2>2
<1>4. CASE UndeployCvmFails(v)
  <2>1. PICK d \in {dom, [dom EXCEPT ![v] = IF dom[v] = "running" THEN "shutoff" ELSE dom[v]]} :
          IF FoundEntries(v) # {}
          THEN Reclaim(d, v, FoundEntries(v), MissedEntries(v))
          ELSE dom' = d /\ UNCHANGED <<owner, resource, remains>>
    BY <1>4 DEF UndeployCvmFails
  <2>2. /\ d \in [VMs -> States] /\ (dom[v] = "absent" => d[v] = "absent")
        /\ \A w \in VMs : w # v => d[w] = dom[w]
    BY <2>1 DEF TypeOK, States
  <2>3. /\ UNCHANGED <<request, worker>> /\ contested' = contested \cup ({v} \cap Deploying)
        /\ refused \subseteq refused' /\ (v \in refused' \/ dom[v] = "absent")
    BY <1>4 DEF UndeployCvmFails
  <2>4. CASE FoundEntries(v) # {}
    BY <1>1, <1>2, <2>1, <2>2, <2>3, <2>4
  <2>5. CASE FoundEntries(v) = {}
    <3>1. dom' = d /\ UNCHANGED <<owner, dev, disk, entries, unfreed>>
      BY <2>1, <2>5 DEF resource, remains
    <3>2. QED
      BY <1>1, <2>2, <2>3, <3>1
  <2>6. QED
    BY <2>4, <2>5
<1>5. CASE StopCvm(v) \/ StartCvm(v)
  <2>1. /\ dom[v] \in {"running", "shutoff"} /\ (dom[v] = "running" \/ v \in disk)
        /\ contested' = contested \cup ({v} \cap Deploying)
        /\ UNCHANGED <<request, worker, owner, dev, disk, entries, refused, unfreed>>
        /\ \A w \in VMs : w # v => dom'[w] = dom[w]
    BY <1>5 DEF StopCvm, StartCvm, TypeOK, resource, remains
  <2>2. \/ v \in contested' \/ v \in refused' \/ v \in unfreed'
        \/ v \in dev' /\ v \in disk' /\ EntryKept(owner[v], v)'
    <3>1. ASSUME v \notin contested, v \notin refused, v \notin unfreed
          PROVE  v \in dev /\ v \in disk /\ EntryKept(owner[v], v)
      BY <1>0, <2>1, <3>1 DEF Held
    <3>2. QED
      BY <2>1, <3>1 DEF EntryKept
  <2>3. QED
    BY <1>1, <2>1, <2>2
<1>6. QED
  BY <1>3, <1>4, <1>5

\* Every step keeps the invariant.
LEMMA IntactStep == AInv /\ Owned /\ IntactInv /\ [Next]_vars => IntactInv'
<1> SUFFICES ASSUME AInv, Owned, IntactInv, [Next]_vars PROVE IntactInv'
  OBVIOUS
<1>0. TypeOK
  BY DEF AInv
<1>1. ASSUME UNCHANGED <<phase, asked, worker, dom, owner, dev, disk, entries, contested, refused, unfreed>>
      PROVE  IntactInv'
  BY <1>1 DEF IntactInv, WorkersLive, OneDeploys, NotYetUp, Prepared, Held, EntryKept, Live
<1>2. ASSUME NEW q \in Reqs, Answer(q) PROVE IntactInv'
  <2>1. /\ phase' = [phase EXCEPT ![q] = "answered"]
        /\ UNCHANGED <<asked, worker, dom, owner, dev, disk, entries, contested, refused, unfreed>>
    BY <1>2 DEF Answer, domains, resource, history, remains
  <2>2. \A v \in asked[q] : Done(q, v)
    <3>1. CASE phase[q] = "collecting" /\ collected[q] = asked[q]
      BY <3>1 DEF AInv, AllListed, ListedUp, Done
    <3>2. QED
      BY <1>2, <3>1 DEF Answer
  <2>3. \A p \in Reqs : (p # q => phase'[p] = phase[p]) /\ phase'[q] = "answered"
    BY <1>0, <2>1 DEF TypeOK
  <2>4. \A p \in Reqs : (Live(p)' => Live(p)) /\ (p # q /\ Live(p) => Live(p)')
    BY <2>3 DEF Live
  <2>5. WorkersLive'
    BY <2>1, <2>2, <2>3, <2>4 DEF IntactInv, WorkersLive, Done
  <2>6. OneDeploys' /\ NotYetUp'
    BY <2>1, <2>4 DEF IntactInv, OneDeploys, NotYetUp
  <2>7. Prepared' /\ Held'
    BY <2>1 DEF IntactInv, Prepared, Held, EntryKept
  <2>8. QED
    BY <2>5, <2>6, <2>7 DEF IntactInv
<1>3. CASE Crash
  <2>1. UNCHANGED <<asked, dom, owner, dev, disk, entries, contested, refused, unfreed>>
    BY <1>3 DEF Crash, domains, resource, history, remains
  <2>2. \A p \in Reqs : phase'[p] = IF Live(p) THEN "lost" ELSE phase[p]
    BY <1>3 DEF Crash
  <2>3. \A p \in Reqs, w \in VMs :
          worker'[p][w] = IF Live(p) /\ ~Done(p, w) THEN "none" ELSE worker[p][w]
    BY <1>3, Zenon DEF Crash
  <2>4. \A p \in Reqs : ~Live(p)'
    BY <2>2 DEF Live
  <2>5. \A p \in Reqs, w \in VMs :
          /\ worker[p][w] = "raised" => worker'[p][w] = "raised"
          /\ worker'[p][w] \notin {"submitted", "waiting"}
          /\ phase'[p] = "none" => worker'[p][w] = "none"
    BY <2>2, <2>3 DEF Done, IntactInv, WorkersLive, Live
  <2>6. WorkersLive' /\ OneDeploys' /\ NotYetUp' /\ Prepared'
    BY <2>4, <2>5 DEF WorkersLive, OneDeploys, NotYetUp, Prepared
  <2>7. Held'
    <3> SUFFICES ASSUME NEW w \in VMs \ (contested \cup refused \cup unfreed), dom[w] # "absent"
                 PROVE  /\ dom[w] = "running" => w \in disk
                        /\ w \in disk => w \in dev /\ EntryKept(owner[w], w)'
      BY <2>1 DEF Held
    <3>1. /\ dom[w] = "running" => w \in disk
          /\ w \in disk => w \in dev /\ EntryKept(owner[w], w)
          /\ owner[w] \in Reqs
      BY DEF IntactInv, Held, Owned
    <3>2. QED
      BY <2>1, <2>5, <3>1 DEF EntryKept
  <2>8. QED
    BY <2>6, <2>7 DEF IntactInv
<1>4. ASSUME NEW q \in Reqs, NEW v \in VMs, CollectSuccess(q, v) PROVE IntactInv'
  BY <1>1, <1>4 DEF CollectSuccess, domains, resource, history, remains
<1>5. ASSUME NEW v \in VMs, GrantLease(v) PROVE IntactInv'
  BY <1>1, <1>5 DEF GrantLease, request, domains, resource, history, remains
<1>6. ASSUME NEW e \in leases, ExpireLease(e) PROVE IntactInv'
  BY <1>1, <1>6 DEF ExpireLease, request, domains, resource, history, remains
<1>7. CASE UNCHANGED vars
  BY <1>1, <1>7 DEF vars, request, domains, resource, history, remains
<1>8. QED
  BY <1>0, <1>2, <1>3, <1>4, <1>5, <1>6, <1>7,
     IntactAccept, IntactWork, IntactFailure, IntactOutside DEF Next, Collect

\* The initial states.
LEMMA IntactInit == Init => AInv /\ Owned /\ IntactInv
<1>1. Init => TypeOK
  BY VirtServiceAssumption DEF Init, TypeOK, Reqs
<1>2. Init => Owned
  BY DEF Init, Owned
<1>3. Init => AInv
  BY <1>1 DEF Init, AInv, Fresh, ListedUp, AllListed, LeftForFailure, AnswerSound
<1>4. Init => IntactInv
  BY DEF Init, IntactInv, WorkersLive, OneDeploys, NotYetUp, Prepared, Held, Live
<1>5. QED
  BY <1>2, <1>3, <1>4

\* A VM that runs has its disk and devices, and its host entry unless an exception
\* of its own request took it, as long as its requests did not overlap, no
\* undeployment of it failed and no cleanup of it left something behind.
THEOREM RunningIntactHolds == Spec => []RunningIntact
<1>1. IntactInv => RunningIntact
  BY DEF IntactInv, Held, EntryKept, RunningIntact
<1>2. AInv => TypeOK
  BY DEF AInv
<1>3. QED
  BY <1>1, <1>2, IntactInit, TypeCorrect, OwnedStep, AnswerStep, IntactStep, PTL DEF Spec

-----------------------------------------------------------------------------
(***************************************************************************)
(* What an absent VM has left.                                             *)
(***************************************************************************)

\* An explanation stays: workers that are done and lost requests do not change.
LEMMA ExplanationStays ==
  ASSUME NEW q \in Reqs, NEW v \in VMs, ExplainedBy(q, v),
         v \in asked[q] /\ phase[q] = "lost" => v \in asked'[q] /\ phase'[q] = "lost",
         \A w \in asked[q] :
           worker[q][w] \in {"failed", "raised"} => w \in asked'[q] /\ worker'[q][w] = worker[q][w]
  PROVE  ExplainedBy(q, v)'
<1>1. CASE phase[q] = "lost"
  BY <1>1 DEF ExplainedBy
<1>2. CASE v \in Failed(q) /\ \E u \in Failed(q) : u # v
  <2>1. \A w \in Failed(q) : w \in asked'[q] /\ worker'[q][w] \in {"failed", "raised"}
    BY DEF Failed
  <2>2. v \in Failed(q)' /\ (\E u \in Failed(q)' : u # v) /\ v \in asked'[q]
    BY <1>2, <2>1 DEF Failed
  <2>3. QED
    BY <2>2 DEF ExplainedBy
<1>3. QED
  BY <1>1, <1>2 DEF ExplainedBy

LEMMA ExplainedStays ==
  ASSUME TypeOK, NEW v \in VMs, Explained(v),
         \A q \in Reqs : v \in asked[q] /\ phase[q] = "lost" => v \in asked'[q] /\ phase'[q] = "lost",
         \A q \in Reqs : \A w \in asked[q] :
           worker[q][w] \in {"failed", "raised"} => w \in asked'[q] /\ worker'[q][w] = worker[q][w]
  PROVE  Explained(v)'
<1>1. PICK q \in Reqs : ExplainedBy(q, v)
  BY DEF Explained
<1>2. ExplainedBy(q, v)'
  BY <1>1, ExplanationStays
<1>3. QED
  BY <1>2 DEF Explained

\* A step that changes no request and no worker, and frees what a VM has, or fails
\* to, when its domain goes away.
LEMMA LeakOutside ==
  ASSUME TypeOK, LeakInv, UNCHANGED <<request, worker>>, contested \subseteq contested',
         dev' \subseteq dev, disk' \subseteq disk,
         \A w \in (dev' \cup disk') \ unfreed' :
           w \notin unfreed /\ (dom'[w] = "absent" => dom[w] = "absent")
  PROVE  LeakInv'
<1>1. phase' = phase /\ asked' = asked /\ collected' = collected /\ worker' = worker
  BY DEF request
<1>2. \A w : (Pending(w) <=> Pending(w)') /\ (Explained(w) <=> Explained(w)')
  BY <1>1 DEF Pending, Explained, ExplainedBy, Failed, Live
<1>3. SeenDone'
  BY <1>1 DEF LeakInv, SeenDone, Done
<1>4. Remains'
  BY <1>2 DEF LeakInv, Remains
<1>5. QED
  BY <1>3, <1>4 DEF LeakInv

\* A step of the worker of q for v: what it takes is pending until its future is seen.
LEMMA LeakWork ==
  ASSUME TypeOK, WorkersLive, LeakInv, NEW q \in Reqs, NEW v \in VMs,
         worker[q][v] \in {"submitted", "waiting"},
         NEW x \in {"waiting", "up", "failed", "raised"},
         worker' = [worker EXCEPT ![q][v] = x], UNCHANGED <<request, contested, unfreed>>,
         dev' \subseteq dev \cup {v}, disk' \subseteq disk \cup {v}, dev' \cup disk' \subseteq VMs,
         \A w \in VMs : w # v => dom'[w] = dom[w],
         x = "up" => dom'[v] # "absent"
  PROVE  LeakInv'
<1>1. phase' = phase /\ asked' = asked /\ collected' = collected
  BY DEF request
<1>2. \A p \in Reqs, w \in VMs :
        worker'[p][w] = IF p = q /\ w = v THEN x ELSE worker[p][w]
  BY DEF TypeOK
<1>3. \A p \in Reqs : asked[p] \subseteq VMs /\ collected[p] \subseteq VMs
  BY DEF TypeOK
<1>4. Live(q) /\ v \in asked[q] /\ v \notin collected[q] /\ \A p \in Reqs : Live(p)' <=> Live(p)
  BY <1>1 DEF WorkersLive, LeakInv, SeenDone, Done, Live
<1>5. SeenDone'
  <2>1. ASSUME NEW p \in Reqs, NEW w \in collected[p]
        PROVE  w \in asked[p] /\ Done(p, w) /\ worker'[p][w] = worker[p][w]
    BY <1>2, <1>3, <1>4, <2>1 DEF LeakInv, SeenDone
  <2>2. QED
    BY <1>1, <2>1 DEF LeakInv, SeenDone, Done
<1>6. Remains'
  <2> SUFFICES ASSUME NEW w \in (dev' \cup disk') \ (contested \cup unfreed), dom'[w] = "absent"
               PROVE  Pending(w)' \/ Explained(w)'
    BY DEF Remains
  <2>1. CASE w = v
    <3>1. worker'[q][v] \in {"submitted", "waiting", "failed", "raised"}
      BY <1>2, <2>1
    <3>2. QED
      BY <1>1, <1>4, <2>1, <3>1 DEF Pending
  <2>2. CASE w # v
    <3>0. w \in VMs /\ w \in (dev \cup disk) \ (contested \cup unfreed) /\ dom[w] = "absent"
      BY <2>2
    <3>1. Pending(w) \/ Explained(w)
      BY <3>0 DEF LeakInv, Remains
    <3>2. CASE Pending(w)
      <4>1. PICK p \in Reqs : /\ Live(p) /\ w \in asked[p] \ collected[p]
                              /\ worker[p][w] \in {"submitted", "waiting", "failed", "raised"}
        BY <3>2 DEF Pending
      <4>2. worker'[p][w] = worker[p][w]
        BY <1>2, <2>2, <3>0
      <4>3. QED
        BY <1>1, <1>4, <4>1, <4>2 DEF Pending
    <3>3. CASE Explained(w)
      <4>1. \A p \in Reqs : \A u \in asked[p] :
              worker[p][u] \in {"failed", "raised"} => worker'[p][u] = worker[p][u]
        BY <1>2, <1>3
      <4>2. QED
        BY <1>1, <3>0, <3>3, <4>1, ExplainedStays
    <3>4. QED
      BY <3>1, <3>2, <3>3
  <2>3. QED
    BY <2>1, <2>2
<1>7. QED
  BY <1>5, <1>6 DEF LeakInv

\* A request that is accepted is pending for its VMs.
LEMMA LeakAccept ==
  ASSUME AInv, WorkersLive, LeakInv, NEW q \in Reqs, NEW vms \in SUBSET VMs, AcceptDeploy(q, vms)
  PROVE  LeakInv'
<1>0. TypeOK /\ asked[q] = {} /\ collected[q] = {}
  BY DEF AInv, Fresh, AcceptDeploy
<1>1. /\ phase[q] = "none" /\ contested' = (contested \ vms) \cup (vms \cap Deploying)
      /\ unfreed' = unfreed \ vms /\ UNCHANGED <<collected, dom, dev, disk>>
  BY DEF AcceptDeploy, domains, resource
<1>2. /\ \A p \in Reqs : p # q => phase'[p] = phase[p] /\ asked'[p] = asked[p]
      /\ phase'[q] = "collecting" /\ asked'[q] = vms
  BY <1>0 DEF AcceptDeploy, TypeOK
<1>3. \A p \in Reqs, w \in VMs :
        worker'[p][w] = IF p = q THEN (IF w \in vms THEN "submitted" ELSE "none") ELSE worker[p][w]
  BY <1>0 DEF AcceptDeploy, TypeOK
<1>4. ~Live(q) /\ Live(q)' /\ \A p \in Reqs : p # q => (Live(p)' <=> Live(p))
  BY <1>1, <1>2 DEF Live
<1>5. \A p \in Reqs : asked[p] \subseteq VMs /\ collected[p] \subseteq VMs
  BY <1>0 DEF TypeOK
<1>6. SeenDone'
  <2> SUFFICES ASSUME NEW p \in Reqs
               PROVE  /\ \A w \in collected[p] : w \in asked'[p] /\ Done(p, w)'
                      /\ phase'[p] = "returning" =>
                           \E w \in collected[p] : worker'[p][w] \in {"failed", "raised"}
    BY <1>1 DEF SeenDone
  <2>1. CASE p = q
    BY <1>0, <1>2, <2>1
  <2>2. CASE p # q
    <3>1. \A w \in collected[p] : worker'[p][w] = worker[p][w]
      BY <1>3, <1>5, <2>2
    <3>2. QED
      BY <1>2, <2>2, <3>1 DEF LeakInv, SeenDone, Done
  <2>3. QED
    BY <2>1, <2>2
<1>7. Remains'
  <2> SUFFICES ASSUME NEW w \in (dev \cup disk) \ (contested' \cup unfreed'), dom[w] = "absent"
               PROVE  Pending(w)' \/ Explained(w)'
    BY <1>1 DEF Remains
  <2>0. w \in VMs
    BY <1>0 DEF TypeOK
  <2>1. CASE w \in vms
    <3>1. worker'[q][w] = "submitted"
      BY <1>3, <2>0, <2>1
    <3>2. QED
      BY <1>0, <1>1, <1>2, <1>4, <2>1, <3>1 DEF Pending
  <2>2. CASE w \notin vms
    <3>1. Pending(w) \/ Explained(w)
      BY <1>1, <2>2 DEF LeakInv, Remains
    <3>2. CASE Pending(w)
      <4>1. PICK p \in Reqs : /\ Live(p) /\ w \in asked[p] \ collected[p]
                              /\ worker[p][w] \in {"submitted", "waiting", "failed", "raised"}
        BY <3>2 DEF Pending
      <4>2. p # q
        BY <1>4, <4>1
      <4>3. worker'[p][w] = worker[p][w]
        BY <1>3, <2>0, <4>2
      <4>4. QED
        BY <1>1, <1>2, <1>4, <4>1, <4>2, <4>3 DEF Pending
    <3>3. CASE Explained(w)
      <4>1. \A p \in Reqs : w \in asked[p] /\ phase[p] = "lost" => w \in asked'[p] /\ phase'[p] = "lost"
        BY <1>0, <1>2
      <4>2. \A p \in Reqs : \A u \in asked[p] :
              worker[p][u] \in {"failed", "raised"} => u \in asked'[p] /\ worker'[p][u] = worker[p][u]
        BY <1>0, <1>2, <1>3, <1>5
      <4>3. QED
        BY <1>0, <2>0, <3>3, <4>1, <4>2, ExplainedStays
    <3>4. QED
      BY <3>1, <3>2, <3>3
  <2>3. QED
    BY <2>1, <2>2
<1>8. QED
  BY <1>6, <1>7 DEF LeakInv

\* A future that is seen: it was up, or what its VM has is freed.
LEMMA LeakCollect ==
  ASSUME AInv, LeakInv, NEW q \in Reqs, NEW v \in VMs, Collect(q, v)
  PROVE  LeakInv'
<1>0. TypeOK /\ NodeType /\ dom \in [VMs -> States]
  BY DEF AInv, TypeOK, NodeType, States
<1>1. /\ phase[q] = "collecting" /\ v \in asked[q] \ collected[q]
      /\ worker[q][v] \in {"up", "failed", "raised"}
      /\ collected' = [collected EXCEPT ![q] = @ \cup {v}]
      /\ UNCHANGED <<asked, worker, contested>>
  BY DEF Collect, CollectSuccess, CollectFailure, history
<1>2. /\ \A p \in Reqs : p # q => phase'[p] = phase[p]
      /\ \/ phase'[q] = "collecting" /\ worker[q][v] = "up" /\ UNCHANGED <<dom, dev, disk, unfreed>>
         \/ /\ phase'[q] = "returning" /\ worker[q][v] \in {"failed", "raised"}
            /\ dev' \subseteq dev /\ disk' \subseteq disk
            /\ v \in unfreed' \/ (v \notin dev' /\ v \notin disk')
            /\ \A w \in VMs : w # v => dom'[w] = dom[w] /\ (w \in unfreed' <=> w \in unfreed)
  <2>1. CASE CollectSuccess(q, v)
    BY <1>1, <2>1 DEF CollectSuccess, domains, resource, remains
  <2>2. CASE CollectFailure(q, v)
    <3>1. PICK found : Reclaim(dom, v, found, {})
      BY <2>2 DEF CollectFailure
    <3>2. /\ dev' \subseteq dev /\ disk' \subseteq disk
          /\ v \in unfreed' \/ (v \notin dev' /\ v \notin disk')
          /\ \A w \in VMs : w # v => dom'[w] = dom[w] /\ (w \in unfreed' <=> w \in unfreed)
      BY <1>0, <3>1, ReclaimEffect
    <3>3. phase' = [phase EXCEPT ![q] = "returning"] /\ worker[q][v] \in {"failed", "raised"}
      BY <2>2 DEF CollectFailure
    <3>4. QED
      BY <1>0, <3>2, <3>3 DEF TypeOK
  <2>3. QED
    BY <2>1, <2>2 DEF Collect
<1>3. \A p \in Reqs : /\ collected'[p] = IF p = q THEN collected[p] \cup {v} ELSE collected[p]
                      /\ Live(p)' <=> Live(p)
  BY <1>0, <1>1, <1>2 DEF TypeOK, Live
<1>4. SeenDone'
  <2> SUFFICES ASSUME NEW p \in Reqs
               PROVE  /\ \A w \in collected'[p] : w \in asked[p] /\ Done(p, w)
                      /\ phase'[p] = "returning" =>
                           \E w \in collected'[p] : worker[p][w] \in {"failed", "raised"}
    BY <1>1 DEF SeenDone, Done
  <2>1. CASE p = q
    BY <1>1, <1>2, <1>3, <2>1 DEF LeakInv, SeenDone, Done
  <2>2. CASE p # q
    BY <1>1, <1>2, <1>3, <2>2 DEF LeakInv, SeenDone, Done
  <2>3. QED
    BY <2>1, <2>2
<1>5. Remains'
  <2> SUFFICES ASSUME NEW w \in (dev' \cup disk') \ (contested \cup unfreed'), dom'[w] = "absent"
               PROVE  Pending(w)' \/ Explained(w)'
    BY <1>1 DEF Remains
  <2>1. /\ w \in VMs /\ w \in (dev \cup disk) \ (contested \cup unfreed) /\ dom[w] = "absent"
        /\ w = v => worker[q][v] = "up"
    BY <1>0, <1>2 DEF TypeOK
  <2>2. Pending(w) \/ Explained(w)
    BY <2>1 DEF LeakInv, Remains
  <2>3. CASE Pending(w)
    <3>1. PICK p \in Reqs : /\ Live(p) /\ w \in asked[p] \ collected[p]
                            /\ worker[p][w] \in {"submitted", "waiting", "failed", "raised"}
      BY <2>3 DEF Pending
    <3>2. w \notin collected'[p]
      BY <1>3, <2>1, <3>1
    <3>3. QED
      BY <1>1, <1>3, <3>1, <3>2 DEF Pending
  <2>4. CASE Explained(w)
    <3>1. \A p \in Reqs : phase[p] = "lost" => phase'[p] = "lost"
      BY <1>1, <1>2
    <3>2. QED
      BY <1>0, <1>1, <2>1, <2>4, <3>1, ExplainedStays
  <2>5. QED
    BY <2>2, <2>3, <2>4
<1>6. QED
  BY <1>4, <1>5 DEF LeakInv

\* An answer: a VM that failed unseen is not the only one that failed.
LEMMA LeakAnswer ==
  ASSUME TypeOK, LeakInv, NEW q \in Reqs, Answer(q)
  PROVE  LeakInv'
<1>1. /\ phase' = [phase EXCEPT ![q] = "answered"]
      /\ UNCHANGED <<asked, collected, worker, dom, dev, disk, contested, unfreed>>
      /\ \/ phase[q] = "collecting" /\ collected[q] = asked[q]
         \/ phase[q] = "returning" /\ \A v \in asked[q] : Done(q, v)
  BY DEF Answer, domains, resource, history, remains
<1>2. phase'[q] = "answered" /\ \A p \in Reqs : p # q => phase'[p] = phase[p]
  BY <1>1 DEF TypeOK
<1>3. SeenDone'
  BY <1>1, <1>2 DEF LeakInv, SeenDone, Done
<1>4. Remains'
  <2> SUFFICES ASSUME NEW w \in (dev \cup disk) \ (contested \cup unfreed), dom[w] = "absent"
               PROVE  Pending(w)' \/ Explained(w)'
    BY <1>1 DEF Remains
  <2>1. Pending(w) \/ Explained(w)
    BY DEF LeakInv, Remains
  <2>2. ASSUME NEW p \in Reqs, Live(p), w \in asked[p] \ collected[p],
               worker[p][w] \in {"submitted", "waiting", "failed", "raised"}
        PROVE  Pending(w)' \/ Explained(w)'
    <3>1. CASE p # q
      <4>1. Live(p)'
        BY <1>2, <2>2, <3>1 DEF Live
      <4>2. QED
        BY <1>1, <2>2, <4>1 DEF Pending
    <3>2. CASE p = q
      <4>1. phase[q] = "returning" /\ worker[q][w] \in {"failed", "raised"}
        BY <1>1, <2>2, <3>2 DEF Done
      <4>2. PICK u \in collected[q] : u \in asked[q] /\ worker[q][u] \in {"failed", "raised"}
        BY <4>1 DEF LeakInv, SeenDone
      <4>3. u # w /\ w \in Failed(q)' /\ u \in Failed(q)'
        BY <1>1, <2>2, <3>2, <4>1, <4>2 DEF Failed
      <4>4. QED
        BY <1>1, <2>2, <3>2, <4>3 DEF Explained, ExplainedBy
    <3>3. QED
      BY <3>1, <3>2
  <2>3. CASE Explained(w)
    <3>1. w \in VMs /\ \A p \in Reqs : phase[p] = "lost" => phase'[p] = "lost"
      BY <1>1, <1>2 DEF TypeOK
    <3>2. QED
      BY <1>1, <2>3, <3>1, ExplainedStays
  <2>4. QED
    BY <2>1, <2>2, <2>3 DEF Pending
<1>5. QED
  BY <1>3, <1>4 DEF LeakInv

\* A crash loses every request that was pending.
LEMMA LeakCrash == ASSUME TypeOK, LeakInv, Crash PROVE LeakInv'
<1>1. UNCHANGED <<asked, collected, dom, dev, disk, contested, unfreed>>
  BY DEF Crash, domains, resource, history, remains
<1>2. \A p \in Reqs : phase'[p] = IF Live(p) THEN "lost" ELSE phase[p]
  BY DEF Crash
<1>3. \A p \in Reqs, w \in VMs : Done(p, w) => worker'[p][w] = worker[p][w]
  BY Zenon DEF Crash
<1>4. \A p \in Reqs : asked[p] \subseteq VMs /\ collected[p] \subseteq VMs
  BY DEF TypeOK
<1>5. SeenDone'
  <2>1. \A p \in Reqs : phase'[p] # "returning"
    BY <1>2 DEF Live
  <2>2. \A p \in Reqs : \A w \in collected[p] : w \in asked[p] /\ Done(p, w)'
    BY <1>3, <1>4 DEF LeakInv, SeenDone, Done
  <2>3. QED
    BY <1>1, <2>1, <2>2 DEF SeenDone
<1>6. Remains'
  <2> SUFFICES ASSUME NEW w \in (dev \cup disk) \ (contested \cup unfreed), dom[w] = "absent"
               PROVE  Explained(w)'
    BY <1>1 DEF Remains
  <2>0. w \in VMs
    BY DEF TypeOK
  <2>1. CASE Pending(w)
    BY <1>1, <1>2, <2>1 DEF Pending, Explained, ExplainedBy
  <2>2. CASE Explained(w)
    <3>1. \A p \in Reqs : phase[p] = "lost" => phase'[p] = "lost"
      BY <1>2
    <3>2. \A p \in Reqs : \A u \in asked[p] :
            worker[p][u] \in {"failed", "raised"} => worker'[p][u] = worker[p][u]
      BY <1>3, <1>4 DEF Done
    <3>3. QED
      BY <1>1, <2>0, <2>2, <3>1, <3>2, ExplainedStays
  <2>3. QED
    BY <2>1, <2>2 DEF LeakInv, Remains
<1>7. QED
  BY <1>5, <1>6 DEF LeakInv

\* Every step keeps the invariant.
LEMMA LeakStep == AInv /\ TypeOK' /\ WorkersLive /\ LeakInv /\ [Next]_vars => LeakInv'
<1> SUFFICES ASSUME AInv, TypeOK', WorkersLive, LeakInv, [Next]_vars PROVE LeakInv'
  OBVIOUS
<1>0. TypeOK /\ NodeType /\ dev' \cup disk' \subseteq VMs
  BY DEF AInv, TypeOK, NodeType, States
<1>1. ASSUME NEW q \in Reqs, NEW v \in VMs, AllocateResources(q, v) PROVE LeakInv'
  <2>1. PICK got \in {"nothing", "devices", "entry", "disk"}, how \in {"failed", "raised"} :
          /\ worker' = [worker EXCEPT ![q][v] = IF got = "disk" THEN "waiting" ELSE how]
          /\ dev' = IF got = "nothing" THEN dev ELSE dev \cup {v}
          /\ disk' = IF got = "disk" THEN disk \cup {v} ELSE disk
    BY <1>1 DEF AllocateResources
  <2>2. worker[q][v] = "submitted" /\ UNCHANGED <<request, dom, contested, unfreed>>
    BY <1>1 DEF AllocateResources, domains, history, remains
  <2>3. PICK x \in {"waiting", "failed", "raised"} : worker' = [worker EXCEPT ![q][v] = x]
    BY <2>1
  <2>4. dev' \subseteq dev \cup {v} /\ disk' \subseteq disk \cup {v}
    BY <2>1
  <2>5. QED
    BY <1>0, <2>2, <2>3, <2>4, LeakWork
<1>2. ASSUME NEW q \in Reqs, NEW v \in VMs, ConfigureFails(q, v) PROVE LeakInv'
  <2>1. /\ worker[q][v] = "waiting" /\ worker' = [worker EXCEPT ![q][v] = "failed"]
        /\ UNCHANGED <<request, dom, dev, disk, contested, unfreed>>
    BY <1>2 DEF ConfigureFails, domains, resource, history, remains
  <2>2. QED
    BY <1>0, <2>1, LeakWork
<1>3. ASSUME NEW q \in Reqs, NEW v \in VMs, StartVmByXml(q, v) PROVE LeakInv'
  <2>1. PICK s \in {"running", "shutoff", dom[v]} :
          /\ worker' = [worker EXCEPT ![q][v] =
                          IF s = "running" /\ dom[v] = "absent" THEN "up" ELSE "failed"]
          /\ dom' = [dom EXCEPT ![v] = s]
    BY <1>3 DEF StartVmByXml
  <2>2. worker[q][v] = "waiting" /\ UNCHANGED <<request, dev, disk, contested, unfreed>>
    BY <1>3 DEF StartVmByXml, resource, history, remains
  <2>3. PICK x \in {"up", "failed"} : /\ worker' = [worker EXCEPT ![q][v] = x]
                                      /\ x = "up" => s = "running"
    BY <2>1
  <2>4. dom'[v] = s /\ \A w \in VMs : w # v => dom'[w] = dom[w]
    BY <1>0, <2>1 DEF TypeOK
  <2>5. QED
    BY <1>0, <2>2, <2>3, <2>4, LeakWork
<1>4. ASSUME NEW v \in VMs,
             UndeployCvm(v) \/ UndeployCvmFails(v) \/ StopCvm(v) \/ StartCvm(v)
      PROVE  LeakInv'
  <2>1. UNCHANGED <<request, worker>> /\ contested \subseteq contested'
    BY <1>4 DEF UndeployCvm, UndeployCvmFails, StopCvm, StartCvm
  <2>2. ASSUME NEW d \in [VMs -> States], NEW found, NEW missed,
               Reclaim(d, v, found, missed),
               \A w \in VMs : w # v => d[w] = dom[w]
        PROVE  LeakInv'
    <3>1. /\ dev' \subseteq dev /\ disk' \subseteq disk
          /\ v \in unfreed' \/ (v \notin dev' /\ v \notin disk')
          /\ \A w \in VMs : w # v => dom'[w] = dom[w] /\ (w \in unfreed' <=> w \in unfreed)
      BY <1>0, <2>2, ReclaimEffect
    <3>2. QED
      BY <1>0, <2>1, <3>1, LeakOutside
  <2>3. ASSUME UNCHANGED <<dev, disk, unfreed>>, \A w \in VMs : dom'[w] = "absent" => dom[w] = "absent"
        PROVE  LeakInv'
    BY <1>0, <2>1, <2>3, LeakOutside
  <2>4. CASE UndeployCvm(v)
    <3> DEFINE d == [dom EXCEPT ![v] = "absent"]
    <3>1. d \in [VMs -> States] /\ \A w \in VMs : w # v => d[w] = dom[w]
      BY <1>0 DEF NodeType, States
    <3>2. Reclaim(d, v, FoundEntries(v), MissedEntries(v))
      BY <2>4 DEF UndeployCvm
    <3> HIDE DEF d
    <3>3. QED
      BY <2>2, <3>1, <3>2
  <2>5. CASE UndeployCvmFails(v)
    <3>1. PICK d \in {dom, [dom EXCEPT ![v] = IF dom[v] = "running" THEN "shutoff" ELSE dom[v]]} :
            IF FoundEntries(v) # {}
            THEN Reclaim(d, v, FoundEntries(v), MissedEntries(v))
            ELSE dom' = d /\ UNCHANGED <<owner, resource, remains>>
      BY <2>5 DEF UndeployCvmFails
    <3>2. /\ d \in [VMs -> States] /\ \A w \in VMs : w # v => d[w] = dom[w]
          /\ \A w \in VMs : d[w] = "absent" => dom[w] = "absent"
      BY <1>0, <3>1 DEF NodeType, States
    <3>3. CASE FoundEntries(v) # {}
      BY <2>2, <3>1, <3>2, <3>3
    <3>4. CASE FoundEntries(v) = {}
      BY <2>3, <3>1, <3>2, <3>4 DEF resource, remains
    <3>5. QED
      BY <3>3, <3>4
  <2>6. CASE StopCvm(v) \/ StartCvm(v)
    <3>1. UNCHANGED <<dev, disk, unfreed>>
      BY <2>6 DEF StopCvm, StartCvm, resource, remains
    <3>2. \A w \in VMs : dom'[w] = "absent" => dom[w] = "absent"
      BY <1>0, <2>6 DEF StopCvm, StartCvm, NodeType
    <3>3. QED
      BY <2>3, <3>1, <3>2
  <2>7. QED
    BY <1>4, <2>4, <2>5, <2>6
<1>5. ASSUME UNCHANGED <<request, worker, dom, dev, disk, contested, unfreed>> PROVE LeakInv'
  BY <1>0, <1>5, LeakOutside
<1>6. ASSUME NEW v \in VMs, GrantLease(v) PROVE LeakInv'
  BY <1>5, <1>6 DEF GrantLease, domains, resource, history, remains
<1>7. ASSUME NEW e \in leases, ExpireLease(e) PROVE LeakInv'
  BY <1>5, <1>7 DEF ExpireLease, domains, resource, history, remains
<1>8. CASE UNCHANGED vars
  BY <1>5, <1>8 DEF vars, domains, resource, history, remains
<1>9. QED
  BY <1>0, <1>1, <1>2, <1>3, <1>4, <1>6, <1>7, <1>8,
     LeakAccept, LeakCollect, LeakAnswer, LeakCrash DEF Next, Work

-----------------------------------------------------------------------------
(***************************************************************************)
(* Host entries whose domain is gone.  The entry of a VM is looked for     *)
(* when its own request cleans it up or when it is undeployed.             *)
(***************************************************************************)

\* Only a domain has an owner, and a VM that is being deployed is owned by no
\* request but its own.
OwnDomain ==
  /\ \A v \in VMs : dom[v] = "absent" => owner[v] = 0
  /\ \A v \in VMs \ contested, q \in Reqs :
       Live(q) /\ v \in asked[q] => owner[v] \in {0, q}

\* q has yet to see the future of v, which is not up.
Awaited(q, v) == Live(q) /\ v \in asked[q] \ collected[q] /\ worker[q][v] # "up"

\* A host entry that no cleanup has left has its domain, is awaited or explained.
EntryRemains ==
  \A q \in Reqs, v \in VMs \ contested :
    <<q, v>> \in entries \ strays =>
      owner[v] = q \/ Awaited(q, v) \/ ExplainedBy(q, v) \/ worker[q][v] = "raised"

EntryInv == OwnDomain /\ EntryRemains

\* A step that changes no request and no worker: it leaves no entry of the VM it
\* names, or leaves that VM's owner.
LEMMA EntryOutside ==
  ASSUME TypeOK, EntryInv, NEW v \in VMs, UNCHANGED <<request, worker>>,
         contested \subseteq contested',
         \A q \in Reqs : v \in asked[q] /\ Live(q) => v \in contested' \/ UNCHANGED owner,
         entries' \subseteq entries, \A e \in entries' \ strays' : e \notin strays,
         \A w \in VMs : w # v => owner'[w] = owner[w],
         \A w \in VMs : dom'[w] = "absent" => owner'[w] = 0,
         UNCHANGED owner \/ \A q \in Reqs : <<q, v>> \notin entries' \ strays'
  PROVE  EntryInv'
<1>1. phase' = phase /\ asked' = asked /\ collected' = collected /\ worker' = worker
  BY DEF request
<1>2. \A q, w : /\ Live(q)' <=> Live(q)
                /\ Awaited(q, w)' <=> Awaited(q, w)
                /\ ExplainedBy(q, w)' <=> ExplainedBy(q, w)
  BY <1>1 DEF Awaited, ExplainedBy, Failed, Live
<1>3. OwnDomain'
  BY <1>1, <1>2 DEF EntryInv, OwnDomain
<1>4. EntryRemains'
  BY <1>1, <1>2 DEF EntryInv, EntryRemains
<1>5. QED
  BY <1>3, <1>4 DEF EntryInv

\* A step of the worker of q for v: its entry is awaited, or the domain is there.
LEMMA EntryWork ==
  ASSUME TypeOK, IntactInv, SeenDone, EntryInv, NEW q \in Reqs, NEW v \in VMs,
         worker[q][v] \in {"submitted", "waiting"},
         NEW x \in {"waiting", "up", "failed", "raised"},
         worker' = [worker EXCEPT ![q][v] = x], UNCHANGED <<request, contested, strays>>,
         entries' \subseteq entries \cup {<<q, v>>},
         \A w \in VMs : w # v => dom'[w] = dom[w] /\ owner'[w] = owner[w],
         \/ owner'[v] = owner[v] /\ (dom'[v] = "absent" => dom[v] = "absent") /\ x # "up"
         \/ owner'[v] = q /\ dom'[v] # "absent" /\ dom[v] = "absent"
  PROVE  EntryInv'
<1>1. phase' = phase /\ asked' = asked /\ collected' = collected /\ contested' = contested
  BY DEF request
<1>2. \A p \in Reqs, w \in VMs :
        worker'[p][w] = IF p = q /\ w = v THEN x ELSE worker[p][w]
  BY DEF TypeOK
<1>3. \A p \in Reqs : asked[p] \subseteq VMs
  BY DEF TypeOK
<1>4. Live(q) /\ v \in asked[q] /\ v \notin collected[q] /\ \A p \in Reqs : Live(p)' <=> Live(p)
  BY <1>1 DEF IntactInv, WorkersLive, SeenDone, Done, Live
<1>5. OwnDomain'
  <2>1. \A w \in VMs : dom'[w] = "absent" => owner'[w] = 0
    BY DEF EntryInv, OwnDomain
  <2>2. ASSUME NEW w \in VMs \ contested, NEW p \in Reqs, Live(p), w \in asked[p]
        PROVE  owner'[w] \in {0, p}
    <3>1. owner[w] \in {0, p}
      BY <2>2 DEF EntryInv, OwnDomain
    <3>2. w = v => p = q
      BY <1>4, <2>2 DEF IntactInv, OneDeploys
    <3>3. QED
      BY <3>1, <3>2
  <2>3. QED
    BY <1>1, <1>4, <2>1, <2>2 DEF OwnDomain
<1>6. EntryRemains'
  <2> SUFFICES ASSUME NEW p \in Reqs, NEW w \in VMs \ contested, <<p, w>> \in entries' \ strays
               PROVE  \/ owner'[w] = p \/ Awaited(p, w)' \/ ExplainedBy(p, w)'
                      \/ worker'[p][w] = "raised"
    BY <1>1 DEF EntryRemains
  <2>1. CASE p = q /\ w = v
    BY <1>1, <1>2, <1>4, <2>1 DEF Awaited
  <2>2. CASE ~(p = q /\ w = v)
    <3>0. worker'[p][w] = worker[p][w]
      BY <1>2, <2>2
    <3>1. owner[w] = p \/ Awaited(p, w) \/ ExplainedBy(p, w) \/ worker[p][w] = "raised"
      BY <2>2 DEF EntryInv, EntryRemains
    <3>2. CASE owner[w] = p
      <4>1. w = v => owner[v] # 0
        BY <3>2 DEF Reqs
      <4>2. dom[v] = "absent" => owner[v] = 0
        BY DEF EntryInv, OwnDomain
      <4>3. QED
        BY <3>2, <4>1, <4>2
    <3>3. CASE Awaited(p, w)
      BY <1>1, <1>4, <3>0, <3>3 DEF Awaited
    <3>4. CASE ExplainedBy(p, w)
      <4>1. \A u \in asked[p] : worker[p][u] \in {"failed", "raised"} => worker'[p][u] = worker[p][u]
        BY <1>2, <1>3
      <4>2. QED
        BY <1>1, <3>4, <4>1, ExplanationStays
    <3>5. QED
      BY <3>0, <3>1, <3>2, <3>3, <3>4
  <2>3. QED
    BY <2>1, <2>2
<1>7. QED
  BY <1>5, <1>6 DEF EntryInv

\* A request that is accepted finds its VMs without owner; what overlapping
\* requests have left is a stray from then on.
LEMMA EntryAccept ==
  ASSUME AInv, WorkersLive, EntryInv, NEW q \in Reqs, NEW vms \in SUBSET VMs, AcceptDeploy(q, vms)
  PROVE  EntryInv'
<1>0. TypeOK /\ asked[q] = {} /\ collected[q] = {}
  BY DEF AInv, Fresh, AcceptDeploy
<1>1. /\ phase[q] = "none" /\ contested' = (contested \ vms) \cup (vms \cap Deploying)
      /\ \A v \in vms : dom[v] = "absent"
      /\ strays' = strays \cup {e \in entries : e[2] \in vms \cap contested}
      /\ UNCHANGED <<collected, dom, owner, entries>>
  BY DEF AcceptDeploy, domains, resource
<1>2. /\ \A p \in Reqs : p # q => phase'[p] = phase[p] /\ asked'[p] = asked[p]
      /\ phase'[q] = "collecting" /\ asked'[q] = vms
  BY <1>0 DEF AcceptDeploy, TypeOK
<1>3. \A p \in Reqs, w \in VMs :
        worker'[p][w] = IF p = q THEN (IF w \in vms THEN "submitted" ELSE "none") ELSE worker[p][w]
  BY <1>0 DEF AcceptDeploy, TypeOK
<1>4. ~Live(q) /\ Live(q)' /\ \A p \in Reqs : p # q => (Live(p)' <=> Live(p))
  BY <1>1, <1>2 DEF Live
<1>5. \A w \in VMs : w \in vms /\ w \notin contested' => \A p \in Reqs : ~(Live(p) /\ w \in asked[p])
  BY <1>1 DEF Deploying
<1>6. OwnDomain'
  <2>1. \A w \in VMs : dom'[w] = "absent" => owner'[w] = 0
    BY <1>1 DEF EntryInv, OwnDomain
  <2>2. ASSUME NEW w \in VMs \ contested', NEW p \in Reqs, Live(p)', w \in asked'[p]
        PROVE  owner[w] \in {0, p}
    <3>1. CASE w \in vms
      BY <1>1, <3>1 DEF EntryInv, OwnDomain
    <3>2. CASE w \notin vms
      BY <1>1, <1>2, <1>4, <2>2, <3>2 DEF EntryInv, OwnDomain
    <3>3. QED
      BY <3>1, <3>2
  <2>3. QED
    BY <1>1, <2>1, <2>2 DEF OwnDomain
<1>7. EntryRemains'
  <2> SUFFICES ASSUME NEW p \in Reqs, NEW w \in VMs \ contested', <<p, w>> \in entries \ strays'
               PROVE  \/ owner[w] = p \/ Awaited(p, w)' \/ ExplainedBy(p, w)'
                      \/ worker'[p][w] = "raised"
    BY <1>1 DEF EntryRemains
  <2>0. <<p, w>>[2] = w
    OBVIOUS
  <2>1. w \notin contested /\ <<p, w>> \notin strays
    BY <1>1, <2>0
  <2>2. owner[w] = p \/ Awaited(p, w) \/ ExplainedBy(p, w) \/ worker[p][w] = "raised"
    BY <2>1 DEF EntryInv, EntryRemains
  <2>3. CASE p = q
    <3>1. ~Awaited(q, w) /\ ~ExplainedBy(q, w) /\ worker[q][w] = "none"
      BY <1>0, <1>1 DEF Awaited, ExplainedBy, WorkersLive
    <3>2. QED
      BY <2>2, <2>3, <3>1
  <2>4. CASE p # q
    <3>0. worker'[p][w] = worker[p][w]
      BY <1>3, <2>4
    <3>1. CASE Awaited(p, w)
      BY <1>1, <1>2, <1>4, <2>4, <3>0, <3>1 DEF Awaited
    <3>2. CASE ExplainedBy(p, w)
      <4>1. asked[p] \subseteq VMs
        BY <1>0 DEF TypeOK
      <4>2. \A u \in asked[p] : worker'[p][u] = worker[p][u]
        BY <1>3, <2>4, <4>1
      <4>3. QED
        BY <1>2, <2>4, <3>2, <4>2, ExplanationStays
    <3>3. QED
      BY <2>2, <3>0, <3>1, <3>2
  <2>5. QED
    BY <2>3, <2>4
<1>8. QED
  BY <1>6, <1>7 DEF EntryInv

\* A future that is seen: the domain is there, or the entry is removed, or could
\* not be, or the worker raised.
LEMMA EntryCollect ==
  ASSUME AInv, IntactInv, EntryInv, NEW q \in Reqs, NEW v \in VMs, Collect(q, v)
  PROVE  EntryInv'
<1>0. TypeOK /\ NodeType /\ dom \in [VMs -> States]
  BY DEF AInv, TypeOK, NodeType, States
<1>1. /\ phase[q] = "collecting" /\ v \in asked[q] \ collected[q]
      /\ collected' = [collected EXCEPT ![q] = @ \cup {v}]
      /\ UNCHANGED <<asked, worker, contested>>
  BY DEF Collect, CollectSuccess, CollectFailure, history
<1>2. /\ entries' \subseteq entries /\ \A e \in entries' \ strays' : e \notin strays
      /\ \A w \in VMs : w # v => dom'[w] = dom[w] /\ owner'[w] = owner[w]
      /\ \/ worker[q][v] = "up" /\ phase' = phase /\ UNCHANGED <<dom, owner>>
         \/ /\ worker[q][v] = "failed" => <<q, v>> \notin entries' \ strays'
            /\ worker[q][v] \in {"failed", "raised"}
            /\ phase' = [phase EXCEPT ![q] = "returning"]
            /\ dom[v] = "absent" => dom'[v] = "absent"
            /\ owner'[v] = IF dom'[v] = "absent" THEN 0 ELSE owner[v]
  <2>1. CASE CollectSuccess(q, v)
    BY <1>1, <2>1 DEF CollectSuccess, domains, resource, remains
  <2>2. CASE CollectFailure(q, v)
    <3> DEFINE found == {<<q, IF worker[q][v] = "failed" THEN v ELSE ctx[q]>>}
    <3>1. /\ Reclaim(dom, v, found, {}) /\ worker[q][v] \in {"failed", "raised"}
          /\ phase' = [phase EXCEPT ![q] = "returning"]
      BY <2>2 DEF CollectFailure
    <3>2. worker[q][v] = "failed" => <<q, v>> \in found
      OBVIOUS
    <3> HIDE DEF found
    <3>3. QED
      BY <1>0, <3>1, <3>2, ReclaimEffect
  <2>3. QED
    BY <2>1, <2>2 DEF Collect
<1>3. \A p \in Reqs : /\ collected'[p] = IF p = q THEN collected[p] \cup {v} ELSE collected[p]
                      /\ Live(p)' <=> Live(p)
                      /\ phase[p] = "lost" => phase'[p] = "lost"
  BY <1>0, <1>1, <1>2 DEF TypeOK, Live
<1>4. Live(q) /\ (v \notin contested => owner[v] \in {0, q})
  BY <1>1 DEF Live, EntryInv, OwnDomain
<1>5. OwnDomain'
  <2>1. \A w \in VMs : dom'[w] = "absent" => owner'[w] = 0
    BY <1>2 DEF EntryInv, OwnDomain
  <2>2. \A w \in VMs : owner'[w] \in {0, owner[w]}
    BY <1>2
  <2>3. QED
    BY <1>1, <1>3, <2>1, <2>2 DEF EntryInv, OwnDomain
<1>6. EntryRemains'
  <2> SUFFICES ASSUME NEW p \in Reqs, NEW w \in VMs \ contested, <<p, w>> \in entries' \ strays',
                      worker[p][w] # "raised"
               PROVE  owner'[w] = p \/ Awaited(p, w)' \/ ExplainedBy(p, w)'
    BY <1>1 DEF EntryRemains
  <2>1. <<p, w>> \in entries \ strays
    BY <1>2
  <2>2. owner[w] = p \/ Awaited(p, w) \/ ExplainedBy(p, w)
    BY <2>1 DEF EntryInv, EntryRemains
  <2>3. CASE ExplainedBy(p, w)
    BY <1>1, <1>3, <2>3, ExplanationStays
  <2>4. CASE Awaited(p, w)
    <3>1. w = v => p = q
      BY <1>1, <1>4, <2>4 DEF Awaited, IntactInv, OneDeploys
    <3>2. w # v
      BY <1>2, <2>4, <3>1 DEF Awaited
    <3>3. w \in asked'[p] /\ w \notin collected'[p]
      BY <1>1, <1>3, <2>4, <3>2 DEF Awaited
    <3>4. Live(p)' /\ worker'[p][w] # "up"
      BY <1>1, <1>3, <2>4 DEF Awaited
    <3>5. QED
      BY <3>3, <3>4 DEF Awaited
  <2>5. CASE owner[w] = p
    <3>1. w = v => p = q /\ worker[q][v] = "up"
      BY <1>2, <1>4, <2>5 DEF Reqs
    <3>2. QED
      BY <1>2, <2>5, <3>1
  <2>6. QED
    BY <2>2, <2>3, <2>4, <2>5
<1>7. QED
  BY <1>5, <1>6 DEF EntryInv

\* An answer or a crash: an entry that was awaited is explained.
LEMMA EntryEnd ==
  ASSUME TypeOK, SeenDone, EntryInv, (\E q \in Reqs : Answer(q)) \/ Crash
  PROVE  EntryInv'
<1>1. UNCHANGED <<asked, collected, dom, owner, contested, entries, strays>>
  BY DEF Answer, Crash, domains, resource, history, remains
<1>2. /\ \A p \in Reqs : (Live(p)' => Live(p)) /\ (phase[p] = "lost" => phase'[p] = "lost")
      /\ \A p \in Reqs, w \in VMs : Done(p, w) => worker'[p][w] = worker[p][w]
  <2>1. CASE Crash
    <3>1. \A p \in Reqs : phase'[p] = IF Live(p) THEN "lost" ELSE phase[p]
      BY <2>1 DEF Crash
    <3>2. \A p \in Reqs, w \in VMs : Done(p, w) => worker'[p][w] = worker[p][w]
      BY <2>1, Zenon DEF Crash
    <3>3. QED
      BY <3>1, <3>2 DEF Live
  <2>2. ASSUME NEW q \in Reqs, Answer(q)
        PROVE  /\ \A p \in Reqs : (Live(p)' => Live(p)) /\ (phase[p] = "lost" => phase'[p] = "lost")
               /\ worker' = worker
    BY <2>2 DEF Answer, TypeOK, Live
  <2>3. QED
    BY <2>1, <2>2
<1>3. \A p \in Reqs : asked[p] \subseteq VMs
  BY DEF TypeOK
<1>4. ASSUME NEW p \in Reqs, NEW w \in VMs, ExplainedBy(p, w) PROVE ExplainedBy(p, w)'
  BY <1>1, <1>2, <1>3, <1>4, ExplanationStays DEF Done
<1>5. ASSUME NEW p \in Reqs, NEW w \in VMs, Awaited(p, w)
      PROVE  Awaited(p, w)' \/ ExplainedBy(p, w)'
  <2>1. CASE Crash
    <3>1. phase'[p] = "lost"
      BY <1>5, <2>1 DEF Crash, Awaited
    <3>2. QED
      BY <1>1, <1>5, <3>1 DEF Awaited, ExplainedBy
  <2>2. ASSUME NEW q \in Reqs, Answer(q) PROVE Awaited(p, w)' \/ ExplainedBy(p, w)'
    <3>1. /\ phase' = [phase EXCEPT ![q] = "answered"] /\ worker' = worker
          /\ \/ phase[q] = "collecting" /\ collected[q] = asked[q]
             \/ phase[q] = "returning" /\ \A v \in asked[q] : Done(q, v)
      BY <2>2 DEF Answer
    <3>2. CASE p # q
      <4>1. phase'[p] = phase[p] /\ Live(p)'
        BY <1>5, <3>1, <3>2 DEF Awaited, Live, TypeOK
      <4>2. QED
        BY <1>1, <1>5, <3>1, <4>1 DEF Awaited
    <3>3. CASE p = q
      <4>1. phase[q] = "returning" /\ worker[q][w] \in {"failed", "raised"}
        BY <1>5, <3>1, <3>3 DEF Awaited, Done
      <4>2. PICK u \in collected[q] : u \in asked[q] /\ worker[q][u] \in {"failed", "raised"}
        BY <4>1 DEF SeenDone
      <4>3. u # w /\ w \in asked[q] /\ w \in Failed(q)' /\ u \in Failed(q)'
        BY <1>1, <1>5, <3>1, <3>3, <4>1, <4>2 DEF Failed, Awaited
      <4>4. QED
        BY <1>1, <3>3, <4>3 DEF ExplainedBy
    <3>4. QED
      BY <3>2, <3>3
  <2>3. QED
    BY <2>1, <2>2
<1>6. OwnDomain'
  BY <1>1, <1>2 DEF EntryInv, OwnDomain
<1>7. EntryRemains'
  <2> SUFFICES ASSUME NEW p \in Reqs, NEW w \in VMs \ contested, <<p, w>> \in entries \ strays
               PROVE  \/ owner[w] = p \/ Awaited(p, w)' \/ ExplainedBy(p, w)'
                      \/ worker'[p][w] = "raised"
    BY <1>1 DEF EntryRemains
  <2>1. owner[w] = p \/ Awaited(p, w) \/ ExplainedBy(p, w) \/ worker[p][w] = "raised"
    BY DEF EntryInv, EntryRemains
  <2>2. worker[p][w] = "raised" => worker'[p][w] = "raised"
    BY <1>2 DEF Done
  <2>3. QED
    BY <1>4, <1>5, <2>1, <2>2
<1>8. QED
  BY <1>6, <1>7 DEF EntryInv

\* An undeployment, a stop or a start.
LEMMA EntryUser ==
  ASSUME TypeOK, Owned, EntryInv, NEW v \in VMs,
         UndeployCvm(v) \/ UndeployCvmFails(v) \/ StopCvm(v) \/ StartCvm(v)
  PROVE  EntryInv'
<1>0. NodeType
  BY DEF TypeOK, NodeType, States
<1>1. UNCHANGED <<request, worker>> /\ contested' = contested \cup ({v} \cap Deploying)
  BY DEF UndeployCvm, UndeployCvmFails, StopCvm, StartCvm
<1>2. \A q \in Reqs : v \in asked[q] /\ Live(q) => v \in contested'
  BY <1>1 DEF Deploying
<1>3. ASSUME NEW d \in [VMs -> States], \A w \in VMs : w # v => d[w] = dom[w],
             Reclaim(d, v, FoundEntries(v), MissedEntries(v))
      PROVE  EntryInv'
  <2>1. /\ \A w \in VMs : w # v => dom'[w] = dom[w] /\ owner'[w] = owner[w]
        /\ owner'[v] = IF dom'[v] = "absent" THEN 0 ELSE owner[v]
        /\ entries' \subseteq entries
        /\ \A e \in entries' \ strays' :
             e \notin strays /\ e \notin FoundEntries(v) /\ e \notin MissedEntries(v)
    BY <1>0, <1>3, ReclaimEffect
  <2>2. \A q \in Reqs : <<q, v>> \in entries => <<q, v>> \in FoundEntries(v) \cup MissedEntries(v)
    BY DEF FoundEntries, MissedEntries
  <2>3. \A q \in Reqs : <<q, v>> \notin entries' \ strays'
    BY <2>1, <2>2
  <2>4. \A w \in VMs : dom'[w] = "absent" => owner'[w] = 0
    BY <2>1 DEF EntryInv, OwnDomain
  <2>5. QED
    BY <1>1, <1>2, <2>1, <2>3, <2>4, EntryOutside
<1>4. ASSUME UNCHANGED <<owner, entries, strays>>,
             \A w \in VMs : dom'[w] = "absent" => dom[w] = "absent"
      PROVE  EntryInv'
  <2>1. \A w \in VMs : dom'[w] = "absent" => owner'[w] = 0
    BY <1>4 DEF EntryInv, OwnDomain
  <2>2. QED
    BY <1>1, <1>2, <1>4, <2>1, EntryOutside
<1>5. CASE UndeployCvm(v)
  <2> DEFINE d == [dom EXCEPT ![v] = "absent"]
  <2>1. d \in [VMs -> States] /\ \A w \in VMs : w # v => d[w] = dom[w]
    BY <1>0 DEF NodeType, States
  <2>2. Reclaim(d, v, FoundEntries(v), MissedEntries(v))
    BY <1>5 DEF UndeployCvm
  <2> HIDE DEF d
  <2>3. QED
    BY <1>3, <2>1, <2>2
<1>6. CASE UndeployCvmFails(v)
  <2>1. PICK d \in {dom, [dom EXCEPT ![v] = IF dom[v] = "running" THEN "shutoff" ELSE dom[v]]} :
          IF FoundEntries(v) # {}
          THEN Reclaim(d, v, FoundEntries(v), MissedEntries(v))
          ELSE dom' = d /\ UNCHANGED <<owner, resource, remains>>
    BY <1>6 DEF UndeployCvmFails
  <2>2. /\ d \in [VMs -> States] /\ \A w \in VMs : w # v => d[w] = dom[w]
        /\ \A w \in VMs : d[w] = "absent" => dom[w] = "absent"
    BY <1>0, <2>1 DEF NodeType, States
  <2>3. CASE FoundEntries(v) # {}
    BY <1>3, <2>1, <2>2, <2>3
  <2>4. CASE FoundEntries(v) = {}
    BY <1>4, <2>1, <2>2, <2>4 DEF resource, remains
  <2>5. QED
    BY <2>3, <2>4
<1>7. CASE StopCvm(v) \/ StartCvm(v)
  <2>1. UNCHANGED <<owner, entries, strays>>
    BY <1>7 DEF StopCvm, StartCvm, resource, remains
  <2>2. \A w \in VMs : dom'[w] = "absent" => dom[w] = "absent"
    BY <1>0, <1>7 DEF StopCvm, StartCvm, NodeType
  <2>3. QED
    BY <1>4, <2>1, <2>2
<1>8. QED
  BY <1>5, <1>6, <1>7

\* Every step keeps the invariant.
LEMMA EntryStep ==
  AInv /\ Owned /\ IntactInv /\ LeakInv /\ EntryInv /\ [Next]_vars => EntryInv'
<1> SUFFICES ASSUME AInv, Owned, IntactInv, LeakInv, EntryInv, [Next]_vars PROVE EntryInv'
  OBVIOUS
<1>0. TypeOK /\ WorkersLive /\ SeenDone
  BY DEF AInv, IntactInv, LeakInv
<1>1. ASSUME NEW q \in Reqs, NEW v \in VMs, AllocateResources(q, v) PROVE EntryInv'
  <2>1. PICK got \in {"nothing", "devices", "entry", "disk"}, how \in {"failed", "raised"} :
          /\ worker' = [worker EXCEPT ![q][v] = IF got = "disk" THEN "waiting" ELSE how]
          /\ entries' = IF got \in {"entry", "disk"} THEN WithEntry(q, v) ELSE entries
    BY <1>1 DEF AllocateResources
  <2>2. worker[q][v] = "submitted" /\ UNCHANGED <<request, dom, owner, contested, strays>>
    BY <1>1 DEF AllocateResources, domains, history, remains
  <2>3. PICK x \in {"waiting", "failed", "raised"} : worker' = [worker EXCEPT ![q][v] = x]
    BY <2>1
  <2>4. entries' \subseteq entries \cup {<<q, v>>}
    BY <2>1 DEF WithEntry
  <2>5. QED
    BY <1>0, <2>2, <2>3, <2>4, EntryWork
<1>2. ASSUME NEW q \in Reqs, NEW v \in VMs, ConfigureFails(q, v) PROVE EntryInv'
  <2>1. /\ worker[q][v] = "waiting" /\ worker' = [worker EXCEPT ![q][v] = "failed"]
        /\ UNCHANGED <<request, dom, owner, entries, contested, strays>>
    BY <1>2 DEF ConfigureFails, domains, resource, history, remains
  <2>2. QED
    BY <1>0, <2>1, EntryWork
<1>3. ASSUME NEW q \in Reqs, NEW v \in VMs, StartVmByXml(q, v) PROVE EntryInv'
  <2>1. PICK s \in {"running", "shutoff", dom[v]} :
          /\ s # dom[v] => dom[v] = "absent"
          /\ worker' = [worker EXCEPT ![q][v] =
                          IF s = "running" /\ dom[v] = "absent" THEN "up" ELSE "failed"]
          /\ dom' = [dom EXCEPT ![v] = s]
          /\ owner' = [owner EXCEPT ![v] = IF s = dom[v] THEN owner[v] ELSE q]
    BY <1>3 DEF StartVmByXml
  <2>2. worker[q][v] = "waiting" /\ UNCHANGED <<request, entries, contested, strays>>
    BY <1>3 DEF StartVmByXml, resource, history, remains
  <2>3. PICK x \in {"up", "failed"} : /\ worker' = [worker EXCEPT ![q][v] = x]
                                      /\ x = "up" => s = "running" /\ dom[v] = "absent"
    BY <2>1
  <2>4. /\ dom'[v] = s /\ owner'[v] = (IF s = dom[v] THEN owner[v] ELSE q)
        /\ \A w \in VMs : w # v => dom'[w] = dom[w] /\ owner'[w] = owner[w]
    BY <1>0, <2>1 DEF TypeOK
  <2>5. \/ owner'[v] = owner[v] /\ (dom'[v] = "absent" => dom[v] = "absent") /\ x # "up"
        \/ owner'[v] = q /\ dom'[v] # "absent" /\ dom[v] = "absent"
    BY <2>1, <2>3, <2>4
  <2>6. QED
    BY <1>0, <2>2, <2>3, <2>4, <2>5, EntryWork
<1>4. ASSUME UNCHANGED <<request, worker, dom, owner, contested, entries, strays>> PROVE EntryInv'
  BY <1>4 DEF EntryInv, OwnDomain, EntryRemains, Awaited, ExplainedBy, Failed, Live, request
<1>5. ASSUME NEW v \in VMs, GrantLease(v) PROVE EntryInv'
  BY <1>4, <1>5 DEF GrantLease, domains, resource, history, remains
<1>6. ASSUME NEW e \in leases, ExpireLease(e) PROVE EntryInv'
  BY <1>4, <1>6 DEF ExpireLease, domains, resource, history, remains
<1>7. CASE UNCHANGED vars
  BY <1>4, <1>7 DEF vars, domains, resource, history, remains
<1>8. QED
  BY <1>0, <1>1, <1>2, <1>3, <1>5, <1>6, <1>7, EntryAccept, EntryCollect, EntryEnd, EntryUser
     DEF Next, Work

\* Two distinct members make two.
LEMMA TwoMembers ==
  ASSUME NEW S, IsFiniteSet(S), NEW u \in S, NEW v \in S, u # v
  PROVE  Cardinality(S) >= 2
<1>1. /\ Cardinality(S) \in Nat /\ IsFiniteSet(S \ {u})
      /\ Cardinality(S \ {u}) = Cardinality(S) - 1
  BY FS_CardinalityType, FS_RemoveElement
<1>2. Cardinality(S \ {u}) \in Nat /\ Cardinality(S \ {u}) # 0
  BY <1>1, FS_CardinalityType, FS_EmptySet
<1>3. QED
  BY <1>1, <1>2

\* What is explained was abandoned.
LEMMA ExplainedAbandoned ==
  ASSUME TypeOK, NEW q \in Reqs, NEW v \in VMs, ExplainedBy(q, v)
  PROVE  Abandoned(q, v)
<1>1. CASE phase[q] = "lost"
  BY <1>1 DEF ExplainedBy, Abandoned
<1>2. CASE v \in Failed(q) /\ \E u \in Failed(q) : u # v
  <2>1. Failed(q) \subseteq VMs
    BY DEF Failed, TypeOK
  <2>2. IsFiniteSet(Failed(q))
    BY <2>1, VirtServiceAssumption, FS_Subset
  <2>3. Cardinality(Failed(q)) >= 2
    BY <1>2, <2>2, TwoMembers
  <2>4. QED
    BY <1>2, <2>3 DEF ExplainedBy, Abandoned
<1>3. QED
  BY <1>1, <1>2 DEF ExplainedBy

\* What no live request answers for is explained.
LEMMA LeaksFollow == TypeOK /\ LeakInv /\ EntryInv => LeaksExplained
<1> SUFFICES ASSUME TypeOK, LeakInv, EntryInv PROVE LeaksExplained
  OBVIOUS
<1>1. ASSUME NEW v \in (dev \cup disk) \ (contested \cup Deploying \cup unfreed), dom[v] = "absent"
      PROVE  \E q \in Reqs : Abandoned(q, v)
  <2>1. v \in VMs /\ ~Pending(v)
    BY <1>1 DEF Pending, Deploying, TypeOK
  <2>2. PICK q \in Reqs : ExplainedBy(q, v)
    BY <1>1, <2>1 DEF LeakInv, Remains, Explained
  <2>3. QED
    BY <2>1, <2>2, ExplainedAbandoned
<1>2. ASSUME NEW q \in Reqs, NEW v \in VMs \ contested, <<q, v>> \in entries \ strays,
             ~Live(q), owner[v] # q
      PROVE  Abandoned(q, v) \/ worker[q][v] = "raised"
  BY <1>2, ExplainedAbandoned DEF EntryInv, EntryRemains, Awaited
<1>3. QED
  BY <1>1, <1>2 DEF LeaksExplained

\* Devices and disks of an absent VM, and host entries whose domain is gone, come
\* from a request in which two VMs failed or which a crash has lost, from a removal
\* that failed, or, for entries, from an exception or an undeployment that found no
\* lease; as long as the requests for the VM did not overlap.
THEOREM LeaksExplainedHolds == Spec => []LeaksExplained
<1>1. Init => LeakInv /\ EntryInv
  BY DEF Init, LeakInv, SeenDone, Remains, EntryInv, OwnDomain, EntryRemains, Live
<1>2. (AInv => TypeOK) /\ (IntactInv => WorkersLive)
  BY DEF AInv, IntactInv
<1>3. QED
  BY <1>1, <1>2, IntactInit, TypeCorrect, OwnedStep, AnswerStep, IntactStep, LeakStep, EntryStep,
     LeaksFollow, PTL DEF Spec
=============================================================================
