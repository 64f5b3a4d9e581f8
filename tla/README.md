# Verification of the virtCCA SDK

The repository holds the software around virtCCA confidential VMs. Its stateful
and concurrent programs are

- **virtcca_deploy** (Python): a manager with a database of nodes, VMs, tasks and
  network interfaces, and a compute service on every node that builds and removes
  confidential VMs through libvirt;
- **migcvm-agent** (C): runs in the migration CVM next to the source and next to
  the destination of a live migration; the two attest each other, exchange the
  migration session key and run the memory-integrity session of the guest;
- **virtcca-mig-agent** (C): the same role on the two hosts, over plain TLS;
- **attestation samples** (C): a client that verifies the token, the platform and
  the boot log of a server in a confidential VM.

This project models them in TLA+, checks the models with TLC on small instances
and proves the central invariants with TLAPS. `PROJECT.json` maps every definition
to its lines, and lists components, runs, mutants, hazards and theorems. Paths of
Python files below are relative to `src/virtcca_deploy/src/virtcca_deploy/`.

## 1. Inventory

| Component | State | Operations | Interaction |
|---|---|---|---|
| Manager handlers (`manager/manager.py`) | the stored deployment specification | set_node_deploy_config, deploy, undeploy, stop, start, queries | check, call VmService, return task ids at once |
| VmService, PreDeploymentChecker (`services/vm_service.py`) | tables Task, VmInstance | one greenlet per node and request | HTTP to the node, TaskService, IpAllocator |
| TaskService (`services/task_service.py`) | table Task | create, update status and parameters | handlers and greenlets |
| IpAllocator, NetworkConfigService (`services/`) | table network_config | upload, allocation per node, release per VM | handlers and greenlets |
| compute, virt_service (`compute/compute.py`, `services/virt_service.py`) | libvirt domains, DHCP entries and leases, disks, a thread pool per deployment | deploy_cvm, reclaim, undeploy, stop, start | libvirt, dnsmasq, qemu-img, device allocator |
| DeviceManagerAllocator (`services/resource_allocator.py`) | table device_allocation, sysfs | allocate, release, set up and reclaim VFs | virt_service |
| Configuration parser, node, software services, authentication | rows of their own | parsing, registration, upload, tokens | handlers |
| migcvm-agent: commands (`migcvm-agent.c`, `socket/`, `migcvm_tsi/`) | srv_ip and guest_rd kept between commands, migration slots | START_SERVER, START_CLIENT | vsock from the host, TSI ioctls, rats-tls |
| migcvm-agent: attestation (`rats_tls_handler.c`) | one session | requests for IMA log, boot log, disk key, session key | rats-tls |
| Verification (`attest/` of migcvm-agent, `samples/src/`) | token, registers, global template table | parse, verify signatures, components, IMA list, replay, firmware state | called by either client |
| Integrity session (both agents, `integrity_check_handler.c`) | two queues shared with the TMM, semaphores | io_thread, slave threads | TMM ioctl, TLS |
| virtcca-mig-agent (`mig_thread.c`, `tls_core.c`, `tmi.c`) | a shared TLS handle, descriptors, a name buffer | client and server thread, detached sessions | TMI ioctl, OpenSSL |
| Samples client and server (`client.c`, `server.c`), SDK | one connection, msg_id | DEVICE_CERT .. USE_FDE | plain TCP |
| rim_ref, full disk encryption, KDC, MPC, image_key, cvm-image-rewriter | files | hashes, scripts, wrappers | - |
| kata-cc0.8.0, kata-v3.15.0, SR-IOV | - | patches of other projects | - |

What is hard here:

- **Asynchrony.** A handler answers before its jobs have run; a migration CVM
  acknowledges START_SERVER before it listens; integrity sessions are detached
  and share a TLS handle with the connections that follow.
- **Failure.** HTTP requests have no timeout and may break while the node keeps
  executing them; the manager may die between two commits; libvirt calls fail one
  by one; a TCP stream is cut where a program expects a message; a peer closes.
- **Everyone waiting.** The integrity session writes in blocking mode from both
  ends; a side that cannot read a file may send nothing while the other waits.
- **State left over**: a bit word whose positions depend on the token, a name
  buffer nobody clears, a global template table, an event log saved by an earlier
  verification, msg_id after a failed read.
- **Resources in several places**: interface rows, devices, host entries, disks;
  no transaction spans two of them.

## 2. Modules

| Module | Models |
|---|---|
| `NetworkConfig` | the interface table, allocation and release as operators |
| `NetworkConfigService` | the table under uploads, allocations, releases, crashes |
| `TaskLifecycle` | abstract: what TaskService promises about one task |
| `VmService` | manager: handlers, jobs, database, crash; the nodes as the manager sees them; extends `NetworkConfig`, implements `TaskLifecycle` |
| `VirtService` | one compute node |
| `MigcvmAgent` | the client thread at the source CVM, the server thread at the destination CVM |
| `AttestSession` | one attestation session, of migcvm-agent or of the samples |
| `Verifier` | the verification inside such a session, in both programs |
| `IntegrityCheck` | the memory-integrity session, in both agents |
| `HostMigAgent` | the two host agents and their sessions |
| `...Proofs` | lemmas and theorems about the module of that name; `NetworkConfigProofs` serves the proofs of `NetworkConfigService` and of `VmService`, `MigcvmAgentProofs` has those of `AttestSession` too |
| `MC...` | instances for TLC |

The five C modules fit together by stages. `MigcvmAgent` takes one connection as
"key package sent" or "closed": `AttestSession` shows when either happens, and the
theorem `SessionIsConnection` that the two agree step by step.
`AttestSession` takes the verification as a verdict: `Verifier` computes it. After
the key both agents hand the connection to an io_thread: `IntegrityCheck`, of which
`MigcvmAgent` and `HostMigAgent` only see that it lasts and ends.

### NetworkConfig, NetworkConfigService

A row is `[node, vlan, num]`; MAC, address and gateway are payload. `status` and
`vm_id` change together, so a table maps a row to a VM or to `Unused`.
`CanAllocate` holds the checks of allocate_ips_for_deployment; `Allocate` is stated
without loops: the i-th VM takes the i-th free row of each of the `PfNum` smallest
VLANs. An upload clears and stores in two commits, and `Crash` may fall between.

### VmService

`spec`, `task`, `inst` and `table` are the database, `job` the program counter of a
task's greenlet, `won` its local success_vms; `request`, `accepted`, `reply` and
`host` are the network and the nodes. The manager runs one gevent worker, so
handlers and the stretch of a job between two network waits are not interleaved:
the guard `Idle` says so. A job still writes in several transactions, each a step
(`WriteParams`, `WriteStatus`, `WriteInstances`, `ReleaseIps`), so that `Crash` can
fall between them. An answered undeployment writes its status before its
parameters, other jobs the other way round, as in the code. `ConnectionLost` is the
except branch; the request may have been lost, be queued or be in execution.
`DeployVms` takes the workers of a deployment as one step; `VirtService` has them
one by one, and its `AnswerSound` is what this model assumes of an answer.
`abandoned` is a history variable.

### VirtService

A step ends where the code yields: at qemu-img, at the sleep before a domain is
started, at the futures. `worker` is the progress of `_deploy_single_vm`,
`collected` and `listed` the loop over as_completed, `ctx` the local variable that
survives from one iteration to the next. Reclaim deletes host entries, domain,
disks and devices, each step regardless of the others, and each may fail: the code
logs the exception and goes on (virt_service.py:540, 554, 572, 581). System and data
disk are one token, which stays if either does. `contested`, `refused`, `unfreed` (the
last cleanup of the VM left its disk or devices) and `strays` (host entries that a
cleanup missed or could not remove) are history variables; nothing reads them but the
properties.

### MigcvmAgent

A migration stands for its guest_rd and its key. Both threads take vsock commands
one at a time from `sQ` and `cQ`. The server thread acknowledges, listens, accepts,
receives the key (`server_saves_msk`, for receive_and_save_msk) and hands the listening socket to an
io_thread, which closes it at its end: `listener` says who holds it, because the
port stays taken until then. `srvIp` is args->srv_ip, kept from command to command.
`no_tsi_context` is the client's path on which `host_srv_ip` is freed without having
been set (migcvm-agent.c:309): the outcome is an answer or the end of the agent.
A server that lacks a TSI context leaves right after MIG_MSK_ACK, while the client
still works (`exch.st` is then "acked"): the client sends its package all the same.

### AttestSession

Both sides have a control point; `c2s` and `s2c` hold chunks, which are messages or,
where the receiver's buffer or TCP splits one, its head and tail. The options
(`ima`, `firmware`, `dump`, `fde`) are arguments of rats_tls_client_startup and
of the samples' command line; mig_agent_init leaves them off (migcvm-agent.c:121),
so the agent as shipped only exchanges the key, and the code is checked for all
combinations. Files of either side are absent, empty, ordinary or larger than the
buffer. Two facts of the code shape the model: a refused event-log size returns the
success code of the receive before it, so that verification goes on with the log an
earlier run saved (`oldLog`); and server.c keeps `msg_id` when a read fails.
receive_and_save_msk may return before it receives anything (`msk_without_context`,
rats_tls_handler.c:225), with its acknowledgement sent.

### Verifier

One verification after another, so that state kept between them (`sigFmt`, the
global ima-sig format that ima_measure.c:198 points into a template) is kept here.
`truth` holds the signature steps that really hold, and `verify_cca_token_signatures`
numbers the steps as the code does and reads the bits the code reads. Hashes are
ideal: a register is the sequence of what was folded into it. Claims are counted as
in token_parse.c, with a duplicate standing in for a missing one. So are the fields of
a software component, of which type and version are optional besides: a field the token
does not set reads as whatever malloc's memory held, any value of the reference file
included (`parse_claims_sw_comp`, `Readings`). The replay of the
event log (`replay_entry`) and the extraction of the firmware state
(`firmware_log_state_extract`, into `fw`) are one step per turn of their loops.

### IntegrityCheck

`pc` is the control point of io_thread at each end. Queue offsets are in units of a
header; `chan` holds the frames under way, `ChanCap` of which fit into the buffers
of one direction, and `headless` says that the header of the first was read. A write
waits for room (`SendBlocked`), and so does the close notification, which an end on its
way out sends from the control point "close". A payload that cannot be read ends the
session in the middle of a frame (`recv_payload_fails`). The TMM (external) may, inside the checksum ioctl,
fill the send queue, drain the receive queue and return any code. `variant` selects
the points at which the two programs differ. The full-queue loop of
handle_recv_event (`full_send`, `full_ioctl`) looks at neither the socket nor
TSI_ERROR_INPUT.

### HostMigAgent

Connections are numbered. `cSsl` and `sSsl` are the ssl of the one TLS handle that
all io_threads of an agent share, `fd0` who holds descriptor 0 of the client
(cleanup_client closes connd_fd, which a client never sets), `buf` is cvm_name: the
name arrives without its NUL and is looked up as a string. A failed negotiation frees
ssl, and virtcca_tls_cleanup frees it again (tls_core.c:150, 193); when the first connect
fails it frees one that was never set: the agent survives that or dies, and its
connections with it (`ClientAgentDies`, `spc` = "crashed").

## 3. Runs

| Run | Bounds | Distinct states | Shows |
|---|---|---|---|
| MCNetworkConfigService | 2 nodes, 3 VMs each, 10 rows in 4 and 2 VLANs, 2 interfaces per VM | 323 | an allocation gives each VM PfNum free rows of the same VLANs; uploads and crashes never take a used row |
| MCVmService | 1 node, 2 VMs, 3 tasks, 1 crash | 929,410 | no overlapping creations, no creation of a recorded VM, forgotten VMs have a cause, results agree with the status, TaskLifecycle is implemented |
| MCVmServiceRaces | 1 VM, 4 tasks, 1 crash | 678,937 | a recorded VM has its interfaces and exists, except after the overlaps the invariants name |
| MCVmServiceAbort | 2 nodes of 1 VM, interfaces on one only, 3 tasks each, 1 crash, fair | 54,363 | no interface is lost except by a deployment aborted on a later node; every task ends unless the manager crashes |
| MCVirtService | 2 VMs, 2 requests, 1 address, crashes, up to 3 faults | 3,427,450 | answers are sound, running VMs intact, remains have a cause |
| MCIntegrityCheck | queue of 3, fills of 1 to 3, 1 frame per direction, 3 and 2 fills | 1,601,323 | room when copied, frame boundaries, data before the close, the only lock-up |
| MCIntegrityCheckLiveness | 2 fills, 1 slave, fair | 109,271 | a peer and its slaves end |
| MCVerifier | 5 items per claim map, logs and IMA lists of 3 entries, fair | 238,194 | an accepted token, component list, IMA list and boot log is vouched for; verdicts are reached |
| MCAttestSession | every combination of options and files, fair | 89,770 | verdicts are trusted, keys are sent and stored as they should, sessions end, with the exceptions named |
| MCMigcvmAgent | 2 migrations, 2 commands of each kind, fair | 923,954 | whose key reaches which slot; every START_CLIENT is answered |
| MCHostMigAgent | 3 VMs, names of which one begins another, 4 connections, fair | 432,377 | keys for named VMs, handles and descriptors of sessions; the client comes back |
| MCVerifierCritical | 1 event, 2 IMA entries | (violation) | section 5 |

Why the bounds suffice. Overlap of deployments needs two tasks on one VM; a late
undeployment that hits a redeployed VM needs four (create, two deletes, create).
A partly failed deployment needs two VMs. One address for two VMs reaches
exhaustion. In `MCVirtService` a state with more than three overlaps, failed
undeployments, unfreed VMs and stray entries together is checked and not continued
(`FewFaults`): three reach any two kinds on one VM and another on the other, and the
theorems, which know no such bound, cover the rest. One crash reaches every point between two commits. In the integrity
session a queue of three units has an empty, a partly filled, an exactly full and a
one-short state for both lengths of frame, and a connection of one frame blocks at
once; the lock-up needs two fills on either side, and a slave meets only its own
master. In the verifier four mandatory claims and five items hold a missing, a
duplicate and an optional claim at a time; three events are a grub.cfg, a kernel and
an initramfs in any order; three IMA entries are one with a digest, one without and
one after it. A retry that meets the server of another migration needs two
migrations and two commands. A session must outlive two later connections to lose
descriptor 0 to one and close it under the other: four connections. VM names are
symmetric in `VirtService` only, and symmetry is used there.

Deadlock checking is off in the runs of the C programs: a session ends, and nothing
follows.

**Fairness.** `VmService`: gevent runs every ready greenlet, a node executes each
request it received; whether a connection breaks is free. `IntegrityCheck`: every
thread that can run does; nothing is assumed of the TMM. `Verifier`: one thread on
local files. `AttestSession`: each side's thread runs, a write to a peer that has
gone eventually fails (TCP resets it; the sample server dies of SIGPIPE), and a
missing event log is reported. `MigcvmAgent`, `HostMigAgent`: both threads run, and
a closed connection is noticed by who reads from it. Hosts, faults and the end of an
integrity session are never assumed: an io_thread may last for ever, and
`ClientsAnswered` says so.

**Exceptions named by properties.** Where the code leaves a case open the property
names it rather than leaving it out of the model:

- `FramingKept`: after TSI_ERROR_FAILED in the full-queue loop the server goes on
  with a payload unread.
- `MutualBlockOnlyMidFrame`: both ends can wait for each other's reads, but only
  out of the full-queue loop, after the case above, or when an end closes after a length
  it refused or a payload it could not read.
- `PeerEnds`: that loop never looks at the socket; `SlavesEnd`: a slave whose
  checksum call never succeeds repeats it.
- `MutualWaitExplained`: an empty IMA log or an unreadable key file.
- `SuccessSendsKey`: an event log refused for its size, or a key file longer than the
  buffer, leave the two sides out of step.
- `ForeignKeyExplained`: the key package carries no rd.
- `KeyForNamedVm`: the rest of a longer name may complete a shorter one.
- `ImaSound`: an entry without a digest is judged by the one before it.
- `ComponentsVouched` speaks of the fields the token set; the others are memory remains.
- `ClientsAnswered`: the agent may die without a TSI context.
- `NewestSessionIntact`: an older session loses its TLS object to the newer one.
- `VerdictReached`: an event log that ends in a fragment is read for ever.
- `RunningIntact`: a request repeated after a lost answer, or an undeployment that
  failed, takes disk and devices from a VM that runs; so does a cleanup that cannot destroy
  a domain it has to. After an exception without context deploy_cvm removes the host entry
  of the VM collected before (virt_service.py:1447).
- `LeaksExplained`: a second failure in one request and a crash leave everything behind;
  a removal or release that fails, what it should have removed; a host entry also stays
  when it has no lease at the undeployment, or when its worker raised.
- `UsedRowsStay`: a crash or a MAC listed twice between the two commits of an upload
  leaves the table empty; it had no used row.

## 4. Proofs

Every theorem holds for all constants that satisfy the named assumption of its
module. Each invariant is proved from an inductive one.

**VmServiceProofs**: `TypeCorrect`, the refinement `LifecycleImplemented`, and every
safety invariant the three runs check. In four layers:

- `NoOverlappingCreatesHolds`, `CreatingNotRecordedHolds`. `CreatingNotRecorded` is
  not inductive: a job writes records of VMs that another task, created while the
  first was waiting, might be creating. `IInv` adds that a task not yet created has
  no VMs and no job (`Unborn`), the place of a job determines the status of its task
  (`JobStatus`), a job that writes records has ended its task (`Written`), and what
  replies and jobs list are VMs of the task (`ReplyInTotal`, `WonInTotal`). While a
  job is between its reply and its end no handler runs; before that its task is
  active and the checks refuse its VMs. The refinement needs `JobStatus` too:
  `StartJob` is a Run step, `WriteStatus` an End step, all others stutter.
- `OutcomeConsistentHolds`. `JInv` says of each job what it has written and what it
  has yet to write, in the order of its kind (`ResultsOf`), when its request is with
  the node (`SentOf`), and what it took from its reply (`TakenOf`, `ClosedOf`). The
  effect of each write is a lemma of its own (`ParamsEffect` .. `CrashEffect`).
- `UntrackedExplainedHolds`, `RecordBackedHolds`. `Tracked` adds to the first the VMs
  between the answer and the record; `Backed` adds to the second the VMs that a node
  has listed and the manager has not recorded, because the workers of a lost deployment
  can remove a domain in that window.
- `RecordedHasInterfacesHolds`, `InterfacesAccountedHolds`. One job at a time is
  between its reply and its end (`OneBusy`). `Equipped` holds for recorded VMs and for
  those a deployment is creating or about to record; `ReleasesFailed` says that a
  deployment releases only VMs that are neither recorded nor being created, and
  `DeletesOnce` that an undeployment meets the records of its VMs unless another one
  named them too. `Accounted` adds the VMs whose rows the job has yet to release.

**NetworkConfigProofs** has what these proofs need of the table: `Allocate` gives
unused rows and leaves the others (`AllocateRows`), `Release` gives back exactly the
rows of its VMs (`ReleaseRows`), and every VM of an allocation that passes the checks
gets one row of each selected VLAN, so `PfNum` rows (`GivenShape`). The last rests on
`Positions`: ordered by distinct keys, the members of a finite set have the positions
0, 1, ... below its size.

**NetworkConfigServiceProofs**: `TypeCorrect`, `UsedRowsStayHolds` (the table is empty
between the two transactions of an upload), and `AllocationShapeHolds`, from
`GivenShape`.

**VirtServiceProofs**: `TypeCorrect` (with `Owned`: every domain was defined by some
request) and the three invariants of the run.

- `AnswerSoundHolds`. `AnswerSound` speaks of answered requests; `AInv` adds the
  progress of the loop before that: `Fresh`, `ListedUp`, `AllListed`,
  `LeftForFailure`. A worker that is done never changes again.
- `RunningIntactHolds`. `IntactInv`: a VM that is not contested is deployed by one
  live request at a time (`WorkersLive`, `OneDeploys`) and does not run before that
  request started it (`NotYetUp`); a worker that waits has its devices, disk and host
  entry (`Prepared`); a domain that has its disk has its devices (`Held`). The reclaim
  of a failed VM takes another VM's entry only after an exception.
- `LeaksExplainedHolds`. `LeakInv`: futures that were seen are done (`SeenDone`), and
  what an absent VM has is pending at a live request or explained (`Remains`). `EntryInv`
  says the same of host entries: one that is no stray is awaited by a live request, of
  the domain that request defined, or explained (`EntryRemains`); only a domain has an
  owner, and a VM being deployed is owned by no request but its own (`OwnDomain`).

**VerifierProofs**: `Typing` and the six safety properties of the run, for any claim
sets, component lists and events, and logs and lists of any length.
`FullTokenTheorem` rests on `CriticalRats` (with a platform token all seven bits are
read), `ComponentsTheorem` on the comparison of every field with one entry, whatever the
unset ones read as, `ClaimsTheorem` on `KeyPresent` (no signature holds with an unset key) and on
the length checks. `ReplayTheorem` needs `Replayed`: the first pass finds nothing to
fold in what it has read, and in the second every register is the fold of the part
read so far. `FirmwareTheorem` needs `Extracted`: what `fw` holds of the first n events
are the first grub.cfg, the first kernel after it and the first initramfs after that;
neither is an induction over data, because the loops are steps of the model.

**IntegrityCheckProofs**: `TypeCorrect`, `RoomWhenCopiedHolds`, `FramingHolds`,
`MutualBlockHolds`, `CloseAfterDataHolds`. The invariant says that an end between a header and its payload
has a frame in the channel (`MidFrame`) and, when it copies, room for it (`Room`); an
end that has not begun has sent nothing (`Fresh`); neither direction exceeds its
capacity (`Bounded`); and, for the lock-up, while both ends are between two
reads, or on their way out to the close notification, with no frame half read the two directions together hold less than twice the
capacity (`Slack`), because each end that writes has read before, or found nothing
to read. A step is shown to keep what concerns its own end (`Keeps`), and one lemma
(`EndStep`) combines that for both. `CloseAfterData` is an account of each direction
(`FlowInv`): every amount of data a TMM produced was delivered, is on its way or waits
in the send queue, a close notification is the last frame on its way, and an end that
stopped on one has a peer that has left its loop. The account is lost for good when
an end goes astray in its stream, but such an end never stops on a close notification.

**MigcvmAgentProofs**: `ForeignKeyHolds`, `SessionExclusiveHolds`. Every migration a
client works on was acknowledged (`Acknowledged`); an acknowledged server has
returned unless it is the running one (`Running`); the listening socket has one
holder (`Holder`). So a key stored in another slot is of a server that has returned.

The same module has the four invariants of `AttestSession`:
`ServerTrustsVerdictHolds`, `SuccessSendsKeyHolds`, `MutualWaitExplainedHolds`,
`StoredKeyExplainedHolds`, for both protocols. None is inductive, because each speaks of
an outcome and what decides it is in the streams; TLC checked `SessionInv` on the
instance of MCAttestSession before it was proved.

- Before its verdict a rats-tls client has at most one request or its reply under way
  (`Requests`); the one chunk that can be left over is the data of an event log refused
  for its size. Hence what a client that waits for MIG_MSK_ACK can find (`Replies`): the
  acknowledgement, that log, or the refusal of a key file that is too long. This is
  `SuccessSendsKey`.
- After ENABLE_FDE the next chunk is the key or, where the key file is unreadable, the
  announcement that may not be sent yet (`KeyOrder`, `KeyAt`): `StoredKeyExplained`.
- The announcement, its acknowledgement and the package are in transit as long as the
  peer waits for them (`Announced`); a samples client that reads has something in
  transit (`Samples`). With two empty streams only the three explained waits are left
  (`WaitsExplained`).
- A SUCCESS or a package in transit is of a client that verified, and a samples server
  that took SUCCESS from an uninitialised msg_id has nothing more to read (`Verdicts`):
  `ServerTrustsVerdict`.

`SessionIsConnection` is a refinement by steps. `Connection` instantiates `MigcvmAgent`
with one migration whose connection has been accepted, and with a mapping of the control
points and of `pkgSent` and `slot`. In a session without options, which is how the
agents run it, every step is `client_exchanges`, `server_saves_msk` or `server_fails`, or
is not seen; so before the client's part is over the server fails only right after its
acknowledgement, for want of a TSI context, and a client whose handler goes on to bind
the slot has sent the package. `Exchange` is the invariant
behind it, `AgentSteps` the list of the steps that are left. The mapping begins at the
accepted connection, so it says nothing of `AgentsInit`, and of `MigcvmAgent`'s faults
(a failed negotiation, for example) it needs only some.

**HostMigAgentProofs**: `KeyForNamedVmHolds`, `NewestSessionIntactHolds`,
`ForeignCloseHolds`. The invariant tracks which connections exist (`Opened`), that the
rd a server holds is of a VM whose name begins with the name sent (`Held`, from the
lemma `NameIsRead` about the buffer), whose TLS object the handles hold (`Handles`),
and that descriptor 0 is free or a connection's only after an earlier session has
ended (`Descriptor`).

**Only model-checked**: liveness (`EveryTaskEnds`, `PeerEnds`, `SlavesEnd`,
`VerdictReached`, `SessionEnds`, `ClientsAnswered`, `ClientReturns`): fairness and
ENABLED are outside this prover. Every invariant and every action property of the
passing runs is proved.

The assumptions are those the programs justify: finitely many nodes, VMs and interface
rows, rows told apart by node, VLAN and primary key (a table of the database), at least
one interface per VM, a queue of more than one header, a connection that holds at least
one frame.

## 5. Finding and observations

**MCVerifierCritical** expects a violation. The comment at
`src/migcvm-agent/src/attest/token_validate.c:874` says verification succeeds "if the
critical components pass: 1. CVM token signature verification ... 4. Certificate
chain validation". Without a platform token the steps take bits 0 to 4 and the
verdict reads bits 1 to 4: the CVM signature step is not read. In
`src/attestation/samples/src/token_validate.c:1025` the step after which `index` is not
advanced is the certificate chain, so the bit read for it is another's. With a
platform token migcvm-agent reads all seven bits: `FullTokenSound` holds.

Observed while modelling, without a run of their own:

- VMs of one node get different VLAN sets over several requests
  (network_config_service.py:74 says identical ones): the choice is among what is free.
- A specification replaced while a deployment is in flight passes
  check_config_conflict (manager.py:322), which looks at recorded VMs only.
- A failed undeployment is forgotten: the job looks for a key that compute.py:200
  never sends (vm_service.py:565). `UntrackedExplained` names the case.
- A DHCP host entry without a lease is never found again (virt_service.py:605).
- is_vm_exist looks at the first domain only (virt_service.py:1590).
- A source CVM marks its slot ready without a confirmation of the destination
  (migcvm-agent.c:262).

## 6. Not modelled

- Queries, printing, dumping, logging, option parsing, CPU affinity, timing records.
- Cryptography, X509, CBOR and JSON decoding: a verdict is an input, chosen where the
  program asks for it. OpenSSL, rats-tls, the TMM and the TMI are external.
- NUMA placement, XML and disk contents; the device allocator with its VFs and sysfs:
  a device is a token of `VirtService`.
- X509_new running out of memory in verify_cca_token_signatures: it jumps past the
  initialisation of the verdict that is then returned (token_validate.c:792-796, 952).
- The wait of migcvm-agent for the host's close after its answer (migcvm-agent.c:286,
  358): hosts are taken to close once they have it. A close notification is written in
  two parts and is one frame here.
- Database failures other than the insertion of a task; a crash in the middle of a
  handler (`InterfacesAccounted` is stated for runs without a crash).
- rim_ref: a sequential computation of hashes; its cJSON.c is vendored. The MPC
  middleware and its Python binding wrap a library that is not in the repository. KDC
  is a skeleton. The rest is scripts and patches of other projects.
- The components marked not_modelled in `PROJECT.json`, each with its reason.

## 7. What could follow

1. A refinement between `VmService` and `VirtService` (`DeployVms` as the abstraction of
   the workers).
2. A module for the device allocator.
3. A proof that the allocation of `NetworkConfig`, stated without loops, is what the
   loops of allocate_ips_for_deployment compute, with the loops as steps of a module.
